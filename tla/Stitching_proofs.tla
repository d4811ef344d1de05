-------------------------- MODULE Stitching_proofs --------------------------
(***************************************************************************)
(* The invariants of ResourceOrder and of Stitching, for every             *)
(* configuration and every policy.  The list is a topological order        *)
(* because no set of placed resources is circular, which every step keeps: *)
(* there is no induction over the list.  What the policy offers is a set;  *)
(* that the lists of the program hold that set, in the order of the        *)
(* preferences, goes operator by operator, from the members of a strict    *)
(* linear order and from one induction, over the lists that are            *)
(* concatenated.  Everything else follows from Inv, which says what init   *)
(* has done so far.                                                        *)
(***************************************************************************)
EXTENDS Stitching, TLAPS, FiniteSetTheorems

(***************************************************************************)
(* Places: minima, sorted sets, and what is picked from a list or          *)
(* concatenated.                                                           *)
(***************************************************************************)
\* A set of numbers has a least one.
LEMMA Least ==
  ASSUME NEW T, T \subseteq Nat, T # {}
  PROVE  \E x \in T : \A y \in T : x <= y
<1>1. PICK x \in T : \A y \in T : ~ (<<y, x>> \in OpToRel(<, Nat))
  BY NatLessThanWellFounded, WFMin
<1>2. \A y \in T : ~(y < x)
  BY <1>1 DEF OpToRel
<1> QED
  BY <1>2

\* The members of a strict linear order, by the number of those before them.
LEMMA SortedPlaces ==
  ASSUME NEW S, IsFiniteSet(S), NEW before \in [S -> SUBSET S],
         \A x \in S : x \notin before[x],
         \A x, y \in S : x # y => x \in before[y] \/ y \in before[x],
         \A x, y \in S : x \in before[y] => before[x] \subseteq before[y]
  PROVE  /\ Cardinality(S) \in Nat
         /\ Sorted(S, before) \in [1..Cardinality(S) -> S]
         /\ \A x \in S : \E i \in 1..Cardinality(S) : Sorted(S, before)[i] = x
         /\ \A i, j \in 1..Cardinality(S) :
              i < j => Sorted(S, before)[i] \in before[Sorted(S, before)[j]]
<1> DEFINE n == Cardinality(S)
           rank == [x \in S |-> Cardinality(before[x]) + 1]
           p == Sorted(S, before)
<1>1. n \in Nat
  BY FS_CardinalityType
<1>2. \A x \in S : IsFiniteSet(before[x]) /\ Cardinality(before[x]) \in Nat
                   /\ Cardinality(before[x]) < n
  <2> SUFFICES ASSUME NEW x \in S
               PROVE  IsFiniteSet(before[x]) /\ Cardinality(before[x]) \in Nat
                      /\ Cardinality(before[x]) < n
    OBVIOUS
  <2>1. IsFiniteSet(before[x]) /\ Cardinality(before[x]) <= n
        /\ (n = Cardinality(before[x]) => S = before[x])
    BY FS_Subset
  <2>2. Cardinality(before[x]) \in Nat
    BY <2>1, FS_CardinalityType
  <2>3. S # before[x]
    OBVIOUS
  <2> QED
    BY <1>1, <2>1, <2>2, <2>3
<1>3. \A x, y \in S : x \in before[y] => rank[x] < rank[y]
  <2> SUFFICES ASSUME NEW x \in S, NEW y \in S, x \in before[y] PROVE rank[x] < rank[y]
    OBVIOUS
  <2>1. before[x] \in SUBSET before[y] /\ before[y] # before[x]
    OBVIOUS
  <2>2. Cardinality(before[x]) <= Cardinality(before[y])
        /\ Cardinality(before[x]) # Cardinality(before[y])
    BY <1>2, <2>1, FS_Subset
  <2> QED
    BY <1>2, <2>2
<1>4. rank \in [S -> 1..n]
  BY <1>1, <1>2
<1>5. \A x, y \in S : rank[x] = rank[y] => x = y
  <2> SUFFICES ASSUME NEW x \in S, NEW y \in S, rank[x] = rank[y], x # y PROVE FALSE
    OBVIOUS
  <2>1. rank[x] \in Nat /\ rank[y] \in Nat
    BY <1>4
  <2> HIDE DEF rank
  <2> QED
    BY <2>1, <1>3
<1> HIDE DEF rank
<1>6. rank \in Injection(S, 1..n)
  <2> HIDE DEF n
  <2> QED
    BY <1>4, <1>5 DEF Injection, IsInjective
<1>7. IsFiniteSet(1..n) /\ Cardinality(1..n) = n
  <2>1. IsFiniteSet(1..n) /\ Cardinality(1..n) = IF 1 > n THEN 0 ELSE n - 1 + 1
    BY <1>1, FS_Interval
  <2> QED
    BY <1>1, <2>1
<1>8. rank \in Surjection(S, 1..n)
  BY <1>6, <1>7, FS_Injection
<1>9. \A i \in 1..n : \E x \in S : rank[x] = i
  BY <1>8 DEF Surjection
<1> USE DEF rank
<1>10. \A i \in 1..n : p[i] \in S /\ rank[p[i]] = i
  <2> SUFFICES ASSUME NEW i \in 1..n PROVE p[i] \in S /\ rank[p[i]] = i
    OBVIOUS
  <2>1. p[i] = CHOOSE x \in S : Cardinality(before[x]) = i - 1
    BY DEF Sorted
  <2>2. \E x \in S : Cardinality(before[x]) = i - 1
    BY <1>1, <1>2, <1>9
  <2>3. p[i] \in S /\ Cardinality(before[p[i]]) = i - 1
    BY <2>1, <2>2
  <2> QED
    BY <1>1, <2>3
<1>11. p \in [1..n -> S]
  BY <1>10 DEF Sorted
<1> HIDE DEF p, rank, n
<1>12. \A x \in S : \E i \in 1..n : p[i] = x
  <2> SUFFICES ASSUME NEW x \in S PROVE \E i \in 1..n : p[i] = x
    OBVIOUS
  <2>1. rank[x] \in 1..n /\ p[rank[x]] \in S /\ rank[p[rank[x]]] = rank[x]
    BY <1>4, <1>10
  <2> QED
    BY <2>1, <1>5
<1>13. \A i, j \in 1..n : i < j => p[i] \in before[p[j]]
  <2> SUFFICES ASSUME NEW i \in 1..n, NEW j \in 1..n, i < j, p[i] \notin before[p[j]]
               PROVE  FALSE
    OBVIOUS
  <2>1. p[i] \in S /\ p[j] \in S /\ rank[p[i]] = i /\ rank[p[j]] = j
    BY <1>10
  <2>2. p[i] # p[j]
    BY <1>1, <2>1
  <2>3. rank[p[j]] < rank[p[i]]
    BY <1>3, <2>1, <2>2
  <2> QED
    BY <1>1, <2>1, <2>3
<1> QED
  BY <1>1, <1>11, <1>12, <1>13 DEF p, n

\* What is picked, in which order.
LEMMA PickedPlaces ==
  ASSUME NEW s, NEW I, IsFiniteSet(I), I \subseteq Int
  PROVE  \E p : /\ p \in [1..Cardinality(I) -> I]
                /\ Cardinality(I) \in Nat
                /\ Picked(s, I) = [n \in 1..Cardinality(I) |-> s[p[n]]]
                /\ \A i \in I : \E n \in 1..Cardinality(I) : p[n] = i
                /\ \A m, n \in 1..Cardinality(I) : m < n => p[m] < p[n]
<1> DEFINE before == [i \in I |-> {j \in I : j < i}]
           p == Sorted(I, before)
<1>1. /\ before \in [I -> SUBSET I]
      /\ \A x \in I : x \notin before[x]
      /\ \A x, y \in I : x # y => x \in before[y] \/ y \in before[x]
      /\ \A x, y \in I : x \in before[y] => before[x] \subseteq before[y]
  <2>1. \A i, j, k \in I : /\ ~(i < i)
                           /\ i # j => i < j \/ j < i
                           /\ i < j /\ j < k => i < k
    OBVIOUS
  <2>2. before \in [I -> SUBSET I]
    OBVIOUS
  <2>3. \A x, y \in I : x \in before[y] <=> x < y
    OBVIOUS
  <2> HIDE DEF before
  <2>4. \A x, y \in I : x \in before[y] => before[x] \subseteq before[y]
    <3> SUFFICES ASSUME NEW x \in I, NEW y \in I, x \in before[y], NEW z \in before[x]
                 PROVE  z \in before[y]
      OBVIOUS
    <3>1. z \in I /\ z < x /\ x < y
      BY <2>2, <2>3
    <3>2. z < y
      BY <2>1, <3>1
    <3> QED
      BY <2>3, <3>1, <3>2
  <2> QED
    BY <2>1, <2>2, <2>3, <2>4
<1> HIDE DEF before
<1>2. /\ Cardinality(I) \in Nat
      /\ p \in [1..Cardinality(I) -> I]
      /\ \A x \in I : \E i \in 1..Cardinality(I) : p[i] = x
      /\ \A i, j \in 1..Cardinality(I) : i < j => p[i] \in before[p[j]]
  BY <1>1, SortedPlaces
<1>3. Picked(s, I) = [n \in DOMAIN p |-> s[p[n]]]
  BY DEF Picked, before
<1> HIDE DEF p
<1>4. \A m, n \in 1..Cardinality(I) : m < n => p[m] < p[n]
  BY <1>2 DEF before
<1> QED
  BY <1>2, <1>3, <1>4

\* The recursion of FlattenSeq defines a function.
LEMMA FlattenExists ==
  ASSUME NEW n \in Nat, NEW ss
  PROVE  \E f : f = [i \in 1..n |-> IF i = 1 THEN ss[i] ELSE f[i - 1] \o ss[i]]
<1> DEFINE Step(f, k) == f = [i \in 1..k |-> IF i = 1 THEN ss[i] ELSE f[i - 1] \o ss[i]]
           T == {k \in Nat : ~ \E f : Step(f, k)}
<1> SUFFICES ASSUME T # {} PROVE FALSE
  OBVIOUS
<1>1. PICK k \in T : \A y \in T : k <= y
  BY Least
<1>2. k # 0
  <2>1. Step([i \in 1..0 |-> 0], 0)
    OBVIOUS
  <2> QED
    BY <2>1
<1>3. k - 1 \in Nat /\ k - 1 \notin T
  <2>1. k \in Nat
    OBVIOUS
  <2> HIDE DEF T
  <2> QED
    BY <2>1, <1>1, <1>2
<1>4. PICK f : Step(f, k - 1)
  BY <1>3
<1> DEFINE g == [i \in 1..k |-> IF i < k THEN f[i]
                                ELSE IF i = 1 THEN ss[i] ELSE f[i - 1] \o ss[i]]
<1>5. \A i \in 1..k : g[i] = IF i = 1 THEN ss[i] ELSE g[i - 1] \o ss[i]
  <2> SUFFICES ASSUME NEW i \in 1..k
               PROVE  g[i] = IF i = 1 THEN ss[i] ELSE g[i - 1] \o ss[i]
    OBVIOUS
  <2>0. k \in Nat
    OBVIOUS
  <2>1. CASE i < k
    <3>1. i \in 1..(k - 1) /\ g[i] = f[i]
      BY <2>0, <2>1
    <3>2. f[i] = IF i = 1 THEN ss[i] ELSE f[i - 1] \o ss[i]
      BY <1>4, <3>1
    <3>3. i # 1 => g[i - 1] = f[i - 1]
      BY <2>0, <2>1
    <3> QED
      BY <3>1, <3>2, <3>3
  <2>2. CASE i = k
    <3>1. i # 1 => g[i - 1] = f[i - 1]
      BY <2>0, <2>2
    <3>2. g[i] = IF i = 1 THEN ss[i] ELSE f[i - 1] \o ss[i]
      BY <2>0, <2>2
    <3> QED
      BY <3>1, <3>2
  <2> QED
    BY <2>0, <2>1, <2>2
<1>6. g = [i \in 1..k |-> g[i]]
  OBVIOUS
<1> HIDE DEF g
<1>7. Step(g, k)
  BY <1>5, <1>6
<1> QED
  BY <1>1, <1>7

\* It is the last one.
LEMMA FlattenIs ==
  ASSUME NEW n \in Nat, NEW ss, Len(ss) = n, n # 0
  PROVE  \E f : /\ f = [i \in 1..n |-> IF i = 1 THEN ss[i] ELSE f[i - 1] \o ss[i]]
                /\ FlattenSeq(ss) = f[n]
<1> DEFINE f == CHOOSE f : f = [i \in 1..n |-> IF i = 1 THEN ss[i] ELSE f[i - 1] \o ss[i]]
<1>1. f = [i \in 1..n |-> IF i = 1 THEN ss[i] ELSE f[i - 1] \o ss[i]]
  BY FlattenExists
<1>2. FlattenSeq(ss) = f[n]
  BY DEF FlattenSeq
<1> HIDE DEF f
<1> QED
  BY <1>1, <1>2


\* t holds what the first b parts of ss hold, in the order of the parts.
Upto(ss, b, t) ==
  /\ ToSet(t) = UNION {ToSet(ss[i]) : i \in 1..b}
  /\ \A l, m \in DOMAIN t : l < m =>
       \E h, i \in 1..b : h <= i /\ t[l] \in ToSet(ss[h]) /\ t[m] \in ToSet(ss[i])

\* What a concatenation holds.
LEMMA Concatenated ==
  ASSUME NEW S, NEW t \in Seq(S), NEW u \in Seq(S)
  PROVE  /\ t \o u \in Seq(S)
         /\ ToSet(t \o u) = ToSet(t) \cup ToSet(u)
         /\ \A m \in DOMAIN (t \o u) :
              \/ m \in DOMAIN t /\ (t \o u)[m] = t[m]
              \/ /\ \A l \in DOMAIN t : l < m
                 /\ m - Len(t) \in DOMAIN u /\ (t \o u)[m] = u[m - Len(t)]
<1>1. /\ t \o u \in Seq(S) /\ Len(t) \in Nat /\ Len(u) \in Nat
      /\ Len(t \o u) = Len(t) + Len(u)
      /\ DOMAIN t = 1..Len(t) /\ DOMAIN u = 1..Len(u)
      /\ DOMAIN (t \o u) = 1..(Len(t) + Len(u))
      /\ \A m \in 1..(Len(t) + Len(u)) :
           (t \o u)[m] = IF m <= Len(t) THEN t[m] ELSE u[m - Len(t)]
  OBVIOUS
<1> DEFINE v == t \o u
           a == Len(t)
           b == Len(u)
<1> HIDE DEF v, a, b
<1>2. \A m \in DOMAIN v :
        \/ m \in DOMAIN t /\ v[m] = t[m]
        \/ /\ \A l \in DOMAIN t : l < m
           /\ m - a \in DOMAIN u /\ v[m] = u[m - a]
  BY <1>1 DEF v, a, b
<1>3. \A m \in DOMAIN t : m \in DOMAIN v /\ v[m] = t[m]
  BY <1>1 DEF v, a, b
<1>4. \A m \in DOMAIN u : a + m \in DOMAIN v /\ v[a + m] = u[m]
  <2> SUFFICES ASSUME NEW m \in DOMAIN u PROVE a + m \in DOMAIN v /\ v[a + m] = u[m]
    OBVIOUS
  <2>1. m \in 1..b /\ a \in Nat /\ b \in Nat
    BY <1>1 DEF a, b
  <2>2. a + m \in 1..(a + b) /\ ~(a + m <= a) /\ (a + m) - a = m
    BY <2>1
  <2> QED
    BY <1>1, <2>2 DEF v, a, b
<1>5. ToSet(v) \subseteq ToSet(t) \cup ToSet(u)
  BY <1>2 DEF ToSet
<1>6. ToSet(t) \subseteq ToSet(v) /\ ToSet(u) \subseteq ToSet(v)
  BY <1>3, <1>4 DEF ToSet
<1> QED
  BY <1>1, <1>2, <1>5, <1>6 DEF v, a

\* One more part.
LEMMA UptoNext ==
  ASSUME NEW S, NEW ss, NEW b \in Nat \ {0}, NEW t \in Seq(S), ss[b] \in Seq(S),
         Upto(ss, b - 1, t)
  PROVE  t \o ss[b] \in Seq(S) /\ Upto(ss, b, t \o ss[b])
<1> DEFINE u == ss[b]
           v == t \o u
<1>0. u \in Seq(S)
  OBVIOUS
<1> HIDE DEF u
<1>1. /\ v \in Seq(S)
      /\ ToSet(v) = ToSet(t) \cup ToSet(u)
      /\ \A m \in DOMAIN v :
           \/ m \in DOMAIN t /\ v[m] = t[m]
           \/ /\ \A l \in DOMAIN t : l < m
              /\ m - Len(t) \in DOMAIN u /\ v[m] = u[m - Len(t)]
  BY <1>0, Concatenated
<1> HIDE DEF v
<1>2. 1..b = 1..(b - 1) \cup {b} /\ b \in 1..b /\ \A h \in 1..b : h <= b
  OBVIOUS
<1>3. ToSet(t) = UNION {ToSet(ss[i]) : i \in 1..(b - 1)}
  BY DEF Upto
<1>4. ToSet(v) = UNION {ToSet(ss[i]) : i \in 1..b}
  BY <1>1, <1>2, <1>3 DEF u
<1>5. ASSUME NEW l \in DOMAIN v, NEW m \in DOMAIN v, l < m
      PROVE  \E h, i \in 1..b : h <= i /\ v[l] \in ToSet(ss[h]) /\ v[m] \in ToSet(ss[i])
  <2>0. DOMAIN t \subseteq Int /\ DOMAIN v \subseteq Int
    BY <1>1
  <2>1. CASE m \in DOMAIN t /\ v[m] = t[m]
    <3>1. l \in DOMAIN t /\ v[l] = t[l]
      BY <1>1, <1>5, <2>0, <2>1
    <3>2. PICK h \in 1..(b - 1), i \in 1..(b - 1) :
            h <= i /\ t[l] \in ToSet(ss[h]) /\ t[m] \in ToSet(ss[i])
      BY <1>5, <2>1, <3>1 DEF Upto
    <3> QED
      BY <1>2, <2>1, <3>1, <3>2
  <2>2. CASE m - Len(t) \in DOMAIN u /\ v[m] = u[m - Len(t)]
    <3>1. v[m] \in ToSet(ss[b])
      BY <2>2 DEF ToSet, u
    <3>2. v[l] \in ToSet(v)
      BY DEF ToSet
    <3>3. PICK h \in 1..b : v[l] \in ToSet(ss[h])
      BY <1>4, <3>2
    <3> QED
      BY <1>2, <3>1, <3>3
  <2> QED
    BY <1>1, <2>1, <2>2
<1>6. Upto(ss, b, v)
  BY <1>4, <1>5 DEF Upto
<1> QED
  BY <1>1, <1>6 DEF v, u

\* The elements of a flattened sequence are those of its parts, in their order.
LEMMA Flattened ==
  ASSUME NEW S, NEW n \in Nat, NEW ss \in [1..n -> Seq(S)]
  PROVE  FlattenSeq(ss) \in Seq(S) /\ Upto(ss, n, FlattenSeq(ss))
<1>0. Len(ss) = n /\ ss \in Seq(Seq(S))
  OBVIOUS
<1>1. CASE n = 0
  <2>1. FlattenSeq(ss) = ss /\ ss = <<>>
    BY <1>0, <1>1 DEF FlattenSeq
  <2> QED
    BY <1>1, <2>1 DEF Upto, ToSet
<1>2. CASE n # 0
  <2>1. PICK f : /\ f = [i \in 1..n |-> IF i = 1 THEN ss[i] ELSE f[i - 1] \o ss[i]]
                 /\ FlattenSeq(ss) = f[n]
    BY <1>0, <1>2, FlattenIs
  <2>2. \A i \in 1..n : f[i] = IF i = 1 THEN ss[i] ELSE f[i - 1] \o ss[i]
    BY <2>1
  <2> DEFINE Good(b) == f[b] \in Seq(S) /\ Upto(ss, b, f[b])
             T == {b \in 1..n : ~Good(b)}
  <2>3. T = {}
    <3> SUFFICES ASSUME T # {} PROVE FALSE
      OBVIOUS
    <3>0. T \subseteq Nat
      OBVIOUS
    <3>1. PICK b \in T : \A y \in T : b <= y
      <4> HIDE DEF T
      <4> QED
        BY <3>0, Least
    <3>2. b \in 1..n /\ ~Good(b)
      OBVIOUS
    <3> HIDE DEF Good
    <3>3. b # 1
      <4> SUFFICES ASSUME b = 1 PROVE FALSE
        OBVIOUS
      <4>1. f[1] = ss[1] /\ ss[1] \in Seq(S)
        BY <1>2, <2>2
      <4>2. UNION {ToSet(ss[i]) : i \in 1..1} = ToSet(ss[1])
        OBVIOUS
      <4>3. Upto(ss, 1, ss[1])
        <5>1. 1 \in 1..1 /\ 1 <= 1
          OBVIOUS
        <5> QED
          BY <4>2, <5>1 DEF Upto, ToSet
      <4> QED
        BY <3>2, <4>1, <4>3 DEF Good
    <3>4. b - 1 \in 1..n /\ b \in Nat \ {0} /\ ~(b <= b - 1)
      BY <3>2, <3>3
    <3>5. Good(b - 1)
      <4>1. b - 1 \notin T
        <5> HIDE DEF T
        <5> QED
          BY <3>1, <3>4
      <4> QED
        BY <3>4, <4>1
    <3>6. f[b] = f[b - 1] \o ss[b] /\ ss[b] \in Seq(S)
      BY <2>2, <3>2, <3>3
    <3>7. f[b - 1] \o ss[b] \in Seq(S) /\ Upto(ss, b, f[b - 1] \o ss[b])
      BY <3>4, <3>5, <3>6, UptoNext DEF Good
    <3> QED
      BY <3>2, <3>6, <3>7 DEF Good
  <2>4. Good(n)
    <3>1. n \in 1..n
      BY <1>2
    <3>2. n \notin T
      BY ONLY <2>3
    <3> HIDE DEF Good
    <3> QED
      BY <3>1, <3>2
  <2> QED
    BY <2>1, <2>4
<1> QED
  BY <1>1, <1>2

\* What is picked from a sequence, in which order.
LEMMA PickedSet ==
  ASSUME NEW S, NEW s \in Seq(S), NEW I \in SUBSET DOMAIN s
  PROVE  /\ Picked(s, I) \in Seq(S)
         /\ ToSet(Picked(s, I)) = {s[i] : i \in I}
         /\ \A m, n \in DOMAIN Picked(s, I) : m < n =>
              \E i, j \in I : i < j /\ Picked(s, I)[m] = s[i] /\ Picked(s, I)[n] = s[j]
<1>1. DOMAIN s = 1..Len(s) /\ Len(s) \in Nat /\ I \subseteq Int /\ I \subseteq 1..Len(s)
  OBVIOUS
<1>2. IsFiniteSet(I)
  <2>1. IsFiniteSet(1..Len(s))
    BY <1>1, FS_Interval
  <2>2. I \in SUBSET (1..Len(s))
    BY <1>1
  <2> QED
    BY <2>1, <2>2, FS_Subset
<1> DEFINE c == Cardinality(I)
           t == Picked(s, I)
<1>3. PICK p : /\ p \in [1..c -> I]
               /\ c \in Nat
               /\ t = [n \in 1..c |-> s[p[n]]]
               /\ \A i \in I : \E n \in 1..c : p[n] = i
               /\ \A m, n \in 1..c : m < n => p[m] < p[n]
  BY <1>1, <1>2, PickedPlaces
<1> HIDE DEF c, t
<1>4. t \in Seq(S) /\ DOMAIN t = 1..c
  <2>1. \A n \in 1..c : s[p[n]] \in S
    BY <1>1, <1>3
  <2> QED
    BY <1>3, <2>1
<1>5. ToSet(t) = {s[i] : i \in I}
  BY <1>3, <1>4 DEF ToSet
<1>6. \A m, n \in DOMAIN t : m < n =>
        \E i, j \in I : i < j /\ t[m] = s[i] /\ t[n] = s[j]
  BY <1>3, <1>4
<1> QED
  BY <1>4, <1>5, <1>6 DEF t

\* A ranked list holds the same stitches, and no preference goes up.
LEMMA RankedSet ==
  ASSUME NEW S, NEW s \in Seq(S), \A x \in S : x.port.preference \in Int
  PROVE  /\ Ranked(s) \in Seq(S)
         /\ ToSet(Ranked(s)) = ToSet(s)
         /\ \A m, n \in DOMAIN Ranked(s) : m < n =>
              Ranked(s)[n].port.preference <= Ranked(s)[m].port.preference
<1> DEFINE D == DOMAIN s
           pr == [i \in D |-> s[i].port.preference]
           before == [i \in D |-> {j \in D : Outranks(pr, j, i)}]
           p == Sorted(D, before)
           c == Cardinality(D)
           t == Ranked(s)
<1>1. D = 1..Len(s) /\ Len(s) \in Nat /\ D \subseteq Int /\ \A i \in D : pr[i] \in Int
  OBVIOUS
<1>2. IsFiniteSet(D)
  BY <1>1, FS_Interval
<1>3. t = [n \in DOMAIN p |-> s[p[n]]]
  BY DEF Ranked
<1>4. \A i \in D : pr[i] = s[i].port.preference /\ s[i] \in S
  OBVIOUS
<1> HIDE DEF D, pr, t
<1>5. \A i, j, k \in D : /\ ~Outranks(pr, i, i)
                         /\ i # j => Outranks(pr, i, j) \/ Outranks(pr, j, i)
                         /\ Outranks(pr, i, j) /\ Outranks(pr, j, k) => Outranks(pr, i, k)
  <2> SUFFICES ASSUME NEW i \in D, NEW j \in D, NEW k \in D
               PROVE  /\ ~Outranks(pr, i, i)
                      /\ i # j => Outranks(pr, i, j) \/ Outranks(pr, j, i)
                      /\ Outranks(pr, i, j) /\ Outranks(pr, j, k) => Outranks(pr, i, k)
    OBVIOUS
  <2>1. pr[i] \in Int /\ pr[j] \in Int /\ pr[k] \in Int /\ i \in Int /\ j \in Int /\ k \in Int
    BY <1>1
  <2> QED
    BY <2>1 DEF Outranks
<1>6. before \in [D -> SUBSET D] /\ \A x, y \in D : x \in before[y] <=> Outranks(pr, x, y)
  OBVIOUS
<1> HIDE DEF before
<1>7. \A x \in D : x \notin before[x]
  BY <1>5, <1>6
<1>8. \A x, y \in D : x # y => x \in before[y] \/ y \in before[x]
  BY <1>5, <1>6
<1>9. \A x, y \in D : x \in before[y] => before[x] \subseteq before[y]
  <2> SUFFICES ASSUME NEW x \in D, NEW y \in D, x \in before[y], NEW z \in before[x]
               PROVE  z \in before[y]
    OBVIOUS
  <2>1. z \in D /\ Outranks(pr, z, x) /\ Outranks(pr, x, y)
    BY <1>6
  <2>2. Outranks(pr, z, y)
    BY <1>5, <2>1
  <2> QED
    BY <1>6, <2>1, <2>2
<1>10. /\ c \in Nat
       /\ p \in [1..c -> D]
       /\ \A x \in D : \E i \in 1..c : p[i] = x
       /\ \A i, j \in 1..c : i < j => p[i] \in before[p[j]]
  BY <1>2, <1>6, <1>7, <1>8, <1>9, SortedPlaces
<1> HIDE DEF p, c
<1>11. t \in Seq(S) /\ DOMAIN t = 1..c /\ \A n \in 1..c : t[n] = s[p[n]]
  BY <1>3, <1>4, <1>10
<1>12. ToSet(t) = ToSet(s)
  <2>1. \A n \in 1..c : p[n] \in DOMAIN s /\ t[n] = s[p[n]]
    BY <1>10, <1>11 DEF D
  <2>2. \A i \in DOMAIN s : \E n \in 1..c : t[n] = s[i]
    <3> SUFFICES ASSUME NEW i \in DOMAIN s PROVE \E n \in 1..c : t[n] = s[i]
      OBVIOUS
    <3>1. PICK n \in 1..c : p[n] = i
      BY <1>10 DEF D
    <3> QED
      BY <2>1, <3>1
  <2>3. ToSet(t) = {t[n] : n \in 1..c}
    BY <1>11 DEF ToSet
  <2>4. ToSet(s) = {s[i] : i \in DOMAIN s}
    BY DEF ToSet
  <2> QED
    BY ONLY <2>1, <2>2, <2>3, <2>4
<1>13. ASSUME NEW m \in DOMAIN t, NEW n \in DOMAIN t, m < n
       PROVE  t[n].port.preference <= t[m].port.preference
  <2>1. p[m] \in D /\ p[n] \in D /\ Outranks(pr, p[m], p[n])
    BY <1>6, <1>10, <1>11, <1>13
  <2>2. pr[p[n]] <= pr[p[m]]
    BY <1>1, <2>1 DEF Outranks
  <2> QED
    BY <1>4, <1>11, <2>1, <2>2
<1> QED
  BY <1>11, <1>12, <1>13 DEF t

\* Of stitches that are the same one is left, and the order stays.
LEMMA DistinctSet ==
  ASSUME NEW S, NEW s \in Seq(S)
  PROVE  /\ Distinct(s) \in Seq(S)
         /\ ToSet(Distinct(s)) \subseteq ToSet(s)
         /\ \A x \in ToSet(s) : \E y \in ToSet(Distinct(s)) : Same(x, y)
         /\ \A m, n \in DOMAIN Distinct(s) : m < n =>
              \E i, j \in DOMAIN s : i < j /\ Distinct(s)[m] = s[i] /\ Distinct(s)[n] = s[j]
<1> DEFINE I == {i \in DOMAIN s : \A j \in 1..(i - 1) : ~Same(s[i], s[j])}
           t == Distinct(s)
<1>1. /\ t \in Seq(S)
      /\ ToSet(t) = {s[i] : i \in I}
      /\ \A m, n \in DOMAIN t : m < n =>
           \E i, j \in I : i < j /\ t[m] = s[i] /\ t[n] = s[j]
  <2>1. I \in SUBSET DOMAIN s /\ t = Picked(s, I)
    BY DEF Distinct
  <2> HIDE DEF I, t
  <2> QED
    BY <2>1, PickedSet
<1>2. ASSUME NEW x \in ToSet(s)
      PROVE  \E y \in ToSet(t) : Same(x, y)
  <2> DEFINE T == {i \in DOMAIN s : Same(x, s[i])}
  <2>1. T # {} /\ T \subseteq Nat
    BY DEF ToSet, Same
  <2>2. PICK i \in T : \A j \in T : i <= j
    <3> HIDE DEF T
    <3> QED
      BY <2>1, Least
  <2>3. \A j \in 1..(i - 1) : ~Same(s[i], s[j])
    <3> SUFFICES ASSUME NEW j \in 1..(i - 1), Same(s[i], s[j]) PROVE FALSE
      OBVIOUS
    <3>1. j \in DOMAIN s /\ ~(i <= j)
      BY <2>1, <2>2
    <3>2. Same(x, s[j])
      BY <2>2 DEF Same
    <3> QED
      BY <2>2, <3>1, <3>2
  <2>4. i \in I /\ Same(x, s[i])
    BY <2>2, <2>3
  <2> QED
    BY <1>1, <2>4
<1>3. ToSet(t) \subseteq ToSet(s)
  BY <1>1 DEF ToSet
<1>4. \A m, n \in DOMAIN t : m < n =>
        \E i, j \in DOMAIN s : i < j /\ t[m] = s[i] /\ t[n] = s[j]
  BY <1>1
<1> HIDE DEF I, t
<1> QED
  BY <1>1, <1>2, <1>3, <1>4 DEF t

-----------------------------------------------------------------------------
(***************************************************************************)
(* The policy: what is collected for two types, and how it is paired.      *)
(***************************************************************************)
\* What two groups of types c and d offer, c being the consumer.
Half(policy, c, d, x) ==
  \E g \in ToSet(policy[c].groups), h \in ToSet(policy[d].groups) :
    /\ d \in g.consumers /\ c \in h.producers /\ Name(g) = Name(h)
    /\ \E s \in ToSet(policy[c].ports) \cup ToSet(policy[d].ports) :
         Name(g) \in s.member /\ x = Info(s, h, g)

\* Where the stitches of two types come from.
Infos(policy, p, q) ==
  LET S == ToSet(policy[p].ports) \cup ToSet(policy[q].ports)
      G == ToSet(policy[p].groups) \cup ToSet(policy[q].groups)
  IN  {Info(s, h, g) : s \in S, h \in G, g \in G}

\* The elements of a flattened sequence, without their order.
LEMMA FlattenedSet ==
  ASSUME NEW S, NEW n \in Nat, NEW ss \in [1..n -> Seq(S)]
  PROVE  /\ FlattenSeq(ss) \in Seq(S)
         /\ \A x : x \in ToSet(FlattenSeq(ss)) <=> \E i \in 1..n : x \in ToSet(ss[i])
<1>1. FlattenSeq(ss) \in Seq(S) /\ Upto(ss, n, FlattenSeq(ss))
  BY Flattened
<1> DEFINE t == FlattenSeq(ss)
<1>2. ToSet(t) = UNION {ToSet(ss[i]) : i \in 1..n}
  BY <1>1 DEF Upto
<1> HIDE DEF t
<1>3. \A x : x \in ToSet(t) <=> \E i \in 1..n : x \in ToSet(ss[i])
  BY <1>2
<1> QED
  BY <1>1, <1>3 DEF t

\* The ports that are members of a group.
LEMMA MembersSet ==
  ASSUME NEW policy, WellFormed(policy), NEW c \in DOMAIN policy,
         NEW g \in ToSet(policy[c].groups)
  PROVE  /\ Members(policy, g) \in Seq(ToSet(policy[c].ports))
         /\ ToSet(Members(policy, g)) = {s \in ToSet(policy[c].ports) : Name(g) \in s.member}
<1> DEFINE offered == policy[c].ports
           I == {i \in DOMAIN offered : Name(g) \in offered[i].member}
<1>1. offered \in Seq(ToSet(offered)) /\ g.provider = c
  BY DEF WellFormed
<1>2. Members(policy, g) = Picked(offered, I)
  BY <1>1 DEF Members
<1>3. {offered[i] : i \in I} = {s \in ToSet(offered) : Name(g) \in s.member}
  BY DEF ToSet
<1>4. I \in SUBSET DOMAIN offered
  OBVIOUS
<1> HIDE DEF I, offered
<1>5. Picked(offered, I) \in Seq(ToSet(offered)) /\ ToSet(Picked(offered, I)) = {offered[i] : i \in I}
  BY <1>1, <1>4, PickedSet
<1> QED
  BY <1>2, <1>3, <1>5 DEF offered

\* The stitches of a pair of groups.
LEMMA JoinedSet ==
  ASSUME NEW policy, WellFormed(policy), NEW c \in DOMAIN policy, NEW d \in DOMAIN policy,
         NEW g \in ToSet(policy[c].groups), NEW h \in ToSet(policy[d].groups),
         Name(g) = Name(h), NEW a, NEW b, NEW S,
         \A s \in ToSet(policy[c].ports) \cup ToSet(policy[d].ports) : Info(s, a, b) \in S
  PROVE  /\ Joined(policy, g, h, a, b) \in Seq(S)
         /\ \A x : x \in ToSet(Joined(policy, g, h, a, b)) <=>
              \E s \in ToSet(policy[c].ports) \cup ToSet(policy[d].ports) :
                Name(g) \in s.member /\ x = Info(s, a, b)
<1> DEFINE P == ToSet(policy[c].ports) \cup ToSet(policy[d].ports)
           m == Members(policy, g)
           n == Members(policy, h)
           t == m \o n
<1>1. /\ m \in Seq(ToSet(policy[c].ports)) /\ n \in Seq(ToSet(policy[d].ports))
      /\ ToSet(m) = {s \in ToSet(policy[c].ports) : Name(g) \in s.member}
      /\ ToSet(n) = {s \in ToSet(policy[d].ports) : Name(g) \in s.member}
  BY MembersSet
<1> HIDE DEF m, n
<1>2. m \in Seq(P) /\ n \in Seq(P)
  BY <1>1
<1>3. ToSet(m) \cup ToSet(n) = {s \in P : Name(g) \in s.member}
  BY <1>1
<1> HIDE DEF P
<1>4. t \in Seq(P) /\ ToSet(t) = {s \in P : Name(g) \in s.member}
  BY <1>2, <1>3, Concatenated
<1>5. Joined(policy, g, h, a, b) = [i \in DOMAIN t |-> Info(t[i], a, b)]
  BY DEF Joined, m, n
<1> HIDE DEF t
<1>6. \A s \in P : Info(s, a, b) \in S
  BY DEF P
<1>7. Joined(policy, g, h, a, b) \in Seq(S)
  BY <1>4, <1>5, <1>6
<1>8. ToSet(Joined(policy, g, h, a, b)) = {Info(s, a, b) : s \in ToSet(t)}
  BY <1>4, <1>5 DEF ToSet
<1> QED
  BY <1>4, <1>7, <1>8 DEF P

\* What a type finds with another one, one group of its own after the other.
LEMMA CollectedSet ==
  ASSUME NEW policy, WellFormed(policy), NEW p \in DOMAIN policy, NEW q \in DOMAIN policy
  PROVE  /\ Collected(policy, p, q) \in Seq(Infos(policy, p, q))
         /\ \A x : x \in ToSet(Collected(policy, p, q)) <=>
              Half(policy, p, q, x) \/ Half(policy, q, p, x)
<1> DEFINE gs == policy[p].groups
           hs == policy[q].groups
           S == Infos(policy, p, q)
           P == ToSet(policy[p].ports) \cup ToSet(policy[q].ports)
           IsA(g, h) == q \in g.consumers /\ p \in h.producers /\ Name(g) = Name(h)
           IsB(g, h) == q \in g.producers /\ p \in h.consumers /\ Name(g) = Name(h)
           A(g) == [j \in DOMAIN hs |->
                      IF IsA(g, hs[j]) THEN Joined(policy, g, hs[j], hs[j], g) ELSE <<>>]
           B(g) == [j \in DOMAIN hs |->
                      IF IsB(g, hs[j]) THEN Joined(policy, g, hs[j], g, hs[j]) ELSE <<>>]
           C == [i \in DOMAIN gs |-> FlattenSeq(A(gs[i])) \o FlattenSeq(B(gs[i]))]
<1>1. /\ gs \in Seq(ToSet(gs)) /\ hs \in Seq(ToSet(hs))
      /\ DOMAIN gs = 1..Len(gs) /\ DOMAIN hs = 1..Len(hs) /\ Len(gs) \in Nat /\ Len(hs) \in Nat
  BY DEF WellFormed
<1>2. Collected(policy, p, q) = FlattenSeq(C)
  BY DEF Collected, FlatMap
<1>3. \A s \in P : \A a, b \in ToSet(gs) \cup ToSet(hs) : Info(s, a, b) \in S
  BY DEF Infos
<1>4. ASSUME NEW g \in ToSet(gs)
      PROVE  /\ FlattenSeq(A(g)) \in Seq(S)
             /\ \A x : x \in ToSet(FlattenSeq(A(g))) <=>
                  \E h \in ToSet(hs) : IsA(g, h) /\
                    \E s \in P : Name(g) \in s.member /\ x = Info(s, h, g)
  <2>1. ASSUME NEW h \in ToSet(hs), IsA(g, h)
        PROVE  /\ Joined(policy, g, h, h, g) \in Seq(S)
               /\ \A x : x \in ToSet(Joined(policy, g, h, h, g)) <=>
                    \E s \in P : Name(g) \in s.member /\ x = Info(s, h, g)
    <3>1. \A s \in P : Info(s, h, g) \in S
      BY <1>3
    <3> HIDE DEF S
    <3> QED
      BY <2>1, <3>1, JoinedSet
  <2> HIDE DEF S, P, IsA
  <2>2. A(g) \in [1..Len(hs) -> Seq(S)]
    <3>1. \A j \in DOMAIN hs : hs[j] \in ToSet(hs)
      BY DEF ToSet
    <3>2. <<>> \in Seq(S)
      OBVIOUS
    <3>3. \A j \in DOMAIN hs :
            (IF IsA(g, hs[j]) THEN Joined(policy, g, hs[j], hs[j], g) ELSE <<>>) \in Seq(S)
      BY <2>1, <3>1, <3>2
    <3> QED
      BY <1>1, <3>3
  <2> DEFINE F == A(g)
  <2>3. \A j \in DOMAIN hs :
          F[j] = IF IsA(g, hs[j]) THEN Joined(policy, g, hs[j], hs[j], g) ELSE <<>>
    OBVIOUS
  <2> HIDE DEF F
  <2>7. F \in [1..Len(hs) -> Seq(S)] /\ Len(hs) \in Nat
    BY <1>1, <2>2 DEF F
  <2>4. /\ FlattenSeq(F) \in Seq(S)
        /\ \A x : x \in ToSet(FlattenSeq(F)) <=> \E i \in 1..Len(hs) : x \in ToSet(F[i])
    BY <2>7, FlattenedSet
  <2>5. ToSet(<<>>) = {}
    BY DEF ToSet
  <2>6. ASSUME NEW x
        PROVE  x \in ToSet(FlattenSeq(F)) <=>
                 \E h \in ToSet(hs) : IsA(g, h) /\
                   \E s \in P : Name(g) \in s.member /\ x = Info(s, h, g)
    <3>1. x \in ToSet(FlattenSeq(F)) <=> \E j \in DOMAIN hs : x \in ToSet(F[j])
      BY <1>1, <2>4
    <3>2. \A j \in DOMAIN hs : x \in ToSet(F[j]) <=>
            IsA(g, hs[j]) /\ x \in ToSet(Joined(policy, g, hs[j], hs[j], g))
      BY <2>3, <2>5
    <3>3. x \in ToSet(FlattenSeq(F)) <=>
            \E h \in ToSet(hs) : IsA(g, h) /\ x \in ToSet(Joined(policy, g, h, h, g))
      BY <3>1, <3>2 DEF ToSet
    <3> QED
      BY <2>1, <3>3
  <2> QED
    BY <2>4, <2>6 DEF F
<1>5. ASSUME NEW g \in ToSet(gs)
      PROVE  /\ FlattenSeq(B(g)) \in Seq(S)
             /\ \A x : x \in ToSet(FlattenSeq(B(g))) <=>
                  \E h \in ToSet(hs) : IsB(g, h) /\
                    \E s \in P : Name(g) \in s.member /\ x = Info(s, g, h)
  <2>1. ASSUME NEW h \in ToSet(hs), IsB(g, h)
        PROVE  /\ Joined(policy, g, h, g, h) \in Seq(S)
               /\ \A x : x \in ToSet(Joined(policy, g, h, g, h)) <=>
                    \E s \in P : Name(g) \in s.member /\ x = Info(s, g, h)
    <3>1. \A s \in P : Info(s, g, h) \in S
      BY <1>3
    <3> HIDE DEF S
    <3> QED
      BY <2>1, <3>1, JoinedSet
  <2> HIDE DEF S, P, IsB
  <2>2. B(g) \in [1..Len(hs) -> Seq(S)]
    <3>1. \A j \in DOMAIN hs : hs[j] \in ToSet(hs)
      BY DEF ToSet
    <3>2. <<>> \in Seq(S)
      OBVIOUS
    <3>3. \A j \in DOMAIN hs :
            (IF IsB(g, hs[j]) THEN Joined(policy, g, hs[j], g, hs[j]) ELSE <<>>) \in Seq(S)
      BY <2>1, <3>1, <3>2
    <3> QED
      BY <1>1, <3>3
  <2> DEFINE F == B(g)
  <2>3. \A j \in DOMAIN hs :
          F[j] = IF IsB(g, hs[j]) THEN Joined(policy, g, hs[j], g, hs[j]) ELSE <<>>
    OBVIOUS
  <2> HIDE DEF F
  <2>7. F \in [1..Len(hs) -> Seq(S)] /\ Len(hs) \in Nat
    BY <1>1, <2>2 DEF F
  <2>4. /\ FlattenSeq(F) \in Seq(S)
        /\ \A x : x \in ToSet(FlattenSeq(F)) <=> \E i \in 1..Len(hs) : x \in ToSet(F[i])
    BY <2>7, FlattenedSet
  <2>5. ToSet(<<>>) = {}
    BY DEF ToSet
  <2>6. ASSUME NEW x
        PROVE  x \in ToSet(FlattenSeq(F)) <=>
                 \E h \in ToSet(hs) : IsB(g, h) /\
                   \E s \in P : Name(g) \in s.member /\ x = Info(s, g, h)
    <3>1. x \in ToSet(FlattenSeq(F)) <=> \E j \in DOMAIN hs : x \in ToSet(F[j])
      BY <1>1, <2>4
    <3>2. \A j \in DOMAIN hs : x \in ToSet(F[j]) <=>
            IsB(g, hs[j]) /\ x \in ToSet(Joined(policy, g, hs[j], g, hs[j]))
      BY <2>3, <2>5
    <3>3. x \in ToSet(FlattenSeq(F)) <=>
            \E h \in ToSet(hs) : IsB(g, h) /\ x \in ToSet(Joined(policy, g, h, g, h))
      BY <3>1, <3>2 DEF ToSet
    <3> QED
      BY <2>1, <3>3
  <2> QED
    BY <2>4, <2>6 DEF F
<1> HIDE DEF A, B, S
<1>6. \A i \in DOMAIN gs : /\ gs[i] \in ToSet(gs) /\ C[i] \in Seq(S)
                           /\ ToSet(C[i]) = ToSet(FlattenSeq(A(gs[i]))) \cup ToSet(FlattenSeq(B(gs[i])))
  <2> SUFFICES ASSUME NEW i \in DOMAIN gs
               PROVE  /\ gs[i] \in ToSet(gs) /\ C[i] \in Seq(S)
                      /\ ToSet(C[i]) = ToSet(FlattenSeq(A(gs[i]))) \cup ToSet(FlattenSeq(B(gs[i])))
    OBVIOUS
  <2>1. gs[i] \in ToSet(gs) /\ C[i] = FlattenSeq(A(gs[i])) \o FlattenSeq(B(gs[i]))
    BY DEF ToSet
  <2>2. FlattenSeq(A(gs[i])) \in Seq(S) /\ FlattenSeq(B(gs[i])) \in Seq(S)
    BY <1>4, <1>5, <2>1
  <2> QED
    BY <2>1, <2>2, Concatenated
<1> HIDE DEF C
<1>7. C \in [1..Len(gs) -> Seq(S)]
  BY <1>1, <1>6 DEF C
<1>8. /\ FlattenSeq(C) \in Seq(S)
      /\ \A x : x \in ToSet(FlattenSeq(C)) <=> \E i \in 1..Len(gs) : x \in ToSet(C[i])
  BY <1>1, <1>7, FlattenedSet
<1>9. ASSUME NEW x
      PROVE  x \in ToSet(FlattenSeq(C)) <=> Half(policy, p, q, x) \/ Half(policy, q, p, x)
  <2>1. x \in ToSet(FlattenSeq(C)) <=>
          \E g \in ToSet(gs) : x \in ToSet(FlattenSeq(A(g))) \/ x \in ToSet(FlattenSeq(B(g)))
    <3>1. x \in ToSet(FlattenSeq(C)) <=> \E i \in DOMAIN gs : x \in ToSet(C[i])
      BY <1>1, <1>8
    <3>2. x \in ToSet(FlattenSeq(C)) <=>
            \E i \in DOMAIN gs : \/ x \in ToSet(FlattenSeq(A(gs[i])))
                               \/ x \in ToSet(FlattenSeq(B(gs[i])))
      BY <1>6, <3>1
    <3>3. \A g \in ToSet(gs) : \E i \in DOMAIN gs : gs[i] = g
      BY DEF ToSet
    <3> QED
      BY <1>6, <3>2, <3>3
  <2>2. Half(policy, p, q, x) <=> \E g \in ToSet(gs) : x \in ToSet(FlattenSeq(A(g)))
    BY <1>4 DEF Half
  <2>3. Half(policy, q, p, x) <=> \E g \in ToSet(gs) : x \in ToSet(FlattenSeq(B(g)))
    BY <1>5 DEF Half
  <2> QED
    BY <2>1, <2>2, <2>3
<1> QED
  BY <1>2, <1>8, <1>9 DEF S

\* The least and the greatest of two numbers.
LEMMA MinMaxPair ==
  ASSUME NEW p \in Int, NEW q \in Int
  PROVE  /\ Min({p, q}) = IF p <= q THEN p ELSE q
         /\ Max({p, q}) = IF p <= q THEN q ELSE p
<1>1. \A x \in {p, q} : x \in Int
  OBVIOUS
<1>2. \E x \in {p, q} : \A y \in {p, q} : x <= y
  OBVIOUS
<1>3. \E x \in {p, q} : \A y \in {p, q} : x >= y
  OBVIOUS
<1>4. Min({p, q}) \in {p, q} /\ \A y \in {p, q} : Min({p, q}) <= y
  BY <1>2 DEF Min
<1>5. Max({p, q}) \in {p, q} /\ \A y \in {p, q} : Max({p, q}) >= y
  BY <1>3 DEF Max
<1> DEFINE a == Min({p, q})
           b == Max({p, q})
<1> HIDE DEF a, b
<1>6. (a = p \/ a = q) /\ a <= p /\ a <= q
  BY <1>4 DEF a
<1>7. (b = p \/ b = q) /\ b >= p /\ b >= q
  BY <1>5 DEF b
<1>8. a = IF p <= q THEN p ELSE q
  BY <1>6
<1>9. b = IF p <= q THEN q ELSE p
  BY <1>7
<1> QED
  BY <1>8, <1>9 DEF a, b

\* The stitches found for two types that the policy knows.
LEMMA FoundSet ==
  ASSUME NEW policy, WellFormed(policy), NEW p \in DOMAIN policy, NEW q \in DOMAIN policy
  PROVE  LET L == find_stitch_port_for_providers(policy, p, q)
         IN  /\ L \in Seq(Infos(policy, p, q))
             /\ \A x \in ToSet(L) : Half(policy, p, q, x) \/ Half(policy, q, p, x)
             /\ \A x : Half(policy, p, q, x) \/ Half(policy, q, p, x) =>
                  \E y \in ToSet(L) : Same(x, y)
             /\ \A m, n \in DOMAIN L : m < n =>
                  L[n].port.preference <= L[m].port.preference
<1> DEFINE C == Collected(policy, p, q)
           R == Ranked(C)
           L == Distinct(R)
           S == Infos(policy, p, q)
           Linking(x) == Half(policy, p, q, x) \/ Half(policy, q, p, x)
<1>1. L = find_stitch_port_for_providers(policy, p, q)
  BY DEF find_stitch_port_for_providers
<1>2. \A x \in S : x.port.preference \in Int
  BY DEF Infos, Info, WellFormed
<1>3. C \in Seq(S) /\ \A x : x \in ToSet(C) <=> Linking(x)
  BY CollectedSet
<1> HIDE DEF C, S, Linking
<1>4. /\ R \in Seq(S) /\ ToSet(R) = ToSet(C)
      /\ \A m, n \in DOMAIN R : m < n => R[n].port.preference <= R[m].port.preference
  BY <1>2, <1>3, RankedSet
<1> HIDE DEF R
<1>5. /\ L \in Seq(S) /\ ToSet(L) \subseteq ToSet(R)
      /\ \A x \in ToSet(R) : \E y \in ToSet(L) : Same(x, y)
      /\ \A m, n \in DOMAIN L : m < n =>
           \E i, j \in DOMAIN R : i < j /\ L[m] = R[i] /\ L[n] = R[j]
  BY <1>4, DistinctSet
<1> HIDE DEF L
<1>6. \A m, n \in DOMAIN L : m < n => L[n].port.preference <= L[m].port.preference
  BY <1>4, <1>5
<1>7. \A x \in ToSet(L) : Linking(x)
  BY <1>3, <1>4, <1>5
<1>8. \A x : Linking(x) => \E y \in ToSet(L) : Same(x, y)
  BY <1>3, <1>4, <1>5
<1> QED
  BY <1>1, <1>5, <1>6, <1>7, <1>8 DEF S, Linking

\* A type that the policy does not know finds nothing.
LEMMA FoundNone ==
  ASSUME NEW policy, NEW p, NEW q, ~({p, q} \subseteq DOMAIN policy)
  PROVE  ToSet(find_stitch_port_for_providers(policy, p, q)) = {}
         /\ find_stitch_port_for_providers(policy, p, q) \in Seq({})
<1> DEFINE C == Collected(policy, p, q)
           R == Ranked(C)
           L == Distinct(R)
<1>1. C = <<>>
  BY DEF Collected
<1>2. C \in Seq({}) /\ ToSet(C) = {}
  BY <1>1 DEF ToSet
<1> HIDE DEF C
<1>3. R \in Seq({}) /\ ToSet(R) = {}
  BY <1>2, RankedSet
<1> HIDE DEF R
<1>4. L \in Seq({}) /\ ToSet(L) = {}
  BY <1>3, DistinctSet
<1> QED
  BY <1>4 DEF find_stitch_port_for_providers, L, R, C

\* The pairs of ports that face each other.
LEMMA PeersSet ==
  ASSUME NEW S, NEW L \in Seq(S),
         \A x \in S : /\ DOMAIN x = {"port", "peer", "producer", "consumer", "ends"}
                      /\ x = [k \in DOMAIN x |-> x[k]]
                      /\ x.port.preference \in Int
  PROVE  LET M == peer_stitch_ports(L)
         IN  /\ M \in Seq(ToSet(M))
             /\ \A z : z \in ToSet(M) <=>
                  \E x, y \in ToSet(L) : /\ Faces(x.port, y.port, x.producer, x.consumer)
                                         /\ z = [x EXCEPT !.peer = y.port]
             /\ (\A m, n \in DOMAIN L : m < n =>
                   L[n].port.preference <= L[m].port.preference) =>
                \A m, n \in DOMAIN M : m < n =>
                  M[n].port.preference <= M[m].port.preference
<1> DEFINE To(x, y) == [x EXCEPT !.peer = y.port]
           T == {To(x, y) : x \in S, y \in S}
           Of(x) == {i \in DOMAIN L : Faces(x.port, L[i].port, x.producer, x.consumer)}
           P(x) == Picked(L, Of(x))
           ss == [i \in DOMAIN L |->
                    [j \in DOMAIN P(L[i]) |-> [L[i] EXCEPT !.peer = P(L[i])[j].port]]]
           M == peer_stitch_ports(L)
<1>1. M = FlattenSeq(ss)
  BY DEF peer_stitch_ports, FlatMap
<1>2. /\ DOMAIN L = 1..Len(L) /\ Len(L) \in Nat
      /\ \A i \in DOMAIN L : L[i] \in S /\ L[i] \in ToSet(L)
      /\ \A x \in ToSet(L) : x \in S /\ \E i \in DOMAIN L : L[i] = x
  BY DEF ToSet
<1>3. ASSUME NEW x
      PROVE  /\ P(x) \in Seq(S)
             /\ \A y : y \in ToSet(P(x)) <=>
                  y \in ToSet(L) /\ Faces(x.port, y.port, x.producer, x.consumer)
  <2>1. Of(x) \in SUBSET DOMAIN L
    OBVIOUS
  <2>2. P(x) \in Seq(S) /\ ToSet(P(x)) = {L[i] : i \in Of(x)}
    <3> HIDE DEF Of
    <3> QED
      BY <2>1, PickedSet
  <2> QED
    BY <2>2 DEF ToSet
<1>0. \A x, y \in S : [x EXCEPT !.peer = y.port] \in T
  <2>1. \A x, y \in S : To(x, y) \in T
    <3> HIDE DEF To
    <3> QED
      OBVIOUS
  <2> HIDE DEF T
  <2> QED
    BY <2>1
<1> HIDE DEF T
<1>4. ASSUME NEW i \in DOMAIN L
      PROVE  /\ ss[i] \in Seq(T)
             /\ \A z : z \in ToSet(ss[i]) <=>
                  \E y \in ToSet(L) : /\ Faces(L[i].port, y.port, L[i].producer, L[i].consumer)
                                      /\ z = [L[i] EXCEPT !.peer = y.port]
  <2> DEFINE a == L[i]
             t == P(a)
  <2>1. ss[i] = [j \in DOMAIN t |-> [a EXCEPT !.peer = t[j].port]]
    OBVIOUS
  <2>2. t \in Seq(S) /\ a \in S
    BY <1>2, <1>3
  <2>3. \A y : y \in ToSet(t) <=> y \in ToSet(L) /\ Faces(a.port, y.port, a.producer, a.consumer)
    BY <1>3
  <2> DEFINE u == ss[i]
  <2> HIDE DEF u, t, a, P, ss
  <2>4. DOMAIN t = 1..Len(t) /\ Len(t) \in Nat /\ \A j \in DOMAIN t : t[j] \in S
    BY <2>2
  <2>5. u = [j \in 1..Len(t) |-> [a EXCEPT !.peer = t[j].port]]
    BY <2>1, <2>4 DEF u
  <2>6. \A j \in 1..Len(t) : [a EXCEPT !.peer = t[j].port] \in T
    BY <1>0, <2>2, <2>4
  <2>7. u \in Seq(T)
    BY <2>4, <2>5, <2>6
  <2>8. ToSet(u) = {[a EXCEPT !.peer = t[j].port] : j \in 1..Len(t)}
    BY <2>5 DEF ToSet
  <2>9. \A z : z \in ToSet(u) <=> \E y \in ToSet(t) : z = [a EXCEPT !.peer = y.port]
    BY <2>4, <2>8 DEF ToSet
  <2> QED
    BY <2>3, <2>7, <2>9 DEF u, a
<1> HIDE DEF ss, P, M
<1>5. ss \in [1..Len(L) -> Seq(T)]
  BY <1>2, <1>4 DEF ss
<1>6. M \in Seq(T) /\ Upto(ss, Len(L), M)
  BY <1>1, <1>2, <1>5, Flattened
<1>7. \A z : z \in ToSet(M) <=> \E i \in DOMAIN L : z \in ToSet(ss[i])
  <2>1. ToSet(M) = UNION {ToSet(ss[i]) : i \in 1..Len(L)}
    BY <1>6 DEF Upto
  <2> QED
    BY <1>2, <2>1
<1>8. \A z : z \in ToSet(M) <=>
        \E x, y \in ToSet(L) : /\ Faces(x.port, y.port, x.producer, x.consumer)
                               /\ z = [x EXCEPT !.peer = y.port]
  BY <1>2, <1>4, <1>7
<1>9. M \in Seq(ToSet(M))
  BY <1>6 DEF ToSet
<1>10. ASSUME \A m, n \in DOMAIN L : m < n => L[n].port.preference <= L[m].port.preference,
              NEW m \in DOMAIN M, NEW n \in DOMAIN M, m < n
       PROVE  M[n].port.preference <= M[m].port.preference
  <2>1. PICK h \in 1..Len(L), i \in 1..Len(L) :
          h <= i /\ M[m] \in ToSet(ss[h]) /\ M[n] \in ToSet(ss[i])
    BY <1>6, <1>10 DEF Upto
  <2>2. ASSUME NEW j \in DOMAIN L, NEW z \in ToSet(ss[j]) PROVE z.port = L[j].port
    <3>1. PICK y \in ToSet(L) : z = [L[j] EXCEPT !.peer = y.port]
      BY <1>4
    <3>2. L[j] \in S
      BY <1>2
    <3>3. "port" \in DOMAIN L[j]
      BY <3>2
    <3> QED
      BY <3>1, <3>3
  <2>3. M[m].port = L[h].port /\ M[n].port = L[i].port
    BY <1>2, <2>1, <2>2
  <2>4. L[h].port.preference \in Int
    BY <1>2
  <2>5. h = i \/ h < i
    BY <1>2, <2>1
  <2>6. L[i].port.preference <= L[h].port.preference
    BY <1>2, <1>10, <2>4, <2>5
  <2> QED
    BY <2>3, <2>6
<1> QED
  BY <1>8, <1>9, <1>10 DEF M

\* A stitch without its producer and its groups.
Brief(z) == [port |-> z.port, peer |-> z.peer, consumer |-> z.consumer]

\* The groups of a stitch have one name, that of a group its port is in.
Grouped(policy, z) ==
  \E h \in ToSet(policy[z.producer].groups), g \in ToSet(policy[z.consumer].groups) :
    /\ z.ends = {h, g} /\ Name(h) = Name(g)
    /\ Name(g) \in z.port.member

\* What one half says of a stitch.
LEMMA HalfIs ==
  ASSUME NEW policy, WellFormed(policy), NEW c \in DOMAIN policy, NEW d \in DOMAIN policy,
         NEW x, Half(policy, c, d, x)
  PROVE  /\ x.consumer = c /\ x.producer = d /\ Grouped(policy, x)
         /\ x.port \in ToSet(policy[c].ports) \cup ToSet(policy[d].ports)
         /\ x.port.provider \in {c, d}
         /\ x.port \in ToSet(policy[x.port.provider].ports)
         /\ x.port.member \cap Linked(policy, c, d) # {}
<1>1. PICK g \in ToSet(policy[c].groups), h \in ToSet(policy[d].groups) :
        /\ d \in g.consumers /\ c \in h.producers /\ Name(g) = Name(h)
        /\ \E s \in ToSet(policy[c].ports) \cup ToSet(policy[d].ports) :
             Name(g) \in s.member /\ x = Info(s, h, g)
  BY DEF Half
<1>2. PICK s \in ToSet(policy[c].ports) \cup ToSet(policy[d].ports) :
        Name(g) \in s.member /\ x = Info(s, h, g)
  BY <1>1
<1>3. x.port = s /\ x.producer = h.provider /\ x.consumer = g.provider /\ x.ends = {h, g}
  BY <1>2 DEF Info
<1>4. h.provider = d /\ g.provider = c
  BY DEF WellFormed
<1>5. \A t \in {c, d} : \A a \in ToSet(policy[t].ports) : a.provider = t
  BY DEF WellFormed
<1>6. s.provider \in {c, d} /\ s \in ToSet(policy[s.provider].ports)
  BY <1>5
<1>7. Name(g) \in Linked(policy, c, d)
  BY <1>1 DEF Linked
<1>8. Grouped(policy, x)
  BY <1>1, <1>2, <1>3, <1>4 DEF Grouped
<1> QED
  BY <1>2, <1>3, <1>4, <1>6, <1>7, <1>8

\* An offer that the policy backs is found from either side.
LEMMA HalfOf ==
  ASSUME NEW policy, WellFormed(policy), NEW c \in DOMAIN policy, NEW d \in DOMAIN policy,
         NEW s \in ToSet(policy[c].ports) \cup ToSet(policy[d].ports),
         s.member \cap Linked(policy, c, d) # {}
  PROVE  \E x : Half(policy, c, d, x) /\ x.port = s /\ x.consumer = c /\ x.producer = d
<1>1. PICK m \in s.member : m \in Linked(policy, c, d)
  OBVIOUS
<1>2. PICK g \in ToSet(policy[c].groups) : d \in g.consumers /\ Name(g) = m
  BY <1>1 DEF Linked
<1>3. PICK h \in ToSet(policy[d].groups) : c \in h.producers /\ Name(h) = m
  BY <1>1 DEF Linked
<1>4. h.provider = d /\ g.provider = c
  BY DEF WellFormed
<1> DEFINE x == Info(s, h, g)
<1>5. x.port = s /\ x.consumer = c /\ x.producer = d
  BY <1>4 DEF Info
<1>6. Half(policy, c, d, x)
  BY <1>1, <1>2, <1>3 DEF Half
<1> HIDE DEF x
<1> QED
  BY <1>5, <1>6

\* The stitches that are found are the offers.
LEMMA OffersAre ==
  ASSUME NEW policy, WellFormed(policy), NEW p \in Nat, NEW q \in Nat
  PROVE  LET M == peer_stitch_ports(find_stitch_port_for_providers(policy, p, q))
         IN  /\ M \in Seq(ToSet(M))
             /\ \A z \in ToSet(M) : /\ Brief(z) \in Offers(policy, p, q)
                                    /\ z.producer = (p + q) - z.consumer
                                    /\ Grouped(policy, z)
             /\ \A o \in Offers(policy, p, q) : \E z \in ToSet(M) : Brief(z) = o
             /\ \A m, n \in DOMAIN M : m < n =>
                  M[n].port.preference <= M[m].port.preference
<1> DEFINE L == find_stitch_port_for_providers(policy, p, q)
           M == peer_stitch_ports(L)
           Of(t) == IF t \in DOMAIN policy THEN ToSet(policy[t].ports) ELSE {}
           common == Linked(policy, p, q) \cup Linked(policy, q, p)
           Peers(N1) == /\ N1 \in Seq(ToSet(N1))
                        /\ \A z : z \in ToSet(N1) <=>
                             \E x, y \in ToSet(L) : /\ Faces(x.port, y.port, x.producer, x.consumer)
                                                    /\ z = [x EXCEPT !.peer = y.port]
                        /\ \A m, n \in DOMAIN N1 : m < n =>
                             N1[n].port.preference <= N1[m].port.preference
<1>1. \A o : o \in Offers(policy, p, q) <=>
        /\ o \in [port : Of(Max({p, q})), peer : Of(Min({p, q})), consumer : {p, q}]
        /\ p # q /\ Name(o.port) = Name(o.peer)
        /\ o.port.member \cap Linked(policy, o.consumer, (p + q) - o.consumer) # {}
        /\ o.peer.member \cap common # {}
  BY DEF Offers
<1>2. /\ Min({p, q}) = IF p <= q THEN p ELSE q
      /\ Max({p, q}) = IF p <= q THEN q ELSE p
  BY MinMaxPair
<1>3. CASE ~({p, q} \subseteq DOMAIN policy)
  <2>1. ToSet(L) = {} /\ L \in Seq({})
    BY <1>3, FoundNone
  <2> HIDE DEF L
  <2>2. \A m, n \in DOMAIN L : m < n => L[n].port.preference <= L[m].port.preference
    BY <2>1 DEF ToSet
  <2>8. /\ L \in Seq({})
        /\ \A x \in {} : /\ DOMAIN x = {"port", "peer", "producer", "consumer", "ends"}
                        /\ x = [k \in DOMAIN x |-> x[k]]
                        /\ x.port.preference \in Int
    BY <2>1
  <2>3. Peers(M)
    BY <2>2, <2>8, PeersSet
  <2>4. ToSet(M) = {}
    BY <2>1, <2>3
  <2>5. Of(p) = {} \/ Of(q) = {}
    BY <1>3
  <2>6. Of(Max({p, q})) = {} \/ Of(Min({p, q})) = {}
    BY <1>2, <2>5
  <2>7. Offers(policy, p, q) = {}
    <3> HIDE DEF Of
    <3> QED
      BY <1>1, <2>6
  <2> HIDE DEF M
  <2> QED
    BY <2>3, <2>4, <2>7 DEF M, L
<1>4. CASE {p, q} \subseteq DOMAIN policy
  <2>1. /\ L \in Seq(Infos(policy, p, q))
        /\ \A x \in ToSet(L) : Half(policy, p, q, x) \/ Half(policy, q, p, x)
        /\ \A x : Half(policy, p, q, x) \/ Half(policy, q, p, x) =>
             \E y \in ToSet(L) : Same(x, y)
        /\ \A m, n \in DOMAIN L : m < n =>
             L[n].port.preference <= L[m].port.preference
    BY <1>4, FoundSet
  <2>2. \A x \in Infos(policy, p, q) :
          /\ DOMAIN x = {"port", "peer", "producer", "consumer", "ends"}
          /\ x = [k \in DOMAIN x |-> x[k]]
          /\ x.port.preference \in Int
    BY <1>4 DEF Infos, Info, WellFormed
  <2> HIDE DEF L
  <2>3. Peers(M)
    BY <2>1, <2>2, PeersSet
  <2> HIDE DEF M
  <2>4. \A x \in ToSet(L) : /\ DOMAIN x = {"port", "peer", "producer", "consumer", "ends"}
                            /\ x = [k \in DOMAIN x |-> x[k]]
    BY <2>1, <2>2 DEF ToSet
  <2>5. ASSUME NEW x \in ToSet(L)
        PROVE  /\ x.consumer \in {p, q} /\ x.producer = (p + q) - x.consumer
               /\ Grouped(policy, x)
               /\ x.port.provider \in {p, q}
               /\ x.port \in Of(x.port.provider)
               /\ x.port.member \cap Linked(policy, x.consumer, x.producer) # {}
    <3>1. PICK c \in {p, q}, d \in {p, q} : /\ (c = p /\ d = q) \/ (c = q /\ d = p)
                                            /\ Half(policy, c, d, x)
      BY <2>1
    <3>2. /\ x.consumer = c /\ x.producer = d /\ Grouped(policy, x)
          /\ x.port.provider \in {c, d}
          /\ x.port \in ToSet(policy[x.port.provider].ports)
          /\ x.port.member \cap Linked(policy, c, d) # {}
      BY <1>4, <3>1, HalfIs
    <3>3. d = (p + q) - c
      BY <3>1
    <3> QED
      BY <1>4, <3>1, <3>2, <3>3
  <2>6. ASSUME NEW z \in ToSet(M)
        PROVE  /\ Brief(z) \in Offers(policy, p, q)
               /\ z.producer = (p + q) - z.consumer
               /\ Grouped(policy, z)
    <3>1. PICK x \in ToSet(L), y \in ToSet(L) :
            /\ Faces(x.port, y.port, x.producer, x.consumer)
            /\ z = [x EXCEPT !.peer = y.port]
      BY <2>3
    <3>2. /\ z.port = x.port /\ z.peer = y.port /\ z.consumer = x.consumer
          /\ z.producer = x.producer /\ z.ends = x.ends
      BY <2>4, <3>1
    <3>3. {x.producer, x.consumer} = {p, q} 
      BY <2>5
    <3>4. /\ y.port.provider # x.port.provider
          /\ y.port.provider = Min({p, q})
          /\ Name(x.port) = Name(y.port)
      BY <3>1, <3>3 DEF Faces
    <3>5. p # q /\ x.port.provider = Max({p, q})
      BY <1>2, <2>5, <3>4
    <3>6. y.port.member \cap common # {}
      <4>1. (y.consumer = p /\ y.producer = q) \/ (y.consumer = q /\ y.producer = p)
        BY <2>5
      <4> QED
        BY <2>5, <4>1
    <3>7. Grouped(policy, z)
      BY <2>5, <3>2 DEF Grouped
    <3>8. z.consumer \in {p, q} /\ z.producer = (p + q) - z.consumer
      BY <2>5, <3>2
    <3>9. z.port \in Of(Max({p, q})) /\ z.peer \in Of(Min({p, q}))
      BY <2>5, <3>2, <3>4, <3>5
    <3>10. z.port.member \cap Linked(policy, z.consumer, (p + q) - z.consumer) # {}
      BY <2>5, <3>2
    <3> HIDE DEF Of, common
    <3> QED
      BY <1>1, <3>2, <3>4, <3>5, <3>6, <3>7, <3>8, <3>9, <3>10 DEF Brief
  <2>7. ASSUME NEW o \in Offers(policy, p, q)
        PROVE  \E z \in ToSet(M) : Brief(z) = o
    <3>1. /\ o \in [port : Of(Max({p, q})), peer : Of(Min({p, q})), consumer : {p, q}]
          /\ p # q /\ Name(o.port) = Name(o.peer)
          /\ o.port.member \cap Linked(policy, o.consumer, (p + q) - o.consumer) # {}
          /\ o.peer.member \cap common # {}
      BY <1>1
    <3> DEFINE c == o.consumer
               d == (p + q) - c
    <3>2. (c = p /\ d = q) \/ (c = q /\ d = p)
      <4>1. o.consumer \in {p, q}
        BY <3>1
      <4> QED
        BY <4>1
    <3>3. c \in DOMAIN policy /\ d \in DOMAIN policy /\ c # d
      BY <1>4, <3>1, <3>2
    <3>4. /\ o.port \in ToSet(policy[Max({p, q})].ports)
          /\ o.peer \in ToSet(policy[Min({p, q})].ports)
      BY <1>2, <1>4, <3>1
    <3>5. /\ o.port.provider = Max({p, q}) /\ o.peer.provider = Min({p, q})
      BY <1>2, <1>4, <3>4 DEF WellFormed
    <3> HIDE DEF c, d
    <3>6. /\ o.port \in ToSet(policy[c].ports) \cup ToSet(policy[d].ports)
          /\ o.peer \in ToSet(policy[c].ports) \cup ToSet(policy[d].ports)
      BY <1>2, <3>2, <3>4
    <3>7. PICK x : Half(policy, c, d, x) /\ x.port = o.port /\ x.consumer = c /\ x.producer = d
      <4>1. o.port.member \cap Linked(policy, c, d) # {}
        BY <3>1 DEF c, d
      <4> QED
        BY <3>3, <3>6, <4>1, HalfOf
    <3>8. PICK y : /\ Half(policy, c, d, y) \/ Half(policy, d, c, y)
                   /\ y.port = o.peer
      <4>1. \/ o.peer.member \cap Linked(policy, c, d) # {}
            \/ o.peer.member \cap Linked(policy, d, c) # {}
        BY <3>1, <3>2
      <4> QED
        BY <3>3, <3>6, <4>1, HalfOf
    <3>9. PICK a \in ToSet(L) : Same(x, a)
      BY <2>1, <3>2, <3>7
    <3>10. PICK b \in ToSet(L) : Same(y, b)
      BY <2>1, <3>2, <3>8
    <3>11. a.port = o.port /\ a.consumer = c /\ a.producer = d /\ b.port = o.peer
      BY <3>7, <3>8, <3>9, <3>10 DEF Same
    <3> DEFINE z == [a EXCEPT !.peer = b.port]
    <3>12. {a.producer, a.consumer} = {p, q}
      BY <3>2, <3>11
    <3>13. Faces(a.port, b.port, a.producer, a.consumer)
      <4>1. Max({p, q}) # Min({p, q})
        BY <1>2, <3>1
      <4> QED
        BY <3>1, <3>5, <3>11, <3>12, <4>1 DEF Faces
    <3>14. z \in ToSet(M)
      BY <2>3, <3>13
    <3>15. z.port = o.port /\ z.peer = o.peer /\ z.consumer = o.consumer
      BY <2>4, <3>11 DEF c
    <3> HIDE DEF z
    <3>16. Brief(z) = o
      <4> HIDE DEF Of
      <4> QED
        BY <3>1, <3>15 DEF Brief
    <3> QED
      BY <3>14, <3>16
  <2> HIDE DEF Peers
  <2>8. /\ M \in Seq(ToSet(M))
        /\ \A m, n \in DOMAIN M : m < n =>
             M[n].port.preference <= M[m].port.preference
    BY <2>3 DEF Peers
  <2> QED
    BY <2>6, <2>7, <2>8 DEF M, L
<1> QED
  BY <1>3, <1>4

-----------------------------------------------------------------------------
(***************************************************************************)
(* Options: what is asked for, in the lists and in the set of offers.      *)
(***************************************************************************)
\* A sequence with three more elements.
LEMMA ThreeMore ==
  ASSUME NEW S, NEW s \in Seq(S), NEW a \in S, NEW b \in S, NEW c \in S
  PROVE  /\ s \o <<a, b, c>> \in Seq(S)
         /\ Len(s) \in Nat /\ DOMAIN (s \o <<a, b, c>>) = 1..(Len(s) + 3)
         /\ \A i \in 1..Len(s) : (s \o <<a, b, c>>)[i] = s[i]
         /\ (s \o <<a, b, c>>)[Len(s) + 1] = a
         /\ (s \o <<a, b, c>>)[Len(s) + 2] = b
         /\ (s \o <<a, b, c>>)[Len(s) + 3] = c
<1> DEFINE t == <<a, b, c>>
           v == s \o t
<1>1. t \in Seq(S) /\ Len(t) = 3 /\ t[1] = a /\ t[2] = b /\ t[3] = c
  OBVIOUS
<1> HIDE DEF t
<1>2. /\ v \in Seq(S) /\ Len(s) \in Nat /\ DOMAIN v = 1..(Len(s) + 3)
      /\ \A m \in 1..(Len(s) + 3) : v[m] = IF m <= Len(s) THEN s[m] ELSE t[m - Len(s)]
  <2>0. /\ v \in Seq(S) /\ Len(s) \in Nat /\ Len(v) = Len(s) + Len(t)
        /\ \A m \in 1..(Len(s) + Len(t)) : v[m] = IF m <= Len(s) THEN s[m] ELSE t[m - Len(s)]
    <3>1. s \in Seq(S) /\ t \in Seq(S)
      BY <1>1
    <3> QED
      BY ONLY <3>1 DEF v
  <2> HIDE DEF v
  <2>1. Len(s) \in Nat /\ v \in Seq(S) /\ Len(v) = Len(s) + 3
    BY <1>1, <2>0
  <2>2. DOMAIN v = 1..(Len(s) + 3)
    BY <2>1
  <2>3. \A m \in 1..(Len(s) + 3) : v[m] = IF m <= Len(s) THEN s[m] ELSE t[m - Len(s)]
    BY <1>1, <2>0
  <2> QED
    BY <2>1, <2>2, <2>3
<1> DEFINE k == Len(s)
<1> HIDE DEF v, k
<1>3. /\ k \in Nat /\ v[k + 1] = t[1] /\ v[k + 2] = t[2] /\ v[k + 3] = t[3]
      /\ \A i \in 1..k : v[i] = s[i]
  <2>1. k \in Nat
    BY <1>2 DEF k
  <2>2. k + 1 \in 1..(k + 3) /\ k + 2 \in 1..(k + 3) /\ k + 3 \in 1..(k + 3)
        /\ ~(k + 1 <= k) /\ ~(k + 2 <= k) /\ ~(k + 3 <= k)
        /\ (k + 1) - k = 1 /\ (k + 2) - k = 2 /\ (k + 3) - k = 3
        /\ \A i \in 1..k : i \in 1..(k + 3) /\ i <= k
    BY <2>1
  <2> QED
    BY <1>2, <2>1, <2>2 DEF k
<1> QED
  BY <1>1, <1>2, <1>3 DEF v, t, k

\* What a stitch must have to be what option o asks for, when it asks plainly.
LEMMA AskedIs ==
  ASSUME NEW policy, WellFormed(policy), NEW p \in Nat, NEW q \in Nat,
         NEW options, Plainly(policy, options), NEW o \in ToSet(options),
         NEW M, NEW i \in DOMAIN M,
         Brief(M[i]) \in Offers(policy, p, q), Grouped(policy, M[i]),
         M[i].producer = (p + q) - M[i].consumer
  PROVE  i \in ByOption(M, o) <=> Asked(o, Brief(M[i]))
<1> DEFINE z == M[i]
           d == z.producer
           c == z.consumer
           Of(t) == IF t \in DOMAIN policy THEN ToSet(policy[t].ports) ELSE {}
<1>1. i \in ByOption(M, o) <=>
        \/ \E a \in {z.port, z.peer} : Fits(PortKey(o.key, i), o.values, a)
        \/ \E g \in z.ends : Fits(GroupKey(o.key), o.values, g)
  BY DEF ByOption
<1>2. /\ c \in {p, q} /\ p # q
      /\ z.port \in Of(Max({p, q})) /\ z.peer \in Of(Min({p, q}))
  <2>1. Brief(z) \in [port : Of(Max({p, q})), peer : Of(Min({p, q})), consumer : {p, q}] /\ p # q
    BY DEF Offers
  <2> HIDE DEF Of
  <2> QED
    BY <2>1 DEF Brief
<1>3. /\ Min({p, q}) \in {p, q} /\ Max({p, q}) \in {p, q}
      /\ Min({p, q}) # Max({p, q})
  BY <1>2, MinMaxPair
<1>4. p \in DOMAIN policy /\ q \in DOMAIN policy
  BY <1>2, <1>3, MinMaxPair
<1>5. d \in DOMAIN policy /\ c \in DOMAIN policy
  BY <1>2, <1>4
<1>6. PICK h \in ToSet(policy[d].groups), g \in ToSet(policy[c].groups) :
        z.ends = {h, g} /\ Name(h) = Name(g) /\ Name(g) \in z.port.member
  BY DEF Grouped
<1>7. /\ z.port \in ToSet(policy[Max({p, q})].ports) /\ z.peer \in ToSet(policy[Min({p, q})].ports)
      /\ Max({p, q}) \in DOMAIN policy /\ Min({p, q}) \in DOMAIN policy
  BY <1>2, <1>3, <1>4
<1>8. Asked(o, Brief(z)) <=>
        IF o.key = "group_name" THEN \E m \in z.port.member : o.values = {m}
        ELSE \E a \in {z.port, z.peer} :
               Fits(IF o.key = "port_name" THEN "name" ELSE o.key, o.values, a)
  BY DEF Asked, Brief
<1> HIDE DEF z, d, c, Of
<1>9. CASE o.key = "group_name"
  <2>1. \A t \in DOMAIN policy :
          /\ \A x \in ToSet(policy[t].groups) : ~check_options("name", o.values, x)
          /\ \A s \in ToSet(policy[t].ports) :
               /\ \A x, y \in s.member : x = y
               /\ \A k \in {"name", "group_name"} : ~Fits(k, o.values, s)
    BY <1>9 DEF Plainly
  <2>2. ~check_options("name", o.values, h) /\ ~check_options("name", o.values, g)
    BY <1>5, <2>1
  <2>3. "name" \in DOMAIN h.attrs /\ "name" \in DOMAIN g.attrs
    BY <1>5 DEF WellFormed
  <2>4. \A x \in {h, g} : Fits("name", o.values, x) <=> {Name(g)} = o.values
    BY <1>6, <2>2, <2>3 DEF Fits, Name
  <2>5. \A a \in {z.port, z.peer} : ~Fits(PortKey(o.key, i), o.values, a)
    BY <1>7, <1>9, <2>1 DEF PortKey
  <2>6. \A m \in z.port.member : m = Name(g)
    BY <1>6, <1>7, <2>1
  <2>7. GroupKey(o.key) = "name"
    BY <1>9 DEF GroupKey
  <2>8. i \in ByOption(M, o) <=> {Name(g)} = o.values
    BY <1>1, <1>6, <2>4, <2>5, <2>7
  <2>9. Asked(o, Brief(z)) <=> o.values = {Name(g)}
    BY <1>6, <1>8, <1>9, <2>6
  <2> QED
    BY <2>8, <2>9 DEF z
<1>10. CASE o.key # "group_name"
  <2>1. \A t \in DOMAIN policy :
          \A x \in ToSet(policy[t].groups) : ~Fits(GroupKey(o.key), o.values, x)
    BY <1>10 DEF Plainly
  <2>2. \A x \in z.ends : ~Fits(GroupKey(o.key), o.values, x)
    BY <1>5, <1>6, <2>1
  <2>3. PortKey(o.key, i) = IF o.key = "port_name" THEN "name" ELSE o.key
    BY <1>10 DEF PortKey
  <2> QED
    BY <1>1, <1>8, <1>10, <2>2, <2>3 DEF z
<1> QED
  BY <1>9, <1>10

\* Stitches that are offers.
Stitches(policy, p, q, M) ==
  /\ M \in Seq(ToSet(M))
  /\ \A z \in ToSet(M) : /\ Brief(z) \in Offers(policy, p, q)
                         /\ z.producer = (p + q) - z.consumer
                         /\ Grouped(policy, z)

\* The places of stitches that meet a criterion, and the offers that meet it.
Matched(M, offers, n, hits, wishes) ==
  /\ n \in Nat \ {0} /\ DOMAIN hits = 1..n /\ DOMAIN wishes = 1..n
  /\ \A i \in 1..n : /\ hits[i] = {m \in DOMAIN M : Brief(M[m]) \in wishes[i]}
                     /\ wishes[i] \subseteq offers
  /\ wishes[n] = offers

\* What is asked for of the stitches is what is asked for of the offers.
LEMMA HitsAreWishes ==
  ASSUME NEW policy, WellFormed(policy), NEW p \in Nat, NEW q \in Nat,
         NEW options, options \in Seq(ToSet(options)), Plainly(policy, options),
         NEW s, NEW profile, NEW M, Stitches(policy, p, q, M)
  PROVE  Matched(M, Offers(policy, p, q), Len(options) + 3,
                 Criteria(M, s, profile, options),
                 Wishes(Offers(policy, p, q), s, profile, options))
<1> DEFINE O == Offers(policy, p, q)
           k == Len(options)
           D == DOMAIN M
           ho == [i \in DOMAIN options |-> ByOption(M, options[i])]
           wo == [i \in DOMAIN options |-> {o \in O : Asked(options[i], o)}]
           h1 == ByAttribute(M, "profile", profile)
           h2 == ByAttribute(M, "site", s)
           w1 == {o \in O : Has(o.port, "profile", profile)}
           w2 == {o \in O : Has(o.port, "site", s)}
           hits == ho \o <<h1, h2, D>>
           wishes == wo \o <<w1, w2, O>>
<1>0. hits = Criteria(M, s, profile, options) /\ wishes = Wishes(O, s, profile, options)
  BY DEF Criteria, Wishes
<1>1. k \in Nat /\ DOMAIN options = 1..k /\ \A i \in 1..k : options[i] \in ToSet(options)
  BY DEF ToSet
<1>2. \A m \in D : M[m] \in ToSet(M)
  BY DEF ToSet
<1>3. \A m \in D : Brief(M[m]) \in O
  BY <1>2 DEF Stitches
<1>4. \A i \in 1..k : \A m \in D :
        m \in ByOption(M, options[i]) <=> Asked(options[i], Brief(M[m]))
  <2> SUFFICES ASSUME NEW i \in 1..k, NEW m \in D
               PROVE  m \in ByOption(M, options[i]) <=> Asked(options[i], Brief(M[m]))
    OBVIOUS
  <2>1. /\ Brief(M[m]) \in Offers(policy, p, q) /\ Grouped(policy, M[m])
        /\ M[m].producer = (p + q) - M[m].consumer
    BY <1>2 DEF Stitches
  <2>2. options[i] \in ToSet(options)
    BY <1>1
  <2> QED
    BY <2>1, <2>2, AskedIs
<1>5. \A i \in 1..k : ho[i] \in SUBSET D /\ ho[i] = {m \in D : Brief(M[m]) \in wo[i]}
  <2> SUFFICES ASSUME NEW i \in 1..k
               PROVE  ho[i] \in SUBSET D /\ ho[i] = {m \in D : Brief(M[m]) \in wo[i]}
    OBVIOUS
  <2>1. ho[i] = ByOption(M, options[i]) /\ wo[i] = {o \in O : Asked(options[i], o)}
    BY <1>1
  <2>2. ByOption(M, options[i]) \subseteq D
    BY DEF ByOption
  <2> HIDE DEF ho, wo, D, O
  <2> QED
    BY <1>3, <1>4, <2>1, <2>2
<1>6. ASSUME NEW key, NEW value
      PROVE  ByAttribute(M, key, value) =
               {m \in D : Brief(M[m]) \in {o \in O : Has(o.port, key, value)}}
  <2>1. \A m \in D : m \in ByAttribute(M, key, value) <=> Has(M[m].port, key, value)
    <3> SUFFICES ASSUME NEW m \in D
                 PROVE  m \in ByAttribute(M, key, value) <=> Has(M[m].port, key, value)
      OBVIOUS
    <3>1. m \in ByAttribute(M, key, value) <=>
            value # "" /\ key \in DOMAIN M[m].port.attrs /\ M[m].port.attrs[key] = value
      BY DEF ByAttribute
    <3>2. Has(M[m].port, key, value) <=>
            value # "" /\ \E a \in DOMAIN M[m].port.attrs :
                            <<key, value>> = <<a, M[m].port.attrs[a]>>
      BY DEF Has
    <3> QED
      BY <3>1, <3>2
  <2>2. ByAttribute(M, key, value) \subseteq D
    BY DEF ByAttribute
  <2>3. \A m : Brief(M[m]).port = M[m].port
    BY DEF Brief
  <2> HIDE DEF D, O
  <2> QED
    BY <1>3, <2>1, <2>2, <2>3
<1>7. h1 = {m \in D : Brief(M[m]) \in w1} /\ h2 = {m \in D : Brief(M[m]) \in w2}
  BY <1>6
<1>8. h1 \subseteq D /\ h2 \subseteq D
  BY DEF ByAttribute
<1>9. ho \in Seq(SUBSET D) /\ Len(ho) = k
  <2> HIDE DEF D
  <2>1. ho = [i \in 1..k |-> ByOption(M, options[i])] /\ \A i \in 1..k : ho[i] \in SUBSET D
    BY <1>1, <1>5
  <2> QED
    BY <1>1, <2>1
<1>10. wo \in Seq(SUBSET O) /\ Len(wo) = k /\ \A i \in 1..k : wo[i] \in SUBSET O
  <2> HIDE DEF O
  <2> QED
    BY <1>1
<1>11. w1 \in SUBSET O /\ w2 \in SUBSET O
  OBVIOUS
<1> HIDE DEF ho, wo, h1, h2, w1, w2, D, O
<1>12. /\ hits \in Seq(SUBSET D) /\ DOMAIN hits = 1..(k + 3)
       /\ \A i \in 1..k : hits[i] = ho[i]
       /\ hits[k + 1] = h1 /\ hits[k + 2] = h2 /\ hits[k + 3] = D
  <2>1. h1 \in SUBSET D /\ h2 \in SUBSET D /\ D \in SUBSET D
    BY <1>8
  <2> DEFINE S == SUBSET D
  <2>2. ho \in Seq(S) /\ h1 \in S /\ h2 \in S /\ D \in S
    BY <1>9, <2>1
  <2> HIDE DEF k, S
  <2>3. /\ hits \in Seq(S) /\ Len(ho) \in Nat /\ DOMAIN hits = 1..(Len(ho) + 3)
        /\ \A i \in 1..Len(ho) : hits[i] = ho[i]
        /\ hits[Len(ho) + 1] = h1 /\ hits[Len(ho) + 2] = h2 /\ hits[Len(ho) + 3] = D
    BY <2>2, ThreeMore
  <2> QED
    BY <1>9, <2>3 DEF S
<1>13. /\ DOMAIN wishes = 1..(k + 3)
       /\ \A i \in 1..k : wishes[i] = wo[i]
       /\ wishes[k + 1] = w1 /\ wishes[k + 2] = w2 /\ wishes[k + 3] = O
  <2>1. O \in SUBSET O
    OBVIOUS
  <2> DEFINE S == SUBSET O
  <2>2. wo \in Seq(S) /\ w1 \in S /\ w2 \in S /\ O \in S
    BY <1>10, <1>11, <2>1
  <2> HIDE DEF k, S
  <2>3. /\ Len(wo) \in Nat /\ DOMAIN wishes = 1..(Len(wo) + 3)
        /\ \A i \in 1..Len(wo) : wishes[i] = wo[i]
        /\ wishes[Len(wo) + 1] = w1 /\ wishes[Len(wo) + 2] = w2 /\ wishes[Len(wo) + 3] = O
    BY <2>2, ThreeMore
  <2> QED
    BY <1>10, <2>3
<1> HIDE DEF hits, wishes
<1>14. ASSUME NEW i \in 1..(k + 3)
       PROVE  hits[i] = {m \in D : Brief(M[m]) \in wishes[i]} /\ wishes[i] \subseteq O
  <2>1. CASE i \in 1..k
    BY <1>5, <1>10, <1>12, <1>13, <2>1
  <2>2. CASE i = k + 1
    BY <1>7, <1>11, <1>12, <1>13, <2>2
  <2>3. CASE i = k + 2
    BY <1>7, <1>11, <1>12, <1>13, <2>3
  <2>4. CASE i = k + 3
    BY <1>3, <1>12, <1>13, <2>4
  <2>5. i \in 1..k \/ i = k + 1 \/ i = k + 2 \/ i = k + 3
    BY <1>1
  <2> QED
    BY <2>1, <2>2, <2>3, <2>4, <2>5
<1>15. k + 3 \in Nat \ {0}
  BY <1>1
<1> QED
  BY <1>0, <1>12, <1>13, <1>14, <1>15 DEF O, k, D, Matched

\* The least element that Min chooses.
LEMMA MinIs ==
  ASSUME NEW T, T \subseteq Nat, T # {}
  PROVE  Min(T) \in T /\ \A y \in T : Min(T) <= y
<1>1. \E x \in T : \A y \in T : x <= y
  BY Least
<1> QED
  BY <1>1 DEF Min

\* o is of two ports with one name, one of each of the types p and q.
OfTypes(p, q, o) ==
  /\ p # q /\ o.consumer \in {p, q} /\ Titled(o.port)
  /\ o.port.preference \in Int /\ o.peer.preference \in Int
  /\ \/ o.port.provider = p /\ o.peer.provider = q
     \/ o.port.provider = q /\ o.peer.provider = p

\* An offer is of two ports of different types.
LEMMA OfferPorts ==
  ASSUME NEW policy, WellFormed(policy), NEW p \in Nat, NEW q \in Nat,
         NEW o \in Offers(policy, p, q)
  PROVE  OfTypes(p, q, o)
<1> DEFINE Of(t) == IF t \in DOMAIN policy THEN ToSet(policy[t].ports) ELSE {}
<1>1. o \in [port : Of(Max({p, q})), peer : Of(Min({p, q})), consumer : {p, q}] /\ p # q
  BY DEF Offers
<1>2. \A t : \A s \in Of(t) : s.provider = t /\ s.preference \in Int /\ Titled(s)
  BY DEF WellFormed, Titled
<1> HIDE DEF Of
<1>3. o.port \in Of(Max({p, q})) /\ o.peer \in Of(Min({p, q})) /\ o.consumer \in {p, q}
  BY <1>1
<1>4. (Max({p, q}) = p /\ Min({p, q}) = q) \/ (Max({p, q}) = q /\ Min({p, q}) = p)
  <2>1. /\ Min({p, q}) = IF p <= q THEN p ELSE q
        /\ Max({p, q}) = IF p <= q THEN q ELSE p
    BY MinMaxPair
  <2> QED
    BY <2>1
<1> QED
  BY <1>1, <1>2, <1>3, <1>4 DEF OfTypes

\* A stitch without its groups, as it is chosen.
Choice(z) == [port |-> z.port, peer |-> z.peer, producer |-> z.producer,
              consumer |-> z.consumer]

\* What is chosen is one of the stitches found.
LEMMA ChoiceIs ==
  ASSUME NEW policy, NEW p \in Nat, NEW q \in Nat, WellFormed(policy),
         NEW s, NEW profile, NEW options,
         NEW x \in find_stitch_port(policy, p, q, s, profile, options),
         options \in Seq(ToSet(options))
  PROVE  \E z \in ToSet(peer_stitch_ports(find_stitch_port_for_providers(policy, p, q))) :
           x = Choice(z)
<1> DEFINE M == peer_stitch_ports(find_stitch_port_for_providers(policy, p, q))
           hits == Criteria(M, s, profile, options)
           met == {i \in DOMAIN hits : hits[i] # {}}
           k == Len(options)
           D == DOMAIN M
           ho == [i \in DOMAIN options |-> ByOption(M, options[i])]
           h1 == ByAttribute(M, "profile", profile)
           h2 == ByAttribute(M, "site", s)
<1>1. met # {} /\ x = Choice(Earliest(M, Earliest(hits, met)))
  BY DEF find_stitch_port, Choice
<1>2. M \in Seq(ToSet(M))
  BY OffersAre
<1>3. hits = ho \o <<h1, h2, D>>
  BY DEF Criteria
<1> HIDE DEF M, hits
<1>4. D = 1..Len(M) /\ Len(M) \in Nat
  BY <1>2
<1>5. ho \in Seq(SUBSET D) /\ h1 \in SUBSET D /\ h2 \in SUBSET D /\ D \in SUBSET D
  <2>1. \A i \in DOMAIN options : ho[i] \in SUBSET D
    BY DEF ByOption
  <2>2. DOMAIN options = 1..Len(options) /\ Len(options) \in Nat
    OBVIOUS
  <2>3. h1 \in SUBSET D /\ h2 \in SUBSET D
    BY DEF ByAttribute
  <2> HIDE DEF D
  <2> QED
    BY <2>1, <2>2, <2>3
<1> DEFINE S == SUBSET D
<1>6. hits \in Seq(S)
  <2>1. ho \in Seq(S) /\ h1 \in S /\ h2 \in S /\ D \in S
    BY <1>5
  <2> HIDE DEF S, ho, h1, h2, D
  <2> QED
    BY <1>3, <2>1, ThreeMore
<1>7. met \subseteq Nat /\ \A i \in met : hits[i] \in SUBSET D /\ hits[i] # {}
  BY <1>6
<1> HIDE DEF met
<1>8. Min(met) \in met
  BY <1>1, <1>7, MinIs
<1> DEFINE hit == hits[Min(met)]
<1>9. hit \subseteq Nat /\ hit # {} /\ hit \subseteq D
  <2>1. D \subseteq Nat
    BY <1>4
  <2> HIDE DEF D
  <2>2. hit \in SUBSET D /\ hit # {}
    BY <1>7, <1>8
  <2> QED
    BY <2>1, <2>2
<1>10. Min(hit) \in D
  <2> HIDE DEF hit, D
  <2> QED
    BY <1>9, MinIs
<1>11. M[Min(hit)] \in ToSet(M)
  BY <1>10 DEF ToSet
<1>12. x = Choice(M[Min(hit)])
  BY <1>1 DEF Earliest
<1> HIDE DEF hit
<1> QED
  BY <1>11, <1>12 DEF M

\* The offers that meet the most important wish that can be met.
BestOf(O, s, profile, options) ==
  LET wishes == Wishes(O, s, profile, options)
  IN  Earliest(wishes, {i \in DOMAIN wishes : wishes[i] # {}})

\* None of the best has a higher preference than the only stitch that is chosen.
IsBest(chosen, O, best, total) ==
  /\ O = {} => chosen = {}
  /\ O # {} =>
       /\ best \subseteq O
       /\ \E z : /\ chosen = {Choice(z)}
                 /\ z.producer = total - z.consumer
                 /\ Brief(z) \in best
                 /\ \A b \in best : b.port.preference <= z.port.preference

\* The first wish that an offer meets is met, by the offer with the highest preference.
LEMMA ChosenIsBest ==
  ASSUME NEW policy, WellFormed(policy), NEW p \in Nat, NEW q \in Nat,
         NEW options, options \in Seq(ToSet(options)), Plainly(policy, options),
         NEW s, NEW profile
  PROVE  IsBest(find_stitch_port(policy, p, q, s, profile, options),
                Offers(policy, p, q),
                BestOf(Offers(policy, p, q), s, profile, options), p + q)
<1> DEFINE O == Offers(policy, p, q)
           M == peer_stitch_ports(find_stitch_port_for_providers(policy, p, q))
           chosen == find_stitch_port(policy, p, q, s, profile, options)
           hits == Criteria(M, s, profile, options)
           met == {i \in DOMAIN hits : hits[i] # {}}
           wishes == Wishes(O, s, profile, options)
           least == {i \in DOMAIN wishes : wishes[i] # {}}
           n == Len(options) + 3
           x == Earliest(M, Earliest(hits, met))
<1>1. chosen = IF met = {} THEN {} ELSE {Choice(x)}
  BY DEF find_stitch_port, Choice
<1>2. /\ M \in Seq(ToSet(M))
      /\ \A z \in ToSet(M) : /\ Brief(z) \in O
                             /\ z.producer = (p + q) - z.consumer
                             /\ Grouped(policy, z)
      /\ \A o \in O : \E z \in ToSet(M) : Brief(z) = o
      /\ \A a, b \in DOMAIN M : a < b => M[b].port.preference <= M[a].port.preference
  BY OffersAre
<1> HIDE DEF M
<1>3. /\ n \in Nat \ {0} /\ DOMAIN hits = 1..n /\ DOMAIN wishes = 1..n
      /\ \A i \in 1..n : /\ hits[i] = {m \in DOMAIN M : Brief(M[m]) \in wishes[i]}
                         /\ wishes[i] \subseteq O
      /\ wishes[n] = O
  <2>1. Stitches(policy, p, q, M)
    BY <1>2 DEF Stitches
  <2>2. Matched(M, O, n, hits, wishes)
    BY <2>1, HitsAreWishes
  <2> HIDE DEF O, n, hits, wishes
  <2> QED
    BY <2>2 DEF Matched
<1> HIDE DEF O, hits, wishes, n, chosen
<1>4. \A i \in 1..n : hits[i] = {} <=> wishes[i] = {}
  <2> SUFFICES ASSUME NEW i \in 1..n PROVE hits[i] = {} <=> wishes[i] = {}
    OBVIOUS
  <2>1. \A o \in O : \E m \in DOMAIN M : Brief(M[m]) = o
    BY <1>2 DEF ToSet
  <2> QED
    BY <1>3, <2>1
<1>5. met = least /\ met \subseteq Nat
  BY <1>3, <1>4
<1>6. met = {} <=> O = {}
  BY <1>3, <1>4
<1>7. ASSUME O # {}
      PROVE  /\ Earliest(wishes, least) \subseteq O
             /\ \E z : /\ chosen = {Choice(z)}
                       /\ z.producer = (p + q) - z.consumer
                       /\ Brief(z) \in Earliest(wishes, least)
                       /\ \A b \in Earliest(wishes, least) :
                            b.port.preference <= z.port.preference
  <2>0. met # {}
    BY <1>6, <1>7
  <2>1. Min(met) \in met
    <3> HIDE DEF met
    <3> QED
      BY <1>5, <2>0, MinIs
  <2> DEFINE k == Min(met)
             hit == hits[k]
             best == wishes[k]
  <2>2. k \in 1..n /\ hit # {} /\ best # {}
    BY <1>3, <1>4, <2>1
  <2>3. Earliest(hits, met) = hit /\ Earliest(wishes, least) = best
    BY <1>5 DEF Earliest
  <2> HIDE DEF k, met, least
  <2>4. hit = {m \in DOMAIN M : Brief(M[m]) \in best} /\ best \subseteq O
    BY <1>3, <2>2
  <2> HIDE DEF hit, best
  <2>5. hit \subseteq Nat
    BY <1>2, <2>4
  <2>6. Min(hit) \in hit /\ \A m \in hit : Min(hit) <= m
    BY <2>2, <2>5, MinIs
  <2> DEFINE j == Min(hit)
  <2>7. x = M[j]
    BY <2>3 DEF Earliest
  <2> HIDE DEF x, j
  <2>8. j \in DOMAIN M /\ Brief(x) \in best /\ x \in ToSet(M)
    BY <2>4, <2>6, <2>7 DEF ToSet, j
  <2>9. chosen = {Choice(x)}
    BY <1>1, <2>0
  <2>10. \A b \in best : b.port.preference <= x.port.preference
    <3> SUFFICES ASSUME NEW b \in best PROVE b.port.preference <= x.port.preference
      OBVIOUS
    <3>1. PICK m \in DOMAIN M : Brief(M[m]) = b
      BY <1>2, <2>4 DEF ToSet
    <3>2. m \in hit /\ j <= m
      BY <2>4, <2>6, <3>1 DEF j
    <3>3. b.port = M[m].port
      BY <3>1 DEF Brief
    <3>4. x.port.preference \in Int
      <4>1. Brief(x) \in O
        BY <2>4, <2>8
      <4>2. x.port = Brief(x).port
        BY DEF Brief
      <4>3. Brief(x).port.preference \in Int
        BY <4>1, OfferPorts DEF O, OfTypes
      <4> QED
        BY <4>2, <4>3
    <3>5. j = m \/ j < m
      BY <1>2, <2>8, <3>2
    <3> QED
      BY <1>2, <2>7, <2>8, <3>3, <3>4, <3>5
  <2> QED
    BY <1>2, <2>3, <2>4, <2>8, <2>9, <2>10
<1> QED
  BY <1>1, <1>6, <1>7 DEF O, chosen, wishes, IsBest, BestOf

-----------------------------------------------------------------------------
(***************************************************************************)
(* The order of resources.                                                 *)
(***************************************************************************)
\* What a key still waits for is what is not in the list yet.
WaitsInv == \A r \in Res : waits[r] = deps[r] \ Placed

\* What is in the list needs only what is in the list.
Closed == \A r \in Placed : deps[r] \subseteq Placed

\* No placed resources wait for each other.
PlacedAcyclic == \A S \in SUBSET Placed : ~Circular(S)

\* Once the exception is raised nothing is taken any more.
RaisedInv == raised => left # {} /\ Free = {}

\* No resource is placed twice.
Once == \A i, j \in 1..Len(ordered) : ordered[i] = ordered[j] => i = j

\* The invariant of the order.
OrderInv ==
  OrderTypeOK /\ WaitsInv /\ Closed /\ Topological /\ PlacedAcyclic /\ RaisedInv /\ Once

\* What is placed after an append.
LEMMA PlacedAppend ==
  ASSUME OrderTypeOK, NEW r \in Res, ordered' = Append(ordered, r)
  PROVE  /\ Placed' = Placed \cup {r}
         /\ Placed' \subseteq Res
         /\ ordered' \in Seq(Res)
         /\ Len(ordered') = Len(ordered) + 1
         /\ \A i \in 1..Len(ordered) : ordered'[i] = ordered[i]
         /\ ordered'[Len(ordered) + 1] = r
<1>1. ordered \in Seq(Res) /\ Len(ordered) \in Nat
  BY DEF OrderTypeOK
<1>2. /\ ordered' \in Seq(Res)
      /\ Len(ordered') = Len(ordered) + 1
      /\ \A i \in 1..Len(ordered) : ordered'[i] = ordered[i]
      /\ ordered'[Len(ordered) + 1] = r
  BY <1>1
<1>3. 1..Len(ordered') = 1..Len(ordered) \cup {Len(ordered) + 1}
  BY <1>1, <1>2
<1>4. Placed' = Placed \cup {r}
  BY <1>2, <1>3 DEF Placed
<1>5. Placed' \subseteq Res
  BY <1>1, <1>4 DEF Placed
<1> QED
  BY <1>2, <1>4, <1>5

\* The key that is taken is new, and everything it needs is in the list.
LEMMA FirstIsNew ==
  ASSUME OrderTypeOK, WaitsInv, NEW r \in Res, First(r)
  PROVE  r \notin Placed /\ deps[r] \subseteq Placed
  BY DEF OrderTypeOK, WaitsInv, First, Free

\* A cycle through the new resource would leave one without it.
LEMMA StaysAcyclic ==
  ASSUME OrderTypeOK, Closed, PlacedAcyclic,
         NEW r \in Res, r \notin Placed, deps[r] \subseteq Placed,
         NEW S \in SUBSET (Placed \cup {r})
  PROVE  ~Circular(S)
<1> SUFFICES ASSUME Circular(S) PROVE FALSE
  OBVIOUS
<1> DEFINE T == S \ {r}
<1>1. T \in SUBSET Placed
  OBVIOUS
<1>2. \A s \in S : deps[s] \cap T # {}
  <2> SUFFICES ASSUME NEW s \in S PROVE deps[s] \cap T # {}
    OBVIOUS
  <2>1. deps[s] \subseteq Placed
    BY DEF Closed
  <2>2. deps[s] \cap S # {}
    BY DEF Circular
  <2> QED
    BY <2>1, <2>2
<1>3. T # {}
  BY <1>2 DEF Circular
<1>4. Circular(T)
  BY <1>2, <1>3 DEF Circular
<1> QED
  BY <1>1, <1>4 DEF PlacedAcyclic
\* The invariant holds before the first key is taken.
LEMMA OrderInitInv == OrderInit => OrderInv
<1> SUFFICES ASSUME OrderInit PROVE OrderInv
  OBVIOUS
<1>1. Placed = {}
  BY DEF OrderInit, Placed
<1>2. OrderTypeOK
  <2>1. deps \in [Res -> SUBSET Res]
    BY OrderAssumption DEF OrderInit
  <2>2. ordered \in Seq(Res)
    BY DEF OrderInit
  <2> QED
    BY <1>1, <2>1, <2>2 DEF OrderInit, OrderTypeOK
<1>3. WaitsInv /\ Closed
  BY <1>1, <1>2 DEF OrderInit, OrderTypeOK, WaitsInv, Closed
<1>4. Topological
  BY DEF OrderInit, Topological
<1>5. PlacedAcyclic
  BY <1>1 DEF PlacedAcyclic, Circular
<1>6. RaisedInv
  BY DEF OrderInit, RaisedInv
<1>7. Once
  BY DEF OrderInit, Once
<1> QED
  BY <1>2, <1>3, <1>4, <1>5, <1>6, <1>7 DEF OrderInv

\* Taking a key keeps the invariant.
LEMMA TakeInv == ASSUME OrderInv, NEW r \in Res, Take(r) PROVE OrderInv'
<1> USE DEF OrderInv
<1>1. /\ ~raised /\ First(r)
      /\ left' = left \ {r}
      /\ ordered' = Append(ordered, r)
      /\ waits' = [s \in Res |-> waits[s] \ {r}]
      /\ deps' = deps /\ raised' = raised
  BY DEF Take, Move
<1>2. r \notin Placed /\ deps[r] \subseteq Placed
  BY <1>1, FirstIsNew
<1>3. /\ Placed' = Placed \cup {r}
      /\ Placed' \subseteq Res
      /\ ordered' \in Seq(Res)
      /\ Len(ordered') = Len(ordered) + 1
      /\ \A i \in 1..Len(ordered) : ordered'[i] = ordered[i]
      /\ ordered'[Len(ordered) + 1] = r
  BY <1>1, PlacedAppend
<1>4. OrderTypeOK'
  BY <1>1, <1>3 DEF OrderTypeOK
<1>5. WaitsInv'
  BY <1>1, <1>3 DEF WaitsInv, OrderTypeOK
<1>6. Closed'
  BY <1>1, <1>2, <1>3 DEF Closed
<1>7. Topological'
  <2> SUFFICES ASSUME NEW i \in 1..Len(ordered')
               PROVE  deps[ordered'[i]] \subseteq
                        {ordered'[j] : j \in 1..(i - 1)}
    BY <1>1 DEF Topological
  <2>1. Len(ordered) \in Nat
    BY DEF OrderTypeOK
  <2>2. \A j \in 1..(i - 1) : ordered'[j] = ordered[j]
    BY <2>1, <1>3
  <2>3. {ordered'[j] : j \in 1..(i - 1)} = {ordered[j] : j \in 1..(i - 1)}
    BY <2>2
  <2>4. CASE i \in 1..Len(ordered)
    BY <2>3, <2>4, <1>3 DEF Topological
  <2>5. CASE i = Len(ordered) + 1
    <3>1. i - 1 = Len(ordered)
      BY <2>1, <2>5
    <3>2. {ordered[j] : j \in 1..(i - 1)} = Placed
      BY <3>1 DEF Placed
    <3> QED
      BY <2>3, <2>5, <3>2, <1>2, <1>3
  <2> QED
    BY <2>1, <2>4, <2>5, <1>3
<1>8. PlacedAcyclic'
  <2>1. \A S \in SUBSET (Placed \cup {r}) : ~Circular(S)
    BY <1>2, StaysAcyclic
  <2> QED
    BY <2>1, <1>1, <1>3 DEF PlacedAcyclic, Circular
<1>9. RaisedInv'
  BY <1>1 DEF RaisedInv
<1>10. Once'
  <2> SUFFICES ASSUME NEW i \in 1..Len(ordered'), NEW j \in 1..Len(ordered'),
                      ordered'[i] = ordered'[j]
               PROVE  i = j
    BY DEF Once
  <2>1. Len(ordered) \in Nat
    BY DEF OrderTypeOK
  <2>2. \A k \in 1..Len(ordered') : k \in 1..Len(ordered) \/ k = Len(ordered) + 1
    BY <2>1, <1>3
  <2>3. \A k \in 1..Len(ordered) : ordered'[k] = ordered[k] /\ ordered[k] # r
    BY <1>2, <1>3 DEF Placed
  <2> QED
    BY <2>2, <2>3, <1>3 DEF Once
<1> QED
  BY <1>4, <1>5, <1>6, <1>7, <1>8, <1>9, <1>10

\* A step that leaves the map and the list alone keeps what is said of them.
LEMMA SameLists ==
  ASSUME OrderInv, UNCHANGED <<deps, left, waits, ordered>>, raised' \in BOOLEAN,
         raised' => left # {} /\ Free = {}
  PROVE  OrderInv'
<1>1. Placed' = Placed /\ Free' = Free
  BY DEF Placed, Free
<1>2. OrderTypeOK' /\ WaitsInv' /\ Closed' /\ Topological' /\ Once'
  BY <1>1 DEF OrderInv, OrderTypeOK, WaitsInv, Closed, Topological, Once
<1>3. PlacedAcyclic'
  BY <1>1 DEF OrderInv, PlacedAcyclic, Circular
<1>4. RaisedInv'
  BY <1>1 DEF RaisedInv
<1> QED
  BY <1>2, <1>3, <1>4 DEF OrderInv

\* Every step keeps the invariant.
LEMMA OrderStepInv == OrderInv /\ [OrderNext]_order => OrderInv'
<1> SUFFICES ASSUME OrderInv, [OrderNext]_order PROVE OrderInv'
  OBVIOUS
<1>1. CASE Raise
  BY <1>1, SameLists DEF Raise
<1>2. CASE \E r \in Res : Take(r)
  BY <1>2, TakeInv
<1>3. CASE UNCHANGED order
  BY <1>3, SameLists DEF order, OrderInv, OrderTypeOK, RaisedInv
<1> QED
  BY <1>1, <1>2, <1>3 DEF OrderNext

\* The same of the state in which a computation of the order begins.
LEMMA OrderBegins == OrderInit' => OrderInv'
  BY OrderInitInv, PTL

\* The invariant holds in every reachable state.
THEOREM OrderInvariant == OrderSpec => []OrderInv
  BY OrderInitInv, OrderStepInv, PTL DEF OrderSpec

\* Variables keep their types, and a key is in the map or in the list.
THEOREM OrderTypeCorrect == OrderSpec => []OrderTypeOK
  BY OrderInvariant, PTL DEF OrderInv

\* For every dependency map order_resources returns a topological order.
THEOREM TopologicalHolds == OrderSpec => []Topological
  BY OrderInvariant, PTL DEF OrderInv

\* "circular dependencies" is raised for a cycle, and for nothing else.
THEOREM RaisesIffCircularHolds == OrderSpec => []RaisesIffCircular
<1>1. OrderInv => RaisesIffCircular
  <2> SUFFICES ASSUME OrderInv PROVE RaisesIffCircular
    OBVIOUS
  <2>1. ASSUME raised PROVE \E S \in SUBSET Res : Circular(S)
    <3>1. left # {} /\ Free = {} /\ left = Res \ Placed
      BY <2>1 DEF OrderInv, RaisedInv, OrderTypeOK
    <3>2. \A r \in left : deps[r] \cap left # {}
      BY <3>1 DEF OrderInv, WaitsInv, OrderTypeOK, Free
    <3>3. Circular(left) /\ left \in SUBSET Res
      BY <3>1, <3>2 DEF Circular
    <3> QED
      BY <3>3
  <2>2. ASSUME left = {} PROVE \A S \in SUBSET Res : ~Circular(S)
    <3>1. Res \subseteq Placed
      BY <2>2 DEF OrderInv, OrderTypeOK
    <3> QED
      BY <3>1 DEF OrderInv, PlacedAcyclic
  <2> QED
    BY <2>1, <2>2 DEF RaisesIffCircular
<1> QED
  BY <1>1, OrderInvariant, PTL

\* An order of all resources has a place for each.
LEMMA OrderLength ==
  ASSUME OrderInv, left = {}
  PROVE  Len(ordered) = N /\ \A r \in Res : \E i \in 1..N : ordered[i] = r
<1> DEFINE n == Len(ordered)
<1>1. n \in Nat /\ ordered \in [1..n -> Res] /\ Placed = Res
  BY DEF OrderInv, OrderTypeOK, Placed
<1>2. \A r \in Res : \E i \in 1..n : ordered[i] = r
  BY <1>1 DEF Placed
<1>3. \A i, j \in 1..n : ordered[i] = ordered[j] => i = j
  BY DEF OrderInv, Once
<1> HIDE DEF n
<1>4. /\ IsFiniteSet(1..n) /\ Cardinality(1..n) = n
      /\ IsFiniteSet(Res) /\ Cardinality(Res) = N
  <2>1. \A k \in Nat : IsFiniteSet(1..k) /\ Cardinality(1..k) = IF 1 > k THEN 0 ELSE k - 1 + 1
    BY FS_Interval
  <2> QED
    BY <1>1, <2>1, OrderAssumption DEF Res
<1>5. ordered \in Injection(1..n, Res)
  BY <1>1, <1>3 DEF Injection, IsInjective
<1>6. ordered \in Surjection(1..n, Res)
  BY <1>1, <1>2 DEF Surjection
<1>7. n <= N
  BY <1>4, <1>5, FS_Injection
<1>8. N <= n
  BY <1>4, <1>6, FS_Surjection
<1>9. n = N
  BY <1>1, <1>7, <1>8, OrderAssumption
<1> QED
  BY <1>2, <1>9 DEF n

-----------------------------------------------------------------------------
(***************************************************************************)
(* Controller.init: what it has done so far, and how its steps go on.      *)
(***************************************************************************)
\* What init does, one after the other, unless it fails.
Stages == {"stitch", "order", "site", "peer", "build", "done", "failed"}

\* Where init is.
Begun ==
  /\ config \in Configs /\ stage \in Stages /\ at \in Nat
  /\ stage = "stitch" => at <= Len(config.stitches)
  /\ stage \in {"site", "peer"} => at <= N
  /\ stage \in {"order", "build", "done", "failed"} => at = 0

\* x is what network r sees of a stitch with network n.
Sees(r, x, n) ==
  /\ x = [own |-> x.own, peer |-> x.peer, producer |-> x.producer,
          consumer |-> x.consumer, labels |-> {r, n}]
  /\ Type(r) # Type(n) /\ {x.producer, x.consumer} = {Type(r), Type(n)}
  /\ x.own.provider = Type(r) /\ x.peer.provider = Type(n)
  /\ \E e \in ToSet(config.stitches) : Meets(x, e)

\* A stitch as the other network sees it.
Swapped(x) == [x EXCEPT !.own = x.peer, !.peer = x.own]

\* Another network sees the i-th stitch of r the other way round, and the consumer
\* waits for the producer.
Paired(r, i) ==
  LET x == infos[r][i]
  IN  \E n \in config.nets \ {r} :
        /\ Sees(r, x, n)
        /\ IF Type(r) = x.consumer THEN n \in faces[r] ELSE r \in faces[n]
        /\ \E j \in DOMAIN infos[n] : infos[n][j] = Swapped(x)

\* Every stitch is known to both of its networks.
Stitched ==
  /\ faces \in [Res -> SUBSET config.nets]
  /\ infos = [r \in Res |-> infos[r]]
  /\ \A r \in Res : infos[r] \in Seq(ToSet(infos[r]))
  /\ \A r \in Res : \A i \in DOMAIN infos[r] : r \in config.nets /\ Paired(r, i)

\* The second order is that of the dependencies with the stitches in them.
InOrder ==
  /\ ordered \in Seq(Res) /\ left \subseteq Res /\ raised \in BOOLEAN
  /\ stage = "stitch" => ordered = <<>> /\ raised = FALSE
  /\ stage \in {"order", "site", "peer", "build", "done"} =>
       OrderInv /\ deps = [r \in Res |-> config.needs[r] \cup faces[r]]
  /\ stage \in {"site", "peer", "build", "done"} => left = {}

\* What Partition gives a resource.
Allotment(r) ==
  LET l == config.layer3[r]
  IN  IF r \in Nodes \/ l = 0 THEN NoRange
      ELSE IF ~Divided(l) THEN Whole(l)
      ELSE Part(Whole(l), Cardinality(Users(l)), Turn(r))

\* Ranges are given at once, when the order is complete.
Allotted ==
  \/ /\ stage \in {"stitch", "order", "site", "failed"}
     /\ range = [r \in Res |-> NoRange]
  \/ /\ stage \in {"peer", "build", "done", "failed"}
     /\ range = [r \in Res |-> Allotment(r)]
     /\ OrderInv /\ left = {}

\* The labels of a peering are the networks that have been gone through.
Labelled ==
  /\ peer = [p \in Peerings |-> peer[p]]
  /\ stage \in {"stitch", "order", "site"} => \A p \in Peerings : peer[p].labels = {}
  /\ stage = "peer" => \A p \in Peerings :
       peer[p].labels = {ordered[i] : i \in {k \in 1..at : p \in config.peering[ordered[k]]}}
  /\ stage \in {"build", "done"} => \A p \in Peerings :
       peer[p].labels = {n \in config.nets : p \in config.peering[n]}

\* Every port has a stitch and a key.
Wired ==
  stage = "done" => \A r \in Built : \A p \in config.peering[r] :
    Buildable(r, p) /\ ports[r][p] \in Keys(r, p)

\* The invariant of Controller.init.
Inv ==
  /\ Begun /\ Stitched /\ InOrder /\ Allotted /\ Labelled /\ Wired
  /\ DOMAIN site = Res /\ peer3 \in [Res -> SUBSET config.nets]
-----------------------------------------------------------------------------
\* What the assumption says of the configuration in use.
LEMMA ConfigIs ==
  ASSUME config \in Configs
  PROVE  /\ WellFormed(config.policy) /\ config.nets \subseteq Res
         /\ \A r \in Res : /\ config.needs[r] \subseteq 1..(r - 1)
                           /\ config.needs[r] \subseteq Res
                           /\ Type(r) \in Nat
                           /\ config.peering[r] # {} => r \in config.nets
         /\ config.stitches \in Seq(ToSet(config.stitches))
         /\ Len(config.stitches) \in Nat
         /\ \A e \in ToSet(config.stitches) :
              /\ WellFormedEntry(config, e)
              /\ e.net \in config.nets /\ e.other \in config.nets /\ e.net # e.other
              /\ e.net \in Nat /\ e.other \in Nat
              /\ e.options \in Seq(ToSet(e.options))
<1>1. /\ WellFormed(config.policy) /\ config.nets \subseteq Res
      /\ \A r \in Res : /\ config.needs[r] \subseteq 1..(r - 1)
                        /\ Type(r) \in Nat
                        /\ config.peering[r] # {} => r \in config.nets
      /\ config.stitches \in Seq(ToSet(config.stitches))
      /\ \A e \in ToSet(config.stitches) : WellFormedEntry(config, e)
  BY StitchingAssumption DEF Type
<1>2. \A r \in Res : config.needs[r] \subseteq Res
  BY <1>1, OrderAssumption DEF Res
<1>3. Len(config.stitches) \in Nat
  BY <1>1
<1>4. ASSUME NEW e \in ToSet(config.stitches)
      PROVE  /\ e.net \in config.nets /\ e.other \in config.nets /\ e.net # e.other
             /\ e.net \in Nat /\ e.other \in Nat
             /\ e.options \in Seq(ToSet(e.options))
  <2>1. /\ e.net \in config.nets /\ e.other \in config.nets \cap 1..(e.net - 1)
        /\ e.options \in Seq(ToSet(e.options))
    BY <1>1 DEF WellFormedEntry
  <2> QED
    BY <1>1, <2>1, OrderAssumption DEF Res
<1> QED
  BY <1>1, <1>2, <1>3, <1>4

\* The entry that is looked at.
LEMMA CurrentIs ==
  ASSUME config \in Configs, at \in Nat, at < Len(config.stitches)
  PROVE  /\ Current \in ToSet(config.stitches)
         /\ Type(Current.net) \in Nat /\ Type(Current.other) \in Nat
<1>1. Current \in ToSet(config.stitches)
  <2>1. at + 1 \in DOMAIN config.stitches
    BY ConfigIs
  <2> QED
    BY <2>1 DEF ToSet, Current
<1> QED
  BY <1>1, ConfigIs

\* What is left of a port.
LEMMA BareIs ==
  ASSUME NEW port, NEW K
  PROVE  Bare(port, K).provider = port.provider /\ (Titled(Bare(port, K)) <=> "name" \in K)
<1>1. Bare(port, K).provider = port.provider /\ Bare(port, K).attrs = Restrict(port.attrs, K)
  BY DEF Bare
<1>2. DOMAIN Restrict(port.attrs, K) = K
  BY DEF Restrict
<1> QED
  BY <1>1, <1>2 DEF Titled

\* clean_up_port does the same to a stitch with its producer and without.
LEMMA CleanIs ==
  ASSUME NEW z
  PROVE  LET x == clean_up_port(Choice(z))
             o == clean_up_port(Brief(z))
         IN  /\ x.port = Bare(z.port, DOMAIN z.port.attrs) /\ o.port = x.port
             /\ x.peer = Bare(z.peer, DOMAIN z.peer.attrs \ {"name"}) /\ o.peer = x.peer
             /\ x.consumer = z.consumer /\ o.consumer = z.consumer
             /\ x.producer = z.producer
  BY DEF clean_up_port, Choice, Brief

\* The stitch of two networks is of their types, and so are its ports; it has the
\* terms of its entry.
LEMMA ChosenIs ==
  ASSUME config \in Configs, NEW e \in ToSet(config.stitches), NEW x \in Chosen(e)
  PROVE  /\ Type(e.net) # Type(e.other)
         /\ {x.port.provider, x.peer.provider} = {Type(e.net), Type(e.other)}
         /\ {x.producer, x.consumer} = {Type(e.net), Type(e.other)}
         /\ \E o \in Terms(e) : x.port = o.port /\ x.peer = o.peer /\ x.consumer = o.consumer
         /\ e.supplied = {} => Titled(x.port) # Titled(x.peer)
<1> DEFINE p == Type(e.net)
           q == Type(e.other)
<1>1. p \in Nat /\ q \in Nat /\ WellFormed(config.policy) /\ e.options \in Seq(ToSet(e.options))
  BY ConfigIs
<1>2. CASE e.supplied # {}
  <2>1. x \in e.supplied /\ Terms(e) = e.supplied
    BY <1>2 DEF Chosen, Terms
  <2> QED
    BY <1>2, <2>1, ConfigIs DEF WellFormedEntry, Type
<1>3. CASE e.supplied = {}
  <2>1. PICK s \in find_site(e.net) :
          \E y \in find_stitch_port(config.policy, p, q, s, find_profile(e.net), e.options) :
            x = clean_up_port(y)
    BY <1>3 DEF Chosen, Found
  <2> DEFINE M == peer_stitch_ports(find_stitch_port_for_providers(config.policy, p, q))
  <2> HIDE DEF p, q
  <2>2. PICK z \in ToSet(M) : x = clean_up_port(Choice(z))
    BY <1>1, <2>1, ChoiceIs
  <2>3. Brief(z) \in Offers(config.policy, p, q) /\ z.producer = (p + q) - z.consumer
    BY <1>1, OffersAre
  <2>4. /\ p # q /\ Brief(z).consumer \in {p, q}
        /\ {Brief(z).port.provider, Brief(z).peer.provider} = {p, q}
        /\ Titled(Brief(z).port)
    <3> DEFINE o == Brief(z)
               policy == config.policy
    <3>1. o \in Offers(policy, p, q) /\ WellFormed(policy) /\ p \in Nat /\ q \in Nat
      BY <1>1, <2>3
    <3> HIDE DEF o, policy
    <3>2. OfTypes(p, q, o)
      BY ONLY <3>1, OfferPorts
    <3> QED
      BY <3>2 DEF OfTypes, o
  <2> DEFINE o == clean_up_port(Brief(z))
  <2>5. /\ x.port = Bare(z.port, DOMAIN z.port.attrs) /\ o.port = x.port
        /\ x.peer = Bare(z.peer, DOMAIN z.peer.attrs \ {"name"}) /\ o.peer = x.peer
        /\ x.consumer = z.consumer /\ o.consumer = z.consumer /\ x.producer = z.producer
    BY <2>2, CleanIs
  <2>6. o \in Terms(e)
    BY <1>3, <2>3 DEF Terms, p, q
  <2> HIDE DEF o
  <2>7. Brief(z).port = z.port /\ Brief(z).peer = z.peer /\ Brief(z).consumer = z.consumer
    BY DEF Brief
  <2>8. x.port.provider = z.port.provider /\ x.peer.provider = z.peer.provider
        /\ Titled(x.port) /\ ~Titled(x.peer)
    BY <2>4, <2>5, <2>7, BareIs DEF Titled
  <2>9. {x.producer, x.consumer} = {p, q}
    BY <1>1, <2>3, <2>4, <2>5, <2>7
  <2> QED
    BY <2>4, <2>5, <2>6, <2>7, <2>8, <2>9 DEF p, q
<1> QED
  BY <1>2, <1>3
-----------------------------------------------------------------------------
\* The best of what the policy offers is chosen in every state.
LEMMA BestOfferIs == Begun => BestOffer
<1> SUFFICES ASSUME Begun, Asking, Plainly(config.policy, Current.options)
             PROVE  BestOffer
  BY DEF BestOffer
<1> DEFINE p == Type(Current.net)
           q == Type(Current.other)
           options == Current.options
           policy == config.policy
           profile == find_profile(Current.net)
           offers == Offers(policy, p, q)
<1>1. /\ config \in Configs /\ at \in Nat /\ at < Len(config.stitches)
  BY DEF Begun, Asking
<1>2. /\ WellFormed(policy) /\ p \in Nat /\ q \in Nat
      /\ options \in Seq(ToSet(options)) /\ Plainly(policy, options)
  BY <1>1, ConfigIs, CurrentIs
<1> HIDE DEF p, q, options, policy, profile
<1>3. ASSUME NEW s
      PROVE  LET chosen == find_stitch_port(policy, p, q, s, profile, options)
                 wishes == Wishes(offers, s, profile, options)
                 best   == Earliest(wishes, {i \in DOMAIN wishes : wishes[i] # {}})
             IN  IF offers = {} THEN chosen = {}
                 ELSE \E x \in chosen : \E o \in best :
                        /\ o = [port |-> x.port, peer |-> x.peer, consumer |-> x.consumer]
                        /\ \A b \in best : b.port.preference <= o.port.preference
  <2> DEFINE chosen == find_stitch_port(policy, p, q, s, profile, options)
             best   == BestOf(offers, s, profile, options)
  <2>0. IsBest(chosen, offers, best, p + q)
    BY <1>2, ChosenIsBest
  <2> HIDE DEF chosen, best, offers
  <2>1. /\ offers = {} => chosen = {}
        /\ offers # {} =>
             \E z : /\ chosen = {Choice(z)} /\ Brief(z) \in best
                    /\ \A b \in best : b.port.preference <= z.port.preference
    BY <2>0 DEF IsBest
  <2>2. ASSUME offers # {}
        PROVE  \E x \in chosen : \E o \in best :
                 /\ o = [port |-> x.port, peer |-> x.peer, consumer |-> x.consumer]
                 /\ \A b \in best : b.port.preference <= o.port.preference
    <3>1. PICK z : /\ chosen = {Choice(z)} /\ Brief(z) \in best
                   /\ \A b \in best : b.port.preference <= z.port.preference
      BY <2>1, <2>2
    <3> DEFINE x == Choice(z)
               o == Brief(z)
    <3>2. o = [port |-> x.port, peer |-> x.peer, consumer |-> x.consumer]
          /\ o.port = z.port
      BY DEF Brief, Choice
    <3>3. x \in chosen /\ o \in best
      BY <3>1
    <3> HIDE DEF x, o
    <3> QED
      BY <3>1, <3>2, <3>3
  <2> QED
    BY <2>1, <2>2 DEF chosen, best, BestOf
<1> QED
  BY <1>3 DEF BestOffer, p, q, options, policy, profile

\* Two types offer each other the same.
LEMMA OffersEither ==
  ASSUME NEW policy, NEW p \in Nat, NEW q \in Nat
  PROVE  Offers(policy, p, q) = Offers(policy, q, p)
<1>1. {p, q} = {q, p} /\ p + q = q + p /\ (p # q <=> q # p)
      /\ Linked(policy, p, q) \cup Linked(policy, q, p)
           = Linked(policy, q, p) \cup Linked(policy, p, q)
  OBVIOUS
<1> QED
  BY <1>1 DEF Offers

\* Preferences that tell the offers apart leave one choice.
LEMMA EitherWayIs == Begun => EitherWay
<1> SUFFICES ASSUME Begun, Asking,
                    Ranks(config.policy, Type(Current.net), Type(Current.other)),
                    NEW s \in find_site(Current.net)
             PROVE  find_stitch_port(config.policy, Type(Current.net), Type(Current.other),
                                     s, find_profile(Current.net), <<>>)
                      = find_stitch_port(config.policy, Type(Current.other), Type(Current.net),
                                         s, find_profile(Current.net), <<>>)
  BY DEF EitherWay
<1> DEFINE p == Type(Current.net)
           q == Type(Current.other)
           policy == config.policy
           profile == find_profile(Current.net)
           O == Offers(policy, p, q)
           Of(t, u) == find_stitch_port(policy, t, u, s, profile, <<>>)
           best == BestOf(O, s, profile, <<>>)
           Best(z) == /\ Brief(z) \in best /\ z.producer = (p + q) - z.consumer
                      /\ \A b \in best : b.port.preference <= z.port.preference
<1>1. /\ config \in Configs /\ at \in Nat /\ at < Len(config.stitches)
  BY DEF Begun, Asking
<1>2. /\ WellFormed(policy) /\ p \in Nat /\ q \in Nat
  BY <1>1, ConfigIs, CurrentIs
<1>3. <<>> \in Seq(ToSet(<<>>)) /\ Plainly(policy, <<>>)
  BY DEF Plainly, ToSet
<1>4. \A a, b \in O : a.port.preference = b.port.preference => a = b
  BY DEF Ranks
<1> HIDE DEF p, q, policy, profile
<1>5. /\ O = {} => Of(p, q) = {}
      /\ O # {} => best \subseteq O /\ \E z : Of(p, q) = {Choice(z)} /\ Best(z)
  <2>1. IsBest(Of(p, q), O, best, p + q)
    BY <1>2, <1>3, ChosenIsBest
  <2> HIDE DEF Of, O, best
  <2> QED
    BY <2>1 DEF IsBest
<1>6. Offers(policy, q, p) = O
  BY <1>2, OffersEither
<1>7. q + p = p + q
  BY <1>2
<1>8. /\ O = {} => Of(q, p) = {}
      /\ O # {} => \E z : Of(q, p) = {Choice(z)} /\ Best(z)
  <2>1. IsBest(Of(q, p), Offers(policy, q, p),
               BestOf(Offers(policy, q, p), s, profile, <<>>), q + p)
    BY <1>2, <1>3, ChosenIsBest
  <2>2. IsBest(Of(q, p), O, best, p + q)
    <3> HIDE DEF O, Found
    <3> QED
      BY <1>6, <1>7, <2>1
  <2> HIDE DEF O, Found, best
  <2> QED
    BY <2>2 DEF IsBest
<1> DEFINE A == Of(p, q)
           B == Of(q, p)
<1> HIDE DEF O, Found, best
<1>9. CASE O # {}
  <2>1. PICK y : A = {Choice(y)} /\ Best(y)
    BY <1>5, <1>9
  <2>2. PICK z : B = {Choice(z)} /\ Best(z)
    BY <1>8, <1>9
  <2>3. Brief(y) \in O /\ Brief(z) \in O /\ Brief(y) \in best /\ Brief(z) \in best
    BY <1>5, <1>9, <2>1, <2>2
  <2>4. Brief(y).port = y.port /\ Brief(z).port = z.port
    BY DEF Brief
  <2>5. y.port.preference \in Int /\ z.port.preference \in Int
    <3>1. Brief(y).port.preference \in Int /\ Brief(z).port.preference \in Int
      BY <1>2, <2>3, OfferPorts DEF O, OfTypes
    <3> QED
      BY <2>4, <3>1
  <2>6. y.port.preference = z.port.preference
    <3>1. y.port.preference <= z.port.preference /\ z.port.preference <= y.port.preference
      BY <2>1, <2>2, <2>3, <2>4
    <3> QED
      BY <2>5, <3>1
  <2>7. Brief(y) = Brief(z)
    BY <1>4, <2>3, <2>4, <2>6
  <2>8. y.port = z.port /\ y.peer = z.peer /\ y.consumer = z.consumer
    BY <2>7 DEF Brief
  <2>9. y.producer = z.producer
    BY <2>1, <2>2, <2>8
  <2>10. Choice(y) = Choice(z)
    BY <2>8, <2>9 DEF Choice
  <2> QED
    BY <2>1, <2>2, <2>10 DEF A, B, Found, p, q, policy, profile
<1>10. CASE O = {}
  BY <1>5, <1>8, <1>10 DEF Of, p, q, policy, profile
<1> QED
  BY <1>9, <1>10

\* Nothing has been stitched, ordered, shared out or built in the first state.
LEMMA InitInv == Init => Inv
<1> SUFFICES ASSUME Init PROVE Inv
  OBVIOUS
<1>1. config \in Configs /\ stage = "stitch" /\ at = 0 /\ Len(config.stitches) \in Nat
  BY ConfigIs DEF Init
<1>2. Begun
  BY <1>1 DEF Begun, Stages
<1>3. Stitched
  <2>1. faces \in [Res -> SUBSET config.nets] /\ infos = [r \in Res |-> infos[r]]
    BY DEF Init
  <2>2. \A r \in Res : infos[r] = <<>>
    BY DEF Init
  <2>3. <<>> \in Seq(ToSet(<<>>)) /\ DOMAIN <<>> = {}
    OBVIOUS
  <2>4. \A r \in Res : infos[r] \in Seq(ToSet(infos[r])) /\ DOMAIN infos[r] = {}
    BY <2>2, <2>3
  <2> QED
    BY <2>1, <2>4 DEF Stitched
<1>4. InOrder
  <2>1. ordered = <<>> /\ left = {} /\ raised = FALSE
    BY DEF Init
  <2>2. ordered \in Seq(Res)
    BY <2>1
  <2> QED
    BY <1>1, <2>1, <2>2 DEF InOrder
<1>5. Allotted
  BY <1>1 DEF Init, Allotted
<1>6. Labelled
  BY <1>1 DEF Init, Labelled
<1>7. Wired
  BY <1>1 DEF Wired
<1>8. DOMAIN site = Res /\ peer3 \in [Res -> SUBSET config.nets]
  BY DEF Init
<1> QED
  BY <1>2, <1>3, <1>4, <1>5, <1>6, <1>7, <1>8 DEF Inv

\* A stitch as a network sees it.
Sight(o, p, q, c, l) ==
  [own |-> o, peer |-> p, producer |-> q, consumer |-> c, labels |-> l]

\* A stitch turned round.
LEMMA Turned ==
  ASSUME NEW o, NEW p, NEW q, NEW c, NEW l
  PROVE  Swapped(Sight(o, p, q, c, l)) = Sight(p, o, q, c, l)
<1> DEFINE K == {"own", "peer", "producer", "consumer", "labels"}
           a == [own |-> o, peer |-> p, producer |-> q, consumer |-> c, labels |-> l]
           b == [a EXCEPT !.own = p, !.peer = o]
           d == [own |-> p, peer |-> o, producer |-> q, consumer |-> c, labels |-> l]
<1>1. b = [k \in K |-> b[k]] /\ d = [k \in K |-> d[k]]
  OBVIOUS
<1>2. b.own = d.own /\ b.peer = d.peer /\ b.producer = d.producer
      /\ b.consumer = d.consumer /\ b.labels = d.labels
  OBVIOUS
<1>3. a.own = o /\ a.peer = p
  OBVIOUS
<1> HIDE DEF a, b, d
<1>4. \A k \in K : b[k] = d[k]
  BY <1>2
<1>5. b = d
  BY <1>1, <1>4
<1> QED
  BY <1>3, <1>5 DEF a, b, d, Swapped, Sight

\* What both networks are told of a stitch.
LEMMA SeenIs ==
  ASSUME config \in Configs, NEW e \in ToSet(config.stitches), NEW x \in Chosen(e)
  PROVE  LET a == Seen(x, e.net, {e.net, e.other})
             b == Seen(x, e.other, {e.net, e.other})
         IN  /\ Sees(e.net, a, e.other) /\ Sees(e.other, b, e.net)
             /\ b = Swapped(a) /\ a = Swapped(b)
             /\ a.consumer = x.consumer /\ b.consumer = x.consumer
<1> DEFINE t == Type(e.net)
           u == Type(e.other)
           l == {e.net, e.other}
           a == Seen(x, e.net, l)
           b == Seen(x, e.other, l)
<1>1. /\ t # u /\ {x.port.provider, x.peer.provider} = {t, u}
      /\ {x.producer, x.consumer} = {t, u}
  BY ChosenIs
<1>5. ASSUME NEW y, y.labels = l, y.consumer = x.consumer,
             \/ y.own = x.port /\ y.peer = x.peer
             \/ y.own = x.peer /\ y.peer = x.port
      PROVE  \E d \in ToSet(config.stitches) : Meets(y, d)
  <2>1. PICK o \in Terms(e) : x.port = o.port /\ x.peer = o.peer /\ x.consumer = o.consumer
    BY ChosenIs
  <2>2. e.supplied = {} => Titled(x.port) # Titled(x.peer)
    BY ChosenIs
  <2>3. {<<y.own, y.peer>>, <<y.peer, y.own>>} = {<<o.port, o.peer>>, <<o.peer, o.port>>}
    BY <1>5, <2>1
  <2>4. e.supplied = {} => Titled(y.own) # Titled(y.peer)
    BY <1>5, <2>2
  <2> QED
    BY <1>5, <2>1, <2>3, <2>4 DEF Meets
<1>2. (x.port.provider = t /\ x.peer.provider = u) \/ (x.port.provider = u /\ x.peer.provider = t)
  BY <1>1
<1>3. CASE x.port.provider = t /\ x.peer.provider = u
  <2>1. /\ a = [own |-> x.port, peer |-> x.peer, producer |-> x.producer,
                consumer |-> x.consumer, labels |-> l]
        /\ b = [own |-> x.peer, peer |-> x.port, producer |-> x.producer,
                consumer |-> x.consumer, labels |-> l]
    BY <1>1, <1>3 DEF Seen
  <2> HIDE DEF a, b
  <2>2. /\ a.own = x.port /\ a.peer = x.peer /\ b.own = x.peer /\ b.peer = x.port
        /\ a.producer = x.producer /\ b.producer = x.producer
        /\ a.consumer = x.consumer /\ b.consumer = x.consumer
        /\ a.labels = l /\ b.labels = l
    BY <2>1
  <2>3. b = Swapped(a) /\ a = Swapped(b)
    <3>1. \/ /\ a = Sight(x.port, x.peer, x.producer, x.consumer, l)
             /\ b = Sight(x.peer, x.port, x.producer, x.consumer, l)
          \/ /\ a = Sight(x.peer, x.port, x.producer, x.consumer, l)
             /\ b = Sight(x.port, x.peer, x.producer, x.consumer, l)
      BY <2>1 DEF Sight
    <3> QED
      BY <3>1, Turned
  <2>4. Sees(e.net, a, e.other)
    BY <1>1, <1>3, <1>5, <2>1, <2>2 DEF Sees
  <2>5. Sees(e.other, b, e.net)
    <3>1. {e.net, e.other} = {e.other, e.net} /\ {t, u} = {u, t}
      OBVIOUS
    <3> QED
      BY <1>1, <1>3, <1>5, <2>1, <2>2, <3>1 DEF Sees
  <2> QED
    BY <2>2, <2>3, <2>4, <2>5 DEF a, b
<1>4. CASE x.port.provider = u /\ x.peer.provider = t
  <2>1. /\ a = [own |-> x.peer, peer |-> x.port, producer |-> x.producer,
                consumer |-> x.consumer, labels |-> l]
        /\ b = [own |-> x.port, peer |-> x.peer, producer |-> x.producer,
                consumer |-> x.consumer, labels |-> l]
    BY <1>1, <1>4 DEF Seen
  <2> HIDE DEF a, b
  <2>2. /\ a.own = x.peer /\ a.peer = x.port /\ b.own = x.port /\ b.peer = x.peer
        /\ a.producer = x.producer /\ b.producer = x.producer
        /\ a.consumer = x.consumer /\ b.consumer = x.consumer
        /\ a.labels = l /\ b.labels = l
    BY <2>1
  <2>3. b = Swapped(a) /\ a = Swapped(b)
    <3>1. \/ /\ a = Sight(x.port, x.peer, x.producer, x.consumer, l)
             /\ b = Sight(x.peer, x.port, x.producer, x.consumer, l)
          \/ /\ a = Sight(x.peer, x.port, x.producer, x.consumer, l)
             /\ b = Sight(x.port, x.peer, x.producer, x.consumer, l)
      BY <2>1 DEF Sight
    <3> QED
      BY <3>1, Turned
  <2>4. Sees(e.net, a, e.other)
    BY <1>1, <1>4, <1>5, <2>1, <2>2 DEF Sees
  <2>5. Sees(e.other, b, e.net)
    <3>1. {e.net, e.other} = {e.other, e.net} /\ {t, u} = {u, t}
      OBVIOUS
    <3> QED
      BY <1>1, <1>4, <1>5, <2>1, <2>2, <3>1 DEF Sees
  <2> QED
    BY <2>2, <2>3, <2>4, <2>5 DEF a, b
<1> QED
  BY <1>2, <1>3, <1>4

\* One more element of a sequence.
LEMMA Appended ==
  ASSUME NEW s, s \in Seq(ToSet(s)), NEW y
  PROVE  LET t == Append(s, y)
         IN  /\ t \in Seq(ToSet(t))
             /\ DOMAIN s \subseteq DOMAIN t /\ \A i \in DOMAIN s : t[i] = s[i]
             /\ Len(s) + 1 \in DOMAIN t /\ t[Len(s) + 1] = y
             /\ \A i \in DOMAIN t : i \in DOMAIN s \/ i = Len(s) + 1
<1> DEFINE t == Append(s, y)
           S == ToSet(s) \cup {y}
<1>1. s \in Seq(S)
  OBVIOUS
<1> HIDE DEF S
<1>2. y \in S
  BY DEF S
<1>3. /\ t \in Seq(S) /\ Len(s) \in Nat /\ DOMAIN s = 1..Len(s) /\ DOMAIN t = 1..(Len(s) + 1)
      /\ \A i \in 1..Len(s) : t[i] = s[i]
      /\ t[Len(s) + 1] = y
  BY <1>1, <1>2
<1> HIDE DEF t
<1>4. t \in Seq(ToSet(t))
  BY <1>3 DEF ToSet
<1> QED
  BY <1>3, <1>4 DEF t

\* A stitch is added to both of its networks.
LEMMA StitchStitched ==
  ASSUME Inv, Stitch
  PROVE  Stitched'
<1> DEFINE e == Current
           l == {e.net, e.other}
<1>0. config \in Configs /\ at \in Nat /\ Stitched /\ config' = config
  BY DEF Inv, Begun, Stitch
<1>1. e \in ToSet(config.stitches)
  BY <1>0, CurrentIs DEF Stitch
<1>2. PICK x \in Chosen(e) :
        LET c == Consumer(e, x)
            p == (e.net + e.other) - c
        IN  /\ faces' = [faces EXCEPT ![c] = @ \cup {p}]
            /\ infos' = [infos EXCEPT
                 ![e.net]   = Append(@, Seen(x, e.net, {e.net, e.other})),
                 ![e.other] = Append(@, Seen(x, e.other, {e.net, e.other}))]
  BY DEF Stitch, Current
<1> DEFINE c == Consumer(e, x)
           p == (e.net + e.other) - c
           a == Seen(x, e.net, l)
           b == Seen(x, e.other, l)
<1>3. /\ e.net \in config.nets /\ e.other \in config.nets /\ e.net # e.other
      /\ e.net \in Nat /\ e.other \in Nat /\ config.nets \subseteq Res
  BY <1>0, <1>1, ConfigIs
<1>4. /\ Sees(e.net, a, e.other) /\ Sees(e.other, b, e.net)
      /\ b = Swapped(a) /\ a = Swapped(b)
      /\ a.consumer = x.consumer /\ b.consumer = x.consumer
  BY <1>0, <1>1, SeenIs
<1>5. \/ c = e.net /\ p = e.other /\ Type(e.net) = x.consumer /\ Type(e.other) # x.consumer
      \/ c = e.other /\ p = e.net /\ Type(e.other) = x.consumer /\ Type(e.net) # x.consumer
  <2>1. Type(e.net) # Type(e.other) /\ x.consumer \in {Type(e.net), Type(e.other)}
    BY <1>0, <1>1, ChosenIs
  <2> QED
    BY <1>3, <2>1 DEF Consumer
<1>6. /\ faces' = [faces EXCEPT ![c] = @ \cup {p}]
      /\ infos' = [infos EXCEPT ![e.net] = Append(@, a), ![e.other] = Append(@, b)]
  BY <1>2
<1> HIDE DEF e, a, b, c, p
<1>7. /\ faces' \in [Res -> SUBSET config.nets]
      /\ \A r \in Res : faces[r] \subseteq faces'[r]
      /\ p \in faces'[c]
  <2>3. faces \in [Res -> SUBSET config.nets]
    BY <1>0 DEF Stitched
  <2>1. c \in Res /\ p \in config.nets /\ faces \in [Res -> SUBSET config.nets]
    BY <1>3, <1>5, <2>3
  <2>2. faces' = [faces EXCEPT ![c] = faces[c] \cup {p}]
    BY <1>6
  <2> QED
    BY ONLY <2>1, <2>2
<1>8. /\ infos' = [r \in Res |-> infos'[r]]
      /\ infos'[e.net] = Append(infos[e.net], a)
      /\ infos'[e.other] = Append(infos[e.other], b)
      /\ \A r \in Res : r \notin {e.net, e.other} => infos'[r] = infos[r]
  <2>1. infos = [r \in Res |-> infos[r]] /\ e.net \in Res /\ e.other \in Res
    BY <1>0, <1>3 DEF Stitched
  <2> QED
    BY <1>3, <1>6, <2>1
<1>9. \A r \in Res : infos[r] \in Seq(ToSet(infos[r]))
  BY <1>0 DEF Stitched
<1>10. \A r \in Res :
         /\ infos'[r] \in Seq(ToSet(infos'[r]))
         /\ DOMAIN infos[r] \subseteq DOMAIN infos'[r]
         /\ \A i \in DOMAIN infos[r] : infos'[r][i] = infos[r][i]
         /\ \A i \in DOMAIN infos'[r] :
              \/ i \in DOMAIN infos[r]
              \/ r = e.net /\ i = Len(infos[r]) + 1
              \/ r = e.other /\ i = Len(infos[r]) + 1
  <2> SUFFICES ASSUME NEW r \in Res
               PROVE  /\ infos'[r] \in Seq(ToSet(infos'[r]))
                      /\ DOMAIN infos[r] \subseteq DOMAIN infos'[r]
                      /\ \A i \in DOMAIN infos[r] : infos'[r][i] = infos[r][i]
                      /\ \A i \in DOMAIN infos'[r] :
                           \/ i \in DOMAIN infos[r]
                           \/ r = e.net /\ i = Len(infos[r]) + 1
                           \/ r = e.other /\ i = Len(infos[r]) + 1
    OBVIOUS
  <2>1. CASE r \notin {e.net, e.other}
    BY <1>8, <1>9, <2>1
  <2>4. ASSUME NEW y, infos'[r] = Append(infos[r], y)
        PROVE  /\ infos'[r] \in Seq(ToSet(infos'[r]))
               /\ DOMAIN infos[r] \subseteq DOMAIN infos'[r]
               /\ \A i \in DOMAIN infos[r] : infos'[r][i] = infos[r][i]
               /\ \A i \in DOMAIN infos'[r] : i \in DOMAIN infos[r] \/ i = Len(infos[r]) + 1
    <3> DEFINE s == infos[r]
               t == infos'[r]
    <3>1. s \in Seq(ToSet(s)) /\ t = Append(s, y)
      BY <1>9, <2>4
    <3> HIDE DEF s, t
    <3>2. /\ t \in Seq(ToSet(t))
          /\ DOMAIN s \subseteq DOMAIN t /\ \A i \in DOMAIN s : t[i] = s[i]
          /\ \A i \in DOMAIN t : i \in DOMAIN s \/ i = Len(s) + 1
      BY <3>1, Appended
    <3> QED
      BY <3>2 DEF s, t
  <2>2. CASE r = e.net
    BY <1>8, <2>2, <2>4
  <2>3. CASE r = e.other
    BY <1>8, <2>3, <2>4
  <2> QED
    BY <2>1, <2>2, <2>3
<1>11. /\ Len(infos[e.net]) + 1 \in DOMAIN infos'[e.net]
       /\ infos'[e.net][Len(infos[e.net]) + 1] = a
       /\ Len(infos[e.other]) + 1 \in DOMAIN infos'[e.other]
       /\ infos'[e.other][Len(infos[e.other]) + 1] = b
  <2>1. e.net \in Res /\ e.other \in Res
    BY <1>3
  <2> QED
    BY <1>8, <1>9, <2>1, Appended
<1>13. \A r : Type(r)' = Type(r)
  BY <1>0 DEF Type
<1> DEFINE Twin(r, y, n) ==
             /\ Sees(r, y, n)
             /\ IF Type(r) = y.consumer THEN n \in faces'[r] ELSE r \in faces'[n]
             /\ \E j \in DOMAIN infos'[n] : infos'[n][j] = Swapped(y)
<1>14. ASSUME NEW r \in Res, NEW i \in DOMAIN infos'[r]
       PROVE  r \in config.nets /\ \E n \in config.nets \ {r} : Twin(r, infos'[r][i], n)
  <2>1. CASE i \in DOMAIN infos[r]
    <3> DEFINE y == infos[r][i]
    <3>1. r \in config.nets /\ Paired(r, i)
      BY <1>0, <2>1 DEF Stitched
    <3>2. PICK n \in config.nets \ {r} :
            /\ Sees(r, y, n)
            /\ IF Type(r) = y.consumer THEN n \in faces[r] ELSE r \in faces[n]
            /\ \E j \in DOMAIN infos[n] : infos[n][j] = Swapped(y)
      BY <3>1 DEF Paired
    <3>3. infos'[r][i] = y
      BY <1>10, <2>1
    <3> HIDE DEF y
    <3>4. n \in Res
      BY <1>3
    <3>5. \E j \in DOMAIN infos'[n] : infos'[n][j] = Swapped(y)
      BY <1>10, <3>2, <3>4
    <3>6. IF Type(r) = y.consumer THEN n \in faces'[r] ELSE r \in faces'[n]
      BY <1>7, <3>2, <3>4
    <3>7. Twin(r, y, n)
      BY <3>2, <3>5, <3>6
    <3> HIDE DEF Twin
    <3> QED
      BY <3>1, <3>2, <3>3, <3>7
  <2>2. CASE r = e.net /\ i = Len(infos[r]) + 1
    <3>1. infos'[r][i] = a
      BY <1>11, <2>2
    <3>2. IF Type(r) = a.consumer THEN e.other \in faces'[r] ELSE r \in faces'[e.other]
      BY <1>4, <1>5, <1>7, <2>2
    <3>3. \E j \in DOMAIN infos'[e.other] : infos'[e.other][j] = Swapped(a)
      BY <1>4, <1>11
    <3>4. Twin(r, a, e.other)
      BY <1>4, <2>2, <3>2, <3>3
    <3> HIDE DEF Twin
    <3> QED
      BY <1>3, <2>2, <3>1, <3>4
  <2>3. CASE r = e.other /\ i = Len(infos[r]) + 1
    <3>1. infos'[r][i] = b
      BY <1>11, <2>3
    <3>2. IF Type(r) = b.consumer THEN e.net \in faces'[r] ELSE r \in faces'[e.net]
      BY <1>4, <1>5, <1>7, <2>3
    <3>3. \E j \in DOMAIN infos'[e.net] : infos'[e.net][j] = Swapped(b)
      BY <1>4, <1>11
    <3>4. Twin(r, b, e.net)
      BY <1>4, <2>3, <3>2, <3>3
    <3> HIDE DEF Twin
    <3> QED
      BY <1>3, <2>3, <3>1, <3>4
  <2> QED
    BY <1>10, <2>1, <2>2, <2>3
<1>15. ASSUME NEW r \in Res, NEW i \in DOMAIN infos'[r]
       PROVE  r \in config.nets /\ Paired(r, i)'
  <2>1. PICK n \in config.nets \ {r} : Twin(r, infos'[r][i], n)
    BY <1>14
  <2> DEFINE y == infos'[r][i]
  <2>2. /\ Sees(r, y, n)
        /\ IF Type(r) = y.consumer THEN n \in faces'[r] ELSE r \in faces'[n]
        /\ \E j \in DOMAIN infos'[n] : infos'[n][j] = Swapped(y)
    BY <2>1
  <2>3. (Sees(r, infos[r][i], n))' /\ Type(r)' = Type(r)
    BY <1>0, <1>13, <2>2 DEF Sees, Type, Meets, Terms
  <2>4. config.nets' = config.nets
    BY <1>0
  <2> QED
    BY <1>14, <2>2, <2>3, <2>4 DEF Paired
<1> HIDE DEF Twin
<1>16. \A r \in Res : infos'[r] \in Seq(ToSet(infos'[r]))
  BY <1>10
<1>17. config.nets' = config.nets
  BY <1>0
<1>18. faces' \in [Res -> SUBSET config.nets] /\ infos' = [r \in Res |-> infos'[r]]
  BY <1>7, <1>8
<1> QED
  BY <1>15, <1>16, <1>17, <1>18 DEF Stitched

\* Init goes from one thing to the next.
LEMMA BegunStep == Inv /\ Next => Begun'
<1> SUFFICES ASSUME Inv, Next PROVE Begun'
  OBVIOUS
<1>1. config \in Configs /\ stage \in Stages /\ at \in Nat
  BY DEF Inv, Begun
<1>2. Len(config.stitches) \in Nat /\ N \in Nat
  BY <1>1, ConfigIs, OrderAssumption
<1>3. /\ stage = "stitch" => at <= Len(config.stitches)
      /\ stage \in {"site", "peer"} => at <= N
      /\ stage \in {"order", "build", "done", "failed"} => at = 0
  BY DEF Inv, Begun
<1>4. CASE Stitch
  BY <1>1, <1>2, <1>4 DEF Stitch, Begun
<1>5. CASE NotFound \/ NoSubnet \/ Unmatched
  BY <1>1, <1>5 DEF NotFound, NoSubnet, Unmatched, Fail, Begun, Stages
<1>6. CASE Evaluate
  BY <1>1, <1>6 DEF Evaluate, Begun, Stages
<1>7. CASE Reorder
  BY <1>1, <1>3, <1>7 DEF Reorder, Begun
<1>8. CASE EndOrder
  BY <1>1, <1>2, <1>8 DEF EndOrder, Fail, Begun, Stages
<1>9. CASE FixSite \/ Label
  <2>1. /\ stage \in {"site", "peer"} /\ stage' = stage /\ config' = config
        /\ at < N /\ at' = at + 1
    <3>1. CASE FixSite
      BY <3>1 DEF FixSite
    <3>2. CASE Label
      BY <3>2 DEF Label
    <3> QED
      BY <1>9, <3>1, <3>2
  <2> QED
    BY <1>1, <1>2, <2>1 DEF Begun
<1>10. CASE Partition
  BY <1>1, <1>2, <1>10 DEF Partition, Begun, Stages
<1>11. CASE Introduce \/ Build
  BY <1>1, <1>11 DEF Introduce, Build, Begun, Stages
<1> QED
  BY <1>4, <1>5, <1>6, <1>7, <1>8, <1>9, <1>10, <1>11 DEF Next

\* What is known of stitches does not change once they have been stitched.
LEMMA StitchedStep == Inv /\ Next => Stitched'
<1> SUFFICES ASSUME Inv, Next PROVE Stitched'
  OBVIOUS
<1>1. CASE Stitch
  BY <1>1, StitchStitched
<1>2. CASE UNCHANGED <<config, faces, infos>>
  <2>1. \A r, i : Paired(r, i)' = Paired(r, i)
    BY <1>2 DEF Paired, Sees, Type, Meets, Terms
  <2> QED
    BY <1>2, <2>1 DEF Inv, Stitched
<1>3. ~Stitch => UNCHANGED <<config, faces, infos>>
  BY DEF Next, NotFound, NoSubnet, Unmatched, Evaluate, Reorder, EndOrder, FixSite, Label,
         Partition, Introduce, Build
<1> QED
  BY <1>1, <1>2, <1>3

\* The second order is computed once, of everything that has been stitched.
LEMMA InOrderStep == Inv /\ Next => InOrder'
<1> SUFFICES ASSUME Inv, Next PROVE InOrder'
  OBVIOUS
<1> DEFINE Late == {"site", "peer", "build", "done"}
<1>1. /\ ordered \in Seq(Res) /\ left \subseteq Res /\ raised \in BOOLEAN
      /\ stage = "stitch" => ordered = <<>> /\ raised = FALSE
      /\ stage = "order" \/ stage \in Late =>
           OrderInv /\ deps = [r \in Res |-> config.needs[r] \cup faces[r]]
      /\ stage \in Late => left = {}
      /\ config \in Configs
  BY DEF Inv, InOrder, Begun
<1>2. CASE Stitch
  <2>1. stage' = "stitch" /\ stage = "stitch" /\ UNCHANGED order
    BY <1>2 DEF Stitch
  <2> QED
    BY <1>1, <2>1 DEF InOrder, order
<1>3. CASE NotFound \/ NoSubnet \/ Unmatched
  <2>1. stage' = "failed" /\ UNCHANGED order
    BY <1>3 DEF NotFound, NoSubnet, Unmatched, Fail
  <2> QED
    BY <1>1, <2>1 DEF InOrder, order
<1>4. CASE Evaluate
  <2>1. /\ stage = "stitch" /\ stage' = "order"
        /\ deps' = [r \in Res |-> config.needs[r] \cup faces[r]]
        /\ waits' = deps' /\ left' = Res
        /\ config' = config /\ faces' = faces /\ ordered' = ordered /\ raised' = raised
    BY <1>4 DEF Evaluate
  <2>2. \A r \in Res : config.needs[r] \cup faces[r] \in SUBSET Res
    <3>1. faces \in [Res -> SUBSET config.nets] /\ config.nets \subseteq Res
      BY <1>1, ConfigIs DEF Inv, Stitched
    <3>2. \A r \in Res : config.needs[r] \subseteq Res
      BY <1>1, ConfigIs
    <3> QED
      BY <3>1, <3>2
  <2>3. deps' \in [Res -> SUBSET Res]
    BY <2>1, <2>2
  <2>4. OrderInit'
    BY <1>1, <2>1, <2>3 DEF OrderInit
  <2>5. OrderInv'
    BY <2>4, OrderBegins
  <2> QED
    BY <1>1, <2>1, <2>5 DEF InOrder
<1>5. CASE Reorder
  <2>1. OrderNext /\ OrderInv /\ stage = "order" /\ stage' = stage
        /\ config' = config /\ faces' = faces
    BY <1>1, <1>5 DEF Reorder
  <2>2. OrderInv' /\ deps' = deps
    BY <2>1, OrderStepInv DEF OrderNext, Raise, Take
  <2>3. ordered' \in Seq(Res) /\ left' \subseteq Res /\ raised' \in BOOLEAN
    BY <2>2 DEF OrderInv, OrderTypeOK
  <2> QED
    BY <1>1, <2>1, <2>2, <2>3 DEF InOrder
<1>6. CASE EndOrder
  <2>1. /\ stage = "order" /\ UNCHANGED order /\ config' = config /\ faces' = faces
        /\ stage' = "failed" \/ (stage' = "site" /\ left = {})
    BY <1>6 DEF EndOrder, Fail
  <2>2. OrderInv'
    BY <1>1, <2>1, OrderStepInv
  <2> QED
    BY <1>1, <2>1, <2>2 DEF InOrder, order
<1>7. CASE FixSite \/ Partition \/ Label \/ Introduce \/ Build
  <2>1. stage \in Late /\ stage' \in Late /\ UNCHANGED order /\ config' = config /\ faces' = faces
    BY <1>7 DEF FixSite, Partition, Label, Introduce, Build
  <2>2. OrderInv'
    BY <1>1, <2>1, OrderStepInv
  <2> QED
    BY <1>1, <2>1, <2>2 DEF InOrder, order
<1> QED
  BY <1>2, <1>3, <1>4, <1>5, <1>6, <1>7 DEF Next

\* Ranges are given once, from the order.
LEMMA AllottedStep == Inv /\ Next => Allotted'
<1> SUFFICES ASSUME Inv, Next PROVE Allotted'
  OBVIOUS
<1>1. ASSUME config' = config, ordered' = ordered
      PROVE  \A r : Allotment(r)' = Allotment(r)
  BY <1>1 DEF Allotment, Nodes, Divided, Whole, Users, Turn, Position, SelectInSeq, Part
<1>2. CASE stage \in {"stitch", "order", "site"} /\ ~Partition
  <2>1. range = [r \in Res |-> NoRange]
    BY <1>2 DEF Inv, Allotted
  <2>2. range' = range /\ stage' \in {"stitch", "order", "site", "failed"}
    BY <1>2 DEF Next, Stitch, NotFound, NoSubnet, Unmatched, Evaluate, Reorder, EndOrder, FixSite,
                Label, Introduce, Build, Fail, layer3
  <2> QED
    BY <2>1, <2>2 DEF Allotted, NoRange
<1>3. CASE Partition
  <2>1. /\ stage' = "peer" /\ config' = config /\ ordered' = ordered
        /\ range' = [r \in Res |-> Allotment(r)] /\ UNCHANGED order
    BY <1>3 DEF Partition, Allotment, order
  <2>2. OrderInv /\ left = {}
    BY <1>3 DEF Partition, Inv, InOrder
  <2>3. OrderInv' /\ left' = {}
    BY <2>1, <2>2, OrderStepInv DEF order
  <2> QED
    BY <1>1, <2>1, <2>3 DEF Allotted
<1>4. CASE stage \notin {"stitch", "order", "site"}
  <2>1. /\ stage \in {"peer", "build"} /\ range = [r \in Res |-> Allotment(r)]
        /\ OrderInv /\ left = {}
    BY <1>4 DEF Inv, Allotted, Begun, Stages, Next, Stitch, NotFound, NoSubnet, Unmatched, Evaluate,
                Reorder, EndOrder, FixSite, Label, Introduce, Build, Partition
  <2>2. /\ range' = range /\ config' = config /\ ordered' = ordered
        /\ stage' \in {"peer", "build", "done", "failed"} /\ UNCHANGED order
    BY <1>4 DEF Next, Stitch, NotFound, NoSubnet, Unmatched, Evaluate, Reorder, EndOrder, FixSite,
                Label, Introduce, Build, Partition, Fail, layer3, order
  <2>3. OrderInv' /\ left' = {}
    BY <2>1, <2>2, OrderStepInv DEF order
  <2> QED
    BY <1>1, <2>1, <2>2, <2>3 DEF Allotted
<1> QED
  BY <1>2, <1>3, <1>4

\* Every network that has been gone through has left its labels.
LEMMA LabelledStep == Inv /\ Next => Labelled'
<1> SUFFICES ASSUME Inv, Next PROVE Labelled'
  OBVIOUS
<1>1. /\ peer = [p \in Peerings |-> peer[p]]
      /\ stage \in {"stitch", "order", "site"} => \A p \in Peerings : peer[p].labels = {}
      /\ stage = "peer" => \A p \in Peerings :
           peer[p].labels = {ordered[i] : i \in {k \in 1..at : p \in config.peering[ordered[k]]}}
      /\ stage \in {"build", "done"} => \A p \in Peerings :
           peer[p].labels = {n \in config.nets : p \in config.peering[n]}
  BY DEF Inv, Labelled
<1>2. config \in Configs /\ at \in Nat /\ config' = config /\ Peerings' = Peerings
  BY DEF Inv, Begun, Next, Stitch, NotFound, NoSubnet, Unmatched, Evaluate, Reorder, EndOrder,
         FixSite, Label, Introduce, Build, Partition, Peerings
<1>3. CASE stage \in {"stitch", "order", "site"} /\ ~Partition
  <2>1. peer' = peer /\ stage' \in {"stitch", "order", "site", "failed"}
    BY <1>3 DEF Next, Stitch, NotFound, NoSubnet, Unmatched, Evaluate, Reorder, EndOrder, FixSite,
                Label, Introduce, Build, Fail, layer3
  <2> QED
    BY <1>1, <1>2, <1>3, <2>1 DEF Labelled
<1>4. CASE Partition
  <2>1. stage = "site" /\ stage' = "peer" /\ at' = 0 /\ peer' = peer
    BY <1>4 DEF Partition
  <2>2. \A p \in Peerings :
          {ordered'[i] : i \in {k \in 1..at' : p \in config'.peering[ordered'[k]]}} = {}
    BY <2>1
  <2> QED
    BY <1>1, <1>2, <2>1, <2>2 DEF Labelled
<1>5. CASE Label
  <2> DEFINE r == ordered[at + 1]
  <2>1. /\ stage = "peer" /\ stage' = "peer" /\ at' = at + 1 /\ ordered' = ordered
        /\ peer' = [p \in DOMAIN peer |->
                      IF p \in config.peering[r]
                      THEN [labels |-> peer[p].labels \cup {r},
                            key    |-> IF peer[p].key = 0 THEN config.provider[r]
                                       ELSE peer[p].key]
                      ELSE peer[p]]
    BY <1>5 DEF Label, order
  <2>2. DOMAIN peer = Peerings
    BY <1>1
  <2>3. peer' = [p \in Peerings |-> peer'[p]]
    BY <2>1, <2>2
  <2>4. \A p \in Peerings : peer'[p].labels =
          IF p \in config.peering[r] THEN peer[p].labels \cup {r} ELSE peer[p].labels
    BY <2>1, <2>2
  <2>5. 1..(at + 1) = 1..at \cup {at + 1}
    BY <1>2
  <2>6. ASSUME NEW p \in Peerings
        PROVE  peer'[p].labels =
                 {ordered[i] : i \in {k \in 1..(at + 1) : p \in config.peering[ordered[k]]}}
    <3>1. peer[p].labels = {ordered[i] : i \in {k \in 1..at : p \in config.peering[ordered[k]]}}
      BY <1>1, <2>1
    <3> HIDE DEF r
    <3>2. peer'[p].labels =
            IF p \in config.peering[r] THEN peer[p].labels \cup {r} ELSE peer[p].labels
      BY <2>4
    <3> DEFINE I == {k \in 1..at : p \in config.peering[ordered[k]]}
    <3>3. {k \in 1..(at + 1) : p \in config.peering[ordered[k]]} =
            IF p \in config.peering[r] THEN I \cup {at + 1} ELSE I
      BY <2>5 DEF r
    <3> HIDE DEF I
    <3>4. {ordered[i] : i \in I \cup {at + 1}} = {ordered[i] : i \in I} \cup {r}
      BY DEF r
    <3> QED
      BY <3>1, <3>2, <3>3, <3>4 DEF I
  <2> QED
    BY <1>2, <2>1, <2>3, <2>6 DEF Labelled
<1>6. CASE Introduce
  <2>1. stage = "peer" /\ stage' = "build" /\ at = N /\ peer' = peer
    BY <1>6 DEF Introduce
  <2>2. OrderInv /\ left = {} /\ ordered \in Seq(Res)
    BY <2>1 DEF Inv, InOrder
  <2>3. Len(ordered) = N /\ \A r \in Res : \E i \in 1..N : ordered[i] = r
    BY <2>2, OrderLength
  <2>4. \A i \in 1..N : ordered[i] \in Res
    BY <2>2, <2>3
  <2>5. ASSUME NEW p \in Peerings
        PROVE  peer[p].labels = {n \in config.nets : p \in config.peering[n]}
    <3>1. peer[p].labels = {ordered[i] : i \in {k \in 1..N : p \in config.peering[ordered[k]]}}
      BY <1>1, <2>1
    <3>2. /\ config.nets \subseteq Res
          /\ \A r \in Res : p \in config.peering[r] => r \in config.nets
      BY <1>2, ConfigIs
    <3> QED
      BY <2>3, <2>4, <3>1, <3>2
  <2> QED
    BY <1>1, <1>2, <2>1, <2>5 DEF Labelled
<1>7. CASE Build \/ Unmatched
  <2>1. stage = "build" /\ stage' \in {"done", "failed"} /\ peer' = peer
    BY <1>7 DEF Build, Unmatched, Fail, layer3
  <2> QED
    BY <1>1, <1>2, <2>1 DEF Labelled
<1>8. Label \/ Introduce \/ Build \/ Unmatched \/ Partition \/ stage \in {"stitch", "order", "site"}
  BY DEF Next, Stitch, NotFound, NoSubnet, Evaluate, Reorder, EndOrder, FixSite
<1> QED
  BY <1>3, <1>4, <1>5, <1>6, <1>7, <1>8

\* Build gives every peering a port and a key, or fails.
LEMMA WiredStep == Inv /\ Next => Wired'
<1> SUFFICES ASSUME Inv, Next, stage' = "done" PROVE Wired'
  BY DEF Wired
<1>1. Build
  BY DEF Inv, Begun, Stages, Next, Stitch, NotFound, NoSubnet, Unmatched, Evaluate, Reorder,
         EndOrder, FixSite, Label, Introduce, Partition, Fail
<1>2. /\ \A r \in Built : \A p \in config.peering[r] : Buildable(r, p)
      /\ ports' \in [Built -> [Peerings -> Res \cup {0}]]
      /\ \A r \in Built, p \in Peerings :
           ports'[r][p] \in IF p \in config.peering[r] THEN Keys(r, p) ELSE {0}
      /\ UNCHANGED <<config, faces, infos, peer>>
  BY <1>1 DEF Build, layer3
<1>3. /\ Built' = Built
      /\ \A r, p : Buildable(r, p)' = Buildable(r, p) /\ Keys(r, p)' = Keys(r, p)
  <2>1. UNCHANGED <<config, faces, infos, peer>>
    BY <1>2
  <2> QED
    BY <2>1 DEF Built, Type, Buildable, Keys, EndOf, StitchOf, Ends, SelectInSeq
<1>4. \A r \in Built : \A p \in config.peering[r] : p \in Peerings
  BY DEF Built, Peerings
<1>5. \A r \in Built : \A p \in config.peering[r] : Buildable(r, p) /\ ports'[r][p] \in Keys(r, p)
  BY <1>2, <1>4
<1> QED
  BY <1>2, <1>3, <1>5 DEF Wired

\* The invariant of init.
LEMMA StepInv == Inv /\ [Next]_vars => Inv'
<1> SUFFICES ASSUME Inv, [Next]_vars PROVE Inv'
  OBVIOUS
<1>1. CASE Next
  <2>1. Begun' /\ Stitched' /\ InOrder' /\ Allotted' /\ Labelled' /\ Wired'
    BY <1>1, BegunStep, StitchedStep, InOrderStep, AllottedStep, LabelledStep, WiredStep
  <2>2. /\ DOMAIN site = Res /\ peer3 \in [Res -> SUBSET config.nets]
        /\ config' = config
    BY <1>1 DEF Inv, Next, Stitch, NotFound, NoSubnet, Unmatched, Evaluate, Reorder, EndOrder,
                FixSite, Label, Introduce, Build, Partition
  <2>3. DOMAIN site' = Res
    <3>1. CASE FixSite
      BY <2>2, <3>1 DEF FixSite
    <3>2. CASE ~FixSite
      BY <1>1, <2>2, <3>2 DEF Next, Stitch, NotFound, NoSubnet, Unmatched, Evaluate, Reorder,
                              EndOrder, Label, Introduce, Build, Partition
    <3> QED
      BY <3>1, <3>2
  <2>4. peer3' \in [Res -> SUBSET config.nets]
    <3>1. CASE Introduce
      BY <3>1 DEF Introduce
    <3>2. CASE ~Introduce
      BY <1>1, <2>2, <3>2 DEF Next, Stitch, NotFound, NoSubnet, Unmatched, Evaluate, Reorder,
                              EndOrder, FixSite, Label, Build, Partition, layer3
    <3> QED
      BY <3>1, <3>2
  <2> QED
    BY <2>1, <2>2, <2>3, <2>4 DEF Inv
<1>2. CASE UNCHANGED vars
  <2>1. /\ UNCHANGED <<config, stage, at, faces, infos, site, range, peer, peer3, ports>>
        /\ UNCHANGED <<deps, left, waits, ordered, raised>> /\ UNCHANGED order
    BY <1>2 DEF vars, layer3, order
  <2>2. Begun'
    BY <2>1 DEF Inv, Begun
  <2>3. Stitched'
    <3>1. \A r, i : Paired(r, i)' = Paired(r, i)
      BY <2>1 DEF Paired, Sees, Type, Meets, Terms
    <3> QED
      BY <2>1, <3>1 DEF Inv, Stitched
  <2>4. InOrder'
    <3>1. OrderInv => OrderInv'
      BY <2>1, OrderStepInv
    <3> QED
      BY <2>1, <3>1 DEF Inv, InOrder
  <2>5. Allotted'
    <3>1. \A r : Allotment(r)' = Allotment(r)
      BY <2>1 DEF Allotment, Nodes, Divided, Whole, Users, Turn, Position, SelectInSeq, Part
    <3>2. OrderInv => OrderInv'
      BY <2>1, OrderStepInv
    <3> QED
      BY <2>1, <3>1, <3>2 DEF Inv, Allotted
  <2>6. Labelled'
    <3>1. Peerings' = Peerings
      BY <2>1 DEF Peerings
    <3>2. Labelled
      BY DEF Inv
    <3>3. UNCHANGED <<config, stage, at, peer, ordered>>
      BY <2>1
    <3> QED
      BY ONLY <3>1, <3>2, <3>3 DEF Labelled
  <2>7. Wired'
    <3>1. /\ Built' = Built
          /\ \A r, p : Buildable(r, p)' = Buildable(r, p) /\ Keys(r, p)' = Keys(r, p)
      BY <2>1 DEF Built, Type, Buildable, Keys, EndOf, StitchOf, Ends, SelectInSeq
    <3> QED
      BY <2>1, <3>1 DEF Inv, Wired
  <2> QED
    BY <2>1, <2>2, <2>3, <2>4, <2>5, <2>6, <2>7 DEF Inv
<1> QED
  BY <1>1, <1>2

-----------------------------------------------------------------------------
(***************************************************************************)
(* What the invariant says.                                                *)
(***************************************************************************)
\* The invariant of Controller.init.
THEOREM StitchingInvariant == Spec => []Inv
  BY InitInv, StepInv, PTL DEF Spec

\* Both networks of a stitch see the same two ports, each its own first.
LEMMA MirroredIs == Inv => Mirrored
<1> SUFFICES ASSUME Inv, NEW r \in config.nets, NEW i \in DOMAIN infos[r]
             PROVE  LET x == infos[r][i]
                    IN  /\ x.own.provider = Type(r)
                        /\ \E n \in x.labels \ {r} : \E j \in DOMAIN infos[n] :
                             infos[n][j] = [x EXCEPT !.own = x.peer, !.peer = x.own]
                        /\ \E e \in ToSet(config.stitches) : Meets(x, e)
  BY DEF Mirrored
<1> DEFINE x == infos[r][i]
<1>1. config.nets \subseteq Res
  BY ConfigIs DEF Inv, Begun
<1>2. PICK n \in config.nets \ {r} :
        Sees(r, x, n) /\ \E j \in DOMAIN infos[n] : infos[n][j] = Swapped(x)
  <2>1. Paired(r, i)
    BY <1>1 DEF Inv, Stitched
  <2> QED
    BY <2>1 DEF Paired
<1> HIDE DEF x
<1>3. /\ x.labels = {r, n} /\ x.own.provider = Type(r)
      /\ \E e \in ToSet(config.stitches) : Meets(x, e)
  BY <1>2 DEF Sees
<1> QED
  BY <1>2, <1>3 DEF Swapped, x

\* Once everything has been taken, a resource has one place in the list.
LEMMA PositionIs ==
  ASSUME OrderInv, left = {}, NEW r \in Res
  PROVE  /\ Position(r) \in 1..N /\ ordered[Position(r)] = r
         /\ \A i \in 1..N : ordered[i] = r => i = Position(r)
<1>1. Len(ordered) = N /\ \E i \in 1..N : ordered[i] = r
  BY OrderLength
<1> DEFINE I == {i \in 1..N : ordered[i] = r}
<1>2. Position(r) = Min(I)
  BY <1>1 DEF Position, SelectInSeq
<1>3. I # {} /\ I \subseteq Nat
  BY <1>1
<1>4. Min(I) \in I
  <2> HIDE DEF I
  <2> QED
    BY <1>3, MinIs
<1>5. \A i, j \in 1..N : ordered[i] = ordered[j] => i = j
  BY <1>1 DEF OrderInv, Once
<1> QED
  BY <1>2, <1>4, <1>5

\* What holds once the resources have been ordered again.
LEMMA Later ==
  ASSUME Inv, stage \in {"site", "peer", "build", "done"}
  PROVE  /\ config \in Configs /\ config.nets \subseteq Res
         /\ OrderInv /\ left = {} /\ faces \in [Res -> SUBSET config.nets]
         /\ \A r \in Res : faces[r] \subseteq deps[r]
<1>1. config \in Configs /\ faces \in [Res -> SUBSET config.nets]
  BY DEF Inv, Begun, Stitched
<1>2. OrderInv /\ left = {} /\ deps = [r \in Res |-> config.needs[r] \cup faces[r]]
  BY DEF Inv, InOrder
<1> QED
  BY <1>1, <1>2, ConfigIs

\* A network that waits for another comes after it.
LEMMA ProducerFirstIs == Inv => ProducerFirst
<1> SUFFICES ASSUME Inv, stage \in {"site", "peer", "build", "done"},
                    NEW r \in config.nets, NEW i \in DOMAIN infos[r],
                    Type(r) = infos[r][i].producer,
                    infos[r][i].producer # infos[r][i].consumer,
                    NEW m \in infos[r][i].labels \ {r}
             PROVE  Position(r) < Position(m)
  BY DEF ProducerFirst
<1>1. /\ config.nets \subseteq Res /\ OrderInv /\ left = {}
      /\ \A n \in Res : faces[n] \subseteq deps[n]
  BY Later
<1>2. PICK n \in config.nets \ {r} :
        /\ Sees(r, infos[r][i], n)
        /\ IF Type(r) = infos[r][i].consumer THEN n \in faces[r] ELSE r \in faces[n]
  BY <1>1 DEF Inv, Stitched, Paired
<1>3. infos[r][i].labels = {r, n}
  BY <1>2 DEF Sees
<1>4. m = n
  BY <1>3
<1>5. r \in Res /\ m \in Res /\ r \in deps[m]
  BY <1>1, <1>2, <1>4
<1>6. Position(m) \in 1..N /\ ordered[Position(m)] = m
  BY <1>1, <1>5, PositionIs
<1>7. Len(ordered) = N
  BY <1>1, OrderLength
<1>8. deps[ordered[Position(m)]] \subseteq {ordered[j] : j \in 1..(Position(m) - 1)}
  BY <1>1, <1>6, <1>7 DEF OrderInv, Topological
<1>9. PICK j \in 1..(Position(m) - 1) : ordered[j] = r
  BY <1>5, <1>6, <1>8
<1>10. j \in 1..N /\ j < Position(m)
  BY <1>6, <1>9, OrderAssumption
<1>11. Position(r) = j
  BY <1>1, <1>5, <1>9, <1>10, PositionIs
<1> QED
  BY <1>10, <1>11
-----------------------------------------------------------------------------
\* The turns of the networks of a layer 3 configuration are different, and not
\* more than there are networks.
LEMMA TurnIs ==
  ASSUME config \in Configs, OrderInv, left = {}, NEW r \in config.nets
  PROVE  /\ Cardinality(Users(config.layer3[r])) \in Nat
         /\ Turn(r) \in 1..Cardinality(Users(config.layer3[r]))
         /\ \A n \in Users(config.layer3[r]) :
              /\ n # r => Position(n) # Position(r)
              /\ Position(r) < Position(n) => Turn(r) < Turn(n)
<1> DEFINE U == Users(config.layer3[r])
           Upon(n) == {k \in U : Position(k) <= Position(n)}
<1>1. config.nets \subseteq Res /\ U \subseteq Res /\ r \in Res /\ r \in U
  BY ConfigIs DEF Users
<1>2. IsFiniteSet(U)
  <2>1. IsFiniteSet(Res)
    BY OrderAssumption, FS_Interval DEF Res
  <2> QED
    BY <1>1, <2>1, FS_Subset
<1>3. \A n \in U : /\ Position(n) \in 1..N /\ ordered[Position(n)] = n
                   /\ config.layer3[n] = config.layer3[r]
  BY <1>1, PositionIs DEF Users
<1>4. \A n \in U : Turn(n) = Cardinality(Upon(n))
  BY <1>3 DEF Turn
<1> HIDE DEF U
<1>5. \A n \in U : /\ IsFiniteSet(Upon(n)) /\ Cardinality(Upon(n)) \in Nat
                   /\ Cardinality(Upon(n)) <= Cardinality(U)
  BY <1>2, FS_Subset, FS_CardinalityType
<1>6. Cardinality(Upon(r)) # 0
  <2>1. r \in Upon(r)
    BY <1>1, <1>3
  <2> HIDE DEF Upon
  <2> QED
    BY <1>1, <1>5, <2>1, FS_EmptySet
<1>7. ASSUME NEW n \in U, Position(r) < Position(n)
      PROVE  Turn(r) < Turn(n)
  <2>1. Upon(r) \subseteq Upon(n)
    BY <1>1, <1>3, <1>7
  <2>2. n \in Upon(n) /\ n \notin Upon(r)
    BY <1>1, <1>3, <1>7
  <2> HIDE DEF Upon
  <2>3. Cardinality(Upon(r)) < Cardinality(Upon(n))
    BY <1>1, <1>5, <2>1, <2>2, FS_Subset
  <2> QED
    BY <1>1, <1>4, <2>3
<1>8. Cardinality(U) \in Nat
  BY <1>2, FS_CardinalityType
<1>9. Turn(r) \in 1..Cardinality(U)
  <2> HIDE DEF Upon
  <2> QED
    BY <1>1, <1>4, <1>5, <1>6, <1>8
<1>10. \A n \in U : n # r => Position(n) # Position(r)
  BY <1>1, <1>3
<1> QED
  BY <1>7, <1>8, <1>9, <1>10 DEF U

\* A part of a range is in it, and may be empty at its end; a part with a smaller
\* number ends before it.
LEMMA PartIs ==
  ASSUME NEW w, w.start \in Nat, w.end \in Nat, w.start <= w.end,
         NEW n \in Nat, n > 0, NEW i \in 1..n
  PROVE  /\ Part(w, n, i) \in [start : Nat, end : Nat]
         /\ w.start <= Part(w, n, i).start /\ Part(w, n, i).end <= w.end
         /\ Part(w, n, i).start <= Part(w, n, i).end + 1
         /\ n - 1 <= (w.end - w.start) \div n => Part(w, n, i).start <= Part(w, n, i).end
         /\ \A j \in 1..n : i < j => Part(w, n, i).end < Part(w, n, j).start
<1> DEFINE d == (w.end - w.start) \div n
           a(k) == w.start + (k - 1) * (d + 1)
           start(k) == Min({a(k), w.end + 1})
           p(k) == [start |-> start(k), end |-> Min({start(k) + d, w.end})]
<1>1. \A k : Part(w, n, k) = p(k)
  BY DEF Part
<1>2. d \in Nat /\ n * d <= w.end - w.start
  <2>1. w.end - w.start \in Nat
    OBVIOUS
  <2> QED
    BY <2>1
<1> HIDE DEF d
<1>3. \A k \in 1..n : a(k) \in Nat /\ w.start <= a(k)
  <2> TAKE k \in 1..n
  <2>1. k - 1 \in Nat
    OBVIOUS
  <2>2. (k - 1) * (d + 1) \in Nat
    BY <1>2, <2>1
  <2> QED
    BY <2>2
<1>4. \A k \in 1..n : i < k => a(i) + d + 1 <= a(k)
  <2> SUFFICES ASSUME NEW k \in 1..n, i < k PROVE a(i) + d + 1 <= a(k)
    OBVIOUS
  <2>1. (i - 1) * (d + 1) + d + 1 <= (k - 1) * (d + 1)
    BY <1>2
  <2>2. a(i) \in Nat /\ a(k) \in Nat
    BY <1>3
  <2> QED
    BY <1>2, <2>1, <2>2
<1>5. n - 1 <= d => a(i) <= w.end
  <2> SUFFICES ASSUME n - 1 <= d PROVE a(i) <= w.end
    OBVIOUS
  <2>1. (i - 1) * (d + 1) <= (n - 1) * (d + 1)
    BY <1>2
  <2>2. (n - 1) * (d + 1) <= n * d
    BY <1>2
  <2> QED
    BY <1>2, <2>1, <2>2
<1> HIDE DEF a
<1>6. \A k \in 1..n : start(k) = IF a(k) <= w.end + 1 THEN a(k) ELSE w.end + 1
  BY <1>3, MinMaxPair
<1> HIDE DEF start
<1>7. \A k \in 1..n : start(k) \in Nat /\ w.start <= start(k) /\ start(k) <= w.end + 1
  BY <1>3, <1>6
<1>8. \A k \in 1..n : p(k).start = start(k)
                      /\ p(k).end = IF start(k) + d <= w.end THEN start(k) + d ELSE w.end
  BY <1>2, <1>7, MinMaxPair
<1>9. p(i) \in [start : Nat, end : Nat]
  <2>1. Min({start(i) + d, w.end}) \in Nat
    BY <1>2, <1>7, MinMaxPair
  <2> QED
    BY <1>7, <2>1
<1> HIDE DEF p
<1>10. /\ w.start <= p(i).start /\ p(i).end <= w.end /\ p(i).start <= p(i).end + 1
  BY <1>2, <1>7, <1>8
<1>11. n - 1 <= d => p(i).start <= p(i).end
  BY <1>2, <1>3, <1>5, <1>6, <1>8
<1>12. \A j \in 1..n : i < j => p(i).end < p(j).start
  <2> SUFFICES ASSUME NEW j \in 1..n, i < j PROVE p(i).end < p(j).start
    OBVIOUS
  <2>1. a(i) + d + 1 <= a(j) /\ a(i) \in Nat /\ a(j) \in Nat
    BY <1>3, <1>4
  <2>2. start(i) = IF a(i) <= w.end + 1 THEN a(i) ELSE w.end + 1
    BY <1>6
  <2>3. p(j).start = IF a(j) <= w.end + 1 THEN a(j) ELSE w.end + 1
    BY <1>6, <1>8
  <2>4. p(i).end = IF start(i) + d <= w.end THEN start(i) + d ELSE w.end
    BY <1>8
  <2> QED
    BY <1>2, <2>1, <2>2, <2>3, <2>4
<1> QED
  BY <1>1, <1>9, <1>10, <1>11, <1>12 DEF d

\* The range of a network, when it has a layer 3 configuration, is not empty.
LEMMA WholeIs ==
  ASSUME config \in Configs, NEW r \in config.nets, config.layer3[r] # 0
  PROVE  LET w == Whole(config.layer3[r])
         IN  /\ w \in [start : Nat, end : Nat] /\ w.start <= w.end
             /\ w.start \in Nat /\ w.end \in Nat
<1> DEFINE g == config.range[config.layer3[r]]
<1>1. g.start \in Nat /\ g.end \in Nat /\ Filled(g).start <= Filled(g).end
  BY StitchingAssumption
<1> HIDE DEF g
<1>2. /\ Filled(g) \in [start : Nat, end : Nat]
      /\ Filled(g).start \in Nat /\ Filled(g).end \in Nat
  BY <1>1 DEF Filled
<1> QED
  BY <1>1, <1>2 DEF Whole, g

\* What Partition gives a resource is a range.
LEMMA AllotmentIs ==
  ASSUME config \in Configs, OrderInv, left = {}, NEW r \in Res
  PROVE  /\ Allotment(r) \in [start : Nat, end : Nat]
         /\ Allotment(r).start <= Allotment(r).end + 1
<1> DEFINE l == config.layer3[r]
           w == Whole(l)
           n == Cardinality(Users(l))
<1>1. CASE r \in Nodes \/ l = 0
  BY <1>1 DEF Allotment, NoRange
<1>2. CASE r \notin Nodes /\ l # 0
  <2>1. r \in config.nets
    BY <1>2 DEF Nodes
  <2>2. w \in [start : Nat, end : Nat] /\ w.start <= w.end /\ w.start \in Nat /\ w.end \in Nat
    BY <1>2, <2>1, WholeIs
  <2>3. n \in Nat /\ Turn(r) \in 1..n
    BY <2>1, TurnIs
  <2>4. Allotment(r) = IF ~Divided(l) THEN w ELSE Part(w, n, Turn(r))
    BY <1>2 DEF Allotment
  <2> HIDE DEF w, n, l
  <2>5. Part(w, n, Turn(r)) \in [start : Nat, end : Nat]
        /\ Part(w, n, Turn(r)).start <= Part(w, n, Turn(r)).end + 1
    BY <2>2, <2>3, PartIs
  <2> QED
    BY <2>2, <2>4, <2>5
<1> QED
  BY <1>1, <1>2

\* Variables keep their types.
LEMMA TypeOKIs == Inv => TypeOK
<1> SUFFICES ASSUME Inv PROVE TypeOK
  OBVIOUS
<1>1. config \in Configs /\ stage \in Stages /\ at \in Nat
  BY DEF Inv, Begun
<1>2. /\ Len(config.stitches) \in Nat /\ N \in Nat /\ config.nets \subseteq Res
  BY <1>1, ConfigIs, OrderAssumption
<1>3. at \in 0..(N + Len(config.stitches))
  BY <1>1, <1>2 DEF Inv, Begun, Stages
<1>4. /\ faces \in [Res -> SUBSET config.nets]
      /\ ordered \in Seq(Res) /\ left \subseteq Res /\ raised \in BOOLEAN
      /\ DOMAIN site = Res /\ peer3 \in [Res -> SUBSET config.nets]
  BY DEF Inv, Stitched, InOrder
<1>5. ASSUME NEW r \in Res, NEW i \in DOMAIN infos[r]
      PROVE  infos[r][i].labels \subseteq config.nets
  <2>1. r \in config.nets /\ Paired(r, i)
    BY DEF Inv, Stitched
  <2>2. PICK n \in config.nets \ {r} : Sees(r, infos[r][i], n)
    BY <2>1 DEF Paired
  <2>3. infos[r][i].labels = {r, n}
    BY <2>2 DEF Sees
  <2> QED
    BY <2>1, <2>3
<1>6. /\ range \in [Res -> [start : Nat, end : Nat]]
      /\ \A r \in Res : range[r].start <= range[r].end + 1
  <2>1. CASE range = [r \in Res |-> NoRange]
    BY <2>1 DEF NoRange
  <2>2. CASE range = [r \in Res |-> Allotment(r)] /\ OrderInv /\ left = {}
    <3>1. \A r \in Res : /\ Allotment(r) \in [start : Nat, end : Nat]
                         /\ Allotment(r).start <= Allotment(r).end + 1
      BY <1>1, <2>2, AllotmentIs
    <3> QED
      BY <2>2, <3>1
  <2> QED
    BY <2>1, <2>2 DEF Inv, Allotted
<1> QED
  BY <1>1, <1>3, <1>4, <1>5, <1>6 DEF TypeOK, Stages

\* The parts of a layer 3 range.
LEMMA DisjointRangesIs == Inv => DisjointRanges
<1> SUFFICES ASSUME Inv, stage \in {"peer", "build", "done"},
                    NEW l \in {x \in Layers : Divided(x)}
             PROVE  LET users == Users(l)
                        whole == Whole(l)
                    IN  /\ \A r \in users : Hosts(r) \subseteq whole.start..whole.end
                        /\ \A r, n \in users : r # n => Hosts(r) \cap Hosts(n) = {}
                        /\ Cardinality(users) - 1
                             <= (whole.end - whole.start) \div Cardinality(users)
                             => \A r \in users : Hosts(r) # {}
  BY DEF DisjointRanges
<1> DEFINE users == Users(l)
           w == Whole(l)
           n == Cardinality(users)
           p(r) == Part(w, n, Turn(r))
<1>1. /\ config \in Configs /\ config.nets \subseteq Res /\ OrderInv /\ left = {}
  BY Later
<1>2. l # 0 /\ Divided(l) /\ \E r \in config.nets : config.layer3[r] = l
  BY DEF Layers
<1>3. w.start \in Nat /\ w.end \in Nat /\ w.start <= w.end
  BY <1>1, <1>2, WholeIs
<1>4. \A r \in users : r \in config.nets /\ r \in Res /\ config.layer3[r] = l
  BY <1>1 DEF Users
<1>5. \A r \in users : range[r] = p(r)
  <2>1. range = [r \in Res |-> Allotment(r)]
    BY DEF Inv, Allotted
  <2>2. \A r \in users : Allotment(r) = p(r)
    BY <1>2, <1>4 DEF Allotment, Nodes
  <2> QED
    BY <1>4, <2>1, <2>2
<1>6. \A r \in users : /\ n \in Nat /\ Turn(r) \in 1..n
                       /\ \A m \in users : /\ m # r => Position(m) # Position(r)
                                           /\ Position(r) < Position(m) => Turn(r) < Turn(m)
  BY <1>1, <1>4, TurnIs
<1>7. \A r \in users : Position(r) \in Nat
  BY <1>1, <1>4, PositionIs
<1> HIDE DEF users, w, n
<1>8. \A r \in users :
        /\ range[r].start \in Nat /\ range[r].end \in Nat
        /\ w.start <= range[r].start /\ range[r].end <= w.end
        /\ n - 1 <= (w.end - w.start) \div n => range[r].start <= range[r].end
        /\ \A m \in users : Turn(r) < Turn(m) => range[r].end < range[m].start
  <2> TAKE r \in users
  <2>1. n \in Nat /\ n > 0 /\ Turn(r) \in 1..n /\ \A m \in users : Turn(m) \in 1..n
    BY <1>6
  <2>2. /\ p(r) \in [start : Nat, end : Nat]
        /\ w.start <= p(r).start /\ p(r).end <= w.end
        /\ n - 1 <= (w.end - w.start) \div n => p(r).start <= p(r).end
        /\ \A j \in 1..n : Turn(r) < j => p(r).end < Part(w, n, j).start
    BY <1>3, <2>1, PartIs
  <2> QED
    BY <1>5, <2>1, <2>2
<1> HIDE DEF p
<1>9. \A r \in users : Hosts(r) \subseteq w.start..w.end
  BY <1>3, <1>8 DEF Hosts
<1>10. ASSUME NEW r \in users, NEW m \in users, r # m
       PROVE  Hosts(r) \cap Hosts(m) = {}
  <2>1. Position(r) < Position(m) \/ Position(m) < Position(r)
    BY <1>6, <1>7, <1>10
  <2>2. range[r].end < range[m].start \/ range[m].end < range[r].start
    BY <1>6, <1>8, <2>1
  <2> QED
    BY <1>8, <2>2 DEF Hosts
<1>11. ASSUME n - 1 <= (w.end - w.start) \div n, NEW r \in users
       PROVE  Hosts(r) # {}
  BY <1>8, <1>11 DEF Hosts
<1> QED
  BY <1>9, <1>10, <1>11 DEF users, w, n

\* e is the end of type t of stitch x.
EndIs(e, x, t) ==
  /\ e.labels = x.labels
  /\ e.peer = IF x.own.provider = t THEN x.peer.provider ELSE x.own.provider

\* The ends of type t of the stitches of a network.
LEMMA EndsAre ==
  ASSUME Stitched, NEW r \in Res, NEW t
  PROVE  /\ DOMAIN Ends(r, t) = 1..Len(Ends(r, t)) /\ Len(Ends(r, t)) \in Nat
         /\ \A k \in 1..Len(Ends(r, t)) :
              \E i \in DOMAIN infos[r] : EndIs(Ends(r, t)[k], infos[r][i], t)
<1> DEFINE s == infos[r]
           I == {i \in DOMAIN s : t \in {s[i].own.provider, s[i].peer.provider}}
           mine == Picked(s, I)
           E == [k \in DOMAIN mine |->
                  IF mine[k].own.provider = t
                  THEN [port |-> mine[k].own, peer |-> mine[k].peer.provider,
                        labels |-> mine[k].labels]
                  ELSE [port |-> mine[k].peer, peer |-> mine[k].own.provider,
                        labels |-> mine[k].labels]]
<1>1. E = Ends(r, t)
  BY DEF Ends
<1>2. s \in Seq(ToSet(s)) /\ I \in SUBSET DOMAIN s
  BY DEF Stitched
<1>3. mine \in Seq(ToSet(s)) /\ ToSet(mine) = {s[i] : i \in I}
  <2> HIDE DEF s, I
  <2> QED
    BY <1>2, PickedSet
<1> HIDE DEF mine
<1>4. /\ DOMAIN mine = 1..Len(mine) /\ Len(mine) \in Nat
      /\ \A k \in DOMAIN mine : \E i \in DOMAIN s : mine[k] = s[i]
  BY <1>3 DEF ToSet
<1>5. \A k \in DOMAIN mine : EndIs(E[k], mine[k], t)
  BY DEF EndIs
<1>6. DOMAIN E = 1..Len(mine) /\ Len(E) = Len(mine)
  BY <1>4
<1> HIDE DEF E
<1> QED
  BY <1>1, <1>4, <1>5, <1>6

\* A peering gets the stitch of the networks that list it.
LEMMA PeeringOfStitchIs == Inv => PeeringOfStitch
<1> SUFFICES ASSUME Inv, stage = "done", NEW r \in Built, NEW p \in config.peering[r]
             PROVE  LET users == {n \in config.nets : p \in config.peering[n]}
                        lone  == \A n \in users \ {r}, m \in faces[r] :
                                   Type(m) = Type(n) => m = n
                    IN  /\ EndOf(r, p).labels = users
                        /\ ports[r][p] # 0 /\ lone => ports[r][p] \in users
  BY DEF PeeringOfStitch
<1> DEFINE E == Ends(r, FABRIC)
           users == {n \in config.nets : p \in config.peering[n]}
           K == {k \in 1..Len(E) : E[k].labels = peer[p].labels}
<1>1. r \in config.nets /\ r \in Res /\ Type(r) = FABRIC /\ Stitched
  BY Later DEF Built, Inv
<1>2. Buildable(r, p) /\ ports[r][p] \in Keys(r, p)
  BY DEF Inv, Wired
<1>3. peer[p].labels = users
  BY <1>1 DEF Inv, Labelled, Peerings
<1>4. /\ Len(E) \in Nat
      /\ \A k \in 1..Len(E) : \E i \in DOMAIN infos[r] : EndIs(E[k], infos[r][i], FABRIC)
  BY <1>1, EndsAre
<1>5. StitchOf(p, E) = (IF K # {} THEN Min(K) ELSE 0) /\ StitchOf(p, E) # 0
  BY <1>2 DEF StitchOf, SelectInSeq, Buildable
<1>6. K # {} /\ K \subseteq Nat
  BY <1>5
<1>7. StitchOf(p, E) \in K
  <2>1. Min(K) \in K
    <3> HIDE DEF K
    <3> QED
      BY <1>6, MinIs
  <2> QED
    BY <1>5, <1>6, <2>1
<1> DEFINE e == E[StitchOf(p, E)]
<1>8. e = EndOf(r, p) /\ e.labels = users
  BY <1>3, <1>7 DEF EndOf
<1>9. PICK i \in DOMAIN infos[r] : EndIs(e, infos[r][i], FABRIC)
  BY <1>4, <1>7
<1> HIDE DEF e, E
<1>10. Paired(r, i)
  BY <1>1 DEF Stitched
<1>11. PICK n \in config.nets \ {r} : Sees(r, infos[r][i], n)
  BY <1>10 DEF Paired
<1>12. infos[r][i].labels = {r, n}
  BY <1>11 DEF Sees
<1>13. users = {r, n} /\ e.peer = Type(n)
  BY <1>1, <1>8, <1>9, <1>11, <1>12 DEF EndIs, Sees
<1>14. ASSUME ports[r][p] # 0,
              \A k \in users \ {r}, m \in faces[r] : Type(m) = Type(k) => m = k
       PROVE  ports[r][p] \in users
  <2>1. ports[r][p] \in faces[r] /\ Type(ports[r][p]) = Type(n)
    BY <1>2, <1>8, <1>13, <1>14 DEF Keys
  <2>2. n \in users \ {r}
    BY <1>11, <1>13
  <2> QED
    BY <1>14, <2>1, <2>2
<1> QED
  BY <1>8, <1>14

-----------------------------------------------------------------------------
\* The types of the variables of Controller.init, and no range starts later than
\* just after its end.
THEOREM StitchingTypeCorrect == Spec => []TypeOK
  BY StitchingInvariant, TypeOKIs, PTL

\* The network that produces a stitch comes before the one that consumes it in the
\* order that is computed when everything has been stitched (controller.py: "the
\* producer is processed first").
THEOREM ProducerFirstHolds == Spec => []ProducerFirst
  BY StitchingInvariant, ProducerFirstIs, PTL

\* handle_stitch_info tells both ends of a stitch of the same two ports, the pair that
\* its entry of stitch_with comes to, and one that the policy gives keeps its name at
\* one end only.
THEOREM MirroredHolds == Spec => []Mirrored
  BY StitchingInvariant, MirroredIs, PTL

\* For every policy find_stitch_port returns an offer, one that meets the most
\* important wish that can be met, and of these one of the highest preference.
THEOREM BestOfferHolds == Spec => []BestOffer
<1>1. Inv => BestOffer
  BY BestOfferIs DEF Inv
<1> QED
  BY StitchingInvariant, <1>1, PTL

\* For every policy whose preferences tell the offers apart, the stitch is the same
\* whichever of the two networks says stitch_with.
THEOREM EitherWayHolds == Spec => []EitherWay
<1>1. Inv => EitherWay
  BY EitherWayIs DEF Inv
<1> QED
  BY StitchingInvariant, <1>1, PTL

\* partition_layer3_config hands out no address twice, and none that is not in the
\* range, for any range and any number of networks that share it.
THEOREM DisjointRangesHolds == Spec => []DisjointRanges
  BY StitchingInvariant, DisjointRangesIs, PTL

\* The port that the FABRIC provider builds for a peering is that of the stitch
\* between the networks that list it, and so is its key.
THEOREM PeeringOfStitchHolds == Spec => []PeeringOfStitch
  BY StitchingInvariant, PeeringOfStitchIs, PTL
=============================================================================
