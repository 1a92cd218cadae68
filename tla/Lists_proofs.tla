---------------------------- MODULE Lists_proofs ----------------------------
(***************************************************************************)
(* What Filtered keeps of a list, whatever the list: its elements are the  *)
(* list's that are in the set, in order, each from one place.  The proof   *)
(* is by induction over the length, and the induction is over the set of   *)
(* the lengths for which the claim holds: that < is well-founded on the    *)
(* numbers gives every non-empty set of them a least one.                  *)
(***************************************************************************)
EXTENDS Lists, Integers, WellFoundedInduction, TLAPS

\* The least number principle: < is well-founded on the numbers.
LEMMA Smallest ==
    ASSUME NEW T, T \subseteq Nat, T # {}
    PROVE  \E m \in T : \A k \in T : m <= k
<1> DEFINE R == {ss \in Nat \X Nat : ss[1] < ss[2]}
<1>1. IsWellFoundedOn(R, Nat)
  BY NatLessThanWellFounded DEF OpToRel
<1>2. PICK m \in T : \A k \in T : ~ (<<k, m>> \in R)
  <2> HIDE DEF R
  <2> QED  BY <1>1, WFMin
<1>3. ASSUME NEW k \in T PROVE m <= k
  <2>1. m \in Nat /\ k \in Nat
    OBVIOUS
  <2>2. ~ (k < m)
    BY <1>2, <2>1
  <2> QED  BY <2>1, <2>2
<1> QED  BY <1>3

\* Induction over the numbers, stated of the set of those for which it holds.
LEMMA NumbersInduct ==
    ASSUME NEW T, 0 \in T, \A n \in Nat : n \in T => n + 1 \in T
    PROVE  Nat \subseteq T
<1> DEFINE F == Nat \ T
<1> SUFFICES ASSUME F # {} PROVE FALSE
  OBVIOUS
<1>1. PICK m \in F : \A k \in F : m <= k
  BY Smallest
<1>2. m # 0 /\ m \in Nat
  BY <1>1
<1>3. m - 1 \in Nat /\ m - 1 \notin F /\ (m - 1) + 1 = m
  BY <1>1, <1>2
<1> QED  BY <1>1, <1>3

-----------------------------------------------------------------------------
\* The recursion of Filtered has a solution.
LEMMA FilteringExists ==
    ASSUME NEW s, NEW S, Len(s) \in Nat
    PROVE  \E f : f = [i \in 0 .. Len(s) |->
             IF i = 0 THEN <<>> ELSE IF s[i] \in S THEN Append(f[i - 1], s[i]) ELSE f[i - 1]]
<1> DEFINE Solves(f, m) == f = [i \in 0 .. m |->
             IF i = 0 THEN <<>> ELSE IF s[i] \in S THEN Append(f[i - 1], s[i]) ELSE f[i - 1]]
           T == {m \in Nat : \E f : Solves(f, m)}
<1>1. 0 \in T
  <2>1. Solves([i \in 0 .. 0 |-> <<>>], 0)
    OBVIOUS
  <2> QED  BY <2>1
<1>2. ASSUME NEW m \in Nat, m \in T
      PROVE  m + 1 \in T
  <2>1. PICK f : Solves(f, m)
    BY <1>2
  <2> DEFINE x == IF s[m + 1] \in S THEN Append(f[m], s[m + 1]) ELSE f[m]
             g == [i \in 0 .. m + 1 |-> IF i = m + 1 THEN x ELSE f[i]]
  <2>2. ASSUME NEW i \in 0 .. m + 1
        PROVE  g[i] = IF i = 0 THEN <<>> ELSE IF s[i] \in S THEN Append(g[i - 1], s[i]) ELSE g[i - 1]
    <3>1. CASE i = m + 1
      <4>1. g[i] = x /\ i # 0 /\ i - 1 = m /\ g[i - 1] = f[m]
        BY <3>1
      <4> QED  BY <3>1, <4>1
    <3>2. CASE i # m + 1
      <4>1. i \in 0 .. m /\ g[i] = f[i]
        BY <3>2
      <4>2. f[i] = IF i = 0 THEN <<>> ELSE IF s[i] \in S THEN Append(f[i - 1], s[i]) ELSE f[i - 1]
        BY <2>1, <4>1
      <4>3. i # 0 => g[i - 1] = f[i - 1]
        BY <4>1
      <4> HIDE DEF g
      <4> QED  BY <4>1, <4>2, <4>3
    <3> QED  BY <3>1, <3>2
  <2>3. g = [i \in 0 .. m + 1 |-> g[i]]
    OBVIOUS
  <2> HIDE DEF g
  <2>4. Solves(g, m + 1)
    BY <2>2, <2>3
  <2>5. \E h : Solves(h, m + 1)
    <3> HIDE DEF Solves
    <3> QED  BY <2>4
  <2> HIDE DEF Solves
  <2> QED  BY <2>5
<1>3. Nat \subseteq T
  <2> HIDE DEF T
  <2> QED  BY <1>1, <1>2, NumbersInduct
<1>4. \E f : Solves(f, Len(s))
  <2> HIDE DEF Solves
  <2> QED  BY <1>3
<1> QED  BY <1>4

\* What Filtered gives: the elements of the set, each from its place, in the order
\* of the places, and none is left out.
LEMMA FilteredPlaces ==
    ASSUME NEW T, NEW s \in Seq(T), NEW S
    PROVE  \E e :
             /\ Filtered(s, S) \in Seq(T)
             /\ e \in [1 .. Len(Filtered(s, S)) -> 1 .. Len(s)]
             /\ \A n \in 1 .. Len(Filtered(s, S)) : Filtered(s, S)[n] = s[e[n]] /\ Filtered(s, S)[n] \in S
             /\ \A m, n \in 1 .. Len(Filtered(s, S)) : m < n => e[m] < e[n]
             /\ \A j \in 1 .. Len(s) : s[j] \in S => \E n \in 1 .. Len(Filtered(s, S)) : e[n] = j
<1> DEFINE Solves(f) == f = [i \in 0 .. Len(s) |->
             IF i = 0 THEN <<>> ELSE IF s[i] \in S THEN Append(f[i - 1], s[i]) ELSE f[i - 1]]
           up == CHOOSE f : Solves(f)
<1>1. Len(s) \in Nat
  OBVIOUS
<1>2. Solves(up)
  <2>2. \E f : Solves(f)
    BY <1>1, FilteringExists, Zenon
  <2> HIDE DEF Solves
  <2> QED  BY <2>2
<1>3. Filtered(s, S) = up[Len(s)]
  BY DEF Filtered
<1>4. /\ up[0] = <<>>
      /\ \A i \in 1 .. Len(s) : up[i] = IF s[i] \in S THEN Append(up[i - 1], s[i]) ELSE up[i - 1]
  <2> HIDE DEF up
  <2>1. \A i \in 0 .. Len(s) :
          up[i] = IF i = 0 THEN <<>> ELSE IF s[i] \in S THEN Append(up[i - 1], s[i]) ELSE up[i - 1]
    BY <1>2
  <2> QED  BY <2>1, <1>1
<1> HIDE DEF up, Solves
<1> DEFINE Good(r, i, e) ==
             /\ r \in Seq(T)
             /\ e \in [1 .. Len(r) -> 1 .. i]
             /\ \A n \in 1 .. Len(r) : r[n] = s[e[n]] /\ r[n] \in S
             /\ \A m, n \in 1 .. Len(r) : m < n => e[m] < e[n]
             /\ \A j \in 1 .. i : s[j] \in S => \E n \in 1 .. Len(r) : e[n] = j
           N == {i \in Nat : i <= Len(s) => \E e : Good(up[i], i, e)}
<1>5. 0 \in N
  <2>1. Good(<<>>, 0, [n \in 1 .. 0 |-> 0])
    OBVIOUS
  <2>2. \E e : Good(up[0], 0, e)
    <3> HIDE DEF Good
    <3> QED  BY <2>1, <1>4
  <2> HIDE DEF Good
  <2> QED  BY <2>2
<1>6. ASSUME NEW i \in Nat, i \in N
      PROVE  i + 1 \in N
  <2> SUFFICES ASSUME i + 1 <= Len(s) PROVE \E e : Good(up[i + 1], i + 1, e)
    <3> HIDE DEF Good
    <3> QED  OBVIOUS
  <2>1. PICK e : Good(up[i], i, e)
    <3>1. i <= Len(s)
      BY <1>1
    <3> HIDE DEF Good
    <3> QED  BY <3>1, <1>6
  <2> DEFINE r == up[i]
             x == s[i + 1]
  <2>2. i + 1 \in 1 .. Len(s) /\ (i + 1) - 1 = i /\ x \in T
    BY <1>1
  <2>3. up[i + 1] = IF x \in S THEN Append(r, x) ELSE r
    BY <1>4, <2>2
  <2>4. Good(r, i, e)
    BY <2>1
  <2> HIDE DEF r
  <2>5. r \in Seq(T) /\ Len(r) \in Nat
    BY <2>4
  <2>6. CASE x \notin S
    <3>1. e \in [1 .. Len(r) -> 1 .. i + 1]
      BY <2>4
    <3>2. \A j \in 1 .. i + 1 : s[j] \in S => j \in 1 .. i
      BY <2>6
    <3>3. Good(r, i + 1, e)
      BY <2>4, <3>1, <3>2
    <3> HIDE DEF Good
    <3> QED  BY <2>3, <2>6, <3>3
  <2>7. CASE x \in S
    <3> DEFINE q == Append(r, x)
               d == [n \in 1 .. Len(r) + 1 |-> IF n = Len(r) + 1 THEN i + 1 ELSE e[n]]
    <3>1. /\ q \in Seq(T) /\ Len(q) = Len(r) + 1 /\ q[Len(r) + 1] = x
          /\ \A n \in 1 .. Len(r) : q[n] = r[n]
      BY <2>2, <2>5
    <3> HIDE DEF q
    <3>2. /\ d \in [1 .. Len(r) + 1 -> 1 .. i + 1] /\ d[Len(r) + 1] = i + 1
          /\ \A n \in 1 .. Len(r) : d[n] = e[n] /\ e[n] \in 1 .. i
      <4>1. \A n \in 1 .. Len(r) : e[n] \in 1 .. i
        BY <2>4
      <4>2. \A n \in 1 .. Len(r) : n # Len(r) + 1 /\ n \in 1 .. Len(r) + 1
        BY <2>5
      <4>3. Len(r) + 1 \in 1 .. Len(r) + 1
        BY <2>5
      <4>4. \A n \in 1 .. Len(r) + 1 : n = Len(r) + 1 \/ n \in 1 .. Len(r)
        BY <2>5
      <4>5. i + 1 \in 1 .. i + 1 /\ 1 .. i \subseteq 1 .. i + 1
        OBVIOUS
      <4> QED  BY <4>1, <4>2, <4>3, <4>4, <4>5
    <3> HIDE DEF d
    <3>3. \A n \in 1 .. Len(q) : n \in 1 .. Len(r) \/ n = Len(r) + 1
      BY <2>5, <3>1
    <3>4. \A n \in 1 .. Len(q) : q[n] = s[d[n]] /\ q[n] \in S
      BY <2>4, <2>7, <3>1, <3>2, <3>3
    <3>5. \A m, n \in 1 .. Len(q) : m < n => d[m] < d[n]
      <4> SUFFICES ASSUME NEW m \in 1 .. Len(q), NEW n \in 1 .. Len(q), m < n
                   PROVE  d[m] < d[n]
        OBVIOUS
      <4>1. m \in 1 .. Len(r)
        BY <2>5, <3>1
      <4>2. CASE n \in 1 .. Len(r)
        BY <2>4, <3>2, <4>1, <4>2
      <4>3. CASE n = Len(r) + 1
        BY <3>2, <4>1, <4>3
      <4> QED  BY <3>3, <4>2, <4>3
    <3>6. ASSUME NEW j \in 1 .. i + 1, s[j] \in S
          PROVE  \E n \in 1 .. Len(q) : d[n] = j
      <4>1. CASE j = i + 1
        BY <2>5, <3>1, <3>2, <4>1
      <4>2. CASE j # i + 1
        <5>1. PICK n \in 1 .. Len(r) : e[n] = j
          BY <2>4, <3>6, <4>2
        <5> QED  BY <2>5, <3>1, <3>2, <5>1
      <4> QED  BY <4>1, <4>2
    <3>7. Good(q, i + 1, d)
      BY <3>1, <3>2, <3>4, <3>5, <3>6
    <3>8. up[i + 1] = q
      BY <2>3, <2>7 DEF q
    <3> HIDE DEF Good
    <3> QED  BY <3>7, <3>8
  <2> QED  BY <2>6, <2>7
<1>7. Nat \subseteq N
  <2> HIDE DEF N
  <2> QED  BY <1>5, <1>6, NumbersInduct
<1>8. PICK e : Good(up[Len(s)], Len(s), e)
  <2> HIDE DEF Good
  <2>1. Len(s) \in N /\ Len(s) <= Len(s)
    <3> HIDE DEF N
    <3> QED  BY <1>1, <1>7
  <2> QED  BY <2>1
<1> QED  BY <1>3, <1>8

\* Places in order are never before those of a full list.
LEMMA PlacesAdvance ==
    ASSUME NEW k \in Nat, NEW l \in Nat, NEW e \in [1 .. k -> 1 .. l],
           \A m, n \in 1 .. k : m < n => e[m] < e[n]
    PROVE  \A n \in 1 .. k : n <= e[n]
<1> DEFINE N == {n \in Nat : n \in 1 .. k => n <= e[n]}
<1>1. 0 \in N
  OBVIOUS
<1>2. ASSUME NEW n \in Nat, n \in N
      PROVE  n + 1 \in N
  <2> SUFFICES ASSUME n + 1 \in 1 .. k PROVE n + 1 <= e[n + 1]
    OBVIOUS
  <2>1. e[n + 1] \in 1 .. l
    OBVIOUS
  <2>2. CASE n = 0
    BY <2>1, <2>2
  <2>3. CASE n # 0
    <3>1. n \in 1 .. k /\ n < n + 1
      BY <2>3
    <3>2. n <= e[n] /\ e[n] < e[n + 1] /\ e[n] \in 1 .. l
      BY <1>2, <3>1
    <3> QED  BY <2>1, <3>2
  <2> QED  BY <2>2, <2>3
<1>3. Nat \subseteq N
  <2> HIDE DEF N
  <2> QED  BY <1>1, <1>2, NumbersInduct
<1> QED  BY <1>3

\* Places of an increasing sequence are as far apart as their positions at least.
LEMMA PlacesApart ==
    ASSUME NEW k \in Nat, NEW l \in Nat, NEW e \in [1 .. k -> 1 .. l],
           \A m, n \in 1 .. k : m < n => e[m] < e[n]
    PROVE  \A i \in 1 .. k :
             /\ k - i <= l - e[i]
             /\ \A j \in 1 .. k : i < j => j - i <= e[j] - e[i]
<1> SUFFICES ASSUME NEW i \in 1 .. k
             PROVE  /\ k - i <= l - e[i]
                    /\ \A j \in 1 .. k : i < j => j - i <= e[j] - e[i]
  OBVIOUS
<1> DEFINE c == k - i
           d == l - e[i]
           g == [n \in 1 .. c |-> e[i + n] - e[i]]
<1>1. e[i] \in 1 .. l /\ c \in Nat /\ d \in Nat
  OBVIOUS
<1>2. ASSUME NEW n \in 1 .. c
      PROVE  i + n \in 1 .. k /\ e[i + n] \in 1 .. l /\ e[i] < e[i + n] /\ g[n] = e[i + n] - e[i]
  <2>1. i + n \in 1 .. k /\ i < i + n
    OBVIOUS
  <2> QED  BY <2>1
<1>3. g \in [1 .. c -> 1 .. d]
  BY <1>1, <1>2
<1>4. \A m, n \in 1 .. c : m < n => g[m] < g[n]
  <2> SUFFICES ASSUME NEW m \in 1 .. c, NEW n \in 1 .. c, m < n PROVE g[m] < g[n]
    OBVIOUS
  <2>1. i + m < i + n
    OBVIOUS
  <2> QED  BY <1>1, <1>2, <2>1
<1> HIDE DEF g
<1>5. \A n \in 1 .. c : n <= g[n]
  <2> HIDE DEF c, d
  <2> QED  BY <1>1, <1>3, <1>4, PlacesAdvance
<1>6. ASSUME NEW j \in 1 .. k, i < j PROVE j - i <= e[j] - e[i]
  <2>1. j - i \in 1 .. c /\ i + (j - i) = j
    BY <1>6
  <2>2. g[j - i] = e[j] - e[i]
    BY <1>2, <2>1
  <2> QED  BY <1>5, <2>1, <2>2
<1>7. k - i <= l - e[i]
  <2>1. CASE i = k
    BY <1>1, <2>1
  <2>2. CASE i # k
    <3>1. k \in 1 .. k /\ i < k
      BY <2>2
    <3>2. k - i <= e[k] - e[i] /\ e[k] \in 1 .. l
      BY <1>6, <3>1
    <3> QED  BY <1>1, <3>2
  <2> QED  BY <2>1, <2>2
<1> QED  BY <1>6, <1>7

\* An element of a list of elements of a set
LEMMA ElementIn ==
    ASSUME NEW S, NEW s \in Seq(S), NEW i \in 1 .. Len(s)
    PROVE  s[i] \in S
  OBVIOUS

\* Multiplying by a number keeps the order.
LEMMA TimesKeepsOrder ==
    ASSUME NEW a \in Int, NEW b \in Int, a <= b, NEW c \in Nat
    PROVE  a * c <= b * c
  OBVIOUS

\* Filtered neither adds nor repeats.
LEMMA FilteredFacts ==
    ASSUME NEW T, NEW s \in Seq(T), NEW S
    PROVE  /\ Filtered(s, S) \in Seq(T)
           /\ Len(Filtered(s, S)) <= Len(s)
           /\ \A n \in 1 .. Len(Filtered(s, S)) :
                Filtered(s, S)[n] \in S /\ \E j \in 1 .. Len(s) : s[j] = Filtered(s, S)[n]
           /\ \A j \in 1 .. Len(s) : s[j] \in S => \E n \in 1 .. Len(Filtered(s, S)) : Filtered(s, S)[n] = s[j]
           /\ (\A i, j \in 1 .. Len(s) : s[i] = s[j] => i = j) =>
                \A i, j \in 1 .. Len(Filtered(s, S)) : Filtered(s, S)[i] = Filtered(s, S)[j] => i = j
<1> DEFINE r == Filtered(s, S)
<1>1. PICK e :
        /\ r \in Seq(T)
        /\ e \in [1 .. Len(r) -> 1 .. Len(s)]
        /\ \A n \in 1 .. Len(r) : r[n] = s[e[n]] /\ r[n] \in S
        /\ \A m, n \in 1 .. Len(r) : m < n => e[m] < e[n]
        /\ \A j \in 1 .. Len(s) : s[j] \in S => \E n \in 1 .. Len(r) : e[n] = j
  BY FilteredPlaces, SMTT(60)
<1> HIDE DEF r
<1>2. Len(r) \in Nat /\ Len(s) \in Nat
  BY <1>1
<1>3. Len(r) <= Len(s)
  <2>1. \A n \in 1 .. Len(r) : n <= e[n]
    BY <1>1, <1>2, PlacesAdvance
  <2>2. CASE Len(r) = 0
    BY <1>2, <2>2
  <2>3. CASE Len(r) # 0
    <3>1. Len(r) \in 1 .. Len(r)
      BY <1>2, <2>3
    <3>2. Len(r) <= e[Len(r)] /\ e[Len(r)] \in 1 .. Len(s)
      BY <1>1, <2>1, <3>1
    <3> QED  BY <1>2, <3>2
  <2> QED  BY <2>2, <2>3
<1>4. \A n \in 1 .. Len(r) : r[n] \in S /\ \E j \in 1 .. Len(s) : s[j] = r[n]
  BY <1>1
<1>5. \A j \in 1 .. Len(s) : s[j] \in S => \E n \in 1 .. Len(r) : r[n] = s[j]
  BY <1>1
<1>6. ASSUME \A i, j \in 1 .. Len(s) : s[i] = s[j] => i = j, NEW i \in 1 .. Len(r), NEW j \in 1 .. Len(r), r[i] = r[j]
      PROVE  i = j
  <2>1. e[i] = e[j]
    <3>1. e[i] \in 1 .. Len(s) /\ e[j] \in 1 .. Len(s) /\ s[e[i]] = s[e[j]]
      BY <1>1, <1>6
    <3> QED  BY <1>6, <3>1
  <2>2. ~ (i < j) /\ ~ (j < i)
    BY <1>1, <2>1
  <2> QED  BY <1>2, <2>2
<1> QED  BY <1>1, <1>3, <1>4, <1>5, <1>6 DEF r

\* When the first m elements are in the set and no other is, they are what is kept.
LEMMA FilteredFront ==
    ASSUME NEW T, NEW s \in Seq(T), NEW S, NEW m \in Nat, m <= Len(s),
           \A i \in 1 .. Len(s) : s[i] \in S <=> i <= m
    PROVE  /\ Filtered(s, S) \in Seq(T) /\ Len(Filtered(s, S)) = m
           /\ \A i \in 1 .. m : Filtered(s, S)[i] = s[i]
<1> DEFINE r == Filtered(s, S)
<1>1. PICK e :
        /\ r \in Seq(T)
        /\ e \in [1 .. Len(r) -> 1 .. Len(s)]
        /\ \A n \in 1 .. Len(r) : r[n] = s[e[n]] /\ r[n] \in S
        /\ \A k, n \in 1 .. Len(r) : k < n => e[k] < e[n]
        /\ \A j \in 1 .. Len(s) : s[j] \in S => \E n \in 1 .. Len(r) : e[n] = j
  <2>1. s \in Seq(T)
    OBVIOUS
  <2> QED  BY ONLY <2>1, FilteredPlaces, SMTT(60)
<1> HIDE DEF r
<1> DEFINE L == Len(r)
<1>2. L \in Nat /\ Len(s) \in Nat
  BY <1>1
<1>3. e \in [1 .. L -> 1 .. m]
  <2>1. ASSUME NEW n \in 1 .. L PROVE e[n] \in 1 .. m
    <3>1. e[n] \in 1 .. Len(s) /\ s[e[n]] \in S
      BY <1>1
    <3> QED  BY <1>2, <3>1
  <2> QED  BY <1>1, <2>1
<1> DEFINE d == [j \in 1 .. m |-> CHOOSE n \in 1 .. L : e[n] = j]
<1>4. ASSUME NEW j \in 1 .. m PROVE d[j] \in 1 .. L /\ e[d[j]] = j
  <2>1. j \in 1 .. Len(s) /\ s[j] \in S
    BY <1>2
  <2>2. \E n \in 1 .. L : e[n] = j
    BY <1>1, <2>1
  <2> QED  BY <2>2
<1>5. d \in [1 .. m -> 1 .. L]
  BY <1>4
<1> HIDE DEF d
<1>6. \A i, j \in 1 .. m : i < j => d[i] < d[j]
  <2> SUFFICES ASSUME NEW i \in 1 .. m, NEW j \in 1 .. m, i < j PROVE d[i] < d[j]
    OBVIOUS
  <2>1. d[i] \in 1 .. L /\ d[j] \in 1 .. L /\ e[d[i]] = i /\ e[d[j]] = j
    BY <1>4
  <2>2. d[i] # d[j] /\ ~(d[j] < d[i])
    BY <1>1, <2>1
  <2> QED  BY <2>1, <2>2
<1> HIDE DEF L
<1>7. \A j \in 1 .. m : j <= d[j]
  BY <1>2, <1>5, <1>6, PlacesAdvance
<1>8. \A n \in 1 .. L : n <= e[n]
  <2>1. \A k, n \in 1 .. L : k < n => e[k] < e[n]
    BY <1>1 DEF L
  <2> QED  BY <1>2, <1>3, <2>1, PlacesAdvance
<1>9. ASSUME NEW j \in 1 .. m PROVE d[j] = j /\ j <= L /\ e[j] = j
  <2>1. d[j] \in 1 .. L /\ e[d[j]] = j /\ j <= d[j] /\ d[j] <= e[d[j]]
    BY <1>4, <1>7, <1>8
  <2>2. d[j] = j
    BY <1>2, <2>1
  <2> QED  BY <1>2, <2>1, <2>2
<1>10. L = m
  <2>1. L <= m
    <3>1. CASE L = 0
      BY <3>1
    <3>2. CASE L # 0
      <4>1. L \in 1 .. L
        BY <1>2, <3>2
      <4>2. L <= e[L] /\ e[L] \in 1 .. m
        BY <1>3, <1>8, <4>1
      <4> QED  BY <1>2, <4>2
    <3> QED  BY <3>1, <3>2
  <2>2. m <= L
    <3>1. CASE m = 0
      BY <1>2, <3>1
    <3>2. CASE m # 0
      <4>1. m \in 1 .. m
        BY <3>2
      <4> QED  BY <1>9, <4>1
    <3> QED  BY <3>1, <3>2
  <2> QED  BY <1>2, <2>1, <2>2
<1>11. ASSUME NEW i \in 1 .. m PROVE r[i] = s[i]
  <2>1. i \in 1 .. Len(r) /\ e[i] = i
    BY <1>9, <1>10 DEF L
  <2> QED  BY <1>1, <2>1
<1> QED  BY <1>1, <1>10, <1>11 DEF r, L

\* A list and one element more
LEMMA Appended ==
    ASSUME NEW S, NEW s \in Seq(S), NEW x \in S
    PROVE  /\ Append(s, x) \in Seq(S) /\ Len(Append(s, x)) = Len(s) + 1 /\ Append(s, x)[Len(s) + 1] = x
           /\ \A i \in 1 .. Len(s) : Append(s, x)[i] = s[i]
  OBVIOUS

\* A list without its first element
LEMMA Shortened ==
    ASSUME NEW S, NEW s \in Seq(S), s # <<>>
    PROVE  /\ Len(s) \in Nat \ {0} /\ Head(s) \in S /\ Head(s) = s[1]
           /\ Tail(s) \in Seq(S) /\ Len(Tail(s)) = Len(s) - 1
           /\ \A i \in 1 .. Len(s) - 1 : Tail(s)[i] = s[i + 1]
  OBVIOUS
=============================================================================
