---------------------------- MODULE SelectionProofs ----------------------------
(***************************************************************************)
(* What the selections of Selection are, for every list and every set of   *)
(* places, and the facts about numbers that stand for induction.           *)
(***************************************************************************)
EXTENDS Selection, Sequences, SequencesExt, FiniteSetTheorems, SequenceTheorems, WellFoundedInduction, TLAPS

\* A set of naturals that is not empty has a least member.  Induction is done by
\* way of it, as the least counterexample.
LEMMA LeastNatural ==
    ASSUME NEW T, T \subseteq Nat, T # {}
    PROVE  \E n \in T : \A m \in T : n <= m
<1>1. PICK x \in T : \A y \in T : ~(<<y, x>> \in OpToRel(<, Nat))
  BY NatLessThanWellFounded, WFMin
<1>2. ASSUME NEW y \in T PROVE x <= y
  <2>1. <<y, x>> \in Nat \X Nat /\ y \in Nat /\ x \in Nat
    OBVIOUS
  <2>2. ~(<<y, x>> \in {ss \in Nat \X Nat : ss[1] < ss[2]})
    BY <1>1 DEF OpToRel
  <2>3. ~(y < x)
    BY <2>1, <2>2
  <2> QED
    BY <2>1, <2>3
<1> QED
  BY <1>2

LEMMA EmptyRange == Range(<<>>) = {}
BY DEF Range

Ordered(s, S) == Range(s) = S /\ \A i, j \in DOMAIN s : i < j => s[i] < s[j]
CanOrder(S) == \E s \in [1 .. Cardinality(S) -> S] : Ordered(s, S)

\* Every finite set of numbers can be put into order, by induction on its greatest member.
LEMMA OrderExists ==
    ASSUME NEW n \in Nat, NEW S \in SUBSET (1 .. n)
    PROVE  CanOrder(S)
<1> DEFINE T == {k \in Nat : ~\A R \in SUBSET (1 .. k) : CanOrder(R)}
<1>1. T = {}
  <2> SUFFICES ASSUME T # {} PROVE FALSE
    OBVIOUS
  <2>1. PICK k \in T : \A m \in T : k <= m
    <3>1. T \subseteq Nat
      OBVIOUS
    <3> HIDE DEF T
    <3> QED
      BY <3>1, LeastNatural
  <2>2. k \in Nat
    OBVIOUS
  <2>3. PICK R \in SUBSET (1 .. k) : ~CanOrder(R)
    OBVIOUS
  <2>4. CASE k = 0
    <3>1. R = {}
      BY <2>4
    <3>2. Cardinality(R) = 0
      BY <3>1, FS_EmptySet
    <3>3. <<>> \in [1 .. Cardinality(R) -> R] /\ Ordered(<<>>, R)
      BY <3>1, <3>2, EmptyRange DEF Ordered
    <3> QED
      BY <2>3, <3>3 DEF CanOrder
  <2>5. CASE k # 0
    <3>1. k - 1 \in Nat /\ ~(k <= k - 1)
      BY <2>2, <2>5
    <3>2. k - 1 \notin T
      BY <2>1, <3>1
    <3>3. \A Q \in SUBSET (1 .. k - 1) : CanOrder(Q)
      BY <3>1, <3>2
    <3>4. k \in R
      <4>1. R \in SUBSET (1 .. k - 1) \/ k \in R
        BY <2>2, <2>3
      <4> QED
        BY <2>3, <3>3, <4>1
    <3> DEFINE Q == R \ {k}
               c == Cardinality(Q)
    <3>5. Q \in SUBSET (1 .. k - 1)
      BY <2>2, <2>3
    <3>6. PICK s \in [1 .. c -> Q] : Ordered(s, Q)
      BY <3>3, <3>5 DEF CanOrder
    <3>7. c \in Nat /\ Cardinality(R) = c + 1
      <4>1. IsFiniteSet(1 .. k - 1)
        BY <3>1, FS_Interval
      <4>2. IsFiniteSet(Q)
        BY <3>5, <4>1, FS_Subset
      <4>3. R = Q \cup {k} /\ k \notin Q
        BY <3>4
      <4>4. c \in Nat
        BY <4>2, FS_CardinalityType
      <4> HIDE DEF Q
      <4>5. Cardinality(Q \cup {k}) = Cardinality(Q) + 1
        BY <4>2, <4>3, FS_AddElement
      <4> QED
        BY <4>3, <4>4, <4>5
    <3> HIDE DEF c
    <3> DEFINE t == [i \in 1 .. c + 1 |-> IF i = c + 1 THEN k ELSE s[i]]
    <3>8. t \in [1 .. c + 1 -> R]
      <4>1. \A i \in 1 .. c + 1 : i # c + 1 => i \in 1 .. c
        BY <3>7
      <4> QED
        BY <3>4, <4>1
    <3>9. Ordered(t, R)
      <4>1. DOMAIN t = 1 .. c + 1 /\ DOMAIN s = 1 .. c
        OBVIOUS
      <4>2. t[c + 1] = k /\ \A i \in 1 .. c : t[i] = s[i] /\ i \in DOMAIN t
        BY <3>7
      <4>3. \A i \in 1 .. c : s[i] \in Q /\ s[i] \in Nat /\ s[i] < k
        <5>1. \A x \in Q : x \in Nat /\ x < k
          BY <2>2, <3>5
        <5> QED
          BY <5>1
      <4>4. Range(s) = Q
        BY <3>6 DEF Ordered
      <4>5. Range(t) = R
        <5>1. Range(s) = {s[i] : i \in 1 .. c}
          BY <4>1 DEF Range
        <5>2. Range(t) = {t[i] : i \in 1 .. c + 1}
          BY <4>1 DEF Range
        <5>3. ASSUME NEW x \in R PROVE x \in Range(t)
          <6>1. CASE x = k
            BY <3>7, <4>2, <5>2, <6>1
          <6>2. CASE x # k
            <7>1. PICK i \in 1 .. c : s[i] = x
              BY <4>4, <5>1, <6>2
            <7> QED
              BY <3>7, <4>1, <4>2, <5>2, <7>1
          <6> QED
            BY <6>1, <6>2
        <5>4. Range(t) \subseteq R
          BY <3>8, <5>2
        <5> QED
          BY <5>3, <5>4
      <4> HIDE DEF t, Q
      <4>6. ASSUME NEW i \in DOMAIN t, NEW j \in DOMAIN t, i < j PROVE t[i] < t[j]
        <5>1. i \in 1 .. c
          BY <3>7, <4>1, <4>6
        <5>2. CASE j = c + 1
          BY <4>2, <4>3, <5>1, <5>2
        <5>3. CASE j # c + 1
          <6>1. j \in 1 .. c
            BY <3>7, <4>1, <5>3
          <6>2. s[i] < s[j]
            BY <3>6, <4>1, <4>6, <5>1, <6>1 DEF Ordered
          <6> QED
            BY <4>2, <5>1, <6>1, <6>2
        <5> QED
          BY <5>2, <5>3
      <4> QED
        BY <4>5, <4>6 DEF Ordered
    <3>10. CanOrder(R)
      <4> HIDE DEF t
      <4> QED
        BY <3>7, <3>8, <3>9 DEF CanOrder
    <3> QED
      BY <2>3, <3>10
  <2> QED
    BY <2>4, <2>5
<1> QED
  BY <1>1

LEMMA AscendingIs ==
    ASSUME NEW n \in Nat, NEW S \in SUBSET (1 .. n)
    PROVE  /\ Ascending(S) \in [1 .. Cardinality(S) -> S] /\ Ordered(Ascending(S), S)
           /\ IsFiniteSet(S) /\ Cardinality(S) \in Nat /\ Cardinality(S) <= n
<1>1. CanOrder(S)
  BY OrderExists
<1>2. IsFiniteSet(1 .. n) /\ Cardinality(1 .. n) = n
  BY FS_Interval
<1>3. IsFiniteSet(S) /\ Cardinality(S) <= n
  BY <1>2, FS_Subset
<1>4. Cardinality(S) \in Nat
  BY <1>3, FS_CardinalityType
<1> QED
  BY <1>1, <1>3, <1>4 DEF CanOrder, Ordered, Ascending

\* A selection is a list of the elements at the places, each once and in their order.
PickedBy(p, s, places, at) ==
    /\ at \in [1 .. Len(p) -> places]
    /\ Range(at) = places
    /\ \A k \in 1 .. Len(p) : p[k] = s[at[k]]
    /\ \A k, l \in 1 .. Len(p) : k < l => at[k] < at[l]

LEMMA PickedIs ==
    ASSUME NEW E, NEW s \in Seq(E), NEW places \in SUBSET (1 .. Len(s))
    PROVE  /\ Picked(s, places) \in Seq(E)
           /\ Len(Picked(s, places)) = Cardinality(places)
           /\ Len(Picked(s, places)) <= Len(s)
           /\ \E at : PickedBy(Picked(s, places), s, places, at)
<1>1. PICK n \in Nat : n = Len(s)
  OBVIOUS
<1>2. /\ Ascending(places) \in [1 .. Cardinality(places) -> places]
      /\ Ordered(Ascending(places), places)
      /\ Cardinality(places) \in Nat /\ Cardinality(places) <= n
  BY <1>1, AscendingIs
<1>3. PICK at \in [1 .. Cardinality(places) -> places] : at = Ascending(places) /\ Ordered(at, places)
  BY <1>2
<1>4. PICK c \in Nat : c = Cardinality(places)
  BY <1>2
<1>5. Picked(s, places) = [k \in 1 .. c |-> s[at[k]]]
  BY <1>3, <1>4 DEF Picked
<1>6. \A k \in 1 .. c : at[k] \in places /\ s[at[k]] \in E
  <2>1. \A j \in 1 .. Len(s) : s[j] \in E
    OBVIOUS
  <2>2. \A k \in 1 .. c : at[k] \in places
    BY <1>3, <1>4
  <2> QED
    BY <2>1, <2>2
<1>7. [k \in 1 .. c |-> s[at[k]]] \in Seq(E)
  BY <1>6
<1>8. PICK p \in Seq(E) : p = Picked(s, places)
  BY <1>5, <1>7
<1>9. Len(p) = c /\ DOMAIN p = 1 .. c /\ \A k \in 1 .. c : p[k] = s[at[k]]
  BY <1>4, <1>5, <1>8
<1>10. PickedBy(p, s, places, at)
  <2>1. DOMAIN at = 1 .. c
    BY <1>3, <1>4
  <2> QED
    BY <1>3, <1>4, <1>9, <2>1 DEF PickedBy, Ordered
<1> QED
  BY <1>1, <1>2, <1>4, <1>8, <1>9, <1>10

\* A part of a list, and two lists joined, place by place.
Cut(E, s, a, b, q) ==
    /\ s \in Seq(E) /\ a \in Nat /\ b \in Nat /\ a <= b /\ b <= Len(s)
    /\ q = SubSeq(s, a + 1, b)

CutPlaces(E, s, a, b, q) ==
    q \in Seq(E) /\ Len(q) = b - a /\ \A k \in 1 .. b - a : q[k] = s[a + k]

LEMMA CutIs ==
    ASSUME NEW E, NEW s, NEW a, NEW b, NEW q, Cut(E, s, a, b, q)
    PROVE  CutPlaces(E, s, a, b, q)
<1>0. s \in Seq(E) /\ a \in Nat /\ b \in Nat /\ a <= b /\ b <= Len(s) /\ q = SubSeq(s, a + 1, b)
  BY DEF Cut
<1>1. \A j \in 1 .. Len(s) : s[j] \in E
  BY <1>0
<1>2. PICK c \in Int : c = a + 1
  BY <1>0
<1>3. b \in Int /\ \A j \in c .. b : s[j] \in E
  BY <1>0, <1>1, <1>2
<1>4. /\ SubSeq(s, c, b) \in Seq(E) /\ Len(SubSeq(s, c, b)) = IF c <= b THEN b - c + 1 ELSE 0
      /\ \A k \in 1 .. b - c + 1 : SubSeq(s, c, b)[k] = s[c + k - 1]
  BY <1>3, SubSeqProperties
<1>5. q = SubSeq(s, c, b)
  BY <1>0, <1>2
<1>6. /\ q \in Seq(E) /\ Len(q) = IF c <= b THEN b - c + 1 ELSE 0
      /\ \A k \in 1 .. b - c + 1 : q[k] = s[c + k - 1]
  BY <1>4, <1>5
<1>7. Len(q) = b - a
  BY <1>0, <1>2, <1>6
<1>8. \A k \in 1 .. b - a : k \in 1 .. b - c + 1 /\ c + k - 1 = a + k
  BY <1>0, <1>2
<1> QED
  BY <1>6, <1>7, <1>8 DEF CutPlaces

Join(E, s, r, q) == s \in Seq(E) /\ r \in Seq(E) /\ q = s \o r
JoinPlaces(E, s, r, q) ==
    /\ q \in Seq(E) /\ Len(q) = Len(s) + Len(r)
    /\ \A k \in 1 .. Len(s) : q[k] = s[k]
    /\ \A k \in 1 .. Len(r) : q[Len(s) + k] = r[k]

LEMMA JoinIs ==
    ASSUME NEW E, NEW s, NEW r, NEW q, Join(E, s, r, q)
    PROVE  JoinPlaces(E, s, r, q)
<1>0. s \in Seq(E) /\ r \in Seq(E) /\ q = s \o r
  BY DEF Join
<1>1. PICK m \in Nat, n \in Nat : m = Len(s) /\ n = Len(r)
  BY <1>0
<1>2. q \in Seq(E) /\ Len(q) = m + n
      /\ \A k \in 1 .. m + n : q[k] = IF k <= m THEN s[k] ELSE r[k - m]
  BY <1>0, <1>1, ConcatProperties
<1>3. \A k \in 1 .. m : k \in 1 .. m + n /\ k <= m
  BY <1>1
<1>4. \A k \in 1 .. n : m + k \in 1 .. m + n /\ ~(m + k <= m) /\ (m + k) - m = k
  BY <1>1
<1> QED
  BY <1>1, <1>2, <1>3, <1>4 DEF JoinPlaces

\* What a selection holds.
LEMMA PickedHolds ==
    ASSUME NEW E, NEW s \in Seq(E), NEW places \in SUBSET (1 .. Len(s))
    PROVE  /\ Picked(s, places) \in Seq(E)
           /\ Len(Picked(s, places)) <= Len(s)
           /\ Range(Picked(s, places)) = {s[i] : i \in places}
<1>1. PICK p \in Seq(E) : p = Picked(s, places)
  BY PickedIs
<1>2. Len(p) <= Len(s) /\ \E at : PickedBy(p, s, places, at)
  BY <1>1, PickedIs
<1>3. PICK at : PickedBy(p, s, places, at)
  BY <1>2
<1>4. PICK n \in Nat : n = Len(p) /\ DOMAIN p = 1 .. n
  OBVIOUS
<1>5. /\ at \in [1 .. n -> places] /\ Range(at) = places
      /\ \A k \in 1 .. n : p[k] = s[at[k]]
  BY <1>3, <1>4 DEF PickedBy
<1>6. Range(p) \subseteq {s[i] : i \in places}
  <2>1. ASSUME NEW k \in 1 .. n PROVE p[k] \in {s[i] : i \in places}
    BY <1>5
  <2> QED
    BY <1>4, <2>1 DEF Range
<1>7. {s[i] : i \in places} \subseteq Range(p)
  <2>1. ASSUME NEW i \in places PROVE s[i] \in Range(p)
    <3>1. PICK k \in 1 .. n : at[k] = i
      BY <1>5 DEF Range
    <3>2. p[k] = s[i] /\ k \in DOMAIN p
      BY <1>4, <1>5, <3>1
    <3> QED
      BY <3>2 DEF Range
  <2> QED
    BY <2>1
<1> QED
  BY <1>1, <1>2, <1>6, <1>7

(***************************************************************************)
(* Lists of lists, put together.                                           *)
(***************************************************************************)
IsFlat(P, n, f) == f = [i \in 1 .. n |-> IF i = 1 THEN P[i] ELSE f[i - 1] \o P[i]]

LEMMA FlattenIs ==
    ASSUME NEW P, Len(P) \in Nat, Len(P) # 0
    PROVE  FlattenSeq(P) = (CHOOSE f : IsFlat(P, Len(P), f))[Len(P)]
BY DEF FlattenSeq, IsFlat

LEMMA FlatUnique ==
    ASSUME NEW P, NEW n \in Nat, n # 0, NEW f, NEW g, IsFlat(P, n, f), IsFlat(P, n, g)
    PROVE  f[n] = g[n]
<1> DEFINE T == {k \in Nat : k \in 1 .. n /\ f[k] # g[k]}
<1>1. T = {}
  <2> SUFFICES ASSUME T # {} PROVE FALSE
    OBVIOUS
  <2>1. PICK k \in T : \A j \in T : k <= j
    <3>1. T \subseteq Nat
      OBVIOUS
    <3> HIDE DEF T
    <3> QED
      BY <3>1, LeastNatural
  <2>2. k \in 1 .. n /\ f[k] # g[k]
    OBVIOUS
  <2>3. /\ f[k] = IF k = 1 THEN P[k] ELSE f[k - 1] \o P[k]
        /\ g[k] = IF k = 1 THEN P[k] ELSE g[k - 1] \o P[k]
    BY <2>2 DEF IsFlat
  <2>4. k # 1
    BY <2>2, <2>3
  <2>5. k - 1 \in Nat /\ k - 1 \in 1 .. n /\ ~(k <= k - 1)
    BY <2>2, <2>4
  <2>6. f[k - 1] = g[k - 1]
    BY <2>1, <2>5
  <2> QED
    BY <2>2, <2>3, <2>4, <2>6
<1> QED
  BY <1>1

\* The recursive definition of FlattenSeq defines a function.
LEMMA FlatExists ==
    ASSUME NEW P, NEW n \in Nat, n # 0
    PROVE  \E f : IsFlat(P, n, f)
<1> DEFINE T == {m \in Nat : m # 0 /\ ~\E f : IsFlat(P, m, f)}
<1>1. T = {}
  <2> SUFFICES ASSUME T # {} PROVE FALSE
    OBVIOUS
  <2>1. PICK m \in T : \A k \in T : m <= k
    <3>1. T \subseteq Nat
      OBVIOUS
    <3> HIDE DEF T
    <3> QED
      BY <3>1, LeastNatural
  <2>2. m \in Nat /\ m # 0 /\ ~\E f : IsFlat(P, m, f)
    OBVIOUS
  <2>3. CASE m = 1
    <3>1. PICK f : f = [k \in 1 .. 1 |-> P[k]]
      OBVIOUS
    <3>2. f = [k \in 1 .. 1 |-> IF k = 1 THEN P[k] ELSE f[k - 1] \o P[k]]
      <4>1. \A k \in 1 .. 1 : k = 1
        OBVIOUS
      <4> QED
        BY <3>1, <4>1
    <3>3. IsFlat(P, 1, f)
      BY <3>2 DEF IsFlat
    <3> QED
      BY <2>2, <2>3, <3>3
  <2>4. CASE m # 1
    <3>1. m - 1 \in Nat /\ m - 1 # 0 /\ ~(m <= m - 1)
      BY <2>2, <2>4
    <3>2. PICK f : IsFlat(P, m - 1, f)
      BY <2>1, <3>1
    <3>3. \A k \in 1 .. m - 1 : f[k] = IF k = 1 THEN P[k] ELSE f[k - 1] \o P[k]
      BY <3>2 DEF IsFlat
    <3> PICK v : v = f[m - 1] \o P[m]
      OBVIOUS
    <3>4. PICK g : g = [k \in 1 .. m |-> IF k = m THEN v ELSE f[k]]
      OBVIOUS
    <3>5. ASSUME NEW k \in 1 .. m
          PROVE  g[k] = IF k = 1 THEN P[k] ELSE g[k - 1] \o P[k]
      <4>1. g[m] = f[m - 1] \o P[m] /\ \A l \in 1 .. m : l # m => g[l] = f[l]
        <5>1. m \in 1 .. m
          BY <2>2
        <5>2. g[m] = v /\ \A l \in 1 .. m : l # m => g[l] = f[l]
          BY <3>4, <5>1
        <5> QED
          BY <5>2
      <4>2. CASE k = m
        <5>1. k - 1 \in 1 .. m /\ k - 1 # m /\ k # 1
          BY <2>2, <2>4, <4>2
        <5>2. g[k - 1] = f[k - 1]
          BY <4>1, <5>1
        <5> QED
          BY <4>1, <4>2, <5>1, <5>2
      <4>3. CASE k # m
        <5>1. k \in 1 .. m - 1 /\ (k # 1 => k - 1 \in 1 .. m /\ k - 1 # m)
          BY <2>2, <4>3
        <5>2. g[k] = f[k] /\ (k # 1 => g[k - 1] = f[k - 1])
          BY <4>1, <4>3, <5>1
        <5>3. f[k] = IF k = 1 THEN P[k] ELSE f[k - 1] \o P[k]
          BY <3>3, <5>1
        <5> QED
          BY <5>2, <5>3
      <4> QED
        BY <4>2, <4>3
    <3>6. g = [k \in 1 .. m |-> IF k = 1 THEN P[k] ELSE g[k - 1] \o P[k]]
      <4>1. g = [k \in 1 .. m |-> g[k]]
        BY <3>4
      <4> QED
        BY <3>5, <4>1
    <3> QED
      BY <2>2, <3>6 DEF IsFlat
  <2> QED
    BY <2>3, <2>4
<1> QED
  BY <1>1

\* What two lists joined hold.
LEMMA JoinHolds ==
    ASSUME NEW E, NEW s, NEW r, NEW q, Join(E, s, r, q)
    PROVE  q \in Seq(E) /\ Range(q) = Range(s) \cup Range(r)
<1>1. PICK m \in Nat, n \in Nat : m = Len(s) /\ n = Len(r) /\ DOMAIN s = 1 .. m /\ DOMAIN r = 1 .. n
  BY DEF Join
<1>2. /\ q \in Seq(E) /\ Len(q) = m + n /\ DOMAIN q = 1 .. m + n
      /\ \A k \in 1 .. m : q[k] = s[k]
      /\ \A k \in 1 .. n : q[m + k] = r[k]
  <2>1. JoinPlaces(E, s, r, q)
    BY JoinIs
  <2> QED
    BY <1>1, <2>1 DEF JoinPlaces
<1>3. ASSUME NEW k \in 1 .. m + n PROVE q[k] \in Range(s) \cup Range(r)
  <2>1. CASE k \in 1 .. m
    BY <1>1, <1>2, <2>1 DEF Range
  <2>2. CASE k \notin 1 .. m
    <3>1. k - m \in 1 .. n /\ m + (k - m) = k
      BY <2>2
    <3>2. q[k] = r[k - m]
      BY <1>2, <3>1
    <3> QED
      BY <1>1, <3>1, <3>2 DEF Range
  <2> QED
    BY <2>1, <2>2
<1>4. \A k \in 1 .. m : k \in 1 .. m + n
  OBVIOUS
<1>5. \A k \in 1 .. n : m + k \in 1 .. m + n
  OBVIOUS
<1>6. \A k \in 1 .. m : s[k] \in Range(q)
  BY <1>2, <1>4 DEF Range
<1>7. \A k \in 1 .. n : r[k] \in Range(q)
  BY <1>2, <1>5 DEF Range
<1> QED
  BY <1>1, <1>2, <1>3, <1>6, <1>7 DEF Range

LEMMA FlattenHolds ==
    ASSUME NEW E, NEW P \in Seq(Seq(E))
    PROVE  /\ FlattenSeq(P) \in Seq(E)
           /\ Range(FlattenSeq(P)) = UNION {Range(P[i]) : i \in 1 .. Len(P)}
<1>1. PICK n \in Nat : n = Len(P)
  OBVIOUS
<1>2. CASE n = 0
  <2>1. P = <<>> /\ FlattenSeq(P) = P
    <3>1. P = <<>> /\ Len(P) = 0
      BY <1>1, <1>2, EmptySeq
    <3>2. FlattenSeq(P) = P
      <4>1. FlattenSeq(P) = IF Len(P) = 0 THEN P ELSE (CHOOSE f : IsFlat(P, Len(P), f))[Len(P)]
        BY DEF FlattenSeq, IsFlat
      <4> QED
        BY <3>1, <4>1
    <3> QED
      BY <3>1, <3>2
  <2>2. Range(<<>>) = {}
    BY EmptyRange
  <2>3. UNION {Range(P[i]) : i \in 1 .. Len(P)} = {}
    BY <1>1, <1>2
  <2>4. <<>> \in Seq(E)
    OBVIOUS
  <2> QED
    BY <2>1, <2>2, <2>3, <2>4
<1>3. CASE n # 0
  <2>1. PICK f : f = CHOOSE g : IsFlat(P, n, g)
    OBVIOUS
  <2>2. IsFlat(P, n, f)
    BY <1>3, <2>1, FlatExists
  <2>3. FlattenSeq(P) = f[n]
    BY <1>1, <1>3, <2>1, FlattenIs
  <2>4. \A k \in 1 .. n : f[k] = IF k = 1 THEN P[k] ELSE f[k - 1] \o P[k]
    BY <2>2 DEF IsFlat
  <2>5. \A k \in 1 .. n : P[k] \in Seq(E)
    BY <1>1
  <2> DEFINE Upto(k) == UNION {Range(P[i]) : i \in 1 .. k}
             T == {k \in Nat : k \in 1 .. n /\ ~(f[k] \in Seq(E) /\ Range(f[k]) = Upto(k))}
  <2>6. T = {}
    <3> SUFFICES ASSUME T # {} PROVE FALSE
      OBVIOUS
    <3>1. PICK k \in T : \A j \in T : k <= j
      <4>1. T \subseteq Nat
        OBVIOUS
      <4> HIDE DEF T
      <4> QED
        BY <4>1, LeastNatural
    <3>2. k \in Nat /\ k \in 1 .. n /\ ~(f[k] \in Seq(E) /\ Range(f[k]) = Upto(k))
      OBVIOUS
    <3>3. CASE k = 1
      <4>1. f[k] = P[k] /\ P[k] \in Seq(E)
        BY <2>4, <2>5, <3>2, <3>3
      <4>2. Upto(k) = Range(P[k])
        BY <3>3
      <4> QED
        BY <3>2, <4>1, <4>2
    <3>4. CASE k # 1
      <4>1. k - 1 \in Nat /\ k - 1 \in 1 .. n /\ ~(k <= k - 1)
        BY <3>2, <3>4
      <4>2. f[k - 1] \in Seq(E) /\ Range(f[k - 1]) = Upto(k - 1)
        BY <3>1, <4>1
      <4>3. f[k] = f[k - 1] \o P[k] /\ P[k] \in Seq(E)
        BY <2>4, <2>5, <3>2, <3>4
      <4>4. Join(E, f[k - 1], P[k], f[k])
        BY <4>2, <4>3 DEF Join
      <4>5. f[k] \in Seq(E) /\ Range(f[k]) = Range(f[k - 1]) \cup Range(P[k])
        BY <4>4, JoinHolds
      <4>6. Upto(k) = Upto(k - 1) \cup Range(P[k])
        <5>1. \A i : i \in 1 .. k <=> i \in 1 .. k - 1 \/ i = k
          BY <3>2, <3>4
        <5> QED
          BY <5>1
      <4> QED
        BY <3>2, <4>2, <4>5, <4>6
    <3> QED
      BY <3>3, <3>4
  <2>7. n \in 1 .. n
    BY <1>3
  <2>8. f[n] \in Seq(E) /\ Range(f[n]) = Upto(n)
    BY <2>6, <2>7
  <2> QED
    BY <1>1, <2>3, <2>8
<1> QED
  BY <1>2, <1>3
==============================================================================
