----------------------------- MODULE RoutingProofs -----------------------------
(***************************************************************************)
(* Proofs about RoutingTable, for any length of the ids, any capacities    *)
(* and any endpoints: the buckets partition the ids, every contact is in   *)
(* the bucket of its id and there once, no capacity is exceeded, and a     *)
(* live node leaves only at its second unanswered query.                   *)
(***************************************************************************)
EXTENDS RoutingTable, SelectionProofs

(***************************************************************************)
(* The inductive invariant.                                                *)
(***************************************************************************)
NodeRecord == [addr : Addrs, unanswered : 0 .. BadAfterFailures - 1]
NodeMap == UNION {[S -> NodeRecord] : S \in SUBSET Ids}
BucketType == [prefix : Ids, len : 0 .. Bits, nodes : NodeMap, replacements : Seq(Contact)]

\* The live nodes of a bucket.
NodesInv(b) ==
    /\ IsFiniteSet(DOMAIN b.nodes)
    /\ Cardinality(DOMAIN b.nodes) <= K
    /\ \A x \in DOMAIN b.nodes : Covers(b, x) /\ x # OurId

\* Its candidates.
CandidatesInv(b) ==
    /\ Len(b.replacements) <= K
    /\ \A j \in 1 .. Len(b.replacements) :
        /\ Covers(b, b.replacements[j].id)
        /\ b.replacements[j].id # OurId
        /\ b.replacements[j].id \notin DOMAIN b.nodes
    /\ \A j, l \in 1 .. Len(b.replacements) :
        b.replacements[j].id = b.replacements[l].id => j = l

\* The bits after those that it covers are not set.
PrefixInv(b) == \A bit \in b.len + 1 .. Bits : b.prefix[bit] = 0

BucketInv(b) == b \in BucketType /\ PrefixInv(b) /\ NodesInv(b) /\ CandidatesInv(b)

\* Every id has one bucket.
Homes(t) ==
    /\ \A id \in Ids : \E i \in 1 .. Len(t) : Covers(t[i], id)
    /\ \A id \in Ids : \A i, k \in 1 .. Len(t) : Covers(t[i], id) /\ Covers(t[k], id) => i = k

\* As only the bucket of our own id is split, its length tells how often.
Path(t) == \A i \in 1 .. Len(t) : Covers(t[i], OurId) => Len(t) = t[i].len + 1

Shape(t) ==
    /\ t \in Seq(BucketType)
    /\ \A i \in 1 .. Len(t) : BucketInv(t[i])
    /\ Homes(t)
    /\ Path(t)

TableInv(t) == Shape(t) /\ candidate_count(t) <= MaxCandidates

RoutingInv == TableInv(buckets)

(***************************************************************************)
(* Candidates are counted by their ids.                                    *)
(***************************************************************************)
CandidateIds(t) ==
    UNION {{t[i].replacements[j].id : j \in 1 .. Len(t[i].replacements)} : i \in 1 .. Len(t)}
Slots(t) == UNION {{i} \X DOMAIN t[i].replacements : i \in DOMAIN t}

LEMMA ShapeFacts ==
    ASSUME NEW t, Shape(t)
    PROVE  /\ t \in Seq(BucketType) /\ Len(t) \in Nat /\ DOMAIN t = 1 .. Len(t)
           /\ \A i \in 1 .. Len(t) :
                /\ t[i] \in BucketType /\ BucketInv(t[i])
                /\ t[i].prefix \in Ids /\ t[i].len \in 0 .. Bits /\ t[i].nodes \in NodeMap
                /\ t[i].replacements \in Seq(Contact) /\ Len(t[i].replacements) \in Nat
                /\ DOMAIN t[i].replacements = 1 .. Len(t[i].replacements)
<1>1. t \in Seq(BucketType) /\ \A i \in 1 .. Len(t) : BucketInv(t[i])
  BY DEF Shape
<1>2. Len(t) \in Nat /\ DOMAIN t = 1 .. Len(t)
  BY <1>1
<1>3. ASSUME NEW i \in 1 .. Len(t)
      PROVE  /\ t[i] \in BucketType
             /\ t[i].prefix \in Ids /\ t[i].len \in 0 .. Bits /\ t[i].nodes \in NodeMap
             /\ t[i].replacements \in Seq(Contact) /\ Len(t[i].replacements) \in Nat
             /\ DOMAIN t[i].replacements = 1 .. Len(t[i].replacements)
  <2>1. t[i] \in BucketType
    BY <1>1 DEF BucketInv
  <2>2. t[i].prefix \in Ids /\ t[i].len \in 0 .. Bits /\ t[i].nodes \in NodeMap
        /\ t[i].replacements \in Seq(Contact)
    BY <2>1 DEF BucketType
  <2> QED
    BY <2>1, <2>2
<1> QED
  BY <1>1, <1>2, <1>3

\* Every slot holds an id of its own.
LEMMA SlotsAreIds ==
    ASSUME NEW t, Shape(t)
    PROVE  /\ IsFiniteSet(CandidateIds(t))
           /\ candidate_count(t) = Cardinality(CandidateIds(t))
           /\ candidate_count(t) \in Nat
<1> DEFINE S == Slots(t)
           f == [p \in S |-> t[p[1]].replacements[p[2]].id]
<1>1. t \in Seq(BucketType) /\ Len(t) \in Nat /\ DOMAIN t = 1 .. Len(t)
  BY ShapeFacts
<1>2. \A i \in 1 .. Len(t) : DOMAIN t[i].replacements = 1 .. Len(t[i].replacements)
                             /\ Len(t[i].replacements) \in Nat
  BY ShapeFacts
<1>3. S = UNION {{i} \X (1 .. Len(t[i].replacements)) : i \in 1 .. Len(t)}
  <2>1. ASSUME NEW p \in S PROVE p \in UNION {{i} \X (1 .. Len(t[i].replacements)) : i \in 1 .. Len(t)}
    <3>1. PICK i \in 1 .. Len(t) : p \in {i} \X DOMAIN t[i].replacements
      BY <1>1 DEF Slots
    <3> QED
      BY <1>2, <3>1
  <2>2. ASSUME NEW p \in UNION {{i} \X (1 .. Len(t[i].replacements)) : i \in 1 .. Len(t)} PROVE p \in S
    <3>1. PICK i \in 1 .. Len(t) : p \in {i} \X (1 .. Len(t[i].replacements))
      OBVIOUS
    <3> QED
      BY <1>1, <1>2, <3>1 DEF Slots
  <2> QED
    BY <2>1, <2>2
<1>4. IsFiniteSet(S)
  <2> DEFINE C == {{i} \X (1 .. Len(t[i].replacements)) : i \in 1 .. Len(t)}
  <2>1. IsFiniteSet(1 .. Len(t))
    BY <1>1, FS_Interval
  <2> DEFINE g == [i \in 1 .. Len(t) |-> {i} \X (1 .. Len(t[i].replacements))]
  <2>2. g \in Surjection(1 .. Len(t), C)
    BY DEF Surjection
  <2>3. IsFiniteSet(C)
    <3> HIDE DEF g, C
    <3> QED
      BY <2>1, <2>2, FS_Surjection
  <2>4. ASSUME NEW A \in C PROVE IsFiniteSet(A)
    <3>1. PICK i \in 1 .. Len(t) : A = {i} \X (1 .. Len(t[i].replacements))
      OBVIOUS
    <3>2. PICK n \in Nat : n = Len(t[i].replacements)
      BY <1>2
    <3>3. IsFiniteSet(1 .. n)
      BY FS_Interval
    <3>4. IsFiniteSet({i})
      BY FS_Singleton
    <3> QED
      BY <3>1, <3>2, <3>3, <3>4, FS_Product
  <2> HIDE DEF C
  <2>5. IsFiniteSet(UNION C)
    BY <2>3, <2>4, FS_UNION
  <2> QED
    BY <1>3, <2>5 DEF C
<1>5. \A p \in S : /\ p[1] \in 1 .. Len(t) /\ p[2] \in 1 .. Len(t[p[1]].replacements)
                   /\ p = <<p[1], p[2]>>
  <2>1. ASSUME NEW p \in S
        PROVE /\ p[1] \in 1 .. Len(t) /\ p[2] \in 1 .. Len(t[p[1]].replacements)
              /\ p = <<p[1], p[2]>>
    <3>1. PICK i \in 1 .. Len(t) : p \in {i} \X (1 .. Len(t[i].replacements))
      BY <1>3
    <3> QED
      BY <3>1
  <2> QED
    BY <2>1
<1>6. f \in Bijection(S, CandidateIds(t))
  <2>1. ASSUME NEW p \in S PROVE f[p] \in CandidateIds(t)
    <3>1. p[1] \in 1 .. Len(t) /\ p[2] \in 1 .. Len(t[p[1]].replacements)
      BY <1>5
    <3> QED
      BY <3>1 DEF CandidateIds
  <2>2. ASSUME NEW x \in CandidateIds(t) PROVE \E p \in S : f[p] = x
    <3>1. PICK i \in 1 .. Len(t) : x \in {t[i].replacements[j].id : j \in 1 .. Len(t[i].replacements)}
      BY DEF CandidateIds
    <3>2. PICK j \in 1 .. Len(t[i].replacements) : x = t[i].replacements[j].id
      BY <3>1
    <3>3. <<i, j>> \in S
      BY <1>3
    <3> QED
      BY <3>2, <3>3
  <2>3. ASSUME NEW p \in S, NEW q \in S, f[p] = f[q] PROVE p = q
    <3>1. /\ p[1] \in 1 .. Len(t) /\ p[2] \in 1 .. Len(t[p[1]].replacements)
          /\ q[1] \in 1 .. Len(t) /\ q[2] \in 1 .. Len(t[q[1]].replacements)
      BY <1>5
    <3>2. t[p[1]].replacements[p[2]].id = t[q[1]].replacements[q[2]].id
      BY <2>3
    <3>3. PICK id : id = t[p[1]].replacements[p[2]].id
      OBVIOUS
    <3>4. BucketInv(t[p[1]]) /\ BucketInv(t[q[1]])
      BY <3>1, ShapeFacts
    <3>5. Covers(t[p[1]], id) /\ Covers(t[q[1]], id)
      BY <3>1, <3>2, <3>3, <3>4 DEF BucketInv, CandidatesInv
    <3>6. id \in Ids
      <4>1. t[p[1]].replacements \in Seq(Contact)
        BY <3>1, ShapeFacts
      <4>2. t[p[1]].replacements[p[2]] \in Contact
        BY <3>1, <4>1
      <4> QED
        BY <3>3, <4>2 DEF Contact
    <3>7. p[1] = q[1]
      BY <3>1, <3>5, <3>6 DEF Shape, Homes
    <3>8. p[2] = q[2]
      BY <3>1, <3>2, <3>4, <3>7 DEF BucketInv, CandidatesInv
    <3> QED
      BY <1>5, <3>7, <3>8
  <2>4. f \in [S -> CandidateIds(t)]
    BY <2>1
  <2> QED
    BY <2>2, <2>3, <2>4 DEF Bijection, Injection, Surjection, IsInjective
<1> HIDE DEF f, S
<1>7. IsFiniteSet(CandidateIds(t)) /\ Cardinality(CandidateIds(t)) = Cardinality(S)
  BY <1>4, <1>6, FS_Bijection DEF ExistsBijection
<1>8. candidate_count(t) = Cardinality(S)
  BY DEF candidate_count, Slots, S
<1> QED
  BY <1>7, <1>8, FS_CardinalityType

\* Fewer ids, fewer candidates.
LEMMA FewerCandidates ==
    ASSUME NEW t, NEW u, Shape(t), Shape(u), CandidateIds(u) \subseteq CandidateIds(t)
    PROVE  candidate_count(u) <= candidate_count(t)
BY SlotsAreIds, FS_Subset

(***************************************************************************)
(* A bucket that changes its contents.                                     *)
(***************************************************************************)
\* In u the bucket i is b, which covers what it did in t.
Becomes(t, u, i, b) ==
    /\ Shape(t)
    /\ i \in 1 .. Len(t)
    /\ BucketInv(b)
    /\ b.prefix = t[i].prefix
    /\ b.len = t[i].len
    /\ u = [t EXCEPT ![i] = b]

LEMMA BucketChanges ==
    ASSUME NEW t, NEW u, NEW i, NEW b, Becomes(t, u, i, b)
    PROVE  /\ Shape(u)
           /\ Len(u) = Len(t)
           /\ u[i] = b
           /\ \A k \in 1 .. Len(t) : k # i => u[k] = t[k]
<1> USE DEF Becomes
<1>1. t \in Seq(BucketType) /\ Len(t) \in Nat /\ DOMAIN t = 1 .. Len(t)
  BY ShapeFacts
<1>2. b \in BucketType
  BY DEF BucketInv
<1>4. u \in Seq(BucketType) /\ Len(u) = Len(t) /\ u[i] = b
      /\ \A k \in 1 .. Len(t) : k # i => u[k] = t[k]
  BY <1>1, <1>2
<1>5. \A k \in 1 .. Len(t) : BucketInv(u[k])
  BY <1>4, ShapeFacts
<1>6. \A k \in 1 .. Len(t) : u[k].prefix = t[k].prefix /\ u[k].len = t[k].len
  BY <1>4
<1>7. \A k \in 1 .. Len(t) : \A id : Covers(u[k], id) <=> Covers(t[k], id)
  BY <1>6 DEF Covers
<1>8. Homes(u)
  <2>1. Homes(t)
    BY DEF Shape
  <2> QED
    BY <1>4, <1>7, <2>1 DEF Homes
<1>9. Path(u)
  <2>1. Path(t)
    BY DEF Shape
  <2> QED
    BY <1>4, <1>6, <1>7, <2>1 DEF Path
<1> QED
  BY <1>4, <1>5, <1>8, <1>9 DEF Shape

\* The bucket of an id.
LEMMA HomeIs ==
    ASSUME NEW t, Shape(t), NEW id \in Ids
    PROVE  /\ bucket_index(t, id) \in 1 .. Len(t)
           /\ Covers(t[bucket_index(t, id)], id)
           /\ \A i \in 1 .. Len(t) : Covers(t[i], id) => i = bucket_index(t, id)
<1>1. DOMAIN t = 1 .. Len(t)
  BY ShapeFacts
<1>2. \E i \in DOMAIN t : Covers(t[i], id)
  BY <1>1 DEF Shape, Homes
<1>3. bucket_index(t, id) \in DOMAIN t /\ Covers(t[bucket_index(t, id)], id)
  BY <1>2 DEF bucket_index
<1> QED
  BY <1>1, <1>3 DEF Shape, Homes

\* A live node is in the bucket of its id, and nowhere else.
LEMMA LiveAtHome ==
    ASSUME NEW t, Shape(t), NEW id \in Ids
    PROVE  id \in LiveIds(t) <=> id \in DOMAIN t[bucket_index(t, id)].nodes
<1>1. DOMAIN t = 1 .. Len(t) /\ bucket_index(t, id) \in 1 .. Len(t)
  BY ShapeFacts, HomeIs
<1>2. ASSUME NEW i \in 1 .. Len(t), id \in DOMAIN t[i].nodes PROVE i = bucket_index(t, id)
  <2>1. BucketInv(t[i])
    BY ShapeFacts
  <2>2. Covers(t[i], id)
    BY <1>2, <2>1 DEF BucketInv, NodesInv
  <2> QED
    BY <2>2, HomeIs
<1> QED
  BY <1>1, <1>2 DEF LiveIds

\* The fields of a bucket that changes.
LEMMA WithNodes ==
    ASSUME NEW b \in BucketType, NEW n \in NodeMap
    PROVE  /\ [b EXCEPT !.nodes = n] \in BucketType
           /\ [b EXCEPT !.nodes = n].nodes = n
           /\ [b EXCEPT !.nodes = n].prefix = b.prefix
           /\ [b EXCEPT !.nodes = n].len = b.len
           /\ [b EXCEPT !.nodes = n].replacements = b.replacements
BY DEF BucketType

LEMMA WithReplacements ==
    ASSUME NEW b \in BucketType, NEW r \in Seq(Contact)
    PROVE  /\ [b EXCEPT !.replacements = r] \in BucketType
           /\ [b EXCEPT !.replacements = r].replacements = r
           /\ [b EXCEPT !.replacements = r].prefix = b.prefix
           /\ [b EXCEPT !.replacements = r].len = b.len
           /\ [b EXCEPT !.replacements = r].nodes = b.nodes
BY DEF BucketType

\* A function on a set of ids is a map of nodes.
LEMMA NodeMapIs ==
    ASSUME NEW f
    PROVE  /\ f \in NodeMap => /\ f \in [DOMAIN f -> NodeRecord]
                               /\ DOMAIN f \subseteq Ids
                               /\ \A x \in DOMAIN f : f[x] \in NodeRecord
           /\ \A S \in SUBSET Ids : f \in [S -> NodeRecord] => f \in NodeMap
<1>1. ASSUME f \in NodeMap
      PROVE  f \in [DOMAIN f -> NodeRecord] /\ DOMAIN f \subseteq Ids
             /\ \A x \in DOMAIN f : f[x] \in NodeRecord
  <2>1. PICK S \in SUBSET Ids : f \in [S -> NodeRecord]
    BY <1>1 DEF NodeMap
  <2> QED
    BY <2>1
<1> QED
  BY <1>1 DEF NodeMap

\* Live nodes that a bucket may have in place of its own.
NodesFit(b, n) ==
    /\ n \in NodeMap
    /\ IsFiniteSet(DOMAIN n)
    /\ Cardinality(DOMAIN n) <= K
    /\ \A x \in DOMAIN n : Covers(b, x) /\ x # OurId
    /\ \A j \in 1 .. Len(b.replacements) : b.replacements[j].id \notin DOMAIN n

LEMMA CandidateAt ==
    ASSUME NEW t, NEW x
    PROVE  x \in CandidateIds(t) <=>
                \E i \in 1 .. Len(t) : \E j \in 1 .. Len(t[i].replacements) :
                    x = t[i].replacements[j].id
BY DEF CandidateIds

LEMMA SameCandidates ==
    ASSUME NEW t, NEW u, Len(u) = Len(t),
           \A k \in 1 .. Len(t) : u[k].replacements = t[k].replacements
    PROVE  CandidateIds(u) = CandidateIds(t)
<1>1. \A x : x \in CandidateIds(u) <=> x \in CandidateIds(t)
  BY CandidateAt
<1> QED
  BY <1>1

NodesBecome(t, u, i, n) ==
    Shape(t) /\ i \in 1 .. Len(t) /\ NodesFit(t[i], n) /\ u = [t EXCEPT ![i].nodes = n]

LEMMA NodesChange ==
    ASSUME NEW t, NEW u, NEW i, NEW n, NodesBecome(t, u, i, n)
    PROVE  /\ Shape(u)
           /\ Len(u) = Len(t)
           /\ u[i].nodes = n
           /\ \A k \in 1 .. Len(t) : k # i => u[k] = t[k]
           /\ CandidateIds(u) = CandidateIds(t)
<1> USE DEF NodesBecome
<1>1. t \in Seq(BucketType) /\ Len(t) \in Nat /\ DOMAIN t = 1 .. Len(t)
      /\ t[i] \in BucketType /\ BucketInv(t[i])
  BY ShapeFacts
<1>2. PICK b \in BucketType : b = [t[i] EXCEPT !.nodes = n]
  BY <1>1, WithNodes DEF NodesFit
<1>3. b.nodes = n /\ b.prefix = t[i].prefix /\ b.len = t[i].len
      /\ b.replacements = t[i].replacements
  BY <1>1, <1>2, WithNodes DEF NodesFit
<1>4. BucketInv(b)
  <2>1. \A x : Covers(b, x) <=> Covers(t[i], x)
    BY <1>3 DEF Covers
  <2>2. NodesInv(b)
    BY <1>3, <2>1 DEF NodesInv, NodesFit
  <2>3. CandidatesInv(b)
    BY <1>1, <1>3, <2>1 DEF CandidatesInv, NodesFit, BucketInv
  <2>4. PrefixInv(b)
    BY <1>1, <1>3 DEF PrefixInv, BucketInv
  <2> QED
    BY <2>2, <2>3, <2>4 DEF BucketInv
<1>6. u = [t EXCEPT ![i] = b]
  BY <1>2
<1>7. Shape(u) /\ Len(u) = Len(t) /\ u[i] = b
      /\ \A k \in 1 .. Len(t) : k # i => u[k] = t[k]
  <2>1. Becomes(t, u, i, b)
    BY <1>3, <1>4, <1>6 DEF Becomes
  <2> QED
    BY <2>1, BucketChanges
<1>8. \A k \in 1 .. Len(t) : u[k].replacements = t[k].replacements
  BY <1>3, <1>7
<1>9. CandidateIds(u) = CandidateIds(t)
  BY <1>7, <1>8, SameCandidates
<1> QED
  BY <1>3, <1>7, <1>9

\* A part of the nodes of a bucket fits, and so do the same nodes with other
\* records.
LEMMA FewerNodesFit ==
    ASSUME NEW b, BucketInv(b), NEW n \in NodeMap, DOMAIN n \subseteq DOMAIN b.nodes
    PROVE  NodesFit(b, n)
<1>1. IsFiniteSet(DOMAIN b.nodes) /\ Cardinality(DOMAIN b.nodes) <= K
      /\ \A x \in DOMAIN b.nodes : Covers(b, x) /\ x # OurId
  BY DEF BucketInv, NodesInv
<1>2. IsFiniteSet(DOMAIN n) /\ Cardinality(DOMAIN n) <= Cardinality(DOMAIN b.nodes)
  BY <1>1, FS_Subset
<1>3. Cardinality(DOMAIN n) \in Nat /\ Cardinality(DOMAIN b.nodes) \in Nat
  BY <1>1, <1>2, FS_CardinalityType
<1>4. \A j \in 1 .. Len(b.replacements) : b.replacements[j].id \notin DOMAIN n
  BY DEF BucketInv, CandidatesInv
<1>5. Cardinality(DOMAIN n) <= K
  BY <1>1, <1>2, <1>3, RoutingAssumption
<1> QED
  BY <1>1, <1>2, <1>4, <1>5 DEF NodesFit

\* Every live node of t is live in u, unless one more failure makes it bad.
Keeps(t, u) ==
    \A i \in DOMAIN t : \A x \in DOMAIN t[i].nodes :
        x \notin LiveIds(u) => t[i].nodes[x].unanswered = BadAfterFailures - 1

\* A step that leaves the candidates to be at most what they were.
Preserves(t, u) == Shape(u) /\ CandidateIds(u) \subseteq CandidateIds(t) /\ Keeps(t, u)

LEMMA PreservedCount ==
    ASSUME NEW t, NEW u, TableInv(t), Preserves(t, u)
    PROVE  TableInv(u)
<1>1. Shape(t) /\ Shape(u) /\ candidate_count(t) <= MaxCandidates
  BY DEF TableInv, Preserves
<1>2. candidate_count(u) <= candidate_count(t)
  BY <1>1, FewerCandidates DEF Preserves
<1>3. candidate_count(u) \in Nat /\ candidate_count(t) \in Nat
  BY <1>1, SlotsAreIds
<1> QED
  BY <1>1, <1>2, <1>3, RoutingAssumption DEF TableInv

LEMMA KeepsAll ==
    ASSUME NEW t, NEW u, LiveIds(t) \subseteq LiveIds(u)
    PROVE  Keeps(t, u)
BY DEF Keeps, LiveIds

(***************************************************************************)
(* record_failure.                                                         *)
(***************************************************************************)
LEMMA FailurePreserves ==
    ASSUME NEW t, Shape(t), NEW id \in Ids
    PROVE  Preserves(t, record_failure(t, id))
<1>1. PICK i \in 1 .. Len(t) : i = bucket_index(t, id)
  BY HomeIs
<1>2. t \in Seq(BucketType) /\ DOMAIN t = 1 .. Len(t) /\ BucketInv(t[i]) /\ t[i].nodes \in NodeMap
      /\ t[i] \in BucketType
  BY ShapeFacts
<1>3. PICK f \in NodeMap : f = t[i].nodes
  BY <1>2
<1>4. f \in [DOMAIN f -> NodeRecord] /\ DOMAIN f \subseteq Ids
      /\ \A x \in DOMAIN f : f[x] \in NodeRecord
  BY NodeMapIs
<1>5. CASE id \notin DOMAIN f
  <2>1. record_failure(t, id) = t
    BY <1>1, <1>3, <1>5 DEF record_failure
  <2>2. Keeps(t, t)
    BY KeepsAll
  <2> QED
    BY <2>1, <2>2 DEF Preserves
<1>6. CASE id \in DOMAIN f /\ f[id].unanswered + 1 >= BadAfterFailures
  <2>1. PICK n : n = [x \in DOMAIN f \ {id} |-> f[x]]
    OBVIOUS
  <2>2. DOMAIN n = DOMAIN f \ {id}
    BY <2>1
  <2>3. n \in NodeMap
    <3>1. n \in [DOMAIN f \ {id} -> NodeRecord] /\ (DOMAIN f \ {id}) \in SUBSET Ids
      BY <1>4, <2>1
    <3> QED
      BY <3>1, NodeMapIs
  <2>4. record_failure(t, id) = [t EXCEPT ![i].nodes = n]
    BY <1>1, <1>3, <1>6, <2>1 DEF record_failure, Restricted
  <2>5. NodesFit(t[i], n)
    BY <1>2, <1>3, <2>2, <2>3, FewerNodesFit
  <2>6. PICK u : u = [t EXCEPT ![i].nodes = n]
    OBVIOUS
  <2>7. Shape(u) /\ Len(u) = Len(t) /\ u[i].nodes = n /\ CandidateIds(u) = CandidateIds(t)
        /\ \A k \in 1 .. Len(t) : k # i => u[k] = t[k]
    <3>1. NodesBecome(t, u, i, n)
      BY <2>5, <2>6 DEF NodesBecome
    <3> QED
      BY <3>1, NodesChange
  <2>8. Keeps(t, u)
    <3>1. DOMAIN u = 1 .. Len(t)
      BY <2>7, ShapeFacts
    <3>2. ASSUME NEW k \in DOMAIN t, NEW x \in DOMAIN t[k].nodes, x \notin LiveIds(u)
          PROVE  t[k].nodes[x].unanswered = BadAfterFailures - 1
      <4>1. k = i
        BY <1>2, <2>7, <3>1, <3>2 DEF LiveIds
      <4>2. x = id
        BY <1>3, <2>2, <2>7, <3>1, <3>2, <4>1 DEF LiveIds
      <4>3. f[id].unanswered \in 0 .. BadAfterFailures - 1
        BY <1>4, <1>6 DEF NodeRecord
      <4> QED
        BY <1>3, <1>6, <4>1, <4>2, <4>3 DEF BadAfterFailures
    <3> QED
      BY <3>2 DEF Keeps
  <2> QED
    BY <2>4, <2>6, <2>7, <2>8 DEF Preserves
<1>7. CASE id \in DOMAIN f /\ ~(f[id].unanswered + 1 >= BadAfterFailures)
  <2>1. PICK r \in NodeRecord : r = [f[id] EXCEPT !.unanswered = @ + 1]
    <3>1. PICK old \in NodeRecord : old = f[id]
      BY <1>4, <1>7
    <3>2. old.unanswered \in 0 .. BadAfterFailures - 1
      BY DEF NodeRecord
    <3>3. old.unanswered + 1 \in 0 .. BadAfterFailures - 1
      BY <1>7, <3>1, <3>2 DEF BadAfterFailures
    <3>4. [old EXCEPT !.unanswered = old.unanswered + 1] \in NodeRecord
      BY <3>3 DEF NodeRecord
    <3> QED
      BY <3>1, <3>4
  <2>2. PICK n : n = [f EXCEPT ![id] = r]
    OBVIOUS
  <2>3. n \in [DOMAIN f -> NodeRecord] /\ DOMAIN n = DOMAIN f
    BY <1>4, <2>2
  <2>4. n \in NodeMap
    BY <1>4, <2>3, NodeMapIs
  <2>5. record_failure(t, id) = [t EXCEPT ![i].nodes = n]
    BY <1>1, <1>2, <1>3, <1>7, <2>1, <2>2 DEF record_failure
  <2>6. NodesFit(t[i], n)
    BY <1>2, <1>3, <2>3, <2>4, FewerNodesFit
  <2>7. PICK u : u = [t EXCEPT ![i].nodes = n]
    OBVIOUS
  <2>8. Shape(u) /\ Len(u) = Len(t) /\ u[i].nodes = n /\ CandidateIds(u) = CandidateIds(t)
        /\ \A k \in 1 .. Len(t) : k # i => u[k] = t[k]
    <3>1. NodesBecome(t, u, i, n)
      BY <2>6, <2>7 DEF NodesBecome
    <3> QED
      BY <3>1, NodesChange
  <2>9. LiveIds(t) \subseteq LiveIds(u)
    <3>1. DOMAIN u = 1 .. Len(t)
      BY <2>8, ShapeFacts
    <3>2. \A k \in 1 .. Len(t) : DOMAIN u[k].nodes = DOMAIN t[k].nodes
      BY <1>3, <2>3, <2>8
    <3> QED
      BY <1>2, <3>1, <3>2 DEF LiveIds
  <2> QED
    BY <2>5, <2>7, <2>8, <2>9, KeepsAll DEF Preserves
<1> QED
  BY <1>5, <1>6, <1>7

(***************************************************************************)
(* add_candidate.                                                          *)
(***************************************************************************)
\* Candidates that a bucket may have in place of its own.
ReplacementsFit(b, r) ==
    /\ r \in Seq(Contact)
    /\ Len(r) <= K
    /\ \A j \in 1 .. Len(r) :
        Covers(b, r[j].id) /\ r[j].id # OurId /\ r[j].id \notin DOMAIN b.nodes
    /\ \A j, l \in 1 .. Len(r) : r[j].id = r[l].id => j = l

ReplacementsBecome(t, u, i, r) ==
    Shape(t) /\ i \in 1 .. Len(t) /\ ReplacementsFit(t[i], r)
    /\ u = [t EXCEPT ![i].replacements = r]

LEMMA ReplacementsChange ==
    ASSUME NEW t, NEW u, NEW i, NEW r, ReplacementsBecome(t, u, i, r)
    PROVE  /\ Shape(u)
           /\ Len(u) = Len(t)
           /\ u[i].replacements = r
           /\ \A k \in 1 .. Len(t) : k # i => u[k] = t[k]
           /\ \A k \in 1 .. Len(t) : u[k].nodes = t[k].nodes /\ u[k].prefix = t[k].prefix
                                     /\ u[k].len = t[k].len
           /\ LiveIds(u) = LiveIds(t)
<1> USE DEF ReplacementsBecome
<1>1. t \in Seq(BucketType) /\ Len(t) \in Nat /\ DOMAIN t = 1 .. Len(t)
      /\ t[i] \in BucketType /\ BucketInv(t[i])
  BY ShapeFacts
<1>2. PICK b \in BucketType : b = [t[i] EXCEPT !.replacements = r]
  BY <1>1, WithReplacements DEF ReplacementsFit
<1>3. b.replacements = r /\ b.prefix = t[i].prefix /\ b.len = t[i].len /\ b.nodes = t[i].nodes
  BY <1>1, <1>2, WithReplacements DEF ReplacementsFit
<1>4. BucketInv(b)
  <2>1. \A x : Covers(b, x) <=> Covers(t[i], x)
    BY <1>3 DEF Covers
  <2>2. NodesInv(b)
    BY <1>1, <1>3, <2>1 DEF NodesInv, BucketInv
  <2>3. CandidatesInv(b)
    BY <1>3, <2>1 DEF CandidatesInv, ReplacementsFit
  <2>4. PrefixInv(b)
    BY <1>1, <1>3 DEF PrefixInv, BucketInv
  <2> QED
    BY <2>2, <2>3, <2>4 DEF BucketInv
<1>5. u = [t EXCEPT ![i] = b]
  BY <1>2
<1>6. Shape(u) /\ Len(u) = Len(t) /\ u[i] = b
      /\ \A k \in 1 .. Len(t) : k # i => u[k] = t[k]
  <2>1. Becomes(t, u, i, b)
    BY <1>3, <1>4, <1>5 DEF Becomes
  <2> QED
    BY <2>1, BucketChanges
<1>7. \A k \in 1 .. Len(t) : u[k].nodes = t[k].nodes /\ u[k].prefix = t[k].prefix
                            /\ u[k].len = t[k].len
  BY <1>3, <1>6
<1>8. LiveIds(u) = LiveIds(t)
  <2>1. DOMAIN u = DOMAIN t
    BY <1>1, <1>6, ShapeFacts
  <2> QED
    BY <1>1, <1>7, <2>1 DEF LiveIds
<1> QED
  BY <1>3, <1>6, <1>7, <1>8

\* Without its first element, a list of candidates still fits.
LEMMA TailFits ==
    ASSUME NEW b, NEW r, ReplacementsFit(b, r), r # <<>>
    PROVE  /\ ReplacementsFit(b, Tail(r))
           /\ Len(Tail(r)) = Len(r) - 1
           /\ \A j \in 1 .. Len(Tail(r)) : j + 1 \in 1 .. Len(r) /\ Tail(r)[j] = r[j + 1]
<1>1. r \in Seq(Contact) /\ Len(r) \in Nat /\ Len(r) # 0
  BY DEF ReplacementsFit
<1>2. PICK q \in Seq(Contact) : q = Tail(r)
  BY <1>1, HeadTailProperties
<1>3. Len(q) = Len(r) - 1 /\ \A j \in 1 .. Len(q) : j + 1 \in 1 .. Len(r) /\ q[j] = r[j + 1]
  BY <1>1, <1>2, HeadTailProperties
<1>4. Len(q) <= K
  BY <1>1, <1>3, RoutingAssumption DEF ReplacementsFit
<1>5. \A j \in 1 .. Len(q) :
        Covers(b, q[j].id) /\ q[j].id # OurId /\ q[j].id \notin DOMAIN b.nodes
  BY <1>3 DEF ReplacementsFit
<1>6. ASSUME NEW j \in 1 .. Len(q), NEW l \in 1 .. Len(q), q[j].id = q[l].id PROVE j = l
  <2>1. j + 1 \in 1 .. Len(r) /\ l + 1 \in 1 .. Len(r) /\ q[j] = r[j + 1] /\ q[l] = r[l + 1]
    BY <1>3
  <2>2. j + 1 = l + 1
    BY <1>6, <2>1 DEF ReplacementsFit
  <2> QED
    BY <2>2
<1> QED
  BY <1>2, <1>3, <1>4, <1>5, <1>6 DEF ReplacementsFit

LEMMA OwnReplacementsFit ==
    ASSUME NEW b, BucketInv(b)
    PROVE  ReplacementsFit(b, b.replacements)
BY DEF BucketInv, CandidatesInv, ReplacementsFit, BucketType

\* One more candidate that is new to the bucket.
LEMMA AppendFits ==
    ASSUME NEW b, NEW r, ReplacementsFit(b, r), Len(r) < K, NEW c \in Contact,
           Covers(b, c.id), c.id # OurId, c.id \notin DOMAIN b.nodes,
           \A j \in 1 .. Len(r) : r[j].id # c.id
    PROVE  ReplacementsFit(b, Append(r, c))
<1>1. r \in Seq(Contact) /\ Len(r) \in Nat
  BY DEF ReplacementsFit
<1>2. PICK q \in Seq(Contact) : q = Append(r, c)
  BY <1>1, AppendProperties
<1>3. Len(q) = Len(r) + 1 /\ q[Len(r) + 1] = c /\ \A j \in 1 .. Len(r) : q[j] = r[j]
  BY <1>1, <1>2
<1>4. Len(q) <= K
  BY <1>1, <1>3, RoutingAssumption
<1>5. \A j \in 1 .. Len(q) : j = Len(r) + 1 \/ j \in 1 .. Len(r)
  BY <1>1, <1>3
<1>6. \A j \in 1 .. Len(q) :
        Covers(b, q[j].id) /\ q[j].id # OurId /\ q[j].id \notin DOMAIN b.nodes
  BY <1>3, <1>5 DEF ReplacementsFit
<1>7. \A j, l \in 1 .. Len(q) : q[j].id = q[l].id => j = l
  BY <1>3, <1>5 DEF ReplacementsFit
<1> QED
  BY <1>2, <1>4, <1>6, <1>7 DEF ReplacementsFit

\* The first bucket with candidates.
LEMMA FirstWithCandidates ==
    ASSUME NEW t, Shape(t), NEW i, i = SelectInSeq(t, LAMBDA b : b.replacements # <<>>)
    PROVE  \/ i = 0 /\ \A k \in 1 .. Len(t) : t[k].replacements = <<>>
           \/ i \in 1 .. Len(t) /\ t[i].replacements # <<>>
<1> DEFINE I == {k \in 1 .. Len(t) : t[k].replacements # <<>>}
<1>1. i = IF I # {} THEN Min(I) ELSE 0
  BY DEF SelectInSeq
<1>2. CASE I = {}
  BY <1>1, <1>2
<1>3. CASE I # {}
  <2>1. \A k \in I : k \in Nat
    BY ShapeFacts
  <2> HIDE DEF I
  <2>2. \E x \in I : \A y \in I : x <= y
    BY <1>3, <2>1, LeastNatural
  <2>3. Min(I) \in I
    BY <2>2 DEF Min
  <2> QED
    BY <1>1, <1>3, <2>3 DEF I
<1> QED
  BY <1>2, <1>3

\* After the eviction there is room for a candidate, in a table with the same
\* nodes and no other candidates than before.
RoomMade(t, u) ==
    /\ Shape(u)
    /\ candidate_count(u) < MaxCandidates
    /\ Len(u) = Len(t)
    /\ LiveIds(u) = LiveIds(t)
    /\ \A k \in 1 .. Len(t) :
         /\ u[k].nodes = t[k].nodes /\ u[k].prefix = t[k].prefix /\ u[k].len = t[k].len
         /\ \A j \in 1 .. Len(u[k].replacements) :
             \E l \in 1 .. Len(t[k].replacements) : u[k].replacements[j] = t[k].replacements[l]

LEMMA EvictionMakesRoom ==
    ASSUME NEW t, TableInv(t), NEW u, u = EvictCandidate(t)
    PROVE  RoomMade(t, u)
<1> USE DEF RoomMade
<1>1. Shape(t) /\ candidate_count(t) <= MaxCandidates /\ candidate_count(t) \in Nat
      /\ IsFiniteSet(CandidateIds(t)) /\ candidate_count(t) = Cardinality(CandidateIds(t))
  BY SlotsAreIds DEF TableInv
<1>2. PICK i : i = SelectInSeq(t, LAMBDA b : b.replacements # <<>>)
  OBVIOUS
<1>3. \/ i = 0 /\ \A k \in 1 .. Len(t) : t[k].replacements = <<>>
      \/ i \in 1 .. Len(t) /\ t[i].replacements # <<>>
  BY <1>1, <1>2, FirstWithCandidates
<1>4. CASE i = 0 \/ candidate_count(t) < MaxCandidates
  <2>1. u = t
    BY <1>2, <1>4 DEF EvictCandidate
  <2>2. candidate_count(t) < MaxCandidates
    <3>1. CASE i = 0
      <4>1. Len(t) \in Nat
        BY <1>1, ShapeFacts
      <4>2. \A k \in 1 .. Len(t) : t[k].replacements = <<>>
        BY <1>3, <3>1, <4>1
      <4>3. CandidateIds(t) = {}
        BY <4>2 DEF CandidateIds
      <4>4. candidate_count(t) = 0
        BY <1>1, <4>3, FS_EmptySet
      <4> QED
        BY <4>4, RoutingAssumption
    <3> QED
      BY <1>4, <3>1
  <2> QED
    BY <1>1, <2>1, <2>2
<1>5. CASE ~(i = 0 \/ candidate_count(t) < MaxCandidates)
  <2>1. i \in 1 .. Len(t) /\ t[i].replacements # <<>>
    BY <1>3, <1>5
  <2>2. PICK r : r = Tail(t[i].replacements)
    OBVIOUS
  <2>3. u = [t EXCEPT ![i].replacements = r]
    BY <1>2, <1>5, <2>2 DEF EvictCandidate
  <2>4. ReplacementsFit(t[i], t[i].replacements)
    BY <1>1, <2>1, ShapeFacts, OwnReplacementsFit
  <2>5. /\ ReplacementsFit(t[i], r)
        /\ \A j \in 1 .. Len(r) : j + 1 \in 1 .. Len(t[i].replacements)
                                  /\ r[j] = t[i].replacements[j + 1]
    BY <2>1, <2>2, <2>4, TailFits
  <2>6. ReplacementsBecome(t, u, i, r)
    BY <1>1, <2>1, <2>3, <2>5 DEF ReplacementsBecome
  <2>7. /\ Shape(u) /\ Len(u) = Len(t) /\ u[i].replacements = r
        /\ \A k \in 1 .. Len(t) : k # i => u[k] = t[k]
        /\ \A k \in 1 .. Len(t) : u[k].nodes = t[k].nodes /\ u[k].prefix = t[k].prefix
                                  /\ u[k].len = t[k].len
        /\ LiveIds(u) = LiveIds(t)
    BY <2>6, ReplacementsChange
  <2>8. ASSUME NEW k \in 1 .. Len(t), NEW j \in 1 .. Len(u[k].replacements)
        PROVE  \E l \in 1 .. Len(t[k].replacements) : u[k].replacements[j] = t[k].replacements[l]
    <3>1. CASE k = i
      <4>1. j \in 1 .. Len(r)
        BY <2>7, <3>1
      <4>2. j + 1 \in 1 .. Len(t[i].replacements) /\ r[j] = t[i].replacements[j + 1]
        BY <2>5, <4>1
      <4> QED
        BY <2>7, <3>1, <4>2
    <3>2. CASE k # i
      BY <2>7, <3>2
    <3> QED
      BY <3>1, <3>2
  <2>9. candidate_count(u) < MaxCandidates
    <3>1. PICK gone : gone = t[i].replacements[1].id
      OBVIOUS
    <3>2. t[i].replacements \in Seq(Contact) /\ Len(t[i].replacements) \in Nat
          /\ Len(t[i].replacements) # 0
      BY <1>1, <2>1, ShapeFacts
    <3>3. gone \in CandidateIds(t)
      BY <2>1, <3>1, <3>2, CandidateAt
    <3>4. ASSUME NEW x \in CandidateIds(u) PROVE x \in CandidateIds(t) /\ x # gone
      <4>1. PICK k \in 1 .. Len(t) : \E j \in 1 .. Len(u[k].replacements) : x = u[k].replacements[j].id
        BY <2>7, CandidateAt
      <4>2. PICK j \in 1 .. Len(u[k].replacements) : x = u[k].replacements[j].id
        BY <4>1
      <4>3. x \in CandidateIds(t)
        BY <2>8, <4>2, CandidateAt
      <4>4. CASE k = i
        <5>1. j + 1 \in 1 .. Len(t[i].replacements) /\ x = t[i].replacements[j + 1].id /\ j + 1 # 1
          BY <2>5, <2>7, <4>2, <4>4
        <5>2. 1 \in 1 .. Len(t[i].replacements)
          BY <3>2
        <5> QED
          BY <2>4, <3>1, <4>3, <5>1, <5>2 DEF ReplacementsFit
      <4>5. CASE k # i
        <5>1. x = t[k].replacements[j].id /\ j \in 1 .. Len(t[k].replacements)
          BY <2>7, <4>2, <4>5
        <5>2. BucketInv(t[k]) /\ BucketInv(t[i]) /\ 1 \in 1 .. Len(t[i].replacements)
          BY <1>1, <2>1, <3>2, ShapeFacts
        <5>3. Covers(t[k], x) /\ Covers(t[i], gone)
          BY <3>1, <5>1, <5>2 DEF BucketInv, CandidatesInv
        <5>4. gone \in Ids
          <6>1. t[i].replacements[1] \in Contact
            BY <3>2, <5>2
          <6> QED
            BY <3>1, <6>1 DEF Contact
        <5>5. Homes(t)
          BY <1>1 DEF Shape
        <5> QED
          BY <2>1, <4>3, <4>5, <5>3, <5>4, <5>5 DEF Homes
      <4> QED
        BY <4>3, <4>4, <4>5
    <3>5. candidate_count(u) = Cardinality(CandidateIds(u)) /\ candidate_count(u) \in Nat
      BY <2>7, SlotsAreIds
    <3>6. CandidateIds(u) \subseteq CandidateIds(t) /\ CandidateIds(u) # CandidateIds(t)
      BY <3>3, <3>4
    <3>7. Cardinality(CandidateIds(u)) < Cardinality(CandidateIds(t))
      <4>1. Cardinality(CandidateIds(u)) <= Cardinality(CandidateIds(t))
            /\ (Cardinality(CandidateIds(u)) = Cardinality(CandidateIds(t))
                    => CandidateIds(u) = CandidateIds(t))
        BY <1>1, <3>6, FS_Subset
      <4> QED
        BY <1>1, <3>5, <3>6, <4>1
    <3> QED
      BY <1>1, <3>5, <3>7, RoutingAssumption
  <2> QED
    BY <2>7, <2>8, <2>9
<1> QED
  BY <1>4, <1>5

LEMMA AddStep ==
    ASSUME NEW t, TableInv(t), NEW c \in Contact
    PROVE  TableInv(add_candidate(t, c)) /\ LiveIds(add_candidate(t, c)) = LiveIds(t)
<1>1. Shape(t) /\ c.id \in Ids
  BY DEF TableInv, Contact
<1>2. PICK i \in 1 .. Len(t) : i = bucket_index(t, c.id)
  BY <1>1, HomeIs
<1>3. Covers(t[i], c.id)
  BY <1>1, <1>2, HomeIs
<1> DEFINE known == \E j \in DOMAIN t[i].replacements :
                    \/ t[i].replacements[j].id = c.id
                    \/ t[i].replacements[j].addr = c.addr
<1>4. CASE c.id = OurId \/ c.id \in DOMAIN t[i].nodes \/ known
  <2>1. add_candidate(t, c) = t
    BY <1>2, <1>4 DEF add_candidate
  <2> QED
    BY <2>1
<1>5. CASE ~(c.id = OurId \/ c.id \in DOMAIN t[i].nodes \/ known)
  <2>1. PICK room : room = EvictCandidate(t)
    OBVIOUS
  <2>2. /\ Shape(room)
        /\ candidate_count(room) < MaxCandidates
        /\ Len(room) = Len(t)
        /\ LiveIds(room) = LiveIds(t)
        /\ room[i].nodes = t[i].nodes /\ room[i].prefix = t[i].prefix /\ room[i].len = t[i].len
        /\ \A j \in 1 .. Len(room[i].replacements) :
            \E l \in 1 .. Len(t[i].replacements) : room[i].replacements[j] = t[i].replacements[l]
    <3>1. RoomMade(t, room)
      BY <2>1, EvictionMakesRoom
    <3> QED
      BY <1>2, <3>1 DEF RoomMade
  <2>3. Covers(room[i], c.id)
    BY <1>3, <2>2 DEF Covers
  <2>4. \A j \in 1 .. Len(room[i].replacements) : room[i].replacements[j].id # c.id
    <3>1. DOMAIN t[i].replacements = 1 .. Len(t[i].replacements)
      BY <1>1, ShapeFacts
    <3> QED
      BY <1>5, <2>2, <3>1
  <2>5. BucketInv(room[i]) /\ ReplacementsFit(room[i], room[i].replacements)
    BY <2>2, ShapeFacts, OwnReplacementsFit
  <2>6. PICK old : old = room[i].replacements
    OBVIOUS
  <2>7. PICK kept : kept = IF Len(old) >= K THEN Tail(old) ELSE old
    OBVIOUS
  <2>8. old \in Seq(Contact) /\ Len(old) \in Nat /\ Len(old) <= K
    BY <2>5, <2>6 DEF ReplacementsFit
  <2>9. /\ ReplacementsFit(room[i], kept) /\ Len(kept) < K
        /\ \A j \in 1 .. Len(kept) : \E l \in 1 .. Len(old) : kept[j] = old[l]
    <3>1. CASE Len(old) >= K
      <4>1. old # <<>>
        BY <2>8, <3>1, RoutingAssumption
      <4>2. /\ ReplacementsFit(room[i], Tail(old)) /\ Len(Tail(old)) = Len(old) - 1
            /\ \A j \in 1 .. Len(Tail(old)) : j + 1 \in 1 .. Len(old) /\ Tail(old)[j] = old[j + 1]
        BY <2>5, <2>6, <4>1, TailFits
      <4>3. kept = Tail(old)
        BY <2>7, <3>1
      <4>4. Len(kept) < K
        BY <2>8, <4>2, <4>3, RoutingAssumption
      <4> QED
        BY <4>2, <4>3, <4>4
    <3>2. CASE ~(Len(old) >= K)
      <4>1. kept = old
        BY <2>7, <3>2
      <4> QED
        BY <2>5, <2>6, <2>8, <3>2, <4>1, RoutingAssumption
    <3> QED
      BY <3>1, <3>2
  <2>10. PICK r : r = Append(kept, c)
    OBVIOUS
  <2>11. ReplacementsFit(room[i], r)
    <3>1. \A j \in 1 .. Len(kept) : kept[j].id # c.id
      BY <2>4, <2>6, <2>9
    <3>2. c.id # OurId /\ c.id \notin DOMAIN room[i].nodes
      BY <1>5, <2>2
    <3> QED
      BY <2>3, <2>9, <2>10, <3>1, <3>2, AppendFits
  <2>12. PICK u : u = [room EXCEPT ![i].replacements = r]
    OBVIOUS
  <2>13. add_candidate(t, c) = u
    <3>1. add_candidate(t, c) =
            [room EXCEPT ![i].replacements = Append(IF Len(@) >= K THEN Tail(@) ELSE @, c)]
      BY <1>2, <1>5, <2>1 DEF add_candidate
    <3> QED
      BY <2>6, <2>7, <2>10, <2>12, <3>1
  <2>14. /\ Shape(u) /\ Len(u) = Len(room) /\ u[i].replacements = r
         /\ \A k \in 1 .. Len(room) : k # i => u[k] = room[k]
         /\ LiveIds(u) = LiveIds(room)
    <3>1. ReplacementsBecome(room, u, i, r)
      BY <2>2, <2>11, <2>12 DEF ReplacementsBecome
    <3> QED
      BY <3>1, ReplacementsChange
  <2>15. CandidateIds(u) \subseteq CandidateIds(room) \cup {c.id}
    <3>1. ASSUME NEW x \in CandidateIds(u) PROVE x \in CandidateIds(room) \cup {c.id}
      <4>1. PICK k \in 1 .. Len(room) : \E j \in 1 .. Len(u[k].replacements) : x = u[k].replacements[j].id
        BY <2>14, CandidateAt
      <4>2. PICK j \in 1 .. Len(u[k].replacements) : x = u[k].replacements[j].id
        BY <4>1
      <4>3. CASE k # i
        BY <2>14, <4>2, <4>3, CandidateAt
      <4>4. CASE k = i
        <5>1. kept \in Seq(Contact) /\ Len(kept) \in Nat
          BY <2>9 DEF ReplacementsFit
        <5>2. Len(r) = Len(kept) + 1 /\ r[Len(kept) + 1] = c /\ \A l \in 1 .. Len(kept) : r[l] = kept[l]
          BY <2>10, <5>1, AppendProperties
        <5>3. j = Len(kept) + 1 \/ j \in 1 .. Len(kept)
          BY <2>14, <4>4, <5>1, <5>2
        <5>4. CASE j = Len(kept) + 1
          BY <2>14, <4>2, <4>4, <5>2, <5>4
        <5>5. CASE j \in 1 .. Len(kept)
          <6>1. PICK l \in 1 .. Len(old) : kept[j] = old[l]
            BY <2>9, <5>5
          <6>2. x = room[i].replacements[l].id /\ l \in 1 .. Len(room[i].replacements)
            BY <2>6, <2>14, <4>2, <4>4, <5>2, <5>5, <6>1
          <6>3. i \in 1 .. Len(room)
            BY <2>2
          <6> QED
            BY <6>2, <6>3, CandidateAt
        <5> QED
          BY <5>3, <5>4, <5>5
      <4> QED
        BY <4>3, <4>4
    <3> QED
      BY <3>1
  <2>16. candidate_count(u) <= MaxCandidates
    <3>1. /\ candidate_count(u) = Cardinality(CandidateIds(u)) /\ candidate_count(u) \in Nat
          /\ candidate_count(room) = Cardinality(CandidateIds(room)) /\ candidate_count(room) \in Nat
          /\ IsFiniteSet(CandidateIds(room))
      BY <2>2, <2>14, SlotsAreIds
    <3>2. PICK S : S = CandidateIds(room) \cup {c.id}
      OBVIOUS
    <3>3. IsFiniteSet(S) /\ Cardinality(S) <= Cardinality(CandidateIds(room)) + 1
          /\ Cardinality(S) \in Nat
      <4>1. IsFiniteSet(S)
            /\ Cardinality(S) = IF c.id \in CandidateIds(room) THEN Cardinality(CandidateIds(room))
                                ELSE Cardinality(CandidateIds(room)) + 1
        BY <3>1, <3>2, FS_AddElement
      <4>2. Cardinality(CandidateIds(room)) \in Nat
        BY <3>1
      <4> QED
        BY <4>1, <4>2
    <3>4. Cardinality(CandidateIds(u)) <= Cardinality(S)
      BY <2>15, <3>2, <3>3, FS_Subset
    <3> QED
      BY <2>2, <3>1, <3>3, <3>4, RoutingAssumption
  <2> QED
    BY <2>2, <2>13, <2>14, <2>16 DEF TableInv
<1> QED
  BY <1>4, <1>5

(***************************************************************************)
(* split_bucket.                                                           *)
(***************************************************************************)
\* A bucket is split at the first bit after those it covers: the ids that it
\* covers are those that the halves cover, and no id is covered by both.
LEMMA HalvesCover ==
    ASSUME NEW b \in BucketType, PrefixInv(b), b.len < Bits,
           NEW right, right = [b.prefix EXCEPT ![b.len + 1] = 1],
           NEW lo, lo.prefix = b.prefix, lo.len = b.len + 1,
           NEW hi, hi.prefix = right, hi.len = b.len + 1
    PROVE  /\ right \in Ids
           /\ \A id \in Ids : Covers(b, id) <=> Covers(lo, id) \/ Covers(hi, id)
           /\ \A id \in Ids : ~(Covers(lo, id) /\ Covers(hi, id))
           /\ \A id \in Ids : Covers(b, id) /\ ~Covers(hi, id) => Covers(lo, id)
           /\ \A bit \in lo.len + 1 .. Bits : lo.prefix[bit] = 0
           /\ \A bit \in hi.len + 1 .. Bits : hi.prefix[bit] = 0
<1>1. b.prefix \in Ids /\ b.len \in Nat /\ b.len + 1 \in 1 .. Bits /\ Bits \in Nat
  BY RoutingAssumption DEF BucketType
<1>2. PICK n \in Nat : n = b.len
  BY <1>1
<1>3. PICK p \in Ids : p = b.prefix
  BY <1>1
<1>4. \A bit \in n + 1 .. Bits : p[bit] = 0
  BY <1>2, <1>3 DEF PrefixInv
<1>5. /\ right \in Ids /\ right[n + 1] = 1
      /\ \A bit \in 1 .. Bits : bit # n + 1 => right[bit] = p[bit]
  BY <1>1, <1>2, <1>3 DEF Ids
<1>6. p[n + 1] = 0
  BY <1>1, <1>2, <1>4
<1>7. ASSUME NEW id \in Ids
      PROVE  /\ Covers(b, id) <=> \A bit \in 1 .. n : p[bit] = id[bit]
             /\ Covers(lo, id) <=> \A bit \in 1 .. n + 1 : p[bit] = id[bit]
             /\ Covers(hi, id) <=> \A bit \in 1 .. n + 1 : right[bit] = id[bit]
             /\ id[n + 1] \in {0, 1}
  BY <1>1, <1>2, <1>3 DEF Covers, Ids
<1>8. \A bit \in 1 .. n : bit \in 1 .. Bits /\ bit \in 1 .. n + 1 /\ bit # n + 1
  BY <1>1, <1>2
<1>9. \A bit \in 1 .. n + 1 : bit \in 1 .. n \/ bit = n + 1
  BY <1>2
<1>10. ASSUME NEW id \in Ids
       PROVE  /\ Covers(lo, id) <=> Covers(b, id) /\ id[n + 1] = 0
              /\ Covers(hi, id) <=> Covers(b, id) /\ id[n + 1] = 1
  BY <1>5, <1>6, <1>7, <1>8, <1>9
<1>11. \A bit \in n + 2 .. Bits : bit \in n + 1 .. Bits /\ bit # n + 1 /\ bit \in 1 .. Bits
  BY <1>1, <1>2
<1>12. lo.len + 1 = n + 2 /\ hi.len + 1 = n + 2
  BY <1>2
<1> QED
  BY <1>2, <1>3, <1>4, <1>5, <1>7, <1>10, <1>11, <1>12

\* A half takes some of the nodes and some of the candidates.
Takes(b, h, prefix, ids, places) ==
    /\ BucketInv(b)
    /\ b.len < Bits
    /\ prefix \in Ids
    /\ ids \subseteq DOMAIN b.nodes
    /\ places \subseteq 1 .. Len(b.replacements)
    /\ h = Half(b, prefix, ids, places)
    /\ \A bit \in b.len + 2 .. Bits : prefix[bit] = 0
    /\ \A x \in ids : Covers(h, x)
    /\ \A j \in places : Covers(h, b.replacements[j].id)

LEMMA HalfInv ==
    ASSUME NEW b, NEW h, NEW prefix, NEW ids, NEW places, Takes(b, h, prefix, ids, places)
    PROVE  /\ BucketInv(h)
           /\ DOMAIN h.nodes = ids
           /\ \A j \in 1 .. Len(h.replacements) :
                \E l \in places : h.replacements[j] = b.replacements[l]
<1> USE DEF Takes
<1>1. b \in BucketType /\ b.nodes \in NodeMap /\ b.replacements \in Seq(Contact)
      /\ b.len \in Nat /\ b.len + 1 \in 0 .. Bits /\ Len(b.replacements) \in Nat
  BY RoutingAssumption DEF BucketInv, BucketType
<1>2. PICK f \in NodeMap : f = b.nodes
  BY <1>1
<1>3. PICK r \in Seq(Contact) : r = b.replacements
  BY <1>1
<1>4. f \in [DOMAIN f -> NodeRecord] /\ DOMAIN f \subseteq Ids
      /\ \A x \in DOMAIN f : f[x] \in NodeRecord
  BY NodeMapIs
<1>5. PICK n : n = [x \in ids |-> f[x]]
  OBVIOUS
<1>6. n \in NodeMap /\ DOMAIN n = ids
  <2>1. n \in [ids -> NodeRecord] /\ ids \in SUBSET Ids
    BY <1>2, <1>4, <1>5
  <2> QED
    BY <2>1, NodeMapIs
<1>7. PICK q : q = Picked(r, places)
  OBVIOUS
<1>8. places \in SUBSET (1 .. Len(r))
  BY <1>3
<1>9. q \in Seq(Contact) /\ Len(q) <= Len(r) /\ \E at : PickedBy(q, r, places, at)
  BY <1>7, <1>8, PickedIs
<1>10. PICK at : PickedBy(q, r, places, at)
  BY <1>9
<1>11. PICK len \in 0 .. Bits : len = b.len + 1
  BY <1>1
<1>12. h = [prefix |-> prefix, len |-> len, nodes |-> n, replacements |-> q]
  BY <1>2, <1>3, <1>5, <1>7, <1>11 DEF Half, Restricted
<1>13. h \in BucketType /\ h.prefix = prefix /\ h.len = len /\ h.nodes = n /\ h.replacements = q
  BY <1>6, <1>9, <1>12 DEF BucketType
<1>14. NodesInv(h)
  <2>1. IsFiniteSet(DOMAIN b.nodes) /\ Cardinality(DOMAIN b.nodes) <= K
        /\ \A x \in DOMAIN b.nodes : x # OurId
    BY DEF BucketInv, NodesInv
  <2>2. IsFiniteSet(ids) /\ Cardinality(ids) <= Cardinality(DOMAIN b.nodes)
    BY <2>1, FS_Subset
  <2>3. Cardinality(ids) \in Nat /\ Cardinality(DOMAIN b.nodes) \in Nat
    BY <2>1, <2>2, FS_CardinalityType
  <2>4. Cardinality(ids) <= K
    BY <2>1, <2>2, <2>3, RoutingAssumption
  <2> QED
    BY <1>6, <1>13, <2>1, <2>2, <2>4 DEF NodesInv
<1>15. CandidatesInv(h)
  <2>1. /\ Len(r) <= K
        /\ \A j \in 1 .. Len(r) : r[j].id # OurId /\ r[j].id \notin DOMAIN f
        /\ \A j, l \in 1 .. Len(r) : r[j].id = r[l].id => j = l
    BY <1>2, <1>3 DEF BucketInv, CandidatesInv
  <2>2. Len(q) \in Nat /\ Len(r) \in Nat
    BY <1>9
  <2>3. Len(q) <= K
    BY <1>9, <2>1, <2>2, RoutingAssumption
  <2>4. \A j \in 1 .. Len(q) : at[j] \in places /\ at[j] \in 1 .. Len(r) /\ q[j] = r[at[j]]
    BY <1>8, <1>10 DEF PickedBy
  <2>5. \A j \in 1 .. Len(q) : /\ Covers(h, q[j].id)
                              /\ q[j].id # OurId
                              /\ q[j].id \notin DOMAIN n
    BY <1>2, <1>3, <1>6, <2>1, <2>4
  <2>6. ASSUME NEW j \in 1 .. Len(q), NEW l \in 1 .. Len(q), q[j].id = q[l].id PROVE j = l
    <3>1. at[j] = at[l] /\ at[j] \in Nat
      BY <2>1, <2>4, <2>6
    <3>2. ~(j < l) /\ ~(l < j)
      BY <1>10, <3>1 DEF PickedBy
    <3> QED
      BY <2>2, <3>2
  <2> QED
    BY <1>13, <2>3, <2>5, <2>6 DEF CandidatesInv
<1>16. PrefixInv(h)
  <2>1. len + 1 = b.len + 2
    BY <1>1, <1>11
  <2> QED
    BY <1>13, <2>1 DEF PrefixInv
<1>17. \A j \in 1 .. Len(h.replacements) : \E l \in places : h.replacements[j] = b.replacements[l]
  BY <1>3, <1>10, <1>13 DEF PickedBy
<1> QED
  BY <1>6, <1>13, <1>14, <1>15, <1>16, <1>17 DEF BucketInv

\* Where the buckets are after a split.
SplitAt(t, u, i, lo, hi) ==
    /\ u \in Seq(BucketType)
    /\ Len(u) = Len(t) + 1
    /\ u[i] = lo
    /\ u[i + 1] = hi
    /\ \A k \in 1 .. Len(t) : k < i => u[k] = t[k]
    /\ \A k \in 1 .. Len(t) : k > i => u[k + 1] = t[k]

SplitInto(t, u, i, lo, hi) ==
    /\ t \in Seq(BucketType) /\ i \in 1 .. Len(t) /\ lo \in BucketType /\ hi \in BucketType
    /\ u = SubSeq(t, 1, i - 1) \o <<lo, hi>> \o SubSeq(t, i + 1, Len(t))

LEMMA SplitPlaces ==
    ASSUME NEW t, NEW u, NEW i, NEW lo, NEW hi, SplitInto(t, u, i, lo, hi)
    PROVE  SplitAt(t, u, i, lo, hi)
<1>0. t \in Seq(BucketType) /\ i \in 1 .. Len(t) /\ lo \in BucketType /\ hi \in BucketType
  BY DEF SplitInto
<1>1. PICK n \in Nat : n = Len(t)
  BY <1>0
<1>2. i \in 1 .. n
  BY <1>0, <1>1
<1>3. PICK a : a = SubSeq(t, 0 + 1, i - 1)
  OBVIOUS
<1>4. a \in Seq(BucketType) /\ Len(a) = (i - 1) - 0 /\ \A k \in 1 .. (i - 1) - 0 : a[k] = t[0 + k]
  <2>1. i - 1 \in Nat
    BY <1>2
  <2>2. PICK j \in Nat : j = i - 1
    BY <2>1
  <2>3. Cut(BucketType, t, 0, j, a)
    BY <1>0, <1>1, <1>2, <1>3, <2>2 DEF Cut
  <2> QED
    BY <2>2, <2>3, CutIs DEF CutPlaces
<1>5. PICK z : z = SubSeq(t, i + 1, n)
  OBVIOUS
<1>6. z \in Seq(BucketType) /\ Len(z) = n - i /\ \A k \in 1 .. n - i : z[k] = t[i + k]
  <2>1. Cut(BucketType, t, i, n, z)
    BY <1>0, <1>1, <1>2, <1>5 DEF Cut
  <2> QED
    BY <2>1, CutIs DEF CutPlaces
<1>7. PICK m : m = <<lo, hi>>
  OBVIOUS
<1>8. m \in Seq(BucketType) /\ Len(m) = 2 /\ m[1] = lo /\ m[2] = hi
  BY <1>0, <1>7
<1>9. PICK am : am = a \o m
  OBVIOUS
<1>10. /\ am \in Seq(BucketType) /\ Len(am) = Len(a) + Len(m)
       /\ \A k \in 1 .. Len(a) : am[k] = a[k]
       /\ \A k \in 1 .. Len(m) : am[Len(a) + k] = m[k]
  <2>1. Join(BucketType, a, m, am)
    BY <1>4, <1>8, <1>9 DEF Join
  <2> QED
    BY <2>1, JoinIs DEF JoinPlaces
<1>11. u = am \o z
  <2>1. SubSeq(t, 1, i - 1) = a /\ SubSeq(t, i + 1, Len(t)) = z
    BY <1>1, <1>3, <1>5
  <2> QED
    BY <1>7, <1>9, <2>1 DEF SplitInto
<1>12. /\ u \in Seq(BucketType) /\ Len(u) = Len(am) + Len(z)
       /\ \A k \in 1 .. Len(am) : u[k] = am[k]
       /\ \A k \in 1 .. Len(z) : u[Len(am) + k] = z[k]
  <2>1. Join(BucketType, am, z, u)
    BY <1>6, <1>10, <1>11 DEF Join
  <2> QED
    BY <2>1, JoinIs DEF JoinPlaces
<1>13. Len(a) = i - 1 /\ Len(am) = i + 1 /\ Len(u) = n + 1
  <2>1. n \in Nat /\ i \in Nat /\ Len(a) = i - 1 /\ Len(m) = 2 /\ Len(z) = n - i
    BY <1>2, <1>4, <1>6, <1>8
  <2>2. Len(am) = Len(a) + Len(m) /\ Len(u) = Len(am) + Len(z)
    BY <1>10, <1>12
  <2> QED
    BY <2>1, <2>2
<1>14. ASSUME NEW k \in 1 .. n, k < i PROVE u[k] = t[k]
  <2>1. k \in 1 .. (i - 1) - 0 /\ k \in 1 .. i - 1 /\ k \in 1 .. i + 1 /\ 0 + k = k
    BY <1>2, <1>14
  <2> QED
    BY <1>4, <1>10, <1>12, <1>13, <2>1
<1>15. ASSUME NEW k \in 1 .. n, k > i PROVE u[k + 1] = t[k]
  <2>1. PICK j \in 1 .. n - i : j = k - i
    BY <1>2, <1>15
  <2>2. k + 1 = (i + 1) + j /\ i + j = k
    BY <1>2, <2>1
  <2>3. z[j] = t[i + j]
    BY <1>6, <2>1
  <2>4. u[(i + 1) + j] = z[j]
    BY <1>6, <1>12, <1>13, <2>1
  <2> QED
    BY <2>2, <2>3, <2>4
<1>16. u[i] = lo /\ u[i + 1] = hi
  <2>1. i = (i - 1) + 1 /\ i + 1 = (i - 1) + 2 /\ i \in 1 .. i + 1 /\ i + 1 \in 1 .. i + 1
    BY <1>2
  <2>2. am[(i - 1) + 1] = lo /\ am[(i - 1) + 2] = hi
    BY <1>8, <1>10, <1>13
  <2> QED
    BY <1>12, <1>13, <2>1, <2>2
<1> QED
  BY <1>1, <1>12, <1>13, <1>14, <1>15, <1>16 DEF SplitAt

\* A table in which the bucket i of t, our own, has been replaced by two halves.
Halved(t, u, i, lo, hi) ==
    /\ Shape(t) /\ i \in 1 .. Len(t) /\ Covers(t[i], OurId)
    /\ SplitAt(t, u, i, lo, hi)
    /\ BucketInv(lo) /\ BucketInv(hi)
    /\ lo.len = t[i].len + 1 /\ hi.len = t[i].len + 1
    /\ \A id \in Ids : Covers(t[i], id) <=> Covers(lo, id) \/ Covers(hi, id)
    /\ \A id \in Ids : ~(Covers(lo, id) /\ Covers(hi, id))

\* Where a bucket of u was in t.
Origin(i, m) == IF m <= i THEN m ELSE m - 1

LEMMA OriginIs ==
    ASSUME NEW t, NEW u, NEW i, NEW lo, NEW hi, Halved(t, u, i, lo, hi), NEW m \in 1 .. Len(u)
    PROVE  /\ Origin(i, m) \in 1 .. Len(t)
           /\ Origin(i, m) = i <=> m = i \/ m = i + 1
           /\ Origin(i, m) # i => u[m] = t[Origin(i, m)]
           /\ m = i => u[m] = lo
           /\ m = i + 1 => u[m] = hi
           /\ BucketInv(u[m])
           /\ \A id \in Ids : Covers(u[m], id) => Covers(t[Origin(i, m)], id)
<1>1. Len(t) \in Nat /\ i \in 1 .. Len(t) /\ Len(u) = Len(t) + 1
  BY ShapeFacts DEF Halved, SplitAt
<1>2. Origin(i, m) \in 1 .. Len(t) /\ (Origin(i, m) = i <=> m = i \/ m = i + 1)
  BY <1>1 DEF Origin
<1>3. (m = i => u[m] = lo) /\ (m = i + 1 => u[m] = hi)
  BY DEF Halved, SplitAt
<1>4. Origin(i, m) # i => u[m] = t[Origin(i, m)]
  <2>1. CASE m < i
    <3>1. Origin(i, m) = m /\ m \in 1 .. Len(t)
      BY <1>1, <2>1 DEF Origin
    <3> QED
      BY <2>1, <3>1 DEF Halved, SplitAt
  <2>2. CASE m > i + 1
    <3>1. PICK k \in 1 .. Len(t) : k = m - 1
      BY <1>1, <2>2
    <3>2. Origin(i, m) = k /\ k + 1 = m /\ k > i
      BY <1>1, <2>2, <3>1 DEF Origin
    <3>3. u[k + 1] = t[k]
      BY <3>2 DEF Halved, SplitAt
    <3> QED
      BY <3>2, <3>3
  <2>3. m < i \/ m > i + 1 \/ m = i \/ m = i + 1
    BY <1>1
  <2> QED
    BY <1>2, <2>1, <2>2, <2>3
<1>5. BucketInv(u[m])
  <2>1. Shape(t) /\ BucketInv(lo) /\ BucketInv(hi)
    BY DEF Halved
  <2>2. BucketInv(t[Origin(i, m)])
    BY <1>2, <2>1, ShapeFacts
  <2> QED
    BY <1>2, <1>3, <1>4, <2>1, <2>2
<1>6. ASSUME NEW id \in Ids, Covers(u[m], id) PROVE Covers(t[Origin(i, m)], id)
  BY <1>2, <1>3, <1>4, <1>6 DEF Halved
<1> QED
  BY <1>2, <1>3, <1>4, <1>5, <1>6

LEMMA HalvedShape ==
    ASSUME NEW t, NEW u, NEW i, NEW lo, NEW hi, Halved(t, u, i, lo, hi)
    PROVE  Shape(u)
<1>1. Shape(t) /\ Homes(t) /\ Path(t) /\ Len(t) \in Nat /\ i \in 1 .. Len(t)
      /\ Len(u) = Len(t) + 1 /\ u \in Seq(BucketType)
  BY ShapeFacts DEF Halved, SplitAt, Shape
<1>2. \A m \in 1 .. Len(u) : BucketInv(u[m])
  BY OriginIs
<1>3. ASSUME NEW id \in Ids PROVE \E m \in 1 .. Len(u) : Covers(u[m], id)
  <2>1. PICK k \in 1 .. Len(t) : Covers(t[k], id)
    BY <1>1 DEF Homes
  <2>2. CASE k < i
    <3>1. u[k] = t[k] /\ k \in 1 .. Len(u)
      BY <1>1, <2>2 DEF Halved, SplitAt
    <3> QED
      BY <2>1, <3>1
  <2>3. CASE k > i
    <3>1. u[k + 1] = t[k] /\ k + 1 \in 1 .. Len(u)
      BY <1>1, <2>3 DEF Halved, SplitAt
    <3> QED
      BY <2>1, <3>1
  <2>4. CASE k = i
    <3>1. Covers(lo, id) \/ Covers(hi, id)
      BY <2>1, <2>4 DEF Halved
    <3>2. u[i] = lo /\ u[i + 1] = hi /\ i \in 1 .. Len(u) /\ i + 1 \in 1 .. Len(u)
      BY <1>1 DEF Halved, SplitAt
    <3> QED
      BY <3>1, <3>2
  <2>5. k < i \/ k > i \/ k = i
    BY <1>1
  <2> QED
    BY <2>2, <2>3, <2>4, <2>5
<1>4. ASSUME NEW id \in Ids, NEW m \in 1 .. Len(u), NEW k \in 1 .. Len(u),
             Covers(u[m], id), Covers(u[k], id)
      PROVE  m = k
  <2>1. Origin(i, m) \in 1 .. Len(t) /\ Covers(t[Origin(i, m)], id)
    BY <1>4, OriginIs
  <2>2. Origin(i, k) \in 1 .. Len(t) /\ Covers(t[Origin(i, k)], id)
    BY <1>4, OriginIs
  <2>3. Origin(i, m) = Origin(i, k)
    BY <1>1, <2>1, <2>2 DEF Homes
  <2>4. CASE Origin(i, m) = i
    <3>1. (m = i \/ m = i + 1) /\ (k = i \/ k = i + 1)
      <4>1. Origin(i, m) = i <=> m = i \/ m = i + 1
        BY OriginIs
      <4>2. Origin(i, k) = i <=> k = i \/ k = i + 1
        BY OriginIs
      <4> QED
        BY <2>3, <2>4, <4>1, <4>2
    <3>2. u[i] = lo /\ u[i + 1] = hi /\ ~(Covers(lo, id) /\ Covers(hi, id))
      BY DEF Halved, SplitAt
    <3> QED
      BY <1>4, <3>1, <3>2
  <2>5. CASE Origin(i, m) # i
    <3>1. m # i /\ m # i + 1 /\ k # i /\ k # i + 1
      BY <2>3, <2>5, OriginIs
    <3>2. m \in Nat /\ k \in Nat /\ i \in Nat
      BY <1>1
    <3>3. (IF m <= i THEN m ELSE m - 1) = (IF k <= i THEN k ELSE k - 1)
      BY <2>3 DEF Origin
    <3> QED
      BY <3>1, <3>2, <3>3
  <2> QED
    BY <2>4, <2>5
<1>5. Homes(u)
  BY <1>3, <1>4 DEF Homes
<1>6. ASSUME NEW m \in 1 .. Len(u), Covers(u[m], OurId) PROVE Len(u) = u[m].len + 1
  <2>1. OurId \in Ids
    BY RoutingAssumption
  <2>2. Origin(i, m) \in 1 .. Len(t) /\ Covers(t[Origin(i, m)], OurId)
    BY <1>6, <2>1, OriginIs
  <2>3. Covers(t[i], OurId)
    BY DEF Halved
  <2>4. Origin(i, m) = i
    BY <1>1, <2>1, <2>2, <2>3 DEF Homes
  <2>5. u[m] = lo \/ u[m] = hi
    BY <2>4, OriginIs
  <2>6. u[m].len = t[i].len + 1
    BY <2>5 DEF Halved
  <2>7. Len(t) = t[i].len + 1
    BY <1>1, <2>3 DEF Path
  <2> QED
    BY <1>1, <2>6, <2>7
<1>7. Path(u)
  BY <1>6 DEF Path
<1> QED
  BY <1>1, <1>2, <1>5, <1>7 DEF Shape

LEMMA HalvedCandidates ==
    ASSUME NEW t, NEW u, NEW i, NEW lo, NEW hi, Halved(t, u, i, lo, hi),
           \A j \in 1 .. Len(lo.replacements) :
                \E l \in 1 .. Len(t[i].replacements) : lo.replacements[j] = t[i].replacements[l],
           \A j \in 1 .. Len(hi.replacements) :
                \E l \in 1 .. Len(t[i].replacements) : hi.replacements[j] = t[i].replacements[l]
    PROVE  CandidateIds(u) \subseteq CandidateIds(t)
<1>1. ASSUME NEW x \in CandidateIds(u) PROVE x \in CandidateIds(t)
  <2>1. PICK m \in 1 .. Len(u) : \E j \in 1 .. Len(u[m].replacements) : x = u[m].replacements[j].id
    BY CandidateAt
  <2>2. PICK j \in 1 .. Len(u[m].replacements) : x = u[m].replacements[j].id
    BY <2>1
  <2>3. Origin(i, m) \in 1 .. Len(t)
    BY OriginIs
  <2>4. CASE Origin(i, m) # i
    <3>1. u[m] = t[Origin(i, m)]
      BY <2>4, OriginIs
    <3> QED
      BY <2>2, <2>3, <3>1, CandidateAt
  <2>5. CASE Origin(i, m) = i
    <3>1. u[m] = lo \/ u[m] = hi
      BY <2>5, OriginIs
    <3>2. PICK l \in 1 .. Len(t[i].replacements) : u[m].replacements[j] = t[i].replacements[l]
      BY <2>2, <3>1
    <3> QED
      BY <2>2, <2>3, <2>5, <3>2, CandidateAt
  <2> QED
    BY <2>4, <2>5
<1> QED
  BY <1>1

LEMMA HalvedLive ==
    ASSUME NEW t, NEW u, NEW i, NEW lo, NEW hi, Halved(t, u, i, lo, hi),
           DOMAIN t[i].nodes = DOMAIN lo.nodes \cup DOMAIN hi.nodes
    PROVE  LiveIds(u) = LiveIds(t)
<1>1. Shape(t) /\ DOMAIN t = 1 .. Len(t) /\ Len(t) \in Nat /\ i \in 1 .. Len(t)
      /\ Len(u) = Len(t) + 1 /\ DOMAIN u = 1 .. Len(u)
  BY HalvedShape, ShapeFacts DEF Halved, SplitAt
<1>2. ASSUME NEW x \in LiveIds(t) PROVE x \in LiveIds(u)
  <2>1. PICK k \in 1 .. Len(t) : x \in DOMAIN t[k].nodes
    BY <1>1 DEF LiveIds
  <2>2. CASE k < i
    <3>1. u[k] = t[k] /\ k \in 1 .. Len(u)
      BY <1>1, <2>2 DEF Halved, SplitAt
    <3> QED
      BY <1>1, <2>1, <3>1 DEF LiveIds
  <2>3. CASE k > i
    <3>1. u[k + 1] = t[k] /\ k + 1 \in 1 .. Len(u)
      BY <1>1, <2>3 DEF Halved, SplitAt
    <3> QED
      BY <1>1, <2>1, <3>1 DEF LiveIds
  <2>4. CASE k = i
    <3>1. x \in DOMAIN lo.nodes \/ x \in DOMAIN hi.nodes
      BY <2>1, <2>4
    <3>2. u[i] = lo /\ u[i + 1] = hi /\ i \in 1 .. Len(u) /\ i + 1 \in 1 .. Len(u)
      BY <1>1 DEF Halved, SplitAt
    <3> QED
      BY <1>1, <3>1, <3>2 DEF LiveIds
  <2>5. k < i \/ k > i \/ k = i
    BY <1>1
  <2> QED
    BY <2>2, <2>3, <2>4, <2>5
<1>3. ASSUME NEW x \in LiveIds(u) PROVE x \in LiveIds(t)
  <2>1. PICK m \in 1 .. Len(u) : x \in DOMAIN u[m].nodes
    BY <1>1 DEF LiveIds
  <2>2. Origin(i, m) \in 1 .. Len(t)
    BY OriginIs
  <2>3. CASE Origin(i, m) # i
    <3>1. u[m] = t[Origin(i, m)]
      BY <2>3, OriginIs
    <3> QED
      BY <1>1, <2>1, <2>2, <3>1 DEF LiveIds
  <2>4. CASE Origin(i, m) = i
    <3>1. u[m] = lo \/ u[m] = hi
      BY <2>4, OriginIs
    <3>2. x \in DOMAIN t[i].nodes
      BY <2>1, <3>1
    <3> QED
      BY <1>1, <3>2 DEF LiveIds
  <2> QED
    BY <2>3, <2>4
<1> QED
  BY <1>2, <1>3

\* Splitting the bucket of our own id keeps the table in shape, loses no live
\* node and gains no candidate.
Refines(t, u) ==
    Shape(u) /\ CandidateIds(u) \subseteq CandidateIds(t) /\ LiveIds(u) = LiveIds(t)

LEMMA SplitRefines ==
    ASSUME NEW t, Shape(t), NEW i \in 1 .. Len(t), Covers(t[i], OurId), t[i].len < Bits
    PROVE  Refines(t, split_bucket(t, i)) /\ Len(split_bucket(t, i)) = Len(t) + 1
<1>1. PICK b \in BucketType : b = t[i] /\ BucketInv(b)
  BY ShapeFacts
<1>2. PICK p : p = [b.prefix EXCEPT ![b.len + 1] = 1]
  OBVIOUS
<1>3. PICK r : r = Bucket(p, b.len + 1)
  OBVIOUS
<1>4. r.prefix = p /\ r.len = b.len + 1
  BY <1>3 DEF Bucket
<1>5. PICK ids : ids = {x \in DOMAIN b.nodes : Covers(r, x)}
  OBVIOUS
<1>6. PICK places : places = {j \in DOMAIN b.replacements : Covers(r, b.replacements[j].id)}
  OBVIOUS
<1>7. DOMAIN b.replacements = 1 .. Len(b.replacements) /\ b.replacements \in Seq(Contact)
  BY <1>1, ShapeFacts
<1>8. PICK lids, lplaces : /\ lids = DOMAIN b.nodes \ ids
                           /\ lplaces = (1 .. Len(b.replacements)) \ places
  OBVIOUS
<1>9. PICK lo, hi : lo = Half(b, b.prefix, lids, lplaces) /\ hi = Half(b, p, ids, places)
  OBVIOUS
<1>10. PICK u : u = split_bucket(t, i)
  OBVIOUS
<1>11. u = SubSeq(t, 1, i - 1) \o <<lo, hi>> \o SubSeq(t, i + 1, Len(t))
  BY <1>1, <1>2, <1>3, <1>5, <1>6, <1>7, <1>8, <1>9, <1>10 DEF split_bucket
<1>12. /\ lo.prefix = b.prefix /\ lo.len = b.len + 1
       /\ hi.prefix = p /\ hi.len = b.len + 1
  BY <1>9 DEF Half
<1>13. PrefixInv(b) /\ b.len < Bits
  BY <1>1 DEF BucketInv
<1>14. /\ p \in Ids
       /\ \A id \in Ids : Covers(b, id) <=> Covers(lo, id) \/ Covers(hi, id)
       /\ \A id \in Ids : ~(Covers(lo, id) /\ Covers(hi, id))
       /\ \A id \in Ids : Covers(b, id) /\ ~Covers(hi, id) => Covers(lo, id)
       /\ \A bit \in lo.len + 1 .. Bits : lo.prefix[bit] = 0
       /\ \A bit \in hi.len + 1 .. Bits : hi.prefix[bit] = 0
  BY <1>2, <1>12, <1>13, HalvesCover
<1>15. \A x : Covers(r, x) <=> Covers(hi, x)
  BY <1>4, <1>12 DEF Covers
<1>16. b.prefix \in Ids /\ b.len \in Nat /\ b.len + 1 + 1 = b.len + 2 /\ b.nodes \in NodeMap
  BY DEF BucketType
<1>17. \A bit \in b.len + 2 .. Bits : b.prefix[bit] = 0 /\ p[bit] = 0
  BY <1>12, <1>14, <1>16
<1>18. \A x \in DOMAIN b.nodes : x \in Ids /\ Covers(b, x)
  BY <1>1, <1>16, NodeMapIs DEF BucketInv, NodesInv
<1>19. \A j \in 1 .. Len(b.replacements) : b.replacements[j].id \in Ids /\ Covers(b, b.replacements[j].id)
  <2>1. \A j \in 1 .. Len(b.replacements) : b.replacements[j] \in Contact
    BY <1>7
  <2>2. \A j \in 1 .. Len(b.replacements) : Covers(b, b.replacements[j].id)
    BY <1>1 DEF BucketInv, CandidatesInv
  <2> QED
    BY <2>1, <2>2 DEF Contact
<1>20. Takes(b, lo, b.prefix, lids, lplaces)
  <2>1. \A x \in lids : Covers(lo, x)
    BY <1>5, <1>8, <1>14, <1>15, <1>18
  <2>2. \A j \in lplaces : Covers(lo, b.replacements[j].id)
    BY <1>6, <1>7, <1>8, <1>14, <1>15, <1>19
  <2> QED
    BY <1>1, <1>8, <1>9, <1>13, <1>16, <1>17, <2>1, <2>2 DEF Takes
<1>21. Takes(b, hi, p, ids, places)
  <2>1. \A x \in ids : Covers(hi, x)
    BY <1>5, <1>15
  <2>2. \A j \in places : Covers(hi, b.replacements[j].id)
    BY <1>6, <1>15
  <2>3. ids \subseteq DOMAIN b.nodes /\ places \subseteq 1 .. Len(b.replacements)
    BY <1>5, <1>6, <1>7
  <2> QED
    BY <1>1, <1>9, <1>13, <1>14, <1>17, <2>1, <2>2, <2>3 DEF Takes
<1>22. /\ BucketInv(lo) /\ DOMAIN lo.nodes = lids
       /\ \A j \in 1 .. Len(lo.replacements) : \E l \in lplaces : lo.replacements[j] = b.replacements[l]
  BY <1>20, HalfInv
<1>23. /\ BucketInv(hi) /\ DOMAIN hi.nodes = ids
       /\ \A j \in 1 .. Len(hi.replacements) : \E l \in places : hi.replacements[j] = b.replacements[l]
  BY <1>21, HalfInv
<1>24. SplitAt(t, u, i, lo, hi)
  <2>1. SplitInto(t, u, i, lo, hi)
    BY <1>11, <1>22, <1>23, ShapeFacts DEF SplitInto, BucketInv
  <2> QED
    BY <2>1, SplitPlaces
<1>25. Halved(t, u, i, lo, hi)
  BY <1>1, <1>12, <1>14, <1>22, <1>23, <1>24 DEF Halved
<1>26. Shape(u)
  BY <1>25, HalvedShape
<1>27. CandidateIds(u) \subseteq CandidateIds(t)
  <2>1. \A j \in 1 .. Len(lo.replacements) :
          \E l \in 1 .. Len(t[i].replacements) : lo.replacements[j] = t[i].replacements[l]
    BY <1>1, <1>8, <1>22
  <2>2. \A j \in 1 .. Len(hi.replacements) :
          \E l \in 1 .. Len(t[i].replacements) : hi.replacements[j] = t[i].replacements[l]
    BY <1>1, <1>6, <1>7, <1>23
  <2> QED
    BY <1>25, <2>1, <2>2, HalvedCandidates
<1>28. LiveIds(u) = LiveIds(t)
  <2>1. DOMAIN t[i].nodes = DOMAIN lo.nodes \cup DOMAIN hi.nodes
    BY <1>1, <1>5, <1>8, <1>22, <1>23
  <2> QED
    BY <1>25, <2>1, HalvedLive
<1> QED
  BY <1>10, <1>24, <1>26, <1>27, <1>28 DEF Refines, SplitAt

(***************************************************************************)
(* mark_validated.                                                         *)
(***************************************************************************)
LEMMA RefinesAgain ==
    ASSUME NEW t, NEW u, NEW v, Refines(t, u), Refines(u, v)
    PROVE  Refines(t, v)
BY DEF Refines

LEMMA RefinesItself ==
    ASSUME NEW t, Shape(t)
    PROVE  Refines(t, t)
BY DEF Refines

\* What one turn of the loop makes of a table.
Turn(t, id) == IF NeedsSplit(t, id) THEN split_bucket(t, bucket_index(t, id)) ELSE t

LEMMA TurnRefines ==
    ASSUME NEW t, Shape(t), NEW id \in Ids
    PROVE  Refines(t, Turn(t, id)) /\ (NeedsSplit(t, id) => Len(Turn(t, id)) = Len(t) + 1)
<1>1. PICK i \in 1 .. Len(t) : i = bucket_index(t, id)
  BY HomeIs
<1>2. CASE NeedsSplit(t, id)
  <2>1. Covers(t[i], OurId) /\ t[i].len < Bits
    BY <1>1, <1>2 DEF NeedsSplit
  <2> QED
    BY <1>1, <1>2, <2>1, SplitRefines DEF Turn
<1>3. CASE ~NeedsSplit(t, id)
  BY <1>3, RefinesItself DEF Turn
<1> QED
  BY <1>2, <1>3

\* The tables after 0 .. n turns.
Turns(t, id, n, f) ==
    f = [k \in 0 .. n |-> IF k = 0 THEN t ELSE Turn(f[k - 1], id)]

LEMMA TurnsAre ==
    ASSUME NEW t, NEW id, NEW n \in Nat, NEW f, Turns(t, id, n, f)
    PROVE  /\ DOMAIN f = 0 .. n
           /\ f[0] = t
           /\ \A k \in 0 .. n : k # 0 => f[k] = Turn(f[k - 1], id)
<1>1. f = [k \in 0 .. n |-> IF k = 0 THEN t ELSE Turn(f[k - 1], id)]
  BY DEF Turns
<1>2. PICK g : g = f
  OBVIOUS
<1>3. f = [k \in 0 .. n |-> IF k = 0 THEN t ELSE Turn(g[k - 1], id)]
  BY <1>1, <1>2
<1>4. DOMAIN f = 0 .. n /\ \A k \in 0 .. n : f[k] = IF k = 0 THEN t ELSE Turn(g[k - 1], id)
  BY <1>3
<1>5. f[0] = t
  BY <1>4
<1>6. ASSUME NEW k \in 0 .. n, k # 0 PROVE f[k] = Turn(f[k - 1], id)
  BY <1>2, <1>4, <1>6
<1> QED
  BY <1>4, <1>5, <1>6

\* The recursive definition defines a function.
LEMMA TurnsExist ==
    ASSUME NEW t, NEW id, NEW n \in Nat
    PROVE  \E f : Turns(t, id, n, f)
<1> DEFINE T == {m \in Nat : ~\E f : Turns(t, id, m, f)}
<1>1. T = {}
  <2> SUFFICES ASSUME T # {} PROVE FALSE
    OBVIOUS
  <2>1. PICK m \in T : \A k \in T : m <= k
    <3>1. T \subseteq Nat
      OBVIOUS
    <3> HIDE DEF T
    <3> QED
      BY <3>1, LeastNatural
  <2>2. m \in Nat /\ ~\E f : Turns(t, id, m, f)
    OBVIOUS
  <2>3. CASE m = 0
    <3>1. PICK f : f = [k \in 0 .. 0 |-> t]
      OBVIOUS
    <3>2. f = [k \in 0 .. 0 |-> IF k = 0 THEN t ELSE Turn(f[k - 1], id)]
      <4>1. \A k \in 0 .. 0 : k = 0
        OBVIOUS
      <4> QED
        BY <3>1, <4>1
    <3>3. Turns(t, id, 0, f)
      BY <3>2 DEF Turns
    <3> QED
      BY <2>2, <2>3, <3>3
  <2>4. CASE m # 0
    <3>1. m - 1 \in Nat /\ ~(m <= m - 1)
      BY <2>2, <2>4
    <3>2. m - 1 \notin T
      BY <2>1, <3>1
    <3>3. PICK f : Turns(t, id, m - 1, f)
      BY <3>1, <3>2
    <3>4. /\ DOMAIN f = 0 .. m - 1 /\ f[0] = t
          /\ \A k \in 0 .. m - 1 : k # 0 => f[k] = Turn(f[k - 1], id)
      <4>1. PICK l \in Nat : l = m - 1
        BY <3>1
      <4> QED
        BY <3>3, <4>1, TurnsAre
    <3>5. PICK g : g = [k \in 0 .. m |-> IF k = m THEN Turn(f[m - 1], id) ELSE f[k]]
      OBVIOUS
    <3>6. ASSUME NEW k \in 0 .. m
          PROVE  g[k] = IF k = 0 THEN t ELSE Turn(g[k - 1], id)
      <4>1. g[m] = Turn(f[m - 1], id) /\ \A l \in 0 .. m : l # m => g[l] = f[l]
        BY <2>2, <3>5
      <4>2. CASE k = 0
        BY <2>2, <2>4, <3>4, <4>1, <4>2
      <4>3. CASE k # 0
        <5>1. k - 1 \in 0 .. m /\ k - 1 # m
          BY <2>2, <4>3
        <5>2. g[k - 1] = f[k - 1]
          BY <4>1, <5>1
        <5>3. CASE k = m
          BY <4>1, <4>3, <5>2, <5>3
        <5>4. CASE k # m
          <6>1. k \in 0 .. m - 1
            BY <2>2, <5>4
          <6> QED
            BY <3>4, <4>1, <4>3, <5>2, <5>4, <6>1
        <5> QED
          BY <5>3, <5>4
      <4> QED
        BY <4>2, <4>3
    <3>7. g = [k \in 0 .. m |-> IF k = 0 THEN t ELSE Turn(g[k - 1], id)]
      <4>1. g = [k \in 0 .. m |-> g[k]]
        BY <3>5
      <4> QED
        BY <3>6, <4>1
    <3> QED
      BY <2>2, <3>7 DEF Turns
  <2> QED
    BY <2>3, <2>4
<1> QED
  BY <1>1

\* The loop, however often it turns, refines the table.
LEMMA SplitForRefines ==
    ASSUME NEW t, Shape(t), NEW id \in Ids
    PROVE  Refines(t, SplitFor(t, id))
<1>1. Bits \in Nat
  BY RoutingAssumption
<1>2. PICK f : f = CHOOSE g : Turns(t, id, Bits, g)
  OBVIOUS
<1>3. Turns(t, id, Bits, f)
  BY <1>1, <1>2, TurnsExist
<1>4. /\ f[0] = t
      /\ \A k \in 0 .. Bits : k # 0 => f[k] = Turn(f[k - 1], id)
  <2>1. PICK n \in Nat : n = Bits
    BY <1>1
  <2>2. Turns(t, id, n, f)
    BY <1>3, <2>1
  <2>3. f[0] = t /\ \A k \in 0 .. n : k # 0 => f[k] = Turn(f[k - 1], id)
    BY <2>2, TurnsAre
  <2> QED
    BY <2>1, <2>3
<1>5. SplitFor(t, id) = f[Bits]
  <2>1. SplitFor(t, id) = (CHOOSE g : Turns(t, id, Bits, g))[Bits]
    BY Zenon DEF SplitFor, Turns, Turn
  <2> QED
    BY <1>2, <2>1
<1> DEFINE T == {m \in Nat : m <= Bits /\ ~Refines(t, f[m])}
<1>6. T = {}
  <2> SUFFICES ASSUME T # {} PROVE FALSE
    OBVIOUS
  <2>1. PICK m \in T : \A k \in T : m <= k
    <3>1. T \subseteq Nat
      OBVIOUS
    <3> HIDE DEF T
    <3> QED
      BY <3>1, LeastNatural
  <2>2. m \in Nat /\ m <= Bits /\ ~Refines(t, f[m])
    OBVIOUS
  <2>3. m # 0
    BY <1>4, <2>2, RefinesItself
  <2>4. m - 1 \in Nat /\ m - 1 <= Bits /\ ~(m <= m - 1) /\ m \in 0 .. Bits
    BY <1>1, <2>2, <2>3
  <2>5. Refines(t, f[m - 1])
    <3>1. m - 1 \notin T
      BY <2>1, <2>4
    <3> QED
      BY <2>4, <3>1
  <2>6. Refines(f[m - 1], Turn(f[m - 1], id))
    BY <2>5, TurnRefines DEF Refines
  <2>7. f[m] = Turn(f[m - 1], id)
    BY <1>4, <2>3, <2>4
  <2> QED
    BY <2>2, <2>5, <2>6, <2>7, RefinesAgain
<1> QED
  BY <1>1, <1>5, <1>6

\* A node that is not in the bucket yet.
Newcomer(u, v, i, id, fresh) ==
    /\ Shape(u) /\ i = bucket_index(u, id) /\ id \in Ids /\ id # OurId
    /\ id \notin DOMAIN u[i].nodes
    /\ Cardinality(DOMAIN u[i].nodes) < K
    /\ fresh \in NodeRecord
    /\ v = [u EXCEPT
            ![i].replacements = Picked(@, {j \in DOMAIN @ : @[j].id # id}),
            ![i].nodes = [x \in DOMAIN u[i].nodes \cup {id} |-> IF x = id THEN fresh ELSE @[x]]]

Grows(u, v) ==
    Shape(v) /\ CandidateIds(v) \subseteq CandidateIds(u) /\ LiveIds(u) \subseteq LiveIds(v)

LEMMA NewcomerGrows ==
    ASSUME NEW u, NEW v, NEW i, NEW id, NEW fresh, Newcomer(u, v, i, id, fresh)
    PROVE  Grows(u, v)
<1>0. /\ Shape(u) /\ i = bucket_index(u, id) /\ id \in Ids /\ id # OurId
      /\ id \notin DOMAIN u[i].nodes
      /\ Cardinality(DOMAIN u[i].nodes) < K
      /\ fresh \in NodeRecord
  BY DEF Newcomer
<1>1. i \in 1 .. Len(u) /\ Covers(u[i], id)
  BY <1>0, HomeIs
<1>2. /\ u \in Seq(BucketType) /\ DOMAIN u = 1 .. Len(u) /\ BucketInv(u[i]) /\ u[i] \in BucketType
      /\ u[i].nodes \in NodeMap /\ u[i].replacements \in Seq(Contact)
      /\ DOMAIN u[i].replacements = 1 .. Len(u[i].replacements)
  BY <1>0, <1>1, ShapeFacts
<1>3. PICK r \in Seq(Contact) : r = u[i].replacements
  BY <1>2
<1>4. PICK f \in NodeMap : f = u[i].nodes
  BY <1>2
<1>5. PICK places : places = {j \in 1 .. Len(r) : r[j].id # id}
  OBVIOUS
<1>6. PICK q : q = Picked(r, places)
  OBVIOUS
<1>7. PICK n : n = [x \in DOMAIN f \cup {id} |-> IF x = id THEN fresh ELSE f[x]]
  OBVIOUS
<1>8. PICK w : w = [u EXCEPT ![i].replacements = q]
  OBVIOUS
<1>9. places \in SUBSET (1 .. Len(r))
  BY <1>5
<1>10. q \in Seq(Contact) /\ Len(q) <= Len(r) /\ \E at : PickedBy(q, r, places, at)
  BY <1>6, <1>9, PickedIs
<1>11. PICK at : PickedBy(q, r, places, at)
  BY <1>10
<1>12. \A j \in 1 .. Len(q) : at[j] \in places /\ at[j] \in 1 .. Len(r) /\ q[j] = r[at[j]]
                             /\ q[j].id # id
  BY <1>5, <1>11 DEF PickedBy
<1>13. ReplacementsFit(u[i], r)
  BY <1>2, <1>3, OwnReplacementsFit
<1>14. ReplacementsFit(u[i], q)
  <2>1. Len(q) \in Nat /\ Len(r) \in Nat /\ Len(r) <= K
    BY <1>10, <1>13 DEF ReplacementsFit
  <2>2. Len(q) <= K
    BY <1>10, <2>1, RoutingAssumption
  <2>3. \A j \in 1 .. Len(q) :
          Covers(u[i], q[j].id) /\ q[j].id # OurId /\ q[j].id \notin DOMAIN u[i].nodes
    BY <1>12, <1>13 DEF ReplacementsFit
  <2>4. ASSUME NEW j \in 1 .. Len(q), NEW l \in 1 .. Len(q), q[j].id = q[l].id PROVE j = l
    <3>1. at[j] = at[l] /\ at[j] \in Nat
      BY <1>12, <1>13, <2>4 DEF ReplacementsFit
    <3>2. ~(j < l) /\ ~(l < j)
      BY <1>11, <3>1 DEF PickedBy
    <3> QED
      BY <2>1, <3>2
  <2> QED
    BY <1>10, <2>2, <2>3, <2>4 DEF ReplacementsFit
<1>15. /\ Shape(w) /\ Len(w) = Len(u) /\ w[i].replacements = q
       /\ \A k \in 1 .. Len(u) : k # i => w[k] = u[k]
       /\ \A k \in 1 .. Len(u) : w[k].nodes = u[k].nodes /\ w[k].prefix = u[k].prefix
                                 /\ w[k].len = u[k].len
       /\ LiveIds(w) = LiveIds(u)
  <2>1. ReplacementsBecome(u, w, i, q)
    BY <1>0, <1>1, <1>8, <1>14 DEF ReplacementsBecome
  <2> QED
    BY <2>1, ReplacementsChange
<1>16. n \in NodeMap /\ DOMAIN n = DOMAIN f \cup {id}
  <2>1. DOMAIN f \subseteq Ids /\ \A x \in DOMAIN f : f[x] \in NodeRecord
    BY NodeMapIs
  <2>2. n \in [DOMAIN f \cup {id} -> NodeRecord] /\ (DOMAIN f \cup {id}) \in SUBSET Ids
    BY <1>0, <1>7, <2>1
  <2> QED
    BY <2>2, NodeMapIs
<1>17. NodesFit(w[i], n)
  <2>1. \A x : Covers(w[i], x) <=> Covers(u[i], x)
    BY <1>1, <1>15 DEF Covers
  <2>2. /\ IsFiniteSet(DOMAIN f) /\ Cardinality(DOMAIN f) < K
        /\ \A x \in DOMAIN f : Covers(u[i], x) /\ x # OurId
    BY <1>0, <1>2, <1>4 DEF BucketInv, NodesInv
  <2>3. IsFiniteSet(DOMAIN f \cup {id}) /\ Cardinality(DOMAIN f \cup {id}) = Cardinality(DOMAIN f) + 1
    BY <1>0, <1>4, <2>2, FS_AddElement
  <2>4. Cardinality(DOMAIN f) \in Nat
    BY <2>2, FS_CardinalityType
  <2>5. Cardinality(DOMAIN n) <= K
    BY <1>16, <2>2, <2>3, <2>4, RoutingAssumption
  <2>6. \A x \in DOMAIN n : Covers(w[i], x) /\ x # OurId
    BY <1>0, <1>1, <1>16, <2>1, <2>2
  <2>7. \A j \in 1 .. Len(w[i].replacements) : w[i].replacements[j].id \notin DOMAIN n
    BY <1>4, <1>12, <1>14, <1>15, <1>16 DEF ReplacementsFit
  <2> QED
    BY <1>16, <2>3, <2>5, <2>6, <2>7 DEF NodesFit
<1>18. v = [w EXCEPT ![i].nodes = n]
  <2>1. v = [u EXCEPT ![i] = [[u[i] EXCEPT !.replacements = q] EXCEPT !.nodes = n]]
    <3>1. \A x : x \in DOMAIN r <=> x \in 1 .. Len(r)
      BY <1>2, <1>3
    <3>2. q = Picked(u[i].replacements, {j \in DOMAIN u[i].replacements : u[i].replacements[j].id # id})
      BY <1>2, <1>3, <1>5, <1>6
    <3> QED
      BY <1>4, <1>7, <3>2 DEF Newcomer
  <2> QED
    BY <1>1, <1>2, <1>8, <2>1
<1>19. /\ Shape(v) /\ Len(v) = Len(w) /\ v[i].nodes = n /\ CandidateIds(v) = CandidateIds(w)
       /\ \A k \in 1 .. Len(w) : k # i => v[k] = w[k]
  <2>1. NodesBecome(w, v, i, n)
    BY <1>1, <1>15, <1>17, <1>18 DEF NodesBecome
  <2> QED
    BY <2>1, NodesChange
<1>20. CandidateIds(w) \subseteq CandidateIds(u)
  <2>1. ASSUME NEW x \in CandidateIds(w) PROVE x \in CandidateIds(u)
    <3>1. PICK k \in 1 .. Len(u) : \E j \in 1 .. Len(w[k].replacements) : x = w[k].replacements[j].id
      BY <1>15, CandidateAt
    <3>2. PICK j \in 1 .. Len(w[k].replacements) : x = w[k].replacements[j].id
      BY <3>1
    <3>3. CASE k # i
      BY <1>15, <3>2, <3>3, CandidateAt
    <3>4. CASE k = i
      <4>1. at[j] \in 1 .. Len(r) /\ x = r[at[j]].id
        BY <1>12, <1>15, <3>2, <3>4
      <4> QED
        BY <1>1, <1>3, <4>1, CandidateAt
    <3> QED
      BY <3>3, <3>4
  <2> QED
    BY <2>1
<1>21. LiveIds(w) \subseteq LiveIds(v)
  <2>1. DOMAIN w = 1 .. Len(u) /\ DOMAIN v = 1 .. Len(u)
    BY <1>15, <1>19, ShapeFacts
  <2>2. \A k \in 1 .. Len(u) : DOMAIN w[k].nodes \subseteq DOMAIN v[k].nodes
    BY <1>4, <1>15, <1>16, <1>19
  <2> QED
    BY <2>1, <2>2 DEF LiveIds
<1> QED
  BY <1>15, <1>19, <1>20, <1>21 DEF Grows

\* A live node that answers.
Refreshed(t, v, i, id, fresh) ==
    /\ Shape(t) /\ i \in 1 .. Len(t) /\ id \in DOMAIN t[i].nodes
    /\ fresh \in NodeRecord
    /\ v = [t EXCEPT ![i].nodes[id] = fresh]

LEMMA RefreshGrows ==
    ASSUME NEW t, NEW v, NEW i, NEW id, NEW fresh, Refreshed(t, v, i, id, fresh)
    PROVE  Grows(t, v)
<1>0. Shape(t) /\ i \in 1 .. Len(t) /\ id \in DOMAIN t[i].nodes /\ fresh \in NodeRecord
  BY DEF Refreshed
<1>1. BucketInv(t[i]) /\ t[i].nodes \in NodeMap /\ DOMAIN t = 1 .. Len(t) /\ t \in Seq(BucketType)
      /\ t[i] \in BucketType
  BY <1>0, ShapeFacts
<1>2. PICK f \in NodeMap : f = t[i].nodes
  BY <1>1
<1>3. f \in [DOMAIN f -> NodeRecord] /\ DOMAIN f \subseteq Ids
  BY NodeMapIs
<1>4. PICK n : n = [f EXCEPT ![id] = fresh]
  OBVIOUS
<1>5. n \in [DOMAIN f -> NodeRecord] /\ DOMAIN n = DOMAIN f
  BY <1>0, <1>3, <1>4
<1>6. n \in NodeMap
  BY <1>3, <1>5, NodeMapIs
<1>7. NodesFit(t[i], n)
  BY <1>1, <1>2, <1>5, <1>6, FewerNodesFit
<1>8. v = [t EXCEPT ![i].nodes = n]
  BY <1>2, <1>4 DEF Refreshed
<1>9. /\ Shape(v) /\ Len(v) = Len(t) /\ v[i].nodes = n /\ CandidateIds(v) = CandidateIds(t)
      /\ \A k \in 1 .. Len(t) : k # i => v[k] = t[k]
  <2>1. NodesBecome(t, v, i, n)
    BY <1>0, <1>7, <1>8 DEF NodesBecome
  <2> QED
    BY <2>1, NodesChange
<1>10. LiveIds(t) \subseteq LiveIds(v)
  <2>1. DOMAIN v = 1 .. Len(t)
    BY <1>9, ShapeFacts
  <2>2. \A k \in 1 .. Len(t) : DOMAIN v[k].nodes = DOMAIN t[k].nodes
    BY <1>2, <1>5, <1>9
  <2> QED
    BY <1>1, <2>1, <2>2 DEF LiveIds
<1> QED
  BY <1>9, <1>10 DEF Grows

LEMMA GrowsPreserves ==
    ASSUME NEW t, NEW u, NEW v, Refines(t, u), Grows(u, v)
    PROVE  Preserves(t, v) /\ Preserves(t, u)
<1>1. LiveIds(t) \subseteq LiveIds(v) /\ LiveIds(t) \subseteq LiveIds(u)
  BY DEF Refines, Grows
<1>2. Keeps(t, v) /\ Keeps(t, u)
  BY <1>1, KeepsAll
<1> QED
  BY <1>2 DEF Refines, Grows, Preserves

LEMMA ValidatedStep ==
    ASSUME NEW t, TableInv(t), NEW c \in Contact
    PROVE  TableInv(mark_validated(t, c)) /\ Keeps(t, mark_validated(t, c))
<1>1. Shape(t) /\ c.id \in Ids /\ c.addr \in Addrs
  BY DEF TableInv, Contact
<1>2. PICK here \in 1 .. Len(t) : here = bucket_index(t, c.id)
  BY <1>1, HomeIs
<1>3. PICK fresh \in NodeRecord : fresh = [addr |-> c.addr, unanswered |-> 0]
  <2>1. 0 \in 0 .. BadAfterFailures - 1
    BY DEF BadAfterFailures
  <2>2. [addr |-> c.addr, unanswered |-> 0] \in NodeRecord
    BY <1>1, <2>1 DEF NodeRecord
  <2> QED
    BY <2>2
<1>4. PICK v : v = mark_validated(t, c)
  OBVIOUS
<1>5. CASE c.id = OurId
  <2>1. v = t
    BY <1>4, <1>5 DEF mark_validated
  <2> QED
    BY <1>4, <2>1, KeepsAll
<1>6. CASE c.id # OurId /\ c.id \in DOMAIN t[here].nodes
  <2>1. v = [t EXCEPT ![here].nodes[c.id] = fresh]
    BY <1>2, <1>3, <1>4, <1>6 DEF mark_validated
  <2>2. Grows(t, v)
    <3>1. Refreshed(t, v, here, c.id, fresh)
      BY <1>1, <1>6, <2>1 DEF Refreshed
    <3> QED
      BY <3>1, RefreshGrows
  <2>3. Preserves(t, v)
    BY <1>1, <2>2, RefinesItself, GrowsPreserves
  <2> QED
    BY <1>4, <2>3, PreservedCount DEF Preserves
<1>7. CASE c.id # OurId /\ c.id \notin DOMAIN t[here].nodes
  <2>1. PICK u : u = SplitFor(t, c.id)
    OBVIOUS
  <2>2. Refines(t, u)
    BY <1>1, <2>1, SplitForRefines
  <2>3. Shape(u) /\ LiveIds(u) = LiveIds(t)
    BY <2>2 DEF Refines
  <2>4. PICK i \in 1 .. Len(u) : i = bucket_index(u, c.id)
    BY <1>1, <2>3, HomeIs
  <2>5. c.id \notin DOMAIN u[i].nodes
    <3>1. c.id \notin LiveIds(t)
      BY <1>1, <1>2, <1>7, LiveAtHome
    <3> QED
      BY <1>1, <2>3, <2>4, <3>1, LiveAtHome
  <2>6. PICK bad : bad = {x \in DOMAIN u[i].nodes : u[i].nodes[x].unanswered >= BadAfterFailures}
    OBVIOUS
  <2>7. bad = {}
    <3>1. u[i].nodes \in NodeMap
      BY <2>3, ShapeFacts
    <3>2. \A x \in DOMAIN u[i].nodes : u[i].nodes[x] \in NodeRecord
      BY <3>1, NodeMapIs
    <3>3. \A x \in DOMAIN u[i].nodes : u[i].nodes[x].unanswered \in 0 .. 1
      BY <3>2 DEF NodeRecord, BadAfterFailures
    <3> QED
      BY <2>6, <3>3 DEF BadAfterFailures
  <2>8. IsFiniteSet(DOMAIN u[i].nodes) /\ Cardinality(DOMAIN u[i].nodes) \in Nat
    BY <2>3, ShapeFacts, FS_CardinalityType DEF BucketInv, NodesInv
  <2>9. CASE Cardinality(DOMAIN u[i].nodes) >= K
    <3>1. v = add_candidate(u, c)
      BY <1>2, <1>4, <1>7, <2>1, <2>4, <2>6, <2>7, <2>9 DEF mark_validated
    <3>2. Preserves(t, u)
      <4>1. Grows(u, u)
        BY <2>3 DEF Grows
      <4> QED
        BY <2>2, <4>1, GrowsPreserves
    <3>3. TableInv(u)
      BY <3>2, PreservedCount
    <3>4. TableInv(v) /\ LiveIds(v) = LiveIds(u)
      BY <3>1, <3>3, AddStep
    <3>5. Keeps(t, v)
      BY <2>3, <3>4, KeepsAll
    <3> QED
      BY <1>4, <3>4, <3>5
  <2>10. CASE Cardinality(DOMAIN u[i].nodes) < K
    <3>1. ~(Cardinality(DOMAIN u[i].nodes) >= K)
      BY <2>8, <2>10, RoutingAssumption
    <3>2. v = [u EXCEPT
                ![i].replacements = Picked(@, {j \in DOMAIN @ : @[j].id # c.id}),
                ![i].nodes = [x \in DOMAIN u[i].nodes \cup {c.id} |-> IF x = c.id THEN fresh ELSE @[x]]]
      BY <1>2, <1>3, <1>4, <1>7, <2>1, <2>4, <2>10, <3>1, Zenon DEF mark_validated
    <3>3. Newcomer(u, v, i, c.id, fresh)
      BY <1>1, <1>7, <2>3, <2>4, <2>5, <2>10, <3>2 DEF Newcomer
    <3>4. Preserves(t, v)
      BY <2>2, <3>3, NewcomerGrows, GrowsPreserves
    <3> QED
      BY <1>4, <3>4, PreservedCount DEF Preserves
  <2> QED
    BY <2>8, <2>9, <2>10, RoutingAssumption
<1> QED
  BY <1>5, <1>6, <1>7

\* As long as the loop turns, there is one more bucket after every turn; as there
\* are at most Bits + 1, it ends.
LEMMA LoopEnds ==
    ASSUME NEW t, Shape(t), NEW id \in Ids
    PROVE  ~NeedsSplit(SplitFor(t, id), id)
<1>1. PICK n \in Nat : n = Bits
  BY RoutingAssumption
<1>2. PICK f : f = CHOOSE g : Turns(t, id, n, g)
  OBVIOUS
<1>3. Turns(t, id, n, f)
  BY <1>2, TurnsExist
<1>4. f[0] = t /\ \A k \in 0 .. n : k # 0 => f[k] = Turn(f[k - 1], id)
  BY <1>3, TurnsAre
<1>5. SplitFor(t, id) = f[n]
  <2>1. SplitFor(t, id) = (CHOOSE g : Turns(t, id, Bits, g))[Bits]
    BY Zenon DEF SplitFor, Turns, Turn
  <2> QED
    BY <1>1, <1>2, <2>1
<1> DEFINE Holds(m) == Shape(f[m]) /\ (NeedsSplit(f[m], id) => Len(f[m]) >= m + 1)
           T == {m \in Nat : m <= n /\ ~Holds(m)}
<1>6. T = {}
  <2> SUFFICES ASSUME T # {} PROVE FALSE
    OBVIOUS
  <2>1. PICK m \in T : \A k \in T : m <= k
    <3>1. T \subseteq Nat
      OBVIOUS
    <3> HIDE DEF T
    <3> QED
      BY <3>1, LeastNatural
  <2>2. m \in Nat /\ m <= n /\ ~Holds(m)
    OBVIOUS
  <2>3. m # 0
    <3>1. Len(t) \in Nat /\ Len(t) # 0
      <4>1. \E i \in 1 .. Len(t) : Covers(t[i], id)
        BY DEF Shape, Homes
      <4> QED
        BY <4>1, ShapeFacts
    <3>2. Holds(0)
      BY <1>4, <3>1
    <3> QED
      BY <2>2, <3>2
  <2>4. PICK l \in Nat : l = m - 1 /\ l <= n /\ ~(m <= l) /\ m \in 0 .. n /\ m = l + 1
    BY <2>2, <2>3
  <2>5. Shape(f[l]) /\ (NeedsSplit(f[l], id) => Len(f[l]) >= l + 1)
    <3>1. l \notin T
      BY <2>1, <2>4
    <3> QED
      BY <2>4, <3>1
  <2>6. f[m] = Turn(f[l], id)
    BY <1>4, <2>3, <2>4
  <2>7. Shape(f[m])
    BY <2>5, <2>6, TurnRefines DEF Refines
  <2>8. ASSUME NeedsSplit(f[m], id) PROVE Len(f[m]) >= m + 1
    <3>1. CASE NeedsSplit(f[l], id)
      <4>1. Len(f[m]) = Len(f[l]) + 1 /\ Len(f[l]) >= l + 1
        BY <2>5, <2>6, <3>1, TurnRefines
      <4>2. Len(f[l]) \in Nat
        BY <2>5, ShapeFacts
      <4> QED
        BY <2>4, <4>1, <4>2
    <3>2. CASE ~NeedsSplit(f[l], id)
      <4>1. f[m] = f[l]
        BY <2>6, <3>2 DEF Turn
      <4> QED
        BY <2>8, <3>2, <4>1
    <3> QED
      BY <3>1, <3>2
  <2> QED
    BY <2>2, <2>7, <2>8
<1>7. Shape(f[n]) /\ (NeedsSplit(f[n], id) => Len(f[n]) >= n + 1)
  BY <1>1, <1>6
<1>8. ASSUME NeedsSplit(f[n], id) PROVE FALSE
  <2>1. PICK i \in 1 .. Len(f[n]) : i = bucket_index(f[n], id)
    BY <1>7, HomeIs
  <2>2. Covers(f[n][i], OurId) /\ f[n][i].len < Bits
    BY <1>8, <2>1 DEF NeedsSplit
  <2>3. Len(f[n]) = f[n][i].len + 1
    BY <1>7, <2>2 DEF Shape, Path
  <2>4. f[n][i].len \in Nat
    BY <1>1, <1>7, ShapeFacts
  <2> QED
    BY <1>1, <1>7, <1>8, <2>2, <2>3, <2>4
<1> QED
  BY <1>5, <1>8

(***************************************************************************)
(* The theorems.                                                           *)
(***************************************************************************)
LEMMA InitialInv == Init => RoutingInv
<1> SUFFICES ASSUME Init PROVE TableInv(buckets)
  BY DEF RoutingInv
<1>1. PICK zero \in Ids : zero = [bit \in 1 .. Bits |-> 0]
  BY DEF Ids
<1>2. PICK b : b = Bucket(zero, 0)
  OBVIOUS
<1>3. b = [prefix |-> zero, len |-> 0, nodes |-> <<>>, replacements |-> <<>>]
  BY <1>2 DEF Bucket
<1>4. <<>> \in NodeMap /\ DOMAIN <<>> = {}
  <2>1. <<>> \in [{} -> NodeRecord] /\ {} \in SUBSET Ids
    OBVIOUS
  <2> QED
    BY <2>1, NodeMapIs
<1>5. 0 \in 0 .. Bits
  BY RoutingAssumption
<1>6. b \in BucketType
  BY <1>3, <1>4, <1>5 DEF BucketType
<1>7. b.nodes = <<>> /\ b.replacements = <<>> /\ b.len = 0 /\ b.prefix = zero
  BY <1>3
<1>8. BucketInv(b)
  <2>1. NodesInv(b)
    BY <1>4, <1>7, FS_EmptySet, RoutingAssumption DEF NodesInv
  <2>2. CandidatesInv(b)
    BY <1>7, RoutingAssumption DEF CandidatesInv
  <2>3. PrefixInv(b)
    BY <1>1, <1>7 DEF PrefixInv
  <2> QED
    BY <1>6, <2>1, <2>2, <2>3 DEF BucketInv
<1>9. buckets = <<b>>
  BY <1>1, <1>2 DEF Init
<1>10. buckets \in Seq(BucketType) /\ Len(buckets) = 1 /\ buckets[1] = b
  BY <1>6, <1>9
<1>11. \A id : Covers(b, id)
  BY <1>7 DEF Covers
<1>12. Homes(buckets) /\ Path(buckets)
  BY <1>7, <1>10, <1>11 DEF Homes, Path
<1>13. Shape(buckets)
  BY <1>8, <1>10, <1>12 DEF Shape
<1>14. CandidateIds(buckets) = {}
  <2>1. \A x : x \notin CandidateIds(buckets)
    BY <1>7, <1>10, CandidateAt
  <2> QED
    BY <2>1
<1>15. candidate_count(buckets) = 0
  BY <1>13, <1>14, SlotsAreIds, FS_EmptySet
<1> QED
  BY <1>13, <1>15, RoutingAssumption DEF TableInv

LEMMA NextStep == RoutingInv /\ Next => RoutingInv' /\ Keeps(buckets, buckets')
<1> SUFFICES ASSUME RoutingInv, Next PROVE RoutingInv' /\ Keeps(buckets, buckets')
  OBVIOUS
<1>1. TableInv(buckets)
  BY DEF RoutingInv
<1>2. ASSUME NEW c \in Contact, AddCandidate(c) PROVE TableInv(buckets') /\ Keeps(buckets, buckets')
  BY <1>1, <1>2, AddStep, KeepsAll DEF AddCandidate
<1>3. ASSUME NEW c \in Contact, MarkValidated(c) PROVE TableInv(buckets') /\ Keeps(buckets, buckets')
  BY <1>1, <1>3, ValidatedStep DEF MarkValidated
<1>4. ASSUME NEW id \in Ids, RecordFailure(id) PROVE TableInv(buckets') /\ Keeps(buckets, buckets')
  <2>1. Preserves(buckets, record_failure(buckets, id))
    BY <1>1, FailurePreserves DEF TableInv
  <2> QED
    BY <1>1, <1>4, <2>1, PreservedCount DEF RecordFailure, Preserves
<1> QED
  BY <1>2, <1>3, <1>4 DEF Next, RoutingInv

\* Every operation of the table preserves its invariant.
THEOREM RoutingInvariance == Spec => []RoutingInv
<1>1. Init => RoutingInv
  BY InitialInv
<1>2. RoutingInv /\ [Next]_buckets => RoutingInv'
  <2>1. CASE Next
    BY <2>1, NextStep
  <2>2. CASE UNCHANGED buckets
    BY <2>2 DEF RoutingInv, TableInv, Shape, Homes, Path
  <2> QED
    BY <2>1, <2>2
<1> QED
  BY <1>1, <1>2, PTL DEF Spec

LEMMA InvType == RoutingInv => TypeOK
<1> SUFFICES ASSUME TableInv(buckets) PROVE TypeOK
  BY DEF RoutingInv
<1>1. Shape(buckets)
  BY DEF TableInv
<1>2. ASSUME NEW i \in DOMAIN buckets
      PROVE  /\ buckets[i].prefix \in Ids
             /\ buckets[i].len \in 0 .. Bits
             /\ \A x \in DOMAIN buckets[i].nodes :
                 buckets[i].nodes[x] \in [addr : Addrs, unanswered : 0 .. BadAfterFailures - 1]
             /\ \A j \in DOMAIN buckets[i].replacements : buckets[i].replacements[j] \in Contact
  <2>1. i \in 1 .. Len(buckets)
    BY <1>1, ShapeFacts
  <2>2. /\ buckets[i].prefix \in Ids /\ buckets[i].len \in 0 .. Bits /\ buckets[i].nodes \in NodeMap
        /\ buckets[i].replacements \in Seq(Contact)
    BY <1>1, <2>1, ShapeFacts
  <2>3. \A x \in DOMAIN buckets[i].nodes : buckets[i].nodes[x] \in NodeRecord
    BY <2>2, NodeMapIs
  <2>4. \A j \in DOMAIN buckets[i].replacements : buckets[i].replacements[j] \in Contact
    BY <2>2
  <2> QED
    BY <2>2, <2>3, <2>4 DEF NodeRecord
<1> QED
  BY <1>2 DEF TypeOK

LEMMA InvSound == RoutingInv => TableSound
<1> SUFFICES ASSUME TableInv(buckets) PROVE TableSound
  BY DEF RoutingInv
<1>1. Shape(buckets) /\ candidate_count(buckets) <= MaxCandidates
  BY DEF TableInv
<1>2. DOMAIN buckets = 1 .. Len(buckets) /\ Len(buckets) \in Nat
  BY <1>1, ShapeFacts
<1>3. ASSUME NEW i \in DOMAIN buckets
      PROVE  /\ BucketInv(buckets[i]) /\ buckets[i].nodes \in NodeMap
             /\ DOMAIN buckets[i].replacements = 1 .. Len(buckets[i].replacements)
             /\ buckets[i].len \in 0 .. Bits /\ buckets[i].replacements \in Seq(Contact)
  BY <1>1, <1>2, ShapeFacts
<1>4. BucketsPartition
  <2>1. ASSUME NEW id \in Ids
        PROVE  Cardinality({i \in DOMAIN buckets : Covers(buckets[i], id)}) = 1
    <3>1. PICK k : k = bucket_index(buckets, id)
      OBVIOUS
    <3>2. k \in 1 .. Len(buckets) /\ Covers(buckets[k], id)
          /\ \A i \in 1 .. Len(buckets) : Covers(buckets[i], id) => i = k
      BY <1>1, <3>1, HomeIs
    <3>3. {i \in DOMAIN buckets : Covers(buckets[i], id)} = {k}
      BY <1>2, <3>2
    <3>4. Cardinality({k}) = 1
      BY FS_Singleton
    <3> QED
      BY <3>3, <3>4
  <2> QED
    BY <2>1 DEF BucketsPartition
<1>5. ContactsAtHome
  BY <1>3 DEF ContactsAtHome, BucketInv, NodesInv, CandidatesInv
<1>6. WithinCapacity
  <2>1. Len(buckets) <= Bits + 1
    <3>1. OurId \in Ids /\ Bits \in Nat
      BY RoutingAssumption
    <3>2. PICK k \in 1 .. Len(buckets) : Covers(buckets[k], OurId)
      BY <1>1, <3>1 DEF Shape, Homes
    <3>3. Len(buckets) = buckets[k].len + 1
      BY <1>1, <3>2 DEF Shape, Path
    <3>4. buckets[k].len \in 0 .. Bits
      BY <1>2, <1>3
    <3> QED
      BY <3>1, <3>3, <3>4
  <2>2. \A i \in DOMAIN buckets :
          Cardinality(DOMAIN buckets[i].nodes) <= K /\ Len(buckets[i].replacements) <= K
    BY <1>3 DEF BucketInv, NodesInv, CandidatesInv
  <2> QED
    BY <1>1, <2>1, <2>2 DEF WithinCapacity
<1>7. NoDuplicates
  <2>1. \A id \in Ids : id \in LiveIds(buckets) => id \in DOMAIN buckets[bucket_index(buckets, id)].nodes
    BY <1>1, LiveAtHome
  <2>2. OurId \notin LiveIds(buckets)
    BY <1>2, <1>3 DEF LiveIds, BucketInv, NodesInv
  <2>3. ASSUME NEW i \in DOMAIN buckets, NEW j \in DOMAIN buckets[i].replacements,
               NEW id, id = buckets[i].replacements[j].id
        PROVE  /\ id \in Ids /\ id # OurId /\ Covers(buckets[i], id)
               /\ id \notin LiveIds(buckets)
    <3>1. buckets[i].replacements[j] \in Contact
      BY <1>3
    <3>2. id \in Ids
      BY <2>3, <3>1 DEF Contact
    <3>3. id # OurId /\ Covers(buckets[i], id) /\ id \notin DOMAIN buckets[i].nodes
      BY <1>3, <2>3 DEF BucketInv, CandidatesInv
    <3>4. i = bucket_index(buckets, id)
      BY <1>1, <1>2, <3>2, <3>3, HomeIs
    <3> QED
      BY <2>1, <3>2, <3>3, <3>4
  <2>4. ASSUME NEW i \in DOMAIN buckets, NEW j \in DOMAIN buckets[i].replacements,
               NEW k \in DOMAIN buckets, NEW l \in DOMAIN buckets[k].replacements,
               buckets[k].replacements[l].id = buckets[i].replacements[j].id
        PROVE  k = i /\ l = j
    <3>1. PICK id : id = buckets[i].replacements[j].id
      OBVIOUS
    <3>2. id \in Ids /\ Covers(buckets[i], id)
      BY <2>3, <3>1
    <3>3. Covers(buckets[k], id)
      BY <2>3, <2>4, <3>1
    <3>4. k = i
      BY <1>1, <1>2, <3>2, <3>3 DEF Shape, Homes
    <3>5. l = j
      BY <1>3, <2>4, <3>4 DEF BucketInv, CandidatesInv
    <3> QED
      BY <3>4, <3>5
  <2> QED
    BY <2>2, <2>3, <2>4 DEF NoDuplicates
<1>8. SplittingEnds
  BY LoopEnds DEF TableInv, SplittingEnds
<1> QED
  BY <1>4, <1>5, <1>6, <1>7, <1>8 DEF TableSound

\* Prefixes are ids, prefix lengths at most their length, and no live node is bad
\* (src/routing.rs: Bucket and ContactRecord).
THEOREM TypeCorrect == Spec => []TypeOK
BY RoutingInvariance, InvType, PTL

\* The buckets partition the ids, so bucket_index never fails; every contact is in
\* the bucket of its id, once; no capacity is exceeded; and the loop of
\* mark_validated ends, at the latest when our own bucket has the length of an id
\* (src/routing.rs: bucket_index, split_bucket, add_candidate, mark_validated).
THEOREM TableIsSound == Spec => []TableSound
BY RoutingInvariance, InvSound, PTL

\* A live node leaves the table only at its second unanswered query, whatever
\* buckets are split and whoever else comes (src/routing.rs: mark_validated,
\* split_bucket, record_failure).
THEOREM LiveNodesStayThm == Spec => LiveNodesStay
<1>1. RoutingInv /\ [Next]_buckets =>
        [\A i \in DOMAIN buckets : \A x \in DOMAIN buckets[i].nodes :
            x \notin LiveIds(buckets') => buckets[i].nodes[x].unanswered = BadAfterFailures - 1]_buckets
  BY NextStep DEF Keeps
<1> QED
  BY <1>1, RoutingInvariance, PTL DEF Spec, LiveNodesStay
==============================================================================
