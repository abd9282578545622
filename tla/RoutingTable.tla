----------------------------- MODULE RoutingTable -----------------------------
(***************************************************************************)
(* The Kademlia routing table of src/routing.rs: buckets over prefixes of  *)
(* the id space, live nodes with their unanswered queries, and             *)
(* replacement candidates.  Node ids have Bits bits (160 in the code).     *)
(***************************************************************************)
EXTENDS Integers, Sequences, SequencesExt, Selection

CONSTANTS
    Bits,           \* length of a node id
    OurId,          \* our own node id
    Addrs,          \* endpoints
    K,              \* live nodes, and candidates, of a bucket (8)
    MaxCandidates   \* max_candidate_nodes, over all buckets

BadAfterFailures == 2

\* The bits of an id, the most significant one first.
Ids == [1 .. Bits -> {0, 1}]

ASSUME RoutingAssumption ==
    /\ Bits \in Nat \ {0}
    /\ OurId \in Ids
    /\ K \in Nat \ {0}
    /\ MaxCandidates \in Nat \ {0}

VARIABLE buckets    \* in the order of their prefixes

Contact == [id : Ids, addr : Addrs]

\* Bucket::new
Bucket(prefix, len) == [prefix |-> prefix, len |-> len, nodes |-> <<>>, replacements |-> <<>>]

\* Bucket::contains: the first len bits agree.
Covers(b, id) == \A bit \in 1 .. b.len : b.prefix[bit] = id[bit]

\* The order of the ids in a BTreeMap.
Precedes(x, y) ==
    \E bit \in 1 .. Bits : x[bit] < y[bit] /\ \A k \in 1 .. bit - 1 : x[k] = y[k]

bucket_index(t, id) == CHOOSE i \in DOMAIN t : Covers(t[i], id)

Restricted(f, S) == [x \in S |-> f[x]]
LiveIds(t) == UNION {DOMAIN t[i].nodes : i \in DOMAIN t}
candidate_count(t) ==
    Cardinality(UNION {{i} \X DOMAIN t[i].replacements : i \in DOMAIN t})

------------------------------------------------------------------------------

split_bucket_drops_upper(t, i) ==
    LET b == t[i]
        right == Bucket([b.prefix EXCEPT ![b.len + 1] = 1], b.len + 1)
        left == [prefix |-> b.prefix, len |-> b.len + 1,
                 nodes |-> Restricted(b.nodes, {x \in DOMAIN b.nodes : ~Covers(right, x)}),
                 replacements |-> b.replacements]
    IN  SubSeq(t, 1, i - 1) \o <<left, right>> \o SubSeq(t, i + 1, Len(t))

split_bucket_keeps_candidates_left(t, i) ==
    LET b == t[i]
        right == Bucket([b.prefix EXCEPT ![b.len + 1] = 1], b.len + 1)
        upper == {x \in DOMAIN b.nodes : Covers(right, x)}
    IN  SubSeq(t, 1, i - 1)
            \o <<[prefix |-> b.prefix, len |-> b.len + 1,
                  nodes |-> Restricted(b.nodes, DOMAIN b.nodes \ upper),
                  replacements |-> b.replacements],
                 [right EXCEPT !.nodes = Restricted(b.nodes, upper)]>>
            \o SubSeq(t, i + 1, Len(t))

\* split_bucket: nodes and candidates go to the right half if it contains them,
\* to the left half otherwise.
Half(b, prefix, ids, places) ==
    [prefix |-> prefix, len |-> b.len + 1,
     nodes |-> Restricted(b.nodes, ids), replacements |-> Picked(b.replacements, places)]

split_bucket(t, i) ==
    LET b == t[i]
        right_prefix == [b.prefix EXCEPT ![b.len + 1] = 1]
        right == Bucket(right_prefix, b.len + 1)
        ids == {x \in DOMAIN b.nodes : Covers(right, x)}
        places == {j \in DOMAIN b.replacements : Covers(right, b.replacements[j].id)}
    IN  SubSeq(t, 1, i - 1)
            \o <<Half(b, b.prefix, DOMAIN b.nodes \ ids, DOMAIN b.replacements \ places),
                 Half(b, right_prefix, ids, places)>>
            \o SubSeq(t, i + 1, Len(t))

\* The oldest candidate of the first bucket that has one makes room.
EvictCandidate(t) ==
    LET i == SelectInSeq(t, LAMBDA b : b.replacements # <<>>)
    IN  IF i = 0 \/ candidate_count(t) < MaxCandidates THEN t
        ELSE [t EXCEPT ![i].replacements = Tail(@)]

\* add_candidate: nothing happens for our own id, a live id, or an id or an
\* address among the candidates of the bucket.
add_candidate(t, c) ==
    LET i == bucket_index(t, c.id)
        known == \E j \in DOMAIN t[i].replacements :
                    \/ t[i].replacements[j].id = c.id
                    \/ t[i].replacements[j].addr = c.addr
        room == EvictCandidate(t)
    IN  IF c.id = OurId \/ c.id \in DOMAIN t[i].nodes \/ known THEN t
        ELSE [room EXCEPT ![i].replacements = Append(IF Len(@) >= K THEN Tail(@) ELSE @, c)]

\* A full bucket is split only if our own id is in it.
NeedsSplit(t, id) ==
    LET b == t[bucket_index(t, id)]
    IN  Cardinality(DOMAIN b.nodes) >= K /\ Covers(b, OurId) /\ b.len < Bits

\* The loop of mark_validated, as often as a bucket can be split.
SplitFor(t, id) ==
    LET after[n \in 0 .. Bits] ==
            IF n = 0 THEN t
            ELSE IF NeedsSplit(after[n - 1], id)
            THEN split_bucket(after[n - 1], bucket_index(after[n - 1], id))
            ELSE after[n - 1]
    IN  after[Bits]

\* mark_validated: refresh a live node, or insert it where there is room (a bad
\* node gives way), or keep it as a candidate.
mark_validated(t, c) ==
    LET here == bucket_index(t, c.id)
        u == SplitFor(t, c.id)
        i == bucket_index(u, c.id)
        bad == {x \in DOMAIN u[i].nodes : u[i].nodes[x].unanswered >= BadAfterFailures}
        stay == IF Cardinality(DOMAIN u[i].nodes) < K THEN DOMAIN u[i].nodes
                ELSE DOMAIN u[i].nodes \ {CHOOSE x \in bad : \A y \in bad \ {x} : Precedes(x, y)}
        fresh == [addr |-> c.addr, unanswered |-> 0]
    IN  IF c.id = OurId THEN t
        ELSE IF c.id \in DOMAIN t[here].nodes THEN [t EXCEPT ![here].nodes[c.id] = fresh]
        ELSE IF Cardinality(DOMAIN u[i].nodes) >= K /\ bad = {} THEN add_candidate(u, c)
        ELSE [u EXCEPT
                ![i].replacements = Picked(@, {j \in DOMAIN @ : @[j].id # c.id}),
                ![i].nodes = [x \in stay \cup {c.id} |-> IF x = c.id THEN fresh ELSE @[x]]]

record_failure_late(t, id) ==
    LET i == bucket_index(t, id)
    IN  IF id \notin DOMAIN t[i].nodes THEN t
        ELSE IF t[i].nodes[id].unanswered >= BadAfterFailures
        THEN [t EXCEPT ![i].nodes = Restricted(@, DOMAIN @ \ {id})]
        ELSE [t EXCEPT ![i].nodes[id].unanswered = @ + 1]

\* record_failure: a live node is removed at its second unanswered query.
record_failure(t, id) ==
    LET i == bucket_index(t, id)
    IN  IF id \notin DOMAIN t[i].nodes THEN t
        ELSE IF t[i].nodes[id].unanswered + 1 >= BadAfterFailures
        THEN [t EXCEPT ![i].nodes = Restricted(@, DOMAIN @ \ {id})]
        ELSE [t EXCEPT ![i].nodes[id].unanswered = @ + 1]

------------------------------------------------------------------------------
Init == buckets = <<Bucket([bit \in 1 .. Bits |-> 0], 0)>>

\* A node is named in an answer, answers a query, or fails to answer one.
AddCandidate(c) == buckets' = add_candidate(buckets, c)
MarkValidated(c) == buckets' = mark_validated(buckets, c)
RecordFailure(id) == buckets' = record_failure(buckets, id)

Next ==
    \/ \E c \in Contact : AddCandidate(c)
    \/ \E c \in Contact : MarkValidated(c)
    \/ \E id \in Ids : RecordFailure(id)

Spec == Init /\ [][Next]_buckets

------------------------------------------------------------------------------
(***************************************************************************)
(* Properties.                                                             *)
(***************************************************************************)
\* The table is a sequence of buckets; a live node has fewer unanswered
\* queries than make it bad, so no bad node waits to be replaced.
TypeOK ==
    \A i \in DOMAIN buckets :
        /\ buckets[i].prefix \in Ids
        /\ buckets[i].len \in 0 .. Bits
        /\ \A x \in DOMAIN buckets[i].nodes :
            buckets[i].nodes[x] \in [addr : Addrs, unanswered : 0 .. BadAfterFailures - 1]
        /\ \A j \in DOMAIN buckets[i].replacements : buckets[i].replacements[j] \in Contact

\* However buckets are split, every id belongs to exactly one of them, so
\* bucket_index cannot fail and no id has two homes.
BucketsPartition ==
    \A id \in Ids : Cardinality({i \in DOMAIN buckets : Covers(buckets[i], id)}) = 1

\* Every live node and every candidate is in the bucket of its id.
ContactsAtHome ==
    \A i \in DOMAIN buckets :
        /\ \A x \in DOMAIN buckets[i].nodes : Covers(buckets[i], x)
        /\ \A j \in DOMAIN buckets[i].replacements :
            Covers(buckets[i], buckets[i].replacements[j].id)

\* Capacity: at most K live nodes and K candidates in a bucket, at most
\* max_candidate_nodes in all; only the path to our own id is refined, so there
\* are at most Bits + 1 buckets.
WithinCapacity ==
    /\ Len(buckets) <= Bits + 1
    /\ candidate_count(buckets) <= MaxCandidates
    /\ \A i \in DOMAIN buckets :
        Cardinality(DOMAIN buckets[i].nodes) <= K /\ Len(buckets[i].replacements) <= K

\* No id is both live and a candidate, or a candidate twice; ours is neither.
NoDuplicates ==
    /\ OurId \notin LiveIds(buckets)
    /\ \A i \in DOMAIN buckets : \A j \in DOMAIN buckets[i].replacements :
        LET id == buckets[i].replacements[j].id
        IN  /\ id \notin LiveIds(buckets) \cup {OurId}
            /\ \A k \in DOMAIN buckets : \A l \in DOMAIN buckets[k].replacements :
                buckets[k].replacements[l].id = id => k = i /\ l = j

\* The loop of mark_validated ends: after as many splits as an id has bits, the
\* bucket of a node has room or is not the one to split.
SplittingEnds == \A id \in Ids : ~NeedsSplit(SplitFor(buckets, id), id)

\* However buckets are split and filled, the table is sound: the buckets
\* partition the ids, every contact is in the bucket of its id and there once,
\* no capacity is exceeded, and the splits for a node end.
TableSound ==
    BucketsPartition /\ ContactsAtHome /\ WithinCapacity /\ NoDuplicates /\ SplittingEnds

\* A node that answers is not dropped: it leaves the table only at its second
\* unanswered query, never because a bucket is split or another node comes.
LiveNodesStay ==
    [][\A i \in DOMAIN buckets : \A x \in DOMAIN buckets[i].nodes :
          x \notin LiveIds(buckets') => buckets[i].nodes[x].unanswered = BadAfterFailures - 1
      ]_buckets
==============================================================================
