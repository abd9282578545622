----------------------------- MODULE DhtRpcProofs -----------------------------
(***************************************************************************)
(* Proofs about DhtRpc, for every number of nodes, transaction ids,        *)
(* lookups and queue places and every timeout: an answer is never taken    *)
(* for the answer to another RPC, every lookup is counted once and by what *)
(* its answers carried, and the lookup queue agrees with its set.          *)
(***************************************************************************)
EXTENDS DhtRpc, FiniteSetTheorems, FunctionTheorems, TLAPS

(***************************************************************************)
(* The inductive invariant.                                                *)
(***************************************************************************)
\* discovery_queue holds each hash once and discovery_set holds the same.
QueueInv ==
    /\ queue \in Seq(Hashes) /\ Len(queue) <= MaxQueue
    /\ queued = QueueSet(queue)
    /\ \A i, j \in 1 .. Len(queue) : queue[i] = queue[j] => i = j

\* An RPC the crawler sends after `top' lookups have begun: a get_peers is for a
\* hash, and only a get_peers is for a real lookup.
GoodRpc(p, top) ==
    /\ p \in Rpc
    /\ p.method = "get_peers" => p.hash \in Hashes
    /\ p.real => p.method = "get_peers"
    /\ p.lookup <= top

\* What follows the last RPC of a handler fits the lookup of its RPCs.
Follows(p, then, top) ==
    \/ p.lookup = 0 /\ then = Done
    \/ p.lookup \in Lookups /\ p.lookup = top /\ then = Started(p.lookup)
    \/ p.lookup \in Lookups /\ \E found \in BOOLEAN : then = Respond(p.lookup, found)

\* A handler in progress sends RPCs with a full rpc_timeout.
TaskInv ==
    \/ task = Idle
    \/ task = Pop /\ begun < MaxLookups
    \/ /\ task = Sending(task.todo, task.rpc, task.then)
       /\ task.todo \in Seq(Nodes)
       /\ GoodRpc(task.rpc, begun) /\ task.rpc.ttl = RpcTimeout
       /\ Follows(task.rpc, task.then, begun)

TableInv ==
    /\ routing \in [Nodes -> Standing]
    /\ next_tx \in Tx
    /\ begun \in 0 .. MaxLookups

\* A transaction id is pending, or retired, or free.
TransactionInv ==
    /\ pending = [tx \in Tx |-> pending[tx]] /\ retired = [tx \in Tx |-> retired[tx]]
    /\ \A tx \in Tx :
        /\ retired[tx] \in -1 .. RpcTimeout
        /\ IsPending(tx) => GoodRpc(pending[tx], begun) /\ retired[tx] = -1

\* An answer on its way holds its id: it arrives at the latest when the id's
\* retirement ends, which is rpc_timeout after the RPC's own deadline, or after
\* its first answer.  No two answers on their way have the same id.
NetInv ==
    /\ net \subseteq Answer
    /\ \A a \in net :
        /\ ~a.stale
        /\ IF IsPending(a.tx) THEN a.ttl <= pending[a.tx].ttl + RpcTimeout
                              ELSE a.ttl <= retired[a.tx]
    /\ \A a, b \in net : a.tx = b.tx => a = b

\* The transactions of a lookup among the pending ones, and whether an answer to one of its
\* RPCs is being handled.
Mine(P, l) == {tx \in Tx : P[tx] # NoRpc /\ P[tx].lookup = l}
Responding(l) == task.phase = "send" /\ task.then.do = "respond" /\ task.then.lookup = l

\* The tracker's record of each lookup; `found' lags behind the peers seen only
\* while the answer that brought them is handled.
LookupInv ==
    /\ active \in [Lookups -> Progress]
    /\ peersFor \subseteq Lookups
    /\ \A l \in Lookups :
        /\ active[l].outstanding = Cardinality(Mine(pending, l)) + (IF Responding(l) THEN 1 ELSE 0)
        /\ active[l].open <=> active[l].outstanding > 0 \/ Starting(l)
        /\ l > begun => ~active[l].open /\ l \notin peersFor
        /\ Starting(l) => l \notin peersFor
        /\ active[l].open =>
             (l \in peersFor <=> active[l].found \/ (Responding(l) /\ task.then.found))

OpenSet == {l \in Lookups : active[l].open /\ ~Starting(l)}
SucceededSet == {l \in peersFor : ~active[l].open}

CountInv ==
    /\ counters \in [initiated : Nat, succeeded : Nat, failed : Nat]
    /\ counters.initiated = counters.succeeded + counters.failed + Cardinality(OpenSet)
    /\ counters.succeeded = Cardinality(SucceededSet)

IInv ==
    /\ QueueInv /\ TaskInv /\ TableInv /\ TransactionInv
    /\ NetInv /\ LookupInv /\ CountInv

------------------------------------------------------------------------------
(***************************************************************************)
(* The lookup queue.                                                       *)
(***************************************************************************)
\* A sequence without repetitions has as many elements as places.
LEMMA DistinctCount ==
    ASSUME NEW S, NEW q \in Seq(S), \A i, j \in 1 .. Len(q) : q[i] = q[j] => i = j
    PROVE  Cardinality(QueueSet(q)) = Len(q)
<1> DEFINE n == Len(q)
<1>1. n \in Nat /\ DOMAIN q = 1 .. n /\ q \in [1 .. n -> S]
  OBVIOUS
<1>2. QueueSet(q) = {q[i] : i \in 1 .. n}
  BY <1>1 DEF QueueSet
<1>3. q \in [1 .. n -> QueueSet(q)] /\ \A t \in QueueSet(q) : \E i \in 1 .. n : q[i] = t
  BY <1>1, <1>2
<1> HIDE DEF n
<1>4. q \in Bijection(1 .. n, QueueSet(q))
  <2>1. \A i, j \in 1 .. n : q[i] = q[j] => i = j
    BY DEF n
  <2> QED
    BY <1>3, <2>1, Fun_IsBij
<1>5. ExistsBijection(1 .. n, QueueSet(q))
  BY <1>4 DEF ExistsBijection
<1> QED
  BY <1>1, <1>5, FS_CountingElements DEF n

\* queue_hash for a set of hashes: the queue grows by new ones and stays within
\* its limit.
LEMMA QueueGrows ==
    ASSUME QueueInv, NEW H, H \subseteq Hashes, queue_hashes(H)
    PROVE  QueueInv'
<1> DEFINE new == H \ queued
           room == IF Cardinality(new) <= MaxQueue - Len(queue)
                   THEN Cardinality(new) ELSE MaxQueue - Len(queue)
<1>1. /\ IsFiniteSet(Hashes) /\ MaxQueue \in Nat
      /\ queue \in Seq(Hashes) /\ Len(queue) \in Nat /\ Len(queue) <= MaxQueue
  BY DhtAssumption DEF QueueInv
<1>2. Cardinality(new) \in Nat
  <2>1. new \in SUBSET Hashes
    OBVIOUS
  <2> QED
    BY <1>1, <2>1, FS_Subset, FS_CardinalityType
<1>3. room \in Nat /\ Len(queue) + room <= MaxQueue
  BY <1>1, <1>2
<1>4. PICK s \in [1 .. room -> new] :
        /\ \A i, j \in 1 .. room : s[i] = s[j] => i = j
        /\ queue' = queue \o s
        /\ queued' = queued \cup QueueSet(s)
  BY DEF queue_hashes
<1> HIDE DEF room
<1>5. s \in Seq(Hashes) /\ Len(s) = room /\ DOMAIN s = 1 .. room
  BY <1>3, <1>4
<1>6. /\ queue' \in Seq(Hashes) /\ Len(queue') = Len(queue) + room
      /\ \A i \in 1 .. Len(queue) : queue'[i] = queue[i]
      /\ \A i \in 1 .. room : queue'[Len(queue) + i] = s[i]
  BY <1>1, <1>3, <1>4, <1>5
<1>7. \A i \in 1 .. Len(queue') :
        \/ i \in 1 .. Len(queue)
        \/ \E k \in 1 .. room : i = Len(queue) + k
  <2> TAKE i \in 1 .. Len(queue')
  <2>1. CASE i <= Len(queue)
    BY <1>1, <2>1
  <2>2. CASE i > Len(queue)
    <3>1. i - Len(queue) \in 1 .. room /\ i = Len(queue) + (i - Len(queue))
      BY <1>1, <1>3, <1>6, <2>2
    <3> QED
      BY <3>1
  <2> QED
    BY <1>1, <1>6, <2>1, <2>2
<1>8. QueueSet(queue) = {queue[i] : i \in 1 .. Len(queue)}
  BY <1>1 DEF QueueSet
<1>9. QueueSet(s) = {s[i] : i \in 1 .. room}
  BY <1>5 DEF QueueSet
<1>10. QueueSet(queue') = {queue'[i] : i \in 1 .. Len(queue')}
  BY <1>6 DEF QueueSet
<1>11. queued' = QueueSet(queue')
  <2>1. QueueSet(queue') \subseteq QueueSet(queue) \cup QueueSet(s)
    <3> SUFFICES ASSUME NEW i \in 1 .. Len(queue')
                 PROVE  queue'[i] \in QueueSet(queue) \cup QueueSet(s)
      BY <1>10
    <3>1. CASE i \in 1 .. Len(queue)
      BY <1>6, <1>8, <3>1
    <3>2. ASSUME NEW k \in 1 .. room, i = Len(queue) + k
          PROVE  queue'[i] \in QueueSet(s)
      BY <1>6, <1>9, <3>2
    <3> QED
      BY <1>7, <3>1, <3>2
  <2>2. QueueSet(queue) \subseteq QueueSet(queue')
    BY <1>1, <1>3, <1>6, <1>8, <1>10
  <2>3. QueueSet(s) \subseteq QueueSet(queue')
    <3>1. \A k \in 1 .. room : Len(queue) + k \in 1 .. Len(queue')
      BY <1>1, <1>3, <1>6
    <3> QED
      BY <1>6, <1>9, <1>10, <3>1
  <2> QED
    BY <1>4, <2>1, <2>2, <2>3 DEF QueueInv
<1>12. ASSUME NEW i \in 1 .. Len(queue'), NEW j \in 1 .. Len(queue'), queue'[i] = queue'[j]
       PROVE  i = j
  <2>1. CASE i \in 1 .. Len(queue) /\ j \in 1 .. Len(queue)
    BY <1>6, <1>12, <2>1 DEF QueueInv
  <2>2. ASSUME NEW k \in 1 .. room, NEW m \in 1 .. room, i = Len(queue) + k, j = Len(queue) + m
        PROVE  i = j
    BY <1>4, <1>6, <1>12, <2>2
  <2>3. ASSUME NEW m \in 1 .. Len(queue), NEW k \in 1 .. room, queue'[m] = queue'[Len(queue) + k]
        PROVE  FALSE
    <3>1. queue'[m] \in queued
      BY <1>6, <1>8 DEF QueueInv
    <3>2. queue'[Len(queue) + k] \notin queued
      BY <1>4, <1>6
    <3> QED
      BY <2>3, <3>1, <3>2
  <2> QED
    BY <1>7, <1>12, <2>1, <2>2, <2>3
<1> QED
  BY <1>3, <1>6, <1>11, <1>12 DEF QueueInv

\* A hash is popped, or turned to the end of the queue.
LEMMA QueueTurns ==
    ASSUME QueueInv, queue # <<>>,
           \/ queue' = Tail(queue) /\ queued' = queued \ {Head(queue)}
           \/ queue' = Append(Tail(queue), Head(queue)) /\ queued' = queued
    PROVE  QueueInv'
<1> DEFINE n == Len(queue)
<1>1. /\ queue \in Seq(Hashes) /\ n \in Nat /\ n > 0 /\ n <= MaxQueue /\ MaxQueue \in Nat
      /\ Head(queue) = queue[1]
      /\ Tail(queue) \in Seq(Hashes) /\ Len(Tail(queue)) = n - 1
      /\ \A i \in 1 .. n - 1 : Tail(queue)[i] = queue[i + 1]
  BY DhtAssumption DEF QueueInv
<1>2. queued = {queue[i] : i \in 1 .. n}
  BY <1>1 DEF QueueInv, QueueSet
<1>3. \A i, j \in 1 .. n : queue[i] = queue[j] => i = j
  BY DEF QueueInv
<1>4. CASE queue' = Tail(queue) /\ queued' = queued \ {Head(queue)}
  <2>1. /\ queue' \in Seq(Hashes) /\ Len(queue') = n - 1
        /\ \A i \in 1 .. n - 1 : queue'[i] = queue[i + 1]
    BY <1>1, <1>4
  <2>2. QueueSet(queue') = {queue'[i] : i \in 1 .. n - 1}
    BY <2>1 DEF QueueSet
  <2> HIDE DEF n
  <2>3. \A i \in 1 .. n - 1 : i + 1 \in 1 .. n /\ i + 1 # 1
    BY <1>1
  <2>4. \A i \in 1 .. n : i # 1 => \E k \in 1 .. n - 1 : i = k + 1
    <3> SUFFICES ASSUME NEW i \in 1 .. n, i # 1 PROVE i - 1 \in 1 .. n - 1 /\ i = (i - 1) + 1
      OBVIOUS
    <3> QED
      BY <1>1
  <2>5. 1 \in 1 .. n
    BY <1>1
  <2>6. queued' = QueueSet(queue')
    <3>1. QueueSet(queue') \subseteq queued \ {queue[1]}
      BY <1>2, <1>3, <2>1, <2>2, <2>3, <2>5
    <3>2. queued \ {queue[1]} \subseteq QueueSet(queue')
      BY <1>2, <2>1, <2>2, <2>4
    <3> QED
      BY <1>1, <1>4, <3>1, <3>2
  <2>7. \A i, j \in 1 .. n - 1 : queue'[i] = queue'[j] => i = j
    BY <1>1, <1>3, <2>1, <2>3
  <2> QED
    BY <1>1, <2>1, <2>6, <2>7 DEF QueueInv
<1>5. CASE queue' = Append(Tail(queue), Head(queue)) /\ queued' = queued
  <2>1. /\ queue' \in Seq(Hashes) /\ Len(queue') = n
        /\ \A i \in 1 .. n - 1 : queue'[i] = queue[i + 1]
        /\ queue'[n] = queue[1]
    <3>1. Head(queue) \in Hashes
      BY <1>1
    <3> QED
      BY <1>1, <1>5, <3>1
  <2>2. QueueSet(queue') = {queue'[i] : i \in 1 .. n}
    BY <2>1 DEF QueueSet
  <2> HIDE DEF n
  <2>3. \A i \in 1 .. n - 1 : i + 1 \in 1 .. n /\ i + 1 # 1 /\ i \in 1 .. n
    BY <1>1
  <2>4. \A i \in 1 .. n : i # 1 => \E k \in 1 .. n - 1 : i = k + 1
    <3> SUFFICES ASSUME NEW i \in 1 .. n, i # 1 PROVE i - 1 \in 1 .. n - 1 /\ i = (i - 1) + 1
      OBVIOUS
    <3> QED
      BY <1>1
  <2>5. 1 \in 1 .. n /\ n \in 1 .. n /\ \A i \in 1 .. n : i # n => i \in 1 .. n - 1
    BY <1>1
  <2>6. queued = QueueSet(queue')
    <3>1. QueueSet(queue') \subseteq queued
      BY <1>2, <2>1, <2>2, <2>3, <2>5
    <3>2. queued \subseteq QueueSet(queue')
      BY <1>2, <2>1, <2>2, <2>3, <2>4, <2>5
    <3> QED
      BY <3>1, <3>2
  <2>7. ASSUME NEW i \in 1 .. n, NEW j \in 1 .. n, queue'[i] = queue'[j]
        PROVE  i = j
    <3>1. CASE i \in 1 .. n - 1 /\ j \in 1 .. n - 1
      BY <1>1, <1>3, <2>1, <2>3, <2>7, <3>1
    <3>2. CASE i = n \/ j = n
      BY <1>1, <1>3, <2>1, <2>3, <2>5, <2>7, <3>2
    <3> QED
      BY <2>5, <3>1, <3>2
  <2> QED
    BY <1>1, <1>5, <2>1, <2>6, <2>7 DEF QueueInv
<1> QED
  BY <1>4, <1>5

LEMMA QueueQuiet ==
    ASSUME QueueInv, UNCHANGED <<queue, queued>>
    PROVE  QueueInv'
BY DEF QueueInv, QueueSet

------------------------------------------------------------------------------
(***************************************************************************)
(* RPCs and the handler in progress.                                       *)
(***************************************************************************)
LEMMA NotNone ==
    ASSUME NEW p \in Rpc
    PROVE  p # NoRpc
BY DEF Rpc, NoRpc, Methods

\* An RPC is addressed to a node.
LEMMA RpcTo ==
    ASSUME NEW p, NEW top, GoodRpc(p, top), NEW n \in Nodes
    PROVE  /\ GoodRpc([p EXCEPT !.node = n], top)
           /\ [p EXCEPT !.node = n].lookup = p.lookup
           /\ [p EXCEPT !.node = n].ttl = p.ttl
<1> DEFINE q == [p EXCEPT !.node = n]
<1>1. p \in Rpc
  BY DEF GoodRpc
<1>2. q \in Rpc
  BY <1>1 DEF Rpc
<1>3. /\ q.method = p.method /\ q.hash = p.hash /\ q.real = p.real
      /\ q.lookup = p.lookup /\ q.ttl = p.ttl
  BY <1>1 DEF Rpc
<1> HIDE DEF q
<1>4. GoodRpc(q, top)
  BY <1>2, <1>3 DEF GoodRpc
<1> QED
  BY <1>3, <1>4 DEF q

\* The RPC of a continuation.
LEMMA RpcContinued ==
    ASSUME NEW p, NEW top, GoodRpc(p, top)
    PROVE  LET q == [p EXCEPT !.known = TRUE, !.budget = IF @ = 0 THEN 0 ELSE @ - 1,
                              !.ttl = RpcTimeout]
           IN  GoodRpc(q, top) /\ q.lookup = p.lookup /\ q.ttl = RpcTimeout
<1> DEFINE b == IF p.budget = 0 THEN 0 ELSE p.budget - 1
           q == [p EXCEPT !.known = TRUE, !.budget = b, !.ttl = RpcTimeout]
<1>1. p \in Rpc /\ Budget \in Nat /\ RpcTimeout \in Nat
  BY DhtAssumption DEF GoodRpc
<1>2. b \in 0 .. Budget
  BY <1>1 DEF Rpc
<1>3. RpcTimeout \in 0 .. RpcTimeout
  BY <1>1
<1>4. q \in Rpc
  <2> HIDE DEF b
  <2> QED
    BY <1>1, <1>2, <1>3 DEF Rpc
<1>5. /\ q.method = p.method /\ q.hash = p.hash /\ q.real = p.real
      /\ q.lookup = p.lookup /\ q.ttl = RpcTimeout
  <2> HIDE DEF b
  <2> QED
    BY <1>1 DEF Rpc
<1>6. q = [p EXCEPT !.known = TRUE, !.budget = IF @ = 0 THEN 0 ELSE @ - 1, !.ttl = RpcTimeout]
  BY <1>1 DEF Rpc
<1> HIDE DEF q
<1>7. GoodRpc(q, top)
  BY <1>4, <1>5 DEF GoodRpc
<1> QED
  BY <1>5, <1>6, <1>7

\* A pending RPC one tick later.
LEMMA RpcOlder ==
    ASSUME NEW p, NEW top, GoodRpc(p, top), p.ttl > 0
    PROVE  LET q == [p EXCEPT !.ttl = @ - 1]
           IN  GoodRpc(q, top) /\ q.lookup = p.lookup /\ q.ttl = p.ttl - 1
<1> DEFINE q == [p EXCEPT !.ttl = p.ttl - 1]
<1>1. p \in Rpc /\ RpcTimeout \in Nat
  BY DhtAssumption DEF GoodRpc
<1>2. p.ttl - 1 \in 0 .. RpcTimeout
  BY <1>1 DEF Rpc
<1>3. q \in Rpc
  BY <1>1, <1>2 DEF Rpc
<1>4. /\ q.method = p.method /\ q.hash = p.hash /\ q.real = p.real
      /\ q.lookup = p.lookup /\ q.ttl = p.ttl - 1
  BY <1>1 DEF Rpc
<1> HIDE DEF q
<1>5. GoodRpc(q, top)
  BY <1>3, <1>4 DEF GoodRpc
<1> QED
  BY <1>4, <1>5 DEF q

\* More lookups have begun.
LEMMA RpcLater ==
    ASSUME NEW p, NEW top \in Nat, GoodRpc(p, top)
    PROVE  GoodRpc(p, top + 1)
<1>1. p.lookup \in Int
  BY DhtAssumption DEF GoodRpc, Rpc
<1> QED
  BY <1>1 DEF GoodRpc

LEMMA ListsAreSequences ==
    ASSUME NEW n \in Nat, NEW s \in NodeLists(n)
    PROVE  s \in Seq(Nodes)
<1>1. PICK k \in 0 .. n : s \in [1 .. k -> Nodes]
  BY DEF NodeLists
<1> QED
  BY <1>1

\* The nodes a lookup may start from, and the bootstrap nodes, in a list.
LEMMA StartLists ==
    ASSUME NEW s, s \in StartNodes \/ s \in BootstrapLists
    PROVE  s \in Seq(Nodes)
<1>1. LookupFanout \in Nat /\ Cardinality(Bootstrap) \in Nat
  BY DhtAssumption, FS_Subset, FS_CardinalityType
<1>2. s \in NodeLists(LookupFanout) \/ s \in NodeLists(Cardinality(Bootstrap))
  BY DEF StartNodes, BootstrapLists
<1> QED
  BY <1>1, <1>2, ListsAreSequences

\* The RPCs that lookups and bootstrapping begin with.
LEMMA FirstRpcs ==
    ASSUME NEW top \in Nat
    PROVE  /\ GoodRpc(FindNode(Budget), top)
           /\ FindNode(Budget).lookup = 0 /\ FindNode(Budget).ttl = RpcTimeout
           /\ \A h \in Hashes, real \in BOOLEAN, l \in 0 .. MaxLookups :
                l <= top => /\ GoodRpc(GetPeers(h, real, Budget, l), top)
                            /\ GetPeers(h, real, Budget, l).lookup = l
                            /\ GetPeers(h, real, Budget, l).ttl = RpcTimeout
<1> DEFINE some == CHOOSE n \in Nodes : TRUE
<1>1. some \in Nodes
  BY DhtAssumption
<1>2. /\ Budget \in 0 .. Budget /\ RpcTimeout \in 0 .. RpcTimeout /\ 0 \in 0 .. MaxLookups
      /\ 0 <= top
  BY DhtAssumption
<1> HIDE DEF some
<1>3. FindNode(Budget) \in Rpc
  BY <1>1, <1>2 DEF FindNode, Rpc, Methods, some
<1>4. ASSUME NEW h \in Hashes, NEW real \in BOOLEAN, NEW l \in 0 .. MaxLookups
      PROVE  GetPeers(h, real, Budget, l) \in Rpc
  BY <1>1, <1>2 DEF GetPeers, Rpc, Methods, some
<1>5. GoodRpc(FindNode(Budget), top)
  <2>1. /\ FindNode(Budget).method = "find_node" /\ FindNode(Budget).real = FALSE
        /\ FindNode(Budget).lookup = 0
    BY DEF FindNode
  <2> QED
    BY <1>2, <1>3, <2>1 DEF GoodRpc
<1>6. ASSUME NEW h \in Hashes, NEW real \in BOOLEAN, NEW l \in 0 .. MaxLookups, l <= top
      PROVE  GoodRpc(GetPeers(h, real, Budget, l), top)
  <2>1. /\ GetPeers(h, real, Budget, l).method = "get_peers"
        /\ GetPeers(h, real, Budget, l).hash = h
        /\ GetPeers(h, real, Budget, l).lookup = l
    BY DEF GetPeers
  <2> QED
    BY <1>4, <1>6, <2>1 DEF GoodRpc
<1> QED
  BY <1>5, <1>6 DEF FindNode, GetPeers

\* The fields of a handler in progress.
LEMMA SendingFields ==
    ASSUME NEW left, NEW p, NEW then
    PROVE  /\ Sending(left, p, then).phase = "send" /\ Sending(left, p, then).todo = left
           /\ Sending(left, p, then).rpc = p /\ Sending(left, p, then).then = then
BY DEF Sending

LEMMA ThenFields ==
    ASSUME NEW l, NEW found
    PROVE  /\ Done.do = "return"
           /\ Started(l).do = "started" /\ Started(l).lookup = l
           /\ Respond(l, found).do = "respond" /\ Respond(l, found).lookup = l
           /\ Respond(l, found).found = found
BY DEF Done, Started, Respond

\* Outside a handler no answer is being handled and no lookup is being set up.
LEMMA NoHandler ==
    ASSUME task = Idle \/ task = Pop, NEW l
    PROVE  ~Starting(l) /\ ~Responding(l)
BY DEF Idle, Pop, Starting, Responding

LEMMA InHandler ==
    ASSUME TaskInv, task.phase = "send"
    PROVE  /\ task = Sending(task.todo, task.rpc, task.then)
           /\ task.todo \in Seq(Nodes)
           /\ GoodRpc(task.rpc, begun) /\ task.rpc.ttl = RpcTimeout
           /\ Follows(task.rpc, task.then, begun)
BY DEF TaskInv, Idle, Pop

\* A handler that has all its parts.
LEMMA HandlerInv ==
    ASSUME NEW left, NEW p, NEW then, task' = Sending(left, p, then), left \in Seq(Nodes),
           GoodRpc(p, begun'), p.ttl = RpcTimeout, Follows(p, then, begun')
    PROVE  TaskInv'
<1>1. task'.todo = left /\ task'.rpc = p /\ task'.then = then
  BY SendingFields
<1>2. task' = Sending(task'.todo, task'.rpc, task'.then)
  BY <1>1
<1> QED
  BY <1>1, <1>2 DEF TaskInv

\* One node of the list has been dealt with.
LEMMA TaskAdvance ==
    ASSUME TaskInv, task.phase = "send", task.todo # <<>>, Advance, UNCHANGED begun
    PROVE  /\ TaskInv'
           /\ task'.phase = "send" /\ task'.then = task.then
<1> DEFINE t == task.todo  p == task.rpc  th == task.then  u == Tail(task.todo)
<1>1. /\ task = Sending(t, p, th) /\ t \in Seq(Nodes)
      /\ GoodRpc(p, begun) /\ p.ttl = RpcTimeout /\ Follows(p, th, begun)
  BY InHandler
<1>2. u \in Seq(Nodes)
  BY <1>1
<1>3. task' = [task EXCEPT !.todo = u]
  BY DEF Advance
<1> HIDE DEF t, p, th, u
<1>4. [Sending(t, p, th) EXCEPT !.todo = u] = Sending(u, p, th)
  BY DEF Sending
<1>5. task' = Sending(u, p, th)
  BY <1>1, <1>3, <1>4, Zenon
<1>6. TaskInv'
  BY <1>1, <1>2, <1>5, HandlerInv
<1>7. task'.phase = "send" /\ task'.then = th
  BY <1>5, SendingFields
<1> QED
  BY <1>6, <1>7 DEF th

------------------------------------------------------------------------------
(***************************************************************************)
(* Transaction ids and the answers on their way.                           *)
(***************************************************************************)
\* The id that the scan from NEXT_TX finds.
LEMMA AllocatedFree ==
    ASSUME TableInv, NEW k \in NextFree
    PROVE  /\ (next_tx + k) % TxCount \in Tx /\ Free((next_tx + k) % TxCount)
           /\ (((next_tx + k) % TxCount) + 1) % TxCount \in Tx
<1>1. TxCount \in Nat \ {0} /\ next_tx \in Nat /\ k \in Nat
  BY DhtAssumption DEF TableInv, NextFree, Tx
<1>2. \A x \in Nat : x % TxCount \in Tx
  BY <1>1 DEF Tx
<1>3. (next_tx + k) % TxCount \in Tx
  BY <1>1, <1>2
<1>4. ((next_tx + k) % TxCount) + 1 \in Nat
  BY <1>1, <1>3 DEF Tx
<1> QED
  BY <1>2, <1>3, <1>4 DEF NextFree

\* An answer on its way keeps its id from being given out.
LEMMA AnswerHoldsId ==
    ASSUME TransactionInv, NetInv, NEW a \in net
    PROVE  a.tx \in Tx /\ ~Free(a.tx)
<1>1. /\ a.tx \in Tx /\ a.ttl \in Nat /\ a.ttl > 0
      /\ ~IsPending(a.tx) => a.ttl <= retired[a.tx]
  BY DhtAssumption DEF NetInv, Answer
<1> QED
  BY <1>1 DEF Free

LEMMA TransactionsQuiet ==
    ASSUME TransactionInv, NetInv, begun \in Nat, UNCHANGED <<pending, retired, net>>,
           begun' \in {begun, begun + 1}
    PROVE  TransactionInv' /\ NetInv'
<1>1. NetInv'
  BY DEF NetInv, IsPending
<1>2. \A p : GoodRpc(p, begun) => GoodRpc(p, begun')
  BY RpcLater
<1>3. TransactionInv'
  BY <1>2 DEF TransactionInv, IsPending
<1> QED
  BY <1>1, <1>3

\* A datagram is sent: no answer to the id's last owner is on its way any more,
\* and the answer to this RPC holds the id.
LEMMA TransactionSent ==
    ASSUME TransactionInv, NetInv, NEW tx \in Tx, Free(tx), UNCHANGED <<retired, begun>>,
           NEW rpc, GoodRpc(rpc, begun), rpc.ttl = RpcTimeout,
           pending' = [pending EXCEPT ![tx] = rpc],
           net' = {IF a.tx = tx THEN [a EXCEPT !.stale = TRUE] ELSE a : a \in net}
                  \cup {[tx |-> tx, node |-> rpc.node, ttl |-> 2 * RpcTimeout, stale |-> FALSE]}
    PROVE  /\ TransactionInv' /\ NetInv'
           /\ \A t \in Tx : pending'[t] = IF t = tx THEN rpc ELSE pending[t]
<1> DEFINE new == [tx |-> tx, node |-> rpc.node, ttl |-> 2 * RpcTimeout, stale |-> FALSE]
<1>1. RpcTimeout \in Nat \ {0} /\ rpc \in Rpc /\ rpc.node \in Nodes
  BY DhtAssumption DEF GoodRpc, Rpc
<1>2. \A t \in Tx : pending'[t] = IF t = tx THEN rpc ELSE pending[t]
  BY DEF TransactionInv
<1>3. rpc # NoRpc
  BY <1>1, NotNone
<1>4. \A a \in net : a.tx # tx
  BY AnswerHoldsId
<1>5. net' = net \cup {new}
  <2>1. {IF a.tx = tx THEN [a EXCEPT !.stale = TRUE] ELSE a : a \in net} = net
    BY <1>4, Zenon
  <2> QED
    BY <2>1, Zenon
<1>6. new \in Answer /\ new.tx = tx /\ new.ttl = 2 * RpcTimeout /\ new.stale = FALSE
  <2>1. 2 * RpcTimeout \in 1 .. 2 * RpcTimeout
    BY <1>1
  <2> QED
    BY <1>1, <2>1 DEF Answer
<1> HIDE DEF new
<1>7. TransactionInv'
  BY <1>2, <1>3 DEF TransactionInv, IsPending, Free
<1>8. NetInv'
  <2>1. net' \subseteq Answer
    BY <1>5, <1>6 DEF NetInv
  <2>2. ASSUME NEW a \in net'
        PROVE  /\ ~a.stale
               /\ IF IsPending(a.tx)' THEN a.ttl <= pending'[a.tx].ttl + RpcTimeout
                                      ELSE a.ttl <= retired'[a.tx]
    <3>1. CASE a \in net
      <4>1. a.tx \in Tx /\ a.tx # tx /\ pending'[a.tx] = pending[a.tx]
        BY <1>2, <1>4, <3>1, AnswerHoldsId
      <4> QED
        BY <3>1, <4>1 DEF NetInv, IsPending
    <3>2. CASE a = new
      <4>1. pending'[tx] = rpc
        BY <1>2
      <4> QED
        BY <1>1, <1>3, <1>6, <3>2, <4>1 DEF IsPending
    <3> QED
      BY <1>5, <3>1, <3>2
  <2>3. \A a, b \in net' : a.tx = b.tx => a = b
    BY <1>4, <1>5, <1>6 DEF NetInv
  <2> QED
    BY <2>1, <2>2, <2>3 DEF NetInv
<1> QED
  BY <1>2, <1>7, <1>8

\* A transaction ends with an answer, of which a copy may still be on its way.
LEMMA TransactionRetired ==
    ASSUME TransactionInv, NetInv, NEW a \in net, Received(a), Retire(a.tx), UNCHANGED begun
    PROVE  /\ TransactionInv' /\ NetInv'
           /\ \A t \in Tx : pending'[t] = IF t = a.tx THEN NoRpc ELSE pending[t]
<1> DEFINE left == IF a.ttl > RpcTimeout THEN RpcTimeout ELSE a.ttl
           copy == [a EXCEPT !.ttl = left]
<1>1. /\ RpcTimeout \in Nat \ {0} /\ a \in Answer /\ a.tx \in Tx /\ a.ttl \in Nat /\ a.ttl > 0
      /\ ~a.stale
  BY DhtAssumption DEF NetInv, Answer
<1>2. left \in 1 .. RpcTimeout /\ left \in 1 .. 2 * RpcTimeout
  BY <1>1
<1>3. /\ \A t \in Tx : pending'[t] = IF t = a.tx THEN NoRpc ELSE pending[t]
      /\ \A t \in Tx : retired'[t] = IF t = a.tx THEN RpcTimeout ELSE retired[t]
      /\ pending' = [t \in Tx |-> pending'[t]] /\ retired' = [t \in Tx |-> retired'[t]]
  BY DEF Retire, TransactionInv
<1> HIDE DEF left
<1>4. copy \in Answer /\ copy.tx = a.tx /\ copy.ttl = left /\ ~copy.stale
  <2>1. copy \in Answer
    BY <1>1, <1>2 DEF Answer
  <2>2. copy.tx = a.tx /\ copy.ttl = left /\ copy.stale = a.stale
    BY <1>1 DEF Answer
  <2> HIDE DEF copy
  <2> QED
    BY <1>1, <2>1, <2>2
<1>5. net' \subseteq (net \ {a}) \cup {copy}
  BY DEF Received, left
<1> HIDE DEF copy
<1>6. TransactionInv'
  <2>1. RpcTimeout \in -1 .. RpcTimeout
    BY <1>1
  <2> QED
    BY <1>3, <2>1 DEF TransactionInv, IsPending
<1>7. \A b \in net : b # a => b.tx # a.tx
  BY DEF NetInv
<1>8. NetInv'
  <2>1. net' \subseteq Answer
    BY <1>4, <1>5 DEF NetInv
  <2>2. ASSUME NEW b \in net'
        PROVE  /\ ~b.stale
               /\ IF IsPending(b.tx)' THEN b.ttl <= pending'[b.tx].ttl + RpcTimeout
                                      ELSE b.ttl <= retired'[b.tx]
    <3>1. CASE b \in net /\ b # a
      <4>1. b.tx \in Tx /\ b.tx # a.tx
        BY <1>7, <3>1, AnswerHoldsId
      <4>2. pending'[b.tx] = pending[b.tx] /\ retired'[b.tx] = retired[b.tx]
        BY <1>3, <4>1
      <4> QED
        BY <3>1, <4>2 DEF NetInv, IsPending
    <3>2. CASE b = copy
      <4>1. pending'[a.tx] = NoRpc /\ retired'[a.tx] = RpcTimeout
        BY <1>1, <1>3
      <4>2. left <= RpcTimeout
        BY <1>1, <1>2
      <4> QED
        BY <1>4, <3>2, <4>1, <4>2 DEF IsPending
    <3> QED
      BY <1>5, <3>1, <3>2
  <2>3. \A b, c \in net' : b.tx = c.tx => b = c
    BY <1>4, <1>5, <1>7 DEF NetInv
  <2> QED
    BY <2>1, <2>2, <2>3 DEF NetInv
<1> QED
  BY <1>3, <1>6, <1>8

LEMMA AnswerDropped ==
    ASSUME TransactionInv, NetInv, NEW a \in net, net' = net \ {a},
           UNCHANGED <<pending, retired, begun>>
    PROVE  TransactionInv' /\ NetInv'
<1>1. TransactionInv'
  BY DEF TransactionInv, IsPending
<1>2. NetInv'
  BY DEF NetInv, IsPending
<1> QED
  BY <1>1, <1>2

\* The deadlines and the answers come closer together.
LEMMA TransactionsTick ==
    ASSUME TransactionInv, NetInv, Tick
    PROVE  /\ TransactionInv' /\ NetInv'
           /\ \A t \in Tx : /\ pending'[t] = NoRpc <=> pending[t] = NoRpc
                            /\ pending[t] # NoRpc => pending'[t].lookup = pending[t].lookup
<1> DEFINE P(t) == IF IsPending(t) /\ pending[t].ttl > 0
                   THEN [pending[t] EXCEPT !.ttl = @ - 1] ELSE pending[t]
<1>1. RpcTimeout \in Nat \ {0} /\ UNCHANGED begun
  BY DhtAssumption DEF Tick
<1>2. /\ pending' = [t \in Tx |-> pending'[t]] /\ retired' = [t \in Tx |-> retired'[t]]
      /\ \A t \in Tx : retired'[t] = IF retired[t] > 0 THEN retired[t] - 1 ELSE retired[t]
  BY DEF Tick
<1>3. \A t \in Tx : pending'[t] = P(t)
  BY DEF Tick
<1>4. ASSUME NEW t \in Tx
      PROVE  /\ IsPending(t) => /\ GoodRpc(pending'[t], begun) /\ pending'[t] # NoRpc
                                /\ pending'[t].lookup = pending[t].lookup
                                /\ pending'[t].ttl = IF pending[t].ttl > 0 THEN pending[t].ttl - 1
                                                     ELSE pending[t].ttl
             /\ ~IsPending(t) => pending'[t] = NoRpc
  <2>1. CASE ~IsPending(t)
    BY <1>3, <2>1 DEF IsPending
  <2>2. CASE IsPending(t) /\ ~(pending[t].ttl > 0)
    <3>1. pending'[t] = pending[t]
      BY <1>3, <2>2
    <3> QED
      BY <2>2, <3>1 DEF TransactionInv, IsPending
  <2>3. CASE IsPending(t) /\ pending[t].ttl > 0
    <3> DEFINE q == [pending[t] EXCEPT !.ttl = @ - 1]
    <3>1. pending'[t] = q
      BY <1>3, <2>3
    <3>2. GoodRpc(pending[t], begun)
      BY <2>3 DEF TransactionInv
    <3>3. GoodRpc(q, begun) /\ q.lookup = pending[t].lookup /\ q.ttl = pending[t].ttl - 1
      BY <2>3, <3>2, RpcOlder
    <3> HIDE DEF q
    <3>4. q # NoRpc
      BY <3>3, NotNone DEF GoodRpc
    <3> QED
      BY <2>3, <3>1, <3>3, <3>4
  <2> QED
    BY <2>1, <2>2, <2>3
<1> HIDE DEF P
<1>5. TransactionInv'
  <2> SUFFICES ASSUME NEW t \in Tx
               PROVE  /\ retired'[t] \in -1 .. RpcTimeout
                      /\ IsPending(t)' => GoodRpc(pending'[t], begun') /\ retired'[t] = -1
    BY <1>2 DEF TransactionInv
  <2>1. retired[t] \in -1 .. RpcTimeout
    BY DEF TransactionInv
  <2>2. retired'[t] \in -1 .. RpcTimeout
    BY <1>1, <1>2, <2>1
  <2>3. IsPending(t)' => IsPending(t)
    BY <1>4 DEF IsPending
  <2>4. IsPending(t) => retired[t] = -1
    BY DEF TransactionInv
  <2> QED
    BY <1>1, <1>2, <1>4, <2>2, <2>3, <2>4
<1>6. ASSUME NEW b \in net'
      PROVE  \E a \in net : /\ a.ttl > 1 /\ b \in Answer /\ b.tx = a.tx /\ b.stale = a.stale
                            /\ b.ttl = a.ttl - 1 /\ b = [a EXCEPT !.ttl = a.ttl - 1]
  <2>1. PICK a \in net : a.ttl > 1 /\ b = [a EXCEPT !.ttl = @ - 1]
    BY DEF Tick
  <2> DEFINE left == a.ttl - 1
  <2>2. a \in Answer
    BY DEF NetInv
  <2>3. left \in 1 .. 2 * RpcTimeout
    BY <1>1, <2>1, <2>2 DEF Answer
  <2>4. b = [a EXCEPT !.ttl = left]
    BY <2>1
  <2> HIDE DEF left
  <2>5. b \in Answer /\ b.tx = a.tx /\ b.stale = a.stale /\ b.ttl = left
    BY <2>2, <2>3, <2>4 DEF Answer
  <2> QED
    BY <2>1, <2>4, <2>5 DEF left
<1>7. NetInv'
  <2>1. net' \subseteq Answer
    BY <1>6
  <2>2. ASSUME NEW b \in net'
        PROVE  /\ ~b.stale
               /\ IF IsPending(b.tx)' THEN b.ttl <= pending'[b.tx].ttl + RpcTimeout
                                      ELSE b.ttl <= retired'[b.tx]
    <3>1. PICK a \in net : /\ a.ttl > 1 /\ b.tx = a.tx /\ b.stale = a.stale /\ b.ttl = a.ttl - 1
      BY <1>6
    <3>2. a.tx \in Tx /\ a.ttl \in Nat /\ a.ttl <= 2 * RpcTimeout /\ ~a.stale
      BY <1>1 DEF NetInv, Answer
    <3>3. CASE IsPending(a.tx)
      <4>1. a.ttl <= pending[a.tx].ttl + RpcTimeout
        BY <3>3 DEF NetInv
      <4>2. pending[a.tx].ttl \in Nat
        BY <1>1, <3>2, <3>3 DEF TransactionInv, GoodRpc, Rpc
      <4>3. /\ IsPending(a.tx)'
            /\ pending'[a.tx].ttl = IF pending[a.tx].ttl > 0 THEN pending[a.tx].ttl - 1
                                    ELSE pending[a.tx].ttl
        BY <1>4, <3>2, <3>3 DEF IsPending
      <4> QED
        BY <1>1, <3>1, <3>2, <4>1, <4>2, <4>3
    <3>4. CASE ~IsPending(a.tx)
      <4>1. a.ttl <= retired[a.tx]
        BY <3>4 DEF NetInv
      <4>2. retired[a.tx] \in Int /\ retired'[a.tx] = IF retired[a.tx] > 0 THEN retired[a.tx] - 1
                                                      ELSE retired[a.tx]
        BY <1>1, <1>2, <3>2 DEF TransactionInv
      <4>3. ~IsPending(a.tx)'
        BY <1>4, <3>2, <3>4 DEF IsPending
      <4> QED
        BY <3>1, <3>2, <4>1, <4>2, <4>3
    <3> QED
      BY <3>3, <3>4
  <2>3. ASSUME NEW b \in net', NEW c \in net', b.tx = c.tx
        PROVE  b = c
    <3>1. PICK a \in net : b.tx = a.tx /\ b = [a EXCEPT !.ttl = a.ttl - 1]
      BY <1>6
    <3>2. PICK d \in net : c.tx = d.tx /\ c = [d EXCEPT !.ttl = d.ttl - 1]
      BY <1>6
    <3>3. a = d
      BY <2>3, <3>1, <3>2 DEF NetInv
    <3> QED
      BY <3>1, <3>2, <3>3, Zenon
  <2> QED
    BY <2>1, <2>2, <2>3 DEF NetInv
<1> QED
  BY <1>4, <1>5, <1>7 DEF IsPending

\* The RPCs whose deadline has passed.
Expired == {tx \in Pendings : pending[tx].ttl = 0}

LEMMA TransactionsExpire ==
    ASSUME TransactionInv, NetInv, expire_pending, UNCHANGED <<net, begun>>
    PROVE  /\ TransactionInv' /\ NetInv'
           /\ \A t \in Tx : pending'[t] = IF t \in Expired THEN NoRpc ELSE pending[t]
<1>1. RpcTimeout \in Nat \ {0}
  BY DhtAssumption
<1>2. /\ pending' = [t \in Tx |-> pending'[t]] /\ retired' = [t \in Tx |-> retired'[t]]
      /\ \A t \in Tx : pending'[t] = IF t \in Expired THEN NoRpc ELSE pending[t]
      /\ \A t \in Tx : retired'[t] = IF t \in Expired THEN RpcTimeout
                                     ELSE IF retired[t] = 0 THEN -1 ELSE retired[t]
  <2>1. /\ pending' = [t \in Tx |-> IF t \in Expired THEN NoRpc ELSE pending[t]]
        /\ retired' = [t \in Tx |-> IF t \in Expired THEN RpcTimeout
                                    ELSE IF retired[t] = 0 THEN -1 ELSE retired[t]]
    BY Zenon DEF expire_pending, Expired
  <2> QED
    BY <2>1
<1>3. TransactionInv'
  <2> SUFFICES ASSUME NEW t \in Tx
               PROVE  /\ retired'[t] \in -1 .. RpcTimeout
                      /\ IsPending(t)' => GoodRpc(pending'[t], begun') /\ retired'[t] = -1
    BY <1>2 DEF TransactionInv
  <2>1. retired[t] \in -1 .. RpcTimeout
    BY DEF TransactionInv
  <2>2. retired'[t] \in -1 .. RpcTimeout
    BY <1>1, <1>2, <2>1
  <2>3. IsPending(t)' => IsPending(t) /\ pending'[t] = pending[t] /\ t \notin Expired
    BY <1>2 DEF IsPending
  <2>4. IsPending(t) => retired[t] = -1 /\ GoodRpc(pending[t], begun)
    BY DEF TransactionInv
  <2> QED
    BY <1>1, <1>2, <2>2, <2>3, <2>4
<1>4. NetInv'
  <2>1. ASSUME NEW a \in net
        PROVE  IF IsPending(a.tx)' THEN a.ttl <= pending'[a.tx].ttl + RpcTimeout
                                   ELSE a.ttl <= retired'[a.tx]
    <3>1. a.tx \in Tx /\ a.ttl \in Nat /\ a.ttl > 0
      BY <1>1 DEF NetInv, Answer
    <3>2. CASE a.tx \in Expired
      <4>1. IsPending(a.tx) /\ pending[a.tx].ttl = 0
        BY <3>2 DEF Expired, Pendings
      <4>2. a.ttl <= RpcTimeout
        BY <1>1, <3>1, <4>1 DEF NetInv
      <4>3. pending'[a.tx] = NoRpc /\ retired'[a.tx] = RpcTimeout
        BY <1>2, <3>1, <3>2
      <4> QED
        BY <4>2, <4>3 DEF IsPending
    <3>3. CASE a.tx \notin Expired
      <4>1. pending'[a.tx] = pending[a.tx]
        BY <1>2, <3>1, <3>3
      <4>2. ~IsPending(a.tx) => a.ttl <= retired[a.tx]
        BY DEF NetInv
      <4>3. ~IsPending(a.tx) => retired'[a.tx] = retired[a.tx]
        BY <1>2, <3>1, <3>3, <4>2
      <4> QED
        BY <4>1, <4>2, <4>3 DEF NetInv, IsPending
    <3> QED
      BY <3>2, <3>3
  <2> QED
    BY <2>1 DEF NetInv
<1> QED
  BY <1>2, <1>3, <1>4

------------------------------------------------------------------------------
(***************************************************************************)
(* The accounting of lookups.                                              *)
(***************************************************************************)
LEMMA MineFinite ==
    ASSUME NEW P, NEW l
    PROVE  IsFiniteSet(Mine(P, l)) /\ Cardinality(Mine(P, l)) \in Nat
<1>1. IsFiniteSet(Tx)
  BY DhtAssumption, FS_Interval DEF Tx
<1>2. Mine(P, l) \in SUBSET Tx
  BY DEF Mine
<1> QED
  BY <1>1, <1>2, FS_Subset, FS_CardinalityType

LEMMA LookupsFinite ==
    ASSUME NEW S \in SUBSET Lookups
    PROVE  IsFiniteSet(S) /\ Cardinality(S) \in Nat
<1>1. IsFiniteSet(Lookups)
  BY DhtAssumption, FS_Interval DEF Lookups
<1> QED
  BY <1>1, FS_Subset, FS_CardinalityType

\* A set that is split in two.
LEMMA SplitCount ==
    ASSUME NEW S, NEW A, NEW B, IsFiniteSet(S), S = A \cup B, A \cap B = {}
    PROVE  /\ Cardinality(S) = Cardinality(A) + Cardinality(B)
           /\ Cardinality(A) \in Nat /\ Cardinality(B) \in Nat
<1>1. IsFiniteSet(A) /\ IsFiniteSet(B)
  <2>1. A \in SUBSET S /\ B \in SUBSET S
    OBVIOUS
  <2> QED
    BY <2>1, FS_Subset
<1>2. Cardinality(A \cup B) = Cardinality(A) + Cardinality(B) - Cardinality(A \cap B)
  BY <1>1, FS_Union
<1>3. Cardinality(S) = Cardinality(A \cup B) /\ Cardinality(A \cap B) = 0
  BY FS_EmptySet, Zenon
<1>4. Cardinality(A) \in Nat /\ Cardinality(B) \in Nat
  BY <1>1, FS_CardinalityType
<1> QED
  BY <1>2, <1>3, <1>4

\* The fields of a lookup's record.
LEMMA ProgressTypes ==
    ASSUME active \in [Lookups -> Progress], NEW l \in Lookups
    PROVE  /\ active[l] \in Progress
           /\ active[l].open \in BOOLEAN /\ active[l].found \in BOOLEAN
           /\ active[l].outstanding \in Nat
BY DEF Progress

LEMMA ClosedFields ==
    /\ Closed \in Progress /\ Closed.open = FALSE /\ Closed.outstanding = 0
    /\ Closed.found = FALSE
BY DEF Closed, Progress

\* What complete() does to the tracker when it is not told of more RPCs than are
\* outstanding.  The lookups it closes:
Closes(done) ==
    {l \in Lookups : active[l].open /\ done[l] > 0 /\ active[l].outstanding = done[l]}

LEMMA CompleteActive ==
    ASSUME active \in [Lookups -> Progress],
           NEW done, NEW found \in BOOLEAN, complete(done, found),
           \A l \in Lookups : done[l] \in Nat /\ done[l] <= active[l].outstanding
    PROVE  /\ active' \in [Lookups -> Progress]
           /\ \A l \in Lookups :
                /\ l \in Closes(done) => active'[l] = Closed
                /\ l \notin Closes(done) /\ active[l].open =>
                    /\ active'[l].open
                    /\ active'[l].outstanding = active[l].outstanding - done[l]
                    /\ active'[l].found <=> active[l].found \/ (done[l] > 0 /\ found)
                /\ ~active[l].open => active'[l] = active[l]
           /\ counters' = [counters EXCEPT
                !.succeeded = @ + Cardinality({l \in Closes(done) : active[l].found \/ found}),
                !.failed = @ + Cardinality({l \in Closes(done) : ~(active[l].found \/ found)})]
<1> DEFINE Left(l) == IF active[l].outstanding > done[l] THEN active[l].outstanding - done[l] ELSE 0
           Got(l) == active[l].found \/ (done[l] > 0 /\ found)
           After(l) == [active[l] EXCEPT !.outstanding = Left(l), !.found = Got(l)]
           after == [l \in Lookups |-> After(l)]
           closes == {l \in Lookups : active[l].open /\ done[l] > 0 /\ after[l].outstanding = 0}
<1>1. /\ active' = [l \in Lookups |-> IF l \in closes THEN Closed
                                      ELSE IF active[l].open THEN after[l] ELSE active[l]]
      /\ counters' =
            [counters EXCEPT
                !.succeeded = @ + Cardinality({l \in closes : after[l].found}),
                !.failed = @ + Cardinality({l \in closes : ~after[l].found})]
  BY Zenon DEF complete
<1>2. ASSUME NEW l \in Lookups
      PROVE  /\ Left(l) = active[l].outstanding - done[l] /\ Left(l) \in Nat
             /\ Left(l) = 0 <=> active[l].outstanding = done[l]
             /\ Got(l) \in BOOLEAN
  <2>1. active[l].outstanding \in Nat /\ active[l].found \in BOOLEAN
    BY ProgressTypes
  <2> QED
    BY <2>1
<1>3. ASSUME NEW l \in Lookups
      PROVE  /\ after[l] \in Progress /\ after[l].open = active[l].open
             /\ after[l].outstanding = Left(l) /\ after[l].found = Got(l)
  <2>1. active[l] \in Progress /\ Left(l) \in Nat /\ Got(l) \in BOOLEAN
    BY <1>2, ProgressTypes
  <2> DEFINE p == active[l]  m == Left(l)  f == Got(l)
             q == [p EXCEPT !.outstanding = m, !.found = f]
  <2>2. after[l] = q
    OBVIOUS
  <2> HIDE DEF p, m, f
  <2>3. p \in Progress /\ m \in Nat /\ f \in BOOLEAN
    BY <2>1 DEF p, m, f
  <2>4. q \in Progress
    BY <2>3 DEF Progress
  <2>5. q.open = p.open /\ q.outstanding = m /\ q.found = f
    BY <2>3 DEF Progress
  <2> HIDE DEF q, after
  <2> QED
    BY <2>2, <2>4, <2>5 DEF p, m, f
<1> HIDE DEF after, After
<1>4. closes = Closes(done)
  BY <1>2, <1>3 DEF Closes
<1>5. {l \in closes : after[l].found} = {l \in Closes(done) : active[l].found \/ found}
  <2> SUFFICES ASSUME NEW l \in Closes(done)
               PROVE  after[l].found <=> active[l].found \/ found
    BY <1>4, Zenon
  <2>1. l \in Lookups /\ done[l] > 0
    BY DEF Closes
  <2>2. after[l].found = Got(l)
    BY <1>3, <2>1
  <2> QED
    BY <2>1, <2>2
<1>6. {l \in closes : ~after[l].found} = {l \in Closes(done) : ~(active[l].found \/ found)}
  <2> SUFFICES ASSUME NEW l \in Closes(done)
               PROVE  after[l].found <=> active[l].found \/ found
    BY <1>4, Zenon
  <2>1. l \in Lookups /\ done[l] > 0
    BY DEF Closes
  <2>2. after[l].found = Got(l)
    BY <1>3, <2>1
  <2> QED
    BY <2>1, <2>2
<1>7. counters' = [counters EXCEPT
                !.succeeded = @ + Cardinality({l \in Closes(done) : active[l].found \/ found}),
                !.failed = @ + Cardinality({l \in Closes(done) : ~(active[l].found \/ found)})]
  BY <1>1, <1>5, <1>6, Zenon
<1>8. \A l \in Lookups : active'[l] = IF l \in Closes(done) THEN Closed
                                      ELSE IF active[l].open THEN after[l] ELSE active[l]
  BY <1>1, <1>4
<1>9. active' \in [Lookups -> Progress]
  <2>1. \A l \in Lookups : active'[l] \in Progress
    BY <1>3, <1>8, ClosedFields, ProgressTypes
  <2>2. active' = [l \in Lookups |-> active'[l]]
    BY <1>1
  <2> QED
    BY <2>1, <2>2
<1>10. ASSUME NEW l \in Lookups
       PROVE  /\ l \in Closes(done) => active'[l] = Closed
              /\ l \notin Closes(done) /\ active[l].open =>
                    /\ active'[l].open
                    /\ active'[l].outstanding = active[l].outstanding - done[l]
                    /\ active'[l].found <=> active[l].found \/ (done[l] > 0 /\ found)
              /\ ~active[l].open => active'[l] = active[l]
  <2>1. l \in Closes(done) => active'[l] = Closed
    BY <1>8
  <2>2. ASSUME l \notin Closes(done), active[l].open
        PROVE  /\ active'[l].open
               /\ active'[l].outstanding = active[l].outstanding - done[l]
               /\ active'[l].found <=> active[l].found \/ (done[l] > 0 /\ found)
    <3>1. active'[l] = after[l]
      BY <1>8, <2>2
    <3>2. active'[l].open = active[l].open /\ active'[l].outstanding = Left(l)
          /\ active'[l].found = Got(l)
      BY <1>3, <3>1
    <3> QED
      BY <1>2, <2>2, <3>2
  <2>3. ~active[l].open => active'[l] = active[l]
    BY <1>8 DEF Closes
  <2> QED
    BY <2>1, <2>2, <2>3
<1> QED
  BY <1>7, <1>9, <1>10

\* The three counters.
CounterType == [initiated : Nat, succeeded : Nat, failed : Nat]

LEMMA CountersClosed ==
    ASSUME counters \in CounterType, NEW x \in Nat, NEW y \in Nat,
           counters' = [counters EXCEPT !.succeeded = @ + x, !.failed = @ + y]
    PROVE  /\ counters' \in CounterType
           /\ counters'.initiated = counters.initiated
           /\ counters'.succeeded = counters.succeeded + x
           /\ counters'.failed = counters.failed + y
<1> DEFINE c == counters
           s == c.succeeded + x
           f == c.failed + y
           d == [c EXCEPT !.succeeded = s, !.failed = f]
<1>1. s \in Nat /\ f \in Nat
  BY DEF CounterType
<1>2. counters' = d
  OBVIOUS
<1> HIDE DEF c, s, f
<1>3. c \in CounterType
  BY DEF c
<1>4. d \in CounterType
  BY <1>1, <1>3 DEF CounterType
<1>5. d.initiated = c.initiated /\ d.succeeded = s /\ d.failed = f
  BY <1>1, <1>3 DEF CounterType
<1> HIDE DEF d
<1> QED
  BY <1>2, <1>4, <1>5 DEF c, s, f

\* RPCs of any number of lookups end outside a handler, or one at its end: as
\* many as `done' says leave the pending transactions and the answer being
\* handled, and the answer carried peers if `found'.
LEMMA LookupsComplete ==
    ASSUME LookupInv, CountInv, UNCHANGED <<begun, peersFor>>,
           NEW done, NEW found \in BOOLEAN, complete(done, found),
           \A l \in Lookups : ~Starting(l) /\ ~Starting(l)' /\ ~Responding(l)',
           \A l \in Lookups :
              /\ done[l] \in Nat
              /\ Cardinality(Mine(pending', l)) + done[l] =
                   Cardinality(Mine(pending, l)) + (IF Responding(l) THEN 1 ELSE 0)
              /\ (Responding(l) /\ task.then.found) <=> (done[l] > 0 /\ found)
    PROVE  LookupInv' /\ CountInv'
<1> DEFINE closes == Closes(done)
           good == {l \in closes : active[l].found \/ found}
           bad == {l \in closes : ~(active[l].found \/ found)}
<1>1. active \in [Lookups -> Progress] /\ peersFor \subseteq Lookups /\ counters \in CounterType
  BY DEF LookupInv, CountInv, CounterType
<1>2. ASSUME NEW l \in Lookups
      PROVE  /\ active[l].outstanding \in Nat /\ done[l] \in Nat
             /\ done[l] <= active[l].outstanding
             /\ active[l].outstanding = Cardinality(Mine(pending', l)) + done[l]
             /\ Cardinality(Mine(pending', l)) \in Nat
  <2>1. Cardinality(Mine(pending', l)) \in Nat /\ active[l].outstanding \in Nat /\ done[l] \in Nat
    BY <1>1, MineFinite, ProgressTypes
  <2>2. active[l].outstanding = Cardinality(Mine(pending', l)) + done[l]
    BY DEF LookupInv
  <2> QED
    BY <2>1, <2>2
<1>3. /\ active' \in [Lookups -> Progress]
      /\ \A l \in Lookups :
           /\ l \in closes => active'[l] = Closed
           /\ l \notin closes /\ active[l].open =>
                /\ active'[l].open
                /\ active'[l].outstanding = active[l].outstanding - done[l]
                /\ active'[l].found <=> active[l].found \/ (done[l] > 0 /\ found)
           /\ ~active[l].open => active'[l] = active[l]
      /\ counters' = [counters EXCEPT !.succeeded = @ + Cardinality(good),
                                      !.failed = @ + Cardinality(bad)]
  BY <1>1, <1>2, CompleteActive
<1>4. ASSUME NEW l \in Lookups
      PROVE  /\ l \in closes <=> active[l].open /\ done[l] > 0 /\ active[l].outstanding = done[l]
             /\ l \in closes => active[l].open
             /\ active[l].open <=> active[l].outstanding > 0
             /\ active'[l].open <=> active[l].open /\ l \notin closes
             /\ l \in closes => (l \in peersFor <=> active[l].found \/ found)
  <2>1. l \in closes <=> active[l].open /\ done[l] > 0 /\ active[l].outstanding = done[l]
    BY DEF Closes
  <2>2. active[l].open <=> active[l].outstanding > 0
    BY DEF LookupInv
  <2>3. active'[l].open <=> active[l].open /\ l \notin closes
    <3>1. CASE l \in closes
      BY <1>3, <3>1, ClosedFields
    <3>2. CASE l \notin closes /\ active[l].open
      BY <1>3, <3>2
    <3>3. CASE ~active[l].open
      BY <1>3, <3>3
    <3> QED
      BY <3>1, <3>2, <3>3
  <2>4. l \in closes => (l \in peersFor <=> active[l].found \/ found)
    <3>1. active[l].open => (l \in peersFor <=> active[l].found \/ (Responding(l) /\ task.then.found))
      BY DEF LookupInv
    <3> QED
      BY <2>1, <3>1
  <2> QED
    BY <2>1, <2>2, <2>3, <2>4
<1> HIDE DEF closes
<1>5. LookupInv'
  <2> SUFFICES ASSUME NEW l \in Lookups
               PROVE  /\ active'[l].outstanding = Cardinality(Mine(pending', l)) + 0
                      /\ active'[l].open <=> active'[l].outstanding > 0
                      /\ l > begun => ~active'[l].open /\ l \notin peersFor
                      /\ active'[l].open => (l \in peersFor <=> active'[l].found)
    BY <1>1, <1>3, Zenon DEF LookupInv
  <2>1. l > begun => ~active'[l].open /\ l \notin peersFor
    BY <1>4 DEF LookupInv
  <2>2. CASE l \in closes
    <3>1. active'[l] = Closed
      BY <1>3, <2>2
    <3>2. active'[l].outstanding = 0 /\ active'[l].open = FALSE
      BY <3>1, ClosedFields
    <3>3. Cardinality(Mine(pending', l)) = 0
      BY <1>2, <1>4, <2>2
    <3> QED
      BY <2>1, <3>2, <3>3
  <2>3. CASE l \notin closes /\ active[l].open
    <3>1. /\ active'[l].open
          /\ active'[l].outstanding = active[l].outstanding - done[l]
          /\ active'[l].found <=> active[l].found \/ (done[l] > 0 /\ found)
      BY <1>3, <2>3
    <3>2. active'[l].outstanding = Cardinality(Mine(pending', l))
      BY <1>2, <3>1
    <3>3. active'[l].outstanding > 0
      BY <1>2, <1>4, <2>3, <3>1
    <3>4. l \in peersFor <=> active[l].found \/ (Responding(l) /\ task.then.found)
      BY <2>3 DEF LookupInv
    <3> QED
      BY <1>2, <2>1, <3>1, <3>2, <3>3, <3>4
  <2>4. CASE ~active[l].open
    <3>1. active'[l] = active[l] /\ active[l].outstanding = 0
      BY <1>2, <1>3, <1>4, <2>4
    <3>2. Cardinality(Mine(pending', l)) = 0
      BY <1>2, <3>1
    <3> QED
      BY <2>1, <2>4, <3>1, <3>2
  <2> QED
    BY <2>2, <2>3, <2>4
<1>6. CountInv'
  <2>1. IsFiniteSet(OpenSet) /\ IsFiniteSet(closes) /\ IsFiniteSet(SucceededSet \cup good)
    <3>1. OpenSet \in SUBSET Lookups /\ closes \in SUBSET Lookups
          /\ SucceededSet \cup good \in SUBSET Lookups
      BY <1>1 DEF OpenSet, closes, Closes, SucceededSet
    <3> QED
      BY <3>1, LookupsFinite
  <2>2. OpenSet = OpenSet' \cup closes /\ OpenSet' \cap closes = {}
    <3>1. OpenSet = {l \in Lookups : active[l].open}
      BY DEF OpenSet
    <3>2. OpenSet' = {l \in Lookups : active'[l].open}
      BY DEF OpenSet
    <3>3. closes \subseteq Lookups
      BY DEF closes, Closes
    <3> QED
      BY <1>4, <3>1, <3>2, <3>3
  <2>3. closes = good \cup bad /\ good \cap bad = {}
    OBVIOUS
  <2>4. SucceededSet' = SucceededSet \cup good /\ SucceededSet \cap good = {}
    <3>1. closes \subseteq Lookups
      BY DEF closes, Closes
    <3>2. good = {l \in closes : l \in peersFor}
      BY <1>4, <3>1
    <3>3. SucceededSet' = {l \in peersFor : ~active'[l].open}
      BY DEF SucceededSet
    <3>4. ASSUME NEW l \in peersFor
          PROVE  /\ ~active'[l].open <=> ~active[l].open \/ l \in closes
                 /\ l \in closes => active[l].open
      BY <1>1, <1>4
    <3> QED
      BY <3>2, <3>3, <3>4 DEF SucceededSet
  <2>5. Cardinality(OpenSet) = Cardinality(OpenSet') + Cardinality(closes)
        /\ Cardinality(OpenSet') \in Nat /\ Cardinality(closes) \in Nat
    BY <2>1, <2>2, SplitCount
  <2>6. Cardinality(closes) = Cardinality(good) + Cardinality(bad)
        /\ Cardinality(good) \in Nat /\ Cardinality(bad) \in Nat
    <3>1. IsFiniteSet(closes)
      BY <2>1
    <3> HIDE DEF good, bad
    <3> QED
      BY <2>3, <3>1, SplitCount
  <2>7. Cardinality(SucceededSet') = Cardinality(SucceededSet) + Cardinality(good)
    <3> HIDE DEF good, bad
    <3>1. IsFiniteSet(SucceededSet')
      BY <2>1, <2>4
    <3> QED
      BY <2>4, <3>1, SplitCount
  <2> HIDE DEF good, bad
  <2>8. /\ counters' \in CounterType
        /\ counters'.initiated = counters.initiated
        /\ counters'.succeeded = counters.succeeded + Cardinality(good)
        /\ counters'.failed = counters.failed + Cardinality(bad)
    BY <1>1, <1>3, <2>6, CountersClosed
  <2>9. /\ counters.initiated = counters.succeeded + counters.failed + Cardinality(OpenSet)
        /\ counters.succeeded = Cardinality(SucceededSet)
        /\ counters.initiated \in Nat /\ counters.succeeded \in Nat /\ counters.failed \in Nat
    BY DEF CountInv
  <2>10. counters'.initiated = counters'.succeeded + counters'.failed + Cardinality(OpenSet')
    BY <2>5, <2>6, <2>8, <2>9
  <2>11. counters'.succeeded = Cardinality(SucceededSet')
    BY <2>7, <2>8, <2>9
  <2> QED
    BY <2>8, <2>10, <2>11 DEF CountInv, CounterType
<1> QED
  BY <1>5, <1>6

\* A step that moves no RPC of a lookup.
LEMMA LookupsQuiet ==
    ASSUME LookupInv, CountInv, UNCHANGED <<active, counters, peersFor, begun>>,
           \A l \in Lookups :
              /\ Cardinality(Mine(pending', l)) = Cardinality(Mine(pending, l))
              /\ Starting(l)' <=> Starting(l)
              /\ Responding(l)' <=> Responding(l)
              /\ Responding(l) => task'.then.found = task.then.found
    PROVE  LookupInv' /\ CountInv'
<1>1. LookupInv'
  BY DEF LookupInv
<1>2. OpenSet' = OpenSet /\ SucceededSet' = SucceededSet
  <2>1. OpenSet' = {l \in Lookups : active[l].open /\ ~Starting(l)'}
    BY DEF OpenSet
  <2>2. SucceededSet' = {l \in peersFor : ~active[l].open}
    BY DEF SucceededSet
  <2> QED
    BY <2>1, <2>2 DEF OpenSet, SucceededSet
<1>3. CountInv'
  BY <1>2, Zenon DEF CountInv
<1> QED
  BY <1>1, <1>3

\* The transactions of a lookup when one id gets or loses an RPC.
LEMMA MineGrows ==
    ASSUME NEW P, NEW Q, NEW tx \in Tx, P[tx] = NoRpc, Q[tx] # NoRpc,
           \A t \in Tx : t # tx => Q[t] = P[t], NEW l
    PROVE  Cardinality(Mine(Q, l)) = Cardinality(Mine(P, l)) + (IF Q[tx].lookup = l THEN 1 ELSE 0)
<1>1. IsFiniteSet(Mine(P, l)) /\ Cardinality(Mine(P, l)) \in Nat
  BY MineFinite
<1>2. CASE Q[tx].lookup = l
  <2>1. Mine(Q, l) = Mine(P, l) \cup {tx} /\ tx \notin Mine(P, l)
    BY <1>2 DEF Mine
  <2>2. Cardinality(Mine(P, l) \cup {tx}) = Cardinality(Mine(P, l)) + 1
    BY <1>1, <2>1, FS_AddElement
  <2> QED
    BY <1>2, <2>1, <2>2
<1>3. CASE Q[tx].lookup # l
  <2>1. Mine(Q, l) = Mine(P, l)
    BY <1>3 DEF Mine
  <2> QED
    BY <1>1, <1>3, <2>1
<1> QED
  BY <1>2, <1>3

LEMMA MineLoses ==
    ASSUME NEW tx \in Tx, pending[tx] # NoRpc,
           \A t \in Tx : pending'[t] = IF t = tx THEN NoRpc ELSE pending[t], NEW l
    PROVE  Cardinality(Mine(pending, l)) =
             Cardinality(Mine(pending', l)) + (IF pending[tx].lookup = l THEN 1 ELSE 0)
<1> DEFINE P == pending'  Q == pending
<1>1. P[tx] = NoRpc /\ Q[tx] # NoRpc /\ \A t \in Tx : t # tx => Q[t] = P[t]
  OBVIOUS
<1> HIDE DEF P, Q
<1>2. Cardinality(Mine(Q, l)) = Cardinality(Mine(P, l)) + (IF Q[tx].lookup = l THEN 1 ELSE 0)
  BY <1>1, MineGrows
<1> QED
  BY <1>2 DEF P, Q

\* The tracker when a lookup gets an RPC.
LEMMA ActiveGrows ==
    ASSUME active \in [Lookups -> Progress], NEW l \in Lookups,
           active' = [active EXCEPT ![l].outstanding = @ + 1]
    PROVE  /\ active' \in [Lookups -> Progress]
           /\ \A k \in Lookups :
                /\ active'[k].open = active[k].open /\ active'[k].found = active[k].found
                /\ active'[k].outstanding = active[k].outstanding + (IF k = l THEN 1 ELSE 0)
<1> DEFINE p == active[l]
           m == active[l].outstanding + 1
           q == [p EXCEPT !.outstanding = m]
<1>1. active' = [active EXCEPT ![l] = q]
  OBVIOUS
<1>2. p \in Progress /\ m \in Nat
  BY ProgressTypes
<1>3. active[l].outstanding + 1 = m
  OBVIOUS
<1> HIDE DEF m
<1>4. q \in Progress /\ q.open = p.open /\ q.found = p.found /\ q.outstanding = m
  <2> HIDE DEF p
  <2>1. q \in Progress
    BY <1>2 DEF Progress
  <2>2. q.open = p.open /\ q.found = p.found /\ q.outstanding = m
    BY <1>2 DEF Progress
  <2> QED
    BY <2>1, <2>2
<1> HIDE DEF q
<1>5. active' \in [Lookups -> Progress]
  BY <1>1, <1>4
<1>6. ASSUME NEW k \in Lookups
      PROVE  /\ active'[k].open = active[k].open /\ active'[k].found = active[k].found
             /\ active'[k].outstanding = active[k].outstanding + (IF k = l THEN 1 ELSE 0)
  <2>1. CASE k = l
    <3>1. active'[k] = q
      BY <1>1, <2>1
    <3> QED
      BY <1>3, <1>4, <2>1, <3>1
  <2>2. CASE k # l
    <3>1. active'[k] = active[k] /\ active[k].outstanding \in Nat
      BY <1>1, <2>2, ProgressTypes
    <3> QED
      BY <2>2, <3>1
  <2> QED
    BY <2>1, <2>2
<1> QED
  BY <1>5, <1>6

\* An RPC of the handler in progress is sent.
LEMMA LookupSent ==
    ASSUME LookupInv, CountInv, UNCHANGED <<counters, peersFor, begun>>,
           NEW tx \in Tx, pending[tx] = NoRpc, NEW rpc, rpc # NoRpc,
           \A t \in Tx : pending'[t] = IF t = tx THEN rpc ELSE pending[t],
           active' = IF rpc.lookup \in Lookups /\ active[rpc.lookup].open
                     THEN [active EXCEPT ![rpc.lookup].outstanding = @ + 1] ELSE active,
           rpc.lookup \in Lookups => Starting(rpc.lookup) \/ Responding(rpc.lookup),
           task'.phase = task.phase, task'.then = task.then
    PROVE  LookupInv' /\ CountInv'
<1> DEFINE L == rpc.lookup
<1>1. active \in [Lookups -> Progress]
  BY DEF LookupInv
<1>2. ASSUME NEW l
      PROVE  /\ Starting(l)' <=> Starting(l)
             /\ Responding(l)' <=> Responding(l)
             /\ Cardinality(Mine(pending', l)) =
                  Cardinality(Mine(pending, l)) + (IF L = l THEN 1 ELSE 0)
  <2>1. Starting(l)' <=> Starting(l)
    BY DEF Starting
  <2>2. Responding(l)' <=> Responding(l)
    BY DEF Responding
  <2>3. Cardinality(Mine(pending', l)) = Cardinality(Mine(pending, l)) + (IF L = l THEN 1 ELSE 0)
    <3>1. pending'[tx] = rpc /\ \A t \in Tx : t # tx => pending'[t] = pending[t]
      OBVIOUS
    <3>2. Cardinality(Mine(pending', l)) =
               Cardinality(Mine(pending, l)) + (IF pending'[tx].lookup = l THEN 1 ELSE 0)
      <4> DEFINE P == pending  Q == pending'
      <4>1. P[tx] = NoRpc /\ Q[tx] # NoRpc /\ \A t \in Tx : t # tx => Q[t] = P[t]
        BY <3>1
      <4> HIDE DEF P, Q
      <4>2. Cardinality(Mine(Q, l)) =
               Cardinality(Mine(P, l)) + (IF Q[tx].lookup = l THEN 1 ELSE 0)
        BY <4>1, MineGrows
      <4> QED
        BY <4>2 DEF P, Q
    <3> QED
      BY <3>1, <3>2
  <2> QED
    BY <2>1, <2>2, <2>3
<1>3. CASE L \notin Lookups
  <2>1. ASSUME NEW l \in Lookups
        PROVE  Cardinality(Mine(pending', l)) = Cardinality(Mine(pending, l))
    <3>1. Cardinality(Mine(pending, l)) \in Nat /\ L # l
      BY <1>3, MineFinite
    <3> QED
      BY <1>2, <3>1
  <2>2. UNCHANGED active /\ task'.then.found = task.then.found
    BY <1>3
  <2> QED
    BY <1>2, <2>1, <2>2, LookupsQuiet
<1>4. CASE L \in Lookups
  <2>1. active[L].open
    <3>1. active[L].outstanding \in Nat /\ Cardinality(Mine(pending, L)) \in Nat
      BY <1>1, <1>4, ProgressTypes, MineFinite
    <3> QED
      BY <1>4, <3>1 DEF LookupInv
  <2>2. active' = [active EXCEPT ![L].outstanding = @ + 1]
    BY <1>4, <2>1
  <2>3. /\ active' \in [Lookups -> Progress]
        /\ \A k \in Lookups :
             /\ active'[k].open = active[k].open /\ active'[k].found = active[k].found
             /\ active'[k].outstanding = active[k].outstanding + (IF k = L THEN 1 ELSE 0)
    BY <1>1, <1>4, <2>2, ActiveGrows
  <2>4. LookupInv'
    <3> SUFFICES ASSUME NEW l \in Lookups
                 PROVE  /\ active'[l].outstanding =
                             Cardinality(Mine(pending', l)) + (IF Responding(l) THEN 1 ELSE 0)
                        /\ active'[l].open <=> active'[l].outstanding > 0 \/ Starting(l)
                        /\ l > begun => ~active'[l].open /\ l \notin peersFor
                        /\ Starting(l) => l \notin peersFor
                        /\ active'[l].open =>
                             (l \in peersFor <=> active'[l].found
                                                 \/ (Responding(l) /\ task.then.found))
      BY <1>2, <2>3 DEF LookupInv
    <3>1. active[l].outstanding \in Nat /\ Cardinality(Mine(pending, l)) \in Nat
      BY <1>1, ProgressTypes, MineFinite
    <3>2. active'[l].outstanding = Cardinality(Mine(pending', l)) + (IF Responding(l) THEN 1 ELSE 0)
      BY <1>2, <2>3, <3>1 DEF LookupInv
    <3>3. active'[l].open <=> active'[l].outstanding > 0 \/ Starting(l)
      BY <2>1, <2>3, <3>1 DEF LookupInv
    <3> QED
      BY <2>3, <3>2, <3>3 DEF LookupInv
  <2>5. OpenSet' = OpenSet /\ SucceededSet' = SucceededSet
    <3>1. OpenSet' = {l \in Lookups : active'[l].open /\ ~Starting(l)'}
      BY DEF OpenSet
    <3>2. SucceededSet' = {l \in peersFor : ~active'[l].open}
      BY DEF SucceededSet
    <3>3. peersFor \subseteq Lookups
      BY DEF LookupInv
    <3> QED
      BY <1>2, <2>3, <3>1, <3>2, <3>3 DEF OpenSet, SucceededSet
  <2>6. CountInv'
    BY <2>5, Zenon DEF CountInv
  <2> QED
    BY <2>4, <2>6
<1> QED
  BY <1>3, <1>4

LEMMA CountersInitiated ==
    ASSUME counters \in CounterType,
           counters' = [counters EXCEPT !.initiated = @ + 1]
    PROVE  /\ counters' \in CounterType
           /\ counters'.initiated = counters.initiated + 1
           /\ counters'.succeeded = counters.succeeded
           /\ counters'.failed = counters.failed
<1> DEFINE c == counters
           n == c.initiated + 1
           d == [c EXCEPT !.initiated = n]
<1>1. n \in Nat
  BY DEF CounterType
<1>2. counters' = d
  OBVIOUS
<1> HIDE DEF c, n
<1>3. c \in CounterType
  BY DEF c
<1>4. d \in CounterType
  BY <1>1, <1>3 DEF CounterType
<1>5. d.initiated = n /\ d.succeeded = c.succeeded /\ d.failed = c.failed
  BY <1>1, <1>3 DEF CounterType
<1> HIDE DEF d
<1> QED
  BY <1>2, <1>4, <1>5 DEF c, n

\* started(): the lookup counts as initiated if one of its RPCs was sent, else it
\* is forgotten.
LEMMA LookupStarted ==
    ASSUME LookupInv, CountInv, UNCHANGED <<pending, peersFor, begun>>,
           NEW L \in Lookups, Starting(L), \A l \in Lookups : l # L => ~Starting(l),
           \A l \in Lookups : ~Responding(l),
           task' = Idle, started(L)
    PROVE  LookupInv' /\ CountInv'
<1>1. /\ active \in [Lookups -> Progress] /\ peersFor \subseteq Lookups
      /\ counters \in CounterType /\ L \notin peersFor /\ active[L].open
  BY DEF LookupInv, CountInv, CounterType
<1>2. \A l \in Lookups : ~Starting(l)' /\ ~Responding(l)'
  BY DEF Starting, Responding, Idle
<1>3. \A l \in Lookups : active[l].outstanding \in Nat /\ Cardinality(Mine(pending, l)) \in Nat
  BY <1>1, ProgressTypes, MineFinite
<1>4. /\ OpenSet' = {l \in Lookups : active'[l].open}
      /\ OpenSet = {l \in Lookups : active[l].open /\ l # L}
      /\ SucceededSet' = {l \in peersFor : ~active'[l].open}
      /\ SucceededSet = {l \in peersFor : ~active[l].open}
  BY <1>2 DEF OpenSet, SucceededSet
<1>5. /\ counters.initiated = counters.succeeded + counters.failed + Cardinality(OpenSet)
      /\ counters.succeeded = Cardinality(SucceededSet)
      /\ counters.initiated \in Nat /\ counters.succeeded \in Nat /\ counters.failed \in Nat
  BY DEF CountInv
<1>6. CASE active[L].outstanding > 0
  <2>1. UNCHANGED active /\ counters' = [counters EXCEPT !.initiated = @ + 1]
    BY <1>6, Zenon DEF started
  <2>2. LookupInv'
    <3> SUFFICES ASSUME NEW l \in Lookups
                 PROVE  /\ active[l].outstanding = Cardinality(Mine(pending, l)) + 0
                        /\ active[l].open <=> active[l].outstanding > 0
                        /\ l > begun => ~active[l].open /\ l \notin peersFor
                        /\ active[l].open => (l \in peersFor <=> active[l].found)
      BY <1>1, <1>2, <2>1, Zenon DEF LookupInv
    <3>1. active[l].outstanding = Cardinality(Mine(pending, l)) + 0
      BY <1>3 DEF LookupInv
    <3>2. active[l].open <=> active[l].outstanding > 0
      BY <1>6 DEF LookupInv
    <3> QED
      BY <3>1, <3>2 DEF LookupInv
  <2>3. OpenSet' = OpenSet \cup {L} /\ L \notin OpenSet /\ SucceededSet' = SucceededSet
    BY <1>1, <1>4, <2>1
  <2>4. IsFiniteSet(OpenSet) /\ Cardinality(OpenSet) \in Nat
    BY <1>4, LookupsFinite
  <2>5. Cardinality(OpenSet \cup {L}) = Cardinality(OpenSet) + 1
    BY <2>3, <2>4, FS_AddElement
  <2>6. /\ Cardinality(OpenSet') = Cardinality(OpenSet \cup {L})
        /\ Cardinality(SucceededSet') = Cardinality(SucceededSet)
    BY <2>3, Zenon
  <2>7. /\ counters' \in CounterType
        /\ counters'.initiated = counters.initiated + 1
        /\ counters'.succeeded = counters.succeeded
        /\ counters'.failed = counters.failed
    BY <1>1, <2>1, CountersInitiated
  <2>8. counters'.initiated = counters'.succeeded + counters'.failed + Cardinality(OpenSet')
    BY <1>5, <2>4, <2>5, <2>6, <2>7
  <2>9. counters'.succeeded = Cardinality(SucceededSet')
    BY <1>5, <2>6, <2>7
  <2>10. CountInv'
    BY <2>7, <2>8, <2>9 DEF CountInv, CounterType
  <2> QED
    BY <2>2, <2>10
<1>7. CASE ~(active[L].outstanding > 0)
  <2>1. active' = [active EXCEPT ![L] = Closed]
    BY <1>7, Zenon DEF started
  <2>2. counters' = counters
    <3> DEFINE c == counters  n == c.initiated
    <3>1. counters' = [c EXCEPT !.initiated = n]
      BY <1>7, Zenon DEF started
    <3> HIDE DEF c
    <3>2. c \in CounterType => [c EXCEPT !.initiated = n] = c
      BY DEF CounterType
    <3> QED
      BY <1>1, <3>1, <3>2 DEF c
  <2>3. /\ active' \in [Lookups -> Progress] /\ active'[L] = Closed
        /\ \A l \in Lookups : l # L => active'[l] = active[l]
    BY <1>1, <2>1, ClosedFields
  <2>4. active'[L].open = FALSE /\ active'[L].outstanding = 0
    BY <2>3, ClosedFields
  <2>5. LookupInv'
    <3> SUFFICES ASSUME NEW l \in Lookups
                 PROVE  /\ active'[l].outstanding = Cardinality(Mine(pending, l)) + 0
                        /\ active'[l].open <=> active'[l].outstanding > 0
                        /\ l > begun => ~active'[l].open /\ l \notin peersFor
                        /\ active'[l].open => (l \in peersFor <=> active'[l].found)
      BY <1>1, <1>2, <2>3, Zenon DEF LookupInv
    <3>1. CASE l = L
      <4>1. Cardinality(Mine(pending, L)) = 0
        BY <1>3, <1>7 DEF LookupInv
      <4> QED
        BY <1>1, <2>4, <3>1, <4>1
    <3>2. CASE l # L
      <4>1. active'[l] = active[l]
        BY <2>3, <3>2
      <4>2. active[l].outstanding = Cardinality(Mine(pending, l)) + 0
        BY <1>3 DEF LookupInv
      <4> QED
        BY <3>2, <4>1, <4>2 DEF LookupInv
    <3> QED
      BY <3>1, <3>2
  <2>6. OpenSet' = OpenSet /\ SucceededSet' = SucceededSet
    BY <1>1, <1>4, <2>3, <2>4
  <2>7. CountInv'
    BY <2>2, <2>6, Zenon DEF CountInv
  <2> QED
    BY <2>5, <2>7
<1> QED
  BY <1>6, <1>7

\* The record of a lookup that is being set up.
LEMMA FreshFields ==
    LET fresh == [Closed EXCEPT !.open = TRUE]
    IN  /\ fresh \in Progress /\ fresh.open = TRUE
        /\ fresh.outstanding = 0 /\ fresh.found = FALSE
<1> DEFINE p == Closed  q == [p EXCEPT !.open = TRUE]
<1>1. p \in Progress /\ p.outstanding = 0 /\ p.found = FALSE
  BY ClosedFields
<1> HIDE DEF p
<1>2. q \in Progress
  BY <1>1 DEF Progress
<1>3. q.open = TRUE /\ q.outstanding = p.outstanding /\ q.found = p.found
  BY <1>1 DEF Progress
<1> HIDE DEF q
<1>4. q \in Progress /\ q.open = TRUE /\ q.outstanding = 0 /\ q.found = FALSE
  BY <1>1, <1>2, <1>3
<1> QED
  BY <1>4, Zenon DEF q, p

\* A hash is popped and its lookup is set up.
LEMMA LookupBegun ==
    ASSUME LookupInv, CountInv, begun \in Nat, UNCHANGED <<pending, counters, peersFor>>,
           begun + 1 \in Lookups, begun' = begun + 1,
           active' = [active EXCEPT ![begun + 1] = [Closed EXCEPT !.open = TRUE]],
           task = Pop, NEW s, NEW p, task' = Sending(s, p, Started(begun + 1))
    PROVE  LookupInv' /\ CountInv'
<1> DEFINE L == begun + 1
           fresh == [Closed EXCEPT !.open = TRUE]
<1>1. fresh \in Progress /\ fresh.open = TRUE /\ fresh.outstanding = 0 /\ fresh.found = FALSE
  BY FreshFields, Zenon
<1> HIDE DEF fresh
<1>2. L \in Lookups /\ L > begun /\ L \in Nat
  OBVIOUS
<1>3. active \in [Lookups -> Progress] /\ peersFor \subseteq Lookups
  BY DEF LookupInv
<1>4. \A l \in Lookups : ~Starting(l) /\ ~Responding(l)
  BY NoHandler
<1>5. \A l \in Lookups : (Starting(l)' <=> l = L) /\ ~Responding(l)'
  BY SendingFields DEF Starting, Responding, Started, Sending
<1>6. active' = [active EXCEPT ![L] = fresh]
  BY DEF fresh
<1>7. /\ active' \in [Lookups -> Progress] /\ active'[L] = fresh
      /\ \A l \in Lookups : l # L => active'[l] = active[l]
  BY <1>1, <1>2, <1>3, <1>6
<1>8. ~active[L].open /\ L \notin peersFor
  BY <1>2 DEF LookupInv
<1>9. \A l \in Lookups : active[l].outstanding \in Nat /\ Cardinality(Mine(pending, l)) \in Nat
  BY <1>3, ProgressTypes, MineFinite
<1>10. LookupInv'
  <2> SUFFICES ASSUME NEW l \in Lookups
               PROVE  /\ active'[l].outstanding = Cardinality(Mine(pending, l)) + 0
                      /\ active'[l].open <=> active'[l].outstanding > 0 \/ l = L
                      /\ l > begun' => ~active'[l].open /\ l \notin peersFor
                      /\ l = L => l \notin peersFor
                      /\ active'[l].open => (l \in peersFor <=> active'[l].found)
    BY <1>3, <1>5, <1>7, Zenon DEF LookupInv
  <2>1. CASE l = L
    <3>1. Cardinality(Mine(pending, L)) = 0
      BY <1>2, <1>4, <1>8, <1>9 DEF LookupInv
    <3>2. active'[l].open = TRUE /\ active'[l].outstanding = 0 /\ active'[l].found = FALSE
      BY <1>1, <1>7, <2>1
    <3> QED
      BY <1>2, <1>8, <2>1, <3>1, <3>2
  <2>2. CASE l # L
    <3>1. active'[l] = active[l]
      BY <1>7, <2>2
    <3>2. active[l].outstanding = Cardinality(Mine(pending, l)) + 0
      BY <1>4, <1>9 DEF LookupInv
    <3>3. l > begun' => l > begun
      BY <1>2 DEF Lookups
    <3>4. active[l].open <=> active[l].outstanding > 0
      BY <1>4 DEF LookupInv
    <3>5. l > begun => ~active[l].open /\ l \notin peersFor
      BY DEF LookupInv
    <3>6. active[l].open => (l \in peersFor <=> active[l].found)
      BY <1>4 DEF LookupInv
    <3> QED
      BY <2>2, <3>1, <3>2, <3>3, <3>4, <3>5, <3>6
  <2> QED
    BY <2>1, <2>2
<1>11. OpenSet' = OpenSet /\ SucceededSet' = SucceededSet
  <2>1. /\ OpenSet' = {l \in Lookups : active'[l].open /\ l # L}
        /\ OpenSet = {l \in Lookups : active[l].open}
        /\ SucceededSet' = {l \in peersFor : ~active'[l].open}
        /\ SucceededSet = {l \in peersFor : ~active[l].open}
    BY <1>4, <1>5 DEF OpenSet, SucceededSet
  <2> QED
    BY <1>3, <1>7, <1>8, <2>1
<1>12. CountInv'
  BY <1>11, Zenon DEF CountInv
<1> QED
  BY <1>10, <1>12

\* An answer to an RPC of a lookup takes it from the pending transactions into
\* the handler, which continues the lookup before it is taken off.
LEMMA LookupAnswered ==
    ASSUME LookupInv, CountInv, UNCHANGED <<active, counters, begun>>,
           NEW tx \in Tx, NEW L \in Lookups, L <= begun, begun \in Nat,
           pending[tx] # NoRpc, pending[tx].lookup = L,
           \A t \in Tx : pending'[t] = IF t = tx THEN NoRpc ELSE pending[t],
           task = Idle, NEW s, NEW p, NEW found \in BOOLEAN,
           task' = Sending(s, p, Respond(L, found)),
           peersFor' = IF found THEN peersFor \cup {L} ELSE peersFor
    PROVE  LookupInv' /\ CountInv'
<1>1. active \in [Lookups -> Progress] /\ peersFor \subseteq Lookups
  BY DEF LookupInv
<1>2. \A l \in Lookups : ~Starting(l) /\ ~Responding(l)
  BY NoHandler
<1>3. task'.phase = "send" /\ task'.then.do = "respond" /\ task'.then.lookup = L
      /\ task'.then.found = found
  BY DEF Sending, Respond
<1>4. \A l \in Lookups : ~Starting(l)' /\ (Responding(l)' <=> l = L)
  BY <1>3 DEF Starting, Responding
<1>5. ASSUME NEW l
      PROVE  Cardinality(Mine(pending, l)) =
               Cardinality(Mine(pending', l)) + (IF L = l THEN 1 ELSE 0)
  BY MineLoses
<1>6. \A l \in Lookups : /\ active[l].outstanding \in Nat
                         /\ Cardinality(Mine(pending, l)) \in Nat
                         /\ Cardinality(Mine(pending', l)) \in Nat
  BY <1>1, ProgressTypes, MineFinite
<1>7. active[L].open
  <2>1. active[L].outstanding > 0
    BY <1>2, <1>5, <1>6 DEF LookupInv
  <2> QED
    BY <2>1 DEF LookupInv
<1>8. peersFor' \subseteq Lookups /\ \A l : l # L => (l \in peersFor' <=> l \in peersFor)
  BY <1>1
<1>9. LookupInv'
  <2> SUFFICES ASSUME NEW l \in Lookups
               PROVE  /\ active[l].outstanding =
                           Cardinality(Mine(pending', l)) + (IF l = L THEN 1 ELSE 0)
                      /\ active[l].open <=> active[l].outstanding > 0
                      /\ l > begun => ~active[l].open /\ l \notin peersFor'
                      /\ active[l].open => (l \in peersFor' <=> active[l].found \/ (l = L /\ found))
    BY <1>1, <1>3, <1>4, <1>8, Zenon DEF LookupInv
  <2>1. active[l].outstanding = Cardinality(Mine(pending', l)) + (IF l = L THEN 1 ELSE 0)
    BY <1>2, <1>5, <1>6 DEF LookupInv
  <2>2. active[l].open <=> active[l].outstanding > 0
    BY <1>2 DEF LookupInv
  <2>3. active[l].open => (l \in peersFor <=> active[l].found)
    BY <1>2 DEF LookupInv
  <2>4. l > begun => ~active[l].open /\ l \notin peersFor
    BY DEF LookupInv
  <2>5. l = L => ~(l > begun)
    BY DEF Lookups
  <2>6. l \in peersFor' <=> l \in peersFor \/ (l = L /\ found)
    OBVIOUS
  <2> QED
    BY <2>1, <2>2, <2>3, <2>4, <2>5, <2>6
<1>10. OpenSet' = OpenSet /\ SucceededSet' = SucceededSet
  <2>1. /\ OpenSet' = {l \in Lookups : active[l].open}
        /\ OpenSet = {l \in Lookups : active[l].open}
        /\ SucceededSet' = {l \in peersFor' : ~active[l].open}
        /\ SucceededSet = {l \in peersFor : ~active[l].open}
    BY <1>2, <1>4 DEF OpenSet, SucceededSet
  <2> QED
    BY <1>7, <1>8, <2>1
<1>11. CountInv'
  BY <1>10, Zenon DEF CountInv
<1> QED
  BY <1>9, <1>11

\* An RPC ends outside a handler: with an error, or with a malformed answer.
LEMMA LookupOneEnds ==
    ASSUME LookupInv, CountInv, UNCHANGED <<begun, peersFor, task>>, task = Idle,
           NEW tx \in Tx, pending[tx] # NoRpc,
           \A t \in Tx : pending'[t] = IF t = tx THEN NoRpc ELSE pending[t],
           complete(OneOf(pending[tx].lookup), FALSE)
    PROVE  LookupInv' /\ CountInv'
<1> DEFINE L == pending[tx].lookup
           done == OneOf(L)
<1>1. \A l \in Lookups : ~Starting(l) /\ ~Responding(l)
  BY NoHandler
<1>2. \A l \in Lookups : ~Starting(l)' /\ ~Responding(l)'
  BY DEF Starting, Responding, Idle
<1>3. \A l \in Lookups : done[l] = IF L = l THEN 1 ELSE 0
  BY DEF OneOf
<1>4. ASSUME NEW l \in Lookups
      PROVE  Cardinality(Mine(pending, l)) =
               Cardinality(Mine(pending', l)) + (IF L = l THEN 1 ELSE 0)
  BY MineLoses
<1>5. complete(done, FALSE)
  OBVIOUS
<1> HIDE DEF L, done
<1>6. ASSUME NEW l \in Lookups
      PROVE  /\ done[l] \in Nat
             /\ Cardinality(Mine(pending', l)) + done[l] =
                  Cardinality(Mine(pending, l)) + (IF Responding(l) THEN 1 ELSE 0)
             /\ (Responding(l) /\ task.then.found) <=> (done[l] > 0 /\ FALSE)
  <2>1. Cardinality(Mine(pending, l)) \in Nat /\ Cardinality(Mine(pending', l)) \in Nat
    BY MineFinite
  <2> QED
    BY <1>1, <1>3, <1>4, <2>1
<1> QED
  BY <1>1, <1>2, <1>5, <1>6, LookupsComplete

\* respond(): the answered RPC is taken off its lookup, at the end of its handler.
LEMMA LookupResponded ==
    ASSUME LookupInv, CountInv, UNCHANGED <<pending, peersFor, begun>>,
           NEW L \in Lookups, NEW found \in BOOLEAN,
           task.phase = "send", task.then = Respond(L, found), task' = Idle,
           complete(OneOf(L), found)
    PROVE  LookupInv' /\ CountInv'
<1> DEFINE done == OneOf(L)
<1>1. task.then.do = "respond" /\ task.then.lookup = L /\ task.then.found = found
  BY DEF Respond
<1>2. \A l \in Lookups : ~Starting(l) /\ (Responding(l) <=> l = L)
  BY <1>1 DEF Starting, Responding
<1>3. \A l \in Lookups : ~Starting(l)' /\ ~Responding(l)'
  BY DEF Starting, Responding, Idle
<1>4. \A l \in Lookups : done[l] = IF l = L THEN 1 ELSE 0
  BY DEF OneOf
<1>5. complete(done, found)
  OBVIOUS
<1> HIDE DEF done
<1>6. ASSUME NEW l \in Lookups
      PROVE  /\ done[l] \in Nat
             /\ Cardinality(Mine(pending', l)) + done[l] =
                  Cardinality(Mine(pending, l)) + (IF Responding(l) THEN 1 ELSE 0)
             /\ (Responding(l) /\ task.then.found) <=> (done[l] > 0 /\ found)
  <2>1. Cardinality(Mine(pending', l)) = Cardinality(Mine(pending, l))
    OBVIOUS
  <2> QED
    BY <1>1, <1>2, <1>4, <2>1
<1> QED
  BY <1>2, <1>3, <1>5, <1>6, LookupsComplete

\* An answer to an RPC that is for no real lookup.
LEMMA OtherAnswered ==
    ASSUME LookupInv, CountInv, UNCHANGED <<active, counters, begun, peersFor>>,
           NEW tx \in Tx, pending[tx] # NoRpc, pending[tx].lookup = 0,
           \A t \in Tx : pending'[t] = IF t = tx THEN NoRpc ELSE pending[t],
           task = Idle, NEW s, NEW p, task' = Sending(s, p, Done)
    PROVE  LookupInv' /\ CountInv'
<1>1. ASSUME NEW l \in Lookups
      PROVE  Cardinality(Mine(pending', l)) = Cardinality(Mine(pending, l))
  <2>1. l # 0
    BY DEF Lookups
  <2>2. Cardinality(Mine(pending, l)) =
             Cardinality(Mine(pending', l)) + (IF pending[tx].lookup = l THEN 1 ELSE 0)
    BY MineLoses
  <2>3. Cardinality(Mine(pending', l)) \in Nat
    BY MineFinite
  <2> QED
    BY <2>1, <2>2, <2>3
<1>2. \A l \in Lookups : ~Starting(l) /\ ~Responding(l)
  BY NoHandler
<1>3. \A l \in Lookups : ~Starting(l)' /\ ~Responding(l)'
  BY DEF Starting, Responding, Sending, Done
<1> QED
  BY <1>1, <1>2, <1>3, LookupsQuiet


\* What expire_pending does besides retiring the ids.
ExpiredFailures == [n \in Nodes |-> Cardinality({tx \in Expired : pending[tx].known
                                                                   /\ pending[tx].node = n})]
ExpiredHashes == {pending[tx].hash : tx \in {t \in Expired : pending[t].real}}
ExpiredOf(l) == {tx \in Expired : pending[tx].lookup = l}

LEMMA ExpireParts ==
    ASSUME expire_pending
    PROVE  /\ routing' = Failed(ExpiredFailures)
           /\ queue_hashes(ExpiredHashes)
           /\ complete([l \in Lookups |-> Cardinality(ExpiredOf(l))], FALSE)
<1>1. routing' = Failed(ExpiredFailures)
  BY Zenon DEF expire_pending, ExpiredFailures, Expired
<1>2. queue_hashes(ExpiredHashes)
  BY Zenon DEF expire_pending, ExpiredHashes, Expired
<1>3. complete([l \in Lookups |-> Cardinality(ExpiredOf(l))], FALSE)
  BY Zenon DEF expire_pending, ExpiredOf, Expired
<1> QED
  BY <1>1, <1>2, <1>3

\* RPCs of any number of lookups time out at once.
LEMMA LookupsExpire ==
    ASSUME LookupInv, CountInv, UNCHANGED <<begun, peersFor>>, task = Idle,
           task' = Idle \/ task' = Pop, expire_pending,
           \A t \in Tx : pending'[t] = IF t \in Expired THEN NoRpc ELSE pending[t]
    PROVE  LookupInv' /\ CountInv'
<1> DEFINE done == [l \in Lookups |-> Cardinality(ExpiredOf(l))]
<1>1. \A l \in Lookups : ~Starting(l) /\ ~Responding(l)
  BY NoHandler
<1>2. \A l \in Lookups : ~Starting(l)' /\ ~Responding(l)'
  BY DEF Starting, Responding, Idle, Pop
<1>3. complete(done, FALSE)
  BY ExpireParts
<1>4. ASSUME NEW l \in Lookups
      PROVE  /\ Cardinality(Mine(pending, l)) =
                  Cardinality(Mine(pending', l)) + Cardinality(ExpiredOf(l))
             /\ Cardinality(Mine(pending', l)) \in Nat /\ Cardinality(ExpiredOf(l)) \in Nat
  <2> DEFINE S == Mine(pending, l)  A == Mine(pending', l)  B == ExpiredOf(l)
  <2>1. S = A \cup B /\ A \cap B = {}
    BY DEF Mine, ExpiredOf, Expired, Pendings, IsPending
  <2>2. IsFiniteSet(S)
    BY MineFinite
  <2> HIDE DEF S, A, B
  <2>3. /\ Cardinality(S) = Cardinality(A) + Cardinality(B)
        /\ Cardinality(A) \in Nat /\ Cardinality(B) \in Nat
    BY <2>1, <2>2, SplitCount
  <2> QED
    BY <2>3 DEF S, A, B
<1>5. \A l \in Lookups : done[l] = Cardinality(ExpiredOf(l))
  OBVIOUS
<1> HIDE DEF done
<1>6. ASSUME NEW l \in Lookups
      PROVE  /\ done[l] \in Nat
             /\ Cardinality(Mine(pending', l)) + done[l] =
                  Cardinality(Mine(pending, l)) + (IF Responding(l) THEN 1 ELSE 0)
             /\ (Responding(l) /\ task.then.found) <=> (done[l] > 0 /\ FALSE)
  BY <1>1, <1>4, <1>5
<1> QED
  BY <1>1, <1>2, <1>3, <1>6, LookupsComplete

------------------------------------------------------------------------------
(***************************************************************************)
(* The routing table.                                                      *)
(***************************************************************************)
LEMMA TableFails ==
    ASSUME TableInv, NEW failures, routing' = Failed(failures), UNCHANGED <<next_tx, begun>>
    PROVE  TableInv'
<1>1. \A m \in Nodes : routing[m] \in Standing
  BY DEF TableInv
<1>2. ASSUME NEW m \in Nodes
      PROVE  routing'[m] \in Standing
  <2>1. /\ routing'[m] = CASE routing[m] = "good" /\ failures[m] = 1 -> "questionable"
                           [] routing[m] = "good" /\ failures[m] > 1 -> "absent"
                           [] routing[m] = "questionable" /\ failures[m] > 0 -> "absent"
                           [] OTHER -> routing[m]
    BY DEF Failed
  <2> QED
    BY <1>1, <2>1 DEF Standing
<1>3. routing' = [m \in Nodes |-> routing'[m]]
  BY DEF Failed
<1> QED
  BY <1>2, <1>3 DEF TableInv

LEMMA TableValidates ==
    ASSUME TableInv, NEW n, NEW C, routing' = Validated(n, C), UNCHANGED <<next_tx, begun>>
    PROVE  TableInv'
<1>1. \A m \in Nodes : routing[m] \in Standing
  BY DEF TableInv
<1>2. \A m \in Nodes : routing'[m] \in Standing
  BY <1>1 DEF Validated, Standing
<1>3. routing' = [m \in Nodes |-> routing'[m]]
  BY DEF Validated
<1> QED
  BY <1>2, <1>3 DEF TableInv


------------------------------------------------------------------------------
(***************************************************************************)
(* Every step preserves the invariant.                                     *)
(***************************************************************************)
\* Facts that most steps use.
LEMMA Basics ==
    ASSUME IInv
    PROVE  /\ begun \in Nat /\ begun <= MaxLookups
           /\ \A a \in net : a.tx \in Tx
           /\ \A tx \in Tx : IsPending(tx) =>
                /\ GoodRpc(pending[tx], begun) /\ pending[tx].lookup \in 0 .. MaxLookups
                /\ pending[tx].real => pending[tx].hash \in Hashes
<1>1. begun \in Nat /\ begun <= MaxLookups
  BY DhtAssumption DEF IInv, TableInv
<1>2. \A a \in net : a.tx \in Tx
  BY DEF IInv, NetInv, Answer
<1>3. ASSUME NEW tx \in Tx, IsPending(tx)
      PROVE  /\ GoodRpc(pending[tx], begun) /\ pending[tx].lookup \in 0 .. MaxLookups
             /\ pending[tx].real => pending[tx].hash \in Hashes
  <2>1. GoodRpc(pending[tx], begun)
    BY <1>3 DEF IInv, TransactionInv
  <2> QED
    BY <2>1 DEF GoodRpc, Rpc
<1> QED
  BY <1>1, <1>2, <1>3

LEMMA QuietTable ==
    ASSUME TableInv, UNCHANGED <<routing, next_tx, begun>>
    PROVE  TableInv'
BY DEF TableInv

LEMMA QuietTask ==
    ASSUME TaskInv, UNCHANGED <<task, begun>>
    PROVE  TaskInv'
<1>1. task = Idle \/ task = Pop \/ task.phase = "send"
  BY SendingFields DEF TaskInv
<1>2. CASE task = Idle \/ task = Pop
  BY <1>2 DEF TaskInv, Idle, Pop, Sending
<1>3. CASE task.phase = "send"
  BY <1>3, InHandler, HandlerInv
<1> QED
  BY <1>1, <1>2, <1>3

\* send_rpc.
LEMMA SendStep ==
    ASSUME IInv, send_rpc
    PROVE  IInv'
<1>1. /\ task.phase = "send" /\ task.todo # <<>> /\ Advance
      /\ UNCHANGED <<queue, queued, routing, retired, begun, counters, peersFor>>
  BY DEF send_rpc
<1>2. /\ GoodRpc(task.rpc, begun) /\ task.rpc.ttl = RpcTimeout
      /\ Follows(task.rpc, task.then, begun) /\ task.todo \in Seq(Nodes)
  BY <1>1, InHandler DEF IInv
<1>3. Head(task.todo) \in Nodes
  BY <1>1, <1>2
<1>4. PICK k \in NextFree :
        LET tx == (next_tx + k) % TxCount
            rpc == [task.rpc EXCEPT !.node = Head(task.todo)]
        IN  /\ next_tx' = (tx + 1) % TxCount
            /\ \/ /\ pending' = [pending EXCEPT ![tx] = rpc]
                  /\ active' = IF rpc.lookup \in Lookups /\ active[rpc.lookup].open
                               THEN [active EXCEPT ![rpc.lookup].outstanding = @ + 1]
                               ELSE active
                  /\ net' = {IF a.tx = tx THEN [a EXCEPT !.stale = TRUE] ELSE a : a \in net}
                            \cup {[tx |-> tx, node |-> rpc.node, ttl |-> 2 * RpcTimeout,
                                   stale |-> FALSE]}
               \/ UNCHANGED <<pending, active, net>>
  BY Zenon DEF send_rpc
<1> DEFINE tx == (next_tx + k) % TxCount
           rpc == [task.rpc EXCEPT !.node = Head(task.todo)]
<1>5. tx \in Tx /\ Free(tx) /\ (tx + 1) % TxCount \in Tx
  BY AllocatedFree DEF IInv
<1>6. GoodRpc(rpc, begun) /\ rpc.lookup = task.rpc.lookup /\ rpc.ttl = RpcTimeout
  <2> DEFINE p == task.rpc  n == Head(task.todo)
  <2> HIDE DEF p, n
  <2>1. /\ GoodRpc([p EXCEPT !.node = n], begun)
        /\ [p EXCEPT !.node = n].lookup = p.lookup
        /\ [p EXCEPT !.node = n].ttl = p.ttl
    BY <1>2, <1>3, RpcTo DEF p, n
  <2> QED
    BY <1>2, <2>1, Zenon DEF p, n
<1>7. /\ next_tx' = (tx + 1) % TxCount
      /\ \/ /\ pending' = [pending EXCEPT ![tx] = rpc]
            /\ active' = IF rpc.lookup \in Lookups /\ active[rpc.lookup].open
                         THEN [active EXCEPT ![rpc.lookup].outstanding = @ + 1] ELSE active
            /\ net' = {IF a.tx = tx THEN [a EXCEPT !.stale = TRUE] ELSE a : a \in net}
                      \cup {[tx |-> tx, node |-> rpc.node, ttl |-> 2 * RpcTimeout,
                             stale |-> FALSE]}
         \/ UNCHANGED <<pending, active, net>>
  BY <1>4, Zenon
<1> HIDE DEF tx, rpc
<1>8. QueueInv'
  BY <1>1, QueueQuiet DEF IInv
<1>9. TaskInv' /\ task'.phase = "send" /\ task'.then = task.then
  BY <1>1, TaskAdvance DEF IInv
<1>10. TableInv'
  BY <1>1, <1>5, <1>7 DEF IInv, TableInv
<1>11. TransactionInv' /\ NetInv' /\ LookupInv' /\ CountInv'
  <2>1. CASE UNCHANGED <<pending, active, net>>
    <3>1. TransactionInv' /\ NetInv'
      BY <1>1, <2>1, Basics, TransactionsQuiet DEF IInv
    <3>2. \A l \in Lookups : (Starting(l)' <=> Starting(l)) /\ (Responding(l)' <=> Responding(l))
      BY <1>1, <1>9 DEF Starting, Responding
    <3>3. LookupInv' /\ CountInv'
      BY <1>1, <1>9, <2>1, <3>2, LookupsQuiet DEF IInv
    <3> QED
      BY <3>1, <3>3
  <2>2. CASE /\ pending' = [pending EXCEPT ![tx] = rpc]
             /\ active' = IF rpc.lookup \in Lookups /\ active[rpc.lookup].open
                          THEN [active EXCEPT ![rpc.lookup].outstanding = @ + 1] ELSE active
             /\ net' = {IF a.tx = tx THEN [a EXCEPT !.stale = TRUE] ELSE a : a \in net}
                       \cup {[tx |-> tx, node |-> rpc.node, ttl |-> 2 * RpcTimeout,
                              stale |-> FALSE]}
    <3>1. /\ TransactionInv' /\ NetInv'
          /\ \A t \in Tx : pending'[t] = IF t = tx THEN rpc ELSE pending[t]
      BY <1>1, <1>5, <1>6, <2>2, TransactionSent DEF IInv
    <3>2. pending[tx] = NoRpc
      BY <1>5 DEF Free, IsPending
    <3>3. rpc # NoRpc
      BY <1>6, NotNone DEF GoodRpc
    <3>4. rpc.lookup \in Lookups => Starting(rpc.lookup) \/ Responding(rpc.lookup)
      <4>1. 0 \notin Lookups
        BY DEF Lookups
      <4>2. \/ task.rpc.lookup = 0
            \/ task.then = Started(task.rpc.lookup)
            \/ \E found \in BOOLEAN : task.then = Respond(task.rpc.lookup, found)
        BY <1>2 DEF Follows
      <4>3. CASE task.then = Started(task.rpc.lookup)
        BY <1>1, <1>6, <4>3, ThenFields DEF Starting
      <4>4. CASE \E found \in BOOLEAN : task.then = Respond(task.rpc.lookup, found)
        BY <1>1, <1>6, <4>4, ThenFields DEF Responding
      <4> QED
        BY <1>6, <4>1, <4>2, <4>3, <4>4
    <3>5. LookupInv' /\ CountInv'
      <4>1. LookupInv /\ CountInv /\ task'.phase = task.phase
        BY <1>1, <1>9 DEF IInv
      <4> QED
        BY <1>1, <1>5, <1>9, <2>2, <3>1, <3>2, <3>3, <3>4, <4>1, LookupSent
    <3> QED
      BY <3>1, <3>5
  <2> QED
    BY <1>7, <2>1, <2>2
<1> QED
  BY <1>8, <1>9, <1>10, <1>11 DEF IInv

LEMMA BackpressureStep ==
    ASSUME IInv, send_rpc_backpressure
    PROVE  IInv'
<1>1. /\ task.phase = "send" /\ task.todo # <<>> /\ Advance
      /\ UNCHANGED <<queue, queued, routing, pending, retired, next_tx, active, begun,
                     counters, net, peersFor>>
  BY DEF send_rpc_backpressure
<1>2. QueueInv' /\ TableInv'
  BY <1>1, QueueQuiet, QuietTable DEF IInv
<1>3. TaskInv' /\ task'.phase = "send" /\ task'.then = task.then
  BY <1>1, TaskAdvance DEF IInv
<1>4. TransactionInv' /\ NetInv'
  BY <1>1, Basics, TransactionsQuiet DEF IInv
<1>5. \A l \in Lookups : (Starting(l)' <=> Starting(l)) /\ (Responding(l)' <=> Responding(l))
  BY <1>1, <1>3 DEF Starting, Responding
<1>6. LookupInv' /\ CountInv'
  BY <1>1, <1>3, <1>5, LookupsQuiet DEF IInv
<1> QED
  BY <1>2, <1>3, <1>4, <1>6 DEF IInv


LEMMA HandlerEndsStep ==
    ASSUME IInv, HandlerEnds
    PROVE  IInv'
<1>1. /\ task.phase = "send" /\ task' = Idle
      /\ UNCHANGED <<queue, queued, routing, pending, retired, next_tx, begun, net, peersFor>>
      /\ \/ task.then.do = "return" /\ UNCHANGED <<active, counters>>
         \/ task.then.do = "started" /\ started(task.then.lookup)
         \/ task.then.do = "respond" /\ complete(OneOf(task.then.lookup), task.then.found)
  BY DEF HandlerEnds
<1>2. Follows(task.rpc, task.then, begun)
  BY <1>1, InHandler DEF IInv
<1>3. QueueInv' /\ TableInv' /\ TaskInv'
  BY <1>1, QueueQuiet, QuietTable DEF IInv, TaskInv
<1>4. TransactionInv' /\ NetInv'
  BY <1>1, Basics, TransactionsQuiet DEF IInv
<1>5. LookupInv' /\ CountInv'
  <2> DEFINE L == task.rpc.lookup
  <2>1. \A l \in Lookups : ~Starting(l)' /\ ~Responding(l)'
    BY <1>1 DEF Starting, Responding, Idle
  <2>2. CASE task.then = Done
    <3>1. task.then.do = "return"
      BY <2>2, ThenFields
    <3>2. \A l \in Lookups : ~Starting(l) /\ ~Responding(l)
      BY <3>1 DEF Starting, Responding
    <3>3. UNCHANGED <<active, counters>>
      BY <1>1, <3>1
    <3> QED
      BY <1>1, <2>1, <3>2, <3>3, LookupsQuiet DEF IInv
  <2>3. CASE L \in Lookups /\ task.then = Started(L)
    <3>1. task.then.do = "started" /\ task.then.lookup = L
      BY <2>3, ThenFields
    <3>2. Starting(L) /\ \A l \in Lookups : (l # L => ~Starting(l)) /\ ~Responding(l)
      BY <1>1, <3>1 DEF Starting, Responding
    <3>3. started(L)
      BY <1>1, <3>1
    <3> HIDE DEF L
    <3> QED
      BY <1>1, <2>3, <3>2, <3>3, LookupStarted DEF IInv
  <2>4. ASSUME L \in Lookups, NEW found \in BOOLEAN, task.then = Respond(L, found)
        PROVE  LookupInv' /\ CountInv'
    <3>1. task.then.do = "respond" /\ task.then.lookup = L /\ task.then.found = found
      BY <2>4, ThenFields
    <3>2. complete(OneOf(L), found)
      BY <1>1, <3>1
    <3> HIDE DEF L
    <3> QED
      BY <1>1, <2>4, <3>2, LookupResponded DEF IInv
  <2> QED
    BY <1>2, <2>2, <2>3, <2>4 DEF Follows
<1> QED
  BY <1>3, <1>4, <1>5 DEF IInv

\* The bootstrap nodes are asked, or nodes for a random target: no real lookup.
LEMMA OtherLookupBegins ==
    ASSUME IInv, task = Pop, UNCHANGED <<pending, retired, net, active, begun, counters, peersFor>>,
           NEW s \in StartNodes \cup BootstrapLists, NEW p,
           p = FindNode(Budget) \/ \E h \in Hashes : p = GetPeers(h, FALSE, Budget, 0),
           task' = Sending(s, p, Done)
    PROVE  TaskInv' /\ TransactionInv' /\ NetInv' /\ LookupInv' /\ CountInv'
<1>1. s \in Seq(Nodes)
  BY StartLists
<1>2. GoodRpc(p, begun) /\ p.lookup = 0 /\ p.ttl = RpcTimeout
  <2>1. begun \in Nat /\ 0 \in 0 .. MaxLookups /\ 0 <= begun
    BY Basics, DhtAssumption
  <2>2. CASE p = FindNode(Budget)
    BY <2>1, <2>2, FirstRpcs, Zenon
  <2>3. ASSUME NEW h \in Hashes, p = GetPeers(h, FALSE, Budget, 0)
        PROVE  GoodRpc(p, begun) /\ p.lookup = 0 /\ p.ttl = RpcTimeout
    <3>1. FALSE \in BOOLEAN
      OBVIOUS
    <3> QED
      BY <2>1, <2>3, <3>1, FirstRpcs, Zenon
  <2> QED
    BY <2>2, <2>3
<1>3. TaskInv'
  <2>1. Follows(p, Done, begun')
    BY <1>2 DEF Follows
  <2> QED
    BY <1>1, <1>2, <2>1, HandlerInv
<1>4. TransactionInv' /\ NetInv'
  BY Basics, TransactionsQuiet DEF IInv
<1>5. \A l \in Lookups : ~Starting(l) /\ ~Responding(l)
  BY NoHandler
<1>6. \A l \in Lookups : ~Starting(l)' /\ ~Responding(l)'
  BY SendingFields, ThenFields DEF Starting, Responding
<1>7. LookupInv' /\ CountInv'
  BY <1>5, <1>6, LookupsQuiet DEF IInv
<1> QED
  BY <1>3, <1>4, <1>7

LEMMA LookupQueuedStep ==
    ASSUME IInv, LookupQueued
    PROVE  IInv'
<1>1. /\ task = Pop /\ queue # <<>>
      /\ UNCHANGED <<routing, pending, retired, next_tx, counters, net, peersFor>>
  BY DEF LookupQueued
<1>2. begun \in Nat /\ begun < MaxLookups /\ MaxLookups \in Nat
  <2>1. task # Idle /\ task.phase # "send"
    BY <1>1 DEF Pop, Idle
  <2>2. \/ task = Idle
        \/ begun < MaxLookups
        \/ task = Sending(task.todo, task.rpc, task.then)
    BY Zenon DEF IInv, TaskInv
  <2>3. task = Sending(task.todo, task.rpc, task.then) => task.phase = "send"
    BY SendingFields
  <2> QED
    BY <2>1, <2>2, <2>3, Basics, DhtAssumption
<1>3. CASE /\ begun' = begun + 1
           /\ queue' = Tail(queue)
           /\ queued' = queued \ {Head(queue)}
           /\ active' = [active EXCEPT ![begun + 1] = [Closed EXCEPT !.open = TRUE]]
           /\ \E s \in StartNodes :
                task' = Sending(s, GetPeers(Head(queue), TRUE, Budget, begun + 1),
                                Started(begun + 1))
  <2>1. PICK s \in StartNodes :
          task' = Sending(s, GetPeers(Head(queue), TRUE, Budget, begun + 1), Started(begun + 1))
    BY <1>3, Zenon
  <2> DEFINE L == begun + 1  p == GetPeers(Head(queue), TRUE, Budget, begun + 1)
  <2>2. L \in Lookups /\ L \in 0 .. MaxLookups /\ L \in Nat /\ L <= L
    BY <1>2 DEF Lookups
  <2>3. Head(queue) \in Hashes
    BY <1>1 DEF IInv, QueueInv
  <2>4. s \in Seq(Nodes)
    BY StartLists
  <2>5. begun' = L /\ task' = Sending(s, p, Started(L))
    BY <1>3, <2>1, Zenon
  <2>6. GoodRpc(p, L) /\ p.lookup = L /\ p.ttl = RpcTimeout
    <3> HIDE DEF L
    <3>1. p = GetPeers(Head(queue), TRUE, Budget, L)
      BY DEF L
    <3> HIDE DEF p
    <3> QED
      BY <2>2, <2>3, <3>1, FirstRpcs
  <2>7. QueueInv'
    BY <1>1, <1>3, QueueTurns DEF IInv
  <2>8. LookupInv' /\ CountInv'
    <3>1. /\ LookupInv /\ CountInv /\ begun + 1 \in Lookups /\ begun' = begun + 1
          /\ task' = Sending(s, p, Started(begun + 1))
      BY <1>3, <2>2, <2>5, Zenon DEF IInv
    <3> HIDE DEF p, L
    <3> QED
      BY <1>1, <1>2, <1>3, <3>1, LookupBegun
  <2> HIDE DEF p, L
  <2>9. TaskInv'
    <3>1. Follows(p, Started(L), begun')
      BY <2>2, <2>5, <2>6 DEF Follows
    <3> QED
      BY <2>4, <2>5, <2>6, <3>1, HandlerInv
  <2>10. TableInv'
    <3>1. begun' \in 0 .. MaxLookups
      BY <2>2, <2>5
    <3> QED
      BY <1>1, <3>1 DEF IInv, TableInv
  <2>11. TransactionInv' /\ NetInv'
    BY <1>1, <1>2, <1>3, TransactionsQuiet DEF IInv
  <2> QED
    BY <2>7, <2>8, <2>9, <2>10, <2>11 DEF IInv
<1>4. CASE /\ queue' = Append(Tail(queue), Head(queue))
           /\ \E s \in BootstrapLists : task' = Sending(s, FindNode(Budget), Done)
           /\ UNCHANGED <<begun, queued, active>>
  <2>1. PICK s \in BootstrapLists : task' = Sending(s, FindNode(Budget), Done)
    BY <1>4, Zenon
  <2>2. TaskInv' /\ TransactionInv' /\ NetInv' /\ LookupInv' /\ CountInv'
    BY <1>1, <1>4, <2>1, OtherLookupBegins
  <2>3. QueueInv'
    BY <1>1, <1>4, QueueTurns DEF IInv
  <2>4. TableInv'
    BY <1>1, <1>4, QuietTable DEF IInv
  <2> QED
    BY <2>2, <2>3, <2>4 DEF IInv
<1> QED
  BY <1>3, <1>4, Zenon DEF LookupQueued

LEMMA LookupRandomStep ==
    ASSUME IInv, LookupRandom
    PROVE  IInv'
<1>1. /\ task = Pop
      /\ UNCHANGED <<queue, queued, routing, pending, retired, next_tx, active, begun,
                     counters, net, peersFor>>
  BY DEF LookupRandom
<1>2. \E s \in StartNodes \cup BootstrapLists : \E p :
        /\ p = FindNode(Budget) \/ \E h \in Hashes : p = GetPeers(h, FALSE, Budget, 0)
        /\ task' = Sending(s, p, Done)
  BY Zenon DEF LookupRandom
<1>3. TaskInv' /\ TransactionInv' /\ NetInv' /\ LookupInv' /\ CountInv'
  BY <1>1, <1>2, OtherLookupBegins
<1>4. QueueInv' /\ TableInv'
  BY <1>1, QueueQuiet, QuietTable DEF IInv
<1> QED
  BY <1>3, <1>4 DEF IInv


\* The two timers.
LEMMA TimerStep ==
    ASSUME IInv, task = Idle, expire_pending, UNCHANGED <<next_tx, begun, net, peersFor>>,
           \/ task' = Idle
           \/ task' = Pop /\ begun < MaxLookups
    PROVE  IInv'
<1>1. /\ TransactionInv' /\ NetInv'
      /\ \A t \in Tx : pending'[t] = IF t \in Expired THEN NoRpc ELSE pending[t]
  BY TransactionsExpire DEF IInv
<1>2. LookupInv' /\ CountInv'
  BY <1>1, LookupsExpire DEF IInv
<1>3. TableInv'
  BY ExpireParts, TableFails DEF IInv
<1>4. QueueInv'
  <2>1. ExpiredHashes \subseteq Hashes
    <3>1. ASSUME NEW tx \in Expired, pending[tx].real
          PROVE  pending[tx].hash \in Hashes
      <4>1. tx \in Tx /\ IsPending(tx)
        BY DEF Expired, Pendings
      <4> QED
        BY <3>1, <4>1, Basics
    <3> QED
      BY <3>1 DEF ExpiredHashes
  <2> QED
    BY <2>1, ExpireParts, QueueGrows DEF IInv
<1>5. TaskInv'
  BY DEF TaskInv
<1> QED
  BY <1>1, <1>2, <1>3, <1>4, <1>5 DEF IInv

LEMMA TickStep ==
    ASSUME IInv, Tick
    PROVE  IInv'
<1>1. /\ task = Idle
      /\ UNCHANGED <<queue, queued, routing, next_tx, active, begun, counters, task, peersFor>>
  BY DEF Tick
<1>2. /\ TransactionInv' /\ NetInv'
      /\ \A t \in Tx : /\ pending'[t] = NoRpc <=> pending[t] = NoRpc
                       /\ pending[t] # NoRpc => pending'[t].lookup = pending[t].lookup
  BY TransactionsTick DEF IInv
<1>3. \A l : Mine(pending', l) = Mine(pending, l)
  BY <1>2 DEF Mine
<1>4. \A l \in Lookups : (Starting(l)' <=> Starting(l)) /\ (Responding(l)' <=> Responding(l))
  BY <1>1 DEF Starting, Responding
<1>5. LookupInv' /\ CountInv'
  <2>1. \A l \in Lookups : Cardinality(Mine(pending', l)) = Cardinality(Mine(pending, l))
    BY <1>3, Zenon
  <2> QED
    BY <1>1, <1>4, <2>1, LookupsQuiet DEF IInv
<1>6. QueueInv' /\ TableInv' /\ TaskInv'
  BY <1>1, QueueQuiet, QuietTable, QuietTask DEF IInv
<1> QED
  BY <1>2, <1>5, <1>6 DEF IInv

LEMMA InboundStep ==
    ASSUME IInv, NEW h \in Hashes, InboundQuery(h)
    PROVE  IInv'
<1>1. /\ queue_hashes({h})
      /\ UNCHANGED <<routing, pending, retired, next_tx, active, begun, counters, task, net,
                     peersFor>>
  BY DEF InboundQuery
<1>2. QueueInv'
  BY <1>1, QueueGrows DEF IInv
<1>3. TableInv' /\ TaskInv'
  BY <1>1, QuietTable, QuietTask DEF IInv
<1>4. TransactionInv' /\ NetInv'
  BY <1>1, Basics, TransactionsQuiet DEF IInv
<1>5. \A l \in Lookups : (Starting(l)' <=> Starting(l)) /\ (Responding(l)' <=> Responding(l))
  BY <1>1 DEF Starting, Responding
<1>6. LookupInv' /\ CountInv'
  BY <1>1, <1>5, LookupsQuiet DEF IInv
<1> QED
  BY <1>2, <1>3, <1>4, <1>6 DEF IInv

LEMMA IgnoreStep ==
    ASSUME IInv, NEW a \in net, IgnoreAnswer(a)
    PROVE  IInv'
<1>1. /\ net' = net \ {a}
      /\ UNCHANGED <<queue, queued, routing, pending, retired, next_tx, active, begun, counters,
                     task, peersFor>>
  BY DEF IgnoreAnswer
<1>2. QueueInv' /\ TableInv' /\ TaskInv'
  BY <1>1, QueueQuiet, QuietTable, QuietTask DEF IInv
<1>3. TransactionInv' /\ NetInv'
  BY <1>1, AnswerDropped DEF IInv
<1>4. \A l \in Lookups : (Starting(l)' <=> Starting(l)) /\ (Responding(l)' <=> Responding(l))
  BY <1>1 DEF Starting, Responding
<1>5. LookupInv' /\ CountInv'
  BY <1>1, <1>4, LookupsQuiet DEF IInv
<1> QED
  BY <1>2, <1>3, <1>5 DEF IInv

\* An RPC ends with an error or a malformed answer.
LEMMA FailureStep ==
    ASSUME IInv, NEW a \in net, MalformedResponse(a) \/ handle_error(a)
    PROVE  IInv'
<1>1. /\ task = Idle /\ Correlates(a) /\ Received(a) /\ Retire(a.tx)
      /\ complete(OneOf(pending[a.tx].lookup), FALSE)
      /\ UNCHANGED <<queue, queued, next_tx, begun, task, peersFor>>
      /\ UNCHANGED routing \/ \E failures : routing' = Failed(failures)
  BY Zenon DEF MalformedResponse, handle_error
<1>2. a.tx \in Tx /\ pending[a.tx] # NoRpc
  BY <1>1, Basics DEF Correlates, IsPending
<1>3. /\ TransactionInv' /\ NetInv'
      /\ \A t \in Tx : pending'[t] = IF t = a.tx THEN NoRpc ELSE pending[t]
  BY <1>1, TransactionRetired DEF IInv
<1>4. LookupInv' /\ CountInv'
  <2> DEFINE tx == a.tx
  <2> HIDE DEF tx
  <2>1. /\ tx \in Tx /\ pending[tx] # NoRpc /\ complete(OneOf(pending[tx].lookup), FALSE)
        /\ \A t \in Tx : pending'[t] = IF t = tx THEN NoRpc ELSE pending[t]
    BY <1>1, <1>2, <1>3 DEF tx
  <2> QED
    BY <1>1, <2>1, LookupOneEnds DEF IInv
<1>5. QueueInv' /\ TaskInv'
  BY <1>1, QueueQuiet, QuietTask DEF IInv
<1>6. TableInv'
  BY <1>1, QuietTable, TableFails DEF IInv
<1> QED
  BY <1>3, <1>4, <1>5, <1>6 DEF IInv

\* The handler that continues a search with the nodes an answer named.
LEMMA Continued ==
    ASSUME NEW p, NEW top, GoodRpc(p, top), NEW s \in Seq(Nodes)
    PROVE  \E u \in Seq(Nodes), q \in Rpc :
              /\ GoodRpc(q, top) /\ q.lookup = p.lookup /\ q.ttl = RpcTimeout
              /\ Continue(p, s) =
                   Sending(u, q, IF p.lookup = 0 THEN Done ELSE Respond(p.lookup, FALSE))
<1> DEFINE m == IF Len(s) < Continuations THEN Len(s) ELSE Continuations
           u == IF p.budget = 0 THEN <<>> ELSE SubSeq(s, 1, m)
           q == [p EXCEPT !.known = TRUE, !.budget = IF @ = 0 THEN 0 ELSE @ - 1,
                          !.ttl = RpcTimeout]
<1>1. m \in Nat /\ m <= Len(s)
  BY DhtAssumption
<1>2. u \in Seq(Nodes)
  <2> HIDE DEF m
  <2>1. SubSeq(s, 1, m) \in Seq(Nodes)
    BY <1>1
  <2> QED
    BY <2>1
<1>3. GoodRpc(q, top) /\ q.lookup = p.lookup /\ q.ttl = RpcTimeout
  BY RpcContinued, Zenon
<1>4. Continue(p, s) = Sending(u, q, IF p.lookup = 0 THEN Done ELSE Respond(p.lookup, FALSE))
  BY Zenon DEF Continue
<1> HIDE DEF u, q
<1>5. q \in Rpc
  BY <1>3 DEF GoodRpc
<1> QED
  BY <1>2, <1>3, <1>4, <1>5

\* An answer that is taken: what its handler finds and what it leaves to do.
LEMMA AnswerStep ==
    ASSUME IInv, NEW a \in net, NEW s \in Seq(Nodes), NEW found \in BOOLEAN, task = Idle,
           Correlates(a), Received(a), Retire(a.tx), routing' = Validated(a.node, QueueSet(s)),
           UNCHANGED <<next_tx, active, begun, counters>>,
           task' = IF pending[a.tx].lookup = 0 THEN Continue(pending[a.tx], s)
                   ELSE [Continue(pending[a.tx], s) EXCEPT !.then.found = found],
           peersFor' = IF found THEN peersFor \cup ({pending[a.tx].lookup} \cap Lookups)
                       ELSE peersFor
    PROVE  TaskInv' /\ TableInv' /\ TransactionInv' /\ NetInv' /\ LookupInv' /\ CountInv'
<1> DEFINE tx == a.tx  p == pending[a.tx]  L == pending[a.tx].lookup
<1>1. /\ tx \in Tx /\ p # NoRpc /\ GoodRpc(p, begun) /\ L \in 0 .. MaxLookups
      /\ begun \in Nat /\ L <= begun
  <2>1. tx \in Tx /\ IsPending(tx) /\ p # NoRpc
    BY Basics DEF Correlates, IsPending
  <2>2. /\ GoodRpc(pending[tx], begun) /\ pending[tx].lookup \in 0 .. MaxLookups
        /\ begun \in Nat
    BY <2>1, Basics
  <2> QED
    BY <2>1, <2>2 DEF GoodRpc
<1>2. /\ TransactionInv' /\ NetInv'
      /\ \A t \in Tx : pending'[t] = IF t = tx THEN NoRpc ELSE pending[t]
  BY TransactionRetired DEF IInv
<1>3. TableInv'
  BY TableValidates DEF IInv
<1>4. PICK u \in Seq(Nodes), q \in Rpc :
        /\ GoodRpc(q, begun) /\ q.lookup = L /\ q.ttl = RpcTimeout
        /\ Continue(p, s) = Sending(u, q, IF L = 0 THEN Done ELSE Respond(L, FALSE))
  <2> HIDE DEF p
  <2>1. \E u \in Seq(Nodes), q \in Rpc :
              /\ GoodRpc(q, begun) /\ q.lookup = p.lookup /\ q.ttl = RpcTimeout
              /\ Continue(p, s) =
                   Sending(u, q, IF p.lookup = 0 THEN Done ELSE Respond(p.lookup, FALSE))
    BY <1>1, Continued
  <2> QED
    BY <2>1, Zenon DEF p
<1>5. pending[tx] # NoRpc /\ pending[tx].lookup = L
  BY <1>1
<1>6. /\ task' = IF L = 0 THEN Continue(p, s) ELSE [Continue(p, s) EXCEPT !.then.found = found]
      /\ peersFor' = IF found THEN peersFor \cup ({L} \cap Lookups) ELSE peersFor
  BY Zenon
<1>7. CASE L = 0
  <2>1. task' = Sending(u, q, Done)
    BY <1>4, <1>6, <1>7, Zenon
  <2>2. UNCHANGED peersFor
    BY <1>6, <1>7 DEF Lookups
  <2> HIDE DEF tx, p, L
  <2>3. LookupInv' /\ CountInv'
    BY <1>1, <1>2, <1>5, <1>7, <2>1, <2>2, OtherAnswered DEF IInv
  <2>4. Follows(q, Done, begun')
    BY <1>4, <1>7 DEF Follows
  <2>5. TaskInv'
    BY <1>4, <2>1, <2>4, HandlerInv
  <2> QED
    BY <1>2, <1>3, <2>3, <2>5
<1>8. CASE L # 0
  <2>1. L \in Lookups
    BY <1>1, <1>8 DEF Lookups
  <2>2. task' = Sending(u, q, Respond(L, found))
    <3> DEFINE no == FALSE
    <3>1. task' = [Sending(u, q, Respond(L, no)) EXCEPT !.then.found = found]
      BY <1>4, <1>6, <1>8, Zenon
    <3> HIDE DEF no, L
    <3> QED
      BY <3>1 DEF Sending, Respond
  <2>3. peersFor' = IF found THEN peersFor \cup {L} ELSE peersFor
    BY <1>6, <2>1
  <2> HIDE DEF tx, p, L
  <2>4. LookupInv' /\ CountInv'
    BY <1>1, <1>2, <1>5, <2>1, <2>2, <2>3, LookupAnswered DEF IInv
  <2>5. Follows(q, Respond(L, found), begun')
    BY <1>4, <2>1 DEF Follows
  <2>6. TaskInv'
    BY <1>4, <2>2, <2>5, HandlerInv
  <2> QED
    BY <1>2, <1>3, <2>4, <2>6
<1> QED
  BY <1>7, <1>8


LEMMA FindNodeStep ==
    ASSUME IInv, NEW a \in net, NEW s \in Seq(Nodes), FindNodeResponse(a, s)
    PROVE  IInv'
<1> DEFINE p == pending[a.tx]
<1>1. /\ task = Idle /\ Correlates(a) /\ Received(a) /\ Retire(a.tx)
      /\ routing' = Validated(a.node, QueueSet(s)) /\ task' = Continue(p, s)
      /\ UNCHANGED <<queue, queued, next_tx, active, begun, counters, peersFor>>
  BY DEF FindNodeResponse
<1>2. GoodRpc(p, begun)
  BY <1>1, Basics DEF Correlates
<1>3. p.lookup # 0 => task' = [Continue(p, s) EXCEPT !.then.found = FALSE]
  <2> HIDE DEF p
  <2>1. PICK u \in Seq(Nodes), q \in Rpc :
          Continue(p, s) = Sending(u, q, IF p.lookup = 0 THEN Done ELSE Respond(p.lookup, FALSE))
    BY <1>2, Continued
  <2> SUFFICES ASSUME p.lookup # 0
               PROVE  task' = [Continue(p, s) EXCEPT !.then.found = FALSE]
    OBVIOUS
  <2> DEFINE L == p.lookup
  <2>2. Continue(p, s) = Sending(u, q, Respond(L, FALSE))
    BY <2>1
  <2> HIDE DEF L
  <2>3. [Sending(u, q, Respond(L, FALSE)) EXCEPT !.then.found = FALSE]
          = Sending(u, q, Respond(L, FALSE))
    <3> DEFINE no == FALSE
    <3>1. [Sending(u, q, Respond(L, no)) EXCEPT !.then.found = no] = Sending(u, q, Respond(L, no))
      <4> HIDE DEF no
      <4> QED
        BY DEF Sending, Respond
    <3> QED
      BY <3>1, Zenon
  <2> QED
    BY <1>1, <2>2, <2>3, Zenon
<1>4. task' = IF p.lookup = 0 THEN Continue(p, s)
              ELSE [Continue(p, s) EXCEPT !.then.found = FALSE]
  BY <1>1, <1>3, Zenon
<1>5. peersFor' = IF FALSE THEN peersFor \cup ({p.lookup} \cap Lookups) ELSE peersFor
  BY <1>1
<1>6. TaskInv' /\ TableInv' /\ TransactionInv' /\ NetInv' /\ LookupInv' /\ CountInv'
  <2>1. FALSE \in BOOLEAN
    OBVIOUS
  <2> QED
    BY <1>1, <1>4, <1>5, <2>1, AnswerStep, Zenon
<1>7. QueueInv'
  BY <1>1, QueueQuiet DEF IInv
<1> QED
  BY <1>6, <1>7 DEF IInv

LEMMA GetPeersStep ==
    ASSUME IInv, NEW a \in net, NEW s \in Seq(Nodes), NEW found \in BOOLEAN,
           GetPeersResponse(a, s, found)
    PROVE  IInv'
<1> DEFINE p == pending[a.tx]
<1>1. /\ task = Idle /\ Correlates(a) /\ Received(a) /\ Retire(a.tx)
      /\ p.method = "get_peers"
      /\ routing' = Validated(a.node, QueueSet(s))
      /\ UNCHANGED <<next_tx, active, begun, counters>>
      /\ task' = IF p.lookup = 0 THEN Continue(p, s)
                 ELSE [Continue(p, s) EXCEPT !.then.found = found]
      /\ peersFor' = IF found THEN peersFor \cup ({p.lookup} \cap Lookups) ELSE peersFor
      /\ IF found \/ p.real THEN queue_hashes({p.hash}) ELSE UNCHANGED <<queue, queued>>
  BY Zenon DEF GetPeersResponse
<1>2. TaskInv' /\ TableInv' /\ TransactionInv' /\ NetInv' /\ LookupInv' /\ CountInv'
  BY <1>1, AnswerStep, Zenon
<1>3. p.hash \in Hashes
  BY <1>1, Basics DEF Correlates, GoodRpc
<1>4. QueueInv'
  <2>1. CASE found \/ p.real
    <3>1. queue_hashes({p.hash}) /\ {p.hash} \subseteq Hashes
      BY <1>1, <1>3, <2>1
    <3> HIDE DEF p
    <3> QED
      BY <3>1, QueueGrows DEF IInv
  <2>2. CASE ~(found \/ p.real)
    BY <1>1, <2>2, QueueQuiet DEF IInv
  <2> QED
    BY <2>1, <2>2
<1> QED
  BY <1>2, <1>4 DEF IInv

LEMMA InitInv ==
    ASSUME Init
    PROVE  IInv
<1>1. /\ queue = <<>> /\ queued = {} /\ routing = [n \in Nodes |-> "absent"]
      /\ pending = [tx \in Tx |-> NoRpc] /\ retired = [tx \in Tx |-> -1]
      /\ next_tx = 1 % TxCount /\ active = [l \in Lookups |-> Closed] /\ begun = 0
      /\ counters = [initiated |-> 0, succeeded |-> 0, failed |-> 0]
      /\ net = {} /\ peersFor = {}
  BY DEF Init
<1>2. PICK s \in BootstrapLists : task = Sending(s, FindNode(Budget), Done)
  BY Zenon DEF Init
<1>3. QueueInv
  BY <1>1, DhtAssumption DEF QueueInv, QueueSet
<1>4. TaskInv
  <2> DEFINE p == FindNode(Budget)
  <2>1. GoodRpc(p, begun) /\ p.lookup = 0 /\ p.ttl = RpcTimeout
    BY <1>1, FirstRpcs
  <2> HIDE DEF p
  <2>2. s \in Seq(Nodes)
    BY StartLists
  <2>3. task = Sending(s, p, Done)
    BY <1>2 DEF p
  <2>4. task.todo = s /\ task.rpc = p /\ task.then = Done
    BY <2>3, SendingFields
  <2>5. Follows(p, Done, begun)
    BY <2>1 DEF Follows
  <2> QED
    BY <2>1, <2>2, <2>3, <2>4, <2>5 DEF TaskInv
<1>5. TableInv
  <2>1. 1 % TxCount \in Tx /\ 0 \in 0 .. MaxLookups
    BY DhtAssumption DEF Tx
  <2> QED
    BY <1>1, <2>1 DEF TableInv, Standing
<1>6. TransactionInv
  BY <1>1, DhtAssumption DEF TransactionInv, IsPending
<1>7. NetInv
  BY <1>1 DEF NetInv
<1>8. \A l \in Lookups : ~Starting(l) /\ ~Responding(l)
  BY <1>2, SendingFields, ThenFields DEF Starting, Responding
<1>9. \A l : Mine(pending, l) = {}
  BY <1>1 DEF Mine
<1>10. LookupInv
  <2>1. active \in [Lookups -> Progress]
    BY <1>1, ClosedFields
  <2>2. ASSUME NEW l \in Lookups
        PROVE  /\ active[l].outstanding = Cardinality(Mine(pending, l))
                    + (IF Responding(l) THEN 1 ELSE 0)
               /\ ~active[l].open /\ active[l].outstanding = 0
    <3>1. active[l].outstanding = 0 /\ active[l].open = FALSE
      BY <1>1, ClosedFields
    <3>2. Cardinality(Mine(pending, l)) = 0
      BY <1>9, FS_EmptySet
    <3> QED
      BY <1>8, <3>1, <3>2
  <2> QED
    BY <1>1, <1>8, <2>1, <2>2 DEF LookupInv
<1>11. CountInv
  <2>1. OpenSet = {} /\ SucceededSet = {}
    BY <1>1, ClosedFields DEF OpenSet, SucceededSet
  <2>2. Cardinality(OpenSet) = 0 /\ Cardinality(SucceededSet) = 0
    BY <2>1, FS_EmptySet, Zenon
  <2>3. /\ counters \in [initiated : Nat, succeeded : Nat, failed : Nat]
        /\ counters.initiated = 0 /\ counters.succeeded = 0 /\ counters.failed = 0
    BY <1>1
  <2> QED
    BY <2>2, <2>3 DEF CountInv
<1> QED
  BY <1>3, <1>4, <1>5, <1>6, <1>7, <1>10, <1>11 DEF IInv

LEMMA Stutter ==
    ASSUME IInv, UNCHANGED vars
    PROVE  IInv'
<1>1. UNCHANGED <<queue, queued, routing, pending, retired, next_tx, active, begun, counters,
                  task, net, peersFor>>
  BY DEF vars
<1>2. QueueInv' /\ TableInv' /\ TaskInv'
  BY <1>1, QueueQuiet, QuietTable, QuietTask DEF IInv
<1>3. TransactionInv' /\ NetInv'
  BY <1>1, Basics, TransactionsQuiet DEF IInv
<1>4. \A l \in Lookups : (Starting(l)' <=> Starting(l)) /\ (Responding(l)' <=> Responding(l))
  BY <1>1 DEF Starting, Responding
<1>5. LookupInv' /\ CountInv'
  BY <1>1, <1>4, LookupsQuiet DEF IInv
<1> QED
  BY <1>2, <1>3, <1>5 DEF IInv

LEMMA Inductive ==
    ASSUME IInv, [Next]_vars
    PROVE  IInv'
<1>1. \A s \in NodeLists(Cardinality(Nodes)) : s \in Seq(Nodes)
  <2>1. Cardinality(Nodes) \in Nat
    BY DhtAssumption, FS_CardinalityType
  <2> QED
    BY <2>1, ListsAreSequences
<1>2. CASE Step
  BY <1>2, SendStep, BackpressureStep, HandlerEndsStep, LookupQueuedStep, LookupRandomStep DEF Step
<1>3. CASE RefreshTick
  BY <1>3, TimerStep DEF RefreshTick
<1>4. CASE DiscoverTick
  BY <1>4, TimerStep DEF DiscoverTick
<1>5. CASE Tick
  BY <1>5, TickStep
<1>6. CASE \E h \in Hashes : InboundQuery(h)
  BY <1>6, InboundStep
<1>7. ASSUME NEW a \in net, IgnoreAnswer(a) PROVE IInv'
  BY <1>7, IgnoreStep
<1>8. ASSUME NEW a \in net, MalformedResponse(a) \/ handle_error(a) PROVE IInv'
  BY <1>8, FailureStep
<1>9. ASSUME NEW a \in net, NEW s \in NodeLists(Cardinality(Nodes)), FindNodeResponse(a, s)
      PROVE  IInv'
  BY <1>1, <1>9, FindNodeStep
<1>10. ASSUME NEW a \in net, NEW s \in NodeLists(Cardinality(Nodes)), NEW found \in BOOLEAN,
              GetPeersResponse(a, s, found)
       PROVE  IInv'
  BY <1>1, <1>10, GetPeersStep
<1>11. CASE UNCHANGED vars
  BY <1>11, Stutter
<1> QED
  BY <1>2, <1>3, <1>4, <1>5, <1>6, <1>7, <1>8, <1>9, <1>10, <1>11, Zenon DEF Next

------------------------------------------------------------------------------
(***************************************************************************)
(* The theorems.                                                           *)
(***************************************************************************)
\* The invariant holds in every state of the crawler.
THEOREM Invariance == Spec => []IInv
<1>1. Init => IInv
  BY InitInv
<1>2. IInv /\ [Next]_vars => IInv'
  BY Inductive
<1> QED
  BY <1>1, <1>2, PTL DEF Spec

\* Every variable keeps its type: no continuation budget underflows, no deadline
\* leaves its bound and the queue stays within max_discovery_hashes.
THEOREM TypeCorrect == Spec => []TypeOK
<1>1. IInv => TypeOK
  <2> SUFFICES ASSUME IInv PROVE TypeOK
    OBVIOUS
  <2>1. pending \in [Tx -> Rpc \cup {NoRpc}]
    <3>1. ASSUME NEW tx \in Tx
          PROVE  pending[tx] \in Rpc \cup {NoRpc}
      <4>1. pending[tx] # NoRpc => GoodRpc(pending[tx], begun)
        BY DEF IInv, TransactionInv, IsPending
      <4> QED
        BY <4>1 DEF GoodRpc
    <3>2. pending = [tx \in Tx |-> pending[tx]]
      BY DEF IInv, TransactionInv
    <3> QED
      BY <3>1, <3>2
  <2>2. retired \in [Tx -> -1 .. RpcTimeout]
    BY DEF IInv, TransactionInv
  <2>3. queue \in Seq(Hashes) /\ Len(queue) <= MaxQueue /\ queued \subseteq Hashes
    BY DEF IInv, QueueInv, QueueSet
  <2>4. /\ task.phase \in {"idle", "pop", "send"}
        /\ task.phase = "send" => task.todo \in Seq(Nodes) /\ task.rpc \in Rpc
    <3>1. task = Idle \/ task = Pop \/ task.phase = "send"
      BY SendingFields DEF IInv, TaskInv
    <3>2. task = Idle \/ task = Pop => task.phase \in {"idle", "pop"}
      BY DEF Idle, Pop
    <3>3. task.phase = "send" => task.todo \in Seq(Nodes) /\ task.rpc \in Rpc
      BY InHandler DEF IInv, GoodRpc
    <3> QED
      BY <3>1, <3>2, <3>3
  <2>5. /\ routing \in [Nodes -> Standing] /\ next_tx \in Tx /\ begun \in 0 .. MaxLookups
        /\ active \in [Lookups -> Progress] /\ peersFor \subseteq Lookups /\ net \subseteq Answer
        /\ counters \in [initiated : Nat, succeeded : Nat, failed : Nat]
    BY DEF IInv, TableInv, LookupInv, NetInv, CountInv
  <2> QED
    BY <2>1, <2>2, <2>3, <2>4, <2>5 DEF TypeOK
<1> QED
  BY <1>1, Invariance, PTL

\* discovery_set says exactly which hashes discovery_queue holds, each once,
\* whatever is published, popped, turned back and timed out.
THEOREM QueueAlwaysSound == Spec => []QueueSound
<1>1. IInv => QueueSound
  BY DistinctCount DEF IInv, QueueInv, QueueSound
<1> QED
  BY <1>1, Invariance, PTL

\* However late an answer is and however often it is duplicated, its id is not
\* given to another RPC before it has arrived for the last time.
THEOREM NoAnswerMistaken == Spec => []NoStaleAnswer
<1>1. IInv => NoStaleAnswer
  BY DEF IInv, NetInv, NoStaleAnswer
<1> QED
  BY <1>1, Invariance, PTL

\* The tracker's count of every lookup is the number of its RPCs in flight, and
\* an initiated lookup is counted once, by what its answers carried.
THEOREM LookupsAccounted == Spec => []LookupAccounting
<1>1. IInv => LookupAccounting
  <2> SUFFICES ASSUME IInv PROVE LookupAccounting
    OBVIOUS
  <2>1. \A l : {tx \in Pendings : pending[tx].lookup = l} = Mine(pending, l)
    BY DEF Pendings, IsPending, Mine
  <2>2. \A l : Outstanding(l) = Cardinality(Mine(pending, l)) + (IF Responding(l) THEN 1 ELSE 0)
    BY <2>1, Zenon DEF Outstanding, Responding
  <2>3. \A l \in Lookups : /\ active[l].outstanding = Outstanding(l)
                           /\ active[l].open <=> active[l].outstanding > 0 \/ Starting(l)
    BY <2>2 DEF IInv, LookupInv
  <2>4. /\ \A l \in Lookups : active[l].outstanding = Outstanding(l)
        /\ \A l \in Lookups : active[l].open <=> Outstanding(l) > 0 \/ Starting(l)
    BY <2>3
  <2>5. /\ counters.initiated = counters.succeeded + counters.failed
                                + Cardinality({l \in Lookups : active[l].open /\ ~Starting(l)})
        /\ counters.succeeded = Cardinality({l \in peersFor : ~active[l].open})
    BY Zenon DEF IInv, CountInv, OpenSet, SucceededSet
  <2> QED
    BY <2>4, <2>5, Zenon DEF LookupAccounting
<1> QED
  BY <1>1, Invariance, PTL
==============================================================================
