-------------------------------- MODULE DhtRpc --------------------------------
(***************************************************************************)
(* The crawler task of src/dht.rs as an RPC client: transaction ids,       *)
(* pending and retired transactions, the queue of hashes to look up, and   *)
(* the accounting of real lookups.  The task handles one event at a time;  *)
(* an event that sends RPCs sends them one after the other before the next *)
(* event is taken.  Time is relative: every deadline is the number of      *)
(* ticks that are left.                                                    *)
(*                                                                         *)
(* The network answers a query at most once in substance, but the answer   *)
(* can be lost, duplicated, delayed beyond the timeout, malformed or come  *)
(* from another address.  A late answer arrives within twice rpc_timeout,  *)
(* and a duplicate within rpc_timeout of the first copy.                   *)
(*                                                                         *)
(* The routing table is modelled for as many nodes as fit in it.  Left     *)
(* out: provisional (never read), the peer cache, tokens and sampling.     *)
(***************************************************************************)
EXTENDS Integers, Sequences, FiniteSets

CONSTANTS
    Nodes,         \* remote nodes
    Bootstrap,     \* the configured bootstrap nodes
    Hashes,        \* info hashes
    TxCount,       \* number of transaction ids (65536)
    MaxPending,    \* max_pending_rpcs
    MaxQueue,      \* max_discovery_hashes
    RpcTimeout,    \* rpc_timeout, in ticks
    LookupFanout,  \* LOOKUP_FANOUT
    Continuations, \* LOOKUP_CONTINUATION_FANOUT
    Budget,        \* continuation_budget of an initial RPC
    MaxLookups     \* bound on the real lookups begun

ASSUME DhtAssumption ==
    /\ IsFiniteSet(Nodes) /\ Nodes # {}
    /\ Bootstrap \subseteq Nodes
    /\ IsFiniteSet(Hashes)
    /\ TxCount \in Nat \ {0}
    /\ MaxPending \in Nat \ {0}
    /\ MaxQueue \in Nat \ {0}
    /\ RpcTimeout \in Nat \ {0}
    /\ LookupFanout \in Nat \ {0}
    /\ Continuations \in Nat
    /\ Budget \in Nat
    /\ MaxLookups \in Nat

Tx == 0 .. TxCount - 1
Lookups == 1 .. MaxLookups

VARIABLES
    queue,      \* discovery_queue
    queued,     \* discovery_set
    routing,    \* what the routing table says of a node
    pending,    \* pending_rpcs
    retired,    \* retired_transactions: ticks until the id is reusable, -1 if absent
    next_tx,    \* NEXT_TX
    active,     \* RealLookupTracker.active
    begun,      \* RealLookupTracker.next_id, at most MaxLookups
    counters,   \* real_lookups_{initiated,succeeded,failed}_total
    task,       \* what the handler in progress has still to do
    net,        \* answers on their way
    peersFor    \* history: lookups one of whose answers carried peers

vars == <<queue, queued, routing, pending, retired, next_tx, active, begun,
          counters, task, net, peersFor>>

Methods == {"find_node", "get_peers"}

\* PendingRpc; lookup 0 is None, known is expected_node_id.is_some().
Rpc == [method : Methods, node : Nodes, known : BOOLEAN, hash : Hashes \cup {"own"},
        real : BOOLEAN, budget : 0 .. Budget, lookup : 0 .. MaxLookups, ttl : 0 .. RpcTimeout]
NoRpc == [method |-> "none"]
IsPending(tx) == pending[tx] # NoRpc

Progress == [open : BOOLEAN, outstanding : Nat, found : BOOLEAN]
Closed == [open |-> FALSE, outstanding |-> 0, found |-> FALSE]

\* An answer that can still arrive.  stale is history: its transaction id has
\* been given to another RPC since.
Answer == [tx : Tx, node : Nodes, ttl : 1 .. 2 * RpcTimeout, stale : BOOLEAN]

\* The handler in progress: nodes it still has to query, with which RPC, and
\* what it does after that.
Idle == [phase |-> "idle"]
Pop == [phase |-> "pop"]
Sending(todo, rpc, then) == [phase |-> "send", todo |-> todo, rpc |-> rpc, then |-> then]
Done == [do |-> "return"]
Started(l) == [do |-> "started", lookup |-> l]
Respond(l, found) == [do |-> "respond", lookup |-> l, found |-> found]

NodeLists(n) == {s \in UNION {[1 .. k -> Nodes] : k \in 0 .. n} :
                    \A i, j \in DOMAIN s : s[i] = s[j] => i = j}

------------------------------------------------------------------------------
(***************************************************************************)
(* The lookup queue.                                                       *)
(***************************************************************************)
QueueSet(q) == {q[i] : i \in DOMAIN q}

\* queue_hash for each of H, in any order: duplicates and hashes for which
\* there is no room are dropped.
queue_hashes(H) ==
    LET new == H \ queued
        room == IF Cardinality(new) <= MaxQueue - Len(queue)
                THEN Cardinality(new) ELSE MaxQueue - Len(queue)
    IN  \E s \in [1 .. room -> new] :
            /\ \A i, j \in 1 .. room : s[i] = s[j] => i = j
            /\ queue' = queue \o s
            /\ queued' = queued \cup QueueSet(s)

------------------------------------------------------------------------------
(***************************************************************************)
(* The routing table, for nodes that all fit in it.                        *)
(***************************************************************************)
Standing == {"absent", "candidate", "good", "questionable"}
Live == {n \in Nodes : routing[n] \in {"good", "questionable"}}
Candidates == {n \in Nodes : routing[n] = "candidate"}

\* mark_validated(n), then add_candidate for each of C.
Validated(n, C) ==
    [m \in Nodes |->
        IF m = n THEN "good"
        ELSE IF m \in C /\ routing[m] = "absent" THEN "candidate" ELSE routing[m]]

\* record_failure, as often as failures says; BAD_AFTER_FAILURES is 2.
Failed(failures) ==
    [m \in Nodes |->
        CASE routing[m] = "good" /\ failures[m] = 1 -> "questionable"
          [] routing[m] = "good" /\ failures[m] > 1 -> "absent"
          [] routing[m] = "questionable" /\ failures[m] > 0 -> "absent"
          [] OTHER -> routing[m]]

------------------------------------------------------------------------------
(***************************************************************************)
(* RealLookupTracker.                                                      *)
(***************************************************************************)

\* complete(), once for each of the n RPCs of every lookup l with n = done[l];
\* a lookup without an RPC left is closed and counted.
complete(done, found) ==
    LET after == [l \in Lookups |->
                    [active[l] EXCEPT !.outstanding = IF @ > done[l] THEN @ - done[l] ELSE 0,
                                      !.found = @ \/ (done[l] > 0 /\ found)]]
        closes == {l \in Lookups : active[l].open /\ done[l] > 0 /\ after[l].outstanding = 0}
    IN  /\ active' = [l \in Lookups |-> IF l \in closes THEN Closed
                                        ELSE IF active[l].open THEN after[l] ELSE active[l]]
        /\ counters' =
            [counters EXCEPT
                !.succeeded = @ + Cardinality({l \in closes : after[l].found}),
                !.failed = @ + Cardinality({l \in closes : ~after[l].found})]

OneOf(l) == [k \in Lookups |-> IF k = l THEN 1 ELSE 0]

------------------------------------------------------------------------------
(***************************************************************************)
(* Sending.                                                                *)
(***************************************************************************)
Pendings == {tx \in Tx : IsPending(tx)}
Free_ignores_retired(tx) == ~IsPending(tx)

Free(tx) == ~IsPending(tx) /\ retired[tx] = -1

\* allocate_transaction scans the ids from NEXT_TX on, wrapping around.
NextFree == {k \in Tx : /\ Free((next_tx + k) % TxCount)
                        /\ \A j \in 0 .. k - 1 : ~Free((next_tx + j) % TxCount)}
CanAllocate == Cardinality(Pendings) < MaxPending /\ NextFree # {}

\* The rest of the handler after the head of its list has been dealt with.
Advance == task' = [task EXCEPT !.todo = Tail(@)]

\* send_rpc: the datagram is sent, or the socket reports an error and the RPC
\* is forgotten without retiring its id.
send_rpc ==
    /\ task.phase = "send"
    /\ task.todo # <<>>
    /\ CanAllocate
    /\ \E k \in NextFree :
        LET tx == (next_tx + k) % TxCount
            rpc == [task.rpc EXCEPT !.node = Head(task.todo)]
        IN  /\ next_tx' = (tx + 1) % TxCount
            /\ \/ /\ pending' = [pending EXCEPT ![tx] = rpc]
                  /\ active' = IF rpc.lookup \in Lookups /\ active[rpc.lookup].open
                               THEN [active EXCEPT ![rpc.lookup].outstanding = @ + 1]
                               ELSE active
                  /\ net' = {IF a.tx = tx THEN [a EXCEPT !.stale = TRUE] ELSE a : a \in net}
                            \cup {[tx |-> tx, node |-> rpc.node, ttl |-> 2 * RpcTimeout,
                                   stale |-> FALSE]}
               \/ UNCHANGED <<pending, active, net>>
    /\ Advance
    /\ UNCHANGED <<queue, queued, routing, retired, begun, counters, peersFor>>

\* No slot or no id is free.  A full scan leaves NEXT_TX where it was.
send_rpc_backpressure ==
    /\ task.phase = "send"
    /\ task.todo # <<>>
    /\ ~CanAllocate
    /\ Advance
    /\ UNCHANGED <<queue, queued, routing, pending, retired, next_tx, active, begun,
                   counters, net, peersFor>>

HandlerEnds_never_starts ==
    /\ task.phase = "send"
    /\ task.todo = <<>>
    /\ task' = Idle
    /\ \/ task.then.do \in {"return", "started"} /\ UNCHANGED <<active, counters>>
       \/ task.then.do = "respond" /\ complete(OneOf(task.then.lookup), task.then.found)
    /\ UNCHANGED <<queue, queued, routing, pending, retired, next_tx, begun, net, peersFor>>

\* The last RPC has been sent: started() or respond(), then the handler returns.
started(l) ==
    /\ active' = IF active[l].outstanding > 0 THEN active ELSE [active EXCEPT ![l] = Closed]
    /\ counters' = [counters EXCEPT !.initiated = IF active[l].outstanding > 0 THEN @ + 1 ELSE @]

HandlerEnds ==
    /\ task.phase = "send"
    /\ task.todo = <<>>
    /\ task' = Idle
    /\ \/ task.then.do = "return" /\ UNCHANGED <<active, counters>>
       \/ task.then.do = "started" /\ started(task.then.lookup)
       \/ task.then.do = "respond" /\ complete(OneOf(task.then.lookup), task.then.found)
    /\ UNCHANGED <<queue, queued, routing, pending, retired, next_tx, begun, net, peersFor>>

------------------------------------------------------------------------------
(***************************************************************************)
(* The timers.                                                             *)
(***************************************************************************)
expire_pending_never_reuses ==
    LET expired == {tx \in Pendings : pending[tx].ttl = 0}
        Of(P(_)) == {tx \in expired : P(pending[tx])}
    IN  /\ retired' = [tx \in Tx |-> IF tx \in expired THEN RpcTimeout ELSE retired[tx]]
        /\ pending' = [tx \in Tx |-> IF tx \in expired THEN NoRpc ELSE pending[tx]]
        /\ routing' = Failed([n \in Nodes |-> Cardinality(Of(LAMBDA p : p.known /\ p.node = n))])
        /\ queue_hashes({pending[tx].hash : tx \in Of(LAMBDA p : p.real)})
        /\ complete([l \in Lookups |-> Cardinality(Of(LAMBDA p : p.lookup = l))], FALSE)

\* expire_pending: ids whose retirement is over become free; RPCs past their
\* deadline are removed and retired, their node is blamed, a real hash is
\* queued again and the lookup loses an RPC.
expire_pending ==
    LET expired == {tx \in Pendings : pending[tx].ttl = 0}
        Of(P(_)) == {tx \in expired : P(pending[tx])}
    IN  /\ retired' = [tx \in Tx |-> IF tx \in expired THEN RpcTimeout
                                     ELSE IF retired[tx] = 0 THEN -1 ELSE retired[tx]]
        /\ pending' = [tx \in Tx |-> IF tx \in expired THEN NoRpc ELSE pending[tx]]
        /\ routing' = Failed([n \in Nodes |-> Cardinality(Of(LAMBDA p : p.known /\ p.node = n))])
        /\ queue_hashes({pending[tx].hash : tx \in Of(LAMBDA p : p.real)})
        /\ complete([l \in Lookups |-> Cardinality(Of(LAMBDA p : p.lookup = l))], FALSE)

RefreshTick ==
    /\ task = Idle
    /\ expire_pending
    /\ UNCHANGED <<next_tx, begun, task, net, peersFor>>

\* discover_peers, first part.
DiscoverTick ==
    /\ task = Idle
    /\ begun < MaxLookups
    /\ expire_pending
    /\ task' = Pop
    /\ UNCHANGED <<next_tx, begun, net, peersFor>>

\* The nodes a lookup starts from: live ones, then candidates.
StartNodes ==
    {s \in NodeLists(LookupFanout) :
        LET live == QueueSet(s) \cap Live
            cand == QueueSet(s) \cap Candidates
            Least(a, b) == IF a < b THEN a ELSE b
        IN  /\ QueueSet(s) = live \cup cand
            /\ \A i, j \in DOMAIN s : s[i] \in cand /\ s[j] \in live => j < i
            /\ Cardinality(live) = Least(LookupFanout, Cardinality(Live))
            /\ Cardinality(cand) = Least(LookupFanout - Cardinality(live), Cardinality(Candidates))}

FindNode(b) == [method |-> "find_node", node |-> CHOOSE n \in Nodes : TRUE, known |-> FALSE,
                hash |-> "own", real |-> FALSE, budget |-> b, lookup |-> 0, ttl |-> RpcTimeout]
GetPeers(h, real, b, l) == [method |-> "get_peers", node |-> CHOOSE n \in Nodes : TRUE,
                            known |-> TRUE, hash |-> h, real |-> real, budget |-> b,
                            lookup |-> l, ttl |-> RpcTimeout]

BootstrapLists == {s \in NodeLists(Cardinality(Bootstrap)) : QueueSet(s) = Bootstrap}

LookupQueued_keeps_mark ==
    /\ task = Pop
    /\ queue # <<>>
    /\ \/ /\ Live \cup Candidates # {}
          /\ begun' = begun + 1
          /\ queue' = Tail(queue)
          /\ active' = [active EXCEPT ![begun + 1] = [Closed EXCEPT !.open = TRUE]]
          /\ \E s \in StartNodes :
                task' = Sending(s, GetPeers(Head(queue), TRUE, Budget, begun + 1),
                                Started(begun + 1))
       \/ /\ Live \cup Candidates = {}
          /\ queue' = Append(Tail(queue), Head(queue))
          /\ \E s \in BootstrapLists : task' = Sending(s, FindNode(Budget), Done)
          /\ UNCHANGED <<begun, active>>
    /\ UNCHANGED <<queued, routing, pending, retired, next_tx, counters, net, peersFor>>

\* discover_peers with a hash from the queue.
LookupQueued ==
    /\ task = Pop
    /\ queue # <<>>
    /\ \/ /\ Live \cup Candidates # {}
          /\ begun' = begun + 1
          /\ queue' = Tail(queue)
          /\ queued' = queued \ {Head(queue)}
          /\ active' = [active EXCEPT ![begun + 1] = [Closed EXCEPT !.open = TRUE]]
          /\ \E s \in StartNodes :
                task' = Sending(s, GetPeers(Head(queue), TRUE, Budget, begun + 1),
                                Started(begun + 1))
       \/ /\ Live \cup Candidates = {}
          /\ queue' = Append(Tail(queue), Head(queue))
          /\ \E s \in BootstrapLists : task' = Sending(s, FindNode(Budget), Done)
          /\ UNCHANGED <<begun, queued, active>>
    /\ UNCHANGED <<routing, pending, retired, next_tx, counters, net, peersFor>>

\* discover_peers with an empty queue: a random target.
LookupRandom ==
    /\ task = Pop
    /\ queue = <<>>
    /\ \/ /\ Live \cup Candidates # {}
          /\ \E s \in StartNodes, h \in Hashes :
                task' = Sending(s, GetPeers(h, FALSE, Budget, 0), Done)
       \/ /\ Live \cup Candidates = {}
          /\ \E s \in BootstrapLists : task' = Sending(s, FindNode(Budget), Done)
    /\ UNCHANGED <<queue, queued, routing, pending, retired, next_tx, active, begun,
                   counters, net, peersFor>>

\* Time passes while the task waits for an event.
Tick ==
    /\ task = Idle
    /\ pending' = [tx \in Tx |-> IF IsPending(tx) /\ pending[tx].ttl > 0
                                 THEN [pending[tx] EXCEPT !.ttl = @ - 1] ELSE pending[tx]]
    /\ retired' = [tx \in Tx |-> IF retired[tx] > 0 THEN retired[tx] - 1 ELSE retired[tx]]
    /\ net' = {[a EXCEPT !.ttl = @ - 1] : a \in {b \in net : b.ttl > 1}}
    /\ UNCHANGED <<queue, queued, routing, next_tx, active, begun, counters, task, peersFor>>

------------------------------------------------------------------------------
(***************************************************************************)
(* Packets.                                                                *)
(***************************************************************************)
\* An inbound get_peers or announce_peer query names a hash: publish_discovery.
InboundQuery(h) ==
    /\ task = Idle
    /\ queue_hashes({h})
    /\ UNCHANGED <<routing, pending, retired, next_tx, active, begun, counters, task,
                   net, peersFor>>

\* correlate_response and handle_error find the RPC that answer a is for.
Correlates(a) == IsPending(a.tx) /\ pending[a.tx].node = a.node

\* The answer is consumed, or a copy of it is still on its way.
Received(a) ==
    \/ net' = net \ {a}
    \/ net' = (net \ {a}) \cup {[a EXCEPT !.ttl = IF @ > RpcTimeout THEN RpcTimeout ELSE @]}

\* The transaction is over; its id is not used again for rpc_timeout.
Retire(tx) ==
    /\ pending' = [pending EXCEPT ![tx] = NoRpc]
    /\ retired' = [retired EXCEPT ![tx] = RpcTimeout]

\* Unsolicited, or from another address than the RPC was sent to: only counted.
IgnoreAnswer(a) ==
    /\ task = Idle
    /\ net' = net \ {a}
    /\ UNCHANGED <<queue, queued, routing, pending, retired, next_tx, active, begun,
                   counters, task, peersFor>>

\* A response without a node id, with another one, or of the wrong shape.
MalformedResponse(a) ==
    /\ task = Idle
    /\ Correlates(a)
    /\ Received(a)
    /\ Retire(a.tx)
    /\ complete(OneOf(pending[a.tx].lookup), FALSE)
    /\ UNCHANGED <<queue, queued, routing, next_tx, begun, task, peersFor>>

handle_error_keeps_lookup(a) ==
    /\ task = Idle
    /\ Correlates(a)
    /\ Received(a)
    /\ Retire(a.tx)
    /\ routing' = Failed([n \in Nodes |-> IF pending[a.tx].known /\ n = a.node THEN 1 ELSE 0])
    /\ UNCHANGED <<queue, queued, next_tx, active, begun, counters, task, peersFor>>

handle_error(a) ==
    /\ task = Idle
    /\ Correlates(a)
    /\ Received(a)
    /\ Retire(a.tx)
    /\ routing' = Failed([n \in Nodes |-> IF pending[a.tx].known /\ n = a.node THEN 1 ELSE 0])
    /\ complete(OneOf(pending[a.tx].lookup), FALSE)
    /\ UNCHANGED <<queue, queued, next_tx, begun, task, peersFor>>

Continue_unlimited(p, s) ==
    Sending(SubSeq(s, 1, IF Len(s) < Continuations THEN Len(s) ELSE Continuations),
            [p EXCEPT !.known = TRUE, !.budget = @ - 1, !.ttl = RpcTimeout],
            IF p.lookup = 0 THEN Done ELSE Respond(p.lookup, FALSE))

\* continue_find_node and continue_get_peers: as many of the returned nodes as
\* the fan-out allows, with one continuation less; none if the budget is used.
Continue(p, s) ==
    Sending(IF p.budget = 0 THEN <<>> ELSE SubSeq(s, 1, IF Len(s) < Continuations
                                                        THEN Len(s) ELSE Continuations),
            [p EXCEPT !.known = TRUE, !.budget = IF @ = 0 THEN 0 ELSE @ - 1, !.ttl = RpcTimeout],
            IF p.lookup = 0 THEN Done ELSE Respond(p.lookup, FALSE))

\* handle_response to a find_node.
FindNodeResponse(a, s) ==
    /\ task = Idle
    /\ Correlates(a)
    /\ pending[a.tx].method = "find_node"
    /\ Received(a)
    /\ Retire(a.tx)
    /\ routing' = Validated(a.node, QueueSet(s))
    /\ task' = Continue(pending[a.tx], s)
    /\ UNCHANGED <<queue, queued, next_tx, active, begun, counters, peersFor>>

\* handle_response to a get_peers: the lookup is continued before the answered
\* RPC is taken off it.
GetPeersResponse(a, s, found) ==
    LET p == pending[a.tx]
        rest == Continue(p, s)
    IN  /\ task = Idle
        /\ Correlates(a)
        /\ p.method = "get_peers"
        /\ Received(a)
        /\ Retire(a.tx)
        /\ routing' = Validated(a.node, QueueSet(s))
        /\ IF found \/ p.real THEN queue_hashes({p.hash}) ELSE UNCHANGED <<queue, queued>>
        /\ task' = IF p.lookup = 0 THEN rest ELSE [rest EXCEPT !.then.found = found]
        /\ peersFor' = IF found THEN peersFor \cup ({p.lookup} \cap Lookups) ELSE peersFor
        /\ UNCHANGED <<next_tx, active, begun, counters>>

Init ==
    /\ queue = <<>>
    /\ queued = {}
    /\ routing = [n \in Nodes |-> "absent"]
    /\ pending = [tx \in Tx |-> NoRpc]
    /\ retired = [tx \in Tx |-> -1]
    /\ next_tx = 1 % TxCount
    /\ active = [l \in Lookups |-> Closed]
    /\ begun = 0
    /\ counters = [initiated |-> 0, succeeded |-> 0, failed |-> 0]
    /\ task \in {Sending(s, FindNode(Budget), Done) : s \in BootstrapLists}
    /\ net = {}
    /\ peersFor = {}

Step == send_rpc \/ send_rpc_backpressure \/ HandlerEnds \/ LookupQueued \/ LookupRandom

Next ==
    \/ Step
    \/ RefreshTick
    \/ DiscoverTick
    \/ Tick
    \/ \E h \in Hashes : InboundQuery(h)
    \/ \E a \in net :
        \/ IgnoreAnswer(a)
        \/ MalformedResponse(a)
        \/ handle_error(a)
        \/ \E s \in NodeLists(Cardinality(Nodes)) : FindNodeResponse(a, s)
        \/ \E s \in NodeLists(Cardinality(Nodes)), found \in BOOLEAN : GetPeersResponse(a, s, found)

Spec == Init /\ [][Next]_vars

(***************************************************************************)
(* A handler runs to its end; time passes; the select loop takes a timer   *)
(* that is due, though packets keep arriving, because it chooses at random *)
(* among the branches that are ready.                                      *)
(***************************************************************************)
FairSpec == Spec /\ WF_vars(Step) /\ SF_vars(Tick) /\ SF_vars(RefreshTick)

------------------------------------------------------------------------------
(***************************************************************************)
(* Properties.                                                             *)
(***************************************************************************)
\* Every variable keeps its type; in particular a budget never underflows and
\* a deadline stays within its bound.
TypeOK ==
    /\ queue \in Seq(Hashes) /\ Len(queue) <= MaxQueue
    /\ queued \subseteq Hashes
    /\ routing \in [Nodes -> Standing]
    /\ pending \in [Tx -> Rpc \cup {NoRpc}]
    /\ retired \in [Tx -> -1 .. RpcTimeout]
    /\ next_tx \in Tx
    /\ active \in [Lookups -> Progress]
    /\ begun \in 0 .. MaxLookups
    /\ counters \in [initiated : Nat, succeeded : Nat, failed : Nat]
    /\ task.phase \in {"idle", "pop", "send"}
    /\ task.phase = "send" => task.todo \in Seq(Nodes) /\ task.rpc \in Rpc
    /\ net \subseteq Answer
    /\ peersFor \subseteq Lookups

\* discovery_set, which decides whether a hash may be queued, says exactly
\* which hashes discovery_queue holds, each of them once: otherwise a hash
\* would be looked up twice or never again.
QueueSound ==
    /\ queued = QueueSet(queue)
    /\ Cardinality(queued) = Len(queue)

\* The RPCs of a lookup that the tracker counts as outstanding are its pending
\* transactions, plus the one whose answer is being handled.
Outstanding(l) ==
    Cardinality({tx \in Pendings : pending[tx].lookup = l})
    + (IF task.phase = "send" /\ task.then.do = "respond" /\ task.then.lookup = l
       THEN 1 ELSE 0)

\* Being set up: started() has not been called yet.
Starting(l) == task.phase = "send" /\ task.then.do = "started" /\ task.then.lookup = l

\* However RPCs of several lookups end (answer, error, malformed answer,
\* timeout, send error) a lookup is open exactly as long as one of its RPCs
\* is, and an initiated lookup is counted once as succeeded or failed: as
\* succeeded exactly if one of its answers carried peers, in whatever order the
\* answers and timeouts came.
LookupAccounting ==
    /\ \A l \in Lookups :
        /\ active[l].outstanding = Outstanding(l)
        /\ active[l].open <=> Outstanding(l) > 0 \/ Starting(l)
    /\ counters.initiated = counters.succeeded + counters.failed
                            + Cardinality({l \in Lookups : active[l].open /\ ~Starting(l)})
    /\ counters.succeeded = Cardinality({l \in peersFor : ~active[l].open})

\* A late or duplicated answer is never taken for the answer to another RPC:
\* a transaction id is not given out again while it can still arrive.
NoStaleAnswer == \A a \in net : ~a.stale

\* Every lookup is closed in the end, whatever the network does.
LookupCloses == \A l \in Lookups : active[l].open ~> ~active[l].open

\* Every retired transaction id becomes usable again.
IdsAreRecycled == \A tx \in Tx : retired[tx] >= 0 ~> retired[tx] = -1
==============================================================================
