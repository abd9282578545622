------------------------------- MODULE DhtServer -------------------------------
(***************************************************************************)
(* The crawler task as a DHT server, its BEP 51 sampling, and what it does *)
(* with every hash it hears of (src/dht.rs), composed with the readers of  *)
(* the two bounded channels it writes to.                                  *)
(*                                                                         *)
(*   query --> handle_query --> peer cache, token --> reply                *)
(*                  |                                                      *)
(*   answers --> publish_discovery --try_send--> chan --> metadata fetcher *)
(*                  |                                          |           *)
(*                  +------emit_stat--try_send--> stats --> persister --> rows *)
(*                                                                         *)
(* The crawler handles one event at a time; the readers run between any    *)
(* two observations it publishes.  Its lookups are modelled by DhtRpc: the *)
(* hashes published here also go to that module's queue, and an answer is  *)
(* one that DhtRpc has correlated with a pending RPC.  Time is counted in  *)
(* ticks, TokenBucket of them in the 300 seconds of a token bucket.        *)
(*                                                                         *)
(* Of an observation's peers only what is cached matters here; `stats'     *)
(* holds, of each event, the hashes for which its reader writes a row; of  *)
(* the metrics only hashes_discovered is kept.                             *)
(***************************************************************************)
EXTENDS Krpc, FiniteSets, FiniteSetsExt

CONSTANTS
    OurId,           \* our_id
    Hashes,          \* info hashes
    Zero,            \* the all-zero hash
    Samplers,        \* ids of the nodes that are asked for samples
    Sources,         \* addresses that queries come from
    HashArgs,        \* what get_peers queries carry as info_hash
    AnnounceArgs,    \* arguments of announce_peer queries, without the token
    PeerAnswers,     \* bodies of answers to get_peers
    SampleAnswers,   \* bodies of answers to sample_infohashes
    PeerHashes,      \* announced_peer_hash_capacity
    PeersPerHash,    \* announced_peers_per_hash
    PeerTtl,         \* announced_peer_ttl
    TokenBucket,     \* ticks in a token bucket
    MinInterval,     \* sampling_min_remote_interval
    MaxInterval,     \* the largest interval an answer may demand
    MaxSamples,      \* max_samples_per_response
    RequestsPerTick, \* sampling_requests_per_tick
    ChanCap,         \* capacity of the discovery channel
    StatsCap,        \* capacity of the statistics channel
    MaxObservations  \* bound: hashes published in a behaviour

ASSUME ServerAssumption ==
    /\ {PeerHashes, PeersPerHash, PeerTtl, TokenBucket, MinInterval, RequestsPerTick,
        ChanCap, StatsCap} \subseteq Nat \ {0}
    /\ {MaxInterval, MaxObservations} \subseteq Nat
    /\ NotUtf8 \notin {"id", "nodes", "values"}
    /\ PublicIps \subseteq Ips /\ Sources \subseteq Address
    /\ Hashes \cup Samplers \cup {Zero, OurId} \subseteq Ids
    /\ IsFiniteSet(Hashes) /\ Zero \notin Hashes
    /\ \A v \in HashArgs : v[2] \in Ids => v[2] \in Hashes \cup {Zero}
    /\ \A a \in AnnounceArgs :
        HasId(a, "info_hash") => field_id(a, "info_hash") \in Hashes \cup {Zero}
    /\ \A r \in SampleAnswers :
        Has(r, "samples", "bytes") => r["samples"][2].entries \in Seq(Hashes \cup {Zero})
    /\ \A r \in PeerAnswers :
        /\ Has(r, "values", "bytes") => r["values"][2] \in CompactPeers
        /\ Has(r, "values", "list") =>
            /\ r["values"][2] \in Seq(Range(r["values"][2]))
            /\ \A v \in Range(r["values"][2]) : v[1] = "bytes" => v[2] \in CompactPeers

VARIABLES
    cache,      \* peer_cache: hash -> sequence of peers with the ticks they have left
    phase,      \* ticks since the current token bucket began
    held,       \* the last token a client obtained and, ghost, its age
    eligible,   \* sample_eligible_at: ticks until a node may be asked again
    asked,      \* nodes with a pending sample_infohashes RPC
    todo,       \* the observations the handler in progress has yet to publish
    found,      \* info_hashes_found
    discovered, \* the metric hashes_discovered
    chan,       \* the discovery channel
    stats,      \* the statistics channel
    owed,       \* ghost: hashes heard of while one of the channels had room, until
                \* a reader writes the row
    newest,     \* ghost: the peer cached last, its hash and the ticks it has left
    quiet       \* ghost: ticks for which a node must not be asked

serving == <<cache, newest>>
sampling == <<eligible, asked, quiet>>
channels == <<found, discovered, chan, stats, owed>>
clock == <<phase, held>>
vars == <<serving, sampling, channels, clock, todo>>

Larger(a, b) == IF a > b THEN a ELSE b
Down(n) == IF n > 0 THEN n - 1 ELSE 0

------------------------------------------------------------------------------
(***************************************************************************)
(* Tokens.  The bucket of a token is how many buckets ago it was made, 2   *)
(* standing for all earlier ones; `ours' tells the secret of this process  *)
(* from any other.  hmac_sha1 is taken to be injective.                    *)
(***************************************************************************)
make_token_for_bucket(ip, ago) == [ip |-> ip, ago |-> ago, ours |-> TRUE]
make_token(ip) == make_token_for_bucket(ip, 0)

validate_token_current_bucket(ip, token) == token = make_token_for_bucket(ip, 0)
validate_token(ip, token) ==
    token \in {make_token_for_bucket(ip, 0), make_token_for_bucket(ip, 1)}

------------------------------------------------------------------------------
(***************************************************************************)
(* The peer cache.                                                         *)
(***************************************************************************)
Fresh(entry) == Picked(entry, {i \in DOMAIN entry : entry[i].left > 0})

expire_peer_cache(c) ==
    [h \in {g \in DOMAIN c : Fresh(c[g]) # <<>>} |-> Fresh(c[h])]

\* An entry in which peer is the newest.
Others(entry, peer) == Picked(entry, {i \in DOMAIN entry : entry[i].peer # peer})

Renewed_drop_newest(entry, peer) ==
    LET new == Append(Others(entry, peer), [peer |-> peer, left |-> PeerTtl])
    IN  SubSeq(new, 1, IF Len(new) > PeersPerHash THEN PeersPerHash ELSE Len(new))
Renewed_unbounded(entry, peer) ==
    Append(Others(entry, peer), [peer |-> peer, left |-> PeerTtl])
Renewed(entry, peer) ==
    LET others == Others(entry, peer)
        kept == IF Len(others) >= PeersPerHash THEN Tail(others) ELSE others
    IN  Append(kept, [peer |-> peer, left |-> PeerTtl])

\* The caches that cache_peer may leave: when there is no room for another
\* hash, the HashMap gives up any one of those it holds.
cache_peer(c, h, peer) ==
    LET full == h \notin DOMAIN c /\ Cardinality(DOMAIN c) >= PeerHashes
        evicted == IF full THEN {Without(c, {g}) : g \in DOMAIN c} ELSE {c}
        Entry(b) == IF h \in DOMAIN b THEN b[h] ELSE <<>>
    IN  {With(b, [g \in {h} |-> Renewed(Entry(b), peer)]) : b \in evicted}

\* cache_peer for each of a sequence of peers.
cache_peers(c, h, peers) ==
    LET after[i \in 0 .. Len(peers)] ==
            IF i = 0 THEN {c} ELSE UNION {cache_peer(b, h, peers[i]) : b \in after[i - 1]}
    IN  after[Len(peers)]

\* What is remembered of the newest peer when peers were cached for h.
Newest(h, peers) ==
    IF peers = <<>> THEN newest
    ELSE [hash |-> h, peer |-> peers[Len(peers)], left |-> PeerTtl]

------------------------------------------------------------------------------
(***************************************************************************)
(* Publishing an observation.                                              *)
(***************************************************************************)
HashObserved(h, accepted) == [kind |-> "HashObserved", hash |-> h, accepted |-> accepted]
SampleObserved(h) == [kind |-> "SampleObserved", hash |-> h]
DhtSnapshot(n) == [kind |-> "DhtSnapshot", info_hashes_found |-> n]
Uncounted == [kind |-> "any other event"]

apply(total, event) ==
    CASE event.kind = "HashObserved" -> total + 1
      [] event.kind = "DhtSnapshot" -> event.info_hashes_found
      [] OTHER -> total

\* The hashes for which persist_runtime_batch writes a row.
persist_runtime_batch(event) ==
    IF event.kind = "SampleObserved" \/ (event.kind = "HashObserved" /\ ~event.accepted)
    THEN {event.hash} ELSE {}

\* The channels and counters as a record, for operators that change several.
Now == [chan |-> chan, stats |-> stats, found |-> found, discovered |-> discovered]

emit_stat(n, event) ==
    [n EXCEPT !.discovered = apply(@, event),
              !.stats = IF Len(@) < StatsCap THEN Append(@, persist_runtime_batch(event)) ELSE @]

\* try_send, the observation, and the event that tells of backpressure.
enqueue_discovery_claims_accepted(n, h) ==
    LET accepted == Len(n.chan) < ChanCap
        sent == [n EXCEPT !.chan = IF accepted THEN Append(@, h) ELSE @]
        observed == emit_stat(sent, HashObserved(h, TRUE))
    IN  IF accepted THEN observed ELSE emit_stat(observed, Uncounted)
enqueue_discovery(n, h) ==
    LET accepted == Len(n.chan) < ChanCap
        sent == [n EXCEPT !.chan = IF accepted THEN Append(@, h) ELSE @]
        observed == emit_stat(sent, HashObserved(h, accepted))
    IN  IF accepted THEN observed ELSE emit_stat(observed, Uncounted)

publish_discovery(n, h) ==
    IF h = Zero THEN n ELSE enqueue_discovery([n EXCEPT !.found = @ + 1], h)

\* The step leaves the channels and counters as n says.
Leave(n) ==
    /\ chan' = n.chan
    /\ stats' = n.stats
    /\ found' = n.found
    /\ discovered' = n.discovered

\* The step hears of h when the channels are as n says.
Hear(n, h) ==
    owed' = owed \cup
        IF Len(n.chan) < ChanCap \/ Len(n.stats) < StatsCap THEN {h} \ {Zero} ELSE {}

\* The step emits only events that nobody writes a row for.
Emit(n) == Leave(n) /\ UNCHANGED owed

Idle == todo = <<>>
Room(n) == Idle /\ found + n <= MaxObservations

------------------------------------------------------------------------------
(***************************************************************************)
(* Queries.  A handler yields what it does: the peers it caches and the    *)
(* hash it publishes (Zero, which is never published, for none), whether   *)
(* it expires the cache, and its reply.  The table of contacted nodes is   *)
(* RoutingTable's; here its closest nodes are one opaque string.  The map  *)
(* `provisional' is written and never read.                                *)
(***************************************************************************)
closest_nodes == [nodes |-> Bytes([entries |-> <<>>, cut |-> FALSE])]
Says(reply) == [hash |-> Zero, peers |-> <<>>, expire |-> FALSE, reply |-> reply]

get_peers_response(a, t, src) ==
    IF ~HasId(a, "info_hash") THEN Says(error_message(t, "invalid info_hash"))
    ELSE LET h == field_id(a, "info_hash")
             fresh == expire_peer_cache(cache)
             values == [values |-> List([i \in DOMAIN fresh[h] |->
                                            encode_compact(<<fresh[h][i].peer>>)])]
             body == IF h \in DOMAIN fresh THEN values ELSE closest_nodes
         IN  [hash |-> h, peers |-> <<>>, expire |-> TRUE,
              reply |-> response_message(OurId, t, With(body, [token |-> Bytes(make_token(src.ip))]))]

\* The port to announce, 0 if there is none.
AnnouncedPort(a, src) ==
    IF Has(a, "implied_port", "int") /\ a["implied_port"][2] # 0 THEN src.port
    ELSE IF Has(a, "port", "int") /\ a["port"][2] \in 1 .. MaxPort THEN a["port"][2]
    ELSE 0

announce_peer_response(a, t, src) ==
    LET h == field_id(a, "info_hash")
        port == AnnouncedPort(a, src)
    IN  IF ~HasId(a, "info_hash") THEN Says(error_message(t, "invalid info_hash"))
        ELSE IF ~(Has(a, "token", "bytes") /\ validate_token(src.ip, a["token"][2]))
        THEN Says(error_message(t, "invalid token"))
        ELSE IF port = 0 THEN Says(error_message(t, "invalid port"))
        ELSE [hash |-> h, peers |-> <<[ip |-> src.ip, port |-> port]>>, expire |-> FALSE,
              reply |-> response_message(OurId, t, NoExtra)]

handle_query(m, src) ==
    CASE m.q = "ping" -> Says(response_message(OurId, m.t, NoExtra))
      [] m.q = "find_node" -> Says(response_message(OurId, m.t, closest_nodes))
      [] m.q = "get_peers" -> get_peers_response(m.a, m.t, src)
      [] m.q = "announce_peer" -> announce_peer_response(m.a, m.t, src)
      [] m.q = "sample_infohashes" ->
            Says(response_message(OurId, m.t, With(closest_nodes,
                [interval |-> Integer(300), num |-> Integer(0), samples |-> closest_nodes.nodes])))
      [] OTHER -> Says(error_message(m.t, "unknown query"))

\* The queries clients send, as they arrive; an announcement carries the token
\* in hand, by whomever it was obtained.
Arrives(q, a) ==
    from_bytes(to_bytes([type |-> "query", t |-> "tx", q |-> q, a |-> a, extra |-> NoExtra]))

TokenType == [ip : {src.ip : src \in Sources}, ago : 0 .. 2, ours : BOOLEAN]
Requests ==
    {Arrives(q, NoExtra) : q \in {"ping", "find_node", "sample_infohashes", "vote"}}
        \cup {Arrives("get_peers", [info_hash |-> h]) : h \in HashArgs}
Announcements ==
    [token \in TokenType |->
        {Arrives("announce_peer", With(a, [token |-> Bytes(token)])) : a \in AnnounceArgs}]

\* A client keeps the token that a reply holds, or not.
TokenIn(reply) ==
    IF reply.type = "response" /\ Has(reply.r, "token", "bytes")
    THEN {[token |-> reply.r["token"][2], age |-> 0]} ELSE {}

HandleQuery(src) ==
    /\ Idle
    /\ is_public_endpoint(src)
    /\ \E m \in Requests \cup Announcements[held.token] :
        LET does == handle_query(m, src)
        IN  /\ Room(IF does.hash = Zero THEN 0 ELSE 1)
            /\ cache' \in IF does.expire THEN {expire_peer_cache(cache)}
                          ELSE cache_peers(cache, does.hash, does.peers)
            /\ newest' = Newest(does.hash, does.peers)
            /\ Leave(publish_discovery(Now, does.hash))
            /\ Hear(Now, does.hash)
            /\ held' \in {held} \cup TokenIn(from_bytes(to_bytes(does.reply)))
            /\ UNCHANGED <<sampling, phase, todo>>

\* A packet that cannot be parsed, and a response that nobody waits for.
HandleMalformed ==
    /\ Idle
    /\ from_bytes(Integer(0)) = Malformed
    /\ Emit(emit_stat(Now, Uncounted))
    /\ UNCHANGED <<serving, sampling, clock, todo>>

------------------------------------------------------------------------------
(***************************************************************************)
(* Answers to the crawler's own RPCs.                                      *)
(***************************************************************************)
\* handle_response, get_peers: each peer is cached, then the hash is published
\* if peers came or the lookup was for a hash that was heard of.
Answered == [r \in {b \in PeerAnswers : response_has_shape(b, "get_peers")} |-> PeersIn(r)]

HandlePeers ==
    /\ Room(1)
    /\ \E h \in Hashes, r \in DOMAIN Answered :
        LET peers == Answered[r]
            seen == emit_stat(emit_stat(Now, Uncounted), Uncounted)
        IN  /\ cache' \in cache_peers(cache, h, peers)
            /\ newest' = Newest(h, peers)
            /\ \E is_real_lookup \in BOOLEAN :
                IF peers # <<>> \/ is_real_lookup
                THEN Leave(publish_discovery(seen, h)) /\ Hear(seen, h)
                ELSE Emit(seen)
    /\ UNCHANGED <<sampling, clock, todo>>

\* handle_response, sample_infohashes.
Rescheduled_ignores_minimum(n, interval) == [eligible EXCEPT ![n] = interval]
Rescheduled(n, interval) == [eligible EXCEPT ![n] = Larger(interval, MinInterval)]

HandleSamples(n) ==
    \E r \in SampleAnswers :
        LET valid == SampleIsValid(r, MaxInterval, MaxSamples)
            seen == emit_stat(emit_stat(Now, Uncounted), Uncounted)
            interval == r["interval"][2]
            samples == r["samples"][2].entries
        IN  /\ n \in asked
            /\ response_has_shape(r, "sample_infohashes")
            /\ Room(IF valid THEN Len(samples) ELSE 0)
            /\ asked' = asked \ {n}
            /\ IF valid
               THEN /\ eligible' = Rescheduled(n, interval)
                    /\ quiet' = [quiet EXCEPT ![n] = Larger(@, interval)]
                    /\ todo' = [i \in DOMAIN samples |-> [kind |-> "sample", hash |-> samples[i]]]
                    /\ Emit(IF samples = <<>> THEN emit_stat(seen, Uncounted) ELSE seen)
               ELSE /\ Emit(emit_stat(seen, Uncounted))
                    /\ UNCHANGED <<eligible, quiet, todo>>
            /\ UNCHANGED <<serving, clock>>

\* The RPC timed out, could not be correlated or was answered by an error.
LoseSamples(n) ==
    /\ Idle
    /\ n \in asked
    /\ asked' = asked \ {n}
    /\ Emit(emit_stat(Now, Uncounted))
    /\ UNCHANGED <<serving, clock, todo, eligible, quiet>>

\* The next hash of the handler in progress: a sampled hash is published and
\* recorded as a sample, and the last one is followed by the SamplingResponse;
\* a resumed hash is offered to the fetcher and counted.
PublishNext ==
    /\ todo # <<>>
    /\ LET h == Head(todo).hash
           sampled == emit_stat(publish_discovery(Now, h), SampleObserved(h))
       IN  /\ Leave(CASE Head(todo).kind = "resume" -> enqueue_discovery(Now, h)
                      [] Head(todo).kind = "sample" /\ Len(todo) = 1 -> emit_stat(sampled, Uncounted)
                      [] OTHER -> sampled)
           /\ Hear(Now, h)
    /\ todo' = Tail(todo)
    /\ UNCHANGED <<serving, sampling, clock>>

------------------------------------------------------------------------------
(***************************************************************************)
(* The crawler's timers.                                                   *)
(***************************************************************************)
\* random_nodes may return any nodes; a query that cannot be sent leaves the
\* node as if it had been asked.
SampleRandomNodes ==
    /\ Idle
    /\ \E chosen \in SUBSET {n \in Samplers : eligible[n] = 0} :
        /\ chosen # {}
        /\ Cardinality(chosen) <= RequestsPerTick
        /\ \E sent \in SUBSET chosen : asked' = asked \cup sent
        /\ eligible' = [n \in Samplers |-> IF n \in chosen THEN MinInterval ELSE eligible[n]]
        /\ quiet' = [n \in Samplers |-> IF n \in chosen THEN MinInterval ELSE quiet[n]]
    /\ UNCHANGED <<serving, channels, clock, todo>>

RefreshTick ==
    /\ Idle
    /\ cache' = expire_peer_cache(cache)
    /\ UNCHANGED <<newest, sampling, channels, clock, todo>>

StatsTick ==
    /\ Idle
    /\ Emit(emit_stat(Now, DhtSnapshot(found)))
    /\ UNCHANGED <<serving, sampling, clock, todo>>

------------------------------------------------------------------------------
(***************************************************************************)
(* The readers of the channels, and time.                                  *)
(***************************************************************************)
\* The fetcher receives a discovery and persists it, retrying until it has.
FetcherReceives ==
    /\ chan # <<>>
    /\ chan' = Tail(chan)
    /\ owed' = owed \ {Head(chan)}
    /\ UNCHANGED <<found, discovered, stats, serving, sampling, clock, todo>>

\* The fetcher and its workers write to the statistics channel too.
FetcherEmits ==
    /\ Len(stats) < StatsCap
    /\ stats' = emit_stat(Now, Uncounted).stats
    /\ UNCHANGED <<found, discovered, chan, owed, serving, sampling, clock, todo>>

PersisterReceives ==
    /\ stats # <<>>
    /\ stats' = Tail(stats)
    /\ owed' = owed \ Head(stats)
    /\ UNCHANGED <<found, discovered, chan, serving, sampling, clock, todo>>

Tick ==
    LET boundary == phase + 1 = TokenBucket
    IN  /\ phase' = IF boundary THEN 0 ELSE phase + 1
        /\ held' = [held EXCEPT !.age = IF held.token.ours /\ @ < 2 * TokenBucket THEN @ + 1 ELSE @,
                                !.token.ago = IF boundary /\ @ < 2 THEN @ + 1 ELSE @]
        /\ cache' = [h \in DOMAIN cache |->
                        [i \in DOMAIN cache[h] |-> [cache[h][i] EXCEPT !.left = Down(@)]]]
        /\ newest' = [newest EXCEPT !.left = Down(@)]
        /\ eligible' = [n \in Samplers |-> Down(eligible[n])]
        /\ quiet' = [n \in Samplers |-> Down(quiet[n])]
        /\ UNCHANGED <<asked, channels, todo>>

------------------------------------------------------------------------------
(***************************************************************************)
(* The process starts with rows of an earlier run, some of which are       *)
(* resumed, and a client may hold a token of that run.                     *)
(***************************************************************************)
Init ==
    /\ cache = NoExtra
    /\ newest = [hash |-> Zero, peer |-> Zero, left |-> 0]
    /\ phase \in 0 .. TokenBucket - 1
    /\ held \in {[token |-> [ip |-> src.ip, ago |-> 0, ours |-> FALSE], age |-> 0] :
                    src \in {s \in Sources : is_public_endpoint(s)}}
    /\ eligible = [n \in Samplers |-> 0]
    /\ quiet = [n \in Samplers |-> 0]
    /\ asked = {}
    /\ todo \in {<<>>} \cup {<<[kind |-> "resume", hash |-> h]>> : h \in Hashes}
    /\ found = 0
    /\ discovered = 0
    /\ chan = <<>>
    /\ stats = <<>>
    /\ owed = {}

Next ==
    \/ \E src \in Sources : HandleQuery(src)
    \/ HandleMalformed
    \/ HandlePeers
    \/ \E n \in Samplers : HandleSamples(n) \/ LoseSamples(n)
    \/ PublishNext
    \/ SampleRandomNodes
    \/ RefreshTick
    \/ StatsTick
    \/ FetcherReceives
    \/ FetcherEmits
    \/ PersisterReceives
    \/ Tick

Spec == Init /\ [][Next]_vars

------------------------------------------------------------------------------
(***************************************************************************)
(* Properties.                                                             *)
(***************************************************************************)
\* Every variable has its type; channels and the cache are within their limits.
TypeOK ==
    /\ DOMAIN cache \subseteq Hashes \cup {Zero}
    /\ Cardinality(DOMAIN cache) <= PeerHashes
    /\ \A h \in DOMAIN cache : Len(cache[h]) <= PeersPerHash
    /\ phase \in 0 .. TokenBucket - 1
    /\ held.token \in TokenType /\ held.age \in 0 .. 2 * TokenBucket
    /\ eligible \in [Samplers -> 0 .. Larger(MinInterval, MaxInterval)]
    /\ asked \subseteq Samplers
    /\ found \in 0 .. MaxObservations
    /\ discovered \in 0 .. MaxObservations + Cardinality(Hashes)
    /\ chan \in BoundedSeq(Hashes, ChanCap)
    /\ stats \in BoundedSeq({{}} \cup {{h} : h \in Hashes \cup {Zero}}, StatsCap)
    /\ owed \subseteq Hashes

\* A hash that was heard of while the discovery channel or the statistics
\* channel had room is in torrents, or still on its way there: the event of a
\* discovery that the fetcher had no room for makes the persister write the row.
HandOff ==
    owed \subseteq Range(chan) \cup UNION Range(stats)

\* The cache holds a public endpoint at most once per hash, and not in an entry
\* without peers; what get_peers answers from it names the peer cached last, as
\* long as its time has not run out, and no peer whose time has.
ServedPeersLive ==
    /\ \A h \in DOMAIN cache :
        /\ cache[h] # <<>>
        /\ \A i, j \in DOMAIN cache[h] : cache[h][i].peer = cache[h][j].peer => i = j
    /\ \A h \in Hashes :
        LET src == CHOOSE s \in Sources : TRUE
            r == from_bytes(to_bytes(get_peers_response([info_hash |-> Bytes(h)], "tx", src).reply)).r
            served == Range(PeersIn(r))
            live == {p \in {cache[h][i] : i \in IF h \in DOMAIN cache THEN DOMAIN cache[h] ELSE {}} :
                        p.left > 0}
        IN  /\ served = {p.peer : p \in live}
            /\ response_has_shape(r, "get_peers")
            /\ Has(r, "values", "list") => served # {}
            /\ newest.hash = h /\ newest.left > 0 => newest.peer \in served

\* A client may announce with the token that it was given by this process for
\* its own address during at least the length of one bucket, and never after
\* two; nobody may with another token.
TokenContract ==
    \A src \in [ip : PublicIps, port : {1}] :
        LET does == announce_peer_response([info_hash |-> Bytes(Zero), token |-> Bytes(held.token),
                                            implied_port |-> Integer(1)], "tx", src)
            accepted == does.reply.type = "response"
            own == held.token.ours /\ held.token.ip = src.ip
        IN  /\ own /\ held.age <= TokenBucket => accepted
            /\ accepted => own /\ held.age < 2 * TokenBucket

\* A node is not asked for samples within the configured minimum of the last
\* time, nor within the interval that it demanded.
SampleQuiet ==
    \A n \in Samplers : eligible[n] >= quiet[n]

\* hashes_discovered is a counter.
DiscoveredNeverDecreases == [][discovered' >= discovered]_vars
==============================================================================
