--------------------------- MODULE DhtServerProofs ---------------------------
(***************************************************************************)
(* Proofs about DhtServer, for every set of hashes, nodes and clients, all *)
(* answers they may give, and every capacity and interval: no hash that    *)
(* was heard of while a channel had room is lost on its way to torrents,   *)
(* an announcement is accepted just when the token rule says so, no node   *)
(* is asked for samples too early, the channels and the cache keep their   *)
(* limits, and get_peers answers with the peers whose time has not run     *)
(* out, the newest of them included.                                       *)
(***************************************************************************)
EXTENDS DhtServer, SelectionProofs

(***************************************************************************)
(* The inductive invariant.                                                *)
(***************************************************************************)
\* The channels are sequences, of hashes and of sets of hashes; so are the
\* hashes which the handler in progress has yet to publish.
Channels == [chan : Seq(Ids), stats : Seq(SUBSET Ids), found : Nat, discovered : Nat]

ChannelInv ==
    /\ chan \in Seq(Ids) /\ stats \in Seq(SUBSET Ids)
    /\ found \in Nat /\ discovered \in Nat
    /\ todo \in Seq([kind : {"sample", "resume"}, hash : Ids])

\* Where the clock stands in its bucket bounds the age of a token from below
\* and from above, in the token's own bucket and in the one that follows.
TokenInv ==
    /\ phase \in 0 .. TokenBucket - 1
    /\ held \in [token : [ip : {src.ip : src \in Sources}, ago : 0 .. 2, ours : BOOLEAN],
                 age : 0 .. 2 * TokenBucket]
    /\ held.token.ours =>
         /\ held.token.ago = 0 => held.age <= phase
         /\ held.token.ago = 1 => phase < held.age /\ held.age <= phase + TokenBucket
         /\ held.token.ago = 2 => held.age > TokenBucket

\* A node that has been asked has been quiet for no longer than the minimum
\* demands, whatever interval it demanded in an earlier answer.
SamplingInv ==
    /\ eligible \in [Samplers -> Nat] /\ quiet \in [Samplers -> Nat]
    /\ asked \subseteq Samplers
    /\ \A n \in asked : quiet[n] <= MinInterval

\* The hashes, the peers and the entries that the cache may hold; an entry names a
\* peer once.
Known == Hashes \cup {Zero}
PublicAddress == [ip : PublicIps, port : 1 .. MaxPort]
Cached == [peer : PublicAddress, left : Nat]

Distinct(e) == \A i, j \in DOMAIN e : e[i].peer = e[j].peer => i = j
EntryInv(e) == e \in Seq(Cached) /\ Len(e) <= PeersPerHash /\ Distinct(e)

\* The cache is within its limits.
CacheInv(c) ==
    /\ DOMAIN c \subseteq Known /\ Cardinality(DOMAIN c) <= PeerHashes
    /\ \A h \in DOMAIN c : EntryInv(c[h]) /\ c[h] # <<>>

\* A peer with the ticks it has left is in the entry of a hash.
Holding(c, h, peer, left) == h \in DOMAIN c /\ [peer |-> peer, left |-> left] \in Range(c[h])

\* The peer that was cached last, while it has time left.
NewestInv(c, n) ==
    /\ n \in [hash : Known, peer : PublicAddress \cup {Zero}, left : Nat]
    /\ n.left > 0 => Holding(c, n.hash, n.peer, n.left)
ServingInv == CacheInv(cache) /\ NewestInv(cache, newest)

\* The channels within their capacities, and their contents: hashes, and rows of at
\* most one hash.
Short(S, n) == {s \in Seq(S) : Len(s) <= n}
Rows == {{}} \cup {{h} : h \in Known}
Fitting == [chan : Short(Hashes, ChanCap), stats : Short(Rows, StatsCap), found : Nat, discovered : Nat]
SizeInv == Now \in Fitting /\ owed \subseteq Hashes

\* What was found and what was counted, with a sequence t of observations to come: a
\* resumed hash is counted as discovered, but not as found.
Samples == [kind : {"sample"}, hash : Known]
Resuming(h) == <<[kind |-> "resume", hash |-> h]>>
Counts(t, f, d) ==
    \/ t \in Seq(Samples) /\ f + Len(t) <= MaxObservations /\ d <= f + Cardinality(Hashes)
    \/ \E h \in Hashes : /\ t = Resuming(h)
                         /\ f <= MaxObservations /\ d + 1 <= f + Cardinality(Hashes)
CountInv == Counts(todo, found, discovered)

\* No node is put off for longer than the largest interval.
RateInv == \A n \in Samplers : eligible[n] <= Larger(MinInterval, MaxInterval)

IInv ==
    /\ ChannelInv /\ HandOff
    /\ TokenInv
    /\ SamplingInv /\ SampleQuiet /\ RateInv
    /\ ServingInv
    /\ SizeInv /\ CountInv

LEMMA Capacities ==
    /\ ChanCap \in Nat \ {0} /\ StatsCap \in Nat \ {0} /\ TokenBucket \in Nat \ {0}
    /\ MinInterval \in Nat \ {0} /\ MaxInterval \in Nat
BY ServerAssumption

(***************************************************************************)
(* Publishing.                                                             *)
(***************************************************************************)
\* What a record of the channels holds of a hash.
Holds(n) == Range(n.chan) \cup UNION Range(n.stats)

LEMMA AppendRange ==
    ASSUME NEW S, NEW s \in Seq(S), NEW e \in S
    PROVE  Append(s, e) \in Seq(S) /\ Range(Append(s, e)) = Range(s) \cup {e}
<1> DEFINE t == Append(s, e)
<1>1. /\ t \in Seq(S) /\ DOMAIN s = 1 .. Len(s) /\ DOMAIN t = 1 .. Len(s) + 1 /\ Len(s) \in Nat
      /\ \A i \in 1 .. Len(s) : t[i] = s[i]
      /\ t[Len(s) + 1] = e
  OBVIOUS
<1> HIDE DEF t
<1>2. ASSUME NEW x \in Range(t) PROVE x \in Range(s) \cup {e}
  <2>1. PICK i \in 1 .. Len(s) + 1 : x = t[i]
    BY <1>1 DEF Range
  <2>2. i \in 1 .. Len(s) \/ i = Len(s) + 1
    BY <1>1
  <2> QED
    BY <1>1, <2>1, <2>2 DEF Range
<1>3. ASSUME NEW x \in Range(s) PROVE x \in Range(t)
  <2>1. PICK i \in 1 .. Len(s) : x = s[i]
    BY <1>1 DEF Range
  <2>2. i \in DOMAIN t
    BY <1>1
  <2> QED
    BY <1>1, <2>1, <2>2 DEF Range
<1>4. e \in Range(t)
  <2>1. Len(s) + 1 \in DOMAIN t
    BY <1>1
  <2> QED
    BY <1>1, <2>1 DEF Range
<1> QED
  BY <1>1, <1>2, <1>3, <1>4 DEF t

LEMMA PreviousIndex ==
    \A k \in Nat : \A i \in 1 .. k :
        i = 1 \/ (i - 1 \in 1 .. k - 1 /\ (i - 1) + 1 = i)
OBVIOUS

LEMMA TailRange ==
    ASSUME NEW S, NEW s \in Seq(S), s # <<>>
    PROVE  /\ Tail(s) \in Seq(S) /\ Head(s) \in S
           /\ Range(s) \subseteq {Head(s)} \cup Range(Tail(s))
<1>1. Tail(s) \in Seq(S) /\ Head(s) \in S /\ Len(s) \in Nat
  OBVIOUS
<1>2. ASSUME NEW k \in Nat, k = Len(s), NEW i \in 1 .. k, i # 1
      PROVE  s[i] \in Range(Tail(s))
  <2>1. i - 1 \in 1 .. k - 1 /\ (i - 1) + 1 = i
    BY <1>2, PreviousIndex
  <2>2. \A j \in 1 .. k - 1 : j \in DOMAIN Tail(s) /\ Tail(s)[j] = s[j + 1]
    BY <1>1, <1>2
  <2>3. i - 1 \in DOMAIN Tail(s) /\ Tail(s)[i - 1] = s[i]
    BY <2>1, <2>2
  <2> QED
    BY <2>3 DEF Range
<1> QED
  BY <1>1, <1>2 DEF Range

LEMMA RowsAreHashes ==
    ASSUME NEW h \in Ids, NEW a \in BOOLEAN, NEW k \in Nat
    PROVE  /\ persist_runtime_batch(HashObserved(h, a)) = IF a THEN {} ELSE {h}
           /\ persist_runtime_batch(SampleObserved(h)) = {h}
           /\ persist_runtime_batch(DhtSnapshot(k)) = {}
           /\ persist_runtime_batch(Uncounted) = {}
           /\ \A d \in Nat : /\ apply(d, HashObserved(h, a)) = d + 1
                             /\ apply(d, SampleObserved(h)) = d
                             /\ apply(d, DhtSnapshot(k)) = k
                             /\ apply(d, Uncounted) = d
BY DEF persist_runtime_batch, apply, HashObserved, SampleObserved, DhtSnapshot, Uncounted

\* The channels with other statistics.
WithStats(n, d, s) == [n EXCEPT !.discovered = d, !.stats = s]

LEMMA ExceptStats ==
    ASSUME NEW n \in Channels, NEW d \in Nat, NEW s \in Seq(SUBSET Ids)
    PROVE  /\ WithStats(n, d, s) \in Channels
           /\ WithStats(n, d, s).chan = n.chan /\ WithStats(n, d, s).stats = s
           /\ WithStats(n, d, s).found = n.found
BY DEF Channels, WithStats

\* emit_stat puts the event's row into the statistics channel if there is room,
\* and loses none that is there.
LEMMA EmitStat ==
    ASSUME NEW n \in Channels, NEW event,
           \A d \in Nat : apply(d, event) \in Nat, persist_runtime_batch(event) \in SUBSET Ids
    PROVE  /\ emit_stat(n, event) \in Channels
           /\ emit_stat(n, event).chan = n.chan
           /\ Len(n.stats) < StatsCap =>
                emit_stat(n, event).stats = Append(n.stats, persist_runtime_batch(event))
           /\ Len(n.stats) >= StatsCap => emit_stat(n, event).stats = n.stats
           /\ Holds(n) \subseteq Holds(emit_stat(n, event))
           /\ Len(n.stats) < StatsCap =>
                persist_runtime_batch(event) \subseteq Holds(emit_stat(n, event))
<1> DEFINE row == persist_runtime_batch(event)
           total == apply(n.discovered, event)
           sent == IF Len(n.stats) < StatsCap THEN Append(n.stats, row) ELSE n.stats
           m == WithStats(n, total, sent)
<1>1. emit_stat(n, event) = m
  BY DEF emit_stat, WithStats
<1>2. n.stats \in Seq(SUBSET Ids) /\ Len(n.stats) \in Nat /\ row \in SUBSET Ids /\ StatsCap \in Nat
  <2>1. n.stats \in Seq(SUBSET Ids)
    BY DEF Channels
  <2>2. StatsCap \in Nat
    BY Capacities
  <2> HIDE DEF row
  <2>3. Len(n.stats) \in Nat
    BY <2>1
  <2> QED
    BY <2>1, <2>2, <2>3 DEF row
<1>3. sent \in Seq(SUBSET Ids) /\ total \in Nat
  <2>1. total \in Nat
    BY DEF Channels
  <2> HIDE DEF row
  <2>2. sent \in Seq(SUBSET Ids)
    BY <1>2
  <2> QED
    BY <2>1, <2>2
<1>4. /\ Range(n.stats) \subseteq Range(sent)
      /\ Len(n.stats) < StatsCap => row \in Range(sent)
  <2>1. Append(n.stats, row) \in Seq(SUBSET Ids) /\ Range(Append(n.stats, row)) = Range(n.stats) \cup {row}
    BY <1>2, AppendRange
  <2> QED
    BY <2>1
<1>5. /\ Len(n.stats) < StatsCap => sent = Append(n.stats, row)
      /\ Len(n.stats) >= StatsCap => sent = n.stats
  <2>1. Len(n.stats) >= StatsCap => ~(Len(n.stats) < StatsCap)
    BY <1>2
  <2> QED
    BY <2>1, Zenon
<1> HIDE DEF row, total, sent
<1>6. m \in Channels /\ m.chan = n.chan /\ m.stats = sent
  <2>1. total \in Nat /\ sent \in Seq(SUBSET Ids) /\ n \in Channels
    BY <1>3
  <2> QED
    BY <2>1, ExceptStats
<1>7. UNION Range(n.stats) \subseteq UNION Range(m.stats)
  BY <1>4, <1>6
<1>8. Len(n.stats) < StatsCap => row \subseteq UNION Range(m.stats)
  BY <1>4, <1>6
<1> HIDE DEF m
<1> QED
  BY <1>1, <1>5, <1>6, <1>7, <1>8 DEF Holds, row


\* The events, one by one.
LEMMA EmitEvents ==
    ASSUME NEW n \in Channels, NEW h \in Ids, NEW a \in BOOLEAN, NEW k \in Nat,
           NEW event \in {HashObserved(h, a), SampleObserved(h), DhtSnapshot(k), Uncounted}
    PROVE  /\ emit_stat(n, event) \in Channels
           /\ emit_stat(n, event).chan = n.chan
           /\ Len(n.stats) < StatsCap =>
                emit_stat(n, event).stats = Append(n.stats, persist_runtime_batch(event))
           /\ Len(n.stats) >= StatsCap => emit_stat(n, event).stats = n.stats
           /\ Holds(n) \subseteq Holds(emit_stat(n, event))
           /\ Len(n.stats) < StatsCap =>
                persist_runtime_batch(event) \subseteq Holds(emit_stat(n, event))
<1>1. \A d \in Nat : apply(d, event) \in Nat
  BY RowsAreHashes
<1>2. persist_runtime_batch(event) \in SUBSET Ids
  BY RowsAreHashes
<1> QED
  BY <1>1, <1>2, EmitStat

\* An event without a row.
LEMMA EmitUncounted ==
    ASSUME NEW n \in Channels
    PROVE  /\ emit_stat(n, Uncounted) \in Channels
           /\ emit_stat(n, Uncounted).chan = n.chan
           /\ Holds(n) \subseteq Holds(emit_stat(n, Uncounted))
           /\ Len(n.stats) < StatsCap => emit_stat(n, Uncounted).stats = Append(n.stats, {})
<1>1. Zero \in Ids /\ TRUE \in BOOLEAN /\ 0 \in Nat
  BY ServerAssumption
<1>2. persist_runtime_batch(Uncounted) = {}
  BY <1>1, RowsAreHashes
<1> QED
  BY <1>1, <1>2, EmitEvents

WithChan(n, c) == [n EXCEPT !.chan = c]

LEMMA ExceptChan ==
    ASSUME NEW n \in Channels, NEW c \in Seq(Ids)
    PROVE  /\ WithChan(n, c) \in Channels
           /\ WithChan(n, c).chan = c /\ WithChan(n, c).stats = n.stats
BY DEF Channels, WithChan

WithFound(n, f) == [n EXCEPT !.found = f]

LEMMA ExceptFound ==
    ASSUME NEW n \in Channels, NEW f \in Nat
    PROVE  /\ WithFound(n, f) \in Channels
           /\ WithFound(n, f).chan = n.chan /\ WithFound(n, f).stats = n.stats
BY DEF Channels, WithFound

HasRoom(n) == Len(n.chan) < ChanCap \/ Len(n.stats) < StatsCap

\* A hash that is offered while there is room somewhere is in a channel
\* afterwards, and nothing that was in one is lost.
LEMMA Enqueue ==
    ASSUME NEW n \in Channels, NEW h \in Ids
    PROVE  /\ enqueue_discovery(n, h) \in Channels
           /\ Holds(n) \subseteq Holds(enqueue_discovery(n, h))
           /\ HasRoom(n) => h \in Holds(enqueue_discovery(n, h))
<1> DEFINE accepted == Len(n.chan) < ChanCap
           c == IF accepted THEN Append(n.chan, h) ELSE n.chan
           sent == WithChan(n, c)
           observed == emit_stat(sent, HashObserved(h, accepted))
           told == emit_stat(observed, Uncounted)
           m == enqueue_discovery(n, h)
<1>1. m = IF accepted THEN observed ELSE told
  BY DEF enqueue_discovery, WithChan
<1>2. n.chan \in Seq(Ids) /\ n.stats \in Seq(SUBSET Ids) /\ accepted \in BOOLEAN
  BY DEF Channels
<1>3. Append(n.chan, h) \in Seq(Ids) /\ Range(Append(n.chan, h)) = Range(n.chan) \cup {h}
  BY <1>2, AppendRange
<1>4. /\ c \in Seq(Ids) /\ Range(n.chan) \subseteq Range(c)
      /\ accepted => h \in Range(c)
  BY <1>2, <1>3, Zenon
<1> HIDE DEF accepted, c
<1>5. /\ sent \in Channels /\ sent.stats = n.stats
      /\ Holds(n) \subseteq Holds(sent)
      /\ accepted => h \in Holds(sent)
  <2>1. sent \in Channels /\ sent.stats = n.stats /\ sent.chan = c
    BY <1>4, ExceptChan
  <2> HIDE DEF sent
  <2> QED
    BY <1>4, <2>1 DEF Holds
<1> HIDE DEF sent
<1>6. /\ observed \in Channels
      /\ Holds(sent) \subseteq Holds(observed)
      /\ Len(n.stats) < StatsCap =>
            persist_runtime_batch(HashObserved(h, accepted)) \subseteq Holds(observed)
  <2>1. 0 \in Nat
    OBVIOUS
  <2>2. Len(sent.stats) < StatsCap <=> Len(n.stats) < StatsCap
    BY <1>5
  <2> QED
    BY <1>2, <1>5, <2>1, <2>2, EmitEvents
<1>7. ~accepted => persist_runtime_batch(HashObserved(h, accepted)) = {h}
  BY <1>2, RowsAreHashes
<1> HIDE DEF observed
<1>8. told \in Channels /\ Holds(observed) \subseteq Holds(told)
  BY <1>6, EmitUncounted
<1> HIDE DEF told, m
<1>9. HasRoom(n) => accepted \/ Len(n.stats) < StatsCap
  BY DEF HasRoom, accepted
<1>10. CASE accepted
  <2>1. m = observed
    BY <1>1, <1>10
  <2> QED
    BY <1>5, <1>6, <1>10, <2>1 DEF m
<1>11. CASE ~accepted
  <2>1. m = told
    BY <1>1, <1>11
  <2> QED
    BY <1>5, <1>6, <1>7, <1>8, <1>9, <1>11, <2>1 DEF m
<1> QED
  BY <1>10, <1>11

\* Publishing a hash that is not the zero hash.
LEMMA Publish ==
    ASSUME NEW n \in Channels, NEW h \in Ids
    PROVE  /\ publish_discovery(n, h) \in Channels
           /\ Holds(n) \subseteq Holds(publish_discovery(n, h))
           /\ HasRoom(n) /\ h # Zero => h \in Holds(publish_discovery(n, h))
<1>1. CASE h = Zero
  BY <1>1 DEF publish_discovery
<1>2. CASE h # Zero
  <2> DEFINE f == n.found + 1
             k == WithFound(n, f)
  <2>1. publish_discovery(n, h) = enqueue_discovery(k, h)
    BY <1>2 DEF publish_discovery, WithFound
  <2>2. f \in Nat
    BY DEF Channels
  <2> HIDE DEF f
  <2>3. k \in Channels /\ k.chan = n.chan /\ k.stats = n.stats
    BY <2>2, ExceptFound
  <2> HIDE DEF k
  <2>4. Holds(k) = Holds(n) /\ (HasRoom(n) => HasRoom(k))
    BY <2>3 DEF Holds, HasRoom
  <2> QED
    BY <2>1, <2>3, <2>4, Enqueue
<1> QED
  BY <1>1, <1>2


(***************************************************************************)
(* Steps, as the channels see them.                                        *)
(***************************************************************************)
LEMMA NowChannels ==
    ASSUME ChannelInv
    PROVE  Now \in Channels /\ Holds(Now) = Range(chan) \cup UNION Range(stats)
BY DEF ChannelInv, Now, Channels, Holds

\* The part of ChannelInv that a step of the channels has to keep.
LEMMA LeaveKeeps ==
    ASSUME ChannelInv, HandOff, NEW m \in Channels, Holds(Now) \subseteq Holds(m), Leave(m),
           owed' \subseteq owed \cup Holds(m)
    PROVE  /\ chan' \in Seq(Ids) /\ stats' \in Seq(SUBSET Ids)
           /\ found' \in Nat /\ discovered' \in Nat
           /\ HandOff'
<1>1. m.chan \in Seq(Ids) /\ m.stats \in Seq(SUBSET Ids) /\ m.found \in Nat /\ m.discovered \in Nat
  BY DEF Channels
<1>2. owed \subseteq Holds(m)
  BY NowChannels DEF HandOff
<1>3. owed' \subseteq Holds(m)
  BY <1>2
<1>4. Holds(m) = Range(chan') \cup UNION Range(stats')
  BY DEF Holds, Leave
<1>5. HandOff'
  BY <1>3, <1>4 DEF HandOff
<1> QED
  BY <1>1, <1>5 DEF Leave

\* A step that publishes what it hears of.
LEMMA HearKeeps ==
    ASSUME ChannelInv, HandOff, NEW n \in Channels, Holds(Now) \subseteq Holds(n),
           NEW h \in Ids, NEW m \in Channels, Holds(n) \subseteq Holds(m),
           HasRoom(n) /\ h # Zero => h \in Holds(m), Leave(m), Hear(n, h)
    PROVE  /\ chan' \in Seq(Ids) /\ stats' \in Seq(SUBSET Ids)
           /\ found' \in Nat /\ discovered' \in Nat
           /\ HandOff'
<1>1. owed' \subseteq owed \cup Holds(m)
  BY DEF Hear, HasRoom
<1>2. Holds(Now) \subseteq Holds(m)
  OBVIOUS
<1> QED
  BY <1>1, <1>2, LeaveKeeps

LEMMA EmitKeeps ==
    ASSUME ChannelInv, HandOff, NEW m \in Channels, Holds(Now) \subseteq Holds(m), Emit(m)
    PROVE  /\ chan' \in Seq(Ids) /\ stats' \in Seq(SUBSET Ids)
           /\ found' \in Nat /\ discovered' \in Nat
           /\ HandOff'
<1>1. Leave(m) /\ owed' \subseteq owed \cup Holds(m)
  BY DEF Emit
<1> QED
  BY <1>1, LeaveKeeps

\* Two events before the handler looks at an answer.
LEMMA SeenKeeps ==
    ASSUME ChannelInv
    PROVE  LET seen == emit_stat(emit_stat(Now, Uncounted), Uncounted)
           IN  /\ seen \in Channels /\ Holds(Now) \subseteq Holds(seen)
               /\ emit_stat(seen, Uncounted) \in Channels
               /\ Holds(Now) \subseteq Holds(emit_stat(seen, Uncounted))
<1> DEFINE one == emit_stat(Now, Uncounted)
           two == emit_stat(one, Uncounted)
           three == emit_stat(two, Uncounted)
<1>1. one \in Channels /\ Holds(Now) \subseteq Holds(one)
  BY NowChannels, EmitUncounted
<1> HIDE DEF one
<1>2. two \in Channels /\ Holds(one) \subseteq Holds(two)
  BY <1>1, EmitUncounted
<1> HIDE DEF two
<1>3. three \in Channels /\ Holds(two) \subseteq Holds(three)
  BY <1>2, EmitUncounted
<1> HIDE DEF three
<1>4. /\ two \in Channels /\ Holds(Now) \subseteq Holds(two)
      /\ three \in Channels /\ Holds(Now) \subseteq Holds(three)
  BY <1>1, <1>2, <1>3
<1> QED
  BY <1>4 DEF one, two, three

\* The hash a query makes the crawler publish is one.
LEMMA QueryHash ==
    ASSUME NEW m, NEW src
    PROVE  handle_query(m, src).hash \in Ids
<1>1. \A reply : Says(reply).hash \in Ids
  BY ServerAssumption DEF Says
<1>2. get_peers_response(m.a, m.t, src).hash \in Ids
  BY <1>1 DEF get_peers_response, HasId, field_id
<1>3. announce_peer_response(m.a, m.t, src).hash \in Ids
  BY <1>1 DEF announce_peer_response, HasId, field_id
<1> QED
  BY <1>1, <1>2, <1>3 DEF handle_query

ChannelKept == ChannelInv' /\ HandOff'

LEMMA HandleQueryChannels ==
    ASSUME ChannelInv, HandOff, NEW src \in Sources, HandleQuery(src)
    PROVE  ChannelKept
<1>1. PICK m : /\ Leave(publish_discovery(Now, handle_query(m, src).hash))
               /\ Hear(Now, handle_query(m, src).hash)
  BY DEF HandleQuery
<1> DEFINE h == handle_query(m, src).hash
<1>2. h \in Ids
  BY QueryHash
<1> HIDE DEF h
<1>3. Leave(publish_discovery(Now, h)) /\ Hear(Now, h)
  BY <1>1 DEF h
<1>4. /\ publish_discovery(Now, h) \in Channels
      /\ Holds(Now) \subseteq Holds(publish_discovery(Now, h))
      /\ HasRoom(Now) /\ h # Zero => h \in Holds(publish_discovery(Now, h))
  BY <1>2, Publish, NowChannels
<1>5. todo' \in Seq([kind : {"sample", "resume"}, hash : Ids])
  BY DEF HandleQuery, ChannelInv
<1> QED
  BY <1>2, <1>3, <1>4, <1>5, NowChannels, HearKeeps DEF ChannelInv, ChannelKept

LEMMA HandleMalformedChannels ==
    ASSUME ChannelInv, HandOff, HandleMalformed
    PROVE  ChannelKept
<1>1. Emit(emit_stat(Now, Uncounted)) /\ UNCHANGED todo
  BY DEF HandleMalformed
<1>2. emit_stat(Now, Uncounted) \in Channels /\ Holds(Now) \subseteq Holds(emit_stat(Now, Uncounted))
  BY NowChannels, EmitUncounted
<1> QED
  BY <1>1, <1>2, EmitKeeps DEF ChannelInv, ChannelKept

LEMMA HandlePeersChannels ==
    ASSUME ChannelInv, HandOff, HandlePeers
    PROVE  ChannelKept
<1> DEFINE seen == emit_stat(emit_stat(Now, Uncounted), Uncounted)
<1>1. seen \in Channels /\ Holds(Now) \subseteq Holds(seen)
  BY SeenKeeps
<1>2. PICK h \in Hashes : \/ Leave(publish_discovery(seen, h)) /\ Hear(seen, h)
                          \/ Emit(seen)
  BY DEF HandlePeers
<1>3. UNCHANGED todo /\ h \in Ids
  BY ServerAssumption DEF HandlePeers
<1> HIDE DEF seen
<1>4. /\ publish_discovery(seen, h) \in Channels
      /\ Holds(seen) \subseteq Holds(publish_discovery(seen, h))
      /\ HasRoom(seen) /\ h # Zero => h \in Holds(publish_discovery(seen, h))
  BY <1>1, <1>3, Publish
<1>5. CASE Leave(publish_discovery(seen, h)) /\ Hear(seen, h)
  BY <1>1, <1>3, <1>4, <1>5, HearKeeps DEF ChannelInv, ChannelKept
<1>6. CASE Emit(seen)
  BY <1>1, <1>3, <1>6, EmitKeeps DEF ChannelInv, ChannelKept
<1> QED
  BY <1>2, <1>5, <1>6

LEMMA HandleSamplesChannels ==
    ASSUME ChannelInv, HandOff, NEW n \in Samplers, HandleSamples(n)
    PROVE  ChannelKept
<1> DEFINE seen == emit_stat(emit_stat(Now, Uncounted), Uncounted)
           more == emit_stat(seen, Uncounted)
<1>1. /\ seen \in Channels /\ Holds(Now) \subseteq Holds(seen)
      /\ more \in Channels /\ Holds(Now) \subseteq Holds(more)
  BY SeenKeeps
<1>2. PICK r \in SampleAnswers :
         /\ response_has_shape(r, "sample_infohashes")
         /\ \/ /\ todo' = [i \in DOMAIN r["samples"][2].entries |->
                              [kind |-> "sample", hash |-> r["samples"][2].entries[i]]]
               /\ Emit(more) \/ Emit(seen)
            \/ Emit(more) /\ UNCHANGED todo
  BY DEF HandleSamples
<1> HIDE DEF seen, more
<1>3. Emit(more) \/ Emit(seen)
  BY <1>2
<1>4. /\ chan' \in Seq(Ids) /\ stats' \in Seq(SUBSET Ids)
      /\ found' \in Nat /\ discovered' \in Nat
      /\ HandOff'
  BY <1>1, <1>3, EmitKeeps
<1>5. todo' \in Seq([kind : {"sample", "resume"}, hash : Ids])
  <2>1. r["samples"][2].entries \in Seq(Ids)
    <3>1. Has(r, "samples", "bytes")
      BY <1>2 DEF response_has_shape
    <3>2. r["samples"][2].entries \in Seq(Hashes \cup {Zero}) /\ Hashes \cup {Zero} \subseteq Ids
      BY <3>1, ServerAssumption
    <3> QED
      BY <3>2
  <2> DEFINE samples == r["samples"][2].entries
             new == [i \in DOMAIN samples |-> [kind |-> "sample", hash |-> samples[i]]]
  <2>2. DOMAIN samples = 1 .. Len(samples) /\ Len(samples) \in Nat
        /\ \A i \in 1 .. Len(samples) : samples[i] \in Ids
    BY <2>1
  <2>3. todo' = new \/ todo' = todo
    BY <1>2
  <2> HIDE DEF samples
  <2>4. new \in Seq([kind : {"sample", "resume"}, hash : Ids])
    BY <2>2
  <2> QED
    BY <2>3, <2>4 DEF ChannelInv
<1> QED
  BY <1>4, <1>5 DEF ChannelInv, ChannelKept

LEMMA LoseSamplesChannels ==
    ASSUME ChannelInv, HandOff, NEW n \in Samplers, LoseSamples(n)
    PROVE  ChannelKept
<1>1. Emit(emit_stat(Now, Uncounted)) /\ UNCHANGED todo
  BY DEF LoseSamples
<1>2. emit_stat(Now, Uncounted) \in Channels /\ Holds(Now) \subseteq Holds(emit_stat(Now, Uncounted))
  BY NowChannels, EmitUncounted
<1> QED
  BY <1>1, <1>2, EmitKeeps DEF ChannelInv, ChannelKept


LEMMA PublishNextChannels ==
    ASSUME ChannelInv, HandOff, PublishNext
    PROVE  ChannelKept
<1> DEFINE Entry == [kind : {"sample", "resume"}, hash : Ids]
           h == Head(todo).hash
           published == publish_discovery(Now, h)
           sampled == emit_stat(published, SampleObserved(h))
           last == emit_stat(sampled, Uncounted)
           offered == enqueue_discovery(Now, h)
<1>1. todo \in Seq(Entry) /\ todo # <<>>
  BY DEF ChannelInv, PublishNext
<1> HIDE DEF Entry
<1>2. Tail(todo) \in Seq(Entry) /\ Head(todo) \in Entry
  BY <1>1, TailRange
<1>3. h \in Ids
  BY <1>2 DEF Entry
<1>4. /\ Leave(offered) \/ Leave(last) \/ Leave(sampled)
      /\ Hear(Now, h) /\ todo' = Tail(todo)
  BY DEF PublishNext
<1> HIDE DEF h
<1>5. /\ offered \in Channels /\ Holds(Now) \subseteq Holds(offered)
      /\ HasRoom(Now) => h \in Holds(offered)
  BY <1>3, NowChannels, Enqueue
<1>6. /\ published \in Channels /\ Holds(Now) \subseteq Holds(published)
      /\ HasRoom(Now) /\ h # Zero => h \in Holds(published)
  BY <1>3, NowChannels, Publish
<1> HIDE DEF published, offered
<1>7. sampled \in Channels /\ Holds(published) \subseteq Holds(sampled)
  <2>1. TRUE \in BOOLEAN /\ 0 \in Nat
    OBVIOUS
  <2> QED
    BY <1>3, <1>6, <2>1, EmitEvents
<1> HIDE DEF sampled
<1>8. last \in Channels /\ Holds(sampled) \subseteq Holds(last)
  BY <1>7, EmitUncounted
<1> HIDE DEF last
<1>9. PICK m \in {offered, last, sampled} : Leave(m)
  BY <1>4
<1>10. /\ m \in Channels /\ Holds(Now) \subseteq Holds(m)
       /\ HasRoom(Now) /\ h # Zero => h \in Holds(m)
  BY <1>5, <1>6, <1>7, <1>8, <1>9
<1>11. /\ chan' \in Seq(Ids) /\ stats' \in Seq(SUBSET Ids)
       /\ found' \in Nat /\ discovered' \in Nat
       /\ HandOff'
  BY <1>3, <1>4, <1>9, <1>10, NowChannels, HearKeeps
<1> QED
  BY <1>2, <1>4, <1>11 DEF ChannelInv, ChannelKept, Entry

LEMMA StatsTickChannels ==
    ASSUME ChannelInv, HandOff, StatsTick
    PROVE  ChannelKept
<1> DEFINE m == emit_stat(Now, DhtSnapshot(found))
<1>1. Emit(m) /\ UNCHANGED todo
  BY DEF StatsTick
<1>2. m \in Channels /\ Holds(Now) \subseteq Holds(m)
  <2>1. Zero \in Ids /\ TRUE \in BOOLEAN /\ found \in Nat
    BY ServerAssumption DEF ChannelInv
  <2> QED
    BY <2>1, NowChannels, EmitEvents
<1> HIDE DEF m
<1> QED
  BY <1>1, <1>2, EmitKeeps DEF ChannelInv, ChannelKept

LEMMA FetcherReceivesChannels ==
    ASSUME ChannelInv, HandOff, FetcherReceives
    PROVE  ChannelKept
<1>1. /\ chan \in Seq(Ids) /\ chan # <<>>
      /\ chan' = Tail(chan) /\ owed' = owed \ {Head(chan)}
      /\ UNCHANGED <<found, discovered, stats, todo>>
  BY DEF ChannelInv, FetcherReceives
<1>2. Tail(chan) \in Seq(Ids) /\ Range(chan) \subseteq {Head(chan)} \cup Range(Tail(chan))
  BY <1>1, TailRange
<1>3. owed' \subseteq Range(Tail(chan)) \cup UNION Range(stats)
  BY <1>1, <1>2 DEF HandOff
<1>4. HandOff'
  BY <1>1, <1>3 DEF HandOff
<1> QED
  BY <1>1, <1>2, <1>4 DEF ChannelInv, ChannelKept

LEMMA FetcherEmitsChannels ==
    ASSUME ChannelInv, HandOff, FetcherEmits
    PROVE  ChannelKept
<1> DEFINE m == emit_stat(Now, Uncounted)
<1>1. stats' = m.stats /\ UNCHANGED <<found, discovered, chan, owed, todo>>
  BY DEF FetcherEmits
<1>2. m \in Channels /\ m.chan = Now.chan /\ Holds(Now) \subseteq Holds(m)
  BY NowChannels, EmitUncounted
<1>3. Now.chan = chan /\ m.stats \in Seq(SUBSET Ids)
  BY <1>2 DEF Now, Channels
<1> HIDE DEF m
<1>4. Holds(m) = Range(chan') \cup UNION Range(stats')
  BY <1>1, <1>2, <1>3 DEF Holds
<1>5. HandOff'
  BY <1>1, <1>2, <1>4, NowChannels DEF HandOff
<1> QED
  BY <1>1, <1>3, <1>5 DEF ChannelInv, ChannelKept

LEMMA PersisterReceivesChannels ==
    ASSUME ChannelInv, HandOff, PersisterReceives
    PROVE  ChannelKept
<1>1. /\ stats \in Seq(SUBSET Ids) /\ stats # <<>>
      /\ stats' = Tail(stats) /\ owed' = owed \ Head(stats)
      /\ UNCHANGED <<found, discovered, chan, todo>>
  BY DEF ChannelInv, PersisterReceives
<1>2. Tail(stats) \in Seq(SUBSET Ids) /\ Range(stats) \subseteq {Head(stats)} \cup Range(Tail(stats))
  BY <1>1, TailRange
<1>3. owed' \subseteq Range(chan) \cup UNION Range(Tail(stats))
  BY <1>1, <1>2 DEF HandOff
<1>4. HandOff'
  BY <1>1, <1>3 DEF HandOff
<1> QED
  BY <1>1, <1>2, <1>4 DEF ChannelInv, ChannelKept

LEMMA QuietChannels ==
    ASSUME ChannelInv, HandOff, UNCHANGED channels, UNCHANGED todo
    PROVE  ChannelKept
BY DEF channels, ChannelInv, HandOff, ChannelKept

LEMMA ChannelsNext ==
    ASSUME ChannelInv, HandOff, [Next]_vars
    PROVE  ChannelKept
<1>1. ASSUME NEW src \in Sources, HandleQuery(src) PROVE ChannelKept
  BY <1>1, HandleQueryChannels
<1>2. CASE HandleMalformed
  BY <1>2, HandleMalformedChannels
<1>3. CASE HandlePeers
  BY <1>3, HandlePeersChannels
<1>4. ASSUME NEW n \in Samplers, HandleSamples(n) PROVE ChannelKept
  BY <1>4, HandleSamplesChannels
<1>5. ASSUME NEW n \in Samplers, LoseSamples(n) PROVE ChannelKept
  BY <1>5, LoseSamplesChannels
<1>6. CASE PublishNext
  BY <1>6, PublishNextChannels
<1>7. CASE StatsTick
  BY <1>7, StatsTickChannels
<1>8. CASE FetcherReceives
  BY <1>8, FetcherReceivesChannels
<1>9. CASE FetcherEmits
  BY <1>9, FetcherEmitsChannels
<1>10. CASE PersisterReceives
  BY <1>10, PersisterReceivesChannels
<1>11. CASE SampleRandomNodes \/ RefreshTick \/ Tick \/ UNCHANGED vars
  <2>1. UNCHANGED channels /\ UNCHANGED todo
    BY <1>11 DEF SampleRandomNodes, RefreshTick, Tick, vars
  <2> QED
    BY <2>1, QuietChannels
<1> QED
  BY <1>1, <1>2, <1>3, <1>4, <1>5, <1>6, <1>7, <1>8, <1>9, <1>10, <1>11 DEF Next

(***************************************************************************)
(* Sampling.                                                               *)
(***************************************************************************)
SamplingKept == SamplingInv' /\ SampleQuiet'

LEMMA LargerFacts ==
    ASSUME NEW a \in Nat, NEW b \in Nat
    PROVE  Larger(a, b) \in Nat /\ a <= Larger(a, b) /\ b <= Larger(a, b)
           /\ \A c \in Nat : a <= c /\ b <= c => Larger(a, b) <= c
BY DEF Larger

LEMMA DownFacts ==
    /\ \A a \in Nat : Down(a) \in Nat /\ Down(a) <= a
    /\ \A a, b \in Nat : a <= b => Down(a) <= Down(b)
BY DEF Down

LEMMA HandleSamplesSampling ==
    ASSUME SamplingInv, SampleQuiet, NEW n \in Samplers, HandleSamples(n)
    PROVE  SamplingKept
<1>1. PICK r \in SampleAnswers :
         /\ asked' = asked \ {n} /\ n \in asked
         /\ \/ /\ SampleIsValid(r, MaxInterval, MaxSamples)
               /\ eligible' = Rescheduled(n, r["interval"][2])
               /\ quiet' = [quiet EXCEPT ![n] = Larger(@, r["interval"][2])]
            \/ UNCHANGED <<eligible, quiet>>
  BY DEF HandleSamples
<1>2. CASE UNCHANGED <<eligible, quiet>>
  BY <1>1, <1>2 DEF SamplingInv, SampleQuiet, SamplingKept
<1>3. CASE /\ SampleIsValid(r, MaxInterval, MaxSamples)
           /\ eligible' = Rescheduled(n, r["interval"][2])
           /\ quiet' = [quiet EXCEPT ![n] = Larger(@, r["interval"][2])]
  <2> DEFINE interval == r["interval"][2]
             e == Larger(interval, MinInterval)
             q == Larger(quiet[n], interval)
  <2>1. interval \in Nat /\ MinInterval \in Nat /\ quiet[n] \in Nat /\ quiet[n] <= MinInterval
    BY <1>1, <1>3, Capacities DEF SampleIsValid, SamplingInv
  <2>2. eligible' = [eligible EXCEPT ![n] = e] /\ quiet' = [quiet EXCEPT ![n] = q]
    BY <1>3 DEF Rescheduled
  <2> HIDE DEF interval
  <2>3. e \in Nat /\ q \in Nat /\ q <= e
    <3>1. e \in Nat /\ interval <= e /\ MinInterval <= e
      BY <2>1, LargerFacts
    <3>2. quiet[n] <= e
      BY <2>1, <3>1
    <3> QED
      BY <2>1, <3>1, <3>2, LargerFacts
  <2> HIDE DEF e, q
  <2>4. /\ eligible' \in [Samplers -> Nat] /\ quiet' \in [Samplers -> Nat]
        /\ eligible'[n] = e /\ quiet'[n] = q
        /\ \A k \in Samplers \ {n} : eligible'[k] = eligible[k] /\ quiet'[k] = quiet[k]
    BY <2>2, <2>3 DEF SamplingInv
  <2>5. SampleQuiet'
    BY <2>3, <2>4 DEF SampleQuiet
  <2>6. SamplingInv'
    BY <1>1, <2>4 DEF SamplingInv
  <2> QED
    BY <2>5, <2>6 DEF SamplingKept
<1> QED
  BY <1>1, <1>2, <1>3

LEMMA SampleRandomNodesSampling ==
    ASSUME SamplingInv, SampleQuiet, SampleRandomNodes
    PROVE  SamplingKept
<1>1. PICK chosen \in SUBSET Samplers :
         /\ \E sent \in SUBSET chosen : asked' = asked \cup sent
         /\ eligible' = [n \in Samplers |-> IF n \in chosen THEN MinInterval ELSE eligible[n]]
         /\ quiet' = [n \in Samplers |-> IF n \in chosen THEN MinInterval ELSE quiet[n]]
  BY DEF SampleRandomNodes
<1>2. MinInterval \in Nat
  BY Capacities
<1>3. SampleQuiet'
  BY <1>1, <1>2 DEF SampleQuiet
<1>4. SamplingInv'
  BY <1>1, <1>2 DEF SamplingInv
<1> QED
  BY <1>3, <1>4 DEF SamplingKept

LEMMA TickSampling ==
    ASSUME SamplingInv, SampleQuiet, Tick
    PROVE  SamplingKept
<1>1. /\ eligible' = [n \in Samplers |-> Down(eligible[n])]
      /\ quiet' = [n \in Samplers |-> Down(quiet[n])]
      /\ asked' = asked
  BY DEF Tick
<1>2. \A n \in Samplers : eligible[n] \in Nat /\ quiet[n] \in Nat /\ quiet[n] <= eligible[n]
  BY DEF SamplingInv, SampleQuiet
<1>3. /\ eligible' \in [Samplers -> Nat] /\ quiet' \in [Samplers -> Nat]
      /\ \A n \in Samplers : quiet'[n] <= eligible'[n] /\ quiet'[n] <= quiet[n]
  BY <1>1, <1>2, DownFacts
<1>4. SampleQuiet'
  BY <1>3 DEF SampleQuiet
<1>5. ASSUME NEW n \in asked' PROVE quiet'[n] <= MinInterval
  <2>1. n \in Samplers /\ quiet[n] <= MinInterval /\ quiet'[n] \in Nat /\ quiet[n] \in Nat
        /\ quiet'[n] <= quiet[n] /\ MinInterval \in Nat
    BY <1>1, <1>3, <1>5, Capacities DEF SamplingInv
  <2> QED
    BY <2>1
<1>6. SamplingInv'
  BY <1>1, <1>3, <1>5 DEF SamplingInv
<1> QED
  BY <1>4, <1>6 DEF SamplingKept

LEMMA SamplingNext ==
    ASSUME SamplingInv, SampleQuiet, [Next]_vars
    PROVE  SamplingKept
<1>1. ASSUME NEW n \in Samplers, HandleSamples(n) PROVE SamplingKept
  BY <1>1, HandleSamplesSampling
<1>2. ASSUME NEW n \in Samplers, LoseSamples(n) PROVE SamplingKept
  <2>1. asked' = asked \ {n} /\ UNCHANGED <<eligible, quiet>>
    BY <1>2 DEF LoseSamples
  <2> QED
    BY <2>1 DEF SamplingInv, SampleQuiet, SamplingKept
<1>3. CASE SampleRandomNodes
  BY <1>3, SampleRandomNodesSampling
<1>4. CASE Tick
  BY <1>4, TickSampling
<1>5. CASE UNCHANGED sampling
  BY <1>5 DEF sampling, SamplingInv, SampleQuiet, SamplingKept
<1>6. \/ UNCHANGED sampling
      \/ SampleRandomNodes \/ Tick
      \/ \E n \in Samplers : HandleSamples(n) \/ LoseSamples(n)
  BY DEF Next, vars, HandleQuery, HandleMalformed, HandlePeers, PublishNext, RefreshTick,
         StatsTick, FetcherReceives, FetcherEmits, PersisterReceives
<1> QED
  BY <1>1, <1>2, <1>3, <1>4, <1>5, <1>6


(***************************************************************************)
(* Tokens.                                                                 *)
(***************************************************************************)
\* What a reply may hold: a response with no token, or with the one made for
\* the address of the client, or an error.
MayTell(reply, ip) ==
    \/ \E t, values : /\ reply = response_message(OurId, t, values)
                      /\ "token" \in DOMAIN values => values["token"] = Bytes(make_token(ip))
    \/ \E t, text : reply = error_message(t, text)

LEMMA WithToken ==
    ASSUME NEW d, NEW v
    PROVE  With(d, [token |-> v])["token"] = v
BY DEF With

LEMMA TellNoToken ==
    ASSUME NEW ip, NEW t
    PROVE  /\ MayTell(response_message(OurId, t, NoExtra), ip)
           /\ MayTell(response_message(OurId, t, closest_nodes), ip)
           /\ MayTell(response_message(OurId, t, With(closest_nodes,
                [interval |-> Integer(300), num |-> Integer(0), samples |-> closest_nodes.nodes])), ip)
           /\ \A text : MayTell(error_message(t, text), ip)
<1>1. "token" \notin DOMAIN NoExtra
  BY DEF NoExtra
<1>2. "token" \notin DOMAIN closest_nodes
  BY DEF closest_nodes
<1>3. "token" \notin DOMAIN With(closest_nodes,
          [interval |-> Integer(300), num |-> Integer(0), samples |-> closest_nodes.nodes])
  BY <1>2 DEF With
<1> QED
  BY <1>1, <1>2, <1>3, Zenon DEF MayTell

LEMMA QueryReply ==
    ASSUME NEW m, NEW src
    PROVE  MayTell(handle_query(m, src).reply, src.ip)
<1>1. \A reply : Says(reply).reply = reply
  BY DEF Says
<1>2. MayTell(get_peers_response(m.a, m.t, src).reply, src.ip)
  <2> DEFINE token == Bytes(make_token(src.ip))
             t == m.t
  <2>1. \A body : MayTell(response_message(OurId, t, With(body, [token |-> token])), src.ip)
    <3> TAKE body
    <3>1. With(body, [token |-> token])["token"] = token
      BY WithToken
    <3> QED
      BY <3>1, Zenon DEF MayTell
  <2>2. \/ \E body : get_peers_response(m.a, m.t, src).reply
                       = response_message(OurId, t, With(body, [token |-> token]))
        \/ get_peers_response(m.a, m.t, src).reply = error_message(t, "invalid info_hash")
    BY <1>1 DEF get_peers_response
  <2> HIDE DEF token, t
  <2> QED
    BY <2>1, <2>2, TellNoToken
<1>3. MayTell(announce_peer_response(m.a, m.t, src).reply, src.ip)
  <2>1. \/ announce_peer_response(m.a, m.t, src).reply = response_message(OurId, m.t, NoExtra)
        \/ \E text : announce_peer_response(m.a, m.t, src).reply = error_message(m.t, text)
    BY <1>1 DEF announce_peer_response
  <2> QED
    BY <2>1, TellNoToken
<1>4. \E reply : /\ MayTell(reply, src.ip)
                 /\ handle_query(m, src).reply = reply
  <2> DEFINE no == NoExtra
             near == closest_nodes
             few == With(closest_nodes,
                [interval |-> Integer(300), num |-> Integer(0), samples |-> closest_nodes.nodes])
  <2>1. \/ handle_query(m, src) = Says(response_message(OurId, m.t, no))
        \/ handle_query(m, src) = Says(response_message(OurId, m.t, near))
        \/ handle_query(m, src) = Says(response_message(OurId, m.t, few))
        \/ handle_query(m, src) = Says(error_message(m.t, "unknown query"))
        \/ handle_query(m, src) = get_peers_response(m.a, m.t, src)
        \/ handle_query(m, src) = announce_peer_response(m.a, m.t, src)
    BY DEF handle_query
  <2>2. /\ MayTell(response_message(OurId, m.t, no), src.ip)
        /\ MayTell(response_message(OurId, m.t, near), src.ip)
        /\ MayTell(response_message(OurId, m.t, few), src.ip)
        /\ MayTell(error_message(m.t, "unknown query"), src.ip)
    BY TellNoToken
  <2> HIDE DEF no, near, few
  <2> QED
    BY <1>1, <1>2, <1>3, <2>1, <2>2
<1> QED
  BY <1>4

\* What a client reads in a reply it parses: to_bytes and from_bytes keep a
\* token, and make none.
LEMMA ErrorHasNoToken ==
    ASSUME NEW t, NEW text
    PROVE  TokenIn(from_bytes(to_bytes(error_message(t, text)))) = {}
<1> DEFINE m == error_message(t, text)
           d == to_bytes(m)[2]
<1>1. "y" \in DOMAIN d /\ d["y"] = Bytes("e")
  BY DEF to_bytes, error_message, insert_extra, With, Dict
<1>2. from_bytes(to_bytes(m)).type \in {"error", "malformed"}
  BY <1>1 DEF from_bytes, Malformed, Bytes
<1> QED
  BY <1>2 DEF TokenIn

LEMMA ResponseToken ==
    ASSUME NEW t, NEW values, NEW ip,
           "token" \in DOMAIN values => values["token"] = Bytes(make_token(ip))
    PROVE  TokenIn(from_bytes(to_bytes(response_message(OurId, t, values))))
             \subseteq {[token |-> make_token(ip), age |-> 0]}
<1> DEFINE m == response_message(OurId, t, values)
           r == With(values, [id |-> Bytes(OurId)])
           d == to_bytes(m)[2]
<1>1. /\ to_bytes(m)[1] = "dict"
      /\ "y" \in DOMAIN d /\ d["y"] = Bytes("r")
      /\ "t" \in DOMAIN d /\ d["t"] = Bytes(t)
      /\ "r" \in DOMAIN d /\ d["r"] = Dict(r)
  BY DEF to_bytes, response_message, insert_extra, With, Dict
<1>2. from_bytes(to_bytes(m)).r = Without(r, {NotUtf8})
  BY <1>1 DEF from_bytes, Bytes, Dict, Body, Has
<1>3. /\ "token" \in DOMAIN Without(r, {NotUtf8}) => "token" \in DOMAIN values
      /\ "token" \in DOMAIN Without(r, {NotUtf8}) => Without(r, {NotUtf8})["token"] = values["token"]
  BY DEF Without, With
<1> QED
  BY <1>2, <1>3 DEF TokenIn, Has, Bytes


\* The one token a reply can hand to a client.
LEMMA ReplyToken ==
    ASSUME NEW reply, NEW ip, MayTell(reply, ip)
    PROVE  TokenIn(from_bytes(to_bytes(reply))) \subseteq {[token |-> make_token(ip), age |-> 0]}
<1>1. CASE \E t, values :
              /\ reply = response_message(OurId, t, values)
              /\ "token" \in DOMAIN values => values["token"] = Bytes(make_token(ip))
  <2>1. PICK t, values :
              /\ reply = response_message(OurId, t, values)
              /\ "token" \in DOMAIN values => values["token"] = Bytes(make_token(ip))
    BY <1>1
  <2>2. TokenIn(from_bytes(to_bytes(response_message(OurId, t, values))))
             \subseteq {[token |-> make_token(ip), age |-> 0]}
    BY <2>1, ResponseToken
  <2> QED
    BY <2>1, <2>2
<1>2. CASE \E t, text : reply = error_message(t, text)
  BY <1>2, ErrorHasNoToken
<1> QED
  BY <1>1, <1>2 DEF MayTell

LEMMA QueryToken ==
    ASSUME NEW m, NEW src
    PROVE  TokenIn(from_bytes(to_bytes(handle_query(m, src).reply)))
             \subseteq {[token |-> make_token(src.ip), age |-> 0]}
BY QueryReply, ReplyToken

LEMMA HandleQueryToken ==
    ASSUME TokenInv, NEW src \in Sources, HandleQuery(src)
    PROVE  TokenInv'
<1> DEFINE fresh == [token |-> make_token(src.ip), age |-> 0]
<1>1. phase' = phase /\ (held' = held \/ held' = fresh)
  <2>1. phase' = phase
    BY DEF HandleQuery
  <2>2. \E m : held' \in {held} \cup TokenIn(from_bytes(to_bytes(handle_query(m, src).reply)))
    BY DEF HandleQuery
  <2> QED
    BY <2>1, <2>2, QueryToken
<1>2. CASE held' = held
  BY <1>1, <1>2 DEF TokenInv
<1>3. CASE held' = fresh
  <2>1. fresh.token = [ip |-> src.ip, ago |-> 0, ours |-> TRUE] /\ fresh.age = 0
    BY DEF make_token, make_token_for_bucket
  <2>2. fresh \in [token : [ip : {s.ip : s \in Sources}, ago : 0 .. 2, ours : BOOLEAN],
                   age : 0 .. 2 * TokenBucket]
    <3>1. 0 \in 0 .. 2 * TokenBucket
      BY Capacities
    <3>2. [ip |-> src.ip, ago |-> 0, ours |-> TRUE]
             \in [ip : {s.ip : s \in Sources}, ago : 0 .. 2, ours : BOOLEAN]
      OBVIOUS
    <3> QED
      BY <3>1, <3>2 DEF make_token, make_token_for_bucket
  <2> HIDE DEF fresh
  <2>3. /\ held' = fresh /\ held'.token.ago = 0 /\ held'.age = 0
        /\ phase' \in 0 .. TokenBucket - 1 /\ 0 <= phase'
    BY <1>1, <1>3, <2>1, Capacities DEF TokenInv
  <2> QED
    BY <2>2, <2>3 DEF TokenInv
<1> QED
  BY <1>1, <1>2, <1>3

\* A tick, in numbers: the clock, the bucket and the age of a token.
LEMMA TickNumbers ==
    ASSUME NEW b \in Nat \ {0}, NEW p \in 0 .. b - 1, NEW ago \in 0 .. 2, NEW age \in 0 .. 2 * b,
           ago = 0 => age <= p,
           ago = 1 => p < age /\ age <= p + b,
           ago = 2 => age > b,
           NEW q, q = IF p + 1 = b THEN 0 ELSE p + 1,
           NEW then, then = IF p + 1 = b /\ ago < 2 THEN ago + 1 ELSE ago,
           NEW older, older = IF age < 2 * b THEN age + 1 ELSE age
    PROVE  /\ q \in 0 .. b - 1 /\ then \in 0 .. 2 /\ older \in 0 .. 2 * b
           /\ then = 0 => older <= q
           /\ then = 1 => q < older /\ older <= q + b
           /\ then = 2 => older > b
OBVIOUS

LEMMA ExceptHeld ==
    ASSUME NEW Clients, NEW A, NEW h \in [token : [ip : Clients, ago : 0 .. 2, ours : BOOLEAN], age : A],
           NEW x \in A, NEW y \in 0 .. 2
    PROVE  LET g == [h EXCEPT !.age = x, !.token.ago = y]
           IN  /\ g \in [token : [ip : Clients, ago : 0 .. 2, ours : BOOLEAN], age : A]
               /\ g.age = x /\ g.token.ago = y /\ g.token.ours = h.token.ours
OBVIOUS

LEMMA TickToken ==
    ASSUME TokenInv, Tick
    PROVE  TokenInv'
<1> DEFINE b == TokenBucket
           boundary == phase + 1 = b
           x == IF held.token.ours /\ held.age < 2 * b THEN held.age + 1 ELSE held.age
           y == IF boundary /\ held.token.ago < 2 THEN held.token.ago + 1 ELSE held.token.ago
           g == [held EXCEPT !.age = x, !.token.ago = y]
           Clients == {src.ip : src \in Sources}
           A == 0 .. 2 * b
<1>1. phase' = (IF boundary THEN 0 ELSE phase + 1) /\ held' = g
  BY DEF Tick
<1>2. /\ b \in Nat \ {0} /\ phase \in 0 .. b - 1
      /\ held \in [token : [ip : Clients, ago : 0 .. 2, ours : BOOLEAN], age : A]
      /\ held.token.ago \in 0 .. 2 /\ held.age \in 0 .. 2 * b
  BY Capacities DEF TokenInv
<1>3. /\ phase' \in 0 .. b - 1 /\ x \in A /\ y \in 0 .. 2
  BY <1>1, <1>2
<1> HIDE DEF Clients, A
<1>4. held.token.ours =>
        /\ y = 0 => x <= phase'
        /\ y = 1 => phase' < x /\ x <= phase' + b
        /\ y = 2 => x > b
  <2> SUFFICES ASSUME held.token.ours
               PROVE  /\ y = 0 => x <= phase'
                      /\ y = 1 => phase' < x /\ x <= phase' + b
                      /\ y = 2 => x > b
    OBVIOUS
  <2>1. /\ held.token.ago = 0 => held.age <= phase
        /\ held.token.ago = 1 => phase < held.age /\ held.age <= phase + b
        /\ held.token.ago = 2 => held.age > b
    BY DEF TokenInv
  <2>2. x = IF held.age < 2 * b THEN held.age + 1 ELSE held.age
    OBVIOUS
  <2> QED
    BY <1>1, <1>2, <2>1, <2>2, TickNumbers
<1> HIDE DEF x, y
<1>5. /\ g \in [token : [ip : Clients, ago : 0 .. 2, ours : BOOLEAN], age : A]
      /\ g.age = x /\ g.token.ago = y /\ g.token.ours = held.token.ours
  BY <1>2, <1>3, ExceptHeld
<1> HIDE DEF g
<1> QED
  BY <1>1, <1>3, <1>4, <1>5 DEF TokenInv, Clients, A, b

LEMMA TokenNext ==
    ASSUME TokenInv, [Next]_vars
    PROVE  TokenInv'
<1>1. ASSUME NEW src \in Sources, HandleQuery(src) PROVE TokenInv'
  BY <1>1, HandleQueryToken
<1>2. CASE Tick
  BY <1>2, TickToken
<1>3. CASE UNCHANGED clock
  BY <1>3 DEF clock, TokenInv
<1>4. \/ UNCHANGED clock
      \/ Tick
      \/ \E src \in Sources : HandleQuery(src)
  BY DEF Next, vars, HandleMalformed, HandlePeers, HandleSamples, LoseSamples, PublishNext,
         SampleRandomNodes, RefreshTick, StatsTick, FetcherReceives, FetcherEmits, PersisterReceives
<1> QED
  BY <1>1, <1>2, <1>3, <1>4


\* Whether an announcement with the token in hand is accepted.
LEMMA TokenAccepted ==
    ASSUME TokenInv, NEW src \in [ip : PublicIps, port : {1}]
    PROVE  LET does == announce_peer_response([info_hash |-> Bytes(Zero), token |-> Bytes(held.token),
                                               implied_port |-> Integer(1)], "tx", src)
           IN  does.reply.type = "response" <=>
                 held.token.ours /\ held.token.ip = src.ip /\ held.token.ago \in {0, 1}
<1> DEFINE a == [info_hash |-> Bytes(Zero), token |-> Bytes(held.token),
                 implied_port |-> Integer(1)]
           does == announce_peer_response(a, "tx", src)
<1>1. HasId(a, "info_hash")
  BY ServerAssumption DEF HasId, Has, Bytes
<1>2. Has(a, "token", "bytes") /\ a["token"][2] = held.token
  BY DEF Has, Bytes
<1>3. AnnouncedPort(a, src) = 1
  BY DEF AnnouncedPort, Has, Integer
<1>4. /\ \A t, text : Says(error_message(t, text)).reply.type = "error"
      /\ \A t : response_message(OurId, t, NoExtra).type = "response"
  BY DEF Says, error_message, response_message
<1> HIDE DEF a
<1>5. does.reply.type = "response" <=> validate_token(src.ip, held.token)
  <2>1. CASE validate_token(src.ip, held.token)
    <3>1. does.reply = response_message(OurId, "tx", NoExtra)
      BY <1>1, <1>2, <1>3, <2>1 DEF announce_peer_response
    <3> QED
      BY <1>4, <2>1, <3>1
  <2>2. CASE ~validate_token(src.ip, held.token)
    <3>1. does = Says(error_message("tx", "invalid token"))
      BY <1>1, <1>2, <1>3, <2>2 DEF announce_peer_response
    <3> QED
      BY <1>4, <2>2, <3>1
  <2> QED
    BY <2>1, <2>2
<1>6. validate_token(src.ip, held.token) <=>
        held.token.ours /\ held.token.ip = src.ip /\ held.token.ago \in {0, 1}
  <2> DEFINE token == held.token
             ip == src.ip
             Clients == {s.ip : s \in Sources}
  <2>1. token \in [ip : Clients, ago : 0 .. 2, ours : BOOLEAN]
    BY DEF TokenInv
  <2> HIDE DEF token, ip, Clients
  <2>2. \A k \in 0 .. 1 : token = [ip |-> ip, ago |-> k, ours |-> TRUE] <=>
                            token.ours /\ token.ip = ip /\ token.ago = k
    BY <2>1
  <2>3. validate_token(ip, token) <=> \E k \in 0 .. 1 : token = [ip |-> ip, ago |-> k, ours |-> TRUE]
    BY DEF validate_token, make_token_for_bucket
  <2>4. validate_token(ip, token) <=> token.ours /\ token.ip = ip /\ token.ago \in {0, 1}
    BY <2>2, <2>3
  <2> QED
    BY <2>4 DEF token, ip
<1> QED
  BY <1>5, <1>6 DEF a

LEMMA TokenContractHolds == TokenInv => TokenContract
<1> SUFFICES ASSUME TokenInv, NEW src \in [ip : PublicIps, port : {1}]
             PROVE  LET does == announce_peer_response([info_hash |-> Bytes(Zero),
                                    token |-> Bytes(held.token), implied_port |-> Integer(1)], "tx", src)
                        accepted == does.reply.type = "response"
                        own == held.token.ours /\ held.token.ip = src.ip
                    IN  /\ own /\ held.age <= TokenBucket => accepted
                        /\ accepted => own /\ held.age < 2 * TokenBucket
  BY DEF TokenContract
<1> DEFINE does == announce_peer_response([info_hash |-> Bytes(Zero),
                       token |-> Bytes(held.token), implied_port |-> Integer(1)], "tx", src)
           accepted == does.reply.type = "response"
           own == held.token.ours /\ held.token.ip = src.ip
           age == held.age
           ago == held.token.ago
<1>1. accepted <=> own /\ ago \in {0, 1}
  BY TokenAccepted
<1>2. /\ TokenBucket \in Nat \ {0} /\ phase \in 0 .. TokenBucket - 1
      /\ age \in 0 .. 2 * TokenBucket /\ ago \in 0 .. 2
  BY Capacities DEF TokenInv
<1>3. own => /\ ago = 0 => age <= phase
             /\ ago = 1 => phase < age /\ age <= phase + TokenBucket
             /\ ago = 2 => age > TokenBucket
  BY DEF TokenInv
<1> HIDE DEF accepted, own, age, ago
<1>4. own /\ age <= TokenBucket => ago \in {0, 1}
  BY <1>2, <1>3
<1>5. own /\ ago \in {0, 1} => age < 2 * TokenBucket
  BY <1>2, <1>3
<1>6. /\ own /\ age <= TokenBucket => accepted
      /\ accepted => own /\ age < 2 * TokenBucket
  BY <1>1, <1>4, <1>5
<1> QED
  BY <1>6 DEF accepted, own, age

(***************************************************************************)
(* The entries of the peer cache.                                          *)
(***************************************************************************)
LEMMA CacheLimits ==
    /\ PeerHashes \in Nat \ {0} /\ PeersPerHash \in Nat \ {0} /\ PeerTtl \in Nat \ {0}
BY ServerAssumption

LEMMA PublicIs ==
    ASSUME NEW a \in Address, is_public_endpoint(a)
    PROVE  a \in PublicAddress
<1> MaxPort \in Nat
  BY DEF MaxPort
<1>1. a.port \in 0 .. MaxPort /\ a.port # 0 /\ a.ip \in PublicIps /\ a = [ip |-> a.ip, port |-> a.port]
  BY DEF Address, is_public_endpoint
<1>2. a.port \in 1 .. MaxPort
  BY <1>1
<1> QED
  BY <1>1, <1>2 DEF PublicAddress

\* What is picked of an entry names a peer once, too.
LEMMA PickedDistinct ==
    ASSUME NEW E, NEW e \in Seq(E), Distinct(e), NEW places \in SUBSET (1 .. Len(e))
    PROVE  Distinct(Picked(e, places))
<1>1. PICK p \in Seq(E) : p = Picked(e, places)
  BY PickedIs
<1>2. \E at : PickedBy(p, e, places, at)
  BY <1>1, PickedIs
<1>3. PICK at : PickedBy(p, e, places, at)
  BY <1>2
<1>4. PICK n \in Nat, m \in Nat : n = Len(p) /\ DOMAIN p = 1 .. n /\ m = Len(e) /\ DOMAIN e = 1 .. m
  OBVIOUS
<1>5. /\ at \in [1 .. n -> 1 .. m]
      /\ \A k \in 1 .. n : p[k] = e[at[k]]
      /\ \A k, l \in 1 .. n : k < l => at[k] < at[l]
  BY <1>3, <1>4 DEF PickedBy
<1>6. ASSUME NEW k \in 1 .. n, NEW l \in 1 .. n, p[k].peer = p[l].peer PROVE k = l
  <2>1. at[k] \in 1 .. m /\ at[l] \in 1 .. m /\ e[at[k]].peer = e[at[l]].peer
    BY <1>5, <1>6
  <2>2. at[k] = at[l]
    BY <1>4, <2>1 DEF Distinct
  <2>3. ~(k < l) /\ ~(l < k)
    BY <1>5, <2>1, <2>2
  <2> QED
    BY <2>3
<1>7. Distinct(p)
  BY <1>4, <1>6 DEF Distinct
<1> QED
  BY <1>1, <1>7

\* The peers whose time has not run out.
LEMMA FreshIs ==
    ASSUME NEW e, EntryInv(e)
    PROVE  EntryInv(Fresh(e)) /\ Range(Fresh(e)) = {c \in Range(e) : c.left > 0}
<1>1. PICK n \in Nat : n = Len(e) /\ DOMAIN e = 1 .. n
  BY DEF EntryInv
<1>2. PICK places \in SUBSET (1 .. n) : places = {i \in 1 .. n : e[i].left > 0}
  OBVIOUS
<1>3. PICK f : f = Picked(e, places)
  OBVIOUS
<1>4. Fresh(e) = f
  BY <1>1, <1>2, <1>3 DEF Fresh
<1>5. f \in Seq(Cached) /\ Len(f) <= n /\ Range(f) = {e[i] : i \in places}
  BY <1>1, <1>3, PickedHolds DEF EntryInv
<1>6. Distinct(f)
  BY <1>1, <1>3, PickedDistinct DEF EntryInv
<1>7. {e[i] : i \in places} = {c \in Range(e) : c.left > 0}
  BY <1>1, <1>2 DEF Range
<1>8. Len(f) <= PeersPerHash
  BY <1>1, <1>5, CacheLimits DEF EntryInv
<1> QED
  BY <1>4, <1>5, <1>6, <1>7, <1>8 DEF EntryInv

\* The peers other than one.
LEMMA OthersAre ==
    ASSUME NEW e, EntryInv(e), NEW peer
    PROVE  /\ EntryInv(Others(e, peer))
           /\ \A i \in 1 .. Len(Others(e, peer)) : Others(e, peer)[i].peer # peer
<1>1. PICK n \in Nat : n = Len(e) /\ DOMAIN e = 1 .. n
  BY DEF EntryInv
<1>2. PICK places \in SUBSET (1 .. n) : places = {i \in 1 .. n : e[i].peer # peer}
  OBVIOUS
<1>3. PICK f : f = Picked(e, places)
  OBVIOUS
<1>4. Others(e, peer) = f
  BY <1>1, <1>2, <1>3 DEF Others
<1>5. f \in Seq(Cached) /\ Len(f) <= n /\ Range(f) = {e[i] : i \in places}
  BY <1>1, <1>3, PickedHolds DEF EntryInv
<1>6. Distinct(f)
  BY <1>1, <1>3, PickedDistinct DEF EntryInv
<1>7. ASSUME NEW i \in 1 .. Len(f) PROVE f[i].peer # peer
  <2>1. f[i] \in Range(f)
    BY <1>5 DEF Range
  <2> QED
    BY <1>2, <1>5, <2>1
<1>8. Len(f) <= PeersPerHash
  BY <1>1, <1>5, CacheLimits DEF EntryInv
<1> QED
  BY <1>4, <1>5, <1>6, <1>7, <1>8 DEF EntryInv

\* Dropping the oldest.
LEMMA TailDistinct ==
    ASSUME NEW e, EntryInv(e), e # <<>>
    PROVE  /\ EntryInv(Tail(e)) /\ Len(Tail(e)) = Len(e) - 1
           /\ \A i \in 1 .. Len(e) - 1 : Tail(e)[i] = e[i + 1]
<1>1. e \in Seq(Cached) /\ Len(e) <= PeersPerHash /\ Distinct(e)
  BY DEF EntryInv
<1>2. PICK n \in Nat : n = Len(e) /\ DOMAIN e = 1 .. n
  BY <1>1
<1>3. PICK t : t = Tail(e)
  OBVIOUS
<1>4. /\ t \in Seq(Cached) /\ Len(t) = n - 1
      /\ \A i \in 1 .. n - 1 : t[i] = e[i + 1]
  BY <1>1, <1>2, <1>3, HeadTailProperties
<1>5. DOMAIN t = 1 .. n - 1
  BY <1>4
<1>6. ASSUME NEW i \in 1 .. n - 1, NEW j \in 1 .. n - 1, t[i].peer = t[j].peer PROVE i = j
  <2>1. i + 1 \in 1 .. n /\ j + 1 \in 1 .. n
    BY <1>2
  <2>2. e[i + 1].peer = e[j + 1].peer
    BY <1>4, <1>6
  <2>3. i + 1 = j + 1
    BY <1>1, <1>2, <2>1, <2>2 DEF Distinct
  <2> QED
    BY <2>3
<1>7. Distinct(t)
  BY <1>5, <1>6 DEF Distinct
<1>8. Len(t) <= PeersPerHash
  BY <1>1, <1>2, <1>4, CacheLimits
<1> QED
  BY <1>2, <1>3, <1>4, <1>7, <1>8 DEF EntryInv

\* An entry in which a peer is the newest holds it, and nothing twice.
LEMMA RenewedIs ==
    ASSUME NEW e, EntryInv(e), NEW peer \in PublicAddress
    PROVE  /\ EntryInv(Renewed(e, peer)) /\ Renewed(e, peer) # <<>>
           /\ [peer |-> peer, left |-> PeerTtl] \in Range(Renewed(e, peer))
<1>1. PICK o : o = Others(e, peer)
  OBVIOUS
<1>2. EntryInv(o) /\ \A i \in 1 .. Len(o) : o[i].peer # peer
  BY <1>1, OthersAre
<1>3. PICK n \in Nat : n = Len(o)
  BY <1>2 DEF EntryInv
<1>4. PICK new : new = [peer |-> peer, left |-> PeerTtl]
  OBVIOUS
<1>5. new \in Cached /\ new.peer = peer
  BY <1>4, CacheLimits DEF Cached
<1>6. PICK kept : kept = IF Len(o) >= PeersPerHash THEN Tail(o) ELSE o
  OBVIOUS
<1>7. EntryInv(kept) /\ Len(kept) < PeersPerHash /\ \A i \in 1 .. Len(kept) : kept[i].peer # peer
  <2>1. CASE n >= PeersPerHash
    <3>1. kept = Tail(o)
      BY <1>3, <1>6, <2>1
    <3>2. o # <<>>
      BY <1>3, <2>1, CacheLimits
    <3>3. /\ EntryInv(Tail(o)) /\ Len(Tail(o)) = n - 1
          /\ \A i \in 1 .. n - 1 : Tail(o)[i] = o[i + 1]
      BY <1>2, <1>3, <3>2, TailDistinct
    <3>4. \A i \in 1 .. n - 1 : i + 1 \in 1 .. n
      BY <1>3
    <3>5. n <= PeersPerHash
      BY <1>2, <1>3 DEF EntryInv
    <3>6. n - 1 < PeersPerHash
      BY <3>5, CacheLimits
    <3> QED
      BY <1>2, <1>3, <3>1, <3>3, <3>4, <3>6
  <2>2. CASE ~(n >= PeersPerHash)
    BY <1>2, <1>3, <1>6, <2>2, CacheLimits
  <2> QED
    BY <2>1, <2>2
<1>8. PICK m \in Nat : m = Len(kept) /\ DOMAIN kept = 1 .. m
  BY <1>7 DEF EntryInv
<1>9. PICK r : r = Append(kept, new)
  OBVIOUS
<1>10. kept \in Seq(Cached)
  BY <1>7 DEF EntryInv
<1>11. /\ r \in Seq(Cached) /\ Len(r) = m + 1 /\ DOMAIN r = 1 .. m + 1
       /\ \A i \in 1 .. m : r[i] = kept[i]
       /\ r[m + 1] = new
  BY <1>5, <1>8, <1>9, <1>10, AppendProperties
<1>12. ASSUME NEW i \in 1 .. m + 1, NEW j \in 1 .. m + 1, r[i].peer = r[j].peer PROVE i = j
  <2>1. (i \in 1 .. m \/ i = m + 1) /\ (j \in 1 .. m \/ j = m + 1)
    OBVIOUS
  <2>2. CASE i \in 1 .. m /\ j \in 1 .. m
    BY <1>7, <1>8, <1>11, <1>12, <2>2 DEF EntryInv, Distinct
  <2>3. CASE i \in 1 .. m /\ j = m + 1
    BY <1>5, <1>7, <1>8, <1>11, <1>12, <2>3
  <2>4. CASE i = m + 1 /\ j \in 1 .. m
    BY <1>5, <1>7, <1>8, <1>11, <1>12, <2>4
  <2> QED
    BY <2>1, <2>2, <2>3, <2>4
<1>13. Distinct(r)
  BY <1>11, <1>12 DEF Distinct
<1>14. m + 1 <= PeersPerHash
  BY <1>7, <1>8, CacheLimits
<1>15. new \in Range(r) /\ r # <<>>
  <2>1. m + 1 \in 1 .. m + 1
    OBVIOUS
  <2>2. Range(r) # {} /\ new \in Range(r)
    BY <1>11, <2>1 DEF Range
  <2> QED
    BY <2>2, EmptyRange
<1>16. Renewed(e, peer) = r
  BY <1>1, <1>4, <1>6, <1>9 DEF Renewed
<1> QED
  BY <1>4, <1>11, <1>13, <1>14, <1>15, <1>16 DEF EntryInv

(***************************************************************************)
(* The peer cache.                                                         *)
(***************************************************************************)
LEMMA KnownFinite ==
    /\ IsFiniteSet(Known)
    /\ \A S \in SUBSET Known : IsFiniteSet(S) /\ Cardinality(S) \in Nat
<1>1. IsFiniteSet(Hashes)
  BY ServerAssumption
<1>2. IsFiniteSet(Known)
  BY <1>1, FS_AddElement DEF Known
<1>3. ASSUME NEW S \in SUBSET Known PROVE IsFiniteSet(S) /\ Cardinality(S) \in Nat
  <2>1. IsFiniteSet(S)
    BY <1>2, FS_Subset
  <2> QED
    BY <2>1, FS_CardinalityType
<1> QED
  BY <1>2, <1>3

\* A cache with fewer hashes.
LEMMA FewerHashes ==
    ASSUME NEW c, CacheInv(c), NEW S \in SUBSET (DOMAIN c)
    PROVE  S \in SUBSET Known /\ IsFiniteSet(S) /\ Cardinality(S) \in Nat /\ Cardinality(S) <= PeerHashes
<1>1. DOMAIN c \in SUBSET Known /\ Cardinality(DOMAIN c) <= PeerHashes
  BY DEF CacheInv
<1>2. IsFiniteSet(DOMAIN c) /\ Cardinality(DOMAIN c) \in Nat
  BY <1>1, KnownFinite
<1>3. Cardinality(S) <= Cardinality(DOMAIN c)
  BY <1>2, FS_Subset
<1>4. S \in SUBSET Known
  BY <1>1
<1>5. IsFiniteSet(S) /\ Cardinality(S) \in Nat
  BY <1>4, KnownFinite
<1> QED
  BY <1>1, <1>2, <1>3, <1>4, <1>5, CacheLimits

\* Expiry leaves the peers whose time has not run out.
LEMMA ExpiryIs ==
    ASSUME NEW c, CacheInv(c), NEW d, d = expire_peer_cache(c)
    PROVE  /\ CacheInv(d)
           /\ \A h : h \in DOMAIN d <=> h \in DOMAIN c /\ \E x \in Range(c[h]) : x.left > 0
           /\ \A h \in DOMAIN d : Range(d[h]) = {x \in Range(c[h]) : x.left > 0}
<1>1. \A h \in DOMAIN c : EntryInv(Fresh(c[h])) /\ Range(Fresh(c[h])) = {x \in Range(c[h]) : x.left > 0}
  BY FreshIs DEF CacheInv
<1>2. /\ DOMAIN d = {h \in DOMAIN c : Fresh(c[h]) # <<>>}
      /\ \A h \in DOMAIN d : d[h] = Fresh(c[h])
  BY DEF expire_peer_cache
<1>3. DOMAIN d \subseteq Known /\ Cardinality(DOMAIN d) <= PeerHashes
  <2>1. DOMAIN d \in SUBSET (DOMAIN c)
    BY <1>2
  <2> QED
    BY <2>1, FewerHashes
<1>4. CacheInv(d)
  BY <1>1, <1>2, <1>3 DEF CacheInv
<1>5. ASSUME NEW h \in DOMAIN c
      PROVE  Fresh(c[h]) # <<>> <=> \E x \in Range(c[h]) : x.left > 0
  <2>1. PICK f : f = Fresh(c[h])
    OBVIOUS
  <2>2. f \in Seq(Cached) /\ Range(f) = {x \in Range(c[h]) : x.left > 0}
    BY <1>1, <2>1 DEF EntryInv
  <2>3. f # <<>> => Range(f) # {}
    <3>1. ASSUME f # <<>> PROVE f[1] \in Range(f)
      <4>1. 1 \in DOMAIN f
        BY <2>2, <3>1, EmptySeq
      <4> QED
        BY <4>1 DEF Range
    <3> QED
      BY <3>1
  <2>4. f = <<>> => Range(f) = {}
    BY EmptyRange
  <2> QED
    BY <2>1, <2>2, <2>3, <2>4
<1> QED
  BY <1>1, <1>2, <1>4, <1>5

\* What cache_peer may evict.
Evicts(c, h, b) ==
    /\ DOMAIN b \subseteq DOMAIN c /\ \A x \in DOMAIN b : b[x] = c[x]
    /\ h \notin DOMAIN c => Cardinality(DOMAIN b) < PeerHashes
    /\ h \in DOMAIN c => b = c

\* And what it then puts into the entry of the hash.
Placed(b, h, peer, d) ==
    d = With(b, [g \in {h} |-> Renewed(IF h \in DOMAIN b THEN b[h] ELSE <<>>, peer)])

LEMMA EvictionIs ==
    ASSUME NEW c, CacheInv(c), NEW h \in Known, NEW peer, NEW d \in cache_peer(c, h, peer)
    PROVE  \E b : Evicts(c, h, b) /\ Placed(b, h, peer, d)
<1>1. PICK b :
        /\ \/ /\ h \notin DOMAIN c /\ Cardinality(DOMAIN c) >= PeerHashes
              /\ \E g \in DOMAIN c : b = Without(c, {g})
           \/ /\ ~(h \notin DOMAIN c /\ Cardinality(DOMAIN c) >= PeerHashes)
              /\ b = c
        /\ Placed(b, h, peer, d)
  BY Zenon DEF cache_peer, Placed
<1>2. DOMAIN c \in SUBSET (DOMAIN c)
  OBVIOUS
<1>3. IsFiniteSet(DOMAIN c) /\ Cardinality(DOMAIN c) \in Nat /\ Cardinality(DOMAIN c) <= PeerHashes
  BY <1>2, FewerHashes
<1>4. CASE /\ h \notin DOMAIN c /\ Cardinality(DOMAIN c) >= PeerHashes
           /\ \E g \in DOMAIN c : b = Without(c, {g})
  <2>1. PICK g \in DOMAIN c : b = Without(c, {g})
    BY <1>4
  <2>2. DOMAIN b = DOMAIN c \ {g} /\ \A x \in DOMAIN b : b[x] = c[x]
    BY <2>1 DEF Without
  <2>3. IsFiniteSet(DOMAIN c \ {g}) /\ Cardinality(DOMAIN c \ {g}) = Cardinality(DOMAIN c) - 1
    BY <1>3, FS_RemoveElement
  <2>4. Cardinality(DOMAIN b) < PeerHashes
    BY <1>3, <2>2, <2>3, CacheLimits
  <2>5. Evicts(c, h, b)
    BY <1>4, <2>2, <2>4 DEF Evicts
  <2> QED
    BY <1>1, <2>5
<1>5. CASE /\ ~(h \notin DOMAIN c /\ Cardinality(DOMAIN c) >= PeerHashes)
           /\ b = c
  <2>1. h \notin DOMAIN c => Cardinality(DOMAIN c) < PeerHashes
    BY <1>3, <1>5, CacheLimits
  <2>2. Evicts(c, h, b)
    BY <1>5, <2>1 DEF Evicts
  <2> QED
    BY <1>1, <2>2
<1> QED
  BY <1>1, <1>4, <1>5

LEMMA NothingCached == EntryInv(<<>>)
<1>1. PICK e : e = <<>>
  OBVIOUS
<1>2. e \in Seq(Cached)
  BY <1>1
<1>3. Len(e) = 0
  BY <1>1, <1>2, EmptySeq
<1>4. DOMAIN e = {}
  BY <1>2, <1>3
<1>5. EntryInv(e)
  BY <1>2, <1>3, <1>4, CacheLimits DEF EntryInv, Distinct
<1> QED
  BY <1>1, <1>5

\* After cache_peer the cache is within its limits and holds the peer.
LEMMA CachePeerIs ==
    ASSUME NEW c, CacheInv(c), NEW h \in Known, NEW peer \in PublicAddress,
           NEW d \in cache_peer(c, h, peer)
    PROVE  CacheInv(d) /\ Holding(d, h, peer, PeerTtl)
<1>1. PICK b : Evicts(c, h, b) /\ Placed(b, h, peer, d)
  BY EvictionIs
<1>2. PICK e : e = IF h \in DOMAIN b THEN b[h] ELSE <<>>
  OBVIOUS
<1>3. \A x \in DOMAIN b : EntryInv(b[x]) /\ b[x] # <<>>
  BY <1>1 DEF Evicts, CacheInv
<1>4. EntryInv(e)
  BY <1>2, <1>3, NothingCached
<1>5. PICK r : r = Renewed(e, peer)
  OBVIOUS
<1>6. EntryInv(r) /\ r # <<>> /\ [peer |-> peer, left |-> PeerTtl] \in Range(r)
  BY <1>4, <1>5, RenewedIs
<1>7. d = With(b, [g \in {h} |-> r])
  BY <1>1, <1>2, <1>5, Zenon DEF Placed
<1>8. DOMAIN d = DOMAIN b \cup {h} /\ \A x \in DOMAIN d : d[x] = IF x = h THEN r ELSE b[x]
  BY <1>7 DEF With
<1>9. h \in DOMAIN d /\ d[h] = r
  BY <1>8
<1>10. \A x \in DOMAIN d : EntryInv(d[x]) /\ d[x] # <<>>
  BY <1>3, <1>6, <1>8
<1>11. DOMAIN b \in SUBSET (DOMAIN c)
  BY <1>1 DEF Evicts
<1>12. DOMAIN b \in SUBSET Known /\ IsFiniteSet(DOMAIN b) /\ Cardinality(DOMAIN b) \in Nat
       /\ Cardinality(DOMAIN b) <= PeerHashes
  BY <1>11, FewerHashes
<1>13. Cardinality(DOMAIN d) <= PeerHashes
  <2>1. CASE h \in DOMAIN b
    <3>1. DOMAIN d = DOMAIN b
      BY <1>8, <2>1
    <3> QED
      BY <1>12, <3>1
  <2>2. CASE h \notin DOMAIN b
    <3>1. h \notin DOMAIN c
      BY <1>1, <2>2 DEF Evicts
    <3>2. Cardinality(DOMAIN b) < PeerHashes
      BY <1>1, <3>1 DEF Evicts
    <3>3. Cardinality(DOMAIN b \cup {h}) = IF h \in DOMAIN b THEN Cardinality(DOMAIN b)
                                            ELSE Cardinality(DOMAIN b) + 1
      BY <1>12, FS_AddElement
    <3>4. Cardinality(DOMAIN d) = Cardinality(DOMAIN b) + 1
      BY <1>8, <2>2, <3>3
    <3> QED
      BY <1>12, <3>2, <3>4, CacheLimits
  <2> QED
    BY <2>1, <2>2
<1>14. DOMAIN d \subseteq Known
  BY <1>8, <1>12
<1>15. CacheInv(d)
  BY <1>10, <1>13, <1>14 DEF CacheInv
<1> QED
  BY <1>6, <1>9, <1>15 DEF Holding

(***************************************************************************)
(* Caching a list of peers.                                                *)
(***************************************************************************)
Turned(C, h, peer) == UNION {cache_peer(b, h, peer) : b \in C}

\* The caches there may be after 0 .. n peers.
Caches(c, h, peers, n, f) ==
    f = [i \in 0 .. n |-> IF i = 0 THEN {c} ELSE Turned(f[i - 1], h, peers[i])]

Turns(c, h, peers, n, f) ==
    /\ DOMAIN f = 0 .. n
    /\ f[0] = {c}
    /\ \A k \in 0 .. n : k # 0 => f[k] = Turned(f[k - 1], h, peers[k])

LEMMA CachesAre ==
    ASSUME NEW c, NEW h, NEW peers, NEW n \in Nat, NEW f, Caches(c, h, peers, n, f)
    PROVE  Turns(c, h, peers, n, f)
<1>1. f = [k \in 0 .. n |-> IF k = 0 THEN {c} ELSE Turned(f[k - 1], h, peers[k])]
  BY DEF Caches
<1>2. PICK g : g = f
  OBVIOUS
<1>3. f = [k \in 0 .. n |-> IF k = 0 THEN {c} ELSE Turned(g[k - 1], h, peers[k])]
  BY <1>1, <1>2
<1>4. /\ DOMAIN f = 0 .. n
      /\ \A k \in 0 .. n : f[k] = IF k = 0 THEN {c} ELSE Turned(g[k - 1], h, peers[k])
  BY <1>3
<1>5. f[0] = {c}
  BY <1>4
<1>6. ASSUME NEW k \in 0 .. n, k # 0 PROVE f[k] = Turned(f[k - 1], h, peers[k])
  BY <1>2, <1>4, <1>6
<1> QED
  BY <1>4, <1>5, <1>6 DEF Turns

\* The recursive definition defines a function.
LEMMA CachesExist ==
    ASSUME NEW c, NEW h, NEW peers, NEW n \in Nat
    PROVE  \E f : Caches(c, h, peers, n, f)
<1> DEFINE T == {m \in Nat : ~\E f : Caches(c, h, peers, m, f)}
<1>1. T = {}
  <2> SUFFICES ASSUME T # {} PROVE FALSE
    OBVIOUS
  <2>1. PICK m \in T : \A k \in T : m <= k
    <3>1. T \subseteq Nat
      OBVIOUS
    <3> HIDE DEF T
    <3> QED
      BY <3>1, LeastNatural
  <2>2. m \in Nat /\ ~\E f : Caches(c, h, peers, m, f)
    OBVIOUS
  <2>3. CASE m = 0
    <3>1. PICK f : f = [k \in 0 .. 0 |-> {c}]
      OBVIOUS
    <3>2. f = [k \in 0 .. 0 |-> IF k = 0 THEN {c} ELSE Turned(f[k - 1], h, peers[k])]
      <4>1. \A k \in 0 .. 0 : k = 0
        OBVIOUS
      <4> QED
        BY <3>1, <4>1
    <3>3. Caches(c, h, peers, 0, f)
      BY <3>2 DEF Caches
    <3> QED
      BY <2>2, <2>3, <3>3
  <2>4. CASE m # 0
    <3>1. m - 1 \in Nat /\ ~(m <= m - 1)
      BY <2>2, <2>4
    <3>2. m - 1 \notin T
      BY <2>1, <3>1
    <3>3. PICK f : Caches(c, h, peers, m - 1, f)
      BY <3>1, <3>2
    <3>4. /\ DOMAIN f = 0 .. m - 1 /\ f[0] = {c}
          /\ \A k \in 0 .. m - 1 : k # 0 => f[k] = Turned(f[k - 1], h, peers[k])
      <4>1. PICK l \in Nat : l = m - 1
        BY <3>1
      <4>2. Turns(c, h, peers, l, f)
        BY <3>3, <4>1, CachesAre
      <4> QED
        BY <4>1, <4>2 DEF Turns
    <3>5. PICK v : v = Turned(f[m - 1], h, peers[m])
      OBVIOUS
    <3>6. PICK g : g = [k \in 0 .. m |-> IF k = m THEN v ELSE f[k]]
      OBVIOUS
    <3>7. g[m] = v /\ \A l \in 0 .. m : l # m => g[l] = f[l]
      BY <2>2, <3>6
    <3>8. ASSUME NEW k \in 0 .. m
          PROVE  g[k] = IF k = 0 THEN {c} ELSE Turned(g[k - 1], h, peers[k])
      <4>1. CASE k = 0
        BY <2>2, <2>4, <3>4, <3>7, <4>1
      <4>2. CASE k # 0
        <5>1. k - 1 \in 0 .. m /\ k - 1 # m
          BY <2>2, <4>2
        <5>2. g[k - 1] = f[k - 1]
          BY <3>7, <5>1
        <5>3. CASE k = m
          BY <3>5, <3>7, <4>2, <5>2, <5>3
        <5>4. CASE k # m
          <6>1. k \in 0 .. m - 1
            BY <2>2, <5>4
          <6> QED
            BY <3>4, <3>7, <4>2, <5>2, <5>4, <6>1
        <5> QED
          BY <5>3, <5>4
      <4> QED
        BY <4>1, <4>2
    <3>9. g = [k \in 0 .. m |-> IF k = 0 THEN {c} ELSE Turned(g[k - 1], h, peers[k])]
      <4>1. g = [k \in 0 .. m |-> g[k]]
        BY <3>6
      <4> QED
        BY <3>8, <4>1
    <3> QED
      BY <2>2, <3>9 DEF Caches
  <2> QED
    BY <2>3, <2>4
<1> QED
  BY <1>1

\* What caching k of the peers comes to.
AllCached(C, c, h, peers, k) ==
    \A d \in C : /\ CacheInv(d)
                 /\ k = 0 => d = c
                 /\ k # 0 => Holding(d, h, peers[k], PeerTtl)

LEMMA CachePeersIs ==
    ASSUME NEW c, CacheInv(c), NEW h \in Known, NEW peers \in Seq(PublicAddress)
    PROVE  AllCached(cache_peers(c, h, peers), c, h, peers, Len(peers))
<1>1. PICK n \in Nat : n = Len(peers)
  OBVIOUS
<1>2. PICK f : f = CHOOSE g : Caches(c, h, peers, n, g)
  OBVIOUS
<1>3. Caches(c, h, peers, n, f)
  BY <1>2, CachesExist
<1>4. f[0] = {c} /\ \A k \in 0 .. n : k # 0 => f[k] = Turned(f[k - 1], h, peers[k])
  <2>1. Turns(c, h, peers, n, f)
    BY <1>3, CachesAre
  <2> QED
    BY <2>1 DEF Turns
<1>5. cache_peers(c, h, peers) = f[n]
  <2>1. cache_peers(c, h, peers) = (CHOOSE g : Caches(c, h, peers, Len(peers), g))[Len(peers)]
    BY Zenon DEF cache_peers, Caches, Turned
  <2> QED
    BY <1>1, <1>2, <2>1
<1> DEFINE T == {k \in Nat : k <= n /\ ~AllCached(f[k], c, h, peers, k)}
<1>6. T = {}
  <2> SUFFICES ASSUME T # {} PROVE FALSE
    OBVIOUS
  <2>1. PICK k \in T : \A j \in T : k <= j
    <3>1. T \subseteq Nat
      OBVIOUS
    <3> HIDE DEF T
    <3> QED
      BY <3>1, LeastNatural
  <2>2. k \in Nat /\ k <= n /\ ~AllCached(f[k], c, h, peers, k)
    OBVIOUS
  <2>3. CASE k = 0
    <3>1. f[k] = {c}
      BY <1>4, <2>3
    <3>2. AllCached(f[k], c, h, peers, k)
      BY <2>3, <3>1 DEF AllCached
    <3> QED
      BY <2>2, <3>2
  <2>4. CASE k # 0
    <3>1. k - 1 \in Nat /\ k - 1 <= n /\ ~(k <= k - 1) /\ k \in 0 .. n /\ k \in 1 .. n
      BY <2>2, <2>4
    <3>2. AllCached(f[k - 1], c, h, peers, k - 1)
      BY <2>1, <3>1
    <3>3. f[k] = Turned(f[k - 1], h, peers[k])
      BY <1>4, <2>4, <3>1
    <3>4. PICK peer \in PublicAddress : peer = peers[k]
      BY <1>1, <3>1
    <3>5. ASSUME NEW d \in f[k] PROVE CacheInv(d) /\ Holding(d, h, peers[k], PeerTtl)
      <4>1. PICK b \in f[k - 1] : d \in cache_peer(b, h, peer)
        BY <3>3, <3>4 DEF Turned
      <4>2. CacheInv(b)
        BY <3>2, <4>1 DEF AllCached
      <4> QED
        BY <3>4, <4>1, <4>2, CachePeerIs
    <3>6. AllCached(f[k], c, h, peers, k)
      BY <2>4, <3>5 DEF AllCached
    <3> QED
      BY <2>2, <3>6
  <2> QED
    BY <2>3, <2>4
<1>7. AllCached(f[n], c, h, peers, n)
  BY <1>6
<1> QED
  BY <1>1, <1>5, <1>7

(***************************************************************************)
(* The cache and the peer that was cached last.                            *)
(***************************************************************************)
\* A step that caches peers for a hash, or none.
LEMMA CachingKeeps ==
    ASSUME ServingInv, NEW h \in Known, NEW peers \in Seq(PublicAddress),
           cache' \in cache_peers(cache, h, peers), newest' = Newest(h, peers)
    PROVE  ServingInv'
<1>1. AllCached(cache_peers(cache, h, peers), cache, h, peers, Len(peers))
  BY CachePeersIs DEF ServingInv
<1>2. PICK d : d = cache' /\ CacheInv(d)
               /\ (Len(peers) = 0 => d = cache)
               /\ (Len(peers) # 0 => Holding(d, h, peers[Len(peers)], PeerTtl))
  BY <1>1 DEF AllCached
<1>3. CASE peers = <<>>
  <2>1. Len(peers) = 0 /\ newest' = newest
    BY <1>3, EmptySeq DEF Newest
  <2> QED
    BY <1>2, <2>1 DEF ServingInv
<1>4. CASE peers # <<>>
  <2>1. Len(peers) # 0 /\ peers[Len(peers)] \in PublicAddress
    BY <1>4, EmptySeq
  <2>2. PICK m : m = [hash |-> h, peer |-> peers[Len(peers)], left |-> PeerTtl]
    OBVIOUS
  <2>3. newest' = m
    BY <1>4, <2>2 DEF Newest
  <2>4. NewestInv(d, m)
    BY <1>2, <2>1, <2>2, CacheLimits DEF NewestInv
  <2> QED
    BY <1>2, <2>3, <2>4 DEF ServingInv
<1> QED
  BY <1>3, <1>4

\* A step that expires the cache.
LEMMA ExpiryKeeps ==
    ASSUME ServingInv, cache' = expire_peer_cache(cache), newest' = newest
    PROVE  ServingInv'
<1>1. CacheInv(cache) /\ NewestInv(cache, newest)
  BY DEF ServingInv
<1>2. PICK c : c = cache
  OBVIOUS
<1>3. PICK d : d = expire_peer_cache(c)
  OBVIOUS
<1>4. /\ CacheInv(d)
      /\ \A h : h \in DOMAIN d <=> h \in DOMAIN c /\ \E x \in Range(c[h]) : x.left > 0
      /\ \A h \in DOMAIN d : Range(d[h]) = {x \in Range(c[h]) : x.left > 0}
  BY <1>1, <1>2, <1>3, ExpiryIs
<1>5. PICK m : m = newest
  OBVIOUS
<1>6. m.left > 0 => Holding(d, m.hash, m.peer, m.left)
  <2> SUFFICES ASSUME m.left > 0 PROVE Holding(d, m.hash, m.peer, m.left)
    OBVIOUS
  <2>1. PICK x : x = [peer |-> m.peer, left |-> m.left]
    OBVIOUS
  <2>2. m.hash \in DOMAIN c /\ x \in Range(c[m.hash]) /\ x.left > 0
    BY <1>1, <1>2, <1>5, <2>1 DEF NewestInv, Holding
  <2>3. m.hash \in DOMAIN d /\ x \in Range(d[m.hash])
    BY <1>4, <2>2
  <2> QED
    BY <2>1, <2>3 DEF Holding
<1>7. NewestInv(d, m)
  BY <1>1, <1>5, <1>6 DEF NewestInv
<1> QED
  BY <1>2, <1>3, <1>4, <1>5, <1>7 DEF ServingInv

(***************************************************************************)
(* Peers in messages.                                                      *)
(***************************************************************************)
LEMMA SequenceOf ==
    ASSUME NEW E, NEW F, NEW s \in Seq(E), Range(s) \subseteq F
    PROVE  s \in Seq(F)
<1>1. PICK n \in Nat : n = Len(s) /\ DOMAIN s = 1 .. n
  OBVIOUS
<1>2. \A i \in 1 .. n : s[i] \in F
  BY <1>1 DEF Range
<1>3. s = [i \in 1 .. n |-> s[i]]
  BY <1>1
<1> QED
  BY <1>2, <1>3

\* What is decoded are the public endpoints of a string.
LEMMA DecodeIs ==
    ASSUME NEW b \in CompactPeers
    PROVE  /\ decode_compact(b) \in Seq(PublicAddress)
           /\ ~b.cut => Range(decode_compact(b)) = {a \in Range(b.entries) : is_public_endpoint(a)}
<1>1. b.entries \in Seq(Address) /\ b.cut \in BOOLEAN
  BY DEF CompactPeers
<1>2. CASE b.cut
  <2>1. decode_compact(b) = <<>>
    BY <1>2 DEF decode_compact
  <2> QED
    BY <1>2, <2>1
<1>3. CASE ~b.cut
  <2>1. PICK s \in Seq(Address) : s = b.entries
    BY <1>1
  <2>2. PICK n \in Nat : n = Len(s) /\ DOMAIN s = 1 .. n
    OBVIOUS
  <2>3. PICK places \in SUBSET (1 .. n) : places = {i \in 1 .. n : is_public_endpoint(s[i])}
    OBVIOUS
  <2>4. PICK p : p = Picked(s, places)
    OBVIOUS
  <2>5. decode_compact(b) = p
    BY <1>3, <2>1, <2>2, <2>3, <2>4 DEF decode_compact
  <2>6. p \in Seq(Address) /\ Range(p) = {s[i] : i \in places}
    BY <2>2, <2>4, PickedHolds
  <2>7. Range(p) = {a \in Range(s) : is_public_endpoint(a)}
    BY <2>2, <2>3, <2>6 DEF Range
  <2>8. \A a \in Range(s) : a \in Address
    BY <2>2 DEF Range
  <2>9. Range(p) \subseteq PublicAddress
    BY <2>7, <2>8, PublicIs
  <2>10. p \in Seq(PublicAddress)
    BY <2>6, <2>9, SequenceOf
  <2> QED
    BY <2>1, <2>5, <2>7, <2>10
<1> QED
  BY <1>1, <1>2, <1>3

\* The peers of a list of strings.
Decoded(strings) == FlattenSeq([i \in DOMAIN strings |-> decode_compact(strings[i][2])])

LEMMA DecodedIs ==
    ASSUME NEW V, NEW strings \in Seq(V), \A v \in Range(strings) : v[2] \in CompactPeers
    PROVE  /\ Decoded(strings) \in Seq(PublicAddress)
           /\ Range(Decoded(strings)) = UNION {Range(decode_compact(v[2])) : v \in Range(strings)}
<1>1. PICK n \in Nat : n = Len(strings) /\ DOMAIN strings = 1 .. n
  OBVIOUS
<1>2. \A i \in 1 .. n : decode_compact(strings[i][2]) \in Seq(PublicAddress)
  BY <1>1, DecodeIs DEF Range
<1>3. PICK P : P = [i \in DOMAIN strings |-> decode_compact(strings[i][2])]
  OBVIOUS
<1>4. DOMAIN P = 1 .. n /\ \A i \in 1 .. n : P[i] = decode_compact(strings[i][2])
  BY <1>1, <1>3
<1>5. P \in Seq(Seq(PublicAddress)) /\ Len(P) = n
  <2>1. P = [i \in 1 .. n |-> P[i]] /\ \A i \in 1 .. n : P[i] \in Seq(PublicAddress)
    BY <1>1, <1>2, <1>3, <1>4
  <2> QED
    BY <2>1
<1>6. /\ FlattenSeq(P) \in Seq(PublicAddress)
      /\ Range(FlattenSeq(P)) = UNION {Range(P[i]) : i \in 1 .. n}
  BY <1>5, FlattenHolds
<1>7. {Range(P[i]) : i \in 1 .. n} = {Range(decode_compact(v[2])) : v \in Range(strings)}
  <2>1. Range(strings) = {strings[i] : i \in 1 .. n}
    BY <1>1 DEF Range
  <2> QED
    BY <1>4, <2>1
<1>8. Decoded(strings) = FlattenSeq(P)
  BY <1>3 DEF Decoded
<1> QED
  BY <1>6, <1>7, <1>8

\* The strings among the values of an answer.
StringsIn(r) ==
    IF Has(r, "values", "list")
    THEN Picked(r["values"][2], {i \in DOMAIN r["values"][2] : r["values"][2][i][1] = "bytes"})
    ELSE IF Has(r, "values", "bytes") THEN <<r["values"]>> ELSE <<>>

LEMMA PeersAreDecoded == ASSUME NEW r PROVE PeersIn(r) = Decoded(StringsIn(r))
BY Zenon DEF PeersIn, StringsIn, Decoded

\* The values of an answer, if they are a list.
ListOf(V, r) == Has(r, "values", "list") /\ r["values"][2] \in Seq(V)

LEMMA StringsOfList ==
    ASSUME NEW V, NEW r, ListOf(V, r)
    PROVE  /\ StringsIn(r) \in Seq(V)
           /\ Range(StringsIn(r)) = {v \in Range(r["values"][2]) : v[1] = "bytes"}
<1>1. PICK s \in Seq(V) : s = r["values"][2]
  BY DEF ListOf
<1>2. PICK n \in Nat : n = Len(s) /\ DOMAIN s = 1 .. n
  OBVIOUS
<1>3. PICK places \in SUBSET (1 .. n) : places = {i \in 1 .. n : s[i][1] = "bytes"}
  OBVIOUS
<1>4. PICK p : p = Picked(s, places)
  OBVIOUS
<1>5. StringsIn(r) = p
  BY <1>1, <1>2, <1>3, <1>4 DEF StringsIn, ListOf
<1>6. p \in Seq(V) /\ Range(p) = {s[i] : i \in places}
  BY <1>2, <1>4, PickedHolds
<1>7. Range(p) = {v \in Range(s) : v[1] = "bytes"}
  BY <1>2, <1>3, <1>6 DEF Range
<1> QED
  BY <1>1, <1>5, <1>6, <1>7

LEMMA PeersArePublic ==
    ASSUME NEW r \in PeerAnswers
    PROVE  PeersIn(r) \in Seq(PublicAddress)
<1>1. /\ Has(r, "values", "bytes") => r["values"][2] \in CompactPeers
      /\ Has(r, "values", "list") =>
            /\ r["values"][2] \in Seq(Range(r["values"][2]))
            /\ \A v \in Range(r["values"][2]) : v[1] = "bytes" => v[2] \in CompactPeers
  BY ServerAssumption
<1>2. PICK s : s = StringsIn(r)
  OBVIOUS
<1>3. PICK V : s \in Seq(V) /\ \A v \in Range(s) : v[2] \in CompactPeers
  <2>1. CASE Has(r, "values", "list")
    <3>1. PICK V : V = Range(r["values"][2])
      OBVIOUS
    <3>2. ListOf(V, r)
      BY <1>1, <2>1, <3>1 DEF ListOf
    <3>3. s \in Seq(V) /\ Range(s) = {v \in V : v[1] = "bytes"}
      BY <1>2, <3>1, <3>2, StringsOfList
    <3>4. \A v \in V : v[1] = "bytes" => v[2] \in CompactPeers
      BY <1>1, <2>1, <3>1
    <3> QED
      BY <3>3, <3>4
  <2>2. CASE ~Has(r, "values", "list") /\ Has(r, "values", "bytes")
    <3>1. PICK v : v = r["values"]
      OBVIOUS
    <3>2. s = <<v>>
      BY <1>2, <2>2, <3>1, Zenon DEF StringsIn
    <3>3. s \in Seq({v}) /\ Range(s) = {v}
      BY <3>2 DEF Range
    <3> QED
      BY <1>1, <2>2, <3>1, <3>3
  <2>3. CASE ~Has(r, "values", "list") /\ ~Has(r, "values", "bytes")
    <3>1. s = <<>>
      BY <1>2, <2>3, Zenon DEF StringsIn
    <3>2. s \in Seq({}) /\ Range(s) = {}
      BY <3>1, EmptyRange, EmptySeq
    <3> QED
      BY <3>2
  <2> QED
    BY <2>1, <2>2, <2>3
<1>4. Decoded(s) \in Seq(PublicAddress)
  BY <1>3, DecodedIs
<1> QED
  BY <1>2, <1>4, PeersAreDecoded

(***************************************************************************)
(* What a query makes the crawler do with its cache.                       *)
(***************************************************************************)
Arrived(q, a) == [type |-> "query", t |-> "tx", q |-> q, a |-> a, extra |-> NoExtra]

LEMMA ArrivesIs ==
    ASSUME NEW q, NEW a
    PROVE  Arrives(q, a).a = Without(a, {NotUtf8})
<1> DEFINE m == Arrived(q, a)
           d == to_bytes(m)[2]
<1>1. /\ to_bytes(m)[1] = "dict"
      /\ "y" \in DOMAIN d /\ d["y"] = Bytes("q")
      /\ "t" \in DOMAIN d /\ d["t"] = Bytes("tx")
      /\ "q" \in DOMAIN d /\ d["q"] = Bytes(q)
      /\ "a" \in DOMAIN d /\ d["a"] = Dict(a)
  BY DEF to_bytes, insert_extra, With, Dict, Arrived
<1>2. from_bytes(to_bytes(m)).a = Without(a, {NotUtf8})
  BY <1>1 DEF from_bytes, Bytes, Dict, Body, Has
<1> QED
  BY <1>2 DEF Arrives, Arrived

\* The hash in the arguments of a query is a known one.
AsksFor(a) == HasId(a, "info_hash") => field_id(a, "info_hash") \in Known

LEMMA RequestAsks ==
    ASSUME NEW token \in TokenType, NEW m \in Requests \cup Announcements[token]
    PROVE  AsksFor(m.a)
<1>1. CASE \E q : m = Arrives(q, NoExtra)
  <2>1. m.a = Without(NoExtra, {NotUtf8})
    BY <1>1, ArrivesIs
  <2>2. "info_hash" \notin DOMAIN m.a
    BY <2>1 DEF Without, NoExtra
  <2> QED
    BY <2>2 DEF AsksFor, HasId, Has
<1>2. CASE \E v \in HashArgs : m = Arrives("get_peers", [info_hash |-> v])
  <2>1. PICK v \in HashArgs : m = Arrives("get_peers", [info_hash |-> v])
    BY <1>2
  <2>2. m.a = Without([info_hash |-> v], {NotUtf8})
    BY <2>1, ArrivesIs
  <2>3. "info_hash" \in DOMAIN m.a => m.a["info_hash"] = v
    BY <2>2 DEF Without
  <2>4. v[2] \in Ids => v[2] \in Known
    BY ServerAssumption DEF Known
  <2> QED
    BY <2>3, <2>4 DEF AsksFor, HasId, Has, field_id
<1>3. CASE \E a \in AnnounceArgs : m = Arrives("announce_peer", With(a, [token |-> Bytes(token)]))
  <2>1. PICK a \in AnnounceArgs : m = Arrives("announce_peer", With(a, [token |-> Bytes(token)]))
    BY <1>3
  <2>2. m.a = Without(With(a, [token |-> Bytes(token)]), {NotUtf8})
    BY <2>1, ArrivesIs
  <2>3. "info_hash" \in DOMAIN m.a => "info_hash" \in DOMAIN a /\ m.a["info_hash"] = a["info_hash"]
    BY <2>2 DEF Without, With
  <2>4. HasId(a, "info_hash") => field_id(a, "info_hash") \in Known
    BY ServerAssumption DEF Known
  <2> QED
    BY <2>3, <2>4 DEF AsksFor, HasId, Has, field_id
<1>4. \/ \E q : m = Arrives(q, NoExtra)
      \/ \E v \in HashArgs : m = Arrives("get_peers", [info_hash |-> v])
      \/ m \in Announcements[token]
  BY DEF Requests
<1>5. Announcements[token] = {Arrives("announce_peer", With(a, [token |-> Bytes(token)])) : a \in AnnounceArgs}
  BY DEF Announcements
<1> QED
  BY <1>1, <1>2, <1>3, <1>4, <1>5

\* It caches a public peer, or expires the cache, or leaves it alone.
Does(does) ==
    /\ does.hash \in Known /\ does.peers \in Seq(PublicAddress)
    /\ does.expire => does.peers = <<>>

LEMMA SaysDoes == ASSUME NEW reply PROVE Does(Says(reply))
<1>1. /\ Says(reply).hash = Zero /\ Says(reply).peers = <<>>
  BY DEF Says
<1>2. <<>> \in Seq(PublicAddress)
  BY EmptySeq
<1> QED
  BY <1>1, <1>2 DEF Does, Known

LEMMA GetPeersDoes ==
    ASSUME NEW a, AsksFor(a), NEW t, NEW src
    PROVE  Does(get_peers_response(a, t, src))
<1>1. CASE ~HasId(a, "info_hash")
  <2>1. \E reply : get_peers_response(a, t, src) = Says(reply)
    BY <1>1, Zenon DEF get_peers_response
  <2> QED
    BY <2>1, SaysDoes
<1>2. CASE HasId(a, "info_hash")
  <2>1. PICK reply : get_peers_response(a, t, src)
                       = [hash |-> field_id(a, "info_hash"), peers |-> <<>>, expire |-> TRUE, reply |-> reply]
    BY <1>2, Zenon DEF get_peers_response
  <2>2. PICK does : does = get_peers_response(a, t, src)
    OBVIOUS
  <2>3. does.hash = field_id(a, "info_hash") /\ does.peers = <<>>
    BY <2>1, <2>2
  <2>4. <<>> \in Seq(PublicAddress)
    BY EmptySeq
  <2>5. Does(does)
    BY <1>2, <2>3, <2>4 DEF Does, AsksFor
  <2> QED
    BY <2>2, <2>5
<1> QED
  BY <1>1, <1>2

LEMMA AnnounceDoes ==
    ASSUME NEW a, AsksFor(a), NEW t, NEW src \in Address, is_public_endpoint(src)
    PROVE  Does(announce_peer_response(a, t, src))
<1> DEFINE port == AnnouncedPort(a, src)
<1>1. \/ \E reply : announce_peer_response(a, t, src) = Says(reply)
      \/ /\ HasId(a, "info_hash") /\ port # 0
         /\ \E reply : announce_peer_response(a, t, src)
               = [hash |-> field_id(a, "info_hash"), peers |-> <<[ip |-> src.ip, port |-> port]>>,
                  expire |-> FALSE, reply |-> reply]
  BY Zenon DEF announce_peer_response
<1>2. CASE \E reply : announce_peer_response(a, t, src) = Says(reply)
  BY <1>2, SaysDoes
<1>3. CASE /\ HasId(a, "info_hash") /\ port # 0
           /\ \E reply : announce_peer_response(a, t, src)
               = [hash |-> field_id(a, "info_hash"), peers |-> <<[ip |-> src.ip, port |-> port]>>,
                  expire |-> FALSE, reply |-> reply]
  <2>1. MaxPort \in Nat
    BY DEF MaxPort
  <2>2. src.port \in 0 .. MaxPort /\ src.ip \in PublicIps
    BY DEF Address, is_public_endpoint
  <2>3. port \in 1 .. MaxPort
    <3>1. port = src.port \/ port \in 1 .. MaxPort \/ port = 0
      BY DEF AnnouncedPort
    <3> HIDE DEF port
    <3> QED
      BY <1>3, <2>1, <2>2, <3>1
  <2>4. PICK peer : peer = [ip |-> src.ip, port |-> port]
    OBVIOUS
  <2>5. peer \in PublicAddress
    BY <2>2, <2>3, <2>4 DEF PublicAddress
  <2>6. PICK reply : announce_peer_response(a, t, src)
               = [hash |-> field_id(a, "info_hash"), peers |-> <<peer>>,
                  expire |-> FALSE, reply |-> reply]
    BY <1>3, <2>4
  <2>7. PICK does : does = announce_peer_response(a, t, src)
    OBVIOUS
  <2>8. does.hash = field_id(a, "info_hash") /\ does.peers = <<peer>> /\ ~does.expire
    BY <2>6, <2>7
  <2>9. <<peer>> \in Seq(PublicAddress)
    BY <2>5
  <2>10. Does(does)
    BY <1>3, <2>8, <2>9 DEF Does, AsksFor
  <2> QED
    BY <2>7, <2>10
<1> QED
  BY <1>1, <1>2, <1>3

LEMMA QueryDoes ==
    ASSUME NEW m, AsksFor(m.a), NEW src \in Address, is_public_endpoint(src)
    PROVE  Does(handle_query(m, src))
<1>1. \/ \E reply : handle_query(m, src) = Says(reply)
      \/ handle_query(m, src) = get_peers_response(m.a, m.t, src)
      \/ handle_query(m, src) = announce_peer_response(m.a, m.t, src)
  BY Zenon DEF handle_query
<1>2. Does(get_peers_response(m.a, m.t, src)) /\ Does(announce_peer_response(m.a, m.t, src))
  BY GetPeersDoes, AnnounceDoes
<1> QED
  BY <1>1, <1>2, SaysDoes

(***************************************************************************)
(* The steps, as the cache sees them.                                      *)
(***************************************************************************)
LEMMA HandleQueryServing ==
    ASSUME ServingInv, TokenInv, NEW src \in Sources, HandleQuery(src)
    PROVE  ServingInv'
<1>1. is_public_endpoint(src) /\ src \in Address
  BY ServerAssumption DEF HandleQuery
<1>2. held.token \in TokenType
  BY DEF TokenInv, TokenType
<1>3. PICK m \in Requests \cup Announcements[held.token] :
        /\ cache' \in IF handle_query(m, src).expire THEN {expire_peer_cache(cache)}
                      ELSE cache_peers(cache, handle_query(m, src).hash, handle_query(m, src).peers)
        /\ newest' = Newest(handle_query(m, src).hash, handle_query(m, src).peers)
  BY DEF HandleQuery
<1>4. AsksFor(m.a)
  BY <1>2, RequestAsks
<1>5. PICK does : does = handle_query(m, src)
  OBVIOUS
<1>6. Does(does)
  BY <1>1, <1>4, <1>5, QueryDoes
<1>7. CASE does.expire
  <2>1. cache' = expire_peer_cache(cache)
    BY <1>3, <1>5, <1>7
  <2>2. newest' = newest
    BY <1>3, <1>5, <1>6, <1>7 DEF Does, Newest
  <2> QED
    BY <2>1, <2>2, ExpiryKeeps
<1>8. CASE ~does.expire
  <2>1. cache' \in cache_peers(cache, does.hash, does.peers) /\ newest' = Newest(does.hash, does.peers)
    BY <1>3, <1>5, <1>8
  <2> QED
    BY <1>6, <2>1, CachingKeeps DEF Does
<1> QED
  BY <1>7, <1>8

LEMMA HandlePeersServing ==
    ASSUME ServingInv, HandlePeers
    PROVE  ServingInv'
<1>1. PICK h \in Hashes, r \in DOMAIN Answered :
        cache' \in cache_peers(cache, h, Answered[r]) /\ newest' = Newest(h, Answered[r])
  BY DEF HandlePeers
<1>2. r \in PeerAnswers /\ Answered[r] = PeersIn(r)
  BY DEF Answered
<1>3. Answered[r] \in Seq(PublicAddress)
  BY <1>2, PeersArePublic
<1>4. h \in Known
  BY DEF Known
<1> QED
  BY <1>1, <1>3, <1>4, CachingKeeps

\* Time passes for each peer of an entry.
Aged(e) == [i \in DOMAIN e |-> [e[i] EXCEPT !.left = Down(@)]]

LEMMA AgedIs ==
    ASSUME NEW e, EntryInv(e)
    PROVE  /\ EntryInv(Aged(e)) /\ (e # <<>> => Aged(e) # <<>>)
           /\ \A p, l : [peer |-> p, left |-> l] \in Range(e) => [peer |-> p, left |-> Down(l)] \in Range(Aged(e))
<1>1. PICK n \in Nat : n = Len(e) /\ DOMAIN e = 1 .. n /\ e \in Seq(Cached)
  BY DEF EntryInv
<1>2. PICK a : a = Aged(e)
  OBVIOUS
<1>3. ASSUME NEW c \in Cached
      PROVE  /\ [c EXCEPT !.left = Down(@)] = [peer |-> c.peer, left |-> Down(c.left)]
             /\ [c EXCEPT !.left = Down(@)] \in Cached
  <2>1. c.left \in Nat /\ Down(c.left) \in Nat /\ c.peer \in PublicAddress
    BY DEF Cached, Down
  <2>2. c = [peer |-> c.peer, left |-> c.left]
    BY DEF Cached
  <2>3. PICK x \in Nat : x = Down(c.left)
    BY <2>1
  <2>4. [c EXCEPT !.left = Down(@)] = [c EXCEPT !.left = x]
    BY <2>3
  <2>5. [c EXCEPT !.left = x] = [peer |-> c.peer, left |-> x]
    BY <2>2
  <2> QED
    BY <2>1, <2>3, <2>4, <2>5 DEF Cached
<1>4. \A i \in 1 .. n : e[i] \in Cached
  BY <1>1
<1>5. DOMAIN a = 1 .. n /\ \A i \in 1 .. n : a[i] = [peer |-> e[i].peer, left |-> Down(e[i].left)]
  BY <1>1, <1>2, <1>3, <1>4 DEF Aged
<1>6. a = [i \in 1 .. n |-> a[i]] /\ \A i \in 1 .. n : a[i] \in Cached
  BY <1>1, <1>2, <1>3, <1>4 DEF Aged
<1>7. a \in Seq(Cached) /\ Len(a) = n
  BY <1>6
<1>8. Distinct(a)
  <2>1. \A i \in 1 .. n : a[i].peer = e[i].peer
    BY <1>5
  <2> QED
    BY <1>1, <1>5, <2>1 DEF Distinct, EntryInv
<1>9. EntryInv(a)
  BY <1>1, <1>7, <1>8 DEF EntryInv
<1>10. e # <<>> => a # <<>>
  BY <1>1, <1>7, EmptySeq
<1>11. ASSUME NEW p, NEW l, [peer |-> p, left |-> l] \in Range(e)
       PROVE  [peer |-> p, left |-> Down(l)] \in Range(a)
  <2>1. PICK i \in 1 .. n : e[i] = [peer |-> p, left |-> l]
    BY <1>1, <1>11 DEF Range
  <2>2. e[i].peer = p /\ e[i].left = l
    BY <2>1
  <2>3. a[i] = [peer |-> p, left |-> Down(l)]
    BY <1>5, <2>2
  <2> QED
    BY <1>5, <2>3 DEF Range
<1> QED
  BY <1>2, <1>9, <1>10, <1>11

LEMMA TickServing ==
    ASSUME ServingInv, Tick
    PROVE  ServingInv'
<1>1. PICK c : c = cache
  OBVIOUS
<1>2. PICK n : n = newest
  OBVIOUS
<1>3. CacheInv(c) /\ NewestInv(c, n)
  BY <1>1, <1>2 DEF ServingInv
<1>4. PICK d : d = [h \in DOMAIN c |-> Aged(c[h])]
  OBVIOUS
<1>5. cache' = d
  BY <1>1, <1>4 DEF Tick, Aged
<1>6. DOMAIN d = DOMAIN c /\ \A h \in DOMAIN c : d[h] = Aged(c[h])
  BY <1>4
<1>7. CacheInv(d)
  BY <1>3, <1>6, AgedIs DEF CacheInv
<1>8. n.left \in Nat /\ n.hash \in Known /\ n.peer \in PublicAddress \cup {Zero}
      /\ n = [hash |-> n.hash, peer |-> n.peer, left |-> n.left]
  BY <1>3 DEF NewestInv
<1>9. PICK x \in Nat : x = Down(n.left) /\ (x > 0 => n.left > 0)
  <2>1. Down(n.left) \in Nat /\ (Down(n.left) > 0 => n.left > 0)
    BY <1>8 DEF Down
  <2> QED
    BY <2>1
<1>10. PICK m : m = [hash |-> n.hash, peer |-> n.peer, left |-> x]
  OBVIOUS
<1>11. newest' = m
  <2>1. newest' = [n EXCEPT !.left = Down(@)]
    BY <1>2 DEF Tick
  <2>2. [n EXCEPT !.left = Down(@)] = [n EXCEPT !.left = x]
    BY <1>9
  <2>3. [n EXCEPT !.left = x] = m
    BY <1>8, <1>10
  <2> QED
    BY <2>1, <2>2, <2>3
<1>12. m.left > 0 => Holding(d, m.hash, m.peer, m.left)
  <2> SUFFICES ASSUME m.left > 0 PROVE Holding(d, m.hash, m.peer, m.left)
    OBVIOUS
  <2>1. m.left = x /\ m.hash = n.hash /\ m.peer = n.peer
    BY <1>10
  <2>2. n.hash \in DOMAIN c /\ [peer |-> n.peer, left |-> n.left] \in Range(c[n.hash])
    BY <1>3, <1>9, <2>1 DEF NewestInv, Holding
  <2>3. EntryInv(c[n.hash])
    BY <1>3, <2>2 DEF CacheInv
  <2>4. [peer |-> n.peer, left |-> Down(n.left)] \in Range(Aged(c[n.hash]))
    BY <2>2, <2>3, AgedIs
  <2> QED
    BY <1>6, <1>9, <2>1, <2>2, <2>4 DEF Holding
<1>13. NewestInv(d, m)
  BY <1>8, <1>10, <1>12 DEF NewestInv
<1> QED
  BY <1>5, <1>7, <1>11, <1>13 DEF ServingInv

LEMMA ServingNext ==
    ASSUME ServingInv, TokenInv, [Next]_vars
    PROVE  ServingInv'
<1>1. ASSUME UNCHANGED serving PROVE ServingInv'
  BY <1>1 DEF serving, ServingInv
<1>2. ASSUME NEW src \in Sources, HandleQuery(src) PROVE ServingInv'
  BY <1>2, HandleQueryServing
<1>3. CASE HandlePeers
  BY <1>3, HandlePeersServing
<1>4. CASE RefreshTick
  BY <1>4, ExpiryKeeps DEF RefreshTick
<1>5. CASE Tick
  BY <1>5, TickServing
<1>6. ASSUME NEW n \in Samplers, HandleSamples(n) \/ LoseSamples(n) PROVE UNCHANGED serving
  BY <1>6 DEF HandleSamples, LoseSamples
<1>7. CASE HandleMalformed \/ PublishNext \/ SampleRandomNodes \/ StatsTick
           \/ FetcherReceives \/ FetcherEmits \/ PersisterReceives
  BY <1>1, <1>7 DEF HandleMalformed, PublishNext, SampleRandomNodes, StatsTick,
                    FetcherReceives, FetcherEmits, PersisterReceives
<1>8. CASE UNCHANGED vars
  BY <1>1, <1>8 DEF vars
<1> QED
  BY <1>1, <1>2, <1>3, <1>4, <1>5, <1>6, <1>7, <1>8 DEF Next

LEMMA ServingInit == Init => ServingInv
<1> SUFFICES ASSUME Init PROVE ServingInv
  OBVIOUS
<1>1. DOMAIN cache = {}
  BY DEF Init, NoExtra
<1>2. Cardinality({}) = 0
  BY FS_EmptySet
<1>3. CacheInv(cache)
  BY <1>1, <1>2, CacheLimits DEF CacheInv
<1>4. newest = [hash |-> Zero, peer |-> Zero, left |-> 0]
  BY DEF Init
<1>5. NewestInv(cache, newest)
  BY <1>4 DEF NewestInv, Known
<1> QED
  BY <1>3, <1>5 DEF ServingInv

(***************************************************************************)
(* What get_peers answers from the cache.                                  *)
(***************************************************************************)
\* A string of compact entries, as a value.
Strings == {Bytes(b) : b \in CompactPeers}

LEMMA EncodedIs ==
    ASSUME NEW peer \in PublicAddress
    PROVE  /\ encode_compact(<<peer>>) \in Strings
           /\ encode_compact(<<peer>>)[1] = "bytes"
           /\ Range(decode_compact(encode_compact(<<peer>>)[2])) = {peer}
<1>1. PICK b : b = [entries |-> <<peer>>, cut |-> FALSE]
  OBVIOUS
<1>2. peer \in Address /\ is_public_endpoint(peer)
  <2>1. MaxPort \in Nat
    BY DEF MaxPort
  <2>2. peer.ip \in PublicIps /\ peer.port \in 1 .. MaxPort /\ peer = [ip |-> peer.ip, port |-> peer.port]
    BY DEF PublicAddress
  <2>3. peer.port \in 0 .. MaxPort /\ peer.port # 0
    BY <2>1, <2>2
  <2>4. PublicIps \subseteq Ips
    BY ServerAssumption
  <2> QED
    BY <2>2, <2>3, <2>4 DEF Address, is_public_endpoint
<1>3. <<peer>> \in Seq(Address)
  BY <1>2
<1>4. b \in CompactPeers /\ ~b.cut /\ b.entries = <<peer>>
  BY <1>1, <1>3 DEF CompactPeers
<1>5. Range(<<peer>>) = {peer}
  BY DEF Range
<1>6. Range(decode_compact(b)) = {peer}
  <2>1. Range(decode_compact(b)) = {a \in Range(b.entries) : is_public_endpoint(a)}
    BY <1>4, DecodeIs
  <2> QED
    BY <1>2, <1>4, <1>5, <2>1
<1>7. encode_compact(<<peer>>) = <<"bytes", b>>
  BY <1>1 DEF encode_compact, Bytes
<1> QED
  BY <1>4, <1>6, <1>7 DEF Strings, Bytes

\* The peers of an entry, as the values of an answer.
Encoded(e) == [i \in DOMAIN e |-> encode_compact(<<e[i].peer>>)]

LEMMA ListedIs ==
    ASSUME NEW e, EntryInv(e), NEW r, "values" \in DOMAIN r, r["values"] = List(Encoded(e))
    PROVE  Range(PeersIn(r)) = {c.peer : c \in Range(e)}
<1>1. PICK n \in Nat : n = Len(e) /\ DOMAIN e = 1 .. n /\ e \in Seq(Cached)
  BY DEF EntryInv
<1>2. \A i \in 1 .. n : e[i].peer \in PublicAddress
  <2>1. \A i \in 1 .. n : e[i] \in Cached
    BY <1>1
  <2>2. \A x \in Cached : x.peer \in PublicAddress
    BY DEF Cached
  <2> QED
    BY <2>1, <2>2
<1>3. PICK s : s = Encoded(e)
  OBVIOUS
<1>4. DOMAIN s = 1 .. n /\ \A i \in 1 .. n : s[i] = encode_compact(<<e[i].peer>>)
  BY <1>1, <1>3 DEF Encoded
<1>5. \A i \in 1 .. n : /\ s[i] \in Strings /\ s[i][1] = "bytes"
                        /\ Range(decode_compact(s[i][2])) = {e[i].peer}
  BY <1>2, <1>4, EncodedIs
<1>6. s \in Seq(Strings)
  <2>1. s = [i \in 1 .. n |-> s[i]]
    BY <1>1, <1>3, <1>4 DEF Encoded
  <2> QED
    BY <1>5, <2>1
<1>7. Has(r, "values", "list") /\ r["values"][2] = s
  BY <1>3 DEF Has, List
<1>8. ListOf(Strings, r)
  BY <1>6, <1>7 DEF ListOf
<1>9. PICK p : p = StringsIn(r)
  OBVIOUS
<1>10. p \in Seq(Strings) /\ Range(p) = {v \in Range(s) : v[1] = "bytes"}
  BY <1>7, <1>8, <1>9, StringsOfList
<1>11. Range(s) = {s[i] : i \in 1 .. n}
  BY <1>4 DEF Range
<1>12. Range(p) = {s[i] : i \in 1 .. n}
  BY <1>5, <1>10, <1>11
<1>13. \A v \in Range(p) : v[2] \in CompactPeers
  <2>1. \A v \in Strings : v[2] \in CompactPeers
    BY DEF Strings, Bytes
  <2> QED
    BY <1>5, <1>12, <2>1
<1>14. Range(Decoded(p)) = UNION {Range(decode_compact(v[2])) : v \in Range(p)}
  BY <1>10, <1>13, DecodedIs
<1>15. {Range(decode_compact(v[2])) : v \in Range(p)} = {{e[i].peer} : i \in 1 .. n}
  BY <1>5, <1>12
<1>16. UNION {{e[i].peer} : i \in 1 .. n} = {c.peer : c \in Range(e)}
  <2>1. Range(e) = {e[i] : i \in 1 .. n}
    BY <1>1 DEF Range
  <2> QED
    BY <2>1
<1> QED
  BY <1>9, <1>14, <1>15, <1>16, PeersAreDecoded

LEMMA NoneListed ==
    ASSUME NEW r, "values" \notin DOMAIN r
    PROVE  Range(PeersIn(r)) = {}
<1>1. PICK s : s = StringsIn(r)
  OBVIOUS
<1>2. s = <<>>
  BY <1>1, Zenon DEF StringsIn, Has
<1>3. s \in Seq({}) /\ Range(s) = {}
  BY <1>2, EmptyRange, EmptySeq
<1>4. Range(Decoded(s)) = UNION {Range(decode_compact(v[2])) : v \in Range(s)}
  BY <1>3, DecodedIs
<1>5. Range(Decoded(s)) = {}
  BY <1>3, <1>4
<1> QED
  BY <1>1, <1>5, PeersAreDecoded

\* What is read in a response are the values that were put in it.
LEMMA ResponseIs ==
    ASSUME NEW t, NEW values, NEW r, r = from_bytes(to_bytes(response_message(OurId, t, values))).r
    PROVE  /\ "id" \in DOMAIN r /\ r["id"] = Bytes(OurId)
           /\ \A k \in {"values", "nodes"} : /\ k \in DOMAIN r <=> k \in DOMAIN values
                                             /\ k \in DOMAIN r => r[k] = values[k]
<1> DEFINE m == response_message(OurId, t, values)
           w == With(values, [id |-> Bytes(OurId)])
           d == to_bytes(m)[2]
<1>1. /\ to_bytes(m)[1] = "dict"
      /\ "y" \in DOMAIN d /\ d["y"] = Bytes("r")
      /\ "t" \in DOMAIN d /\ d["t"] = Bytes(t)
      /\ "r" \in DOMAIN d /\ d["r"] = Dict(w)
  BY DEF to_bytes, response_message, insert_extra, With, Dict
<1>2. r = Without(w, {NotUtf8})
  BY <1>1 DEF from_bytes, Bytes, Dict, Body, Has
<1>3. NotUtf8 # "id" /\ NotUtf8 # "values" /\ NotUtf8 # "nodes"
  BY ServerAssumption
<1>4. DOMAIN w = DOMAIN values \cup {"id"} /\ w["id"] = Bytes(OurId)
      /\ \A k \in DOMAIN values : k # "id" => w[k] = values[k]
  BY DEF With
<1>5. DOMAIN r = DOMAIN w \ {NotUtf8} /\ \A k \in DOMAIN r : r[k] = w[k]
  BY <1>2 DEF Without
<1> QED
  BY <1>3, <1>4, <1>5

\* The peers of a hash whose time has not run out.
Live(c, h) ==
    {p \in {c[h][i] : i \in IF h \in DOMAIN c THEN DOMAIN c[h] ELSE {}} : p.left > 0}

LEMMA LiveIs ==
    ASSUME NEW c, NEW h
    PROVE  Live(c, h) = IF h \in DOMAIN c THEN {p \in Range(c[h]) : p.left > 0} ELSE {}
BY DEF Live, Range

\* An answer from the cache, and what is read in it.
Serves(r, peers) ==
    /\ Range(PeersIn(r)) = peers
    /\ response_has_shape(r, "get_peers")
    /\ Has(r, "values", "list") => peers # {}

LEMMA GetPeersServes ==
    ASSUME CacheInv(cache), NEW h \in Hashes, NEW src
    PROVE  Serves(from_bytes(to_bytes(get_peers_response([info_hash |-> Bytes(h)], "tx", src).reply)).r,
                  {p.peer : p \in Live(cache, h)})
<1>1. PICK a : a = [info_hash |-> Bytes(h)]
  OBVIOUS
<1>2. HasId(a, "info_hash") /\ field_id(a, "info_hash") = h
  <2>1. h \in Ids
    BY ServerAssumption
  <2> QED
    BY <1>1, <2>1 DEF HasId, Has, field_id, Bytes
<1>3. PICK fresh : fresh = expire_peer_cache(cache)
  OBVIOUS
<1>4. /\ CacheInv(fresh)
      /\ \A g : g \in DOMAIN fresh <=> g \in DOMAIN cache /\ \E x \in Range(cache[g]) : x.left > 0
      /\ \A g \in DOMAIN fresh : Range(fresh[g]) = {x \in Range(cache[g]) : x.left > 0}
  BY <1>3, ExpiryIs
<1>5. PICK body : body = IF h \in DOMAIN fresh THEN [values |-> List(Encoded(fresh[h]))] ELSE closest_nodes
  OBVIOUS
<1>6. PICK values : values = With(body, [token |-> Bytes(make_token(src.ip))])
  OBVIOUS
<1>7. get_peers_response(a, "tx", src).reply = response_message(OurId, "tx", values)
  <2>1. get_peers_response(a, "tx", src)
          = [hash |-> h, peers |-> <<>>, expire |-> TRUE,
             reply |-> response_message(OurId, "tx", values)]
    BY <1>2, <1>3, <1>5, <1>6, Zenon DEF get_peers_response, Encoded
  <2> QED
    BY <2>1
<1>8. PICK r : r = from_bytes(to_bytes(response_message(OurId, "tx", values))).r
  OBVIOUS
<1>9. /\ "id" \in DOMAIN r /\ r["id"] = Bytes(OurId)
      /\ \A k \in {"values", "nodes"} : /\ k \in DOMAIN r <=> k \in DOMAIN values
                                        /\ k \in DOMAIN r => r[k] = values[k]
  BY <1>8, ResponseIs
<1>10. /\ DOMAIN values = DOMAIN body \cup {"token"}
       /\ \A k \in DOMAIN body : k # "token" => values[k] = body[k]
  BY <1>6 DEF With
<1>11. HasId(r, "id")
  <2>1. OurId \in Ids
    BY ServerAssumption
  <2> QED
    BY <1>9, <2>1 DEF HasId, Has, Bytes
<1>12. CASE h \in DOMAIN fresh
  <2>1. DOMAIN body = {"values"} /\ body["values"] = List(Encoded(fresh[h]))
    BY <1>5, <1>12
  <2>2. "values" \in DOMAIN r /\ r["values"] = List(Encoded(fresh[h]))
    BY <1>9, <1>10, <2>1
  <2>3. EntryInv(fresh[h])
    BY <1>4, <1>12 DEF CacheInv
  <2>4. Range(PeersIn(r)) = {c.peer : c \in Range(fresh[h])}
    BY <2>2, <2>3, ListedIs
  <2>5. Range(fresh[h]) = Live(cache, h) /\ Live(cache, h) # {}
    BY <1>4, <1>12, LiveIs
  <2>6. response_has_shape(r, "get_peers")
    BY <1>11, <2>2 DEF response_has_shape, Has, List
  <2>7. Serves(r, {p.peer : p \in Live(cache, h)})
    BY <2>4, <2>5, <2>6 DEF Serves
  <2> QED
    BY <1>1, <1>7, <1>8, <2>7
<1>13. CASE h \notin DOMAIN fresh
  <2>1. DOMAIN body = {"nodes"} /\ body["nodes"][1] = "bytes"
    BY <1>5, <1>13 DEF closest_nodes, Bytes
  <2>2. "values" \notin DOMAIN r /\ "nodes" \in DOMAIN r /\ r["nodes"][1] = "bytes"
    BY <1>9, <1>10, <2>1
  <2>3. Range(PeersIn(r)) = {}
    BY <2>2, NoneListed
  <2>4. Live(cache, h) = {}
    BY <1>4, <1>13, LiveIs
  <2>5. response_has_shape(r, "get_peers") /\ ~Has(r, "values", "list")
    BY <1>11, <2>2 DEF response_has_shape, Has
  <2>6. {p.peer : p \in Live(cache, h)} = {}
    BY <2>4
  <2>7. Serves(r, {p.peer : p \in Live(cache, h)})
    BY <2>3, <2>5, <2>6 DEF Serves
  <2> QED
    BY <1>1, <1>7, <1>8, <2>7
<1> QED
  BY <1>12, <1>13

LEMMA NewestLives ==
    ASSUME ServingInv, newest.left > 0
    PROVE  newest.peer \in {p.peer : p \in Live(cache, newest.hash)}
<1>1. PICK x : x = [peer |-> newest.peer, left |-> newest.left]
  OBVIOUS
<1>2. newest.hash \in DOMAIN cache /\ x \in Range(cache[newest.hash])
  BY <1>1 DEF ServingInv, NewestInv, Holding
<1>3. x.left > 0 /\ x.peer = newest.peer
  BY <1>1
<1>4. x \in Live(cache, newest.hash)
  BY <1>2, <1>3, LiveIs
<1> QED
  BY <1>3, <1>4

LEMMA ServedPeersLiveHolds == ServingInv => ServedPeersLive
<1> SUFFICES ASSUME ServingInv PROVE ServedPeersLive
  OBVIOUS
<1>1. CacheInv(cache)
  BY DEF ServingInv
<1>2. \A h \in DOMAIN cache :
        /\ cache[h] # <<>>
        /\ \A i, j \in DOMAIN cache[h] : cache[h][i].peer = cache[h][j].peer => i = j
  BY <1>1 DEF CacheInv, EntryInv, Distinct
<1>3. PICK src : src = CHOOSE s \in Sources : TRUE
  OBVIOUS
<1>4. ASSUME NEW h \in Hashes, NEW r,
             r = from_bytes(to_bytes(get_peers_response([info_hash |-> Bytes(h)], "tx", src).reply)).r
      PROVE  /\ Range(PeersIn(r)) = {p.peer : p \in Live(cache, h)}
             /\ response_has_shape(r, "get_peers")
             /\ Has(r, "values", "list") => Range(PeersIn(r)) # {}
             /\ newest.hash = h /\ newest.left > 0 => newest.peer \in Range(PeersIn(r))
  <2>1. Serves(r, {p.peer : p \in Live(cache, h)})
    BY <1>1, <1>4, GetPeersServes
  <2>2. newest.left > 0 => newest.peer \in {p.peer : p \in Live(cache, newest.hash)}
    BY NewestLives
  <2> QED
    BY <2>1, <2>2 DEF Serves
<1> QED
  BY <1>2, <1>3, <1>4, Zenon DEF ServedPeersLive, Live

(***************************************************************************)
(* Sizes and counts.                                                       *)
(***************************************************************************)
LEMMA ShortIsBounded ==
    ASSUME NEW S, NEW n \in Nat, NEW s \in Short(S, n)
    PROVE  s \in BoundedSeq(S, n)
<1>1. PICK m \in Nat : m = Len(s) /\ s \in [1 .. m -> S] /\ m <= n
  BY DEF Short
<1>2. m \in 0 .. n
  BY <1>1
<1> QED
  BY <1>1, <1>2 DEF BoundedSeq, SeqOf

LEMMA ShortAppend ==
    ASSUME NEW S, NEW n \in Nat, NEW s \in Short(S, n), NEW e \in S, Len(s) < n
    PROVE  Append(s, e) \in Short(S, n)
<1>1. s \in Seq(S) /\ Len(s) \in Nat
  BY DEF Short
<1>2. Append(s, e) \in Seq(S) /\ Len(Append(s, e)) = Len(s) + 1
  BY <1>1
<1> QED
  BY <1>1, <1>2 DEF Short

LEMMA ShortTail ==
    ASSUME NEW S, NEW n \in Nat, NEW s \in Short(S, n), s # <<>>
    PROVE  Tail(s) \in Short(S, n) /\ Head(s) \in S
<1>1. s \in Seq(S) /\ Len(s) \in Nat /\ Len(s) <= n
  BY DEF Short
<1>2. Tail(s) \in Seq(S) /\ Len(Tail(s)) = Len(s) - 1 /\ Head(s) \in S
  BY <1>1, HeadTailProperties
<1> QED
  BY <1>1, <1>2 DEF Short

\* What was published and counted.
Counted(m, found_, discovered_) == m \in Fitting /\ m.found = found_ /\ m.discovered = discovered_

LEMMA OtherStats ==
    ASSUME NEW n \in Fitting, NEW d \in Nat, NEW s \in Short(Rows, StatsCap)
    PROVE  Counted(WithStats(n, d, s), n.found, d)
<1> DEFINE C == Short(Hashes, ChanCap)
           S == Short(Rows, StatsCap)
<1>1. n \in [chan : C, stats : S, found : Nat, discovered : Nat] /\ s \in S
  BY DEF Fitting
<1> HIDE DEF C, S
<1>2. /\ WithStats(n, d, s) \in [chan : C, stats : S, found : Nat, discovered : Nat]
      /\ WithStats(n, d, s).found = n.found /\ WithStats(n, d, s).discovered = d
  BY <1>1 DEF WithStats
<1> QED
  BY <1>2 DEF Counted, Fitting, C, S

LEMMA EmitFits ==
    ASSUME NEW n \in Fitting, NEW event, NEW total \in Nat, total = apply(n.discovered, event),
           persist_runtime_batch(event) \in Rows
    PROVE  Counted(emit_stat(n, event), n.found, total)
<1> DEFINE row == persist_runtime_batch(event)
           s == IF Len(n.stats) < StatsCap THEN Append(n.stats, row) ELSE n.stats
<1>1. emit_stat(n, event) = WithStats(n, apply(n.discovered, event), s)
  BY DEF emit_stat, WithStats
<1>2. s \in Short(Rows, StatsCap)
  <2> HIDE DEF row
  <2>1. n.stats \in Short(Rows, StatsCap)
    BY DEF Fitting
  <2> QED
    BY <2>1, ShortAppend, Capacities DEF row
<1> HIDE DEF s
<1>3. Counted(WithStats(n, total, s), n.found, total)
  BY <1>2, OtherStats
<1> QED
  BY <1>1, <1>3

LEMMA UncountedFits ==
    ASSUME NEW n \in Fitting
    PROVE  Counted(emit_stat(n, Uncounted), n.found, n.discovered)
<1>1. n.discovered \in Nat
  BY DEF Fitting
<1>2. apply(n.discovered, Uncounted) = n.discovered /\ persist_runtime_batch(Uncounted) \in Rows
  BY DEF apply, persist_runtime_batch, Uncounted, Rows
<1> QED
  BY <1>1, <1>2, EmitFits

LEMMA SampleFits ==
    ASSUME NEW n \in Fitting, NEW h \in Known
    PROVE  Counted(emit_stat(n, SampleObserved(h)), n.found, n.discovered)
<1>1. n.discovered \in Nat
  BY DEF Fitting
<1>2. apply(n.discovered, SampleObserved(h)) = n.discovered
      /\ persist_runtime_batch(SampleObserved(h)) \in Rows
  BY DEF apply, persist_runtime_batch, SampleObserved, Rows
<1> QED
  BY <1>1, <1>2, EmitFits

LEMMA ObservedFits ==
    ASSUME NEW n \in Fitting, NEW h \in Known, NEW accepted
    PROVE  Counted(emit_stat(n, HashObserved(h, accepted)), n.found, n.discovered + 1)
<1>1. n.discovered + 1 \in Nat
  BY DEF Fitting
<1>2. PICK event : event = HashObserved(h, accepted)
  OBVIOUS
<1>3. event.kind = "HashObserved" /\ event.hash = h
  BY <1>2 DEF HashObserved
<1>4. apply(n.discovered, event) = n.discovered + 1
  BY <1>3 DEF apply
<1>5. persist_runtime_batch(event) \in Rows
  BY <1>3 DEF persist_runtime_batch, Rows
<1> QED
  BY <1>1, <1>2, <1>4, <1>5, EmitFits

LEMMA SnapshotFits ==
    ASSUME NEW n \in Fitting, NEW k \in Nat
    PROVE  Counted(emit_stat(n, DhtSnapshot(k)), n.found, k)
<1>1. apply(n.discovered, DhtSnapshot(k)) = k /\ persist_runtime_batch(DhtSnapshot(k)) \in Rows
  BY DEF apply, persist_runtime_batch, DhtSnapshot, Rows
<1> QED
  BY <1>1, EmitFits

\* A hash that is offered is counted, whether or not the fetcher has room.
LEMMA EnqueueFits ==
    ASSUME NEW n \in Fitting, NEW h \in Hashes
    PROVE  Counted(enqueue_discovery(n, h), n.found, n.discovered + 1)
<1>1. PICK c : c = IF Len(n.chan) < ChanCap THEN Append(n.chan, h) ELSE n.chan
  OBVIOUS
<1>2. n.stats \in Short(Rows, StatsCap) /\ n.chan \in Short(Hashes, ChanCap)
      /\ n.found \in Nat /\ n.discovered \in Nat
      /\ n = [chan |-> n.chan, stats |-> n.stats, found |-> n.found, discovered |-> n.discovered]
  BY DEF Fitting
<1>3. c \in Short(Hashes, ChanCap)
  BY <1>1, <1>2, ShortAppend, Capacities
<1>4. PICK sent : sent = [chan |-> c, stats |-> n.stats, found |-> n.found, discovered |-> n.discovered]
  OBVIOUS
<1>5. sent = [n EXCEPT !.chan = c]
  BY <1>2, <1>4
<1>6. sent \in Fitting /\ sent.found = n.found /\ sent.discovered = n.discovered
  BY <1>2, <1>3, <1>4 DEF Fitting
<1>7. PICK observed : observed = emit_stat(sent, HashObserved(h, Len(n.chan) < ChanCap))
  OBVIOUS
<1>8. Counted(observed, n.found, n.discovered + 1)
  <2>1. h \in Known
    BY DEF Known
  <2> QED
    BY <1>6, <1>7, <2>1, ObservedFits
<1>9. Counted(emit_stat(observed, Uncounted), n.found, n.discovered + 1)
  BY <1>8, UncountedFits DEF Counted
<1>10. enqueue_discovery(n, h) = observed \/ enqueue_discovery(n, h) = emit_stat(observed, Uncounted)
  <2>1. enqueue_discovery(n, h) = IF Len(n.chan) < ChanCap THEN observed ELSE emit_stat(observed, Uncounted)
    BY <1>1, <1>5, <1>7, Zenon DEF enqueue_discovery
  <2> QED
    BY <2>1
<1> QED
  BY <1>8, <1>9, <1>10

\* A hash that is published is counted twice, the zero hash never.
One(h) == IF h = Zero THEN 0 ELSE 1

LEMMA PublishFits ==
    ASSUME NEW n \in Fitting, NEW h \in Known
    PROVE  Counted(publish_discovery(n, h), n.found + One(h), n.discovered + One(h))
<1>1. n.stats \in Short(Rows, StatsCap) /\ n.chan \in Short(Hashes, ChanCap)
      /\ n.found \in Nat /\ n.discovered \in Nat
      /\ n = [chan |-> n.chan, stats |-> n.stats, found |-> n.found, discovered |-> n.discovered]
  BY DEF Fitting
<1>2. CASE h = Zero
  BY <1>1, <1>2 DEF publish_discovery, Counted, One
<1>3. CASE h # Zero
  <2>1. PICK k : k = [chan |-> n.chan, stats |-> n.stats, found |-> n.found + 1, discovered |-> n.discovered]
    OBVIOUS
  <2>2. k \in Fitting /\ k.found = n.found + 1 /\ k.discovered = n.discovered
    BY <1>1, <2>1 DEF Fitting
  <2>3. publish_discovery(n, h) = enqueue_discovery(k, h)
    <3>1. [n EXCEPT !.found = @ + 1] = k
      BY <1>1, <2>1
    <3> QED
      BY <1>3, <3>1 DEF publish_discovery
  <2>4. h \in Hashes
    BY <1>3 DEF Known
  <2>5. Counted(enqueue_discovery(k, h), k.found, k.discovered + 1)
    BY <2>2, <2>4, EnqueueFits
  <2> QED
    BY <1>3, <2>2, <2>3, <2>5 DEF One
<1> QED
  BY <1>2, <1>3

(***************************************************************************)
(* What the crawler has published, and what it has yet to publish.         *)
(***************************************************************************)
LEMMA Numbers ==
    /\ MaxObservations \in Nat
    /\ Cardinality(Hashes) \in Nat
BY ServerAssumption, FS_CardinalityType

LEMMA NowIs ==
    ASSUME Now \in Fitting
    PROVE  /\ Now.found = found /\ Now.discovered = discovered
           /\ chan \in Short(Hashes, ChanCap) /\ stats \in Short(Rows, StatsCap)
           /\ found \in Nat /\ discovered \in Nat
BY DEF Now, Fitting

LEMMA NothingToDo ==
    ASSUME NEW f \in Nat, NEW d \in Nat, Counts(<<>>, f, d)
    PROVE  f <= MaxObservations /\ d <= f + Cardinality(Hashes)
<1>1. PICK t : t = <<>>
  OBVIOUS
<1>2. Len(t) = 0 /\ t \in Seq(Samples)
  BY <1>1, EmptySeq
<1>3. ASSUME NEW h \in Hashes PROVE t # Resuming(h)
  <2>1. PICK e : e = [kind |-> "resume", hash |-> h]
    OBVIOUS
  <2>2. Len(<<e>>) = 1
    OBVIOUS
  <2> QED
    BY <1>2, <2>1, <2>2 DEF Resuming
<1>4. f + Len(t) <= MaxObservations /\ d <= f + Cardinality(Hashes)
  BY <1>1, <1>3 DEF Counts
<1> QED
  BY <1>2, <1>4

LEMMA NoneToDo ==
    ASSUME NEW f \in Nat, NEW d \in Nat, f <= MaxObservations, d <= f + Cardinality(Hashes)
    PROVE  Counts(<<>>, f, d)
<1>1. PICK t : t = <<>>
  OBVIOUS
<1>2. Len(t) = 0 /\ t \in Seq(Samples)
  BY <1>1, EmptySeq
<1>3. f + Len(t) <= MaxObservations
  BY <1>2
<1> QED
  BY <1>1, <1>2, <1>3 DEF Counts

\* A step that leaves the channels as m says.
LEMMA LeaveFits ==
    ASSUME NEW f, NEW d, NEW m, Counted(m, f, d), Leave(m), owed' \subseteq owed \cup Hashes, SizeInv
    PROVE  SizeInv' /\ found' = f /\ discovered' = d
<1>1. m \in Fitting /\ m.found = f /\ m.discovered = d
  BY DEF Counted
<1>2. PICK k : k = Now'
  OBVIOUS
<1>3. k = [chan |-> m.chan, stats |-> m.stats, found |-> m.found, discovered |-> m.discovered]
  BY <1>2 DEF Now, Leave
<1>4. k \in Fitting
  BY <1>1, <1>3 DEF Fitting
<1>5. owed' \subseteq Hashes
  BY DEF SizeInv
<1> QED
  BY <1>1, <1>2, <1>4, <1>5 DEF SizeInv, Leave

LEMMA HearOwes ==
    ASSUME NEW n, NEW h \in Known, Hear(n, h)
    PROVE  owed' \subseteq owed \cup Hashes
BY DEF Hear, Known

\* Two events before the handler looks at an answer.
LEMMA SeenFits ==
    ASSUME Now \in Fitting
    PROVE  LET seen == emit_stat(emit_stat(Now, Uncounted), Uncounted)
           IN  /\ Counted(seen, found, discovered)
               /\ Counted(emit_stat(seen, Uncounted), found, discovered)
<1> DEFINE one == emit_stat(Now, Uncounted)
           two == emit_stat(one, Uncounted)
<1>1. Counted(one, found, discovered)
  BY NowIs, UncountedFits
<1> HIDE DEF one
<1>2. Counted(two, found, discovered)
  BY <1>1, UncountedFits DEF Counted
<1> HIDE DEF two
<1>3. Counted(emit_stat(two, Uncounted), found, discovered)
  BY <1>2, UncountedFits DEF Counted
<1> QED
  BY <1>2, <1>3 DEF one, two

(***************************************************************************)
(* The steps, in numbers.                                                  *)
(***************************************************************************)
CountKept == SizeInv' /\ CountInv'

\* A step of the idle crawler that publishes h, or nothing.
LEMMA PublishKeeps ==
    ASSUME SizeInv, CountInv, Idle, UNCHANGED todo, NEW h \in Known, Room(One(h)),
           NEW n, Counted(n, found, discovered),
           Leave(publish_discovery(n, h)), owed' \subseteq owed \cup Hashes
    PROVE  CountKept
<1>1. found \in Nat /\ discovered \in Nat
  BY NowIs DEF SizeInv
<1>2. Counted(publish_discovery(n, h), found + One(h), discovered + One(h))
  BY PublishFits DEF Counted
<1>3. SizeInv' /\ found' = found + One(h) /\ discovered' = discovered + One(h)
  BY <1>2, LeaveFits
<1>4. One(h) \in {0, 1}
  BY DEF One
<1>5. found' \in Nat /\ discovered' \in Nat
  BY <1>1, <1>3, <1>4
<1>6. found <= MaxObservations /\ discovered <= found + Cardinality(Hashes)
  BY <1>1, NothingToDo DEF Idle, CountInv
<1>7. found' <= MaxObservations /\ discovered' <= found' + Cardinality(Hashes)
  BY <1>1, <1>3, <1>4, <1>6, Numbers DEF Room
<1>8. Counts(<<>>, found', discovered')
  BY <1>5, <1>7, NoneToDo
<1>9. todo' = <<>>
  BY DEF Idle
<1>10. CountInv'
  BY <1>8, <1>9 DEF CountInv
<1> QED
  BY <1>3, <1>10 DEF CountKept

\* A step that only emits events that are not counted.
LEMMA EmitKeepsCounts ==
    ASSUME SizeInv, CountInv, UNCHANGED todo, NEW m, Counted(m, found, discovered), Emit(m)
    PROVE  CountKept
<1>1. Leave(m) /\ owed' \subseteq owed \cup Hashes
  BY DEF Emit
<1>2. SizeInv' /\ found' = found /\ discovered' = discovered
  BY <1>1, LeaveFits
<1>3. CountInv'
  BY <1>2 DEF CountInv
<1> QED
  BY <1>2, <1>3 DEF CountKept

LEMMA HandleQueryCounts ==
    ASSUME SizeInv, CountInv, TokenInv, NEW src \in Sources, HandleQuery(src)
    PROVE  CountKept
<1>1. is_public_endpoint(src) /\ src \in Address
  BY ServerAssumption DEF HandleQuery
<1>2. held.token \in TokenType
  BY DEF TokenInv, TokenType
<1>3. PICK m \in Requests \cup Announcements[held.token] :
        /\ Room(IF handle_query(m, src).hash = Zero THEN 0 ELSE 1)
        /\ Leave(publish_discovery(Now, handle_query(m, src).hash))
        /\ Hear(Now, handle_query(m, src).hash)
  BY DEF HandleQuery
<1>4. AsksFor(m.a)
  BY <1>2, RequestAsks
<1>5. Does(handle_query(m, src))
  BY <1>1, <1>4, QueryDoes
<1>6. PICK h \in Known : h = handle_query(m, src).hash
  BY <1>5 DEF Does
<1>7. Idle /\ UNCHANGED todo
  BY DEF HandleQuery
<1>8. Room(One(h)) /\ Leave(publish_discovery(Now, h)) /\ Hear(Now, h)
  BY <1>3, <1>6 DEF One
<1>9. owed' \subseteq owed \cup Hashes
  BY <1>8, HearOwes
<1>10. Counted(Now, found, discovered)
  BY NowIs DEF SizeInv, Counted
<1> QED
  BY <1>7, <1>8, <1>9, <1>10, PublishKeeps

LEMMA HandlePeersCounts ==
    ASSUME SizeInv, CountInv, HandlePeers
    PROVE  CountKept
<1>1. PICK seen : seen = emit_stat(emit_stat(Now, Uncounted), Uncounted)
  OBVIOUS
<1>2. Counted(seen, found, discovered)
  BY <1>1, SeenFits DEF SizeInv
<1>3. PICK h \in Hashes : \/ Leave(publish_discovery(seen, h)) /\ Hear(seen, h)
                          \/ Emit(seen)
  BY <1>1 DEF HandlePeers
<1>4. Idle /\ UNCHANGED todo /\ Room(1)
  BY DEF HandlePeers, Room
<1>5. h \in Known /\ One(h) = 1
  BY ServerAssumption DEF Known, One
<1>6. CASE Leave(publish_discovery(seen, h)) /\ Hear(seen, h)
  <2>1. owed' \subseteq owed \cup Hashes
    BY <1>5, <1>6, HearOwes
  <2>2. Room(One(h))
    BY <1>4, <1>5
  <2> QED
    BY <1>2, <1>4, <1>5, <1>6, <2>1, <2>2, PublishKeeps
<1>7. CASE Emit(seen)
  BY <1>2, <1>4, <1>7, EmitKeepsCounts
<1> QED
  BY <1>3, <1>6, <1>7

\* The observations of one answer.
Observed(samples) == [i \in DOMAIN samples |-> [kind |-> "sample", hash |-> samples[i]]]

LEMMA ObservedIs ==
    ASSUME NEW samples \in Seq(Known)
    PROVE  Observed(samples) \in Seq(Samples) /\ Len(Observed(samples)) = Len(samples)
<1>1. PICK n \in Nat : n = Len(samples) /\ DOMAIN samples = 1 .. n
  OBVIOUS
<1>2. PICK o : o = Observed(samples)
  OBVIOUS
<1>3. \A i \in 1 .. n : [kind |-> "sample", hash |-> samples[i]] \in Samples
  BY <1>1 DEF Samples
<1>4. DOMAIN o = 1 .. n /\ \A i \in 1 .. n : o[i] = [kind |-> "sample", hash |-> samples[i]]
  BY <1>1, <1>2 DEF Observed
<1>5. o = [i \in 1 .. n |-> o[i]] /\ \A i \in 1 .. n : o[i] \in Samples
  BY <1>1, <1>2, <1>3, <1>4 DEF Observed
<1> QED
  BY <1>1, <1>2, <1>5

LEMMA HandleSamplesCounts ==
    ASSUME SizeInv, CountInv, NEW n \in Samplers, HandleSamples(n)
    PROVE  CountKept
<1>1. PICK seen : seen = emit_stat(emit_stat(Now, Uncounted), Uncounted)
  OBVIOUS
<1>2. PICK more : more = emit_stat(seen, Uncounted)
  OBVIOUS
<1>3. Counted(seen, found, discovered) /\ Counted(more, found, discovered)
  BY <1>1, <1>2, SeenFits DEF SizeInv
<1>4. PICK r \in SampleAnswers :
        /\ response_has_shape(r, "sample_infohashes") /\ Idle
        /\ \/ /\ Room(Len(r["samples"][2].entries))
              /\ todo' = Observed(r["samples"][2].entries)
              /\ Emit(more) \/ Emit(seen)
           \/ Emit(more) /\ UNCHANGED todo
  BY <1>1, <1>2 DEF HandleSamples, Observed, Room
<1>5. found \in Nat /\ discovered \in Nat
  BY NowIs DEF SizeInv
<1>6. CASE Emit(more) /\ UNCHANGED todo
  BY <1>3, <1>6, EmitKeepsCounts
<1>7. CASE /\ Room(Len(r["samples"][2].entries))
           /\ todo' = Observed(r["samples"][2].entries)
           /\ Emit(more) \/ Emit(seen)
  <2>1. PICK samples \in Seq(Known) : samples = r["samples"][2].entries
    <3>1. Has(r, "samples", "bytes")
      BY <1>4 DEF response_has_shape
    <3> QED
      BY <3>1, ServerAssumption DEF Known
  <2>2. todo' \in Seq(Samples) /\ Len(todo') = Len(samples)
    BY <1>7, <2>1, ObservedIs
  <2>3. PICK m : Counted(m, found, discovered) /\ Emit(m)
    BY <1>3, <1>7
  <2>4. SizeInv' /\ found' = found /\ discovered' = discovered
    <3>1. Leave(m) /\ owed' \subseteq owed \cup Hashes
      BY <2>3 DEF Emit
    <3> QED
      BY <2>3, <3>1, LeaveFits
  <2>5. discovered <= found + Cardinality(Hashes)
    BY <1>4, <1>5, NothingToDo DEF Idle, CountInv
  <2>6. found + Len(samples) <= MaxObservations
    BY <1>7, <2>1 DEF Room
  <2>7. CountInv'
    BY <2>2, <2>4, <2>5, <2>6 DEF CountInv, Counts
  <2> QED
    BY <2>4, <2>7 DEF CountKept
<1> QED
  BY <1>4, <1>6, <1>7

LEMMA PublishNextCounts ==
    ASSUME SizeInv, CountInv, PublishNext
    PROVE  CountKept
<1>1. found \in Nat /\ discovered \in Nat /\ Counted(Now, found, discovered)
  BY NowIs DEF SizeInv, Counted
<1>2. todo # <<>> /\ todo' = Tail(todo)
  BY DEF PublishNext
<1>3. PICK h : h = Head(todo).hash
  OBVIOUS
<1>4. PICK sampled : sampled = emit_stat(publish_discovery(Now, h), SampleObserved(h))
  OBVIOUS
<1>5. /\ Hear(Now, h)
      /\ Head(todo).kind = "resume" => Leave(enqueue_discovery(Now, h))
      /\ Head(todo).kind # "resume" => Leave(emit_stat(sampled, Uncounted)) \/ Leave(sampled)
  <2>1. PICK m : /\ Leave(m)
                 /\ m = CASE Head(todo).kind = "resume" -> enqueue_discovery(Now, h)
                          [] Head(todo).kind = "sample" /\ Len(todo) = 1 -> emit_stat(sampled, Uncounted)
                          [] OTHER -> sampled
    BY <1>3, <1>4, Zenon DEF PublishNext
  <2>2. Head(todo).kind = "resume" => m = enqueue_discovery(Now, h)
    BY <2>1
  <2>3. Head(todo).kind # "resume" => m = emit_stat(sampled, Uncounted) \/ m = sampled
    BY <2>1
  <2>4. Hear(Now, h)
    BY <1>3, Zenon DEF PublishNext
  <2> QED
    BY <2>1, <2>2, <2>3, <2>4
<1>6. CASE /\ todo \in Seq(Samples) /\ found + Len(todo) <= MaxObservations
           /\ discovered <= found + Cardinality(Hashes)
  <2>1. PICK l \in Nat : l = Len(todo) /\ l # 0
    BY <1>2, <1>6, EmptySeq
  <2>2. Tail(todo) \in Seq(Samples) /\ Len(Tail(todo)) = l - 1 /\ Head(todo) \in Samples
    BY <1>2, <1>6, <2>1, HeadTailProperties
  <2>3. h \in Known /\ Head(todo).kind # "resume"
    BY <1>3, <2>2 DEF Samples
  <2>4. Counted(publish_discovery(Now, h), found + One(h), discovered + One(h))
    BY <1>1, <2>3, PublishFits DEF Counted
  <2>5. Counted(sampled, found + One(h), discovered + One(h))
    BY <1>4, <2>3, <2>4, SampleFits DEF Counted
  <2>6. Counted(emit_stat(sampled, Uncounted), found + One(h), discovered + One(h))
    BY <2>5, UncountedFits DEF Counted
  <2>7. owed' \subseteq owed \cup Hashes
    BY <1>5, <2>3, HearOwes
  <2>8. PICK m : Counted(m, found + One(h), discovered + One(h)) /\ Leave(m)
    BY <1>5, <2>3, <2>5, <2>6
  <2>9. SizeInv' /\ found' = found + One(h) /\ discovered' = discovered + One(h)
    BY <2>7, <2>8, LeaveFits
  <2>10. One(h) \in {0, 1}
    BY DEF One
  <2>11. found' + (l - 1) <= MaxObservations /\ discovered' <= found' + Cardinality(Hashes)
    BY <1>1, <1>6, <2>1, <2>9, <2>10, Numbers
  <2>12. CountInv'
    BY <1>2, <2>2, <2>11 DEF CountInv, Counts
  <2> QED
    BY <2>9, <2>12 DEF CountKept
<1>7. CASE \E g \in Hashes : /\ todo = Resuming(g)
                             /\ found <= MaxObservations /\ discovered + 1 <= found + Cardinality(Hashes)
  <2>1. PICK g \in Hashes : /\ todo = Resuming(g)
                            /\ found <= MaxObservations /\ discovered + 1 <= found + Cardinality(Hashes)
    BY <1>7
  <2>2. Head(todo) = [kind |-> "resume", hash |-> g] /\ Tail(todo) = <<>>
    <3>1. PICK e : e = [kind |-> "resume", hash |-> g]
      OBVIOUS
    <3>2. todo = <<e>>
      BY <2>1, <3>1 DEF Resuming
    <3>3. Head(<<e>>) = e
      OBVIOUS
    <3>4. Tail(<<e>>) \in Seq({e}) /\ Len(Tail(<<e>>)) = 0
      <4>1. <<e>> \in Seq({e}) /\ Len(<<e>>) = 1 /\ <<e>> # <<>>
        OBVIOUS
      <4> QED
        BY <4>1, HeadTailProperties
    <3>5. Tail(<<e>>) = <<>>
      BY <3>4, EmptySeq
    <3> QED
      BY <3>1, <3>2, <3>3, <3>5
  <2>3. h = g /\ Head(todo).kind = "resume"
    BY <1>3, <2>2
  <2>4. Leave(enqueue_discovery(Now, h)) /\ h \in Hashes /\ h \in Known
    BY <1>5, <2>3 DEF Known
  <2>5. Counted(enqueue_discovery(Now, h), found, discovered + 1)
    BY <1>1, <2>4, EnqueueFits DEF Counted
  <2>6. owed' \subseteq owed \cup Hashes
    BY <1>5, <2>4, HearOwes
  <2>7. SizeInv' /\ found' = found /\ discovered' = discovered + 1
    BY <2>4, <2>5, <2>6, LeaveFits
  <2>8. Counts(<<>>, found, discovered + 1)
    <3>1. discovered + 1 \in Nat
      BY <1>1
    <3> QED
      BY <1>1, <2>1, <3>1, NoneToDo
  <2>9. CountInv'
    BY <1>2, <2>2, <2>7, <2>8 DEF CountInv
  <2> QED
    BY <2>7, <2>9 DEF CountKept
<1> QED
  BY <1>6, <1>7 DEF CountInv, Counts, Resuming

LEMMA StatsTickCounts ==
    ASSUME SizeInv, CountInv, StatsTick
    PROVE  CountKept
<1>1. found \in Nat /\ discovered \in Nat /\ Now \in Fitting /\ Now.found = found
  BY NowIs DEF SizeInv
<1>2. PICK m : m = emit_stat(Now, DhtSnapshot(found))
  OBVIOUS
<1>3. Counted(m, found, found)
  BY <1>1, <1>2, SnapshotFits
<1>4. Leave(m) /\ owed' \subseteq owed \cup Hashes /\ todo = <<>> /\ todo' = <<>>
  BY <1>2 DEF StatsTick, Emit, Idle
<1>5. SizeInv' /\ found' = found /\ discovered' = found
  BY <1>3, <1>4, LeaveFits
<1>6. found <= MaxObservations
  BY <1>1, <1>4, NothingToDo DEF CountInv
<1>7. Counts(<<>>, found, found)
  BY <1>1, <1>6, NoneToDo, Numbers
<1>8. CountInv'
  BY <1>4, <1>5, <1>7 DEF CountInv
<1> QED
  BY <1>5, <1>8 DEF CountKept

\* A reader takes from a channel, or the fetcher writes to one.
LEMMA ReadersFit ==
    ASSUME SizeInv, CountInv, UNCHANGED <<found, discovered, todo>>,
           chan' \in Short(Hashes, ChanCap), stats' \in Short(Rows, StatsCap), owed' \subseteq owed
    PROVE  CountKept
<1>1. found \in Nat /\ discovered \in Nat
  BY NowIs DEF SizeInv
<1>2. SizeInv'
  <2>1. PICK k : k = Now'
    OBVIOUS
  <2>2. k = [chan |-> chan', stats |-> stats', found |-> found, discovered |-> discovered]
    BY <2>1 DEF Now
  <2>3. k \in Fitting
    BY <1>1, <2>2 DEF Fitting
  <2> QED
    BY <2>1, <2>3 DEF SizeInv
<1>3. CountInv'
  BY DEF CountInv
<1> QED
  BY <1>2, <1>3 DEF CountKept

LEMMA CountsNext ==
    ASSUME SizeInv, CountInv, TokenInv, [Next]_vars
    PROVE  CountKept
<1>1. chan \in Short(Hashes, ChanCap) /\ stats \in Short(Rows, StatsCap)
      /\ Counted(emit_stat(Now, Uncounted), found, discovered)
  BY NowIs, UncountedFits DEF SizeInv
<1>2. ASSUME NEW src \in Sources, HandleQuery(src) PROVE CountKept
  BY <1>2, HandleQueryCounts
<1>3. CASE HandlePeers
  BY <1>3, HandlePeersCounts
<1>4. ASSUME NEW n \in Samplers, HandleSamples(n) PROVE CountKept
  BY <1>4, HandleSamplesCounts
<1>5. CASE HandleMalformed \/ \E n \in Samplers : LoseSamples(n)
  <2>1. Emit(emit_stat(Now, Uncounted)) /\ UNCHANGED todo
    BY <1>5 DEF HandleMalformed, LoseSamples
  <2> QED
    BY <1>1, <2>1, EmitKeepsCounts
<1>6. CASE PublishNext
  BY <1>6, PublishNextCounts
<1>7. CASE StatsTick
  BY <1>7, StatsTickCounts
<1>8. CASE FetcherReceives
  <2>1. chan # <<>> /\ chan' = Tail(chan) /\ owed' \subseteq owed
        /\ UNCHANGED <<found, discovered, stats, todo>>
    BY <1>8 DEF FetcherReceives
  <2>2. chan' \in Short(Hashes, ChanCap)
    BY <1>1, <2>1, ShortTail, Capacities
  <2> QED
    BY <1>1, <2>1, <2>2, ReadersFit
<1>9. CASE FetcherEmits
  <2>1. PICK m : m = emit_stat(Now, Uncounted)
    OBVIOUS
  <2>2. stats' = m.stats /\ UNCHANGED <<found, discovered, chan, owed, todo>>
    BY <1>9, <2>1 DEF FetcherEmits
  <2>3. m.stats \in Short(Rows, StatsCap)
    BY <1>1, <2>1 DEF Counted, Fitting
  <2> QED
    BY <1>1, <2>2, <2>3, ReadersFit
<1>10. CASE PersisterReceives
  <2>1. stats # <<>> /\ stats' = Tail(stats) /\ owed' \subseteq owed
        /\ UNCHANGED <<found, discovered, chan, todo>>
    BY <1>10 DEF PersisterReceives
  <2>2. stats' \in Short(Rows, StatsCap)
    BY <1>1, <2>1, ShortTail, Capacities
  <2> QED
    BY <1>1, <2>1, <2>2, ReadersFit
<1>11. CASE SampleRandomNodes \/ RefreshTick \/ Tick \/ UNCHANGED vars
  <2>1. UNCHANGED <<found, discovered, chan, stats, owed, todo>>
    BY <1>11 DEF SampleRandomNodes, RefreshTick, Tick, vars, channels
  <2> QED
    BY <1>1, <2>1, ReadersFit
<1> QED
  BY <1>2, <1>3, <1>4, <1>5, <1>6, <1>7, <1>8, <1>9, <1>10, <1>11 DEF Next

LEMMA CountsInit == Init => SizeInv /\ CountInv
<1> SUFFICES ASSUME Init PROVE SizeInv /\ CountInv
  OBVIOUS
<1>1. chan = <<>> /\ stats = <<>> /\ found = 0 /\ discovered = 0 /\ owed = {}
  BY DEF Init
<1>2. <<>> \in Short(Hashes, ChanCap) /\ <<>> \in Short(Rows, StatsCap)
  <2>1. PICK t : t = <<>>
    OBVIOUS
  <2>2. Len(t) = 0 /\ t \in Seq(Hashes) /\ t \in Seq(Rows)
    BY <2>1, EmptySeq
  <2> QED
    BY <2>1, <2>2, Capacities DEF Short
<1>3. SizeInv
  <2>1. PICK k : k = Now
    OBVIOUS
  <2>2. k = [chan |-> <<>>, stats |-> <<>>, found |-> 0, discovered |-> 0]
    BY <1>1, <2>1 DEF Now
  <2>3. k \in Fitting
    BY <1>2, <2>2 DEF Fitting
  <2> QED
    BY <1>1, <2>1, <2>3 DEF SizeInv
<1>4. CASE todo = <<>>
  <2>1. Counts(<<>>, 0, 0)
    BY NoneToDo, Numbers
  <2> QED
    BY <1>1, <1>3, <1>4, <2>1 DEF CountInv
<1>5. CASE \E h \in Hashes : todo = <<[kind |-> "resume", hash |-> h]>>
  <2>1. PICK h \in Hashes : todo = Resuming(h)
    BY <1>5 DEF Resuming
  <2>2. Cardinality(Hashes) >= 1
    <3>1. IsFiniteSet(Hashes)
      BY ServerAssumption
    <3>2. Cardinality(Hashes) # 0
      BY <3>1, FS_EmptySet
    <3> QED
      BY <3>2, Numbers
  <2>3. 0 <= MaxObservations /\ 0 + 1 <= 0 + Cardinality(Hashes)
    BY <2>2, Numbers
  <2>4. CountInv
    BY <1>1, <2>1, <2>3 DEF CountInv, Counts
  <2> QED
    BY <1>3, <2>4
<1> QED
  BY <1>4, <1>5 DEF Init

(***************************************************************************)
(* The intervals, and the types.                                           *)
(***************************************************************************)
LEMMA RateNext ==
    ASSUME RateInv, SamplingInv, [Next]_vars
    PROVE  RateInv'
<1> DEFINE M == Larger(MinInterval, MaxInterval)
<1>1. M \in Nat /\ MinInterval <= M /\ MaxInterval <= M /\ MinInterval \in Nat /\ MaxInterval \in Nat
  BY Capacities, LargerFacts
<1> HIDE DEF M
<1>2. /\ \A n \in Samplers : eligible[n] \in Nat /\ eligible[n] <= M
      /\ eligible \in [Samplers -> Nat]
  BY DEF RateInv, SamplingInv, M
<1>3. ASSUME \A n \in Samplers : eligible'[n] <= M PROVE RateInv'
  BY <1>3 DEF RateInv, M
<1>4. ASSUME UNCHANGED eligible PROVE RateInv'
  BY <1>2, <1>3, <1>4
<1>5. ASSUME NEW n \in Samplers, HandleSamples(n) PROVE RateInv'
  <2>1. PICK r : \/ /\ SampleIsValid(r, MaxInterval, MaxSamples)
                    /\ eligible' = Rescheduled(n, r["interval"][2])
                 \/ UNCHANGED eligible
    BY <1>5 DEF HandleSamples
  <2>2. CASE UNCHANGED eligible
    BY <1>4, <2>2
  <2>3. CASE /\ SampleIsValid(r, MaxInterval, MaxSamples)
             /\ eligible' = Rescheduled(n, r["interval"][2])
    <3>1. PICK i : i = r["interval"][2]
      OBVIOUS
    <3>2. i \in Nat /\ i <= M
      BY <1>1, <2>3, <3>1 DEF SampleIsValid
    <3>3. PICK e \in Nat : e = Larger(i, MinInterval) /\ e <= M
      BY <1>1, <3>2, LargerFacts
    <3>4. eligible' = [eligible EXCEPT ![n] = e]
      BY <2>3, <3>1, <3>3 DEF Rescheduled
    <3>5. \A k \in Samplers : eligible'[k] <= M
      BY <1>2, <3>3, <3>4
    <3> QED
      BY <1>3, <3>5
  <2> QED
    BY <2>1, <2>2, <2>3
<1>6. CASE SampleRandomNodes
  <2>1. PICK chosen : eligible' = [n \in Samplers |-> IF n \in chosen THEN MinInterval ELSE eligible[n]]
    BY <1>6 DEF SampleRandomNodes
  <2>2. \A n \in Samplers : eligible'[n] <= M
    BY <1>1, <1>2, <2>1
  <2> QED
    BY <1>3, <2>2
<1>7. CASE Tick
  <2>1. eligible' = [n \in Samplers |-> Down(eligible[n])]
    BY <1>7 DEF Tick
  <2>2. \A n \in Samplers : eligible'[n] <= M
    <3>1. ASSUME NEW n \in Samplers PROVE eligible'[n] <= M
      <4>1. Down(eligible[n]) \in Nat /\ Down(eligible[n]) <= eligible[n]
        BY <1>2, DownFacts
      <4> QED
        BY <1>1, <1>2, <2>1, <4>1
    <3> QED
      BY <3>1
  <2> QED
    BY <1>3, <2>2
<1>8. CASE \/ \E src \in Sources : HandleQuery(src)
           \/ HandleMalformed \/ HandlePeers \/ (\E n \in Samplers : LoseSamples(n))
           \/ PublishNext \/ RefreshTick \/ StatsTick
           \/ FetcherReceives \/ FetcherEmits \/ PersisterReceives \/ UNCHANGED vars
  <2>1. UNCHANGED eligible
    BY <1>8 DEF HandleQuery, HandleMalformed, HandlePeers, LoseSamples, PublishNext, RefreshTick,
                StatsTick, FetcherReceives, FetcherEmits, PersisterReceives, vars, sampling
  <2> QED
    BY <1>4, <2>1
<1> QED
  BY <1>5, <1>6, <1>7, <1>8 DEF Next

LEMMA RateInit == Init => RateInv
<1> SUFFICES ASSUME Init PROVE RateInv
  OBVIOUS
<1>1. \A n \in Samplers : eligible[n] = 0
  BY DEF Init
<1>2. Larger(MinInterval, MaxInterval) \in Nat
  BY Capacities, LargerFacts
<1> QED
  BY <1>1, <1>2 DEF RateInv

LEMMA TypeOKHolds ==
    ASSUME IInv, ServingInv, SizeInv, CountInv, RateInv
    PROVE  TypeOK
<1>1. /\ DOMAIN cache \subseteq Hashes \cup {Zero}
      /\ Cardinality(DOMAIN cache) <= PeerHashes
      /\ \A h \in DOMAIN cache : Len(cache[h]) <= PeersPerHash
  BY DEF ServingInv, CacheInv, EntryInv, Known
<1>2. phase \in 0 .. TokenBucket - 1 /\ held.token \in TokenType /\ held.age \in 0 .. 2 * TokenBucket
  BY DEF IInv, TokenInv, TokenType
<1>3. asked \subseteq Samplers
  BY DEF IInv, SamplingInv
<1>4. eligible \in [Samplers -> 0 .. Larger(MinInterval, MaxInterval)]
  <2>1. PICK M \in Nat : M = Larger(MinInterval, MaxInterval)
    BY Capacities, LargerFacts
  <2>2. eligible \in [Samplers -> Nat] /\ \A n \in Samplers : eligible[n] <= M
    BY <2>1 DEF IInv, SamplingInv, RateInv
  <2>3. eligible \in [Samplers -> 0 .. M]
    BY <2>2
  <2> QED
    BY <2>1, <2>3
<1>5. found \in Nat /\ discovered \in Nat
      /\ chan \in Short(Hashes, ChanCap) /\ stats \in Short(Rows, StatsCap)
  BY NowIs DEF SizeInv
<1>6. found <= MaxObservations /\ discovered <= found + Cardinality(Hashes)
  <2>1. CASE /\ todo \in Seq(Samples) /\ found + Len(todo) <= MaxObservations
             /\ discovered <= found + Cardinality(Hashes)
    <3>1. Len(todo) \in Nat
      BY <2>1
    <3> QED
      BY <1>5, <2>1, <3>1, Numbers
  <2>2. CASE found <= MaxObservations /\ discovered + 1 <= found + Cardinality(Hashes)
    BY <1>5, <2>2, Numbers
  <2> QED
    BY <2>1, <2>2 DEF CountInv, Counts
<1>7. found \in 0 .. MaxObservations /\ discovered \in 0 .. MaxObservations + Cardinality(Hashes)
  BY <1>5, <1>6, Numbers
<1>8. chan \in BoundedSeq(Hashes, ChanCap)
  BY <1>5, ShortIsBounded, Capacities
<1>9. stats \in BoundedSeq({{}} \cup {{h} : h \in Hashes \cup {Zero}}, StatsCap)
  BY <1>5, ShortIsBounded, Capacities DEF Rows, Known
<1>10. owed \subseteq Hashes
  BY DEF SizeInv
<1> QED
  BY <1>1, <1>2, <1>3, <1>4, <1>7, <1>8, <1>9, <1>10 DEF TypeOK

(***************************************************************************)
(* The invariant, and what follows from it.                                *)
(***************************************************************************)
LEMMA InitInv == Init => IInv
<1> SUFFICES ASSUME Init PROVE IInv
  OBVIOUS
<1>1. ChannelInv
  <2>1. todo \in Seq([kind : {"sample", "resume"}, hash : Ids])
    <3> DEFINE Entry == [kind : {"sample", "resume"}, hash : Ids]
    <3>1. \A e \in Entry : <<e>> \in Seq(Entry)
      <4> HIDE DEF Entry
      <4> QED
        OBVIOUS
    <3>2. \A h \in Hashes : [kind |-> "resume", hash |-> h] \in Entry
      BY ServerAssumption
    <3>3. todo = <<>> \/ \E h \in Hashes : todo = <<[kind |-> "resume", hash |-> h]>>
      BY DEF Init
    <3>4. <<>> \in Seq(Entry)
      <4> HIDE DEF Entry
      <4> QED
        OBVIOUS
    <3> HIDE DEF Entry
    <3>5. todo \in Seq(Entry)
      BY <3>1, <3>2, <3>3, <3>4
    <3> QED
      BY <3>5 DEF Entry
  <2> QED
    BY <2>1 DEF Init, ChannelInv
<1>2. HandOff
  BY DEF Init, HandOff
<1>3. TokenInv
  <2>1. PICK src \in Sources : held = [token |-> [ip |-> src.ip, ago |-> 0, ours |-> FALSE], age |-> 0]
    BY DEF Init
  <2>2. 0 \in 0 .. 2 * TokenBucket /\ phase \in 0 .. TokenBucket - 1
    BY Capacities DEF Init
  <2>3. [ip |-> src.ip, ago |-> 0, ours |-> FALSE]
           \in [ip : {s.ip : s \in Sources}, ago : 0 .. 2, ours : BOOLEAN]
    OBVIOUS
  <2> QED
    BY <2>1, <2>2, <2>3 DEF TokenInv
<1>4. SamplingInv /\ SampleQuiet
  BY DEF Init, SamplingInv, SampleQuiet
<1>5. ServingInv /\ SizeInv /\ CountInv /\ RateInv
  BY ServingInit, CountsInit, RateInit
<1> QED
  BY <1>1, <1>2, <1>3, <1>4, <1>5 DEF IInv

LEMMA NextInv == IInv /\ [Next]_vars => IInv'
<1> SUFFICES ASSUME IInv, [Next]_vars PROVE IInv'
  OBVIOUS
<1>1. ChannelInv' /\ HandOff'
  BY ChannelsNext DEF IInv, ChannelKept
<1>2. SamplingInv' /\ SampleQuiet'
  BY SamplingNext DEF IInv, SamplingKept
<1>3. TokenInv'
  BY TokenNext DEF IInv
<1>4. RateInv'
  BY RateNext DEF IInv
<1>5. ServingInv'
  BY ServingNext DEF IInv
<1>6. SizeInv' /\ CountInv'
  BY CountsNext DEF IInv, CountKept
<1> QED
  BY <1>1, <1>2, <1>3, <1>4, <1>5, <1>6 DEF IInv

\* The inductive invariant holds in every state of the crawler and its readers.
THEOREM Invariance == Spec => []IInv
BY InitInv, NextInv, PTL DEF Spec

\* No hash is lost between the crawler and the catalogue: one that enqueue_discovery
\* was given while the discovery channel or the statistics channel had room is in
\* one of them until its reader has written the row, whatever the readers do
\* between two observations of one answer.
THEOREM NoHashLost == Spec => []HandOff
BY Invariance, PTL DEF IInv

\* validate_token accepts the token of this process for the address it was made
\* for during the length of a bucket at least, never after two, and no other
\* token, wherever in its bucket the clock stood when the token was made.
THEOREM TokensAccepted == Spec => []TokenContract
<1>1. IInv => TokenContract
  BY TokenContractHolds DEF IInv
<1> QED
  BY <1>1, Invariance, PTL

\* No node is asked for samples before the configured minimum has passed since
\* it was asked last, nor before the interval it demanded in its last answer.
THEOREM NodesLeftAlone == Spec => []SampleQuiet
BY Invariance, PTL DEF IInv

\* The channels never hold more than their capacities, the cache keeps to its limits
\* on hashes and on peers of a hash, the readers are sent only hashes that were heard
\* of, and no node is put off for longer than the largest interval.
THEOREM TypeCorrect == Spec => []TypeOK
<1>1. IInv => TypeOK
  BY TypeOKHolds DEF IInv
<1> QED
  BY <1>1, Invariance, PTL

\* What get_peers_response answers from the peer cache, as its reader decodes it, is
\* the peers of that hash whose time has not run out, each of them once; the peer
\* that cache_peer stored last is among them, whatever the cache had to give up.
THEOREM PeersServedLive == Spec => []ServedPeersLive
<1>1. IInv => ServedPeersLive
  BY ServedPeersLiveHolds DEF IInv
<1> QED
  BY <1>1, Invariance, PTL
==============================================================================
