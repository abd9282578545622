# btfind in TLA+

A verification development for btfind, a BitTorrent DHT crawler that discovers
info hashes, downloads their metadata from peers and keeps a searchable
catalogue in MySQL. The modules below model its core logic from the Rust
source; TLC checks them on small instances and TLAPS proves most of the
invariants, and one refinement, for all instances. Paths are relative to the repository
root; line numbers of every definition are in `PROJECT.json` under `map`.

    tlc -workers 2 -config MCSched_safety.cfg MCMetadataScheduler
    tlapm SchedulerProofs.tla

## 1. The system

One process, `btfind run` (`src/main.rs`), runs three tokio tasks that talk
through two bounded channels and share one database; a second one, `btfind
serve`, answers searches from it, and maintenance commands change it:

    UDP <-> crawler task  --discoveries-->  metadata scheduler  --spawns-->  hash workers <-> TCP peers
            (dht.rs)                        (metadata.rs)                    (metadata.rs)
               |                                  |                               |
               +--statistics events--> statistics worker (main.rs) --> MySQL (store.rs) <-- prune, db rebuild-search
                                                                            ^                 (other processes)
                                              HTTP <-> btfind serve (web.rs) +

| Component | State it keeps | Operations | What makes it correct |
|---|---|---|---|
| metadata scheduler (`metadata.rs`) | `jobs` with pending peers and a `running` mark, the `ready` queue and `ready_set`, the `JoinSet` of workers; the rows `hash_jobs`, `hash_job_peers`, `metadata_peer_attempts` | receive a discovery, start a round, join a worker and apply its outcome, load due jobs, drain at shutdown; each worker: terminal check, peer filter, attempts, commit, end of round | no job is stranded or run twice, limits hold, terminal rows stay terminal, cooldowns are respected, once discoveries and faults stop every due job is tried |
| peer metadata fetch (`metadata.rs`, `wire.rs`) | handshake progress, request window, pieces held, timeouts | connect, two handshakes, request, receive, assemble | the window and the pieces agree, nothing is forgotten, the attempt is bounded in time |
| catalogue (`store.rs`) | `torrents`, `catalog_totals`, `persistence_receipts` | persist a discovery, persist a statistics batch, commit metadata, prune; receipts: replay, acknowledge, remove, expire | the totals equal the table, an operation takes effect and is counted once despite lost commits |
| statistics worker (`main.rs`) | the batch, its receipt, the `applied` flag | receive an event, flush, acknowledge, prune receipts, final flush | see above; it ends at shutdown |
| DHT RPC client (`dht.rs`) | `pending_rpcs`, `retired_transactions`, `NEXT_TX`, `discovery_queue` and `discovery_set`, `RealLookupTracker` | send an RPC, handle a response or an error, expire, start a lookup, continue it, bootstrap | lookups are accounted for once, no late answer meets a reused id, ids and lookups do not leak |
| routing table (`routing.rs`) | buckets with nodes, failures, candidates | add a candidate, validate, split, record a failure | buckets partition the id space, capacities hold, live nodes stay |
| DHT server side (`dht.rs`, `bencode.rs`) | `peer_cache`, the token secret and bucket, `sample_eligible_at` | answer a query, `announce_peer`, handle peers and samples, ask for samples, expire | the cache is bounded and serves live peers only, a token is good for one to two buckets and for its address, a node is not asked for samples before its interval ends |
| hand-off (`dht.rs`, `main.rs`) | the two channels, `info_hashes_found`, `hashes_discovered` | `publish_discovery`, `enqueue_discovery`, `emit_stat`; their readers | a hash that either channel had room for gets its row |
| search documents (`store.rs`, `db.rs`) | `search_documents`, the packet limit | refresh at ingestion, cascade at prune, `rebuild-search`, paged search | search finds what the rows say, a failed rebuild loses nothing, every write fits the packet |
| web service (`web.rs`, `metrics.rs`, `main.rs`) | requests in progress, `WebWindow`, `active_requests` | begin, handle, time out, disconnect, record, report, shut down | each answer is in one window, the gauge is right, every request ends |
| shutdown and resume (`main.rs`) | - | close channels in order, drain, abort, reload | within the modules of the tasks concerned |
| wire encoding, torrent parser, other maintenance commands, dashboard, configuration, OCI exporter, deployment | - | - | see section 7 |

What is hard here: the scheduler's five collections are kept in step by hand
while workers, discoveries and the loader change them in any order; a database
call may fail after it took effect; four transactions update the same counters
relatively; transaction ids are reused while late UDP answers may still come;
peers answer in any order, repeat themselves or stall; an observation goes
through one of two channels that may both be full; a rebuild of the search
documents may stop anywhere; a reporter swaps the metrics window under the
requests that write to it. `PROJECT.json` lists
these hazards at the lines where they bite, each with the properties that
would notice.

## 2. Modules

| Module | Models |
|---|---|
| `MetadataScheduler` | the scheduler task, its workers, and the job tables |
| `CatalogAtomic` | what the catalogue promises: every operation in one step |
| `CatalogPersistence` | its transactions, statement by statement, and the tasks that retry them |
| `DhtRpc` | the crawler task as an RPC client |
| `RoutingTable` | the Kademlia table |
| `Selection` | what `retain`, `filter` and `filter_map` leave of a list; used by `RoutingTable`, `Krpc` and `DhtServer` |
| `PeerFetch` | one attempt against one peer |
| `Krpc` | KRPC messages: parsing, building, the readers of their fields |
| `DhtServer` | the crawler task as a DHT server and sampler, composed with the readers of its two channels; uses `Krpc` |
| `SearchIndex` | the search documents: ingestion, rebuild, search |
| `WebService` | the web service over `SearchIndex`, and the properties of both |
| `SchedulerProofs`, `CatalogProofs`, `DhtRpcProofs`, `PeerFetchProofs`, `DhtServerProofs`, `RoutingProofs`, `WebProofs`, `SelectionProofs` | theorems about the module each extends (section 4) |
| `MC...` | the instances that TLC checks |

Operators that translate a function keep its name (`admit_job_peers`,
`apply_job_outcome`, `due_hash_jobs`, `send_rpc`, `split_bucket`); actions that
are a branch of a `select!` or a step between two awaits have names of their
own. An operator whose name is that of another one with a suffix
(`lock_totals_skipped`) is a faulty variant of it, used to see that a property
notices the fault; no specification uses it.

### MetadataScheduler

The scheduler is a single task, so its handlers are atomic: `ReceiveDiscovery`
(the `recv` branch with the persist loop, admission and prioritisation),
`LoadDueJobs` (the retry tick), `JoinNext` and `JoinError` (the `join_next`
branch), and `StartRound`, one iteration of the loop that runs before every
`select!`; the guard `Selecting` says that this loop has ended. A worker is a
record in `workers` whose `phase` names its next await. Every SQL transaction
is one step; a call that is retried until it succeeds is one successful step, a
call whose error is handled has an error alternative that counts against
`MaxFaults`. `commit_metadata` has both error outcomes, before and after the
COMMIT took effect. `Crash`, `CloseChannel`, `DrainWorker`, `Exit` and
`Restart` model the life of the process; `PruneTorrent` the prune command.

Abstractions. `next_attempt_at` and `updated_at` appear as the order of two
queues: `zeroQ` (due since creation) and `pastQ` (became due); a live row in
neither is due later, and `RowBecomesDue` moves it. Backoff arithmetic and
attempt counts are thereby "a later time". A cooldown is a state of the peer's
row that `PeerCoolsDown` ends. The order of the peers of a discovery or of a
row, and which peers survive the retention limit, are free choices. `Content`
says what the verified bytes of a hash parse to, a function of the hash.

### CatalogPersistence and CatalogAtomic

Four clients run transactions: BEGIN and `lock_totals` (waits for the row),
the statements (which read the committed tables and fix what will be written),
COMMIT. A lost connection during COMMIT leaves the transaction and its lock
with the server (`doubt`), which resolves it either way later, while the client
already retries. Receipts follow the code: inserted in the transaction,
`unacked` for a batch and already `acked` for a discovery, deleted seven days
after acknowledgement (`ReceiptAges`, `prune_receipts`) or by
`remove_receipt`. `metric` is what the program reported, `commits` and
`inserted` are history of what happened. `total_files` and `total_size` follow
`total_metadata_complete` (the bytes are fixed by the hash) and are left out.
`AtomicSpec` states that hiding locks, receipts and clients the transactions
implement `CatalogAtomic`, in which each operation is a single step and a
receipt is applied at most once; the refinement mapping reads `applied` off the
history.

### DhtRpc

The crawler handles one event at a time, but an event can send several RPCs;
`task` is the handler in progress and `send_rpc` sends its next RPC. Deadlines
count down with `Tick`. The network is a set of answers that can be lost
(never received), delivered twice, late, malformed or from the wrong address.
Nodes are few enough to fit the routing table, whose eviction is the subject of
`RoutingTable`. An answer names distinct nodes: `decode_compact_nodes` keeps
duplicates, and a lookup then asks such a node twice; the accounting is per RPC
and does not depend on whom it is sent to.

`NoStaleAnswer` rests on an assumption about the network that the code makes
too by retiring ids for one more `rpc_timeout`: a late answer arrives within
twice `rpc_timeout` of the query and a duplicate within `rpc_timeout` of the
first copy. UDP promises neither; a later answer is only refused when its
address differs.

### RoutingTable

Pure functions on the sequence of buckets, one action per method. Ids are
functions from `Bits` places to bits, with the code's K, split rule, eviction of
a candidate from the first bucket that has one when the total is reached, and
removal after two failures. The unbounded loop of `mark_validated` takes `Bits`
turns in the model (`SplitFor`); `SplittingEnds`, a part of `TableSound`, says that the code's loop needs
no more. Likewise the loop that evicts candidates takes one turn and a half of a
split bucket is not cut to K candidates, which the proved capacities show to be
all that the code can meet.

### PeerFetch

`stage` and `half` name the pending read or write, `waited` and `budget` its
timeout, `elapsed` the loop's own clock. The peer is the environment and sends
any frame at any time, with values on both sides of every bound. A piece's
bytes are reduced to their number; SHA-1 and parsing follow in the worker and
are in `MetadataScheduler`.

### Krpc and DhtServer

`Krpc` translates `KrpcMessage::to_bytes` and `from_bytes` on bencode values
and the functions of `dht.rs` that build and read messages. Byte strings are
opaque except where the code looks into them: their length being that of an
id, and compact entries with or without bytes left over. Every query of
`DhtServer` passes through both directions, and so does every reply.

The crawler handles one event at a time; its handlers are one step, except that
the hashes of a sampling answer, and of the hashes resumed at start, are
published one by one (`todo`), since the readers of the channels run on other
threads between two `try_send`s. `HandOff` is stated with the ghost `owed`: a
hash is owed from the moment it is heard of while the discovery channel or the
statistics channel has room, until a reader writes its row. The room counts at
the moment of publication: an answer first emits two events of its own
(`DhtNodeSeen`, `RpcAnswered`), which can take the last places.

A token is its address, whether it was made with this process's secret, and how
many buckets ago; a client holds one it obtained or one of an earlier run, and
`TokenContract` asks of every state which public addresses could announce with
it. `SampleQuiet` counts an interval as demanded when its answer is accepted: one
in an answer that is refused for another reason (a malformed `samples` string)
is read by nobody. `Tick` moves time, bucket boundaries included; the wall
clock that `current_token_bucket` reads is assumed not to be set. Lookups,
routing and the correlation of answers are the subject of `DhtRpc` and
`RoutingTable`.

### SearchIndex and WebService

A torrent's row is reduced to what its document depends on; a document to which
of its columns have text, with a length. Rows and documents of any shape the
schema allows may be there at the start (written by older versions), so that a
rebuild has something to repair. `rebuild_search_index` is split at its
statements: delete the obsolete documents, fetch a page, build documents into a
batch, write the batch. It may fail after any of them. As `README.md` demands,
it runs only while the services are stopped.

A request is at an await (`handling`, and `checked` between the two queries of
`api_torrent_files`), answered, recorded or done. Only at an await can the
deadline or a disconnect drop its handler. The steps after that are taken one
by one because the reporter and other requests run on other threads.
`Drained` is the end of graceful shutdown with the last `emit`; `Kill` loses
the window. `emitted` adds up what was reported.

Paging is sound for a catalogue that does not change while a client follows
`has_next`; the code promises no more (offsets into a live table), and
`IndexSound` states it per state.

## 3. Runs

Bounds are the constants of the `.cfg` files. Deadlock is not checked where a
bounded number of inputs (scheduler, catalogue) or the end of the attempt
(fetch) legitimately stops the model.

| Run | States | Checks |
|---|---|---|
| `sched_safety` | 1.3 million | two hashes, up to two of three peers each, one worker, one panic, two faults: `NoStrandedJob`, `OneWorkerPerHash`, `PendingPeersSound`, `LoaderNotStarved`, `CompleteHasTerminalJob`, `TerminalNeverReopened`, `NoFetchDuringCooldown`, `NoFetchOfRejectedMetadata` |
| `sched_liveness` | 130 thousand | one slot for two hashes, one panic, discoveries and faults without end, fairness: `LiveJobIsTried`, `SlotIsFreed` |
| `sched_parked` | - | finding 1 |
| `catalog_totals` | 1.2 million | two hashes, two receipts, chunks of one row, one fault: `TotalsMatch`, and the refinement `AtomicSpec`, by which also only stale rows are pruned |
| `catalog_retries` | 21 thousand | one receipt, three faults, fairness: `CountedExactlyOnce`, `OperationEnds`, `DrainEnds` |
| `dht_lookups` | 812 thousand | two lookups, two nodes, two ids, two hashes for one queue place: `LookupAccounting`, `NoStaleAnswer`, `QueueSound` |
| `dht_liveness` | 53 thousand | one lookup, two nodes, fairness: `LookupCloses`, `IdsAreRecycled` |
| `routing` | 218 thousand | three-bit ids, two addresses, K = 2: `TableSound`, `LiveNodesStay` |
| `fetch_session` | 19 thousand | up to four pieces, window of up to three, fairness: `WindowSound`, `AcceptedIffDelivered`, `ReceiveBounded`, `SessionEnds` |
| `dht_server` | 214 thousand | channels of one place, limits of one or two, three observations: `HandOff`, `ServedPeersLive`, `TokenContract`, `SampleQuiet` |
| `dht_totals` | - | finding 2 |
| `web_search` | 92 thousand | two torrents, pages of one and two, two packet limits, two requests per process, fairness: `IndexSound`, `WindowsAccount`, `RequestsAndRebuildsEnd` |

Why the bounds are enough for the questions asked. Scheduler: with
`MaxConcurrent` below `MaxActive` a hash waits for a worker, with `RoundLimit`
below `MaxPeers` peers remain when a round ends, and two observations let the
second one meet a job that is queued, running or finished; three peers
overflow a list of two. Two faults allow an uncertain commit followed by a
crash or a prune. For liveness an unbounded environment matters more than
peers: one peer, which a discovery during its round adds again, makes a job go
through several rounds, and `EnvironmentGoesOn` resets the counts of discoveries
and faults at any time, so that they bound a burst and not the behaviour. With
one slot for two hashes one is always deferred to the loader. As
`MaxActive = MaxConcurrent = 1` there, no job overtakes another in `ready`; the
same run with `MaxActive = 2` (and `MaxPanics = 0`, 210 thousand states), where
new peers move one job ahead of the other, finds `SlotIsFreed` to hold too. Catalogue: three faults cover a lost commit, a lost retry and
a failed acknowledgement of one operation; two operations and two hashes let
each pair of transactions race. DHT: with two ids every second RPC wraps
around, so an id is asked for again while its old answer is still on its way,
and RPCs meet an exhausted id space. Routing: three bits allow the
own bucket to be split three times. Fetch: sizes 1 to 7 in blocks of 2 give one
to four pieces with full and short last pieces, and windows smaller than, equal
to and larger than what is left to request. DHT server: with channels of one
place each kind of event meets a full and an empty channel; two hashes
overflow the cache, and the tokens and intervals run over their boundaries.
Search: a page of one hash makes the rebuild and the search take several pages,
the smaller packet limit is exceeded by one document and by any two, the larger
one by none. The web service is started only on rebuilt documents, which is a
bound and not a guard of the code: what it answers from other documents is no
part of any property. Two requests are enough for one to be between two of its
steps while the other, the reporter or the shutdown runs.

### Fairness

- Scheduler: weak fairness of the scheduler's steps, of every worker, of
  `Exit` and `Restart`, and of time (`RowBecomesDue`, `PeerCoolsDown`). Every
  await in the loop is a retried database call or a ready branch, each download
  has timeouts, the service manager restarts the process after a failure
  (`deploy/systemd/btfind.service`), and after a shutdown an operator starts it
  again: a job is not tried while the crawler is switched off. The environment
  is not fair and need not stop: under `FairSpec` discoveries, database errors,
  prunes, crashes and shutdowns may follow each other for ever
  (`EnvironmentGoesOn`). `LiveJobIsTried` and `SlotIsFreed` therefore have
  `EnvironmentStops` as their hypothesis: from some point on there is no
  discovery and no fault, and no slot is lost to a panic. The code promises
  nothing without it, and the repository says so ("sustained fresh discoveries
  can defer them", `README.md:186`; "continuous fresh arrivals can defer it",
  `docs/architecture.md:53`): discoveries take the free slots directly and go
  to the front of `ready`, the loader lists rows with `next_attempt_at = 0`
  first, and a hash found again and again with new peers keeps its slot.
  Without the hypothesis TLC refutes both, by discoveries alone
  (`MaxFaults = MaxPanics = 0`). A panic takes a slot until the process
  restarts (`JoinError`), which is why the hypothesis speaks of `lost`.
- Catalogue: strong fairness of `lock_totals`, since InnoDB queues lock
  requests; weak fairness of each client's own steps and of the server ending
  an orphaned transaction. Nothing forces a fault.
- DHT: weak fairness of the handler in progress, strong fairness of the timer
  branches: tokio's `select!` picks among ready branches at random, so a timer
  that keeps becoming ready is served although packets keep coming.
- Web service: weak fairness of a request's deadline and of its steps after the
  answer, of the end of a shutdown, and of the rebuild command's own steps. A
  shutdown ends by `Drained` or by `StopTimeout`: axum's graceful shutdown also
  waits for connections whose client does not read its answer, which no deadline
  of the handlers bounds, so that `Drained` alone is not fair; the service
  manager kills the process after `TimeoutStopSec=45`
  (`deploy/systemd/btfind-web.service:15`), with the loss that `Kill` models. The
  database need never answer, and nobody need send a request, a signal or a
  command; failures of a rebuild are allowed, not required.
- Fetch: weak fairness of `Tick` and `TimedOut`, which tokio's timer drives.
  Nothing is assumed of the peer.

## 4. Proofs

Eight modules hold theorems. `SelectionProofs` has lemmas that others use; each
of the others proves an inductive invariant `IInv`
(`Invariance`: `Spec => []IInv`) and draws the listed results from it, for
every value of the constants that the ASSUME of the model allows. TLC checks
the same formulas as properties of the runs, and checked each `IInv` on the
run's instance before it was proved.

| Module | Theorems | State |
|---|---|---|
| `SchedulerProofs` | `TypeCorrect`, `JobsNotStranded`, `WorkersExclusive`, `PendingBounded`, `CompletionDurable`, `LoaderAlwaysFed` | `TypeOK`, `NoStrandedJob`, `OneWorkerPerHash`, `PendingPeersSound`, `CompleteHasTerminalJob`, `LoaderNotStarved` are invariants |
| | `TerminalStays`, `CooldownRespected`, `RejectedNotFetched` | the action properties `TerminalNeverReopened`, `NoFetchDuringCooldown`, `NoFetchOfRejectedMetadata` |
| `CatalogProofs` | `TypeCorrect`, `TotalsAlwaysMatch`, `ExactlyOnce` | `TypeOK`, `TotalsMatch`, `CountedExactlyOnce` are invariants |
| | `Refinement` | the transactions implement `CatalogAtomic` (`Spec => AtomicSpec`) |
| `DhtRpcProofs` | `TypeCorrect`, `QueueAlwaysSound`, `NoAnswerMistaken`, `LookupsAccounted` | `TypeOK`, `QueueSound`, `NoStaleAnswer`, `LookupAccounting` are invariants |
| `PeerFetchProofs` | `TypeCorrect`, `WindowAlwaysSound`, `ReceiveAlwaysBounded`, `AcceptedExactlyDelivered` | `TypeOK`, `WindowSound`, `ReceiveBounded`, `AcceptedIffDelivered` are invariants |
| `DhtServerProofs` | `TypeCorrect`, `NoHashLost`, `TokensAccepted`, `NodesLeftAlone`, `PeersServedLive` | `TypeOK`, `HandOff`, `TokenContract`, `SampleQuiet`, `ServedPeersLive` are invariants |
| `RoutingProofs` | `TypeCorrect`, `TableIsSound` | `TypeOK`, `TableSound` are invariants |
| | `LiveNodesStayThm` | the action property `LiveNodesStay` |
| `WebProofs` | `TypeCorrect`, `WindowsAlwaysAccount`, `SearchesSound` | `TypeOK`, `WindowsAccount` and `IndexSound` of `WebService` are invariants |

The assumptions are those of the code: limits and timeouts are positive, as
`Config::validate` demands, the sets that are counted are finite, a bound on
faults, operations or observations is any natural number. `FetchAssumption`
says that the mark of an absent field is no number and no outcome,
`DhtAssumption` that there is a node. `ServerAssumption` describes what queries
and answers may contain: a string of the length of an id where one is read is
one of the hashes or the zero hash, an entry of a `samples` string too, a
string of peers consists of addresses with 16-bit ports, in any list, with
anything else in it and cut off anywhere; and a key that is not UTF-8 is none
of those that a reply to `get_peers` is read by.

### The scheduler

The invariants are not inductive one by one. `IInv` is their conjunction with
what they silently rely on:

- `Untracked` (in `MemoryInv`): a hash that is not in `jobs` has no pending
  peers. Without it a new admission could find a list that `merge_peers` thinks
  full or an address that it thinks known, and a hash would be queued with
  nothing to try.
- `WorkersAlive` (in `WorkerInv`): the set of workers is finite, a panicked
  hash has no other worker, a process that is down has none. Without it
  joining a worker could unmark a job whose other worker still runs.
- `ScheduleInv` (in `TableInv`): a row is listed at most once in the two due
  queues, which `LoadDueJobs` needs in order not to queue a hash twice.
- `RoundInv`: for each worker, the peers still to try are distinct and eligible
  and the row is not rejected since the check at the start of the round. It
  needs `OneWorkerPerHash`: only the worker of a hash can put one of its peers
  into cooldown or reject its metadata, so what the worker read at the start of
  its round is still true when it uses it.

The proof has a module-level lemma per group of actions and per part of `IInv`:
actions that leave the scheduler's memory alone preserve `MemoryInv` at once,
worker steps are shown to touch only rows of their own hash, and the lemmas on
`Without`, `Append`, `FirstOf` and concatenation carry the sequence reasoning.
`LoaderNotStarved` follows from `IInv` without a step of its own: the loader
asks for as many rows as may be tracked, the queues list a row once, so by the
pigeonhole principle an answer cannot consist of tracked rows while a slot is
free.

### The catalogue

`WriteInv` carries the argument: what a transaction is about to write was
computed from the tables as they still are when it commits, including a
transaction whose client has lost its connection (`doubt`). It needs `LockInv`
(a client is inside its transaction exactly while it holds the totals row) and
is why relative updates keep `TotalsMatch`. `ReceiptInv` says that a committed
operation's receipt stays, with what it inserted, as long as its owner may
retry; with `OwnerInv` (owners have receipts of their own) it gives
`CountedExactlyOnce`. The refinement maps every commit, and every resolution of
a doubt in favour of the transaction, to one step of `CatalogAtomic` and all
other steps to stuttering; `WriteInv` says that the abstract step is enabled.

### The DHT client

`NetInv` ties time to ids: an answer still on its way arrives before the
deadline of its pending RPC plus one `rpc_timeout`, or before its id's
retirement ends, so an id that is free has no answer underway. `LookupInv`
counts, for each lookup, its pending RPCs and the answer being handled;
`found` may lag behind the peers seen only while that answer is handled, and
`CountInv` adds the lookups up. `TaskInv` says what the rest of a handler in
progress may be, since other events do not run until it ends.

### The fetch attempt

`PiecesInv` and `RequestsInv` tie `received`, `in_flight` and `next_to_request`
to the sets they count; `StageInv` says in which stages the window is open,
and that after a piece it is open for exactly one request, which bounds the
time between two looks at the clock (`ClockInv`). The second half of
`AcceptedIffDelivered` needs that pieces of the lengths `metadata_piece_len`
asks for add up to the announced size for any size and block. The sum is a
fold; its value is shown by induction on the size of the set of pieces
(`SumExists`, `SumClosed`), which is done by the least counterexample
(`LeastNatural`), as the provers cannot use an induction theorem that takes the
statement as a parameter. `CountInv` then says that the receive loop reads on
only while a piece is missing.

### The DHT server

`HandOff` is nearly inductive by itself; it needs the types of the channels.
`TokenInv` bounds a token's age by the position of the clock in its bucket from
both sides. `SamplingInv` says that a node with a pending request has been
quiet for no longer than the minimum, so that the interval it answers with
starts when it was asked; `RateInv` bounds how long a node is put off.

`ServingInv` is about the peer cache: it is within its limits, an entry is
neither empty nor names an endpoint twice, all endpoints are public, and the
peer that was cached last is in its entry with the time it has left. That
`cache_peer` keeps this is `CachePeerIs`: an eviction happens only for a hash
that is not in the cache and takes another hash's entry, and the oldest peer of
an entry goes before the new one comes. The peers of one answer are cached one
after the other, which is a recursive function of sets of caches
(`CachePeersIs`, by the least counterexample). `ServedPeersLive` then needs what
a reader of the reply sees: the reply passes through `to_bytes` and
`from_bytes` (`ResponseIs`), its list of strings through `parse_get_peers_response`
(`ListedIs`), and what is decoded are the peers that were encoded (`EncodedIs`).

`SizeInv` and `CountInv` give `TypeOK`. The counts depend on what the handler in
progress has yet to do: a sampled hash counts as found and as discovered when
it is published, a resumed one only as discovered.

### The routing table

`RoutingInv` is about a table alone, so that it can be stated of the tables
between two splits too. Each bucket is well formed (`BucketInv`: the bits of its
prefix after its length are 0, its nodes and candidates are covered by it,
distinct and at most K); every id has exactly one bucket (`Homes`); there is one
bucket more than our own bucket's prefix has bits (`Path`), which bounds their
number and is kept because only that bucket is ever split; and the ids that are
candidates number at most `MaxCandidates`. Splitting is where the argument is:
the two halves share the bucket's ids by the next bit, so every id keeps one
home; the candidates are divided by their places, so that none is lost or
doubled (`PickedIs`: a selection by places is a strictly ascending enumeration
of them, which exists by induction on the greatest place). `TurnsExist` gives
the recursive function of the splitting loop; each of its turns that splits
lengthens the prefix of our bucket, hence `SplittingEnds`. An id of any length
is allowed, so the theorems cover the code's 160 bits, which TLC cannot.

### The web service

`Sums` and `EndInv` restate `WindowsAccount` through sets of requests; they are
inductive together with `RequestInv`: no request has a class before it is
answered, and one that met a database error has a 5xx. The gauge's guard
against underflow in `end_request` is never taken, as an open request is
counted in it.

### The search documents

`IndexInv` (`IndexInvariance`) says how far a rebuild has come. Up to `after`
every row with content has its document, unless its hash is still in the page
or in the batch, and past the first statement no row without content has one
(`DocumentsInv`); what the page and the batch hold still agrees with the rows
(`ReadInv`), as a rebuild runs alone; and the batch fits the budget
(`RebuildInv`). The step that needs an argument is the page query: it unites
the first k hashes with a name and the first k with files and takes the first k
of these. `PageMissesNone` proves that this skips no hash up to its last row
and is empty only if nothing is left, for any k. Hence when a rebuild ends every
document is right, and since ingestion and pruning write a row and its document
in one transaction, it stays so.

`SearchesSound` then needs that the pages of a search put together are the
ordered result. With n rows and pages of m, `LastExists` finds the last page,
`ReachedIs` shows that following `has_next` reaches exactly the pages up to it
(the limit of `most + 1` rows tells a full last page from one with a successor),
`PageIs` gives the rows of each, and `FollowedIs` joins them (`FlattenSeq` is a
recursive function, handled by the least counterexample). The byte count of a
batch is a fold, treated like the sum of pieces above.

### Only model-checked

- Liveness (`LiveJobIsTried` and `SlotIsFreed`, which suppose that the
  environment stops, `OperationEnds`, `DrainEnds`,
  `LookupCloses`, `IdsAreRecycled`, `SessionEnds`, `RequestsAndRebuildsEnd`):
  out of the prover's reach.

Every safety invariant and action property that a run checks is proved.

## 5. Findings

1. `sched_parked` (`src/metadata.rs:1262`). A round whose peers were all
   rejected for a hash mismatch parks the job as `waiting_peers` and drops it
   from memory, although other peers, pending or retained, were never tried.
   The loader does not load parked rows, so they wait for the next discovery of
   that hash. `docs/observability.md` describes a parked job as "waiting for
   usable peers".
2. `dht_totals` (`src/metrics.rs:186`). `hashes_discovered_total` is documented
   as a counter that is "cumulative since process start"
   (`docs/observability.md:172`). Each published hash increments it, but every
   minute, and at once when the crawler starts, a snapshot stores
   `info_hashes_found` into it, which the hashes resumed at start-up
   (`seed_info_hashes`) do not increment. They are counted, then taken back.

Observations from reading the code, without a run:

- A discovery's receipt is acknowledged when it is written (`store.rs:415`), so
  it expires after seven days even if its task is still retrying; the retry
  would apply the discovery again and report no inserted row. The model assumes
  that no retry is pending that long (`ReceiptAges`), so no property notices it.
- A frame's body gets the time that remained when its header was begun
  (`metadata.rs:550`), so the receive loop can outlast the deadline `README.md`
  gives ("twice that value"). `ReceiveBounded` is the bound that does hold:
  twice the deadline and one request write.
- An all-zero hash is refused by `record_hash_observation` and `queue_hash`, but
  in a sampling answer its `SampleObserved` event still writes a torrents row.
- An observation with peers that goes through the statistics channel keeps its
  row and loses its peers (counted as `discovery_peer_addresses_lost`).
- `sample_eligible_at` is never pruned and `provisional` is never read;
  `backpressure_events_total` also counts RPCs that found no free transaction id.

## 6. Plan

In this order:

1. done: `MetadataScheduler` and its proofs; `CatalogPersistence` with
   `CatalogAtomic`; `DhtRpc`; `RoutingTable`; `PeerFetch`; `Krpc` and
   `DhtServer` with the hand-off; `SearchIndex` and `WebService`.
2. done: proofs of every invariant and action property of the runs: the
   scheduler, the catalogue with its refinement, the DHT client, the fetch
   attempt, the DHT server, the web service's windows, the search documents, and
   the routing table.
3. open: liveness, which stays with TLC, and the parts of section 7.

## 7. Not modelled

- The bytes of bencode values and of wire messages, the torrent parser, magnet
  links: pure functions of unbounded byte strings, covered by unit tests. The
  models use their verdicts.
- The text of search documents (NFKC normalisation, n-grams), ranking, sort
  orders and filters by size; JSON and the dashboard's JavaScript.
- Of the maintenance commands migrate, check and analyze, which change the
  schema or nothing; `TotalsMatch` says that reconcile has nothing to correct.
- The metrics that are incremented in one place and only printed; logging.
- Configuration: the validated ranges are the ASSUMEs on the constants.
- Snapshot and counter rows of a statistics batch, signal handling, and the
  nodes resumed at start-up.
- The OCI exporter (`scripts/oci-observability`), a Python program beside the
  crawler with a checkpoint of its own, and the deployment units.
