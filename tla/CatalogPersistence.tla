-------------------------- MODULE CatalogPersistence --------------------------
(***************************************************************************)
(* The transactions of src/store.rs that change the catalogue, statement   *)
(* by statement, and the tasks that run and retry them:                    *)
(*   "fetcher"  run_metadata_fetcher persisting a discovery,               *)
(*   "stats"    run_stats_persistence flushing a batch of observations,    *)
(*   "worker"   a hash worker committing verified metadata,                *)
(*   "pruner"   the prune command, a process of its own.                   *)
(* Every transaction locks the catalog_totals row first.  A connection can *)
(* be lost during COMMIT: the client sees an error while the server keeps  *)
(* the transaction, and its locks, until it commits it or rolls it back.   *)
(* What a row counts for in total_files and total_size is fixed by its     *)
(* verified metadata and follows total_metadata_complete.                  *)
(***************************************************************************)
EXTENDS Integers, Sequences, FiniteSets

CONSTANTS
    Hashes,      \* info hashes
    MaxOps,      \* bound on the discoveries and batches, each with a receipt
    PruneChunk,  \* rows deleted by one transaction of prune (128)
    BatchSize,   \* database.batch_size
    MaxFaults    \* bound on database errors, crashes and shutdowns

ASSUME CatalogAssumption ==
    /\ IsFiniteSet(Hashes)
    /\ MaxOps \in Nat
    /\ PruneChunk \in Nat \ {0}
    /\ BatchSize \in Nat \ {0}
    /\ MaxFaults \in Nat

Ops == 1 .. MaxOps
Clients == {"fetcher", "stats", "worker", "pruner"}
Attempts == 4

VARIABLES
    \* Committed rows.
    torrents,     \* info hashes with a torrents row
    complete,     \* rows with metadata_complete
    stale,        \* rows whose last_seen is older than the prune cutoff
    totals,       \* the catalog_totals row
    receipt,      \* persistence_receipts: "absent", "unacked", "acked", "expired"
    result,       \* its result column: torrents_inserted
    \* The server.
    lock,         \* who holds the catalog_totals row: a client, "doubt" or "none"
    doubt,        \* the writes of the transaction whose client lost its connection
    \* The clients.
    pc,           \* what each client does next
    id,           \* the receipt of its current operation, 0 if it has none
    hashes,       \* the hashes of its current operation
    writes,       \* what its open transaction is going to commit
    outcome,      \* what the fetcher's last transaction reported: torrents_inserted
    buf,          \* events of the statistics worker, not flushed yet
    recorded,     \* its applied flag
    tries,        \* attempts of commit_metadata
    closed,       \* the statistics channel has been closed
    \* Observations and bounds.
    used,         \* receipts created so far, at most MaxOps
    metric,       \* what the metrics counted for a receipt, -1 if nothing yet
    commits,      \* history: how often the operation of a receipt took effect
    inserted,     \* history: the rows those commits inserted
    faults        \* faults so far, at most MaxFaults

database == <<torrents, complete, stale, totals, receipt, result>>
server == <<lock, doubt>>
clients == <<pc, id, hashes, writes, outcome, buf, recorded, tries, closed>>
history == <<commits, inserted>>
vars == <<database, server, clients, used, metric, history, faults>>

Phases == {"idle", "replay", "begin", "locked", "written", "ack", "cleanup", "stopped"}
Kinds == {"none", "discovery", "batch", "metadata", "prune"}
Writes == [kind : Kinds, id : 0 .. MaxOps, rows : SUBSET Hashes, new : Nat, done : Nat]
NoWrites == [kind |-> "none", id |-> 0, rows |-> {}, new |-> 0, done |-> 0]

Goto(c, p) == pc' = [pc EXCEPT ![c] = p]
Release(c) == hashes' = [hashes EXCEPT ![c] = IF pc'[c] = "idle" THEN {} ELSE @]
Fault == faults < MaxFaults /\ faults' = faults + 1

------------------------------------------------------------------------------
(***************************************************************************)
(* Transactions.                                                           *)
(***************************************************************************)
lock_totals_skipped(c) ==
    /\ pc[c] = "begin"
    /\ Goto(c, "locked")
    /\ lock' = IF lock = "none" THEN c ELSE lock
    /\ UNCHANGED <<database, doubt, id, hashes, writes, outcome, buf, recorded, tries, closed>>
    /\ UNCHANGED <<used, metric, history, faults>>

\* BEGIN and lock_totals: SELECT ... FROM catalog_totals ... FOR UPDATE waits
\* for the transaction that holds the row.
lock_totals(c) ==
    /\ pc[c] = "begin"
    /\ lock = "none"
    /\ Goto(c, "locked")
    /\ lock' = c
    /\ UNCHANGED <<database, doubt, id, hashes, writes, outcome, buf, recorded, tries, closed>>
    /\ UNCHANGED <<used, metric, history, faults>>

\* What discover() inserts for the hashes of an operation: rows that are not
\* there yet, however often the operation names them.
New(c) == Cardinality(hashes[c] \ torrents)

Statements(c, w) ==
    /\ writes' = [writes EXCEPT ![c] = w]
    /\ Goto(c, "written")
    /\ UNCHANGED <<database, server, id, hashes, outcome, buf, recorded, tries, closed>>
    /\ UNCHANGED <<used, metric, history, faults>>

\* The rows a committed transaction leaves; the counters are relative updates.
CommitWrites(w) ==
    /\ \/ /\ w.kind \in {"discovery", "batch"}
          /\ torrents' = torrents \cup w.rows
          /\ stale' = stale \ w.rows
          /\ totals' = [totals EXCEPT !.torrents = @ + w.new]
          /\ receipt' = [receipt EXCEPT
                            ![w.id] = IF w.kind = "batch" THEN "unacked" ELSE "acked"]
          /\ result' = [result EXCEPT ![w.id] = w.new]
          /\ commits' = [commits EXCEPT ![w.id] = @ + 1]
          /\ inserted' = [inserted EXCEPT ![w.id] = @ + w.new]
          /\ UNCHANGED complete
       \/ /\ w.kind = "metadata"
          /\ torrents' = torrents \cup w.rows
          /\ stale' = stale \ w.rows
          /\ complete' = complete \cup w.rows
          /\ totals' = [totals EXCEPT !.torrents = @ + w.new, !.complete = @ + w.done]
          /\ UNCHANGED <<receipt, result, history>>
       \/ /\ w.kind = "prune"
          /\ torrents' = torrents \ w.rows
          /\ complete' = complete \ w.rows
          /\ stale' = stale \ w.rows
          /\ totals' = [totals EXCEPT !.torrents = @ - w.new, !.complete = @ - w.done]
          /\ UNCHANGED <<receipt, result, history>>

\* The error paths of a client: the discovery loop looks for its receipt, the
\* flush loop starts over, commit_metadata retries a retryable error three
\* times, the prune command gives up.
AfterError(c) ==
    \/ c = "fetcher" /\ Goto(c, "replay") /\ UNCHANGED tries
    \/ c = "stats" /\ Goto(c, "begin") /\ UNCHANGED tries
    \/ c = "worker" /\ tries + 1 < Attempts /\ Goto(c, "begin") /\ tries' = tries + 1
    \/ c = "worker" /\ Goto(c, "idle") /\ tries' = 0
    \/ c = "pruner" /\ Goto(c, "idle") /\ UNCHANGED tries

\* The wait for the row times out, a statement fails, or COMMIT fails before
\* the server got it: the transaction is rolled back.
Rollback(c) ==
    /\ pc[c] \in {"begin", "locked", "written"}
    /\ Fault
    /\ AfterError(c)
    /\ writes' = [writes EXCEPT ![c] = NoWrites]
    /\ lock' = IF lock = c THEN "none" ELSE lock
    /\ Release(c)
    /\ UNCHANGED <<database, doubt, id, outcome, buf, recorded, closed, used, metric, history>>

\* The connection is lost during COMMIT: the server still has the transaction.
LoseCommit(c) ==
    /\ pc[c] = "written"
    /\ Fault
    /\ AfterError(c)
    /\ doubt' = writes[c]
    /\ lock' = "doubt"
    /\ writes' = [writes EXCEPT ![c] = NoWrites]
    /\ Release(c)
    /\ UNCHANGED <<database, id, outcome, buf, recorded, closed, used, metric, history>>

\* The server finishes such a transaction, one way or the other.
ResolveDoubt ==
    /\ lock = "doubt"
    /\ lock' = "none"
    /\ doubt' = NoWrites
    /\ \/ CommitWrites(doubt)
       \/ UNCHANGED <<database, history>>
    /\ UNCHANGED <<clients, used, metric, faults>>

\* COMMIT succeeds and the client goes on to p.
Commits(c, p) ==
    /\ pc[c] = "written"
    /\ CommitWrites(writes[c])
    /\ writes' = [writes EXCEPT ![c] = NoWrites]
    /\ lock' = "none"
    /\ Goto(c, p)
    /\ Release(c)
    /\ UNCHANGED <<doubt, id, buf, closed, used, faults>>

------------------------------------------------------------------------------
(***************************************************************************)
(* The scheduler task: persist_hash_discovery_with_receipt in a loop.      *)
(***************************************************************************)
Fresh(c) ==
    /\ used' = used + 1
    /\ id' = [id EXCEPT ![c] = used + 1]

\* The bound MaxOps leaves a receipt for the events already received.
Room == used + (IF pc["stats"] = "idle" /\ buf # <<>> THEN 1 ELSE 0) < MaxOps

ReceiveDiscovery(h) ==
    /\ pc["fetcher"] = "idle"
    /\ ~closed
    /\ Room
    /\ Fresh("fetcher")
    /\ hashes' = [hashes EXCEPT !["fetcher"] = {h}]
    /\ Goto("fetcher", "replay")
    /\ UNCHANGED <<database, server, writes, outcome, buf, recorded, tries, closed>>
    /\ UNCHANGED <<metric, history, faults>>

\* The metrics record the outcome of the operation, and it is over.
DiscoveryDone(n) ==
    /\ metric' = [metric EXCEPT ![id["fetcher"]] = n]
    /\ Goto("fetcher", "idle")
    /\ id' = [id EXCEPT !["fetcher"] = 0]
    /\ outcome' = 0
    /\ Release("fetcher")

\* replayed_discovery, outside the transaction.
replayed_discovery ==
    /\ pc["fetcher"] = "replay"
    /\ \/ /\ receipt[id["fetcher"]] = "absent"
          /\ Goto("fetcher", "begin")
          /\ UNCHANGED <<id, hashes, outcome, metric>>
       \/ /\ receipt[id["fetcher"]] # "absent"
          /\ DiscoveryDone(result[id["fetcher"]])
    /\ UNCHANGED <<database, server, writes, buf, recorded, tries, closed>>
    /\ UNCHANGED <<used, history, faults>>

\* persist_hash_discovery_once: discover, the peers, then the receipt, whose
\* primary key rejects a second insert.
DiscoveryStatements ==
    /\ pc["fetcher"] = "locked"
    /\ receipt[id["fetcher"]] = "absent"
    /\ Statements("fetcher", [kind |-> "discovery", id |-> id["fetcher"],
                              rows |-> hashes["fetcher"], new |-> New("fetcher"), done |-> 0])

DiscoveryDuplicate ==
    /\ pc["fetcher"] = "locked"
    /\ receipt[id["fetcher"]] # "absent"
    /\ Goto("fetcher", "replay")
    /\ lock' = "none"
    /\ UNCHANGED <<database, doubt, id, hashes, writes, outcome, buf, recorded, tries, closed>>
    /\ UNCHANGED <<used, metric, history, faults>>

DiscoveryCommits ==
    /\ Commits("fetcher", "cleanup")
    /\ outcome' = writes["fetcher"].new
    /\ UNCHANGED <<recorded, tries, metric>>

DeleteReceipts(R) ==
    /\ receipt' = [r \in Ops |-> IF r \in R THEN "absent" ELSE receipt[r]]
    /\ result' = [r \in Ops |-> IF r \in R THEN 0 ELSE result[r]]

\* remove_receipt, whose error is only logged.
remove_receipt ==
    /\ pc["fetcher"] = "cleanup"
    /\ \/ DeleteReceipts({id["fetcher"]}) /\ UNCHANGED faults
       \/ UNCHANGED <<receipt, result>> /\ Fault
    /\ DiscoveryDone(outcome)
    /\ UNCHANGED <<torrents, complete, stale, totals, server>>
    /\ UNCHANGED <<writes, buf, recorded, tries, closed, used, history>>

------------------------------------------------------------------------------
(***************************************************************************)
(* The statistics worker: run_stats_persistence and its flush.             *)
(***************************************************************************)
\* flush_stats_batch: a new receipt, applied = false.
StartFlush(events) ==
    /\ Fresh("stats")
    /\ hashes' = [hashes EXCEPT !["stats"] = {events[i] : i \in DOMAIN events}]
    /\ recorded' = FALSE
    /\ Goto("stats", "begin")

ReceiveEvent_flushes_late(h) ==
    /\ pc["stats"] = "idle"
    /\ ~closed
    /\ buf # <<>> \/ Room
    /\ buf' = Append(buf, h)
    /\ IF Len(buf') > BatchSize
       THEN StartFlush(buf')
       ELSE UNCHANGED <<used, id, hashes, recorded, pc>>
    /\ UNCHANGED <<database, server, writes, outcome, tries, closed, metric, history, faults>>

\* stats_rx.recv(): an event joins the batch; a full batch is flushed.
ReceiveEvent(h) ==
    /\ pc["stats"] = "idle"
    /\ ~closed
    /\ buf # <<>> \/ Room
    /\ buf' = Append(buf, h)
    /\ IF Len(buf') >= BatchSize
       THEN StartFlush(buf')
       ELSE UNCHANGED <<used, id, hashes, recorded, pc>>
    /\ UNCHANGED <<database, server, writes, outcome, tries, closed, metric, history, faults>>

FlushPending_only_ticks ==
    /\ pc["stats"] = "idle"
    /\ buf # <<>>
    /\ ~closed
    /\ StartFlush(buf)
    /\ UNCHANGED <<database, server, writes, outcome, buf, tries, closed, metric, history, faults>>

\* flush_tick, or the flush after the channel has been closed.
FlushPending ==
    /\ pc["stats"] = "idle"
    /\ buf # <<>>
    /\ StartFlush(buf)
    /\ UNCHANGED <<database, server, writes, outcome, buf, tries, closed, metric, history, faults>>

\* The channel is closed and nothing is left: the task ends.
StatsStops ==
    /\ pc["stats"] = "idle"
    /\ closed
    /\ buf = <<>>
    /\ Goto("stats", "stopped")
    /\ UNCHANGED <<database, server, id, hashes, writes, outcome, buf, recorded, tries, closed>>
    /\ UNCHANGED <<used, metric, history, faults>>

\* receipt_tick: prune_receipts deletes what was acknowledged seven days ago.
prune_receipts ==
    /\ pc["stats"] = "idle"
    /\ \E r \in Ops : receipt[r] = "expired"
    /\ DeleteReceipts({r \in Ops : receipt[r] = "expired"})
    /\ UNCHANGED <<torrents, complete, stale, totals, server, clients>>
    /\ UNCHANGED <<used, metric, history, faults>>

\* try_flush_stats_batch records the outcome the first time only.
RecordOnce(n) ==
    /\ recorded' = TRUE
    /\ metric' = IF recorded THEN metric ELSE [metric EXCEPT ![id["stats"]] = n]

BatchStatements_unchecked ==
    /\ pc["stats"] = "locked"
    /\ Statements("stats", [kind |-> "batch", id |-> id["stats"], rows |-> hashes["stats"],
                            new |-> New("stats"), done |-> 0])

\* persist_runtime_batch: a receipt that exists is not applied again ...
BatchStatements ==
    /\ pc["stats"] = "locked"
    /\ receipt[id["stats"]] = "absent"
    /\ Statements("stats", [kind |-> "batch", id |-> id["stats"], rows |-> hashes["stats"],
                            new |-> New("stats"), done |-> 0])

BatchReplayed_as_error ==
    /\ pc["stats"] = "locked"
    /\ receipt[id["stats"]] # "absent"
    /\ lock' = "none"
    /\ Goto("stats", "begin")
    /\ UNCHANGED <<database, doubt, id, hashes, writes, outcome, buf, recorded, tries, closed>>
    /\ UNCHANGED <<used, metric, history, faults>>

\* ... but its result is returned.
BatchReplayed ==
    /\ pc["stats"] = "locked"
    /\ receipt[id["stats"]] # "absent"
    /\ RecordOnce(result[id["stats"]])
    /\ lock' = "none"
    /\ Goto("stats", "ack")
    /\ UNCHANGED <<database, doubt, id, hashes, writes, outcome, buf, tries, closed>>
    /\ UNCHANGED <<used, history, faults>>

BatchCommits ==
    /\ Commits("stats", "ack")
    /\ RecordOnce(writes["stats"].new)
    /\ UNCHANGED <<outcome, tries>>

\* acknowledge_receipt; an error, which may come after the update took effect,
\* repeats the whole flush with the same receipt; success empties the batch.
Acknowledged == [receipt EXCEPT ![id["stats"]] = IF @ = "unacked" THEN "acked" ELSE @]

acknowledge_receipt ==
    /\ pc["stats"] = "ack"
    /\ \/ /\ receipt' = Acknowledged
          /\ buf' = <<>>
          /\ id' = [id EXCEPT !["stats"] = 0]
          /\ Goto("stats", "idle")
          /\ UNCHANGED faults
       \/ /\ Fault
          /\ receipt' \in {receipt, Acknowledged}
          /\ Goto("stats", "begin")
          /\ UNCHANGED <<buf, id>>
    /\ recorded' = (recorded /\ pc'["stats"] # "idle")
    /\ Release("stats")
    /\ UNCHANGED <<torrents, complete, stale, totals, result, server>>
    /\ UNCHANGED <<writes, outcome, tries, closed, used, metric, history>>

------------------------------------------------------------------------------
(***************************************************************************)
(* Metadata commits and the prune command.                                 *)
(***************************************************************************)
StartCommit(h) ==
    /\ pc["worker"] = "idle"
    /\ ~closed
    /\ hashes' = [hashes EXCEPT !["worker"] = {h}]
    /\ tries' = 0
    /\ Goto("worker", "begin")
    /\ UNCHANGED <<database, server, id, writes, outcome, buf, recorded, closed>>
    /\ UNCHANGED <<used, metric, history, faults>>

\* commit_metadata: discover, then the old row FOR UPDATE.
MetadataStatements ==
    /\ pc["worker"] = "locked"
    /\ Statements("worker", [kind |-> "metadata", id |-> 0, rows |-> hashes["worker"],
                             new |-> New("worker"),
                             done |-> Cardinality(hashes["worker"] \ complete)])

MetadataCommits ==
    /\ Commits("worker", "idle")
    /\ tries' = 0
    /\ UNCHANGED <<outcome, recorded, metric>>

\* prune_old_torrents: the cutoff is fixed, then chunk after chunk is deleted.
\* A command that finds nothing stale changes nothing and is left out.
StartPrune ==
    /\ pc["pruner"] = "idle"
    /\ stale # {}
    /\ Goto("pruner", "begin")
    /\ UNCHANGED <<database, server, id, hashes, writes, outcome, buf, recorded, tries, closed>>
    /\ UNCHANGED <<used, metric, history, faults>>

PruneRowsOf(H) ==
    /\ pc["pruner"] = "locked"
    /\ Statements("pruner", [kind |-> "prune", id |-> 0, rows |-> H, new |-> Cardinality(H),
                             done |-> Cardinality(H \cap complete)])

PruneStatements_any == \E H \in SUBSET torrents : H # {} /\ PruneRowsOf(H)

\* The first PruneChunk rows in the order of last_seen, or all if there are
\* fewer.  Which of the stale rows are older is not modelled.
PruneStatements ==
    \E H \in SUBSET stale :
        /\ H # {}
        /\ Cardinality(H) = PruneChunk \/ (H = stale /\ Cardinality(H) < PruneChunk)
        /\ PruneRowsOf(H)

\* Nothing is left: the transaction is rolled back and the command returns.
PruneDone ==
    /\ pc["pruner"] = "locked"
    /\ stale = {}
    /\ Goto("pruner", "idle")
    /\ lock' = "none"
    /\ UNCHANGED <<database, doubt, id, hashes, writes, outcome, buf, recorded, tries, closed>>
    /\ UNCHANGED <<used, metric, history, faults>>

PruneCommits ==
    /\ Commits("pruner", "begin")
    /\ UNCHANGED <<outcome, recorded, tries, metric>>

------------------------------------------------------------------------------
(***************************************************************************)
(* Time, failures and shutdown.                                            *)
(***************************************************************************)
\* A row will not have been seen since the cutoff of the next prune command.
TorrentAges(h) ==
    /\ pc["pruner"] = "idle"
    /\ h \in torrents \ stale
    /\ stale' = stale \cup {h}
    /\ UNCHANGED <<torrents, complete, totals, receipt, result, server, clients>>
    /\ UNCHANGED <<used, metric, history, faults>>

\* Seven days pass since a receipt was acknowledged.  The code does not rule
\* out that its operation is still being retried then; the model does.
ReceiptAges(r) ==
    /\ receipt[r] = "acked"
    /\ \A c \in Clients : id[c] # r
    /\ receipt' = [receipt EXCEPT ![r] = "expired"]
    /\ UNCHANGED <<torrents, complete, stale, totals, result, server, clients>>
    /\ UNCHANGED <<used, metric, history, faults>>

\* The tasks in C are cut off: their open transaction is rolled back by the
\* server, unless it was already in doubt.
Cut(C) ==
    /\ pc' = [c \in Clients |-> IF c \in C THEN "idle" ELSE pc[c]]
    /\ id' = [c \in Clients |-> IF c \in C THEN 0 ELSE id[c]]
    /\ hashes' = [c \in Clients |-> IF c \in C THEN {} ELSE hashes[c]]
    /\ writes' = [c \in Clients |-> IF c \in C THEN NoWrites ELSE writes[c]]
    /\ lock' = IF lock \in C THEN "none" ELSE lock
    /\ outcome' = 0
    /\ tries' = 0

\* The crawler process dies, or ends after a shutdown, and starts again.
Restart ==
    /\ Fault
    /\ Cut({"fetcher", "stats", "worker"})
    /\ buf' = <<>>
    /\ recorded' = FALSE
    /\ closed' = FALSE
    /\ UNCHANGED <<database, doubt, used, metric, history>>

\* shutdown_tasks: the crawler is aborted; the fetcher ends when its channel is
\* drained, or is aborted with its workers after the timeout.  Then every
\* sender of the statistics channel is gone.
Shutdown ==
    /\ ~closed
    /\ Fault
    /\ Cut({"fetcher", "worker"})
    /\ closed' = TRUE
    /\ UNCHANGED <<database, doubt, buf, recorded, used, metric, history>>

Init ==
    /\ torrents = {}
    /\ complete = {}
    /\ stale = {}
    /\ totals = [torrents |-> 0, complete |-> 0]
    /\ receipt = [r \in Ops |-> "absent"]
    /\ result = [r \in Ops |-> 0]
    /\ lock = "none"
    /\ doubt = NoWrites
    /\ pc = [c \in Clients |-> "idle"]
    /\ id = [c \in Clients |-> 0]
    /\ hashes = [c \in Clients |-> {}]
    /\ writes = [c \in Clients |-> NoWrites]
    /\ outcome = 0
    /\ buf = <<>>
    /\ recorded = FALSE
    /\ tries = 0
    /\ closed = FALSE
    /\ used = 0
    /\ metric = [r \in Ops |-> -1]
    /\ commits = [r \in Ops |-> 0]
    /\ inserted = [r \in Ops |-> 0]
    /\ faults = 0

Discovery == \/ replayed_discovery \/ DiscoveryStatements \/ DiscoveryDuplicate
             \/ DiscoveryCommits \/ remove_receipt
Flush == \/ FlushPending \/ BatchStatements \/ BatchReplayed \/ BatchCommits
         \/ acknowledge_receipt \/ StatsStops
Metadata == MetadataStatements \/ MetadataCommits
PruneRows == PruneStatements \/ PruneDone \/ PruneCommits

Next ==
    \/ \E c \in Clients : lock_totals(c) \/ Rollback(c) \/ LoseCommit(c)
    \/ ResolveDoubt
    \/ \E h \in Hashes : ReceiveDiscovery(h) \/ ReceiveEvent(h) \/ StartCommit(h) \/ TorrentAges(h)
    \/ Discovery
    \/ Flush
    \/ prune_receipts
    \/ Metadata
    \/ StartPrune
    \/ PruneRows
    \/ \E r \in Ops : ReceiptAges(r)
    \/ Restart
    \/ Shutdown

Spec == Init /\ [][Next]_vars

(***************************************************************************)
(* InnoDB grants a row lock to a transaction that keeps asking for it; a   *)
(* task that is not blocked goes on; the server ends a transaction whose   *)
(* client is gone.  No error, restart or shutdown is assumed to happen.    *)
(***************************************************************************)
Fairness ==
    /\ \A c \in Clients : SF_vars(lock_totals(c))
    /\ WF_vars(ResolveDoubt)
    /\ WF_vars(Discovery)
    /\ WF_vars(Flush)
    /\ WF_vars(Metadata)
    /\ WF_vars(PruneRows)

FairSpec == Spec /\ Fairness

------------------------------------------------------------------------------
(***************************************************************************)
(* Properties.                                                             *)
(***************************************************************************)
\* Every variable keeps its type: a receipt has one state, a client one phase.
TypeOK ==
    /\ torrents \subseteq Hashes
    /\ complete \subseteq torrents
    /\ stale \subseteq torrents
    /\ totals \in [torrents : Nat, complete : Nat]
    /\ receipt \in [Ops -> {"absent", "unacked", "acked", "expired"}]
    /\ result \in [Ops -> Nat]
    /\ lock \in Clients \cup {"doubt", "none"}
    /\ doubt \in Writes
    /\ pc \in [Clients -> Phases]
    /\ id \in [Clients -> 0 .. MaxOps]
    /\ hashes \in [Clients -> SUBSET Hashes]
    /\ writes \in [Clients -> Writes]
    /\ outcome \in Nat
    /\ buf \in Seq(Hashes) /\ Len(buf) <= BatchSize
    /\ recorded \in BOOLEAN
    /\ tries \in 0 .. Attempts - 1
    /\ closed \in BOOLEAN
    /\ used \in 0 .. MaxOps
    /\ metric \in [Ops -> Nat \cup {-1}]
    /\ commits \in [Ops -> Nat]
    /\ inserted \in [Ops -> Nat]
    /\ faults \in 0 .. MaxFaults

\* catalog_totals, kept by relative updates in four different transactions,
\* is at every moment the count of the torrents table that the search and
\* statistics pages read instead of counting.
TotalsMatch ==
    /\ totals.torrents = Cardinality(torrents)
    /\ totals.complete = Cardinality(complete)

\* An operation takes effect once, however often it is retried, and what its
\* client reports to the metrics, after any number of retries and uncertain
\* commits, is what was committed for it: the replay of a receipt neither loses
\* nor invents inserted rows.
CountedExactlyOnce ==
    \A r \in Ops : /\ commits[r] <= 1
                   /\ metric[r] # -1 => commits[r] > 0 /\ metric[r] = inserted[r]

\* The transactions implement operations that take effect in one step; and the
\* prune command deletes no torrent that has been seen since the cutoff, not
\* even one that is rediscovered between two of its chunks.
Atomic == INSTANCE CatalogAtomic WITH applied <- {r \in Ops : commits[r] > 0}
AtomicSpec == Atomic!Spec

\* A discovery or a batch that has been started is not retried for ever: its
\* receipt comes to rest, through errors and lost connections.
OperationEnds == \A c \in {"fetcher", "stats"}, r \in Ops : id[c] = r ~> id[c] # r

\* Once every sender is gone the statistics worker flushes what it has and
\* stops, or the process is restarted.
DrainEnds == closed ~> pc["stats"] = "stopped" \/ ~closed
==============================================================================
