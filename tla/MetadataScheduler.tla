-------------------------- MODULE MetadataScheduler --------------------------
(***************************************************************************)
(* The metadata scheduler of src/metadata.rs (run_metadata_fetcher, its    *)
(* hash workers and its retry loader) together with the tables of          *)
(* src/store.rs that it reads and writes: torrents, hash_jobs,             *)
(* hash_job_peers and metadata_peer_attempts.                              *)
(*                                                                         *)
(* One scheduler task owns jobs, ready and ready_set; up to MaxConcurrent  *)
(* worker tasks each run one round of peer attempts for one hash and       *)
(* report an outcome that the scheduler applies when it joins them; the    *)
(* statistics worker and the maintenance command write the same tables     *)
(* concurrently; the process may crash at any point.  Every SQL            *)
(* transaction is one atomic step.                                         *)
(***************************************************************************)
EXTENDS Integers, Sequences, FiniteSets

CONSTANTS
    Hashes,          \* info hashes
    Peers,           \* peer addresses
    MaxConcurrent,   \* max_concurrent: workers at the same time
    MaxActive,       \* max_active_hash_jobs: hashes held in memory
    MaxPeers,        \* max_peers_per_hash
    RoundLimit,      \* max_peer_attempts_per_round
    RetryAfterHours, \* retry_after_hours; 0 means a peer never cools down
    Content,         \* what the bytes with SHA-1 h parse to (the hash fixes them)
    MaxDiscoveries,  \* bound on the observations the environment makes (at a time)
    MaxFaults,       \* bound on database errors, crashes, shutdowns and prunes
    MaxPanics        \* bound on the workers that panic in one process

Kinds == {"ok", "oversized", "unsupported", "invalid"}

ASSUME ConstantsAssumption ==
    /\ IsFiniteSet(Hashes)
    /\ IsFiniteSet(Peers)
    /\ MaxConcurrent \in Nat \ {0}
    /\ MaxActive \in Nat \ {0}
    /\ MaxPeers \in Nat \ {0}
    /\ RoundLimit \in Nat \ {0}
    /\ RetryAfterHours \in Nat
    /\ Content \in [Hashes -> Kinds]
    /\ MaxDiscoveries \in Nat
    /\ MaxFaults \in Nat
    /\ MaxPanics \in Nat

VARIABLES
    \* The scheduler task's memory.
    jobs,         \* keys of HashMap<InfoHash, HashJob>
    peers,        \* HashJob.peers: pending peers, front first
    peer_set,     \* HashJob.peer_set
    running,      \* the hashes whose HashJob.running is true
    ready,        \* VecDeque<InfoHash>
    ready_set,    \* HashSet<InfoHash>
    workers,      \* JoinSet<JobOutcome>: the workers not joined yet
    lost,         \* hashes whose worker panicked since the process started
    mode,         \* "running", "draining" (channel closed) or "down"
    \* The database.
    torrent,      \* torrents row: "absent", "bare" or "complete"
    status,       \* hash_jobs.status, "none" without a row
    job_peers,    \* hash_job_peers
    attempt,      \* metadata_peer_attempts: "none", "cooling", "rejected"
    zeroQ,        \* live rows with next_attempt_at = 0, by updated_at
    pastQ,        \* live rows with 0 < next_attempt_at <= now, in that order
    \* Bounds.
    observed,     \* observations so far, at most MaxDiscoveries
    faults        \* faults so far, at most MaxFaults

memory == <<jobs, peers, peer_set, running, ready, ready_set>>
tables == <<torrent, status, job_peers, attempt, zeroQ, pastQ>>
bounds == <<observed, faults>>
vars == <<memory, workers, lost, mode, tables, bounds>>

Terminal == {"complete", "invalid", "unsupported"}
Live == {"queued", "retry_at"}
Statuses == Terminal \cup Live \cup {"none", "waiting_peers"}
Steps == {"check", "filter", "attempt", "fetch"}
Outcomes == {"complete", "terminal", "parked", "retry"}
Worker == [hash : Hashes, phase : Steps \cup Outcomes, todo : Seq(Peers),
           retryable : BOOLEAN]

------------------------------------------------------------------------------
(***************************************************************************)
(* Helpers.                                                                *)
(***************************************************************************)
Elems(s) == {s[i] : i \in DOMAIN s}
Distinct(s) == \A i, j \in DOMAIN s : s[i] = s[j] => i = j
Smaller(m, n) == IF m <= n THEN m ELSE n

\* The sequences of n distinct members of S.  The order of the addresses of a
\* discovery or of a row is data that no property depends on: any order.
Orders(S, n) == {s \in [1 .. n -> S] : \A i, j \in 1 .. n : s[i] = s[j] => i = j}

\* VecDeque::retain(|q| q != e), for a queue without duplicates.
Without(s, e) ==
    IF e \in Elems(s)
    THEN LET k == CHOOSE i \in DOMAIN s : s[i] = e
         IN  SubSeq(s, 1, k - 1) \o SubSeq(s, k + 1, Len(s))
    ELSE s

------------------------------------------------------------------------------
(***************************************************************************)
(* Statements of store.rs.  A job row that is not Live is never loaded, so *)
(* zeroQ and pastQ hold Live rows only; a Live row in neither queue has a  *)
(* next_attempt_at in the future.                                          *)
(***************************************************************************)
Unqueue(h) == /\ zeroQ' = Without(zeroQ, h)
              /\ pastQ' = Without(pastQ, h)

TorrentSeen(h) ==
    torrent' = [torrent EXCEPT ![h] = IF @ = "absent" THEN "bare" ELSE @]

\* discover(conn, hash, source, peers = true).
discover_peers(h) ==
    /\ TorrentSeen(h)
    /\ \/ /\ torrent[h] = "complete"
          /\ status' = [status EXCEPT ![h] = "complete"]
          /\ Unqueue(h)
       \/ /\ torrent[h] # "complete"
          /\ status[h] \in Terminal
          /\ UNCHANGED <<status, zeroQ, pastQ>>
       \/ /\ torrent[h] # "complete"
          /\ status[h] \notin Terminal
          /\ status' = [status EXCEPT ![h] = "queued"]
          /\ zeroQ' = Append(Without(zeroQ, h), h)
          /\ pastQ' = Without(pastQ, h)

\* discover(conn, hash, source, peers = false): it creates no job row and
\* leaves next_attempt_at alone, but it updates updated_at.
discover_peerless(h) ==
    /\ TorrentSeen(h)
    /\ status' = [status EXCEPT ![h] = IF @ \in Live THEN "queued" ELSE @]
    /\ zeroQ' = IF h \in Elems(zeroQ) THEN Append(Without(zeroQ, h), h) ELSE zeroQ
    /\ UNCHANGED pastQ

\* persist_hash_discovery_once: the discovery, its peers and the retention
\* delete, in one transaction.  Which peers survive depends on last_seen.
persist_hash_discovery(h, ps) ==
    IF ps = {}
    THEN discover_peerless(h) /\ UNCHANGED job_peers
    ELSE /\ discover_peers(h)
         /\ \E kept \in SUBSET (job_peers[h] \cup ps) :
               /\ Cardinality(kept) =
                     Smaller(MaxPeers, Cardinality(job_peers[h] \cup ps))
               /\ job_peers' = [job_peers EXCEPT ![h] = kept]

commit_metadata_without_job(h) ==
    /\ torrent' = [torrent EXCEPT ![h] = "complete"]
    /\ status' = [status EXCEPT ![h] = IF @ = "none" THEN @ ELSE "complete"]
    /\ Unqueue(h)
    /\ UNCHANGED <<job_peers, attempt>>

\* commit_metadata, up to and including its COMMIT.
commit_metadata(h) ==
    /\ torrent' = [torrent EXCEPT ![h] = "complete"]
    /\ status' = [status EXCEPT ![h] = "complete"]
    /\ Unqueue(h)
    /\ UNCHANGED <<job_peers, attempt>>

update_hash_job_failure_unguarded(h, s) ==
    /\ status' = [status EXCEPT ![h] = IF @ = "none" THEN @ ELSE s]
    /\ Unqueue(h)
    /\ UNCHANGED <<torrent, job_peers, attempt>>

\* update_hash_job_failure: UPDATE ... WHERE status <> 'complete'.  Every
\* caller passes next = 0 with a status that is not loaded, or a future next.
update_hash_job_failure(h, s) ==
    IF status[h] \in {"none", "complete"}
    THEN UNCHANGED tables
    ELSE /\ status' = [status EXCEPT ![h] = s]
         /\ Unqueue(h)
         /\ UNCHANGED <<torrent, job_peers, attempt>>

\* set_peer_attempt: the foreign key rejects it when the torrent is gone.
\* With retry_after_hours = 0 an attempted peer is eligible at once.
set_peer_attempt(h, p, s) ==
    /\ torrent[h] # "absent"
    /\ attempt' = [attempt EXCEPT ![h][p] =
                      IF s = "cooling" /\ RetryAfterHours = 0 THEN "none" ELSE s]
    /\ UNCHANGED <<torrent, status, job_peers, zeroQ, pastQ>>

\* The first n members of a set of positions, in increasing order.
FirstOf(S, n) ==
    {f \in [1 .. n -> S] :
        /\ \A i, j \in 1 .. n : i < j => f[i] < f[j]
        /\ \A p \in S : (\E j \in 1 .. n : p < f[j]) => \E i \in 1 .. n : f[i] = p}

\* due_hash_jobs(limit): the Live rows whose time has come and that have a
\* retained peer, ORDER BY next_attempt_at, updated_at LIMIT limit.
Row(i) == (zeroQ \o pastQ)[i]
DueRows == {i \in 1 .. Len(zeroQ) + Len(pastQ) : job_peers[Row(i)] # {}}
due_hash_jobs(limit) == FirstOf(DueRows, Smaller(limit, Cardinality(DueRows)))

\* hash_job_peers(hash, max_peers): at most that many retained peers.
hash_job_peers(h) ==
    Orders(job_peers[h], Smaller(MaxPeers, Cardinality(job_peers[h])))

------------------------------------------------------------------------------
(***************************************************************************)
(* The scheduler task.  Before every select! it starts rounds while it can *)
(* (workers.len() < max_concurrent and a ready hash); Filled says that it  *)
(* has reached the select!.                                                *)
(***************************************************************************)
Filled == Cardinality(workers) >= MaxConcurrent \/ ready = <<>>
Selecting == mode = "running" /\ Filled

merge_peers_unlimited(h, ps) ==
    LET fresh == ps \ peer_set[h] IN Orders(fresh, Cardinality(fresh))

\* What HashJob::merge_peers may put in front of peers[h]: addresses it does
\* not hold yet, into free slots only.
merge_peers(h, ps) ==
    LET fresh == ps \ peer_set[h]
    IN  Orders(fresh, Smaller(MaxPeers - Len(peers[h]), Cardinality(fresh)))

\* The merged lists, for the hashes of a set and what each one admits.
Merge(H, new) ==
    /\ peers' = [h \in Hashes |-> IF h \in H THEN new[h] \o peers[h] ELSE peers[h]]
    /\ peer_set' = [h \in Hashes |->
                      IF h \in H THEN peer_set[h] \cup Elems(new[h]) ELSE peer_set[h]]

\* ready_set.insert(h) and, when h was not there, ready.push_back(h).
push_ready(h) ==
    /\ ready_set' = ready_set \cup {h}
    /\ ready' = IF h \in ready_set THEN ready ELSE Append(ready, h)

\* prioritize_ready_job after an Accepted admission of h that left h ready.
push_front_ready(h) ==
    /\ ready_set' = ready_set \cup {h}
    /\ ready' = <<h>> \o Without(ready, h)

\* admit_job_peers for a discovery, then prioritize_ready_job; new is what
\* merge_peers admits.
admit_job_peers(h, new) ==
    \/ \* JobAdmission::Accepted, an existing job
       /\ h \in jobs
       /\ new # <<>>
       /\ Merge({h}, [x \in {h} |-> new])
       /\ IF h \notin running \/ h \in ready_set
          THEN push_front_ready(h)
          ELSE UNCHANGED <<ready, ready_set>>
       /\ UNCHANGED <<jobs, running>>
    \/ \* JobAdmission::Unchanged
       /\ h \in jobs
       /\ new = <<>>
       /\ UNCHANGED memory
    \/ \* JobAdmission::NoPeers or JobAdmission::AtCapacity
       /\ h \notin jobs
       /\ new = <<>> \/ Cardinality(jobs) >= MaxActive
       /\ UNCHANGED memory
    \/ \* JobAdmission::Accepted, a new job
       /\ h \notin jobs
       /\ new # <<>>
       /\ Cardinality(jobs) < MaxActive
       /\ jobs' = jobs \cup {h}
       /\ Merge({h}, [x \in {h} |-> new])
       /\ push_front_ready(h)
       /\ UNCHANGED running

StartRound_not_marked ==
    /\ mode = "running"
    /\ ~Filled
    /\ LET h == Head(ready)
           n == Smaller(RoundLimit, Len(peers[h]))
           round == SubSeq(peers[h], 1, n)
       IN  /\ ready' = Tail(ready)
           /\ ready_set' = ready_set \ {h}
           /\ IF h \in jobs /\ h \notin running /\ round # <<>>
              THEN /\ peers' = [peers EXCEPT ![h] = SubSeq(@, n + 1, Len(@))]
                   /\ peer_set' = [peer_set EXCEPT ![h] = @ \ Elems(round)]
                   /\ UNCHANGED running
                   /\ workers' = workers \cup
                        {[hash |-> h, phase |-> "check", todo |-> round,
                          retryable |-> FALSE]}
              ELSE UNCHANGED <<peers, peer_set, running, workers>>
    /\ UNCHANGED <<jobs, lost, mode, tables, bounds>>

\* The while loop that pops ready, with HashJob::take_round and the spawn.
StartRound ==
    /\ mode = "running"
    /\ ~Filled
    /\ LET h == Head(ready)
           n == Smaller(RoundLimit, Len(peers[h]))
           round == SubSeq(peers[h], 1, n)
       IN  /\ ready' = Tail(ready)
           /\ ready_set' = ready_set \ {h}
           /\ IF h \in jobs /\ h \notin running /\ round # <<>>
              THEN /\ peers' = [peers EXCEPT ![h] = SubSeq(@, n + 1, Len(@))]
                   /\ peer_set' = [peer_set EXCEPT ![h] = @ \ Elems(round)]
                   /\ running' = running \cup {h}
                   /\ workers' = workers \cup
                        {[hash |-> h, phase |-> "check", todo |-> round,
                          retryable |-> FALSE]}
              ELSE UNCHANGED <<peers, peer_set, running, workers>>
    /\ UNCHANGED <<jobs, lost, mode, tables, bounds>>

\* info_hash_rx.recv(): the discovery is persisted (in a loop that only a
\* commit leaves) and its peers are admitted.  publish_discovery sends at most
\* max_peers_per_hash distinct addresses.
ReceiveDiscovery(h, ps) ==
    /\ Selecting
    /\ observed < MaxDiscoveries
    /\ Cardinality(ps) <= MaxPeers
    /\ observed' = observed + 1
    /\ persist_hash_discovery(h, ps)
    /\ \E new \in merge_peers(h, ps) : admit_job_peers(h, new)
    /\ UNCHANGED <<workers, lost, mode, attempt, faults>>

due_rows_available_only ==
    due_hash_jobs(MaxActive - Cardinality(jobs))

\* The rows load_due_jobs asks for: LIMIT max_active, tracked rows included.
due_rows == due_hash_jobs(MaxActive)

\* retry_tick: load_due_jobs and the admission of what it returns, in order.
LoadDueJobs ==
    /\ Selecting
    /\ LET available == MaxActive - Cardinality(jobs)
       IN  /\ available > 0
           /\ \E rows \in due_rows :
                LET fresh == {i \in Elems(rows) : Row(i) \notin jobs}
                IN  \E taken \in FirstOf(fresh, Smaller(available, Cardinality(fresh))) :
                      LET order == [k \in DOMAIN taken |-> Row(taken[k])]
                          H == Elems(order)
                          all == UNION {hash_job_peers(h) : h \in H}
                      IN  /\ jobs' = jobs \cup H
                          /\ \E new \in {f \in [H -> all] :
                                           \A h \in H : f[h] \in hash_job_peers(h)} :
                                Merge(H, new)
                          /\ ready' = ready \o order
                          /\ ready_set' = ready_set \cup H
    /\ UNCHANGED <<running, workers, lost, mode, tables, bounds>>

Forget_keeps_slot(h) ==
    /\ UNCHANGED <<jobs, peers, peer_set>>
    /\ running' = running \ {h}

\* jobs.remove(h): the job with its peers.
Forget(h) ==
    /\ jobs' = jobs \ {h}
    /\ peers' = [peers EXCEPT ![h] = <<>>]
    /\ peer_set' = [peer_set EXCEPT ![h] = {}]
    /\ running' = running \ {h}

apply_job_outcome_drops_ready(h, phase) ==
    \/ /\ phase # "retry"
       /\ Forget(h)
       /\ UNCHANGED <<ready, ready_set>>
    \/ /\ phase = "retry"
       /\ running' = running \ {h}
       /\ UNCHANGED <<jobs, peers, peer_set, ready, ready_set>>

\* apply_job_outcome.
apply_job_outcome(h, phase) ==
    \/ /\ phase \in {"complete", "terminal", "parked"}
       /\ Forget(h)
       /\ ready_set' = ready_set \ {h}
       /\ UNCHANGED ready
    \/ /\ phase = "retry"
       /\ h \in jobs
       /\ peers[h] = <<>>
       /\ Forget(h)
       /\ ready_set' = ready_set \ {h}
       /\ UNCHANGED ready
    \/ /\ phase = "retry"
       /\ h \in jobs
       /\ peers[h] # <<>>
       /\ running' = running \ {h}
       /\ push_ready(h)
       /\ UNCHANGED <<jobs, peers, peer_set>>
    \/ /\ phase = "retry"
       /\ h \notin jobs
       /\ UNCHANGED memory

\* workers.join_next() returned an outcome.
JoinNext(w) ==
    /\ Selecting
    /\ w.phase \in Outcomes
    /\ apply_job_outcome(w.hash, w.phase)
    /\ workers' = workers \ {w}
    /\ UNCHANGED <<lost, mode, tables, bounds>>

\* A worker panics and workers.join_next() returns the JoinError, which is
\* only logged: the job stays in memory with running set.
JoinError(w) ==
    /\ Selecting
    /\ Cardinality(lost) < MaxPanics
    /\ w.phase \in Steps
    /\ workers' = workers \ {w}
    /\ lost' = lost \cup {w.hash}
    /\ UNCHANGED <<memory, mode, tables, bounds>>
------------------------------------------------------------------------------
(***************************************************************************)
(* A worker: process_hash_round.  A database call that is retried until it *)
(* succeeds is one step; one whose error is handled has an error outcome.  *)
(***************************************************************************)
Becomes(w, v) == workers' = (workers \ {w}) \cup {v}
Moves(w, phase) == Becomes(w, [w EXCEPT !.phase = phase])
DbError == faults < MaxFaults /\ faults' = faults + 1
DbOk == UNCHANGED faults
WorkerOnly == UNCHANGED <<memory, lost, mode, observed>>

CheckTerminal_skipped(w) ==
    /\ w.phase = "check"
    /\ Moves(w, "filter")
    /\ UNCHANGED <<tables, faults>>
    /\ WorkerOnly

\* store.hash_job_is_terminal, retried until it answers.
CheckTerminal(w) ==
    /\ w.phase = "check"
    /\ Moves(w, IF status[w.hash] \in Terminal THEN "terminal" ELSE "filter")
    /\ UNCHANGED <<tables, faults>>
    /\ WorkerOnly

Eligible_ignores_cooldown(h, p) == attempt[h][p] # "rejected"

\* peer_retry_eligibility(h, p) = Eligible.
Eligible(h, p) == attempt[h][p] = "none"

\* filter_peers_for_retry: the peers whose lookup fails, and those cooling
\* down, give next_eligible_at a value; rejected ones give nothing.
FilterPeers(w) ==
    /\ w.phase = "filter"
    /\ \E failed \in SUBSET Elems(w.todo) :
         LET keep == {p \in Elems(w.todo) \ failed : Eligible(w.hash, p)}
             delayed == \E p \in Elems(w.todo) : p \in failed \/ attempt[w.hash][p] = "cooling"
         IN  /\ IF failed = {} THEN DbOk ELSE DbError
             /\ \E f \in FirstOf({i \in DOMAIN w.todo : w.todo[i] \in keep},
                               Cardinality(keep)) :
                  Becomes(w, [w EXCEPT !.phase = "attempt",
                                       !.todo = [k \in DOMAIN f |-> w.todo[f[k]]],
                                       !.retryable = delayed])
    /\ UNCHANGED tables
    /\ WorkerOnly

\* set_peer_attempt(.., None) before the download; an error counts the peer as
\* retryable and goes on to the next one.
StartAttempt(w) ==
    /\ w.phase = "attempt"
    /\ w.todo # <<>>
    /\ \/ /\ set_peer_attempt(w.hash, Head(w.todo), "cooling")
          /\ DbOk
          /\ Moves(w, "fetch")
       \/ /\ IF torrent[w.hash] = "absent" THEN DbOk ELSE DbError
          /\ Becomes(w, [w EXCEPT !.todo = Tail(@), !.retryable = TRUE])
          /\ UNCHANGED tables
    /\ WorkerOnly

NextPeer(w) == [w EXCEPT !.phase = "attempt", !.todo = Tail(@)]
NextPeerRetryable(w) == [NextPeer(w) EXCEPT !.retryable = TRUE]

\* The download fails; the error is recorded for the peer if the database
\* and the foreign key allow it.
FetchFails(w) ==
    /\ w.phase = "fetch"
    /\ Becomes(w, NextPeerRetryable(w))
    /\ \/ set_peer_attempt(w.hash, Head(w.todo), "cooling") /\ DbOk
       \/ UNCHANGED tables /\ IF torrent[w.hash] = "absent" THEN DbOk ELSE DbError
    /\ WorkerOnly

\* The peer sends bytes whose SHA-1 is not the info hash.
FetchMismatch(w) ==
    /\ w.phase = "fetch"
    /\ Becomes(w, NextPeer(w))
    /\ \/ set_peer_attempt(w.hash, Head(w.todo), "rejected") /\ DbOk
       \/ UNCHANGED tables /\ IF torrent[w.hash] = "absent" THEN DbOk ELSE DbError
    /\ WorkerOnly

\* Verified bytes that parse: commit_metadata succeeds, or reports an error
\* before or after its COMMIT took effect.
FetchOk(w) ==
    /\ w.phase = "fetch"
    /\ Content[w.hash] = "ok"
    /\ \/ commit_metadata(w.hash) /\ DbOk /\ Moves(w, "complete")
       \/ commit_metadata(w.hash) /\ DbError /\ Becomes(w, NextPeerRetryable(w))
       \/ UNCHANGED tables /\ DbError /\ Becomes(w, NextPeerRetryable(w))
    /\ WorkerOnly

FetchOversized_wrong_status(w) ==
    /\ w.phase = "fetch"
    /\ Content[w.hash] = "oversized"
    /\ update_hash_job_failure(w.hash, Content[w.hash])
    /\ Moves(w, "terminal")
    /\ DbOk
    /\ WorkerOnly

\* Verified bytes whose search document is too large: the transaction rolls
\* back and the state write is retried until it succeeds.
FetchOversized(w) ==
    /\ w.phase = "fetch"
    /\ Content[w.hash] = "oversized"
    /\ update_hash_job_failure(w.hash, "unsupported")
    /\ Moves(w, "terminal")
    /\ DbOk
    /\ WorkerOnly

\* Verified bytes that do not parse: one state write, whose error is ignored.
FetchUnparsable(w) ==
    /\ w.phase = "fetch"
    /\ Content[w.hash] \in {"unsupported", "invalid"}
    /\ Moves(w, "terminal")
    /\ \/ update_hash_job_failure(w.hash, Content[w.hash]) /\ DbOk
       \/ UNCHANGED tables /\ DbError
    /\ WorkerOnly

\* The end of the round: no retryable peer parks the job, otherwise a retry is
\* scheduled.  The error of the state write is ignored.
FinishRound(w) ==
    /\ w.phase = "attempt"
    /\ w.todo = <<>>
    /\ Moves(w, IF w.retryable THEN "retry" ELSE "parked")
    /\ \/ update_hash_job_failure(w.hash, IF w.retryable THEN "retry_at" ELSE "waiting_peers")
          /\ DbOk
       \/ UNCHANGED tables /\ DbError
    /\ WorkerOnly

WorkerStep(w) ==
    /\ mode \in {"running", "draining"}
    /\ \/ CheckTerminal(w)
       \/ FilterPeers(w)
       \/ StartAttempt(w)
       \/ FetchFails(w)
       \/ FetchMismatch(w)
       \/ FetchOk(w)
       \/ FetchOversized(w)
       \/ FetchUnparsable(w)
       \/ FinishRound(w)

------------------------------------------------------------------------------
(***************************************************************************)
(* The rest of the system.                                                 *)
(***************************************************************************)
\* persist_runtime_batch: the statistics worker records an observation the
\* discovery channel rejected, or a sample, as peerless.
ObservePeerless(h) ==
    /\ mode \in {"running", "draining"}
    /\ observed < MaxDiscoveries
    /\ observed' = observed + 1
    /\ discover_peerless(h)
    /\ UNCHANGED <<memory, workers, lost, mode, job_peers, attempt, faults>>

\* now() reaches the next_attempt_at of a scheduled row.
RowBecomesDue(h) ==
    /\ status[h] \in Live
    /\ h \notin Elems(zeroQ \o pastQ)
    /\ pastQ' = Append(pastQ, h)
    /\ UNCHANGED <<memory, workers, lost, mode, torrent, status, job_peers, attempt, zeroQ, bounds>>

\* retry_after_hours pass since the last attempt of a peer.
PeerCoolsDown(h, p) ==
    /\ attempt[h][p] = "cooling"
    /\ attempt' = [attempt EXCEPT ![h][p] = "none"]
    /\ UNCHANGED <<memory, workers, lost, mode, torrent, status, job_peers, zeroQ, pastQ, bounds>>

\* prune_old_torrents (the prune command, a process of its own): the delete
\* cascades to the job, its peers and their attempts.
PruneTorrent(h) ==
    /\ torrent[h] # "absent"
    /\ faults < MaxFaults
    /\ faults' = faults + 1
    /\ torrent' = [torrent EXCEPT ![h] = "absent"]
    /\ status' = [status EXCEPT ![h] = "none"]
    /\ job_peers' = [job_peers EXCEPT ![h] = {}]
    /\ attempt' = [attempt EXCEPT ![h] = [p \in Peers |-> "none"]]
    /\ Unqueue(h)
    /\ UNCHANGED <<memory, workers, lost, mode, observed>>

Stopped ==
    /\ mode' = "down"
    /\ jobs' = {}
    /\ peers' = [h \in Hashes |-> <<>>]
    /\ peer_set' = [h \in Hashes |-> {}]
    /\ running' = {}
    /\ ready' = <<>>
    /\ ready_set' = {}
    /\ workers' = {}
    /\ lost' = {}

\* The process dies: only the database survives.
Crash ==
    /\ mode # "down"
    /\ faults < MaxFaults
    /\ faults' = faults + 1
    /\ Stopped
    /\ UNCHANGED <<tables, observed>>

\* Shutdown: the crawler is gone, recv() returns None and the loop breaks.
CloseChannel ==
    /\ Selecting
    /\ faults < MaxFaults
    /\ faults' = faults + 1
    /\ mode' = "draining"
    /\ UNCHANGED <<memory, workers, lost, tables, observed>>

\* After the loop, workers are joined without applying their outcomes ...
DrainWorker(w) ==
    /\ mode = "draining"
    /\ w.phase \in Outcomes
    /\ workers' = workers \ {w}
    /\ UNCHANGED <<memory, lost, mode, tables, bounds>>

\* ... and the process exits when all are joined or the drain times out.
Exit ==
    /\ mode = "draining"
    /\ Stopped
    /\ UNCHANGED <<tables, bounds>>

\* load_resume_state prunes the attempts that are old enough.
Restart ==
    /\ mode = "down"
    /\ mode' = "running"
    /\ \E kept \in SUBSET (Hashes \X Peers) :
         attempt' = [h \in Hashes |-> [p \in Peers |->
                       IF <<h, p>> \in kept THEN attempt[h][p] ELSE "none"]]
    /\ UNCHANGED <<memory, workers, lost, torrent, status, job_peers, zeroQ, pastQ, bounds>>

Init ==
    /\ jobs = {}
    /\ peers = [h \in Hashes |-> <<>>]
    /\ peer_set = [h \in Hashes |-> {}]
    /\ running = {}
    /\ ready = <<>>
    /\ ready_set = {}
    /\ workers = {}
    /\ lost = {}
    /\ mode = "running"
    /\ torrent = [h \in Hashes |-> "absent"]
    /\ status = [h \in Hashes |-> "none"]
    /\ job_peers = [h \in Hashes |-> {}]
    /\ attempt = [h \in Hashes |-> [p \in Peers |-> "none"]]
    /\ zeroQ = <<>>
    /\ pastQ = <<>>
    /\ observed = 0
    /\ faults = 0

Next ==
    \/ StartRound
    \/ \E h \in Hashes, ps \in SUBSET Peers : ReceiveDiscovery(h, ps)
    \/ LoadDueJobs
    \/ \E w \in workers : JoinNext(w) \/ JoinError(w) \/ WorkerStep(w) \/ DrainWorker(w)
    \/ \E h \in Hashes : ObservePeerless(h) \/ RowBecomesDue(h) \/ PruneTorrent(h)
    \/ \E h \in Hashes, p \in Peers : PeerCoolsDown(h, p)
    \/ Crash
    \/ CloseChannel
    \/ Exit
    \/ Restart

Spec == Init /\ [][Next]_vars

(***************************************************************************)
(* Fairness.  The scheduler task is never blocked for good (every await in *)
(* its loop is a database call that is retried or a ready select! branch), *)
(* the downloads have timeouts, so every worker finishes its round, time   *)
(* passes, and the process is started again: by the service manager after  *)
(* a failure, by an operator after a shutdown.                             *)
(*                                                                         *)
(* The environment is neither fair nor exhausted.  Under FairSpec it may   *)
(* start over whenever it has acted, so that discoveries and faults may go *)
(* on for ever and the bounds limit one burst of them only.  What the      *)
(* scheduler promises, it promises once they stop (EnvironmentStops): new  *)
(* discoveries take the free slots and are queued first, so that sustained *)
(* ones defer older jobs for as long as they last.                         *)
(***************************************************************************)
Fairness ==
    /\ WF_vars(StartRound)
    /\ WF_vars(LoadDueJobs)
    /\ \A h \in Hashes :
         /\ WF_vars(\E w \in workers : w.hash = h /\ WorkerStep(w))
         /\ WF_vars(\E w \in workers : w.hash = h /\ JoinNext(w))
         /\ WF_vars(\E w \in workers : w.hash = h /\ DrainWorker(w))
         /\ WF_vars(RowBecomesDue(h))
         /\ \A p \in Peers : WF_vars(PeerCoolsDown(h, p))
    /\ WF_vars(Exit)
    /\ WF_vars(Restart)

\* The network, the operator and the database go on: another burst.
EnvironmentGoesOn ==
    /\ observed > 0 \/ faults > 0
    /\ observed' = 0
    /\ faults' = 0
    /\ UNCHANGED <<memory, workers, lost, mode, tables>>

NextSustained == Next \/ EnvironmentGoesOn

FairSpec == Init /\ [][NextSustained]_vars /\ Fairness

\* From some point on there is no discovery, with or without peers, no
\* database error, prune, shutdown or crash, and no slot that a panic took.
EnvironmentStops ==
    /\ <>[][UNCHANGED bounds]_vars
    /\ <>[](lost = {})

------------------------------------------------------------------------------
(***************************************************************************)
(* Properties.                                                             *)
(***************************************************************************)
\* The scheduler's memory and its workers.
MemoryTypeOK ==
    /\ jobs \in SUBSET Hashes
    /\ peers \in [Hashes -> Seq(Peers)]
    /\ peer_set \in [Hashes -> SUBSET Peers]
    /\ running \in SUBSET Hashes
    /\ ready \in Seq(Hashes)
    /\ ready_set \in SUBSET Hashes
    /\ workers \in SUBSET Worker
    /\ lost \in SUBSET Hashes
    /\ mode \in {"running", "draining", "down"}

\* The tables.
TableTypeOK ==
    /\ torrent \in [Hashes -> {"absent", "bare", "complete"}]
    /\ status \in [Hashes -> Statuses]
    /\ job_peers \in [Hashes -> SUBSET Peers]
    /\ attempt \in [Hashes -> [Peers -> {"none", "cooling", "rejected"}]]
    /\ zeroQ \in Seq(Hashes)
    /\ pastQ \in Seq(Hashes)

\* The shape of every variable: the statuses that the statements of store.rs
\* write are the ones that due_hash_jobs and hash_job_is_terminal know.
TypeOK ==
    /\ MemoryTypeOK
    /\ TableTypeOK
    /\ observed \in 0 .. MaxDiscoveries
    /\ faults \in 0 .. MaxFaults

\* No job is stranded in memory: a hash is queued exactly once iff it is
\* tracked and no round runs for it, and it then has a peer to try
\* (admit_job_peers, apply_job_outcome and the pop loop keep ready, ready_set,
\* jobs and running in step).
NoStrandedJob ==
    /\ Distinct(ready)
    /\ Elems(ready) = ready_set
    /\ ready_set = jobs \ running
    /\ running \subseteq jobs
    /\ \A h \in ready_set : peers[h] # <<>>

\* At most one round per hash runs at a time, within max_concurrent, and a
\* job is marked running exactly while its worker is unjoined, or for the rest
\* of the process if the worker panicked: that slot is lost, which this property
\* allows.
OneWorkerPerHash ==
    /\ \A v, w \in workers : v.hash = w.hash => v = w
    /\ Cardinality(workers) <= MaxConcurrent
    /\ mode = "running" => running = {w.hash : w \in workers} \cup lost

\* The pending list of a job and the set that deduplicates it agree, and the
\* configured limits hold, whatever discoveries and loads are merged.
PendingPeersSound ==
    /\ Cardinality(jobs) <= MaxActive
    /\ \A h \in Hashes : /\ Distinct(peers[h])
                         /\ Elems(peers[h]) = peer_set[h]
                         /\ Len(peers[h]) <= MaxPeers

\* A completed torrent always has a terminal job row (architecture.md,
\* "a completed torrent always has a durable terminal job row").
CompleteHasTerminalJob ==
    \A h \in Hashes : torrent[h] = "complete" => status[h] = "complete"

\* A terminal job is never reopened: neither a rediscovery, nor the state
\* write of a worker whose commit took effect behind an error, changes it.
\* Only the prune command removes it.
TerminalNeverReopened ==
    [][\A h \in Hashes : status[h] \in Terminal =>
          status'[h] \in {status[h], "none"}]_vars

\* Begins(h, p): a worker starts a download of h from p in this step.
Begins(h, p) ==
    \E w \in workers' : /\ w.phase = "fetch" /\ w.hash = h /\ w \notin workers
                        /\ Head(w.todo) = p

\* No download starts from a peer that is cooling down or was rejected, even
\* if a discovery re-adds the address while its round is still running.
NoFetchDuringCooldown ==
    [][\A h \in Hashes, p \in Peers : Begins(h, p) => attempt[h][p] = "none"]_vars

\* No download starts for a hash whose metadata was found invalid or
\* unsupported, rediscovered or not (hash_job_is_terminal at the round's start).
NoFetchOfRejectedMetadata ==
    [][\A h \in Hashes, p \in Peers :
          Begins(h, p) => status[h] \notin {"invalid", "unsupported"}]_vars

\* A load with a free slot takes in an untracked due job whenever there is
\* one: rows of hashes already in memory cannot use up the query's LIMIT.
LoaderNotStarved ==
    (Cardinality(jobs) < MaxActive /\ \E i \in DueRows : Row(i) \notin jobs) =>
        \A rows \in due_rows : \E i \in Elems(rows) : Row(i) \notin jobs

\* Once the environment stops, a job row that is due for work and has a
\* retained peer is eventually tried (a round runs for it) or leaves the Live
\* states, whatever came before: deferral at the in-memory limit, crashes,
\* failed writes.  While discoveries last nothing of the kind is promised
\* (architecture.md:53, "continuous fresh arrivals can defer it").
LiveJobIsTried ==
    EnvironmentStops =>
        \A h \in Hashes :
            (status[h] \in Live /\ job_peers[h] # {}) ~>
                \/ \E w \in workers : w.hash = h
                \/ status[h] \notin Live
                \/ job_peers[h] = {}

\* Once the environment stops, every slot of the in-memory table is freed: by
\* the rounds that use up a job's peers, by a terminal outcome or by the drain
\* at shutdown.  A hash that is discovered again with new peers for ever keeps
\* its slot.
SlotIsFreed == EnvironmentStops => \A h \in Hashes : h \in jobs ~> h \notin jobs

\* What docs/observability.md:153 says of waiting_peers ("the job was parked
\* waiting for usable peers"): a parked job has no retained peer that could be
\* tried.
ParkedHasNoUsablePeer ==
    \A h \in Hashes : status[h] = "waiting_peers" =>
        \A p \in job_peers[h] : attempt[h][p] # "none"
==============================================================================
