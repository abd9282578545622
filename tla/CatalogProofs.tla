---------------------------- MODULE CatalogProofs ----------------------------
(***************************************************************************)
(* Proofs about CatalogPersistence, for every finite set of hashes and     *)
(* every value of the bounds: the totals match the tables, an operation is *)
(* counted exactly once, and the transactions implement CatalogAtomic.     *)
(***************************************************************************)
EXTENDS CatalogPersistence, FiniteSetTheorems, TLAPS

(***************************************************************************)
(* The inductive invariant.                                                *)
(***************************************************************************)
\* A client is inside its transaction exactly while it holds the totals row.
LockInv == \A c \in Clients : pc[c] \in {"locked", "written"} <=> lock = c

\* The clients whose operations have receipts.
Owners == {"fetcher", "stats"}

\* An operation under way has a receipt that has been handed out, and the two
\* owners never share one.
OwnerInv ==
    /\ \A c \in Owners : /\ id[c] <= used
                         /\ pc[c] \notin {"idle", "stopped"} => id[c] # 0
    /\ id["fetcher"] = id["stats"] => id["fetcher"] = 0

\* A worker commits the metadata of a single hash.
WorkerInv == pc["worker"] # "idle" => \E h \in Hashes : hashes["worker"] = {h}

\* While the statistics worker waits for events its batch is not full, and a
\* receipt is left for what it holds.
BatchInv ==
    pc["stats"] = "idle" => /\ Len(buf) < BatchSize
                            /\ buf # <<>> => used < MaxOps

\* What a transaction is going to write was computed from the tables as they
\* still are when it commits: nobody else changed them.
SoundIn(w, T, K, S, C, u) ==
    /\ w.kind \in {"discovery", "batch"} =>
         /\ w.id \in 1 .. u
         /\ C[w.id] = 0
         /\ w.new = Cardinality(w.rows \ T)
    /\ w.kind = "metadata" =>
         /\ \E h \in Hashes : w.rows = {h}
         /\ w.new = Cardinality(w.rows \ T)
         /\ w.done = Cardinality(w.rows \ K)
    /\ w.kind = "prune" =>
         /\ w.rows \subseteq S
         /\ w.new = Cardinality(w.rows)
         /\ w.done = Cardinality(w.rows \cap K)

SoundWrites(w) == SoundIn(w, torrents, complete, stale, commits, used)

KindOf(c) == CASE c = "fetcher" -> "discovery"
               [] c = "stats" -> "batch"
               [] c = "worker" -> "metadata"
               [] c = "pruner" -> "prune"

WriteInv ==
    /\ \A c \in Clients : pc[c] = "written" =>
         /\ SoundWrites(writes[c])
         /\ writes[c].kind = KindOf(c)
         /\ c \in Owners => writes[c].id = id[c]
    /\ lock = "doubt" => SoundWrites(doubt)

\* The receipt of a committed operation tells what it inserted, and stays as
\* long as its owner may retry it.
ReceiptInv ==
    \A r \in Ops :
        /\ commits[r] \in {0, 1}
        /\ commits[r] = 0 => inserted[r] = 0
        /\ receipt[r] # "absent" => commits[r] = 1 /\ result[r] = inserted[r]
        /\ metric[r] # -1 => commits[r] = 1 /\ metric[r] = inserted[r]
        /\ r > used => commits[r] = 0
        /\ \A c \in Owners : id[c] = r =>
             /\ receipt[r] # "expired"
             /\ commits[r] = 1 => receipt[r] # "absent"

\* Between its commit and the removal of its receipt the fetcher holds the
\* outcome of the transaction in memory.
CleanupInv ==
    pc["fetcher"] = "cleanup" => /\ commits[id["fetcher"]] = 1
                                 /\ outcome = inserted[id["fetcher"]]

IInv == /\ TypeOK /\ TotalsMatch
        /\ LockInv /\ OwnerInv /\ WorkerInv /\ BatchInv /\ WriteInv /\ ReceiptInv /\ CleanupInv

------------------------------------------------------------------------------
(***************************************************************************)
(* Cardinalities: the relative updates of catalog_totals are right.        *)
(***************************************************************************)
\* Inserting the rows R into T adds those that were not there.
LEMMA CardInsert ==
    ASSUME NEW T, IsFiniteSet(T), NEW R, IsFiniteSet(R)
    PROVE  /\ IsFiniteSet(T \cup R)
           /\ Cardinality(R \ T) \in Nat
           /\ Cardinality(T) \in Nat
           /\ Cardinality(T \cup R) = Cardinality(T) + Cardinality(R \ T)
<1>1. IsFiniteSet(R \ T)
  BY FS_Difference
<1>2. T \cup R = T \cup (R \ T) /\ T \cap (R \ T) = {}
  OBVIOUS
<1>3. Cardinality(T \cup (R \ T)) =
        Cardinality(T) + Cardinality(R \ T) - Cardinality(T \cap (R \ T))
  BY <1>1, FS_Union
<1>4. Cardinality({}) = 0
  BY FS_EmptySet
<1>5. Cardinality(R \ T) \in Nat /\ Cardinality(T) \in Nat
  BY <1>1, FS_CardinalityType
<1>6. IsFiniteSet(T \cup R)
  BY FS_Union
<1>7. /\ Cardinality(T \cup R) = Cardinality(T \cup (R \ T))
      /\ Cardinality(T \cap (R \ T)) = 0
  BY <1>2, <1>4, Zenon
<1> QED
  BY <1>3, <1>5, <1>6, <1>7

\* Deleting the rows R from T removes those that were there.
LEMMA CardDelete ==
    ASSUME NEW T, IsFiniteSet(T), NEW R
    PROVE  /\ IsFiniteSet(T \ R)
           /\ Cardinality(T \ R) \in Nat
           /\ Cardinality(T \ R) = Cardinality(T) - Cardinality(R \cap T)
<1>1. IsFiniteSet(R \cap T) /\ IsFiniteSet(T \ R)
  BY FS_Subset
<1>2. T = (R \cap T) \cup (T \ R) /\ (T \ R) \ (R \cap T) = T \ R
  OBVIOUS
<1>3. Cardinality((R \cap T) \cup (T \ R)) =
        Cardinality(R \cap T) + Cardinality((T \ R) \ (R \cap T))
  BY <1>1, CardInsert
<1>4. /\ Cardinality(T) \in Nat /\ Cardinality(R \cap T) \in Nat
      /\ Cardinality(T \ R) \in Nat
  BY <1>1, FS_CardinalityType
<1>5. /\ Cardinality(T) = Cardinality((R \cap T) \cup (T \ R))
      /\ Cardinality((T \ R) \ (R \cap T)) = Cardinality(T \ R)
  BY <1>2, Zenon
<1> QED
  BY <1>1, <1>3, <1>4, <1>5

\* The sets whose sizes the transactions compute are finite.
LEMMA Finite ==
    ASSUME NEW S, S \subseteq Hashes
    PROVE  IsFiniteSet(S) /\ Cardinality(S) \in Nat
BY CatalogAssumption, FS_Subset, FS_CardinalityType

------------------------------------------------------------------------------
(***************************************************************************)
(* COMMIT.                                                                 *)
(***************************************************************************)
\* What the UPDATE of catalog_totals does to its row.
LEMMA TotalsUpdate ==
    ASSUME NEW t \in [torrents : Nat, complete : Nat], NEW m, NEW n
    PROVE  /\ [t EXCEPT !.torrents = m] = [torrents |-> m, complete |-> t.complete]
           /\ [t EXCEPT !.torrents = m, !.complete = n] = [torrents |-> m, complete |-> n]
<1>1. [t EXCEPT !.torrents = m] = [torrents |-> m, complete |-> t.complete]
  BY SMT
<1>2. [[torrents |-> m, complete |-> t.complete] EXCEPT !.complete = n] =
        [torrents |-> m, complete |-> n]
  BY SMT
<1> QED
  BY <1>1, <1>2

\* What the commit of a discovery or of a batch does ...
LEMMA CommitObserved ==
    ASSUME NEW w, CommitWrites(w), w.kind \in {"discovery", "batch"}
    PROVE  /\ torrents' = torrents \cup w.rows
           /\ stale' = stale \ w.rows
           /\ complete' = complete
           /\ totals' = [totals EXCEPT !.torrents = @ + w.new]
           /\ receipt' = [receipt EXCEPT
                             ![w.id] = IF w.kind = "batch" THEN "unacked" ELSE "acked"]
           /\ result' = [result EXCEPT ![w.id] = w.new]
           /\ commits' = [commits EXCEPT ![w.id] = @ + 1]
           /\ inserted' = [inserted EXCEPT ![w.id] = @ + w.new]
<1>1. w.kind # "metadata" /\ w.kind # "prune"
  OBVIOUS
<1> QED
  BY <1>1, Zenon DEF CommitWrites

\* ... that of verified metadata ...
LEMMA CommitMetadata ==
    ASSUME NEW w, CommitWrites(w), w.kind = "metadata"
    PROVE  /\ torrents' = torrents \cup w.rows
           /\ stale' = stale \ w.rows
           /\ complete' = complete \cup w.rows
           /\ totals' = [totals EXCEPT !.torrents = @ + w.new, !.complete = @ + w.done]
           /\ receipt' = receipt /\ result' = result /\ commits' = commits /\ inserted' = inserted
<1>1. w.kind \notin {"discovery", "batch"} /\ w.kind # "prune"
  OBVIOUS
<1> QED
  BY <1>1, Zenon DEF CommitWrites, history

\* ... and that of a chunk of the prune command.
LEMMA CommitPrune ==
    ASSUME NEW w, CommitWrites(w), w.kind = "prune"
    PROVE  /\ torrents' = torrents \ w.rows
           /\ stale' = stale \ w.rows
           /\ complete' = complete \ w.rows
           /\ totals' = [totals EXCEPT !.torrents = @ - w.new, !.complete = @ - w.done]
           /\ receipt' = receipt /\ result' = result /\ commits' = commits /\ inserted' = inserted
<1>1. w.kind \notin {"discovery", "batch"} /\ w.kind # "metadata"
  OBVIOUS
<1> QED
  BY <1>1, Zenon DEF CommitWrites, history

\* The tables a commit leaves are well typed and the totals match them.
LEMMA CommitTables ==
    ASSUME TypeOK, TotalsMatch, NEW w \in Writes, SoundWrites(w), CommitWrites(w)
    PROVE  /\ torrents' \subseteq Hashes
           /\ complete' \subseteq torrents'
           /\ stale' \subseteq torrents'
           /\ totals' = [torrents |-> Cardinality(torrents'), complete |-> Cardinality(complete')]
           /\ totals' \in [torrents : Nat, complete : Nat]
           /\ receipt' \in [Ops -> {"absent", "unacked", "acked", "expired"}]
           /\ result' \in [Ops -> Nat]
           /\ commits' \in [Ops -> Nat]
           /\ inserted' \in [Ops -> Nat]
<1>0. /\ torrents \subseteq Hashes /\ complete \subseteq torrents /\ stale \subseteq torrents
      /\ totals \in [torrents : Nat, complete : Nat]
      /\ totals.torrents = Cardinality(torrents) /\ totals.complete = Cardinality(complete)
      /\ w.rows \subseteq Hashes /\ w.new \in Nat /\ w.done \in Nat
      /\ receipt \in [Ops -> {"absent", "unacked", "acked", "expired"}]
      /\ result \in [Ops -> Nat] /\ commits \in [Ops -> Nat] /\ inserted \in [Ops -> Nat]
  BY DEF TypeOK, TotalsMatch, Writes
<1>1. /\ IsFiniteSet(torrents) /\ IsFiniteSet(complete) /\ IsFiniteSet(w.rows)
      /\ Cardinality(torrents) \in Nat /\ Cardinality(complete) \in Nat
  <2>1. complete \subseteq Hashes
    BY <1>0
  <2> QED
    BY <1>0, <2>1, Finite
<1>2. /\ Cardinality(torrents \cup w.rows) = Cardinality(torrents) + Cardinality(w.rows \ torrents)
      /\ Cardinality(complete \cup w.rows) = Cardinality(complete) + Cardinality(w.rows \ complete)
      /\ Cardinality(w.rows \ torrents) \in Nat /\ Cardinality(w.rows \ complete) \in Nat
  BY <1>1, CardInsert
<1>3. /\ Cardinality(torrents \ w.rows) = Cardinality(torrents) - Cardinality(w.rows \cap torrents)
      /\ Cardinality(complete \ w.rows) = Cardinality(complete) - Cardinality(w.rows \cap complete)
      /\ Cardinality(torrents \ w.rows) \in Nat /\ Cardinality(complete \ w.rows) \in Nat
  BY <1>1, CardDelete
<1>4. CASE w.kind \in {"discovery", "batch"}
  <2>1. /\ torrents' = torrents \cup w.rows /\ stale' = stale \ w.rows /\ complete' = complete
        /\ totals' = [totals EXCEPT !.torrents = @ + w.new]
        /\ w.new = Cardinality(w.rows \ torrents)
    BY <1>4, CommitObserved, Zenon DEF SoundWrites, SoundIn
  <2>2. totals' = [torrents |-> totals.torrents + w.new, complete |-> totals.complete]
    BY <1>0, <2>1, TotalsUpdate, Zenon
  <2>3. /\ receipt' \in [Ops -> {"absent", "unacked", "acked", "expired"}]
        /\ result' \in [Ops -> Nat] /\ commits' \in [Ops -> Nat] /\ inserted' \in [Ops -> Nat]
    <3>1. /\ receipt' = [receipt EXCEPT ![w.id] = IF w.kind = "batch" THEN "unacked" ELSE "acked"]
          /\ result' = [result EXCEPT ![w.id] = w.new]
          /\ commits' = [commits EXCEPT ![w.id] = @ + 1]
          /\ inserted' = [inserted EXCEPT ![w.id] = @ + w.new]
      BY <1>4, CommitObserved, Zenon
    <3>2. /\ receipt' \in [Ops -> {"absent", "unacked", "acked", "expired"}]
          /\ result' \in [Ops -> Nat]
      BY <1>0, <3>1
    <3>3. commits' \in [Ops -> Nat] /\ inserted' \in [Ops -> Nat]
      <4> DEFINE i == w.id  n == w.new
      <4>1. /\ commits' = [commits EXCEPT ![i] = @ + 1]
            /\ inserted' = [inserted EXCEPT ![i] = @ + n]
            /\ n \in Nat /\ commits \in [Ops -> Nat] /\ inserted \in [Ops -> Nat]
        BY <1>0, <3>1
      <4>2. i \in Ops
        BY <1>4, CatalogAssumption DEF SoundWrites, SoundIn, TypeOK, Ops
      <4> HIDE DEF i, n
      <4> QED
        BY <4>1, <4>2
    <3> QED
      BY <3>2, <3>3
  <2>4. /\ torrents' \subseteq Hashes /\ complete' \subseteq torrents'
        /\ stale' \subseteq torrents'
    BY <1>0, <2>1
  <2>5. /\ Cardinality(torrents') = totals.torrents + w.new
        /\ Cardinality(complete') = totals.complete
    <3>1. /\ Cardinality(torrents') = Cardinality(torrents \cup w.rows)
          /\ Cardinality(complete') = Cardinality(complete)
      BY <2>1, Zenon
    <3> QED
      BY <1>0, <1>2, <2>1, <3>1
  <2>6. totals.torrents + w.new \in Nat /\ totals.complete \in Nat
    BY <1>0
  <2> QED
    BY <2>2, <2>3, <2>4, <2>5, <2>6
<1>5. CASE w.kind = "metadata"
  <2>1. /\ torrents' = torrents \cup w.rows /\ stale' = stale \ w.rows
        /\ complete' = complete \cup w.rows
        /\ totals' = [totals EXCEPT !.torrents = @ + w.new, !.complete = @ + w.done]
        /\ receipt' = receipt /\ result' = result /\ commits' = commits /\ inserted' = inserted
        /\ w.new = Cardinality(w.rows \ torrents) /\ w.done = Cardinality(w.rows \ complete)
    BY <1>5, CommitMetadata, Zenon DEF SoundWrites, SoundIn
  <2>2. totals' = [torrents |-> totals.torrents + w.new, complete |-> totals.complete + w.done]
    BY <1>0, <2>1, TotalsUpdate, Zenon
  <2>4. /\ torrents' \subseteq Hashes /\ complete' \subseteq torrents'
        /\ stale' \subseteq torrents'
    BY <1>0, <2>1
  <2>5. /\ Cardinality(torrents') = totals.torrents + w.new
        /\ Cardinality(complete') = totals.complete + w.done
    <3>1. /\ Cardinality(torrents') = Cardinality(torrents \cup w.rows)
          /\ Cardinality(complete') = Cardinality(complete \cup w.rows)
      BY <2>1, Zenon
    <3> QED
      BY <1>0, <1>2, <2>1, <3>1
  <2>6. totals.torrents + w.new \in Nat /\ totals.complete + w.done \in Nat
    BY <1>0
  <2> QED
    BY <1>0, <2>1, <2>2, <2>4, <2>5, <2>6
<1>6. CASE w.kind = "prune"
  <2>1. /\ torrents' = torrents \ w.rows /\ stale' = stale \ w.rows
        /\ complete' = complete \ w.rows
        /\ totals' = [totals EXCEPT !.torrents = @ - w.new, !.complete = @ - w.done]
        /\ receipt' = receipt /\ result' = result /\ commits' = commits /\ inserted' = inserted
        /\ w.new = Cardinality(w.rows) /\ w.done = Cardinality(w.rows \cap complete)
        /\ w.rows \subseteq stale
    BY <1>6, CommitPrune, Zenon DEF SoundWrites, SoundIn
  <2>2. w.rows \cap torrents = w.rows
    BY <1>0, <2>1
  <2>3. totals' = [torrents |-> totals.torrents - w.new, complete |-> totals.complete - w.done]
    BY <1>0, <2>1, TotalsUpdate, Zenon
  <2>4. /\ torrents' \subseteq Hashes /\ complete' \subseteq torrents'
        /\ stale' \subseteq torrents'
    BY <1>0, <2>1
  <2>5. /\ Cardinality(torrents') = totals.torrents - w.new
        /\ Cardinality(complete') = totals.complete - w.done
        /\ Cardinality(torrents') \in Nat /\ Cardinality(complete') \in Nat
    <3>1. /\ Cardinality(torrents') = Cardinality(torrents \ w.rows)
          /\ Cardinality(complete') = Cardinality(complete \ w.rows)
          /\ Cardinality(w.rows \cap torrents) = w.new
      BY <2>1, <2>2, Zenon
    <3> QED
      BY <1>0, <1>3, <2>1, <3>1
  <2> QED
    BY <1>0, <2>1, <2>3, <2>4, <2>5
<1> QED
  BY <1>4, <1>5, <1>6 DEF CommitWrites

------------------------------------------------------------------------------
(***************************************************************************)
(* Every step preserves the types.                                         *)
(***************************************************************************)
\* Where the error paths lead a client.
LEMMA ErrorPaths ==
    ASSUME TypeOK, NEW c \in Clients, AfterError(c)
    PROVE  /\ \E p \in {"replay", "begin", "idle"} : pc' = [pc EXCEPT ![c] = p]
           /\ c = "fetcher" => pc'[c] = "replay"
           /\ c = "stats" => pc'[c] = "begin"
           /\ c = "worker" => pc'[c] \in {"begin", "idle"}
           /\ c = "pruner" => pc'[c] = "idle"
           /\ tries' \in 0 .. Attempts - 1
BY DEF TypeOK, AfterError, Goto, Clients, Attempts

\* An error frees what the client held.
LEMMA ErrorTypes ==
    ASSUME TypeOK, NEW c \in Clients, Fault, AfterError(c), Release(c),
           writes' = [writes EXCEPT ![c] = NoWrites]
    PROVE  /\ pc' \in [Clients -> Phases]
           /\ hashes' \in [Clients -> SUBSET Hashes]
           /\ writes' \in [Clients -> Writes]
           /\ tries' \in 0 .. Attempts - 1
           /\ faults' \in 0 .. MaxFaults
<1>1. NoWrites \in Writes
  BY CatalogAssumption DEF NoWrites, Writes, Kinds
<1>2. faults' \in 0 .. MaxFaults
  BY CatalogAssumption DEF TypeOK, Fault
<1>3. pc' \in [Clients -> Phases] /\ tries' \in 0 .. Attempts - 1
  BY ErrorPaths DEF TypeOK, Phases
<1>4. hashes' \in [Clients -> SUBSET Hashes]
  BY DEF TypeOK, Release
<1>5. writes' \in [Clients -> Writes]
  BY <1>1 DEF TypeOK
<1> QED
  BY <1>2, <1>3, <1>4, <1>5

\* The statements of a transaction leave a well-formed set of writes.
LEMMA StatementsType ==
    ASSUME TypeOK, NEW c \in Clients, NEW w \in Writes, Statements(c, w)
    PROVE  TypeOK'
<1>1. pc' \in [Clients -> Phases] /\ writes' \in [Clients -> Writes]
  BY DEF TypeOK, Statements, Goto, Phases
<1> QED
  BY <1>1 DEF TypeOK, Statements, database, server, history

\* The commit of a client's transaction, without what the client does next.
LEMMA CommitType ==
    ASSUME TypeOK, TotalsMatch, WriteInv, NEW c \in Clients, NEW p \in Phases, Commits(c, p)
    PROVE  /\ TotalsMatch'
           /\ outcome' \in Nat /\ recorded' \in BOOLEAN /\ tries' \in 0 .. Attempts - 1
              /\ metric' \in [Ops -> Nat \cup {-1}] => TypeOK'
<1>1. /\ writes[c] \in Writes /\ SoundWrites(writes[c]) /\ CommitWrites(writes[c])
  BY DEF TypeOK, WriteInv, Commits
<1>2. NoWrites \in Writes
  BY CatalogAssumption DEF NoWrites, Writes, Kinds
<1>3. /\ pc' \in [Clients -> Phases] /\ hashes' \in [Clients -> SUBSET Hashes]
      /\ writes' \in [Clients -> Writes]
  BY <1>2 DEF TypeOK, Commits, Goto, Release
<1>4. /\ lock' = "none" /\ doubt' = doubt /\ id' = id /\ buf' = buf /\ closed' = closed
      /\ used' = used /\ faults' = faults
  BY DEF Commits
<1>5. TotalsMatch'
  BY <1>1, CommitTables DEF TotalsMatch
<1>6. /\ torrents' \subseteq Hashes
      /\ complete' \subseteq torrents'
      /\ stale' \subseteq torrents'
      /\ totals' \in [torrents : Nat, complete : Nat]
      /\ receipt' \in [Ops -> {"absent", "unacked", "acked", "expired"}]
      /\ result' \in [Ops -> Nat]
      /\ commits' \in [Ops -> Nat]
      /\ inserted' \in [Ops -> Nat]
  BY <1>1, CommitTables
<1> QED
  BY <1>3, <1>4, <1>5, <1>6 DEF TypeOK

\* The events of a batch are hashes, and one more of them still fits.
LEMMA BatchFacts ==
    ASSUME TypeOK, BatchInv, pc["stats"] = "idle", NEW h \in Hashes
    PROVE  /\ Append(buf, h) \in Seq(Hashes)
           /\ Len(Append(buf, h)) = Len(buf) + 1
           /\ Len(Append(buf, h)) <= BatchSize
           /\ Append(buf, h) # <<>>
<1>1. buf \in Seq(Hashes) /\ Len(buf) < BatchSize
  BY DEF TypeOK, BatchInv
<1>2. Append(buf, h) \in Seq(Hashes) /\ Len(Append(buf, h)) = Len(buf) + 1 /\ Len(buf) \in Nat
  BY <1>1
<1>3. BatchSize \in Nat
  BY CatalogAssumption
<1>4. Append(buf, h) # <<>>
  BY <1>2
<1> QED
  BY <1>1, <1>2, <1>3, <1>4

\* A new receipt is one of those that are left.
LEMMA FreshType ==
    ASSUME TypeOK, used < MaxOps, NEW c \in Clients, Fresh(c)
    PROVE  used' \in 0 .. MaxOps /\ id' \in [Clients -> 0 .. MaxOps]
<1>1. used + 1 \in 0 .. MaxOps
  BY CatalogAssumption DEF TypeOK
<1>2. id \in [Clients -> 0 .. MaxOps]
  BY DEF TypeOK
<1> QED
  BY <1>1, <1>2 DEF Fresh

\* The scheduler has finished with a discovery.
LEMMA DiscoveryDoneType ==
    ASSUME TypeOK, NEW n, DiscoveryDone(n)
    PROVE  /\ pc' \in [Clients -> Phases] /\ id' \in [Clients -> 0 .. MaxOps]
           /\ hashes' \in [Clients -> SUBSET Hashes] /\ outcome' \in Nat
<1>1. 0 \in 0 .. MaxOps /\ "idle" \in Phases
  BY CatalogAssumption DEF Phases
<1>2. /\ id \in [Clients -> 0 .. MaxOps] /\ id' = [id EXCEPT !["fetcher"] = 0]
      /\ pc \in [Clients -> Phases] /\ pc' = [pc EXCEPT !["fetcher"] = "idle"]
  BY DEF TypeOK, DiscoveryDone, Goto
<1>3. hashes' \in [Clients -> SUBSET Hashes] /\ outcome' \in Nat
  BY DEF TypeOK, DiscoveryDone, Release
<1> QED
  BY <1>1, <1>2, <1>3

\* flush_stats_batch takes a receipt that is left.
LEMMA FlushType ==
    ASSUME TypeOK, used < MaxOps, NEW events \in Seq(Hashes), StartFlush(events)
    PROVE  /\ used' \in 0 .. MaxOps
           /\ id' \in [Clients -> 0 .. MaxOps]
           /\ hashes' \in [Clients -> SUBSET Hashes]
           /\ pc' \in [Clients -> Phases]
           /\ recorded' \in BOOLEAN
<1>1. {events[i] : i \in DOMAIN events} \subseteq Hashes
  OBVIOUS
<1>2. used' \in 0 .. MaxOps /\ id' \in [Clients -> 0 .. MaxOps]
  BY FreshType DEF StartFlush, Clients
<1>3. hashes' \in [Clients -> SUBSET Hashes]
  BY <1>1 DEF TypeOK, StartFlush
<1>4. pc' \in [Clients -> Phases] /\ recorded' \in BOOLEAN
  BY DEF TypeOK, StartFlush, Goto, Phases
<1> QED
  BY <1>2, <1>3, <1>4

\* One step per action: types and totals.
LEMMA TypeStep ==
    ASSUME IInv, Next
    PROVE  TypeOK' /\ TotalsMatch'
<1>0. TypeOK /\ TotalsMatch /\ WriteInv /\ BatchInv /\ OwnerInv
  BY DEF IInv
<1> USE <1>0
<1>t. UNCHANGED <<torrents, complete, totals>> => TotalsMatch'
  BY DEF TotalsMatch
<1>k. \A c \in Clients : Cardinality(hashes[c] \ torrents) \in Nat
                         /\ Cardinality(hashes[c] \ complete) \in Nat
  <2> TAKE c \in Clients
  <2>1. hashes[c] \ torrents \subseteq Hashes /\ hashes[c] \ complete \subseteq Hashes
    BY DEF TypeOK
  <2> QED
    BY <2>1, Finite
<1>o. \A c \in Clients : id[c] \in 0 .. MaxOps /\ hashes[c] \subseteq Hashes
  BY DEF TypeOK
<1>1. ASSUME NEW c \in Clients, lock_totals(c)
      PROVE  TypeOK' /\ TotalsMatch'
  BY <1>1, <1>t DEF lock_totals, Goto, TypeOK, Phases, database, history
<1>2. ASSUME NEW c \in Clients, Rollback(c)
      PROVE  TypeOK' /\ TotalsMatch'
  <2>1. /\ pc' \in [Clients -> Phases] /\ hashes' \in [Clients -> SUBSET Hashes]
        /\ writes' \in [Clients -> Writes]
        /\ tries' \in 0 .. Attempts - 1 /\ faults' \in 0 .. MaxFaults
    BY <1>2, ErrorTypes DEF Rollback
  <2> QED
    BY <1>2, <1>t, <2>1 DEF Rollback, TypeOK, database, history
<1>3. ASSUME NEW c \in Clients, LoseCommit(c)
      PROVE  TypeOK' /\ TotalsMatch'
  <2>1. /\ pc' \in [Clients -> Phases] /\ hashes' \in [Clients -> SUBSET Hashes]
        /\ writes' \in [Clients -> Writes]
        /\ tries' \in 0 .. Attempts - 1 /\ faults' \in 0 .. MaxFaults
    BY <1>3, ErrorTypes DEF LoseCommit
  <2> QED
    BY <1>3, <1>t, <2>1 DEF LoseCommit, TypeOK, database, history
<1>4. CASE ResolveDoubt
  <2>1. NoWrites \in Writes
    BY CatalogAssumption DEF NoWrites, Writes, Kinds
  <2>2. CASE CommitWrites(doubt)
    <3>1. doubt \in Writes /\ SoundWrites(doubt)
      BY <1>4 DEF ResolveDoubt, TypeOK, WriteInv
    <3>2. /\ torrents' \subseteq Hashes
          /\ complete' \subseteq torrents'
          /\ stale' \subseteq torrents'
          /\ totals' \in [torrents : Nat, complete : Nat]
          /\ receipt' \in [Ops -> {"absent", "unacked", "acked", "expired"}]
          /\ result' \in [Ops -> Nat]
          /\ commits' \in [Ops -> Nat]
          /\ inserted' \in [Ops -> Nat]
      BY <2>2, <3>1, CommitTables
    <3>3. TotalsMatch'
      BY <2>2, <3>1, CommitTables DEF TotalsMatch
    <3>4. /\ lock' = "none" /\ doubt' = NoWrites
          /\ UNCHANGED <<clients, used, metric, faults>>
      BY <1>4 DEF ResolveDoubt
    <3> QED
      BY <2>1, <3>2, <3>3, <3>4 DEF TypeOK, clients
  <2>3. CASE UNCHANGED <<database, history>>
    <3>1. /\ lock' = "none" /\ doubt' = NoWrites
          /\ UNCHANGED <<clients, used, metric, faults>>
      BY <1>4 DEF ResolveDoubt
    <3> QED
      BY <1>t, <2>1, <2>3, <3>1 DEF TypeOK, clients, database, history
  <2> QED
    BY <1>4, <2>2, <2>3 DEF ResolveDoubt
<1>5. ASSUME NEW h \in Hashes, ReceiveDiscovery(h)
      PROVE  TypeOK' /\ TotalsMatch'
  <2>1. used < MaxOps
    BY <1>5, CatalogAssumption DEF ReceiveDiscovery, Room, TypeOK
  <2>2. used' \in 0 .. MaxOps /\ id' \in [Clients -> 0 .. MaxOps]
    BY <1>5, <2>1, FreshType DEF ReceiveDiscovery, Clients
  <2>3. hashes' \in [Clients -> SUBSET Hashes] /\ pc' \in [Clients -> Phases]
    BY <1>5 DEF ReceiveDiscovery, Goto, TypeOK, Phases
  <2> QED
    BY <1>5, <1>t, <2>2, <2>3 DEF ReceiveDiscovery, TypeOK, database, server, history
<1>6. ASSUME NEW h \in Hashes, ReceiveEvent(h)
      PROVE  TypeOK' /\ TotalsMatch'
  <2>1. pc["stats"] = "idle" /\ buf' = Append(buf, h)
    BY <1>6 DEF ReceiveEvent
  <2>2. buf' \in Seq(Hashes) /\ Len(buf') <= BatchSize
    BY <2>1, BatchFacts
  <2>3. used < MaxOps
    BY <1>6, <2>1, CatalogAssumption DEF ReceiveEvent, Room, TypeOK, BatchInv
  <2>4. /\ used' \in 0 .. MaxOps /\ id' \in [Clients -> 0 .. MaxOps]
        /\ hashes' \in [Clients -> SUBSET Hashes]
        /\ pc' \in [Clients -> Phases] /\ recorded' \in BOOLEAN
    <3>1. CASE StartFlush(buf')
      BY <2>2, <2>3, <3>1, FlushType
    <3>2. CASE UNCHANGED <<used, id, hashes, recorded, pc>>
      BY <3>2 DEF TypeOK
    <3> QED
      BY <1>6, <3>1, <3>2 DEF ReceiveEvent
  <2> QED
    BY <1>6, <1>t, <2>2, <2>4 DEF ReceiveEvent, TypeOK, database, server, history
<1>7. ASSUME NEW h \in Hashes, StartCommit(h)
      PROVE  TypeOK' /\ TotalsMatch'
  <2>1. hashes' \in [Clients -> SUBSET Hashes] /\ pc' \in [Clients -> Phases]
    BY <1>7 DEF StartCommit, Goto, TypeOK, Phases
  <2> QED
    BY <1>7, <1>t, <2>1 DEF StartCommit, TypeOK, Attempts, database, server, history
<1>8. ASSUME NEW h \in Hashes, TorrentAges(h)
      PROVE  TypeOK' /\ TotalsMatch'
  BY <1>8, <1>t DEF TorrentAges, TypeOK, server, clients, history
<1>9. CASE replayed_discovery
  <2>1. /\ pc' \in [Clients -> Phases] /\ id' \in [Clients -> 0 .. MaxOps]
        /\ hashes' \in [Clients -> SUBSET Hashes] /\ outcome' \in Nat
    <3>1. CASE DiscoveryDone(result[id["fetcher"]])
      BY <3>1, DiscoveryDoneType
    <3>2. CASE Goto("fetcher", "begin") /\ UNCHANGED <<id, hashes, outcome, metric>>
      BY <3>2 DEF Goto, TypeOK, Phases
    <3> QED
      BY <1>9, <3>1, <3>2 DEF replayed_discovery
  <2>2. metric' \in [Ops -> Nat \cup {-1}]
    <3>1. id["fetcher"] \in Ops
      BY <1>9, CatalogAssumption DEF replayed_discovery, OwnerInv, Owners, TypeOK, Ops, Clients
    <3> QED
      BY <1>9, <3>1 DEF replayed_discovery, DiscoveryDone, TypeOK
  <2> QED
    BY <1>9, <1>t, <2>1, <2>2 DEF replayed_discovery, TypeOK, database, server, history
<1>10. CASE DiscoveryStatements
  <2> DEFINE w == [kind |-> "discovery", id |-> id["fetcher"],
                   rows |-> hashes["fetcher"], new |-> New("fetcher"), done |-> 0]
  <2>1. w \in Writes
    BY <1>k, <1>o DEF Writes, Kinds, New, Clients
  <2>2. Statements("fetcher", w) /\ "fetcher" \in Clients
    BY <1>10 DEF DiscoveryStatements, Clients
  <2> HIDE DEF w
  <2>3. TypeOK'
    BY <2>1, <2>2, StatementsType
  <2> QED
    BY <1>t, <2>2, <2>3 DEF Statements, database
<1>11. CASE DiscoveryDuplicate
  BY <1>11, <1>t DEF DiscoveryDuplicate, Goto, TypeOK, Phases, database, history
<1>12. CASE DiscoveryCommits
  <2>1. Commits("fetcher", "cleanup") /\ "fetcher" \in Clients /\ "cleanup" \in Phases
    BY <1>12 DEF DiscoveryCommits, Clients, Phases
  <2>2. outcome' \in Nat
    <3>1. writes["fetcher"] \in Writes
      BY DEF TypeOK, Clients
    <3> QED
      BY <1>12, <3>1 DEF DiscoveryCommits, Writes
  <2>3. /\ recorded' \in BOOLEAN /\ tries' \in 0 .. Attempts - 1
        /\ metric' \in [Ops -> Nat \cup {-1}]
    BY <1>12 DEF DiscoveryCommits, TypeOK
  <2> QED
    BY <2>1, <2>2, <2>3, CommitType
<1>13. CASE remove_receipt
  <2>1. /\ pc' \in [Clients -> Phases] /\ id' \in [Clients -> 0 .. MaxOps]
        /\ hashes' \in [Clients -> SUBSET Hashes] /\ outcome' \in Nat
    BY <1>13, DiscoveryDoneType DEF remove_receipt
  <2>2. metric' \in [Ops -> Nat \cup {-1}]
    BY <1>13 DEF remove_receipt, DiscoveryDone, TypeOK
  <2>3. /\ receipt' \in [Ops -> {"absent", "unacked", "acked", "expired"}]
        /\ result' \in [Ops -> Nat]
    <3>1. CASE DeleteReceipts({id["fetcher"]})
      BY <3>1 DEF DeleteReceipts, TypeOK
    <3>2. CASE UNCHANGED <<receipt, result>>
      BY <3>2 DEF TypeOK
    <3> QED
      BY <1>13, <3>1, <3>2 DEF remove_receipt
  <2>4. faults' \in 0 .. MaxFaults
    BY <1>13, CatalogAssumption DEF remove_receipt, Fault, TypeOK
  <2> QED
    BY <1>13, <1>t, <2>1, <2>2, <2>3, <2>4 DEF remove_receipt, TypeOK, server, history
<1>14. CASE FlushPending
  <2>1. used < MaxOps /\ StartFlush(buf) /\ buf \in Seq(Hashes)
    BY <1>14 DEF FlushPending, BatchInv, TypeOK
  <2>2. /\ used' \in 0 .. MaxOps /\ id' \in [Clients -> 0 .. MaxOps]
        /\ hashes' \in [Clients -> SUBSET Hashes]
        /\ pc' \in [Clients -> Phases] /\ recorded' \in BOOLEAN
    BY <2>1, FlushType
  <2> QED
    BY <1>14, <1>t, <2>2 DEF FlushPending, TypeOK, database, server, history
<1>15. CASE BatchStatements
  <2> DEFINE w == [kind |-> "batch", id |-> id["stats"], rows |-> hashes["stats"],
                   new |-> New("stats"), done |-> 0]
  <2>1. w \in Writes
    BY <1>k, <1>o DEF Writes, Kinds, New, Clients
  <2>2. Statements("stats", w) /\ "stats" \in Clients
    BY <1>15 DEF BatchStatements, Clients
  <2> HIDE DEF w
  <2>3. TypeOK'
    BY <2>1, <2>2, StatementsType
  <2> QED
    BY <1>t, <2>2, <2>3 DEF Statements, database
<1>16. CASE BatchReplayed
  <2>1. metric' \in [Ops -> Nat \cup {-1}]
    <3>1. id["stats"] \in Ops
      BY <1>16, CatalogAssumption DEF BatchReplayed, OwnerInv, Owners, TypeOK, Ops, Clients
    <3> QED
      BY <1>16, <3>1 DEF BatchReplayed, RecordOnce, TypeOK
  <2>2. recorded' \in BOOLEAN /\ pc' \in [Clients -> Phases]
    BY <1>16 DEF BatchReplayed, RecordOnce, Goto, TypeOK, Phases
  <2> QED
    BY <1>16, <1>t, <2>1, <2>2 DEF BatchReplayed, TypeOK, database, history
<1>17. CASE BatchCommits
  <2>1. Commits("stats", "ack") /\ "stats" \in Clients /\ "ack" \in Phases
    BY <1>17 DEF BatchCommits, Clients, Phases
  <2>2. metric' \in [Ops -> Nat \cup {-1}] /\ recorded' \in BOOLEAN
    <3>1. writes["stats"] \in Writes
      BY DEF TypeOK, Clients
    <3>2. writes["stats"].new \in Nat
      BY <3>1 DEF Writes
    <3> QED
      BY <1>17, <3>2 DEF BatchCommits, RecordOnce, TypeOK
  <2>3. outcome' \in Nat /\ tries' \in 0 .. Attempts - 1
    BY <1>17 DEF BatchCommits, TypeOK
  <2> QED
    BY <2>1, <2>2, <2>3, CommitType
<1>18. CASE acknowledge_receipt
  <2>1. receipt' \in [Ops -> {"absent", "unacked", "acked", "expired"}]
    BY <1>18 DEF acknowledge_receipt, Acknowledged, TypeOK
  <2>2. /\ buf' \in Seq(Hashes) /\ Len(buf') <= BatchSize
        /\ faults' \in 0 .. MaxFaults
    <3>1. BatchSize \in Nat /\ MaxFaults \in Nat /\ <<>> \in Seq(Hashes) /\ Len(<<>>) = 0
      BY CatalogAssumption
    <3>2. buf' = buf \/ buf' = <<>>
      BY <1>18 DEF acknowledge_receipt
    <3>3. faults' = faults \/ (faults < MaxFaults /\ faults' = faults + 1)
      BY <1>18 DEF acknowledge_receipt, Fault
    <3>4. buf \in Seq(Hashes) /\ Len(buf) <= BatchSize /\ faults \in 0 .. MaxFaults
      BY DEF TypeOK
    <3>5. buf' \in Seq(Hashes) /\ Len(buf') <= BatchSize
      <4>1. CASE buf' = buf
        BY <3>4, <4>1
      <4>2. CASE buf' = <<>>
        BY <3>1, <4>2
      <4> QED
        BY <3>2, <4>1, <4>2
    <3>6. faults' \in 0 .. MaxFaults
      BY <3>1, <3>3, <3>4
    <3> QED
      BY <3>5, <3>6
  <2>3. id' \in [Clients -> 0 .. MaxOps] /\ pc' \in [Clients -> Phases]
    <3>1. 0 \in 0 .. MaxOps
      BY CatalogAssumption
    <3>2. id' = id \/ id' = [id EXCEPT !["stats"] = 0]
      BY <1>18 DEF acknowledge_receipt
    <3>3. pc' = [pc EXCEPT !["stats"] = "idle"] \/ pc' = [pc EXCEPT !["stats"] = "begin"]
      BY <1>18 DEF acknowledge_receipt, Goto
    <3>4. id \in [Clients -> 0 .. MaxOps] /\ pc \in [Clients -> Phases]
      BY DEF TypeOK
    <3>5. id' \in [Clients -> 0 .. MaxOps]
      BY <3>1, <3>2, <3>4
    <3> QED
      BY <3>3, <3>4, <3>5 DEF Phases
  <2>4. hashes' \in [Clients -> SUBSET Hashes] /\ recorded' \in BOOLEAN
    BY <1>18 DEF acknowledge_receipt, Release, TypeOK
  <2> QED
    BY <1>18, <1>t, <2>1, <2>2, <2>3, <2>4 DEF acknowledge_receipt, TypeOK, server, history
<1>19. CASE StatsStops
  BY <1>19, <1>t DEF StatsStops, Goto, TypeOK, Phases, database, server, history
<1>20. CASE prune_receipts
  <2>1. /\ receipt' \in [Ops -> {"absent", "unacked", "acked", "expired"}]
        /\ result' \in [Ops -> Nat]
    BY <1>20 DEF prune_receipts, DeleteReceipts, TypeOK
  <2> QED
    BY <1>20, <1>t, <2>1 DEF prune_receipts, TypeOK, server, clients, history
<1>21. CASE MetadataStatements
  <2> DEFINE w == [kind |-> "metadata", id |-> 0, rows |-> hashes["worker"],
                   new |-> New("worker"),
                   done |-> Cardinality(hashes["worker"] \ complete)]
  <2>1. w \in Writes
    BY <1>k, <1>o, CatalogAssumption DEF Writes, Kinds, New, Clients
  <2>2. Statements("worker", w) /\ "worker" \in Clients
    BY <1>21 DEF MetadataStatements, Clients
  <2> HIDE DEF w
  <2>3. TypeOK'
    BY <2>1, <2>2, StatementsType
  <2> QED
    BY <1>t, <2>2, <2>3 DEF Statements, database
<1>22. CASE MetadataCommits
  <2>1. Commits("worker", "idle") /\ "worker" \in Clients /\ "idle" \in Phases
    BY <1>22 DEF MetadataCommits, Clients, Phases
  <2>2. /\ outcome' \in Nat /\ recorded' \in BOOLEAN /\ tries' \in 0 .. Attempts - 1
        /\ metric' \in [Ops -> Nat \cup {-1}]
    BY <1>22 DEF MetadataCommits, TypeOK, Attempts
  <2> QED
    BY <2>1, <2>2, CommitType
<1>23. CASE StartPrune
  BY <1>23, <1>t DEF StartPrune, Goto, TypeOK, Phases, database, server, history
<1>24. CASE PruneStatements
  <2>1. PICK H \in SUBSET stale : PruneRowsOf(H)
    BY <1>24 DEF PruneStatements
  <2> DEFINE w == [kind |-> "prune", id |-> 0, rows |-> H, new |-> Cardinality(H),
                   done |-> Cardinality(H \cap complete)]
  <2>2. w \in Writes
    <3>1. H \subseteq Hashes /\ H \cap complete \subseteq Hashes
      BY DEF TypeOK
    <3>2. Cardinality(H) \in Nat /\ Cardinality(H \cap complete) \in Nat
      BY <3>1, Finite
    <3> QED
      BY <3>1, <3>2, CatalogAssumption DEF Writes, Kinds
  <2>3. Statements("pruner", w) /\ "pruner" \in Clients
    BY <2>1 DEF PruneRowsOf, Clients
  <2> HIDE DEF w
  <2>4. TypeOK'
    BY <2>2, <2>3, StatementsType
  <2> QED
    BY <1>t, <2>3, <2>4 DEF Statements, database
<1>25. CASE PruneDone
  BY <1>25, <1>t DEF PruneDone, Goto, TypeOK, Phases, database, history
<1>26. CASE PruneCommits
  <2>1. Commits("pruner", "begin") /\ "pruner" \in Clients /\ "begin" \in Phases
    BY <1>26 DEF PruneCommits, Clients, Phases
  <2>2. /\ outcome' \in Nat /\ recorded' \in BOOLEAN /\ tries' \in 0 .. Attempts - 1
        /\ metric' \in [Ops -> Nat \cup {-1}]
    BY <1>26 DEF PruneCommits, TypeOK
  <2> QED
    BY <2>1, <2>2, CommitType
<1>27. ASSUME NEW r \in Ops, ReceiptAges(r)
      PROVE  TypeOK' /\ TotalsMatch'
  BY <1>27, <1>t DEF ReceiptAges, TypeOK, server, clients, history
<1>28. CASE Restart \/ Shutdown
  <2>0. /\ NoWrites \in Writes /\ 0 \in 0 .. MaxOps /\ "idle" \in Phases
        /\ BatchSize \in Nat
    BY CatalogAssumption DEF NoWrites, Writes, Kinds, Phases
  <2>1. PICK C \in SUBSET Clients : Cut(C)
    BY <1>28 DEF Restart, Shutdown, Clients
  <2>2. /\ pc' \in [Clients -> Phases] /\ id' \in [Clients -> 0 .. MaxOps]
        /\ hashes' \in [Clients -> SUBSET Hashes] /\ writes' \in [Clients -> Writes]
        /\ lock' \in Clients \cup {"doubt", "none"} /\ outcome' \in Nat
        /\ tries' \in 0 .. Attempts - 1
    BY <2>0, <2>1 DEF Cut, TypeOK, Attempts
  <2>3. faults' \in 0 .. MaxFaults
    BY <1>28, CatalogAssumption DEF Restart, Shutdown, Fault, TypeOK
  <2>4. /\ buf' \in Seq(Hashes) /\ Len(buf') <= BatchSize
        /\ recorded' \in BOOLEAN /\ closed' \in BOOLEAN
    <3>1. buf' = buf \/ buf' = <<>>
      BY <1>28 DEF Restart, Shutdown
    <3>2. buf \in Seq(Hashes) /\ Len(buf) <= BatchSize /\ <<>> \in Seq(Hashes) /\ Len(<<>>) = 0
      BY DEF TypeOK
    <3>3. recorded' \in BOOLEAN /\ closed' \in BOOLEAN
      BY <1>28 DEF Restart, Shutdown, TypeOK
    <3>4. CASE buf' = buf
      BY <3>2, <3>3, <3>4
    <3>5. CASE buf' = <<>>
      BY <2>0, <3>2, <3>3, <3>5
    <3> QED
      BY <3>1, <3>4, <3>5
  <2> QED
    BY <1>28, <1>t, <2>2, <2>3, <2>4 DEF Restart, Shutdown, TypeOK, database, history
<1> QED
  BY <1>1, <1>2, <1>3, <1>4, <1>5, <1>6, <1>7, <1>8, <1>9, <1>10, <1>11, <1>12, <1>13, <1>14,
     <1>15, <1>16, <1>17, <1>18, <1>19, <1>20, <1>21, <1>22, <1>23, <1>24, <1>25, <1>26, <1>27,
     <1>28 DEF Next, Discovery, Flush, Metadata, PruneRows

------------------------------------------------------------------------------
(***************************************************************************)
(* Every step preserves the row lock.                                      *)
(***************************************************************************)
\* A client that was outside stays outside, or takes a free row.
LEMMA LockStep ==
    ASSUME IInv, Next
    PROVE  LockInv'
<1>0. TypeOK /\ LockInv
  BY DEF IInv
<1> USE <1>0
<1>p. \A c \in Clients : pc[c] \in {"locked", "written"} <=> lock = c
  BY DEF LockInv
<1>q. pc \in [Clients -> Phases]
  BY DEF TypeOK
<1>n. /\ "none" \notin Clients /\ "doubt" \notin Clients
      /\ "fetcher" \in Clients /\ "stats" \in Clients
      /\ "worker" \in Clients /\ "pruner" \in Clients
  BY DEF Clients
\* The four ways in which a step changes the phases and the row.
<1>a. ASSUME NEW c \in Clients, NEW p \in Phases \ {"locked", "written"},
             lock # c, lock' = lock, pc' = [pc EXCEPT ![c] = p]
      PROVE  LockInv'
  BY <1>a, <1>p, <1>q DEF LockInv
<1>b. ASSUME NEW c \in Clients, NEW p \in Phases \ {"locked", "written"},
             lock = c, lock' \notin Clients, pc' = [pc EXCEPT ![c] = p]
      PROVE  LockInv'
  BY <1>b, <1>p, <1>q DEF LockInv
<1>c. ASSUME NEW c \in Clients, pc[c] = "locked", lock' = lock, pc' = [pc EXCEPT ![c] = "written"]
      PROVE  LockInv'
  BY <1>c, <1>p, <1>q DEF LockInv
<1>d. ASSUME lock' = lock, pc' = pc
      PROVE  LockInv'
  BY <1>d, <1>p DEF LockInv
<1>s. ASSUME NEW c \in Clients, NEW w, pc[c] = "locked", Statements(c, w)
      PROVE  LockInv'
  BY <1>s, <1>c DEF Statements, Goto, server
<1>m. ASSUME NEW c \in Clients, NEW p \in Phases \ {"locked", "written"}, Commits(c, p)
      PROVE  LockInv'
  BY <1>m, <1>b, <1>n, <1>p DEF Commits, Goto
<1>f. Phases \ {"locked", "written"} =
        {"idle", "replay", "begin", "ack", "cleanup", "stopped"}
  BY DEF Phases
<1>1. ASSUME NEW c \in Clients, lock_totals(c)
      PROVE  LockInv'
  <2>1. pc' = [pc EXCEPT ![c] = "locked"] /\ lock' = c /\ lock = "none"
    BY <1>1 DEF lock_totals, Goto
  <2> QED
    BY <1>p, <1>q, <1>n, <2>1 DEF LockInv
<1>2. ASSUME NEW c \in Clients, Rollback(c)
      PROVE  LockInv'
  <2>1. PICK p \in {"replay", "begin", "idle"} : pc' = [pc EXCEPT ![c] = p]
    BY <1>2, ErrorPaths DEF Rollback
  <2>2. lock' = IF lock = c THEN "none" ELSE lock
    BY <1>2 DEF Rollback
  <2> QED
    BY <1>a, <1>b, <1>f, <1>n, <2>1, <2>2
<1>3. ASSUME NEW c \in Clients, LoseCommit(c)
      PROVE  LockInv'
  <2>1. PICK p \in {"replay", "begin", "idle"} : pc' = [pc EXCEPT ![c] = p]
    BY <1>3, ErrorPaths DEF LoseCommit
  <2>2. lock' = "doubt" /\ lock = c
    BY <1>3, <1>p DEF LoseCommit
  <2> QED
    BY <1>b, <1>f, <1>n, <2>1, <2>2
<1>4. CASE ResolveDoubt
  BY <1>4, <1>n, <1>p DEF ResolveDoubt, clients, LockInv
<1>5. ASSUME NEW h \in Hashes, ReceiveDiscovery(h)
      PROVE  LockInv'
  BY <1>5, <1>a, <1>f, <1>n, <1>p DEF ReceiveDiscovery, Goto, server
<1>6. ASSUME NEW h \in Hashes, ReceiveEvent(h)
      PROVE  LockInv'
  <2>1. pc["stats"] = "idle" /\ lock' = lock
    BY <1>6 DEF ReceiveEvent, server
  <2>2. pc' = pc \/ pc' = [pc EXCEPT !["stats"] = "begin"]
    BY <1>6 DEF ReceiveEvent, StartFlush, Goto
  <2> QED
    BY <1>a, <1>d, <1>f, <1>n, <1>p, <2>1, <2>2
<1>7. ASSUME NEW h \in Hashes, StartCommit(h)
      PROVE  LockInv'
  BY <1>7, <1>a, <1>f, <1>n, <1>p DEF StartCommit, Goto, server
<1>8. ASSUME NEW h \in Hashes, TorrentAges(h)
      PROVE  LockInv'
  BY <1>8, <1>d DEF TorrentAges, server, clients
<1>9. CASE replayed_discovery
  BY <1>9, <1>a, <1>f, <1>n, <1>p DEF replayed_discovery, DiscoveryDone, Goto, server
<1>10. CASE DiscoveryStatements
  BY <1>10, <1>n, <1>s DEF DiscoveryStatements
<1>11. CASE DiscoveryDuplicate
  BY <1>11, <1>b, <1>f, <1>n, <1>p DEF DiscoveryDuplicate, Goto
<1>12. CASE DiscoveryCommits
  BY <1>12, <1>m, <1>f, <1>n DEF DiscoveryCommits
<1>13. CASE remove_receipt
  BY <1>13, <1>a, <1>f, <1>n, <1>p DEF remove_receipt, DiscoveryDone, Goto, server
<1>14. CASE FlushPending
  BY <1>14, <1>a, <1>f, <1>n, <1>p DEF FlushPending, StartFlush, Goto, server
<1>15. CASE BatchStatements
  BY <1>15, <1>n, <1>s DEF BatchStatements
<1>16. CASE BatchReplayed
  BY <1>16, <1>b, <1>f, <1>n, <1>p DEF BatchReplayed, Goto
<1>17. CASE BatchCommits
  BY <1>17, <1>m, <1>f, <1>n DEF BatchCommits
<1>18. CASE acknowledge_receipt
  BY <1>18, <1>a, <1>f, <1>n, <1>p DEF acknowledge_receipt, Goto, server
<1>19. CASE StatsStops
  BY <1>19, <1>a, <1>f, <1>n, <1>p DEF StatsStops, Goto, server
<1>20. CASE prune_receipts
  BY <1>20, <1>d DEF prune_receipts, server, clients
<1>21. CASE MetadataStatements
  BY <1>21, <1>n, <1>s DEF MetadataStatements
<1>22. CASE MetadataCommits
  BY <1>22, <1>m, <1>f, <1>n DEF MetadataCommits
<1>23. CASE StartPrune
  BY <1>23, <1>a, <1>f, <1>n, <1>p DEF StartPrune, Goto, server
<1>24. CASE PruneStatements
  <2>1. PICK H \in SUBSET stale : PruneRowsOf(H)
    BY <1>24 DEF PruneStatements
  <2> QED
    BY <1>n, <1>s, <2>1 DEF PruneRowsOf
<1>25. CASE PruneDone
  BY <1>25, <1>b, <1>f, <1>n, <1>p DEF PruneDone, Goto
<1>26. CASE PruneCommits
  BY <1>26, <1>m, <1>f, <1>n DEF PruneCommits
<1>27. ASSUME NEW r \in Ops, ReceiptAges(r)
      PROVE  LockInv'
  BY <1>27, <1>d DEF ReceiptAges, server, clients
<1>28. CASE Restart \/ Shutdown
  <2>1. PICK C \in SUBSET Clients : Cut(C)
    BY <1>28 DEF Restart, Shutdown, Clients
  <2>2. /\ pc' = [c \in Clients |-> IF c \in C THEN "idle" ELSE pc[c]]
        /\ lock' = IF lock \in C THEN "none" ELSE lock
    BY <2>1 DEF Cut
  <2> QED
    BY <1>n, <1>p, <2>2 DEF LockInv
<1> QED
  BY <1>1, <1>2, <1>3, <1>4, <1>5, <1>6, <1>7, <1>8, <1>9, <1>10, <1>11, <1>12, <1>13, <1>14,
     <1>15, <1>16, <1>17, <1>18, <1>19, <1>20, <1>21, <1>22, <1>23, <1>24, <1>25, <1>26, <1>27,
     <1>28 DEF Next, Discovery, Flush, Metadata, PruneRows

------------------------------------------------------------------------------
(***************************************************************************)
(* Receipts have one owner, a worker one hash, a batch a receipt left.     *)
(***************************************************************************)
\* A client's error path neither starts nor ends an operation with a receipt,
\* and leaves a worker that goes on its hash.
LEMMA ErrorOwners ==
    ASSUME IInv, NEW c \in Clients, pc[c] \in {"begin", "locked", "written"},
           AfterError(c), Release(c), UNCHANGED <<id, used, buf>>
    PROVE  OwnerInv' /\ WorkerInv' /\ BatchInv'
<1>1. TypeOK /\ OwnerInv /\ WorkerInv /\ BatchInv
  BY DEF IInv
<1>2. PICK p \in {"replay", "begin", "idle"} : pc' = [pc EXCEPT ![c] = p]
  BY <1>1, ErrorPaths
<1>3. pc \in [Clients -> Phases] /\ hashes \in [Clients -> SUBSET Hashes]
  BY <1>1 DEF TypeOK
<1>4. OwnerInv'
  BY <1>1, <1>2, <1>3 DEF OwnerInv, Owners, Clients
<1>5. WorkerInv'
  BY <1>1, <1>2, <1>3 DEF WorkerInv, Release, Clients
<1>6. BatchInv'
  <2>1. c = "stats" => pc'[c] = "begin"
    BY <1>1, ErrorPaths
  <2> QED
    BY <1>1, <1>2, <1>3, <2>1 DEF BatchInv, Clients
<1> QED
  BY <1>4, <1>5, <1>6

\* A commit does not, either.
LEMMA CommitOwners ==
    ASSUME IInv, NEW c \in Clients, NEW p \in Phases, Commits(c, p),
           p = "idle" => c \in {"worker", "pruner"}, c = "worker" => p = "idle"
    PROVE  OwnerInv' /\ WorkerInv' /\ BatchInv'
<1>1. OwnerInv /\ WorkerInv /\ BatchInv /\ pc \in [Clients -> Phases]
      /\ hashes \in [Clients -> SUBSET Hashes]
  BY DEF IInv, TypeOK
<1>2. /\ pc[c] = "written" /\ pc' = [pc EXCEPT ![c] = p]
      /\ id' = id /\ used' = used /\ buf' = buf /\ Release(c)
  BY DEF Commits, Goto
<1>3. OwnerInv'
  BY <1>1, <1>2 DEF OwnerInv, Owners, Clients
<1>4. WorkerInv'
  BY <1>1, <1>2 DEF WorkerInv, Release, Clients
<1>5. BatchInv'
  BY <1>1, <1>2 DEF BatchInv, Clients
<1> QED
  BY <1>3, <1>4, <1>5

\* One step per action: who owns which receipt, the worker's hash, the batch.
LEMMA OwnerStep ==
    ASSUME IInv, Next
    PROVE  OwnerInv' /\ WorkerInv' /\ BatchInv'
<1>0. /\ TypeOK /\ OwnerInv /\ WorkerInv /\ BatchInv
      /\ pc \in [Clients -> Phases] /\ id \in [Clients -> 0 .. MaxOps] /\ used \in Nat
      /\ hashes \in [Clients -> SUBSET Hashes]
  BY DEF IInv, TypeOK
<1>n. /\ "fetcher" \in Clients /\ "stats" \in Clients
      /\ "worker" \in Clients /\ "pruner" \in Clients
  BY DEF Clients
<1>i. /\ id["fetcher"] \in Nat /\ id["stats"] \in Nat
      /\ id["fetcher"] <= used /\ id["stats"] <= used
  BY <1>0, <1>n DEF OwnerInv, Owners
\* A step inside an operation: it moves one client from one phase to another.
<1>a. ASSUME NEW c \in Clients, NEW p \in Phases, pc' = [pc EXCEPT ![c] = p],
             UNCHANGED <<id, used, buf, hashes>>,
             c \in Owners => pc[c] \notin {"idle", "stopped"} \/ p \in {"idle", "stopped"},
             c = "worker" => pc[c] # "idle", c = "stats" => p # "idle"
      PROVE  OwnerInv' /\ WorkerInv' /\ BatchInv'
  <2>1. OwnerInv'
    BY <1>0, <1>a DEF OwnerInv, Owners
  <2>2. WorkerInv'
    BY <1>0, <1>a DEF WorkerInv
  <2>3. BatchInv'
    BY <1>0, <1>a DEF BatchInv
  <2> QED
    BY <2>1, <2>2, <2>3
<1>b. ASSUME UNCHANGED <<pc, id, used, buf, hashes>>
      PROVE  OwnerInv' /\ WorkerInv' /\ BatchInv'
  BY <1>0, <1>b DEF OwnerInv, WorkerInv, BatchInv
<1>s. ASSUME NEW c \in Clients, NEW w, pc[c] = "locked", Statements(c, w)
      PROVE  OwnerInv' /\ WorkerInv' /\ BatchInv'
  BY <1>s, <1>a DEF Statements, Goto, Phases
<1>d. ASSUME NEW n, DiscoveryDone(n), UNCHANGED <<used, buf>>
      PROVE  OwnerInv' /\ WorkerInv' /\ BatchInv'
  <2>1. /\ pc' = [pc EXCEPT !["fetcher"] = "idle"] /\ id' = [id EXCEPT !["fetcher"] = 0]
        /\ hashes'["worker"] = hashes["worker"]
    BY <1>0, <1>d DEF DiscoveryDone, Goto, Release, Clients
  <2>2. OwnerInv'
    BY <1>0, <1>d, <1>i, <2>1 DEF OwnerInv, Owners, Clients
  <2> QED
    BY <1>0, <1>d, <2>1, <2>2 DEF WorkerInv, BatchInv, Clients
<1>f. ASSUME NEW events, StartFlush(events)
      PROVE  OwnerInv' /\ WorkerInv' /\ BatchInv'
  <2>1. /\ used' = used + 1 /\ id' = [id EXCEPT !["stats"] = used + 1]
        /\ pc' = [pc EXCEPT !["stats"] = "begin"] /\ hashes'["worker"] = hashes["worker"]
    BY <1>0, <1>f DEF StartFlush, Fresh, Goto, Clients
  <2>2. OwnerInv'
    BY <1>0, <1>i, <2>1 DEF OwnerInv, Owners, Clients
  <2> QED
    BY <1>0, <2>1, <2>2 DEF WorkerInv, BatchInv, Clients
<1>1. ASSUME NEW c \in Clients, lock_totals(c)
      PROVE  OwnerInv' /\ WorkerInv' /\ BatchInv'
  BY <1>1, <1>a DEF lock_totals, Goto, Phases
<1>2. ASSUME NEW c \in Clients, Rollback(c)
      PROVE  OwnerInv' /\ WorkerInv' /\ BatchInv'
  BY <1>2, ErrorOwners DEF Rollback
<1>3. ASSUME NEW c \in Clients, LoseCommit(c)
      PROVE  OwnerInv' /\ WorkerInv' /\ BatchInv'
  BY <1>3, ErrorOwners DEF LoseCommit
<1>4. CASE ResolveDoubt
  BY <1>4, <1>b DEF ResolveDoubt, clients
<1>5. ASSUME NEW h \in Hashes, ReceiveDiscovery(h)
      PROVE  OwnerInv' /\ WorkerInv' /\ BatchInv'
  <2>1. /\ used' = used + 1 /\ id' = [id EXCEPT !["fetcher"] = used + 1]
        /\ pc' = [pc EXCEPT !["fetcher"] = "replay"] /\ buf' = buf
        /\ hashes' = [hashes EXCEPT !["fetcher"] = {h}]
    BY <1>5 DEF ReceiveDiscovery, Fresh, Goto
  <2>2. OwnerInv'
    BY <1>0, <1>i, <2>1 DEF OwnerInv, Owners, Clients
  <2>3. WorkerInv'
    BY <1>0, <2>1 DEF WorkerInv, Clients
  <2>4. pc["stats"] = "idle" /\ buf # <<>> => used + 1 < MaxOps
    BY <1>5 DEF ReceiveDiscovery, Room
  <2>5. BatchInv'
    BY <1>0, <1>n, <2>1, <2>4 DEF BatchInv
  <2> QED
    BY <2>2, <2>3, <2>5
<1>6. ASSUME NEW h \in Hashes, ReceiveEvent(h)
      PROVE  OwnerInv' /\ WorkerInv' /\ BatchInv'
  <2>1. CASE StartFlush(buf')
    BY <2>1, <1>f
  <2>2. CASE ~(Len(buf') >= BatchSize) /\ UNCHANGED <<used, id, hashes, recorded, pc>>
    <3>1. pc["stats"] = "idle" /\ buf' = Append(buf, h) /\ (buf # <<>> \/ Room)
      BY <1>6 DEF ReceiveEvent
    <3>2. Len(buf') \in Nat /\ BatchSize \in Nat
      <4>1. buf' \in Seq(Hashes)
        BY <1>0, <3>1, BatchFacts
      <4> QED
        BY <4>1, CatalogAssumption
    <3>3. used < MaxOps
      BY <1>0, <3>1, CatalogAssumption DEF Room, BatchInv
    <3>4. BatchInv'
      BY <2>2, <3>2, <3>3 DEF BatchInv
    <3> QED
      BY <1>0, <2>2, <3>4 DEF OwnerInv, WorkerInv
  <2> QED
    BY <1>6, <2>1, <2>2 DEF ReceiveEvent
<1>7. ASSUME NEW h \in Hashes, StartCommit(h)
      PROVE  OwnerInv' /\ WorkerInv' /\ BatchInv'
  <2>1. /\ pc' = [pc EXCEPT !["worker"] = "begin"] /\ UNCHANGED <<id, used, buf>>
        /\ hashes' = [hashes EXCEPT !["worker"] = {h}]
    BY <1>7 DEF StartCommit, Goto
  <2>2. WorkerInv'
    BY <1>0, <1>n, <2>1 DEF WorkerInv
  <2> QED
    BY <1>0, <2>1, <2>2 DEF OwnerInv, BatchInv, Owners, Clients
<1>8. ASSUME NEW h \in Hashes, TorrentAges(h)
      PROVE  OwnerInv' /\ WorkerInv' /\ BatchInv'
  BY <1>8, <1>b DEF TorrentAges, clients
<1>9. CASE replayed_discovery
  <2>1. CASE DiscoveryDone(result[id["fetcher"]])
    BY <1>9, <1>d, <2>1 DEF replayed_discovery
  <2>2. CASE Goto("fetcher", "begin") /\ UNCHANGED <<id, hashes, outcome, metric>>
    BY <1>9, <1>a, <1>n, <2>2 DEF replayed_discovery, Goto, Phases
  <2> QED
    BY <1>9, <2>1, <2>2 DEF replayed_discovery
<1>10. CASE DiscoveryStatements
  BY <1>10, <1>n, <1>s DEF DiscoveryStatements
<1>11. CASE DiscoveryDuplicate
  BY <1>11, <1>a, <1>n DEF DiscoveryDuplicate, Goto, Phases
<1>12. CASE DiscoveryCommits
  BY <1>12, <1>n, CommitOwners DEF DiscoveryCommits, Phases
<1>13. CASE remove_receipt
  BY <1>13, <1>d DEF remove_receipt
<1>14. CASE FlushPending
  BY <1>14, <1>f DEF FlushPending
<1>15. CASE BatchStatements
  BY <1>15, <1>n, <1>s DEF BatchStatements
<1>16. CASE BatchReplayed
  BY <1>16, <1>a, <1>n DEF BatchReplayed, Goto, Phases
<1>17. CASE BatchCommits
  BY <1>17, <1>n, CommitOwners DEF BatchCommits, Phases
<1>18. CASE acknowledge_receipt
  <2>0. hashes'["worker"] = hashes["worker"] /\ pc["stats"] = "ack" /\ used' = used
    BY <1>0, <1>18 DEF acknowledge_receipt, Release, Clients
  <2>1. CASE /\ buf' = <<>> /\ id' = [id EXCEPT !["stats"] = 0]
             /\ pc' = [pc EXCEPT !["stats"] = "idle"]
    <3>1. Len(<<>>) = 0 /\ 0 < BatchSize
      BY CatalogAssumption
    <3>2. BatchInv'
      BY <2>1, <3>1 DEF BatchInv
    <3>3. OwnerInv'
      BY <1>0, <1>i, <2>0, <2>1 DEF OwnerInv, Owners, Clients
    <3> QED
      BY <1>0, <2>0, <2>1, <3>2, <3>3 DEF WorkerInv, Clients
  <2>2. CASE UNCHANGED <<buf, id>> /\ pc' = [pc EXCEPT !["stats"] = "begin"]
    <3>1. OwnerInv'
      BY <1>0, <2>0, <2>2 DEF OwnerInv, Owners, Clients
    <3> QED
      BY <1>0, <1>n, <2>0, <2>2, <3>1 DEF WorkerInv, BatchInv
  <2> QED
    BY <1>18, <2>1, <2>2 DEF acknowledge_receipt, Goto
<1>19. CASE StatsStops
  BY <1>19, <1>a, <1>n DEF StatsStops, Goto, Phases
<1>20. CASE prune_receipts
  BY <1>20, <1>b DEF prune_receipts, clients
<1>21. CASE MetadataStatements
  BY <1>21, <1>n, <1>s DEF MetadataStatements
<1>22. CASE MetadataCommits
  BY <1>22, <1>n, CommitOwners DEF MetadataCommits, Phases
<1>23. CASE StartPrune
  BY <1>23, <1>a, <1>n DEF StartPrune, Goto, Phases, Owners
<1>24. CASE PruneStatements
  <2>1. PICK H \in SUBSET stale : PruneRowsOf(H)
    BY <1>24 DEF PruneStatements
  <2> QED
    BY <1>n, <1>s, <2>1 DEF PruneRowsOf
<1>25. CASE PruneDone
  BY <1>25, <1>a, <1>n DEF PruneDone, Goto, Phases
<1>26. CASE PruneCommits
  BY <1>26, <1>n, CommitOwners DEF PruneCommits, Phases
<1>27. ASSUME NEW r \in Ops, ReceiptAges(r)
      PROVE  OwnerInv' /\ WorkerInv' /\ BatchInv'
  BY <1>27, <1>b DEF ReceiptAges, clients
<1>28. CASE Restart
  <2>1. /\ pc' = [c \in Clients |-> IF c \in {"fetcher", "stats", "worker"} THEN "idle" ELSE pc[c]]
        /\ id' = [c \in Clients |-> IF c \in {"fetcher", "stats", "worker"} THEN 0 ELSE id[c]]
        /\ buf' = <<>> /\ used' = used
    BY <1>28 DEF Restart, Cut
  <2>2. Len(<<>>) = 0 /\ 0 < BatchSize
    BY CatalogAssumption
  <2>3. BatchInv'
    BY <2>1, <2>2 DEF BatchInv
  <2> QED
    BY <1>0, <1>n, <2>1, <2>3 DEF OwnerInv, WorkerInv, Owners
<1>29. CASE Shutdown
  <2>1. /\ pc' = [c \in Clients |-> IF c \in {"fetcher", "worker"} THEN "idle" ELSE pc[c]]
        /\ id' = [c \in Clients |-> IF c \in {"fetcher", "worker"} THEN 0 ELSE id[c]]
        /\ buf' = buf /\ used' = used
    BY <1>29 DEF Shutdown, Cut
  <2> QED
    BY <1>0, <1>n, <1>i, <2>1 DEF OwnerInv, WorkerInv, BatchInv, Owners
<1> QED
  BY <1>1, <1>2, <1>3, <1>4, <1>5, <1>6, <1>7, <1>8, <1>9, <1>10, <1>11, <1>12, <1>13, <1>14,
     <1>15, <1>16, <1>17, <1>18, <1>19, <1>20, <1>21, <1>22, <1>23, <1>24, <1>25, <1>26, <1>27,
     <1>28, <1>29 DEF Next, Discovery, Flush, Metadata, PruneRows

------------------------------------------------------------------------------
(***************************************************************************)
(* What a transaction computed stays right until it commits.               *)
(***************************************************************************)
\* Time makes more rows stale and operations take more receipts.
LEMMA SoundMonotonic ==
    ASSUME NEW w, NEW T, NEW K, NEW S, NEW S1, NEW C, NEW u \in Nat, NEW u1 \in Nat,
           SoundIn(w, T, K, S, C, u), S \subseteq S1, u <= u1
    PROVE  SoundIn(w, T, K, S1, C, u1)
<1>1. w.id \in 1 .. u => w.id \in 1 .. u1
  OBVIOUS
<1>2. w.rows \subseteq S => w.rows \subseteq S1
  OBVIOUS
<1> QED
  BY <1>1, <1>2, Zenon DEF SoundIn

\* A step that leaves the tables and the open transactions alone.
LEMMA QuietWrites ==
    ASSUME IInv, UNCHANGED <<torrents, complete, commits>>, stale \subseteq stale',
           used' \in Nat, used <= used',
           \A c \in Clients : pc'[c] = "written" => /\ pc[c] = "written"
                                                    /\ writes'[c] = writes[c]
                                                    /\ id'[c] = id[c],
           lock' = "doubt" => lock = "doubt" /\ doubt' = doubt
    PROVE  WriteInv'
<1>1. WriteInv /\ used \in Nat
  BY DEF IInv, TypeOK
<1>2. ASSUME NEW w, SoundIn(w, torrents, complete, stale, commits, used)
      PROVE  SoundIn(w, torrents', complete', stale', commits', used')
  <2>1. SoundIn(w, torrents, complete, stale', commits, used')
    BY <1>1, <1>2, SoundMonotonic
  <2> QED
    BY <2>1, Zenon
<1>3. ASSUME NEW c \in Clients, pc'[c] = "written"
      PROVE  /\ SoundIn(writes'[c], torrents', complete', stale', commits', used')
             /\ writes'[c].kind = KindOf(c)
             /\ c \in Owners => writes'[c].id = id'[c]
  <2>1. pc[c] = "written" /\ writes'[c] = writes[c] /\ id'[c] = id[c]
    BY <1>3
  <2>2. /\ SoundIn(writes[c], torrents, complete, stale, commits, used)
        /\ writes[c].kind = KindOf(c)
        /\ c \in Owners => writes[c].id = id[c]
    BY <1>1, <2>1 DEF WriteInv, SoundWrites
  <2>3. SoundIn(writes[c], torrents', complete', stale', commits', used')
    BY <1>2, <2>2
  <2> QED
    BY <2>1, <2>2, <2>3, Zenon
<1>4. ASSUME lock' = "doubt"
      PROVE  SoundIn(doubt', torrents', complete', stale', commits', used')
  <2>1. SoundIn(doubt, torrents, complete, stale, commits, used)
    BY <1>1, <1>4 DEF WriteInv, SoundWrites
  <2>2. SoundIn(doubt, torrents', complete', stale', commits', used')
    BY <1>2, <2>1
  <2> QED
    BY <1>4, <2>2, Zenon
<1> QED
  BY <1>3, <1>4 DEF WriteInv, SoundWrites

\* The statements of a transaction compute its writes from the tables.
LEMMA StatementsWrites ==
    ASSUME IInv, NEW c \in Clients, NEW w, pc[c] = "locked", Statements(c, w),
           SoundIn(w, torrents, complete, stale, commits, used),
           w.kind = KindOf(c), c \in Owners => w.id = id[c]
    PROVE  WriteInv'
<1>1. TypeOK /\ LockInv
  BY DEF IInv
<1>2. /\ UNCHANGED <<torrents, complete, stale, commits, used, lock, doubt, id>>
      /\ writes' = [writes EXCEPT ![c] = w] /\ pc' = [pc EXCEPT ![c] = "written"]
  BY DEF Statements, Goto, database, server, history
<1>3. /\ lock = c /\ c # "doubt" /\ \A d \in Clients : pc'[d] = "written" => d = c
      /\ writes'[c] = w
  BY <1>1, <1>2 DEF LockInv, TypeOK, Clients
<1>4. SoundIn(w, torrents', complete', stale', commits', used')
  BY <1>2, Zenon
<1>5. SoundIn(writes'[c], torrents', complete', stale', commits', used')
  BY <1>3, <1>4, Zenon
<1>6. /\ writes'[c].kind = KindOf(c)
      /\ c \in Owners => writes'[c].id = id'[c]
  BY <1>2, <1>3, Zenon
<1>7. lock' # "doubt"
  BY <1>2, <1>3
<1> QED
  BY <1>3, <1>5, <1>6, <1>7 DEF WriteInv, SoundWrites

\* Once the row is free there is no open transaction.
LEMMA FreeWrites ==
    ASSUME LockInv', lock' = "none"
    PROVE  WriteInv'
BY DEF LockInv, WriteInv, Clients

\* One step per action: what open transactions are going to write.
LEMMA WriteStep ==
    ASSUME IInv, Next
    PROVE  WriteInv'
<1>0. /\ TypeOK /\ LockInv /\ OwnerInv /\ WorkerInv /\ WriteInv /\ ReceiptInv
      /\ pc \in [Clients -> Phases] /\ id \in [Clients -> 0 .. MaxOps] /\ used \in Nat
      /\ hashes \in [Clients -> SUBSET Hashes] /\ writes \in [Clients -> Writes]
  BY DEF IInv, TypeOK
<1>l. LockInv'
  BY LockStep
<1>n. /\ "fetcher" \in Clients /\ "stats" \in Clients
      /\ "worker" \in Clients /\ "pruner" \in Clients
  BY DEF Clients
\* One client moves to a phase outside its transaction.
<1>a. ASSUME NEW c \in Clients, NEW p \in Phases \ {"written"}, pc' = [pc EXCEPT ![c] = p],
             UNCHANGED <<torrents, complete, stale, commits, used, doubt>>,
             lock' # "doubt" \/ lock' = lock,
             \A d \in Clients \ {c} : writes'[d] = writes[d] /\ id'[d] = id[d]
      PROVE  WriteInv'
  <2>1. used' \in Nat /\ used <= used' /\ stale \subseteq stale'
    BY <1>0, <1>a
  <2>2. \A d \in Clients : pc'[d] = "written" => /\ pc[d] = "written"
                                                 /\ writes'[d] = writes[d]
                                                 /\ id'[d] = id[d]
    BY <1>0, <1>a
  <2> QED
    BY <1>a, <2>1, <2>2, QuietWrites
<1>b. ASSUME UNCHANGED <<torrents, complete, commits, used, doubt, lock, pc, writes, id>>,
             stale \subseteq stale'
      PROVE  WriteInv'
  BY <1>0, <1>b, QuietWrites
\* An operation starts.
<1>f. ASSUME NEW c \in Clients, NEW p \in Phases \ {"written"}, pc' = [pc EXCEPT ![c] = p],
             UNCHANGED <<torrents, complete, stale, commits, doubt, lock, writes>>, Fresh(c)
      PROVE  WriteInv'
  <2>1. used' \in Nat /\ used <= used' /\ stale \subseteq stale'
    BY <1>0, <1>f DEF Fresh
  <2>2. \A d \in Clients : pc'[d] = "written" => /\ pc[d] = "written"
                                                 /\ writes'[d] = writes[d]
                                                 /\ id'[d] = id[d]
    BY <1>0, <1>f DEF Fresh
  <2> QED
    BY <1>f, <2>1, <2>2, QuietWrites
<1>c. ASSUME NEW c, NEW p, Commits(c, p)
      PROVE  WriteInv'
  BY <1>c, <1>l, FreeWrites DEF Commits
<1>r. ASSUME NEW c \in Owners, pc[c] = "locked", receipt[id[c]] = "absent"
      PROVE  id[c] \in 1 .. used /\ commits[id[c]] = 0
  <2>1. c \in Clients /\ id[c] \in 1 .. used /\ id[c] \in Ops
    BY <1>0, <1>r DEF OwnerInv, Owners, Clients, Ops
  <2> QED
    BY <1>0, <1>r, <2>1 DEF ReceiptInv
<1>p. Phases \ {"written"} = {"idle", "replay", "begin", "locked", "ack", "cleanup", "stopped"}
  BY DEF Phases
<1>1. ASSUME NEW c \in Clients, lock_totals(c)
      PROVE  WriteInv'
  <2>1. /\ pc' = [pc EXCEPT ![c] = "locked"] /\ UNCHANGED <<writes, id, used, doubt>> /\ lock' = c
        /\ UNCHANGED <<torrents, complete, stale, commits>> /\ c # "doubt"
    BY <1>1 DEF lock_totals, Goto, database, history, Clients
  <2> QED
    BY <1>a, <1>p, <2>1
<1>2. ASSUME NEW c \in Clients, Rollback(c)
      PROVE  WriteInv'
  <2>1. PICK p \in {"replay", "begin", "idle"} : pc' = [pc EXCEPT ![c] = p]
    BY <1>0, <1>2, ErrorPaths DEF Rollback
  <2>2. /\ UNCHANGED <<torrents, complete, stale, commits, id, used, doubt>>
        /\ writes' = [writes EXCEPT ![c] = NoWrites]
        /\ lock' # "doubt" \/ lock' = lock
    BY <1>2 DEF Rollback, database, history
  <2> QED
    BY <1>0, <1>a, <1>p, <2>1, <2>2
<1>3. ASSUME NEW c \in Clients, LoseCommit(c)
      PROVE  WriteInv'
  <2>1. PICK p \in {"replay", "begin", "idle"} : pc' = [pc EXCEPT ![c] = p]
    BY <1>0, <1>3, ErrorPaths DEF LoseCommit
  <2>2. /\ UNCHANGED <<torrents, complete, stale, commits, id, used>>
        /\ doubt' = writes[c] /\ pc[c] = "written" /\ lock' = "doubt"
    BY <1>3 DEF LoseCommit, database, history
  <2>3. \A d \in Clients : pc'[d] # "written"
    BY <1>l, <2>2 DEF LockInv, Clients
  <2>4. SoundIn(writes[c], torrents, complete, stale, commits, used)
    BY <1>0, <2>2 DEF WriteInv, SoundWrites
  <2>5. SoundIn(doubt', torrents', complete', stale', commits', used')
    BY <2>2, <2>4, Zenon
  <2> QED
    BY <2>3, <2>5 DEF WriteInv, SoundWrites
<1>4. CASE ResolveDoubt
  BY <1>4, <1>l, FreeWrites DEF ResolveDoubt
<1>5. ASSUME NEW h \in Hashes, ReceiveDiscovery(h)
      PROVE  WriteInv'
  BY <1>5, <1>f, <1>n, <1>p DEF ReceiveDiscovery, Goto, database, server, history
<1>6. ASSUME NEW h \in Hashes, ReceiveEvent(h)
      PROVE  WriteInv'
  <2>1. UNCHANGED <<torrents, complete, stale, commits, doubt, lock, writes>>
    BY <1>6 DEF ReceiveEvent, database, server, history
  <2>2. CASE StartFlush(buf')
    BY <1>f, <1>n, <1>p, <2>1, <2>2 DEF StartFlush, Goto
  <2>3. CASE UNCHANGED <<used, id, hashes, recorded, pc>>
    BY <1>b, <2>1, <2>3
  <2> QED
    BY <1>6, <2>2, <2>3 DEF ReceiveEvent
<1>7. ASSUME NEW h \in Hashes, StartCommit(h)
      PROVE  WriteInv'
  BY <1>7, <1>a, <1>n, <1>p DEF StartCommit, Goto, database, server, history
<1>8. ASSUME NEW h \in Hashes, TorrentAges(h)
      PROVE  WriteInv'
  BY <1>8, <1>b DEF TorrentAges, server, clients, history
<1>9. CASE replayed_discovery
  <2>1. UNCHANGED <<torrents, complete, stale, commits, doubt, lock, writes, used>>
    BY <1>9 DEF replayed_discovery, database, server, history
  <2>2. CASE DiscoveryDone(result[id["fetcher"]])
    BY <1>0, <1>a, <1>n, <1>p, <2>1, <2>2 DEF DiscoveryDone, Goto
  <2>3. CASE Goto("fetcher", "begin") /\ UNCHANGED <<id, hashes, outcome, metric>>
    BY <1>a, <1>n, <1>p, <2>1, <2>3 DEF Goto
  <2> QED
    BY <1>9, <2>2, <2>3 DEF replayed_discovery
<1>10. CASE DiscoveryStatements
  <2> DEFINE w == [kind |-> "discovery", id |-> id["fetcher"],
                   rows |-> hashes["fetcher"], new |-> New("fetcher"), done |-> 0]
  <2>1. id["fetcher"] \in 1 .. used /\ commits[id["fetcher"]] = 0
    BY <1>10, <1>r DEF DiscoveryStatements, Owners
  <2>2. SoundIn(w, torrents, complete, stale, commits, used)
    BY <2>1 DEF SoundIn, New
  <2>3. w.kind = KindOf("fetcher") /\ w.id = id["fetcher"]
    BY DEF KindOf
  <2>4. Statements("fetcher", w) /\ pc["fetcher"] = "locked"
    BY <1>10 DEF DiscoveryStatements
  <2> HIDE DEF w
  <2> QED
    BY <1>n, <2>2, <2>3, <2>4, StatementsWrites
<1>11. CASE DiscoveryDuplicate
  BY <1>11, <1>a, <1>n, <1>p DEF DiscoveryDuplicate, Goto, database, history
<1>12. CASE DiscoveryCommits
  BY <1>12, <1>c DEF DiscoveryCommits
<1>13. CASE remove_receipt
  <2>1. UNCHANGED <<torrents, complete, stale, commits, doubt, lock, writes, used>>
    BY <1>13 DEF remove_receipt, server, history
  <2>2. DiscoveryDone(outcome)
    BY <1>13 DEF remove_receipt
  <2> QED
    BY <1>0, <1>a, <1>n, <1>p, <2>1, <2>2 DEF DiscoveryDone, Goto
<1>14. CASE FlushPending
  BY <1>14, <1>f, <1>n, <1>p DEF FlushPending, StartFlush, Goto, database, server, history
<1>15. CASE BatchStatements
  <2> DEFINE w == [kind |-> "batch", id |-> id["stats"], rows |-> hashes["stats"],
                   new |-> New("stats"), done |-> 0]
  <2>1. id["stats"] \in 1 .. used /\ commits[id["stats"]] = 0
    BY <1>15, <1>r DEF BatchStatements, Owners
  <2>2. SoundIn(w, torrents, complete, stale, commits, used)
    BY <2>1 DEF SoundIn, New
  <2>3. w.kind = KindOf("stats") /\ w.id = id["stats"]
    BY DEF KindOf
  <2>4. Statements("stats", w) /\ pc["stats"] = "locked"
    BY <1>15 DEF BatchStatements
  <2> HIDE DEF w
  <2> QED
    BY <1>n, <2>2, <2>3, <2>4, StatementsWrites
<1>16. CASE BatchReplayed
  BY <1>16, <1>a, <1>n, <1>p DEF BatchReplayed, Goto, database, history
<1>17. CASE BatchCommits
  BY <1>17, <1>c DEF BatchCommits
<1>18. CASE acknowledge_receipt
  <2>1. UNCHANGED <<torrents, complete, stale, commits, doubt, lock, writes, used>>
    BY <1>18 DEF acknowledge_receipt, server, history
  <2>2. pc' = [pc EXCEPT !["stats"] = "idle"] \/ pc' = [pc EXCEPT !["stats"] = "begin"]
    BY <1>18 DEF acknowledge_receipt, Goto
  <2>3. \A d \in Clients \ {"stats"} : id'[d] = id[d]
    BY <1>0, <1>18 DEF acknowledge_receipt
  <2> QED
    BY <1>a, <1>n, <1>p, <2>1, <2>2, <2>3
<1>19. CASE StatsStops
  BY <1>19, <1>a, <1>n, <1>p DEF StatsStops, Goto, database, server, history
<1>20. CASE prune_receipts
  BY <1>20, <1>b DEF prune_receipts, server, clients, history
<1>21. CASE MetadataStatements
  <2> DEFINE w == [kind |-> "metadata", id |-> 0, rows |-> hashes["worker"],
                   new |-> New("worker"),
                   done |-> Cardinality(hashes["worker"] \ complete)]
  <2>1. \E h \in Hashes : hashes["worker"] = {h}
    BY <1>0, <1>21 DEF MetadataStatements, WorkerInv
  <2>2. SoundIn(w, torrents, complete, stale, commits, used)
    BY <2>1 DEF SoundIn, New
  <2>3. w.kind = KindOf("worker") /\ "worker" \notin Owners
    BY DEF KindOf, Owners
  <2>4. Statements("worker", w) /\ pc["worker"] = "locked"
    BY <1>21 DEF MetadataStatements
  <2> HIDE DEF w
  <2> QED
    BY <1>n, <2>2, <2>3, <2>4, StatementsWrites
<1>22. CASE MetadataCommits
  BY <1>22, <1>c DEF MetadataCommits
<1>23. CASE StartPrune
  BY <1>23, <1>a, <1>n, <1>p DEF StartPrune, Goto, database, server, history
<1>24. CASE PruneStatements
  <2>1. PICK H \in SUBSET stale : PruneRowsOf(H)
    BY <1>24 DEF PruneStatements
  <2> DEFINE w == [kind |-> "prune", id |-> 0, rows |-> H, new |-> Cardinality(H),
                   done |-> Cardinality(H \cap complete)]
  <2>2. SoundIn(w, torrents, complete, stale, commits, used)
    BY <2>1 DEF SoundIn
  <2>3. w.kind = KindOf("pruner") /\ "pruner" \notin Owners
    BY DEF KindOf, Owners
  <2>4. Statements("pruner", w) /\ pc["pruner"] = "locked"
    BY <2>1 DEF PruneRowsOf
  <2> HIDE DEF w
  <2> QED
    BY <1>n, <2>2, <2>3, <2>4, StatementsWrites
<1>25. CASE PruneDone
  BY <1>25, <1>a, <1>n, <1>p DEF PruneDone, Goto, database, history
<1>26. CASE PruneCommits
  BY <1>26, <1>c DEF PruneCommits
<1>27. ASSUME NEW r \in Ops, ReceiptAges(r)
      PROVE  WriteInv'
  BY <1>27, <1>b DEF ReceiptAges, server, clients, history
<1>28. CASE Restart \/ Shutdown
  <2>1. PICK C \in SUBSET Clients : Cut(C)
    BY <1>28 DEF Restart, Shutdown, Clients
  <2>2. /\ pc' = [c \in Clients |-> IF c \in C THEN "idle" ELSE pc[c]]
        /\ id' = [c \in Clients |-> IF c \in C THEN 0 ELSE id[c]]
        /\ writes' = [c \in Clients |-> IF c \in C THEN NoWrites ELSE writes[c]]
        /\ lock' = IF lock \in C THEN "none" ELSE lock
    BY <2>1 DEF Cut
  <2>3. UNCHANGED <<torrents, complete, stale, commits, doubt, used>>
    BY <1>28 DEF Restart, Shutdown, database, history
  <2>4. \A d \in Clients : pc'[d] = "written" => /\ pc[d] = "written"
                                                 /\ writes'[d] = writes[d]
                                                 /\ id'[d] = id[d]
    BY <2>2
  <2> QED
    BY <1>0, <2>2, <2>3, <2>4, QuietWrites
<1> QED
  BY <1>1, <1>2, <1>3, <1>4, <1>5, <1>6, <1>7, <1>8, <1>9, <1>10, <1>11, <1>12, <1>13, <1>14,
     <1>15, <1>16, <1>17, <1>18, <1>19, <1>20, <1>21, <1>22, <1>23, <1>24, <1>25, <1>26, <1>27,
     <1>28 DEF Next, Discovery, Flush, Metadata, PruneRows

------------------------------------------------------------------------------
(***************************************************************************)
(* Receipts tell what was committed.                                       *)
(***************************************************************************)
\* A step that changes no receipt, and ends or starts operations.
LEMMA QuietReceipts ==
    ASSUME IInv, UNCHANGED <<receipt, result, commits, inserted, metric>>,
           used' \in Nat, used <= used',
           \A c \in Owners : id'[c] \in {id[c], 0, used + 1}
    PROVE  ReceiptInv'
<1>1. ReceiptInv /\ used \in Nat /\ Ops \subseteq Nat \ {0}
  BY CatalogAssumption DEF IInv, TypeOK, Ops
<1> SUFFICES ASSUME NEW r \in Ops
             PROVE  /\ r > used' => commits[r] = 0
                    /\ \A c \in Owners : id'[c] = r =>
                         /\ receipt[r] # "expired"
                         /\ commits[r] = 1 => receipt[r] # "absent"
  BY <1>1 DEF ReceiptInv
<1>2. r \in Nat \ {0} /\ (r > used => commits[r] = 0 /\ receipt[r] = "absent")
  BY <1>1 DEF ReceiptInv
<1>3. r > used' => commits[r] = 0
  BY <1>1, <1>2
<1>4. ASSUME NEW c \in Owners, id'[c] = r
      PROVE  receipt[r] # "expired" /\ (commits[r] = 1 => receipt[r] # "absent")
  <2>1. CASE id[c] = r
    BY <1>1, <2>1 DEF ReceiptInv
  <2>2. CASE r = used + 1
    BY <1>1, <1>2, <2>2
  <2> QED
    BY <1>2, <1>4, <2>1, <2>2
<1> QED
  BY <1>3, <1>4

\* A commit takes effect once, and its receipt and metric say what it did.
LEMMA CommitReceipts ==
    ASSUME IInv, NEW w \in Writes, SoundWrites(w), CommitWrites(w), UNCHANGED <<id, used>>,
           \/ metric' = metric
           \/ w.kind \in {"discovery", "batch"} /\ metric' = [metric EXCEPT ![w.id] = w.new]
    PROVE  /\ ReceiptInv'
           /\ \A r \in Ops : commits[r] = 1 => commits'[r] = 1 /\ inserted'[r] = inserted[r]
           /\ w.kind \in {"discovery", "batch"} =>
                commits'[w.id] = 1 /\ inserted'[w.id] = w.new
<1>0. /\ TypeOK /\ ReceiptInv /\ used \in Nat
      /\ receipt \in [Ops -> {"absent", "unacked", "acked", "expired"}]
      /\ result \in [Ops -> Nat] /\ commits \in [Ops -> Nat] /\ inserted \in [Ops -> Nat]
      /\ metric \in [Ops -> Nat \cup {-1}]
  BY DEF IInv, TypeOK
<1>1. CASE w.kind \in {"discovery", "batch"}
  <2> DEFINE i == w.id  n == w.new  s == IF w.kind = "batch" THEN "unacked" ELSE "acked"
  <2>1. /\ receipt' = [receipt EXCEPT ![i] = s]
        /\ result' = [result EXCEPT ![i] = n]
        /\ commits' = [commits EXCEPT ![i] = @ + 1]
        /\ inserted' = [inserted EXCEPT ![i] = @ + n]
    BY <1>1, CommitObserved, Zenon
  <2>2. i \in 1 .. used /\ commits[i] = 0 /\ n \in Nat /\ s \in {"unacked", "acked"}
    BY <1>1 DEF SoundWrites, SoundIn, Writes
  <2>3. i \in Ops
    BY <1>0, <2>2, CatalogAssumption DEF TypeOK, Ops
  <2>4. metric' = metric \/ metric' = [metric EXCEPT ![i] = n]
    OBVIOUS
  <2> HIDE DEF i, n, s
  <2>5. inserted[i] = 0
    BY <1>0, <2>2, <2>3 DEF ReceiptInv
  <2>6. /\ commits'[i] = 1 /\ inserted'[i] = n /\ result'[i] = n /\ receipt'[i] = s
        /\ metric'[i] \in {metric[i], n}
    BY <1>0, <2>1, <2>2, <2>3, <2>4, <2>5
  <2>7. \A r \in Ops \ {i} : /\ commits'[r] = commits[r] /\ inserted'[r] = inserted[r]
                             /\ result'[r] = result[r] /\ receipt'[r] = receipt[r]
                             /\ metric'[r] = metric[r]
    BY <1>0, <2>1, <2>4
  <2>8. metric[i] = -1
    BY <1>0, <2>2, <2>3 DEF ReceiptInv
  <2>9. ReceiptInv'
    <3> SUFFICES ASSUME NEW r \in Ops
                 PROVE  /\ commits'[r] \in {0, 1}
                        /\ commits'[r] = 0 => inserted'[r] = 0
                        /\ receipt'[r] # "absent" => commits'[r] = 1 /\ result'[r] = inserted'[r]
                        /\ metric'[r] # -1 => commits'[r] = 1 /\ metric'[r] = inserted'[r]
                        /\ r > used => commits'[r] = 0
                        /\ \A c \in Owners : id[c] = r =>
                             /\ receipt'[r] # "expired"
                             /\ commits'[r] = 1 => receipt'[r] # "absent"
      BY DEF ReceiptInv
    <3>1. CASE r = i
      BY <2>2, <2>6, <2>8, <3>1, <1>0
    <3>2. CASE r # i
      BY <1>0, <2>7, <3>2 DEF ReceiptInv
    <3> QED
      BY <3>1, <3>2
  <2>10. \A r \in Ops : commits[r] = 1 => commits'[r] = 1 /\ inserted'[r] = inserted[r]
    BY <2>2, <2>7
  <2> QED
    BY <2>6, <2>9, <2>10 DEF i, n
<1>2. CASE w.kind \notin {"discovery", "batch"}
  <2>1. UNCHANGED <<receipt, result, commits, inserted>>
    BY <1>2, CommitMetadata, CommitPrune, Zenon DEF CommitWrites
  <2> QED
    BY <1>0, <1>2, <2>1, QuietReceipts
<1> QED
  BY <1>1, <1>2

\* The metric of an operation is set to what its receipt, or the outcome the
\* fetcher remembers, says.
LEMMA RecordedReceipts ==
    ASSUME ReceiptInv, metric \in [Ops -> Nat \cup {-1}], NEW i \in Ops, NEW n \in Nat,
           commits[i] = 1, n = inserted[i], metric' = [metric EXCEPT ![i] = n]
    PROVE  \A r \in Ops : metric'[r] # -1 => commits[r] = 1 /\ metric'[r] = inserted[r]
BY DEF ReceiptInv

\* A discovery is over: its metric is recorded, and its receipt may go.
LEMMA DoneReceipts ==
    ASSUME IInv, id["fetcher"] \in Ops, NEW n \in Nat,
           commits[id["fetcher"]] = 1, n = inserted[id["fetcher"]],
           DiscoveryDone(n), UNCHANGED <<used, commits, inserted>>,
           \A r \in Ops : \/ receipt'[r] = receipt[r] /\ result'[r] = result[r]
                          \/ receipt'[r] = "absent" /\ r = id["fetcher"]
    PROVE  ReceiptInv' /\ CleanupInv'
<1>0. /\ ReceiptInv /\ OwnerInv /\ metric \in [Ops -> Nat \cup {-1}]
      /\ pc \in [Clients -> Phases] /\ id \in [Clients -> 0 .. MaxOps]
  BY DEF IInv, TypeOK
<1>1. /\ metric' = [metric EXCEPT ![id["fetcher"]] = n]
      /\ id' = [id EXCEPT !["fetcher"] = 0] /\ pc' = [pc EXCEPT !["fetcher"] = "idle"]
  BY DEF DiscoveryDone, Goto
<1>2. \A r \in Ops : metric'[r] # -1 => commits[r] = 1 /\ metric'[r] = inserted[r]
  BY <1>0, <1>1, RecordedReceipts
<1>3. CleanupInv'
  BY <1>0, <1>1 DEF CleanupInv, Clients
<1>4. /\ id'["fetcher"] = 0 /\ id'["stats"] = id["stats"]
      /\ id["stats"] = id["fetcher"] => id["fetcher"] = 0
      /\ 0 \notin Ops
  BY <1>0, <1>1 DEF OwnerInv, Clients, Ops
<1>5. ReceiptInv'
  <2> SUFFICES ASSUME NEW r \in Ops
               PROVE  /\ receipt'[r] # "absent" => commits[r] = 1 /\ result'[r] = inserted[r]
                      /\ \A c \in Owners : id'[c] = r =>
                           /\ receipt'[r] # "expired"
                           /\ commits[r] = 1 => receipt'[r] # "absent"
    BY <1>0, <1>2 DEF ReceiptInv
  <2>1. receipt'[r] # "absent" => commits[r] = 1 /\ result'[r] = inserted[r]
    BY <1>0 DEF ReceiptInv
  <2>2. ASSUME id["stats"] = r
        PROVE  receipt'[r] # "expired" /\ (commits[r] = 1 => receipt'[r] # "absent")
    <3>1. r # id["fetcher"]
      BY <1>4, <2>2
    <3> QED
      BY <1>0, <2>2, <3>1 DEF ReceiptInv, Owners
  <2> QED
    BY <1>4, <2>1, <2>2 DEF Owners
<1> QED
  BY <1>3, <1>5

\* The commit of a client other than the fetcher.
LEMMA CommitStep ==
    ASSUME IInv, NEW c \in Clients \ {"fetcher"}, NEW p, Commits(c, p), outcome' = outcome,
           \/ metric' = metric
           \/ /\ writes[c].kind \in {"discovery", "batch"}
              /\ metric' = [metric EXCEPT ![writes[c].id] = writes[c].new]
    PROVE  ReceiptInv' /\ CleanupInv'
<1>0. /\ OwnerInv /\ WriteInv /\ CleanupInv /\ writes \in [Clients -> Writes]
      /\ pc \in [Clients -> Phases] /\ id \in [Clients -> 0 .. MaxOps] /\ used \in 0 .. MaxOps
  BY DEF IInv, TypeOK
<1>1. /\ writes[c] \in Writes /\ SoundWrites(writes[c]) /\ CommitWrites(writes[c])
      /\ UNCHANGED <<id, used>> /\ pc' = [pc EXCEPT ![c] = p]
  BY <1>0 DEF Commits, Goto, WriteInv
<1>2. /\ ReceiptInv'
      /\ \A r \in Ops : commits[r] = 1 => commits'[r] = 1 /\ inserted'[r] = inserted[r]
  BY <1>1, CommitReceipts
<1>3. pc["fetcher"] = "cleanup" => id["fetcher"] \in Ops
  BY <1>0, CatalogAssumption DEF OwnerInv, Owners, Clients, Ops
<1>4. pc'["fetcher"] = pc["fetcher"]
  BY <1>0, <1>1 DEF Clients
<1> QED
  BY <1>0, <1>1, <1>2, <1>3, <1>4 DEF CleanupInv

\* One step per action: the receipts, the metrics and the fetcher's outcome.
LEMMA ReceiptStep ==
    ASSUME IInv, Next
    PROVE  ReceiptInv' /\ CleanupInv'
<1>0. /\ TypeOK /\ OwnerInv /\ WriteInv /\ ReceiptInv /\ CleanupInv
      /\ pc \in [Clients -> Phases] /\ id \in [Clients -> 0 .. MaxOps]
      /\ used \in 0 .. MaxOps /\ used \in Nat
      /\ receipt \in [Ops -> {"absent", "unacked", "acked", "expired"}]
      /\ result \in [Ops -> Nat] /\ commits \in [Ops -> Nat] /\ inserted \in [Ops -> Nat]
      /\ metric \in [Ops -> Nat \cup {-1}] /\ writes \in [Clients -> Writes] /\ outcome \in Nat
  BY DEF IInv, TypeOK
<1>n. /\ "fetcher" \in Clients /\ "stats" \in Clients
      /\ "worker" \in Clients /\ "pruner" \in Clients
      /\ Owners \subseteq Clients
  BY DEF Clients, Owners
<1>o. \A c \in Owners : pc[c] \notin {"idle", "stopped"} => id[c] \in Ops
  BY <1>0, <1>n, CatalogAssumption DEF OwnerInv, Ops
\* A step that changes no receipt and leaves a fetcher that cleans up alone.
<1>a. ASSUME UNCHANGED <<receipt, result, commits, inserted, metric>>,
             used' = used \/ used' = used + 1,
             \A c \in Owners : id'[c] \in {id[c], 0, used + 1},
             pc'["fetcher"] = "cleanup" =>
               pc["fetcher"] = "cleanup" /\ outcome' = outcome /\ id'["fetcher"] = id["fetcher"]
      PROVE  ReceiptInv' /\ CleanupInv'
  <2>1. used' \in Nat /\ used <= used'
    BY <1>0, <1>a
  <2>2. ReceiptInv'
    BY <1>a, <2>1, QuietReceipts
  <2> QED
    BY <1>0, <1>a, <2>2 DEF CleanupInv
<1>s. ASSUME NEW c \in Clients, NEW w, Statements(c, w)
      PROVE  ReceiptInv' /\ CleanupInv'
  <2>1. /\ UNCHANGED <<receipt, result, commits, inserted, metric, used, id, outcome>>
        /\ pc' = [pc EXCEPT ![c] = "written"]
    BY <1>s DEF Statements, Goto, database, history
  <2> QED
    BY <1>0, <1>a, <1>n, <2>1
\* A step that changes the state of receipts only.
<1>r. ASSUME UNCHANGED <<commits, inserted, metric, used, outcome>>,
             pc'["fetcher"] = pc["fetcher"], id'["fetcher"] = id["fetcher"],
             \A c \in Owners : id'[c] \in {id[c], 0},
             \A r \in Ops :
               \/ receipt'[r] = "absent" /\ \A c \in Owners : id'[c] # r
               \/ /\ receipt'[r] = "absent" <=> receipt[r] = "absent"
                  /\ result'[r] = result[r]
                  /\ receipt'[r] = "expired" =>
                       receipt[r] = "expired" \/ \A c \in Owners : id'[c] # r
      PROVE  ReceiptInv' /\ CleanupInv'
  <2>1. 0 \notin Ops
    BY DEF Ops
  <2>2. CleanupInv'
    BY <1>0, <1>r DEF CleanupInv
  <2>3. ReceiptInv'
    <3> SUFFICES ASSUME NEW r \in Ops
                 PROVE  /\ receipt'[r] # "absent" => commits[r] = 1 /\ result'[r] = inserted[r]
                        /\ \A c \in Owners : id'[c] = r =>
                             /\ receipt'[r] # "expired"
                             /\ commits[r] = 1 => receipt'[r] # "absent"
      BY <1>0, <1>r DEF ReceiptInv
    <3>1. receipt'[r] # "absent" => commits[r] = 1 /\ result'[r] = inserted[r]
      BY <1>0, <1>r DEF ReceiptInv
    <3>2. ASSUME NEW c \in Owners, id'[c] = r
          PROVE  receipt'[r] # "expired" /\ (commits[r] = 1 => receipt'[r] # "absent")
      <4>1. id[c] = r
        BY <1>r, <2>1, <3>2
      <4>2. receipt[r] # "expired" /\ (commits[r] = 1 => receipt[r] # "absent")
        BY <1>0, <4>1 DEF ReceiptInv
      <4> QED
        BY <1>r, <3>2, <4>2
    <3> QED
      BY <3>1, <3>2
  <2> QED
    BY <2>2, <2>3
<1>1. ASSUME NEW c \in Clients, lock_totals(c)
      PROVE  ReceiptInv' /\ CleanupInv'
  <2>1. /\ UNCHANGED <<receipt, result, commits, inserted, metric, used, id, outcome>>
        /\ pc' = [pc EXCEPT ![c] = "locked"]
    BY <1>1 DEF lock_totals, Goto, database, history
  <2> QED
    BY <1>0, <1>a, <1>n, <2>1
<1>2. ASSUME NEW c \in Clients, Rollback(c) \/ LoseCommit(c)
      PROVE  ReceiptInv' /\ CleanupInv'
  <2>1. PICK p \in {"replay", "begin", "idle"} : pc' = [pc EXCEPT ![c] = p]
    BY <1>0, <1>2, ErrorPaths DEF Rollback, LoseCommit
  <2>2. UNCHANGED <<receipt, result, commits, inserted, metric, used, id, outcome>>
    BY <1>2 DEF Rollback, LoseCommit, database, history
  <2> QED
    BY <1>0, <1>a, <1>n, <2>1, <2>2
<1>4. CASE ResolveDoubt
  <2>1. UNCHANGED <<pc, id, outcome, used, metric>>
    BY <1>4 DEF ResolveDoubt, clients
  <2>2. CASE CommitWrites(doubt)
    <3>1. doubt \in Writes /\ SoundWrites(doubt)
      BY <1>0, <1>4 DEF ResolveDoubt, TypeOK, WriteInv
    <3>2. /\ ReceiptInv'
          /\ \A r \in Ops : commits[r] = 1 => commits'[r] = 1 /\ inserted'[r] = inserted[r]
      BY <2>1, <2>2, <3>1, CommitReceipts
    <3> QED
      BY <1>0, <1>o, <2>1, <3>2 DEF CleanupInv, Owners
  <2>3. CASE UNCHANGED <<database, history>>
    BY <1>a, <2>1, <2>3 DEF database, history
  <2> QED
    BY <1>4, <2>2, <2>3 DEF ResolveDoubt
<1>5. ASSUME NEW h \in Hashes, ReceiveDiscovery(h)
      PROVE  ReceiptInv' /\ CleanupInv'
  <2>1. /\ UNCHANGED <<receipt, result, commits, inserted, metric, outcome>>
        /\ pc' = [pc EXCEPT !["fetcher"] = "replay"] /\ used' = used + 1
        /\ id' = [id EXCEPT !["fetcher"] = used + 1]
    BY <1>5 DEF ReceiveDiscovery, Fresh, Goto, database, history
  <2> QED
    BY <1>0, <1>a, <1>n, <2>1
<1>f. ASSUME NEW events, StartFlush(events),
             UNCHANGED <<receipt, result, commits, inserted, metric, outcome>>
      PROVE  ReceiptInv' /\ CleanupInv'
  <2>1. /\ pc' = [pc EXCEPT !["stats"] = "begin"] /\ used' = used + 1
        /\ id' = [id EXCEPT !["stats"] = used + 1]
    BY <1>f DEF StartFlush, Fresh, Goto
  <2>2. id'["fetcher"] = id["fetcher"] /\ pc'["fetcher"] = pc["fetcher"]
    BY <1>0, <1>n, <2>1
  <2> QED
    BY <1>0, <1>a, <1>n, <1>f, <2>1, <2>2
<1>6. ASSUME NEW h \in Hashes, ReceiveEvent(h)
      PROVE  ReceiptInv' /\ CleanupInv'
  <2>1. UNCHANGED <<receipt, result, commits, inserted, metric, outcome>>
    BY <1>6 DEF ReceiveEvent, database, history
  <2>2. CASE StartFlush(buf')
    BY <1>f, <2>1, <2>2
  <2>3. CASE UNCHANGED <<used, id, hashes, recorded, pc>>
    BY <1>a, <2>1, <2>3
  <2> QED
    BY <1>6, <2>2, <2>3 DEF ReceiveEvent
<1>7. ASSUME NEW h \in Hashes, StartCommit(h)
      PROVE  ReceiptInv' /\ CleanupInv'
  <2>1. /\ UNCHANGED <<receipt, result, commits, inserted, metric, used, id, outcome>>
        /\ pc' = [pc EXCEPT !["worker"] = "begin"]
    BY <1>7 DEF StartCommit, Goto, database, history
  <2> QED
    BY <1>0, <1>a, <1>n, <2>1
<1>8. ASSUME NEW h \in Hashes, TorrentAges(h)
      PROVE  ReceiptInv' /\ CleanupInv'
  BY <1>8, <1>a DEF TorrentAges, clients, history
<1>9. CASE replayed_discovery
  <2>0. UNCHANGED <<receipt, result, commits, inserted, used>> /\ id["fetcher"] \in Ops
    BY <1>9, <1>o DEF replayed_discovery, database, history, Owners
  <2>1. CASE /\ receipt[id["fetcher"]] # "absent"
             /\ DiscoveryDone(result[id["fetcher"]])
    <3>1. /\ commits[id["fetcher"]] = 1 /\ result[id["fetcher"]] = inserted[id["fetcher"]]
          /\ result[id["fetcher"]] \in Nat
      BY <1>0, <2>0, <2>1 DEF ReceiptInv
    <3> QED
      BY <2>0, <2>1, <3>1, DoneReceipts
  <2>2. CASE Goto("fetcher", "begin") /\ UNCHANGED <<id, hashes, outcome, metric>>
    BY <1>0, <1>a, <1>n, <2>0, <2>2 DEF Goto
  <2> QED
    BY <1>9, <2>1, <2>2 DEF replayed_discovery
<1>10. CASE DiscoveryStatements
  BY <1>10, <1>n, <1>s DEF DiscoveryStatements
<1>11. CASE DiscoveryDuplicate
  <2>1. /\ UNCHANGED <<receipt, result, commits, inserted, metric, used, id, outcome>>
        /\ pc' = [pc EXCEPT !["fetcher"] = "replay"]
    BY <1>11 DEF DiscoveryDuplicate, Goto, database, history
  <2> QED
    BY <1>0, <1>a, <1>n, <2>1
<1>12. CASE DiscoveryCommits
  <2> DEFINE w == writes["fetcher"]
  <2>1. /\ w \in Writes /\ SoundWrites(w) /\ w.kind = "discovery" /\ w.id = id["fetcher"]
        /\ CommitWrites(w) /\ UNCHANGED <<id, used, metric>> /\ outcome' = w.new
    BY <1>0, <1>12, <1>n DEF DiscoveryCommits, Commits, WriteInv, KindOf, Owners
  <2> HIDE DEF w
  <2>2. ReceiptInv' /\ commits'[w.id] = 1 /\ inserted'[w.id] = w.new
    BY <2>1, CommitReceipts
  <2> QED
    BY <2>1, <2>2 DEF CleanupInv
<1>13. CASE remove_receipt
  <2>1. /\ id["fetcher"] \in Ops /\ commits[id["fetcher"]] = 1
        /\ outcome = inserted[id["fetcher"]]
        /\ DiscoveryDone(outcome) /\ UNCHANGED <<used, commits, inserted>>
    BY <1>0, <1>13, <1>o DEF remove_receipt, CleanupInv, Owners, history
  <2>2. \A r \in Ops : \/ receipt'[r] = receipt[r] /\ result'[r] = result[r]
                       \/ receipt'[r] = "absent" /\ r = id["fetcher"]
    <3>1. CASE DeleteReceipts({id["fetcher"]})
      BY <3>1 DEF DeleteReceipts
    <3>2. CASE UNCHANGED <<receipt, result>>
      BY <3>2
    <3> QED
      BY <1>13, <3>1, <3>2 DEF remove_receipt
  <2> QED
    BY <1>0, <2>1, <2>2, DoneReceipts
<1>14. CASE FlushPending
  BY <1>14, <1>f DEF FlushPending, database, history
<1>15. CASE BatchStatements
  BY <1>15, <1>n, <1>s DEF BatchStatements
<1>16. CASE BatchReplayed
  <2> DEFINE i == id["stats"]
  <2>1. /\ UNCHANGED <<receipt, result, commits, inserted, used, id, outcome>>
        /\ pc' = [pc EXCEPT !["stats"] = "ack"]
        /\ metric' = metric \/ metric' = [metric EXCEPT ![i] = result[i]]
        /\ receipt[i] # "absent" /\ i \in Ops
    BY <1>16, <1>o DEF BatchReplayed, RecordOnce, Goto, database, history, Owners
  <2>2. pc'["fetcher"] = pc["fetcher"]
    BY <1>0, <1>n, <2>1
  <2> HIDE DEF i
  <2>3. commits[i] = 1 /\ result[i] = inserted[i] /\ result[i] \in Nat
    BY <1>0, <2>1 DEF ReceiptInv
  <2>4. \A r \in Ops : metric'[r] # -1 => commits[r] = 1 /\ metric'[r] = inserted[r]
    <3>1. CASE metric' = metric
      BY <1>0, <3>1 DEF ReceiptInv
    <3>2. CASE metric' = [metric EXCEPT ![i] = result[i]]
      BY <1>0, <2>1, <2>3, <3>2, RecordedReceipts
    <3> QED
      BY <2>1, <3>1, <3>2
  <2>5. ReceiptInv'
    BY <1>0, <2>1, <2>4 DEF ReceiptInv
  <2> QED
    BY <1>0, <2>1, <2>2, <2>5 DEF CleanupInv
<1>17. CASE BatchCommits
  <2>1. /\ Commits("stats", "ack") /\ outcome' = outcome
        /\ writes["stats"].kind = "batch" /\ writes["stats"].id = id["stats"]
        /\ metric' = metric \/ metric' = [metric EXCEPT ![id["stats"]] = writes["stats"].new]
    BY <1>0, <1>17, <1>n DEF BatchCommits, Commits, RecordOnce, WriteInv, KindOf, Owners
  <2>2. "stats" \in Clients \ {"fetcher"}
    BY <1>n
  <2>3. \/ metric' = metric
        \/ /\ writes["stats"].kind \in {"discovery", "batch"}
           /\ metric' = [metric EXCEPT ![writes["stats"].id] = writes["stats"].new]
    BY <2>1
  <2> QED
    BY <2>1, <2>2, <2>3, CommitStep
<1>18. CASE acknowledge_receipt
  <2>1. UNCHANGED <<result, commits, inserted, metric, used, outcome>>
    BY <1>18 DEF acknowledge_receipt, history
  <2>2. /\ pc'["fetcher"] = pc["fetcher"] /\ id'["fetcher"] = id["fetcher"]
        /\ id'["stats"] \in {id["stats"], 0}
    <3>1. id' = id \/ id' = [id EXCEPT !["stats"] = 0]
      BY <1>18 DEF acknowledge_receipt
    <3>2. pc' = [pc EXCEPT !["stats"] = "idle"] \/ pc' = [pc EXCEPT !["stats"] = "begin"]
      BY <1>18 DEF acknowledge_receipt, Goto
    <3> QED
      BY <1>0, <1>n, <3>1, <3>2
  <2>3. receipt' = receipt \/ receipt' = Acknowledged
    BY <1>18 DEF acknowledge_receipt
  <2>4. \A r \in Ops : /\ receipt'[r] = "absent" <=> receipt[r] = "absent"
                       /\ receipt'[r] = "expired" => receipt[r] = "expired"
    BY <1>0, <2>3 DEF Acknowledged
  <2>5. \A c \in Owners : id'[c] \in {id[c], 0}
    BY <2>2 DEF Owners
  <2> QED
    BY <1>r, <2>1, <2>2, <2>4, <2>5
<1>19. CASE StatsStops
  <2>1. /\ UNCHANGED <<receipt, result, commits, inserted, metric, used, id, outcome>>
        /\ pc' = [pc EXCEPT !["stats"] = "stopped"]
    BY <1>19 DEF StatsStops, Goto, database, history
  <2> QED
    BY <1>0, <1>a, <1>n, <2>1
<1>20. CASE prune_receipts
  <2>1. UNCHANGED <<commits, inserted, metric, used, outcome, pc, id>>
    BY <1>20 DEF prune_receipts, history, clients
  <2>2. \A r \in Ops :
          \/ receipt'[r] = "absent" /\ receipt[r] = "expired"
          \/ receipt'[r] = receipt[r] /\ result'[r] = result[r]
    BY <1>20 DEF prune_receipts, DeleteReceipts
  <2>3. \A r \in Ops : receipt[r] = "expired" => \A c \in Owners : id[c] # r
    BY <1>0 DEF ReceiptInv
  <2> QED
    BY <1>r, <2>1, <2>2, <2>3
<1>21. CASE MetadataStatements
  BY <1>21, <1>n, <1>s DEF MetadataStatements
<1>22. CASE MetadataCommits
  BY <1>22, <1>n, CommitStep DEF MetadataCommits
<1>23. CASE StartPrune
  <2>1. /\ UNCHANGED <<receipt, result, commits, inserted, metric, used, id, outcome>>
        /\ pc' = [pc EXCEPT !["pruner"] = "begin"]
    BY <1>23 DEF StartPrune, Goto, database, history
  <2> QED
    BY <1>0, <1>a, <1>n, <2>1
<1>24. CASE PruneStatements
  BY <1>24, <1>n, <1>s DEF PruneStatements, PruneRowsOf
<1>25. CASE PruneDone
  <2>1. /\ UNCHANGED <<receipt, result, commits, inserted, metric, used, id, outcome>>
        /\ pc' = [pc EXCEPT !["pruner"] = "idle"]
    BY <1>25 DEF PruneDone, Goto, database, history
  <2> QED
    BY <1>0, <1>a, <1>n, <2>1
<1>26. CASE PruneCommits
  BY <1>26, <1>n, CommitStep DEF PruneCommits
<1>27. ASSUME NEW r \in Ops, ReceiptAges(r)
      PROVE  ReceiptInv' /\ CleanupInv'
  <2>1. UNCHANGED <<result, commits, inserted, metric, used, outcome, pc, id>>
    BY <1>27 DEF ReceiptAges, history, clients
  <2>2. /\ receipt' = [receipt EXCEPT ![r] = "expired"] /\ receipt[r] = "acked"
        /\ \A c \in Owners : id[c] # r
    BY <1>27, <1>n DEF ReceiptAges
  <2>3. \A q \in Ops : /\ receipt'[q] = "absent" <=> receipt[q] = "absent"
                       /\ receipt'[q] = "expired" =>
                            receipt[q] = "expired" \/ \A c \in Owners : id[c] # q
    BY <1>0, <2>2
  <2> QED
    BY <1>r, <2>1, <2>3
<1>28. CASE Restart \/ Shutdown
  <2>1. PICK C \in SUBSET Clients : Cut(C) /\ "fetcher" \in C
    BY <1>28 DEF Restart, Shutdown, Clients
  <2>2. /\ \A c \in Clients : id'[c] \in {id[c], 0}
        /\ pc'["fetcher"] = "idle"
    BY <1>n, <2>1 DEF Cut
  <2>3. UNCHANGED <<receipt, result, commits, inserted, metric, used>>
    BY <1>28 DEF Restart, Shutdown, database, history
  <2> QED
    BY <1>a, <1>n, <2>2, <2>3
<1> QED
  BY <1>1, <1>2, <1>4, <1>5, <1>6, <1>7, <1>8, <1>9, <1>10, <1>11, <1>12, <1>13, <1>14,
     <1>15, <1>16, <1>17, <1>18, <1>19, <1>20, <1>21, <1>22, <1>23, <1>24, <1>25, <1>26, <1>27,
     <1>28 DEF Next, Discovery, Flush, Metadata, PruneRows

------------------------------------------------------------------------------
(***************************************************************************)
(* The theorems.                                                           *)
(***************************************************************************)
\* An empty catalogue and idle clients satisfy the invariant ...
LEMMA InitInv == Init => IInv
<1> SUFFICES ASSUME Init PROVE IInv
  OBVIOUS
<1>1. Cardinality({}) = 0 /\ NoWrites \in Writes /\ MaxOps \in Nat /\ BatchSize \in Nat \ {0}
      /\ MaxFaults \in Nat
  BY CatalogAssumption, FS_EmptySet DEF NoWrites, Writes, Kinds
<1>2. TypeOK
  <2>1. /\ totals \in [torrents : Nat, complete : Nat] /\ doubt \in Writes
        /\ receipt \in [Ops -> {"absent", "unacked", "acked", "expired"}]
        /\ result \in [Ops -> Nat] /\ commits \in [Ops -> Nat] /\ inserted \in [Ops -> Nat]
        /\ metric \in [Ops -> Nat \cup {-1}]
    BY <1>1 DEF Init
  <2>2. /\ pc \in [Clients -> Phases] /\ id \in [Clients -> 0 .. MaxOps]
        /\ hashes \in [Clients -> SUBSET Hashes] /\ writes \in [Clients -> Writes]
    BY <1>1 DEF Init, Phases
  <2>3. buf \in Seq(Hashes) /\ Len(buf) <= BatchSize
    <3>1. buf = <<>> /\ Len(<<>>) = 0
      BY DEF Init
    <3> QED
      BY <1>1, <3>1
  <2>4. /\ torrents \subseteq Hashes /\ complete \subseteq torrents /\ stale \subseteq torrents
        /\ lock \in Clients \cup {"doubt", "none"} /\ outcome \in Nat
        /\ tries \in 0 .. Attempts - 1
        /\ used \in 0 .. MaxOps /\ faults \in 0 .. MaxFaults
    BY <1>1 DEF Init, Attempts
  <2>5. recorded \in BOOLEAN /\ closed \in BOOLEAN
    BY DEF Init
  <2> QED
    BY <2>1, <2>2, <2>3, <2>4, <2>5 DEF TypeOK
<1>3. TotalsMatch
  BY <1>1 DEF Init, TotalsMatch
<1>4. LockInv /\ WorkerInv /\ BatchInv /\ WriteInv
  BY <1>1 DEF Init, LockInv, WorkerInv, BatchInv, WriteInv, Clients
<1>5. OwnerInv /\ ReceiptInv /\ CleanupInv
  BY <1>1 DEF Init, OwnerInv, Owners, ReceiptInv, CleanupInv, Clients
<1> QED
  BY <1>2, <1>3, <1>4, <1>5 DEF IInv

\* ... which mentions no other variables.
LEMMA StutterInv == IInv /\ UNCHANGED vars => IInv'
BY DEF IInv, TypeOK, TotalsMatch, LockInv, OwnerInv, WorkerInv, BatchInv, WriteInv, SoundWrites,
       ReceiptInv, CleanupInv, vars, database, server, clients, history

\* The invariant is inductive.
THEOREM Invariance == Spec => []IInv
<1>1. Init => IInv
  BY InitInv
<1>2. IInv /\ [Next]_vars => IInv'
  <2>1. ASSUME IInv, Next PROVE IInv'
    BY <2>1, TypeStep, LockStep, OwnerStep, WriteStep, ReceiptStep DEF IInv
  <2> QED
    BY <2>1, StutterInv
<1> QED
  BY <1>1, <1>2, PTL DEF Spec

\* Types: whatever fails in whatever order, receipts, phases and counters stay
\* in their ranges; in particular a batch never outgrows database.batch_size
\* and commit_metadata never tries more than four times.
THEOREM TypeCorrect == Spec => []TypeOK
<1>1. IInv => TypeOK
  BY DEF IInv
<1> QED
  BY <1>1, Invariance, PTL

\* catalog_totals is at every moment the count of the torrents table, for any
\* number of hashes and operations and any sequence of failures.
THEOREM TotalsAlwaysMatch == Spec => []TotalsMatch
<1>1. IInv => TotalsMatch
  BY DEF IInv
<1> QED
  BY <1>1, Invariance, PTL

\* Every operation with a receipt takes effect at most once, and is reported
\* to the metrics with the rows it inserted.
THEOREM ExactlyOnce == Spec => []CountedExactlyOnce
<1>1. IInv => CountedExactlyOnce
  BY DEF IInv, ReceiptInv, CountedExactlyOnce
<1> QED
  BY <1>1, Invariance, PTL

------------------------------------------------------------------------------
(***************************************************************************)
(* The refinement: a step changes the catalogue by a commit or not at all. *)
(***************************************************************************)
\* COMMIT, at once or after a lost connection, is the only step that changes
\* the tables and the counters.
LEMMA CommitsOnly ==
    ASSUME IInv, Next
    PROVE  \/ UNCHANGED <<torrents, complete, totals, commits>>
           \/ \E w \in Writes : SoundWrites(w) /\ CommitWrites(w)
<1>0. TypeOK /\ WriteInv /\ writes \in [Clients -> Writes] /\ doubt \in Writes
  BY DEF IInv, TypeOK
<1>1. ASSUME NEW c \in Clients, NEW p, Commits(c, p)
      PROVE  \E w \in Writes : SoundWrites(w) /\ CommitWrites(w)
  BY <1>0, <1>1 DEF Commits, WriteInv
<1>2. CASE DiscoveryCommits \/ BatchCommits \/ MetadataCommits \/ PruneCommits
  BY <1>1, <1>2 DEF DiscoveryCommits, BatchCommits, MetadataCommits, PruneCommits, Clients
<1>3. CASE ResolveDoubt
  BY <1>0, <1>3 DEF ResolveDoubt, WriteInv, database, history
<1>4. CASE \E c \in Clients : lock_totals(c) \/ Rollback(c) \/ LoseCommit(c)
  BY <1>4 DEF lock_totals, Rollback, LoseCommit, database, history
<1>5. CASE \E h \in Hashes : ReceiveDiscovery(h) \/ ReceiveEvent(h) \/ StartCommit(h)
                             \/ TorrentAges(h)
  BY <1>5 DEF ReceiveDiscovery, ReceiveEvent, StartCommit, TorrentAges, database, history
<1>6. CASE replayed_discovery \/ DiscoveryStatements \/ DiscoveryDuplicate \/ remove_receipt
  BY <1>6 DEF replayed_discovery, DiscoveryStatements, DiscoveryDuplicate, remove_receipt,
              Statements, database, history
<1>7. CASE FlushPending \/ BatchStatements \/ BatchReplayed \/ acknowledge_receipt \/ StatsStops
  BY <1>7 DEF FlushPending, BatchStatements, BatchReplayed, acknowledge_receipt, StatsStops,
              Statements, database, history
<1>8. CASE prune_receipts \/ MetadataStatements \/ StartPrune \/ PruneStatements \/ PruneDone
  BY <1>8 DEF prune_receipts, MetadataStatements, StartPrune, PruneStatements, PruneRowsOf,
              PruneDone, Statements, database, history
<1>9. CASE (\E r \in Ops : ReceiptAges(r)) \/ Restart \/ Shutdown
  BY <1>9 DEF ReceiptAges, Restart, Shutdown, database, history
<1> QED
  BY <1>2, <1>3, <1>4, <1>5, <1>6, <1>7, <1>8, <1>9
     DEF Next, Discovery, Flush, Metadata, PruneRows

\* Both modules count with the Cardinality of FiniteSets.
LEMMA SameCardinality == \A S : Atomic!Cardinality(S) = Cardinality(S)
BY Zenon DEF Cardinality, Atomic!Cardinality

\* A commit is one step of CatalogAtomic.
LEMMA CommitRefines ==
    ASSUME IInv, NEW w \in Writes, SoundWrites(w), CommitWrites(w)
    PROVE  Atomic!Next
<1>0. /\ TypeOK /\ TotalsMatch /\ ReceiptInv /\ commits \in [Ops -> Nat] /\ used \in 0 .. MaxOps
      /\ w.rows \subseteq Hashes
  BY DEF IInv, TypeOK, Writes
<1>1. Atomic!Counted
  <2>1. totals' = [torrents |-> Cardinality(torrents'), complete |-> Cardinality(complete')]
    BY <1>0, CommitTables
  <2> QED
    BY <2>1, SameCardinality DEF Atomic!Counted
<1>2. CASE w.kind \in {"discovery", "batch"}
  <2>1. /\ torrents' = torrents \cup w.rows /\ complete' = complete
        /\ commits' = [commits EXCEPT ![w.id] = @ + 1]
    BY <1>2, CommitObserved, Zenon
  <2>2. w.id \in Ops /\ commits[w.id] = 0
    BY <1>0, <1>2, CatalogAssumption DEF SoundWrites, SoundIn, Ops
  <2> DEFINE i == w.id
  <2>3. i \in Ops /\ commits[i] = 0 /\ commits' = [commits EXCEPT ![i] = @ + 1]
    BY <2>1, <2>2
  <2> HIDE DEF i
  <2>4. /\ i \notin {r \in Ops : commits[r] > 0}
        /\ {r \in Ops : commits'[r] > 0} = {r \in Ops : commits[r] > 0} \cup {i}
    BY <1>0, <2>3
  <2>5. Atomic!Observe(i, w.rows)
    BY <1>1, <2>1, <2>4 DEF Atomic!Observe
  <2> QED
    BY <1>0, <2>3, <2>5 DEF Atomic!Next
<1>3. CASE w.kind = "metadata"
  <2>1. PICK h \in Hashes : w.rows = {h}
    BY <1>3 DEF SoundWrites, SoundIn
  <2>2. /\ torrents' = torrents \cup w.rows /\ complete' = complete \cup w.rows
        /\ commits' = commits
    BY <1>3, CommitMetadata, Zenon
  <2>3. Atomic!Complete(h)
    BY <1>1, <2>1, <2>2 DEF Atomic!Complete
  <2> QED
    BY <2>3 DEF Atomic!Next
<1>4. CASE w.kind = "prune"
  <2>1. w.rows \subseteq stale
    BY <1>4 DEF SoundWrites, SoundIn
  <2>2. /\ torrents' = torrents \ w.rows /\ complete' = complete \ w.rows
        /\ commits' = commits
    BY <1>4, CommitPrune, Zenon
  <2>3. Atomic!Prune(w.rows)
    BY <1>1, <2>1, <2>2 DEF Atomic!Prune
  <2> QED
    BY <1>0, <2>3 DEF Atomic!Next
<1>5. w.kind \in {"discovery", "batch"} \/ w.kind = "metadata" \/ w.kind = "prune"
  <2>1. totals \in [torrents : Nat, complete : Nat]
    BY <1>0 DEF TypeOK
  <2> QED
    BY <2>1 DEF CommitWrites
<1> QED
  BY <1>2, <1>3, <1>4, <1>5

\* The transactions, their retries and their uncertain commits implement the
\* catalogue whose operations take effect in one step, at most once each, and
\* whose prune command deletes stale rows only.
THEOREM Refinement == Spec => AtomicSpec
<1>1. Init => Atomic!Init
  BY DEF Init, Atomic!Init
<1>2. IInv /\ [Next]_vars => [Atomic!Next]_(Atomic!vars)
  <2>1. ASSUME UNCHANGED <<torrents, complete, totals, commits>>
        PROVE  UNCHANGED Atomic!vars
    BY <2>1 DEF Atomic!vars
  <2>2. UNCHANGED vars => UNCHANGED <<torrents, complete, totals, commits>>
    BY DEF vars, database, history
  <2> QED
    BY <2>1, <2>2, CommitsOnly, CommitRefines
<1> QED
  BY <1>1, <1>2, Invariance, PTL DEF Spec, AtomicSpec, Atomic!Spec
==============================================================================
