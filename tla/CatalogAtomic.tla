---------------------------- MODULE CatalogAtomic ----------------------------
(***************************************************************************)
(* What the catalogue of src/store.rs promises: every operation is applied *)
(* in one step, an operation with a receipt at most once, and the counters *)
(* of catalog_totals are the aggregates of the torrents table.             *)
(***************************************************************************)
EXTENDS FiniteSets, Naturals

CONSTANTS
    Hashes,   \* info hashes
    Ops       \* receipt identifiers

VARIABLES
    torrents, \* the info hashes that have a torrents row
    complete, \* the ones whose row has metadata_complete set
    totals,   \* catalog_totals
    applied,  \* the receipts whose operation has taken effect
    stale     \* rows whose last_seen is older than the cutoff: time changes it

vars == <<torrents, complete, totals, applied>>

\* catalog_totals is the aggregate of the torrents table in the new state.
Counted ==
    totals' = [torrents |-> Cardinality(torrents'), complete |-> Cardinality(complete')]

\* A discovery, or a batch of observations, with receipt id.
Observe(id, H) ==
    /\ id \notin applied
    /\ applied' = applied \cup {id}
    /\ torrents' = torrents \cup H
    /\ UNCHANGED complete
    /\ Counted

\* Verified metadata is stored.
Complete(h) ==
    /\ torrents' = torrents \cup {h}
    /\ complete' = complete \cup {h}
    /\ UNCHANGED applied
    /\ Counted

\* Torrents that have not been seen since the cutoff are deleted.
Prune(H) ==
    /\ H \subseteq stale
    /\ torrents' = torrents \ H
    /\ complete' = complete \ H
    /\ UNCHANGED applied
    /\ Counted

Init ==
    /\ torrents = {}
    /\ complete = {}
    /\ totals = [torrents |-> 0, complete |-> 0]
    /\ applied = {}

Next ==
    \/ \E id \in Ops, H \in SUBSET Hashes : Observe(id, H)
    \/ \E h \in Hashes : Complete(h)
    \/ \E H \in SUBSET Hashes : Prune(H)

Spec == Init /\ [][Next]_vars
==============================================================================
