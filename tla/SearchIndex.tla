------------------------------ MODULE SearchIndex ------------------------------
(***************************************************************************)
(* The derived table search_documents (src/store.rs): how ingestion and    *)
(* pruning keep it, how `btfind db rebuild-search' restores it, and what a *)
(* search finds through it.                                                *)
(*                                                                         *)
(* Info hashes are 1 .. N, in their order.  A document is reduced to which *)
(* of its two columns have text, and its length to a number (the larger of *)
(* the raw and the normalised one): the text is a function of the row, as  *)
(* the metadata of a hash never changes.  A rebuild runs while the         *)
(* services are stopped, which README.md demands.  It may fail or be       *)
(* killed between any two of its statements.                               *)
(***************************************************************************)
EXTENDS Integers, Sequences, FiniteSets, SequencesExt

CONSTANTS
    N,           \* number of info hashes
    NameBytes,   \* length of the normalised name of each hash
    PathBytes,   \* length of its normalised paths
    Overhead,    \* the hash and the encoding allowance of a document
    Limits,      \* document_bytes, as max_allowed_packet may give it
    BatchTarget, \* SEARCH_BATCH_BYTES
    PageLimits   \* the LIMIT of the page query

Hashes == 1 .. N

ASSUME IndexAssumption ==
    /\ N \in Nat \ {0}
    /\ {Overhead, BatchTarget} \cup Limits \cup PageLimits \subseteq Nat \ {0}
    /\ NameBytes \in [Hashes -> Nat]
    /\ PathBytes \in [Hashes -> Nat]

VARIABLES
    torrents,  \* the row of each hash and whether it has rows in files
    documents, \* search_documents
    limit,     \* document_bytes, from the server's max_allowed_packet
    rebuild,   \* the rebuild command
    exact      \* ghost: a rebuild has completed

index == <<torrents, documents, limit, rebuild, exact>>

NoRow == [present |-> FALSE, complete |-> FALSE, named |-> FALSE, files |-> FALSE]
Bare == [present |-> TRUE, complete |-> FALSE, named |-> FALSE, files |-> FALSE]
Full == [present |-> TRUE, complete |-> TRUE, named |-> TRUE, files |-> TRUE]
\* Rows that today's program does not write: paths without metadata, and
\* metadata without a name.
FilesOnly == [present |-> TRUE, complete |-> FALSE, named |-> FALSE, files |-> TRUE]
Unnamed == [present |-> TRUE, complete |-> TRUE, named |-> FALSE, files |-> FALSE]
Rows == {NoRow, Bare, Full, FilesOnly, Unnamed}

NoDocument == [name |-> FALSE, paths |-> FALSE]
Documents == [name : BOOLEAN, paths : BOOLEAN]

------------------------------------------------------------------------------
(***************************************************************************)
(* The document builder, and its use in ingestion.                         *)
(***************************************************************************)
HasName(row) == row.complete /\ row.named

Length(h, document) ==
    Overhead + (IF document.name THEN NameBytes[h] ELSE 0)
             + (IF document.paths THEN PathBytes[h] ELSE 0)

\* The document of a row; there is none if it has neither name nor files.
search_document(row) == [name |-> HasName(row), paths |-> row.files]
TooLarge(h, row, budget) == Length(h, search_document(row)) > budget

batch_bytes(budget) == IF budget < BatchTarget THEN budget ELSE BatchTarget

Idle == rebuild.step = "idle"

\* commit_metadata with refresh_search; a document that is too large rolls the
\* transaction back.
CommitMetadata(h) ==
    /\ Idle
    /\ ~TooLarge(h, Full, limit)
    /\ torrents' = [torrents EXCEPT ![h] = Full]
    /\ documents' = [documents EXCEPT ![h] = search_document(Full)]
    /\ UNCHANGED <<limit, rebuild, exact>>

\* A hash is heard of for the first time.
Discover(h) ==
    /\ Idle
    /\ torrents[h] = NoRow
    /\ torrents' = [torrents EXCEPT ![h] = Bare]
    /\ UNCHANGED <<documents, limit, rebuild, exact>>

\* prune_old_torrents; the foreign key deletes the document.
Prune(h) ==
    /\ Idle
    /\ torrents[h] # NoRow
    /\ torrents' = [torrents EXCEPT ![h] = NoRow]
    /\ documents' = [documents EXCEPT ![h] = NoDocument]
    /\ UNCHANGED <<limit, rebuild, exact>>

\* The administrator changes max_allowed_packet.
ChangeLimit ==
    /\ Idle
    /\ limit' \in Limits
    /\ UNCHANGED <<torrents, documents, rebuild, exact>>

------------------------------------------------------------------------------
(***************************************************************************)
(* rebuild_search_index.  The ghost `had' keeps the hashes that had a      *)
(* document when the rebuild began.                                        *)
(***************************************************************************)
NoRebuild == [step |-> "idle", after |-> 0, page |-> {}, batch |-> <<>>,
              budget |-> 0, most |-> 0, had |-> {}]

BatchBytes(r) == FoldLeft(LAMBDA sum, d : sum + Length(d.hash, d.document), 0, r.batch)

RebuildBegins ==
    /\ Idle
    /\ \E most \in PageLimits :
        rebuild' = [NoRebuild EXCEPT !.step = "obsolete", !.budget = limit, !.most = most,
                                     !.had = {h \in Hashes : documents[h] # NoDocument}]
    /\ UNCHANGED <<torrents, documents, limit, exact>>

\* The documents of rows without a name and without files are deleted.
DeleteObsolete ==
    /\ rebuild.step = "obsolete"
    /\ documents' = [h \in Hashes |->
                        IF torrents[h].present /\ ~HasName(torrents[h]) /\ ~torrents[h].files
                        THEN NoDocument ELSE documents[h]]
    /\ rebuild' = [rebuild EXCEPT !.step = "page"]
    /\ UNCHANGED <<torrents, limit, exact>>

First(k, S) == {h \in S : Cardinality({g \in S : g < h}) < k}

\* The page query: the first of those with a name and of those with files.
Page_named_only(after, k) == First(k, {h \in Hashes : HasName(torrents[h]) /\ h > after})
Page_inclusive(after, k) ==
    First(k, First(k, {h \in Hashes : HasName(torrents[h]) /\ h >= after})
             \cup First(k, {h \in Hashes : torrents[h].files /\ h >= after}))
Page(after, k) ==
    First(k, First(k, {h \in Hashes : HasName(torrents[h]) /\ h > after})
             \cup First(k, {h \in Hashes : torrents[h].files /\ h > after}))

\* The rebuild ends when the page is empty; analyze does not touch the rows.
FetchPage ==
    LET page == Page(rebuild.after, rebuild.most)
    IN  /\ rebuild.step = "page"
        /\ IF page = {}
           THEN rebuild' = NoRebuild /\ exact' = TRUE
           ELSE /\ rebuild' = [rebuild EXCEPT !.step = "build", !.page = page, !.after = Max(page)]
                /\ UNCHANGED exact
        /\ UNCHANGED <<torrents, documents, limit>>

\* The next document of the page joins the batch, which is written first when
\* the document would not fit.  A document that is too large fails the command.
Joined_past_target(r, d) ==
    LET grown == [r EXCEPT !.batch = Append(@, d), !.page = @ \ {d.hash}]
    IN  [grown EXCEPT !.step = IF grown.page = {} THEN "write" ELSE "build"]
Joined(r, d) ==
    LET grown == [r EXCEPT !.batch = Append(@, d), !.page = @ \ {d.hash}]
    IN  IF r.batch # <<>> /\ BatchBytes(grown) > batch_bytes(r.budget)
        THEN [r EXCEPT !.step = "write"]
        ELSE [grown EXCEPT !.step =
                IF grown.page = {} \/ BatchBytes(grown) >= batch_bytes(r.budget)
                THEN "write" ELSE "build"]

BuildDocument ==
    /\ rebuild.step = "build"
    /\ LET h == Min(rebuild.page)
           row == torrents[h]
       IN  rebuild' = IF TooLarge(h, row, rebuild.budget) THEN NoRebuild
                      ELSE Joined(rebuild, [hash |-> h, document |-> search_document(row)])
    /\ UNCHANGED <<torrents, documents, limit, exact>>

replace_search_documents ==
    /\ rebuild.step = "write"
    /\ documents' = [h \in Hashes |->
                        IF \E d \in Range(rebuild.batch) : d.hash = h
                        THEN (CHOOSE d \in Range(rebuild.batch) : d.hash = h).document
                        ELSE documents[h]]
    /\ rebuild' = [rebuild EXCEPT !.batch = <<>>,
                                  !.step = IF rebuild.page = {} THEN "page" ELSE "build"]
    /\ UNCHANGED <<torrents, limit, exact>>

RebuildFails ==
    /\ ~Idle
    /\ rebuild' = NoRebuild
    /\ UNCHANGED <<torrents, documents, limit, exact>>

RebuildStep == DeleteObsolete \/ FetchPage \/ BuildDocument \/ replace_search_documents

------------------------------------------------------------------------------
(***************************************************************************)
(* search_torrents_filtered_page.  The order of the results is that of the *)
(* hashes; a query is for text in names, for text in paths, or empty.      *)
(***************************************************************************)
Matches(query, h) ==
    /\ torrents[h].present
    /\ query = "name" => documents[h].name
    /\ query = "paths" => documents[h].paths

\* ORDER BY.  Every sort of the API ends in the hash, so the order is total.
InOrder(S) ==
    CHOOSE s \in [1 .. Cardinality(S) -> S] :
        Range(s) = S /\ \A i, j \in DOMAIN s : i < j => s[i] < s[j]

search_torrents_filtered_page(query, complete_only, most, offset) ==
    LET rows == InOrder({h \in Hashes : Matches(query, h)
                                         /\ (complete_only => torrents[h].complete)})
        selected == SubSeq(rows, offset + 1,
                           IF offset + most + 1 < Len(rows) THEN offset + most + 1 ELSE Len(rows))
    IN  [results |-> SubSeq(selected, 1, IF Len(selected) > most THEN most ELSE Len(selected)),
         has_next |-> Len(selected) > most]

------------------------------------------------------------------------------
IndexInit ==
    /\ torrents \in [Hashes -> Rows]
    /\ documents \in {d \in [Hashes -> Documents] :
                        \A h \in Hashes : torrents[h] = NoRow => d[h] = NoDocument}
    /\ limit \in Limits
    /\ rebuild = NoRebuild
    /\ exact = FALSE

Ingest == \E h \in Hashes : CommitMetadata(h) \/ Discover(h) \/ Prune(h)
==============================================================================
