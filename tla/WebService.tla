------------------------------ MODULE WebService ------------------------------
(***************************************************************************)
(* `btfind serve': the requests of the web API (src/web.rs), the windows   *)
(* of its metrics (src/metrics.rs) and its shutdown (src/main.rs), over    *)
(* the catalogue and the search documents of SearchIndex.                  *)
(*                                                                         *)
(* A handler is dropped only where it awaits: by the deadline or because   *)
(* its client has gone.  From its answer to the end of record_request      *)
(* there is no await, but the threads of other requests, and the reporter, *)
(* may run between any two steps.  A status is reduced to its class.       *)
(*                                                                         *)
(* The services are stopped while a rebuild runs (README.md), and the web  *)
(* service may be killed, which loses its window.  Requests is a bound:    *)
(* each occurs at most once in the life of a web process.                  *)
(***************************************************************************)
EXTENDS SearchIndex

CONSTANTS
    Requests, \* requests to one web process
    Routes    \* the routes that are requested

AllRoutes == {"static", "stats", "search", "torrent", "files", "magnet", "unmatched"}

ASSUME WebAssumption == Routes \subseteq AllRoutes /\ IsFiniteSet(Requests)

VARIABLES
    web,      \* the web process
    requests, \* where each request is and, once answered, with what
    active,   \* active_requests
    window,   \* WebWindow
    emitted   \* ghost: what the windows emitted so far add up to

webvars == <<web, requests, active, window, emitted>>
vars == <<index, webvars>>

Classes == {"2xx", "4xx", "5xx"}
Counters == Classes \cup {"database_errors"}
NewWindow == [c \in Counters |-> 0]

\* `failed' is a ghost: the handler called database_error.
NoRequest == [step |-> "none", route |-> "", class |-> "", failed |-> FALSE]
Awaiting == {"handling", "checked"}
Open(r) == requests[r].step \in Awaiting \cup {"answered", "recorded"}

------------------------------------------------------------------------------
(***************************************************************************)
(* Metrics.                                                                *)
(***************************************************************************)
Count(counter) == window' = [window EXCEPT ![counter] = @ + 1]
record_database_error == Count("database_errors")

end_request == active' = IF active > 0 THEN active - 1 ELSE 0

\* snapshot_and_reset, and the sums of its emission.
emit ==
    /\ emitted' = [c \in Counters |-> emitted[c] + window[c]]
    /\ window' = NewWindow

------------------------------------------------------------------------------
(***************************************************************************)
(* A request.                                                              *)
(***************************************************************************)
begin_active_request(r) ==
    \E route \in Routes :
        /\ web = "running"
        /\ requests[r] = NoRequest
        /\ requests' = [requests EXCEPT ![r].step = "handling", ![r].route = route]
        /\ active' = active + 1
        /\ UNCHANGED <<web, window, emitted>>

Respond(r, class) ==
    requests' = [requests EXCEPT ![r] = [NoRequest EXCEPT !.step = "answered", !.class = class]]

\* The answers that need no database: the dashboard, an unknown path, and the
\* parameters that validate_search_filters, validate_sort, search_query and
\* validate_info_hash_hex refuse.
AnswerDirectly(r) ==
    /\ requests[r].step = "handling"
    /\ CASE requests[r].route = "static" -> Respond(r, "2xx")
         [] requests[r].route \in {"search", "torrent", "files", "magnet", "unmatched"} ->
                Respond(r, "4xx")
         [] OTHER -> FALSE
    /\ UNCHANGED <<web, active, window, emitted>>

Queries(r) == requests[r].step \in Awaiting /\ requests[r].route \notin {"static", "unmatched"}

\* A query succeeds.  api_torrent_files makes a second one if the torrent is
\* there.
QueryReturns(r) ==
    /\ Queries(r)
    /\ \E h \in Hashes :
        IF requests[r].step = "checked" THEN Respond(r, "2xx")
        ELSE CASE requests[r].route \in {"torrent", "files"} /\ ~torrents[h].present -> Respond(r, "4xx")
               [] requests[r].route = "files" /\ torrents[h].present ->
                    requests' = [requests EXCEPT ![r].step = "checked"]
               [] OTHER -> Respond(r, "2xx")
    /\ UNCHANGED <<web, active, window, emitted>>

database_error(r) ==
    /\ Queries(r)
    /\ record_database_error
    /\ requests' = [requests EXCEPT ![r] = [NoRequest EXCEPT !.step = "answered", !.class = "5xx",
                                                             !.failed = TRUE]]
    /\ UNCHANGED <<web, active, emitted>>

\* Ten seconds have passed.
request_deadline(r) ==
    /\ requests[r].step \in Awaiting
    /\ Respond(r, "5xx")
    /\ UNCHANGED <<web, active, window, emitted>>

\* The client has gone: the handler is dropped, its guard with it.
Disconnect(r) ==
    /\ requests[r].step \in Awaiting
    /\ requests' = [requests EXCEPT ![r] = [NoRequest EXCEPT !.step = "done"]]
    /\ end_request
    /\ UNCHANGED <<web, window, emitted>>

record_request(r) ==
    /\ requests[r].step = "answered"
    /\ requests' = [requests EXCEPT ![r].step = "recorded"]
    /\ Count(requests[r].class)
    /\ UNCHANGED <<web, active, emitted>>

\* ActiveRequestGuard is dropped.
ReleaseGuard(r) ==
    /\ requests[r].step = "recorded"
    /\ requests' = [requests EXCEPT ![r].step = "done"]
    /\ end_request
    /\ UNCHANGED <<web, window, emitted>>

------------------------------------------------------------------------------
(***************************************************************************)
(* cmd_serve.                                                              *)
(***************************************************************************)
NewProcess(state) ==
    /\ web' = state
    /\ requests' = [r \in Requests |-> NoRequest]
    /\ active' = 0
    /\ window' = NewWindow
    /\ emitted' = NewWindow

\* A bound, not a guard of the code: the service starts on rebuilt documents.
Serve == web = "stopped" /\ Idle /\ exact /\ NewProcess("running")

run_web_reporter ==
    /\ web \in {"running", "draining"}
    /\ emit
    /\ UNCHANGED <<web, requests, active>>

shutdown_signal ==
    /\ web = "running"
    /\ web' = "draining"
    /\ UNCHANGED <<requests, active, window, emitted>>

\* The server returns once no request is open; the reporter is aborted and the
\* last window emitted.
Drained_without_emit ==
    /\ web = "draining"
    /\ \A r \in Requests : ~Open(r)
    /\ web' = "ended"
    /\ UNCHANGED <<requests, active, window, emitted>>
Drained ==
    /\ web = "draining"
    /\ \A r \in Requests : ~Open(r)
    /\ emit
    /\ web' = "ended"
    /\ UNCHANGED <<requests, active>>

Exit == web = "ended" /\ NewProcess("stopped")
Kill == web \in {"running", "draining"} /\ NewProcess("stopped")

------------------------------------------------------------------------------
Init ==
    /\ IndexInit
    /\ web = "stopped"
    /\ requests = [r \in Requests |-> NoRequest]
    /\ active = 0
    /\ window = NewWindow
    /\ emitted = NewWindow

Request(r) ==
    \/ begin_active_request(r) \/ AnswerDirectly(r) \/ QueryReturns(r) \/ database_error(r)
    \/ request_deadline(r) \/ Disconnect(r) \/ record_request(r) \/ ReleaseGuard(r)

WebStep ==
    /\ \/ \E r \in Requests : Request(r)
       \/ Serve \/ run_web_reporter \/ shutdown_signal \/ Drained \/ Exit \/ Kill
    /\ UNCHANGED index

IndexStep ==
    /\ \/ Ingest \/ ChangeLimit \/ RebuildStep \/ RebuildFails
       \/ web = "stopped" /\ RebuildBegins
    /\ UNCHANGED webvars

Next == WebStep \/ IndexStep

\* The timer of the deadline, the thread of an answered request and the rebuild
\* command go on; nobody has to send a request, a signal or a command, and the
\* database owes no answer.  axum's graceful shutdown also waits for connections
\* whose client does not read its answer: it may never return although every
\* request has ended, and only the service manager bounds it
\* (TimeoutStopSec=45 of btfind-web.service, then Kill).
StopTimeout == web = "draining" /\ Kill
Finish(r) == request_deadline(r) \/ record_request(r) \/ ReleaseGuard(r)
Fairness ==
    /\ \A r \in Requests : WF_vars(Finish(r) /\ UNCHANGED index)
    /\ WF_vars((Drained \/ StopTimeout \/ Exit) /\ UNCHANGED index)
    /\ WF_vars(RebuildStep /\ UNCHANGED webvars)

Spec == Init /\ [][Next]_vars /\ Fairness

------------------------------------------------------------------------------
(***************************************************************************)
(* Properties.                                                             *)
(***************************************************************************)
\* The types; and the write a rebuild prepares fits into the packet limit the
\* rebuild has read (rebuild_search_index flushes before a document that would
\* exceed the target, and a larger document is written alone).
TypeOK ==
    /\ torrents \in [Hashes -> Rows]
    /\ documents \in [Hashes -> Documents]
    /\ limit \in Limits
    /\ rebuild.step \in {"idle", "obsolete", "page", "build", "write"}
    /\ BatchBytes(rebuild) <= rebuild.budget
    /\ web \in {"stopped", "running", "draining", "ended"}
    /\ \A r \in Requests : requests[r].class \in Classes \cup {""}
    /\ window \in [Counters -> Nat]
    /\ emitted \in [Counters -> Nat]
    /\ active \in Nat

Found(query, complete_only) ==
    {h \in Hashes : /\ torrents[h].present
                    /\ query = "name" => HasName(torrents[h])
                    /\ query = "paths" => torrents[h].files
                    /\ complete_only => torrents[h].complete}

\* What a client reads that follows has_next from page to page of `most'.
Followed(query, complete_only, most) ==
    LET page(k) == search_torrents_filtered_page(query, complete_only, most, k * most)
        reached == {k \in 0 .. N : \A j \in 0 .. k - 1 : page(j).has_next}
    IN  FlattenSeq([i \in 1 .. Cardinality(reached) |-> page(i - 1).results])

\* Once a rebuild has completed, and whatever has been ingested or pruned and
\* whichever rebuilds have failed since, the documents are those of the rows,
\* and a client that follows has_next reads every torrent with the text it asks
\* for exactly once, none else.  And a rebuild that is running, or fails, never
\* leaves a torrent with content without the document it had.
IndexSound ==
    /\ exact => \A query \in {"", "name", "paths"}, complete_only \in BOOLEAN, most \in PageLimits :
                    Followed(query, complete_only, most) = InOrder(Found(query, complete_only))
    /\ \A h \in rebuild.had :
        HasName(torrents[h]) \/ torrents[h].files => documents[h] # NoDocument

\* The windows a web process emits add up to what it answered: every recorded
\* request and every database error is in exactly one window, however the
\* reporter interleaves with the requests; the gauge counts the open requests,
\* those cut off by their deadline or by their client included; and a process
\* that shuts down in order has emitted everything, with a 5xx for every
\* database error.
WindowsAccount ==
    /\ \A c \in Classes :
        emitted[c] + window[c] = Cardinality({r \in Requests : /\ requests[r].class = c
                                                               /\ requests[r].step # "answered"})
    /\ emitted["database_errors"] + window["database_errors"]
        = Cardinality({r \in Requests : requests[r].failed})
    /\ active = Cardinality({r \in Requests : Open(r)})
    /\ web = "ended" => /\ window = NewWindow
                        /\ active = 0
                        /\ emitted["database_errors"] <= emitted["5xx"]

\* Every request ends, even if the database never answers (request_deadline);
\* a shutdown ends, drained or killed by the service manager; and so does every
\* rebuild, as its pages move on.
RequestsAndRebuildsEnd ==
    /\ \A r \in Requests : Open(r) ~> ~Open(r)
    /\ web = "draining" ~> web = "stopped"
    /\ ~Idle ~> Idle
==============================================================================
