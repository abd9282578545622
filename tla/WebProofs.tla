------------------------------ MODULE WebProofs ------------------------------
(***************************************************************************)
(* Proofs about WebService and the search documents below it, for every    *)
(* set of requests, any number of hashes, any lengths of names and paths   *)
(* and any limits: the windows add up to what was answered, however        *)
(* requests, reporter and shutdown interleave; once a rebuild has          *)
(* completed the documents are those of the rows and a client that follows *)
(* the pages of a search reads every match once, a rebuild that fails      *)
(* loses nothing, and every write fits into its packet.                    *)
(***************************************************************************)
EXTENDS WebService, SelectionProofs

(***************************************************************************)
(* The inductive invariant.                                                *)
(***************************************************************************)
Steps == {"none", "handling", "checked", "answered", "recorded", "done"}
RequestType == [step : Steps, route : AllRoutes \cup {""}, class : Classes \cup {""},
                failed : BOOLEAN]

\* What one request contributes: its class once it is recorded, a database
\* error, an open request.
Counted(q, c) == q.class = c /\ q.step # "answered"
IsOpen(q) == q.step \in Awaiting \cup {"answered", "recorded"}

\* A request has no status before it is answered, and a database error is
\* answered by a 5xx.
RequestInv(q) ==
    /\ q \in RequestType
    /\ q.step \in {"none"} \cup Awaiting => q.class = "" /\ ~q.failed
    /\ q.step \in {"answered", "recorded"} => q.class \in Classes
    /\ q.failed => q.class = "5xx"

CountedSet(c) == {r \in Requests : Counted(requests[r], c)}
FailedSet == {r \in Requests : requests[r].failed}
OpenSet == {r \in Requests : IsOpen(requests[r])}

WebType ==
    /\ web \in {"stopped", "running", "draining", "ended"}
    /\ requests = [r \in Requests |-> requests[r]]
    /\ \A r \in Requests : RequestInv(requests[r])
    /\ window \in [Counters -> Nat]
    /\ emitted \in [Counters -> Nat]
    /\ active \in Nat

Sums ==
    /\ \A c \in Classes : emitted[c] + window[c] = Cardinality(CountedSet(c))
    /\ emitted["database_errors"] + window["database_errors"] = Cardinality(FailedSet)
    /\ active = Cardinality(OpenSet)

\* A process that has ended left nothing open and nothing in its window.
EndInv ==
    web = "ended" => window = NewWindow /\ \A r \in Requests : ~IsOpen(requests[r])

IInv == WebType /\ Sums /\ EndInv

------------------------------------------------------------------------------
(***************************************************************************)
(* Counting requests.                                                      *)
(***************************************************************************)
\* How a count changes when one member may come or go.
Delta(before, after) ==
    IF after /\ ~before THEN 1 ELSE IF before /\ ~after THEN -1 ELSE 0

LEMMA CountMoves ==
    ASSUME NEW S \in SUBSET Requests, NEW T \in SUBSET Requests, NEW r \in Requests,
           \A x \in Requests : x # r => (x \in S <=> x \in T)
    PROVE  /\ Cardinality(S) \in Nat /\ Cardinality(T) \in Nat
           /\ Cardinality(T) = Cardinality(S) + Delta(r \in S, r \in T)
<1>1. IsFiniteSet(S) /\ IsFiniteSet(T)
  BY WebAssumption, FS_Subset
<1>2. Cardinality(S) \in Nat /\ Cardinality(T) \in Nat
  BY <1>1, FS_CardinalityType
<1>3. CASE r \in S <=> r \in T
  <2>1. S = T
    BY <1>3
  <2> QED
    BY <1>2, <1>3, <2>1 DEF Delta
<1>4. CASE r \in T /\ r \notin S
  <2>1. T = S \cup {r}
    BY <1>4
  <2>2. Cardinality(S \cup {r}) = Cardinality(S) + 1
    BY <1>1, <1>4, FS_AddElement
  <2> QED
    BY <1>2, <1>4, <2>1, <2>2 DEF Delta
<1>5. CASE r \in S /\ r \notin T
  <2>1. S = T \cup {r}
    BY <1>5
  <2>2. Cardinality(T \cup {r}) = Cardinality(T) + 1
    BY <1>1, <1>5, FS_AddElement
  <2> QED
    BY <1>2, <1>5, <2>1, <2>2 DEF Delta
<1> QED
  BY <1>3, <1>4, <1>5

\* One request moves on: what it contributes before and after is what the
\* window and the gauge are told.
LEMMA RequestMoves ==
    ASSUME IInv, NEW r \in Requests, NEW q, RequestInv(q), web # "ended",
           requests' = [requests EXCEPT ![r] = q], UNCHANGED <<web, emitted>>,
           window' \in [Counters -> Nat], active' \in Nat,
           \A c \in Classes : window'[c] = window[c] + Delta(Counted(requests[r], c), Counted(q, c)),
           window'["database_errors"] =
             window["database_errors"] + Delta(requests[r].failed, q.failed),
           active' = active + Delta(IsOpen(requests[r]), IsOpen(q))
    PROVE  IInv'
<1>1. /\ requests' = [x \in Requests |-> requests'[x]]
      /\ requests'[r] = q /\ \A x \in Requests : x # r => requests'[x] = requests[x]
  BY DEF IInv, WebType
<1>2. WebType'
  BY <1>1 DEF IInv, WebType
<1>3. EndInv'
  BY DEF EndInv
<1>4. ASSUME NEW c \in Classes
      PROVE  emitted'[c] + window'[c] = Cardinality(CountedSet(c)')
  <2> DEFINE S == CountedSet(c)  T == CountedSet(c)'
  <2>1. /\ S \in SUBSET Requests /\ T \in SUBSET Requests
        /\ \A x \in Requests : x # r => (x \in S <=> x \in T)
        /\ r \in S <=> Counted(requests[r], c)
        /\ r \in T <=> Counted(q, c)
    BY <1>1 DEF CountedSet
  <2> HIDE DEF S, T
  <2>2. /\ Cardinality(S) \in Nat /\ Cardinality(T) \in Nat
        /\ Cardinality(T) = Cardinality(S) + Delta(r \in S, r \in T)
    BY <2>1, CountMoves
  <2>3. Delta(r \in S, r \in T) = Delta(Counted(requests[r], c), Counted(q, c))
    BY <2>1 DEF Delta
  <2>4. emitted[c] + window[c] = Cardinality(S) /\ emitted[c] \in Nat /\ window[c] \in Nat
    BY DEF IInv, Sums, WebType, Counters, S
  <2>5. Delta(r \in S, r \in T) \in Int
    BY DEF Delta
  <2>6. emitted[c] + window'[c] = Cardinality(T)
    BY <2>2, <2>3, <2>4, <2>5
  <2> QED
    BY <2>6 DEF T
<1>5. emitted'["database_errors"] + window'["database_errors"] = Cardinality(FailedSet')
  <2> DEFINE S == FailedSet  T == FailedSet'  c == "database_errors"
  <2>1. /\ S \in SUBSET Requests /\ T \in SUBSET Requests
        /\ \A x \in Requests : x # r => (x \in S <=> x \in T)
        /\ r \in S <=> requests[r].failed
        /\ r \in T <=> q.failed
    BY <1>1 DEF FailedSet
  <2> HIDE DEF S, T
  <2>2. /\ Cardinality(S) \in Nat /\ Cardinality(T) \in Nat
        /\ Cardinality(T) = Cardinality(S) + Delta(r \in S, r \in T)
    BY <2>1, CountMoves
  <2>3. Delta(r \in S, r \in T) = Delta(requests[r].failed, q.failed)
    BY <2>1 DEF Delta
  <2>4. emitted[c] + window[c] = Cardinality(S) /\ emitted[c] \in Nat /\ window[c] \in Nat
    BY DEF IInv, Sums, WebType, Counters, S
  <2>5. Delta(r \in S, r \in T) \in Int
    BY DEF Delta
  <2>6. emitted[c] + window'[c] = Cardinality(T)
    BY <2>2, <2>3, <2>4, <2>5
  <2> QED
    BY <2>6 DEF T
<1>6. active' = Cardinality(OpenSet')
  <2> DEFINE S == OpenSet  T == OpenSet'
  <2>1. /\ S \in SUBSET Requests /\ T \in SUBSET Requests
        /\ \A x \in Requests : x # r => (x \in S <=> x \in T)
        /\ r \in S <=> IsOpen(requests[r])
        /\ r \in T <=> IsOpen(q)
    BY <1>1 DEF OpenSet
  <2> HIDE DEF S, T
  <2>2. Cardinality(T) = Cardinality(S) + Delta(r \in S, r \in T)
    BY <2>1, CountMoves
  <2>3. Delta(r \in S, r \in T) = Delta(IsOpen(requests[r]), IsOpen(q))
    BY <2>1 DEF Delta
  <2>4. active = Cardinality(S)
    BY DEF IInv, Sums, S
  <2>5. active' = Cardinality(T)
    BY <2>2, <2>3, <2>4
  <2> QED
    BY <2>5 DEF T
<1>7. Sums'
  BY <1>4, <1>5, <1>6 DEF Sums
<1> QED
  BY <1>2, <1>3, <1>7 DEF IInv

\* An open request keeps the gauge above zero.
LEMMA GaugePositive ==
    ASSUME IInv, NEW r \in Requests, IsOpen(requests[r])
    PROVE  active > 0 /\ active \in Nat
<1>1. r \in OpenSet /\ active = Cardinality(OpenSet)
  BY DEF OpenSet, IInv, Sums
<1>2. IsFiniteSet(OpenSet)
  <2>1. OpenSet \in SUBSET Requests
    BY DEF OpenSet
  <2> QED
    BY <2>1, WebAssumption, FS_Subset
<1>3. Cardinality(OpenSet) \in Nat /\ Cardinality(OpenSet) # 0
  BY <1>1, <1>2, FS_CardinalityType, FS_EmptySet
<1> QED
  BY <1>1, <1>3


------------------------------------------------------------------------------
(***************************************************************************)
(* The records of requests.                                                *)
(***************************************************************************)
LEMMA NoRequestFields ==
    /\ NoRequest \in RequestType /\ NoRequest.step = "none" /\ NoRequest.route = ""
    /\ NoRequest.class = "" /\ NoRequest.failed = FALSE
<1>1. NoRequest \in RequestType
  BY DEF NoRequest, RequestType, Steps
<1>2. /\ NoRequest.step = "none" /\ NoRequest.route = ""
      /\ NoRequest.class = "" /\ NoRequest.failed = FALSE
  BY DEF NoRequest
<1> QED
  BY <1>1, <1>2

\* A request that goes on keeps its status.
LEMMA StepFields ==
    ASSUME NEW p \in RequestType, NEW st \in Steps
    PROVE  /\ [p EXCEPT !.step = st] \in RequestType
           /\ [p EXCEPT !.step = st].step = st
           /\ [p EXCEPT !.step = st].class = p.class
           /\ [p EXCEPT !.step = st].failed = p.failed
<1> DEFINE q == [p EXCEPT !.step = st]
<1>1. q \in RequestType
  BY DEF RequestType
<1>2. q.step = st /\ q.class = p.class /\ q.failed = p.failed
  BY DEF RequestType
<1> QED
  BY <1>1, <1>2

LEMMA BeginFields ==
    ASSUME NEW p \in RequestType, NEW route \in AllRoutes
    PROVE  LET q == [p EXCEPT !.step = "handling", !.route = route]
           IN  /\ q \in RequestType /\ q.step = "handling"
               /\ q.class = p.class /\ q.failed = p.failed
<1> DEFINE st == "handling"  q == [p EXCEPT !.step = st, !.route = route]
<1>1. st \in Steps /\ route \in AllRoutes \cup {""}
  BY DEF Steps
<1> HIDE DEF st
<1>2. q \in RequestType
  BY <1>1 DEF RequestType
<1>3. q.step = st /\ q.class = p.class /\ q.failed = p.failed
  BY DEF RequestType
<1> HIDE DEF q
<1>4. q \in RequestType /\ q.step = "handling" /\ q.class = p.class /\ q.failed = p.failed
  BY <1>2, <1>3 DEF st
<1> QED
  BY <1>4 DEF q, st

\* A request that is answered.
LEMMA AnswerFields ==
    ASSUME NEW cls \in Classes, NEW bad \in BOOLEAN
    PROVE  LET q == [NoRequest EXCEPT !.step = "answered", !.class = cls, !.failed = bad]
           IN  /\ q \in RequestType /\ q.step = "answered" /\ q.class = cls /\ q.failed = bad
<1> DEFINE p == NoRequest  st == "answered"
           q == [p EXCEPT !.step = st, !.class = cls, !.failed = bad]
<1>1. st \in Steps /\ cls \in Classes \cup {""} /\ p \in RequestType
  BY NoRequestFields DEF Steps
<1> HIDE DEF st, p
<1>2. q \in RequestType
  BY <1>1 DEF RequestType
<1>3. q.step = st /\ q.class = cls /\ q.failed = bad
  BY <1>1 DEF RequestType
<1> HIDE DEF q
<1>4. q \in RequestType /\ q.step = "answered" /\ q.class = cls /\ q.failed = bad
  BY <1>2, <1>3 DEF st
<1> QED
  BY <1>4, Zenon DEF q, st, p

LEMMA RespondFields ==
    ASSUME NEW cls \in Classes
    PROVE  LET q == [NoRequest EXCEPT !.step = "answered", !.class = cls]
           IN  /\ q \in RequestType /\ q.step = "answered" /\ q.class = cls /\ q.failed = FALSE
<1> DEFINE p == NoRequest  st == "answered"
           q == [p EXCEPT !.step = st, !.class = cls]
<1>1. st \in Steps /\ cls \in Classes \cup {""} /\ p \in RequestType /\ p.failed = FALSE
  BY NoRequestFields DEF Steps
<1> HIDE DEF st, p
<1>2. q \in RequestType
  BY <1>1 DEF RequestType
<1>3. q.step = st /\ q.class = cls /\ q.failed = p.failed
  BY <1>1 DEF RequestType
<1> HIDE DEF q
<1>4. q \in RequestType /\ q.step = "answered" /\ q.class = cls /\ q.failed = FALSE
  BY <1>1, <1>2, <1>3 DEF st
<1> QED
  BY <1>4, Zenon DEF q, st, p

\* An open request: its process has not ended, and what it contributes.
LEMMA OpenRequest ==
    ASSUME IInv, NEW r \in Requests, IsOpen(requests[r])
    PROVE  /\ web # "ended" /\ RequestInv(requests[r]) /\ requests[r] \in RequestType
           /\ requests[r].failed \in BOOLEAN
           /\ requests[r].step \in Awaiting =>
                requests[r].class = "" /\ requests[r].failed = FALSE
           /\ active > 0 /\ active \in Nat
           /\ window \in [Counters -> Nat]
<1>1. RequestInv(requests[r]) /\ window \in [Counters -> Nat]
  BY DEF IInv, WebType
<1>2. web # "ended"
  BY DEF IInv, EndInv
<1>3. requests[r].failed \in BOOLEAN /\ requests[r] \in RequestType
  BY <1>1 DEF RequestInv, RequestType
<1>4. requests[r].step \in Awaiting => requests[r].class = "" /\ requests[r].failed = FALSE
  BY <1>1, <1>3 DEF RequestInv
<1> QED
  BY <1>1, <1>2, <1>3, <1>4, GaugePositive

------------------------------------------------------------------------------
(***************************************************************************)
(* Every step preserves the invariant.                                     *)
(***************************************************************************)
LEMMA BeginStep ==
    ASSUME IInv, NEW r \in Requests, begin_active_request(r)
    PROVE  IInv'
<1>1. PICK route \in Routes :
        /\ web = "running" /\ requests[r] = NoRequest
        /\ requests' = [requests EXCEPT ![r].step = "handling", ![r].route = route]
        /\ active' = active + 1
        /\ UNCHANGED <<web, window, emitted>>
  BY DEF begin_active_request
<1> DEFINE p == requests[r]
           q == [p EXCEPT !.step = "handling", !.route = route]
<1>2. requests' = [requests EXCEPT ![r] = q]
  BY <1>1 DEF IInv, WebType
<1>3. route \in AllRoutes
  BY WebAssumption
<1>4. p \in RequestType /\ p.step = "none" /\ p.class = "" /\ p.failed = FALSE
  BY <1>1, NoRequestFields
<1>5. q \in RequestType /\ q.step = "handling" /\ q.class = "" /\ q.failed = FALSE
  <2> HIDE DEF p
  <2>1. q \in RequestType /\ q.step = "handling" /\ q.class = p.class /\ q.failed = p.failed
    BY <1>3, <1>4, BeginFields, Zenon
  <2> QED
    BY <1>4, <2>1
<1> HIDE DEF q
<1>6. RequestInv(q)
  BY <1>5 DEF RequestInv
<1>7. /\ window \in [Counters -> Nat] /\ active \in Nat
      /\ \A c \in Counters : window[c] \in Nat
  BY DEF IInv, WebType
<1>8. /\ \A c \in Classes : Delta(Counted(p, c), Counted(q, c)) = 0
      /\ Delta(p.failed, q.failed) = 0 /\ Delta(IsOpen(p), IsOpen(q)) = 1
  BY <1>4, <1>5 DEF Delta, Counted, IsOpen, Awaiting, Classes
<1>9. /\ \A c \in Classes : window'[c] = window[c] + Delta(Counted(p, c), Counted(q, c))
      /\ window'["database_errors"] = window["database_errors"] + Delta(p.failed, q.failed)
      /\ active' = active + Delta(IsOpen(p), IsOpen(q))
  BY <1>1, <1>7, <1>8 DEF Counters
<1>10. web # "ended" /\ active' \in Nat /\ window' \in [Counters -> Nat]
  BY <1>1, <1>7
<1> QED
  BY <1>1, <1>2, <1>6, <1>9, <1>10, RequestMoves

LEMMA NothingAdded ==
    ASSUME NEW f \in [Counters -> Nat], NEW n \in Nat
    PROVE  (\A c \in Counters : f[c] + 0 = f[c]) /\ n + 0 = n
OBVIOUS

\* A handler goes on, or answers, without a database error: nothing is counted
\* yet.
LEMMA SilentMove ==
    ASSUME IInv, NEW r \in Requests, requests[r].step \in Awaiting,
           NEW q, RequestInv(q), IsOpen(q), ~q.failed, q.class = "" \/ q.step = "answered",
           requests' = [requests EXCEPT ![r] = q], UNCHANGED <<web, active, window, emitted>>
    PROVE  IInv'
<1> DEFINE p == requests[r]
<1>1. IsOpen(p)
  BY DEF IsOpen
<1>2. /\ web # "ended" /\ p.class = "" /\ p.failed = FALSE
      /\ active \in Nat /\ window \in [Counters -> Nat]
  BY <1>1, OpenRequest
<1>3. /\ \A c \in Classes : Delta(Counted(p, c), Counted(q, c)) = 0
      /\ Delta(p.failed, q.failed) = 0 /\ Delta(IsOpen(p), IsOpen(q)) = 0
  <2>1. \A c \in Classes : ~Counted(p, c) /\ ~Counted(q, c)
    BY <1>2 DEF Counted, Classes
  <2>2. ~p.failed
    BY <1>2
  <2> QED
    BY <1>1, <2>1, <2>2, Zenon DEF Delta
<1>4. (\A c \in Counters : window[c] + 0 = window[c]) /\ active + 0 = active
  BY <1>2, NothingAdded, Zenon
<1>5. /\ \A c \in Classes : window'[c] = window[c] + Delta(Counted(p, c), Counted(q, c))
      /\ window'["database_errors"] = window["database_errors"] + Delta(p.failed, q.failed)
      /\ active' = active + Delta(IsOpen(p), IsOpen(q))
  BY <1>3, <1>4, Zenon DEF Counters
<1> QED
  BY <1>2, <1>5, RequestMoves

LEMMA RespondStep ==
    ASSUME IInv, NEW r \in Requests, requests[r].step \in Awaiting,
           NEW cls \in Classes, Respond(r, cls), UNCHANGED <<web, active, window, emitted>>
    PROVE  IInv'
<1> DEFINE q == [NoRequest EXCEPT !.step = "answered", !.class = cls]
<1>1. requests' = [requests EXCEPT ![r] = q]
  BY DEF Respond
<1>2. q \in RequestType /\ q.step = "answered" /\ q.class = cls /\ q.failed = FALSE
  BY RespondFields, Zenon
<1> HIDE DEF q
<1>3. RequestInv(q) /\ IsOpen(q) /\ ~q.failed
  BY <1>2 DEF RequestInv, Awaiting, IsOpen
<1> QED
  BY <1>1, <1>2, <1>3, SilentMove

LEMMA DirectStep ==
    ASSUME IInv, NEW r \in Requests, AnswerDirectly(r)
    PROVE  IInv'
<1>1. requests[r].step \in Awaiting /\ UNCHANGED <<web, active, window, emitted>>
  BY DEF AnswerDirectly, Awaiting
<1>2. \E cls \in Classes : Respond(r, cls)
  BY DEF AnswerDirectly, Classes
<1> QED
  BY <1>1, <1>2, RespondStep

LEMMA DeadlineStep ==
    ASSUME IInv, NEW r \in Requests, request_deadline(r)
    PROVE  IInv'
<1>1. /\ requests[r].step \in Awaiting /\ UNCHANGED <<web, active, window, emitted>>
      /\ "5xx" \in Classes /\ Respond(r, "5xx")
  BY DEF request_deadline, Classes
<1> QED
  BY <1>1, RespondStep

LEMMA QueryStep ==
    ASSUME IInv, NEW r \in Requests, QueryReturns(r)
    PROVE  IInv'
<1>1. requests[r].step \in Awaiting /\ UNCHANGED <<web, active, window, emitted>>
  BY DEF QueryReturns, Queries
<1>2. \/ \E cls \in Classes : Respond(r, cls)
      \/ requests' = [requests EXCEPT ![r].step = "checked"]
  BY DEF QueryReturns, Classes
<1>3. CASE requests' = [requests EXCEPT ![r].step = "checked"]
  <2> DEFINE p == requests[r]
             q == [p EXCEPT !.step = "checked"]
  <2>1. requests' = [requests EXCEPT ![r] = q]
    BY <1>3
  <2>2. p \in RequestType /\ p.class = "" /\ p.failed = FALSE
    BY <1>1, OpenRequest DEF IsOpen
  <2>3. "checked" \in Steps
    BY DEF Steps
  <2>4. q \in RequestType /\ q.step = "checked" /\ q.class = "" /\ q.failed = FALSE
    <3> HIDE DEF p
    <3>1. q \in RequestType /\ q.step = "checked" /\ q.class = p.class /\ q.failed = p.failed
      BY <2>2, <2>3, StepFields, Zenon
    <3> QED
      BY <2>2, <3>1
  <2> HIDE DEF q
  <2>5. RequestInv(q) /\ IsOpen(q) /\ ~q.failed
    BY <2>4 DEF RequestInv, Awaiting, IsOpen
  <2> QED
    BY <1>1, <2>1, <2>4, <2>5, SilentMove
<1> QED
  BY <1>1, <1>2, <1>3, RespondStep

LEMMA DatabaseErrorStep ==
    ASSUME IInv, NEW r \in Requests, database_error(r)
    PROVE  IInv'
<1> DEFINE p == requests[r]
           d == "database_errors"
           q == [NoRequest EXCEPT !.step = "answered", !.class = "5xx", !.failed = TRUE]
<1>1. /\ p.step \in Awaiting /\ UNCHANGED <<web, active, emitted>>
      /\ window' = [window EXCEPT ![d] = @ + 1]
      /\ requests' = [requests EXCEPT ![r] = q]
  BY DEF database_error, Queries, record_database_error, Count
<1>2. IsOpen(p)
  BY <1>1 DEF IsOpen
<1>3. web # "ended" /\ p.class = "" /\ p.failed = FALSE
  BY <1>1, <1>2, OpenRequest
<1>4. active \in Nat /\ window \in [Counters -> Nat]
  BY <1>2, OpenRequest
<1>5. q \in RequestType /\ q.step = "answered" /\ q.class = "5xx" /\ q.failed = TRUE
  <2>1. "5xx" \in Classes /\ TRUE \in BOOLEAN
    BY DEF Classes
  <2> QED
    BY <2>1, AnswerFields, Zenon
<1> HIDE DEF q
<1>6. RequestInv(q) /\ IsOpen(q)
  BY <1>5 DEF RequestInv, Awaiting, IsOpen, Classes
<1>7. /\ \A c \in Classes : Delta(Counted(p, c), Counted(q, c)) = 0
      /\ Delta(p.failed, q.failed) = 1 /\ Delta(IsOpen(p), IsOpen(q)) = 0
  <2>1. \A c \in Classes : ~Counted(p, c) /\ ~Counted(q, c)
    BY <1>3, <1>5 DEF Counted, Classes
  <2>2. ~p.failed /\ q.failed
    BY <1>3, <1>5
  <2> QED
    BY <1>2, <1>6, <2>1, <2>2, Zenon DEF Delta
<1>8. /\ window' \in [Counters -> Nat] /\ window'[d] = window[d] + 1
      /\ \A c \in Classes : window'[c] = window[c] + 0
      /\ active + 0 = active
  <2>1. d \in Counters /\ \A c \in Classes : c \in Counters /\ c # d
    BY DEF Counters, Classes
  <2>2. window' = [window EXCEPT ![d] = window[d] + 1]
    BY <1>1, Zenon
  <2> HIDE DEF d
  <2>3. window[d] + 1 \in Nat
    BY <1>4, <2>1
  <2> QED
    BY <1>4, <2>1, <2>2, <2>3
<1>9. /\ \A c \in Classes : window'[c] = window[c] + Delta(Counted(p, c), Counted(q, c))
      /\ window'["database_errors"] = window["database_errors"] + Delta(p.failed, q.failed)
      /\ active' = active + Delta(IsOpen(p), IsOpen(q))
  BY <1>1, <1>7, <1>8, Zenon
<1> QED
  BY <1>1, <1>3, <1>4, <1>6, <1>8, <1>9, RequestMoves


\* The guard of a request is dropped: its client has gone, or it is recorded.
LEMMA GuardDropped ==
    ASSUME IInv, NEW r \in Requests, IsOpen(requests[r]),
           NEW q, RequestInv(q), ~IsOpen(q),
           \A c \in Classes : Counted(requests[r], c) <=> Counted(q, c),
           requests[r].failed <=> q.failed,
           requests' = [requests EXCEPT ![r] = q], end_request, UNCHANGED <<web, window, emitted>>
    PROVE  IInv'
<1> DEFINE p == requests[r]
<1>1. web # "ended" /\ active > 0 /\ active \in Nat /\ window \in [Counters -> Nat]
  BY OpenRequest
<1>2. active' = active + -1 /\ active' \in Nat
  <2>1. active > 0 /\ active \in Nat /\ active' = IF active > 0 THEN active - 1 ELSE 0
    BY <1>1 DEF end_request
  <2> QED
    BY <2>1
<1>3. /\ \A c \in Classes : Delta(Counted(p, c), Counted(q, c)) = 0
      /\ Delta(p.failed, q.failed) = 0 /\ Delta(IsOpen(p), IsOpen(q)) = -1
  BY Zenon DEF Delta
<1>4. (\A c \in Counters : window[c] + 0 = window[c]) /\ active + 0 = active
  BY <1>1, NothingAdded, Zenon
<1>5. /\ \A c \in Classes : window'[c] = window[c] + Delta(Counted(p, c), Counted(q, c))
      /\ window'["database_errors"] = window["database_errors"] + Delta(p.failed, q.failed)
      /\ active' = active + Delta(IsOpen(p), IsOpen(q))
  BY <1>2, <1>3, <1>4, Zenon DEF Counters
<1> QED
  BY <1>1, <1>2, <1>5, RequestMoves

LEMMA DisconnectStep ==
    ASSUME IInv, NEW r \in Requests, Disconnect(r)
    PROVE  IInv'
<1> DEFINE p == requests[r]
           q == [NoRequest EXCEPT !.step = "done"]
<1>1. /\ p.step \in Awaiting /\ requests' = [requests EXCEPT ![r] = q]
      /\ end_request /\ UNCHANGED <<web, window, emitted>>
  BY DEF Disconnect
<1>2. IsOpen(p)
  BY <1>1 DEF IsOpen
<1>3. p.class = "" /\ p.failed = FALSE
  BY <1>1, <1>2, OpenRequest
<1>4. q \in RequestType /\ q.step = "done" /\ q.class = "" /\ q.failed = FALSE
  <2>1. "done" \in Steps
    BY DEF Steps
  <2>2. /\ q \in RequestType /\ q.step = "done"
        /\ q.class = NoRequest.class /\ q.failed = NoRequest.failed
    BY <2>1, NoRequestFields, StepFields, Zenon
  <2> QED
    BY <2>2, NoRequestFields
<1> HIDE DEF q
<1>5. RequestInv(q) /\ ~IsOpen(q)
  BY <1>4 DEF RequestInv, IsOpen, Awaiting
<1>6. \A c \in Classes : ~Counted(p, c) /\ ~Counted(q, c)
  BY <1>3, <1>4 DEF Counted, Classes
<1>7. ~p.failed /\ ~q.failed
  BY <1>3, <1>4
<1> QED
  BY <1>1, <1>2, <1>5, <1>6, <1>7, GuardDropped

LEMMA ReleaseStep ==
    ASSUME IInv, NEW r \in Requests, ReleaseGuard(r)
    PROVE  IInv'
<1> DEFINE p == requests[r]
           q == [p EXCEPT !.step = "done"]
<1>1. /\ p.step = "recorded" /\ requests' = [requests EXCEPT ![r] = q]
      /\ end_request /\ UNCHANGED <<web, window, emitted>>
  BY DEF ReleaseGuard
<1>2. IsOpen(p)
  BY <1>1 DEF IsOpen
<1>3. RequestInv(p) /\ p \in RequestType
  BY <1>2, OpenRequest
<1>4. q \in RequestType /\ q.step = "done" /\ q.class = p.class /\ q.failed = p.failed
  <2>1. "done" \in Steps
    BY DEF Steps
  <2> HIDE DEF p
  <2> QED
    BY <1>3, <2>1, StepFields, Zenon
<1> HIDE DEF q
<1>5. RequestInv(q) /\ ~IsOpen(q)
  BY <1>3, <1>4 DEF RequestInv, IsOpen, Awaiting
<1>6. \A c \in Classes : Counted(p, c) <=> Counted(q, c)
  BY <1>1, <1>4 DEF Counted
<1>7. p.failed <=> q.failed
  BY <1>4
<1> QED
  BY <1>1, <1>2, <1>5, <1>6, <1>7, GuardDropped

LEMMA RecordStep ==
    ASSUME IInv, NEW r \in Requests, record_request(r)
    PROVE  IInv'
<1> DEFINE p == requests[r]
           d == p.class
           q == [p EXCEPT !.step = "recorded"]
<1>1. /\ p.step = "answered" /\ requests' = [requests EXCEPT ![r] = q]
      /\ window' = [window EXCEPT ![d] = @ + 1]
      /\ UNCHANGED <<web, active, emitted>>
  BY DEF record_request, Count
<1>2. IsOpen(p)
  BY <1>1 DEF IsOpen
<1>3. RequestInv(p) /\ p \in RequestType /\ web # "ended"
  BY <1>2, OpenRequest
<1>4. active \in Nat /\ window \in [Counters -> Nat]
  BY <1>2, OpenRequest
<1>5. d \in Classes
  BY <1>1, <1>3 DEF RequestInv
<1>6. q \in RequestType /\ q.step = "recorded" /\ q.class = d /\ q.failed = p.failed
  <2>1. "recorded" \in Steps
    BY DEF Steps
  <2>2. q \in RequestType /\ q.step = "recorded" /\ q.class = p.class /\ q.failed = p.failed
    <3> HIDE DEF p
    <3> QED
      BY <1>3, <2>1, StepFields, Zenon
  <2> QED
    BY <2>2, Zenon
<1> HIDE DEF q
<1>7. RequestInv(q) /\ IsOpen(q)
  BY <1>3, <1>5, <1>6 DEF RequestInv, IsOpen, Awaiting
<1>8. /\ \A c \in Classes : Delta(Counted(p, c), Counted(q, c)) = IF c = d THEN 1 ELSE 0
      /\ Delta(p.failed, q.failed) = 0 /\ Delta(IsOpen(p), IsOpen(q)) = 0
  <2>1. \A c \in Classes : ~Counted(p, c) /\ (Counted(q, c) <=> c = d)
    BY <1>1, <1>6 DEF Counted
  <2>2. p.failed <=> q.failed
    BY <1>6
  <2> QED
    BY <1>2, <1>7, <2>1, <2>2, Zenon DEF Delta
<1>9. /\ window' \in [Counters -> Nat]
      /\ \A c \in Classes : window'[c] = window[c] + (IF c = d THEN 1 ELSE 0)
      /\ window'["database_errors"] = window["database_errors"] + 0
      /\ active + 0 = active
  <2>1. /\ d \in Counters /\ \A c \in Classes : c \in Counters
        /\ "database_errors" \in Counters /\ d # "database_errors"
    BY <1>5 DEF Counters, Classes
  <2>2. window' = [window EXCEPT ![d] = window[d] + 1]
    BY <1>1, Zenon
  <2> HIDE DEF d
  <2>3. window[d] + 1 \in Nat
    BY <1>4, <2>1
  <2> QED
    BY <1>4, <2>1, <2>2, <2>3
<1>10. /\ \A c \in Classes : window'[c] = window[c] + Delta(Counted(p, c), Counted(q, c))
       /\ window'["database_errors"] = window["database_errors"] + Delta(p.failed, q.failed)
       /\ active' = active + Delta(IsOpen(p), IsOpen(q))
  BY <1>1, <1>8, <1>9, Zenon
<1> QED
  BY <1>1, <1>3, <1>4, <1>7, <1>9, <1>10, RequestMoves

\* A process without requests.
LEMMA EmptyCounts ==
    ASSUME requests = [r \in Requests |-> NoRequest]
    PROVE  /\ \A c \in Classes : Cardinality(CountedSet(c)) = 0
           /\ Cardinality(FailedSet) = 0 /\ Cardinality(OpenSet) = 0
           /\ \A r \in Requests : RequestInv(requests[r])
<1>1. \A r \in Requests : requests[r] = NoRequest
  OBVIOUS
<1>2. \A c \in Classes : CountedSet(c) = {}
  BY <1>1, NoRequestFields DEF CountedSet, Counted, Classes
<1>3. FailedSet = {} /\ OpenSet = {}
  BY <1>1, NoRequestFields DEF FailedSet, OpenSet, IsOpen, Awaiting
<1>4. RequestInv(NoRequest)
  BY NoRequestFields DEF RequestInv
<1>5. \A c \in Classes : Cardinality(CountedSet(c)) = 0
  BY <1>2, FS_EmptySet
<1>6. Cardinality(FailedSet) = 0 /\ Cardinality(OpenSet) = 0
  BY <1>3, FS_EmptySet
<1> QED
  BY <1>1, <1>4, <1>5, <1>6

LEMMA NewWindowFacts ==
    NewWindow \in [Counters -> Nat] /\ \A c \in Counters : NewWindow[c] = 0
BY DEF NewWindow

LEMMA FreshProcess ==
    ASSUME requests = [r \in Requests |-> NoRequest], active = 0, window = NewWindow,
           emitted = NewWindow, web \in {"stopped", "running"}
    PROVE  IInv
<1>1. /\ \A c \in Classes : Cardinality(CountedSet(c)) = 0
      /\ Cardinality(FailedSet) = 0 /\ Cardinality(OpenSet) = 0
      /\ \A r \in Requests : RequestInv(requests[r])
  BY EmptyCounts
<1>2. /\ window \in [Counters -> Nat] /\ emitted \in [Counters -> Nat]
      /\ \A c \in Counters : window[c] = 0 /\ emitted[c] = 0
  BY NewWindowFacts
<1>3. WebType
  <2>1. requests = [r \in Requests |-> requests[r]] /\ 0 \in Nat
    OBVIOUS
  <2> QED
    BY <1>1, <1>2, <2>1 DEF WebType
<1>4. Sums
  BY <1>1, <1>2 DEF Sums, Counters
<1>5. EndInv
  BY DEF EndInv
<1> QED
  BY <1>3, <1>4, <1>5 DEF IInv

\* What a process that starts, or has ended before it served, has counted.
Fresh ==
    /\ requests = [r \in Requests |-> NoRequest] /\ active = 0 /\ window = NewWindow
    /\ emitted = NewWindow /\ web \in {"stopped", "running"}

LEMMA FreshInv == Fresh => IInv
BY FreshProcess DEF Fresh

LEMMA FreshInvNext == Fresh' => IInv'
<1>1. (Fresh => IInv)'
  BY FreshInv, PTL
<1> QED
  BY <1>1

LEMMA NewProcessInv ==
    ASSUME NEW state \in {"stopped", "running"}, NewProcess(state)
    PROVE  IInv'
<1>1. Fresh'
  BY DEF NewProcess, Fresh
<1> QED
  BY <1>1, FreshInvNext

\* The window is emitted by the reporter, or by the end of the shutdown.
LEMMA EmitStep ==
    ASSUME IInv, emit, UNCHANGED <<requests, active>>,
           \/ UNCHANGED web /\ web # "ended"
           \/ web' = "ended" /\ \A r \in Requests : ~Open(r)
    PROVE  IInv'
<1>1. /\ emitted' = [c \in Counters |-> emitted[c] + window[c]] /\ window' = NewWindow
  BY DEF emit
<1>2. \A c \in Counters : emitted[c] \in Nat /\ window[c] \in Nat
  BY DEF IInv, WebType
<1>3. /\ emitted' \in [Counters -> Nat] /\ window' \in [Counters -> Nat]
      /\ \A c \in Counters : emitted'[c] + window'[c] = emitted[c] + window[c]
  BY <1>1, <1>2, NewWindowFacts
<1>4. WebType'
  BY <1>3 DEF IInv, WebType
<1>5. /\ \A c \in Classes : CountedSet(c)' = CountedSet(c)
      /\ FailedSet' = FailedSet /\ OpenSet' = OpenSet
  BY DEF CountedSet, FailedSet, OpenSet
<1>6. Sums'
  <2>1. /\ \A c \in Classes : emitted'[c] + window'[c] = emitted[c] + window[c]
        /\ emitted'["database_errors"] + window'["database_errors"]
             = emitted["database_errors"] + window["database_errors"]
    BY <1>3 DEF Counters
  <2> QED
    BY <1>5, <2>1, Zenon DEF IInv, Sums
<1>7. EndInv'
  BY <1>1 DEF EndInv, Open, IsOpen
<1> QED
  BY <1>4, <1>6, <1>7 DEF IInv

\* A step that touches neither requests nor metrics.
LEMMA QuietStep ==
    ASSUME IInv, UNCHANGED <<requests, active, window, emitted>>,
           \/ UNCHANGED web
           \/ web' = "draining"
    PROVE  IInv'
<1>1. WebType'
  BY DEF IInv, WebType
<1>2. /\ \A c \in Classes : CountedSet(c)' = CountedSet(c)
      /\ FailedSet' = FailedSet /\ OpenSet' = OpenSet
  BY DEF CountedSet, FailedSet, OpenSet
<1>3. Sums'
  BY <1>2, Zenon DEF IInv, Sums
<1>4. EndInv'
  BY DEF IInv, EndInv
<1> QED
  BY <1>1, <1>3, <1>4 DEF IInv

LEMMA Inductive ==
    ASSUME IInv, [Next]_vars
    PROVE  IInv'
<1>1. ASSUME NEW r \in Requests, Request(r) PROVE IInv'
  BY <1>1, BeginStep, DirectStep, QueryStep, DatabaseErrorStep, DeadlineStep, DisconnectStep,
     RecordStep, ReleaseStep DEF Request
<1>2. CASE Serve \/ Exit \/ Kill
  BY <1>2, NewProcessInv DEF Serve, Exit, Kill
<1>3. CASE run_web_reporter
  BY <1>3, EmitStep DEF run_web_reporter
<1>4. CASE shutdown_signal
  BY <1>4, QuietStep DEF shutdown_signal
<1>5. CASE Drained
  BY <1>5, EmitStep DEF Drained
<1>6. CASE IndexStep \/ UNCHANGED vars
  BY <1>6, QuietStep DEF IndexStep, vars, webvars
<1> QED
  BY <1>1, <1>2, <1>3, <1>4, <1>5, <1>6 DEF Next, WebStep

------------------------------------------------------------------------------
(***************************************************************************)
(* The theorems.                                                           *)
(***************************************************************************)
\* The invariant holds in every state of the web service.
THEOREM Invariance == Spec => []IInv
<1>1. Init => IInv
  BY FreshProcess DEF Init
<1>2. IInv /\ [Next]_vars => IInv'
  BY Inductive
<1> QED
  BY <1>1, <1>2, PTL DEF Spec

\* The windows add up to the requests that were answered and to the database
\* errors, the gauge counts the open requests, and an orderly shutdown has
\* emitted everything, however the threads of record_request, the reporter and
\* the shutdown interleave.
THEOREM WindowsAlwaysAccount == Spec => []WindowsAccount
<1>1. IInv => WindowsAccount
  <2> SUFFICES ASSUME IInv PROVE WindowsAccount
    OBVIOUS
  <2>1. \A c \in Classes :
          emitted[c] + window[c] = Cardinality({r \in Requests : /\ requests[r].class = c
                                                                 /\ requests[r].step # "answered"})
    BY Zenon DEF IInv, Sums, CountedSet, Counted
  <2>2. /\ emitted["database_errors"] + window["database_errors"]
             = Cardinality({r \in Requests : requests[r].failed})
        /\ active = Cardinality({r \in Requests : Open(r)})
    BY Zenon DEF IInv, Sums, FailedSet, OpenSet, IsOpen, Open
  <2>3. ASSUME web = "ended"
        PROVE  /\ window = NewWindow /\ active = 0
               /\ emitted["database_errors"] <= emitted["5xx"]
    <3>1. window = NewWindow /\ \A r \in Requests : ~IsOpen(requests[r])
      BY <2>3 DEF IInv, EndInv
    <3>2. active = 0
      <4>1. OpenSet = {}
        BY <3>1 DEF OpenSet
      <4> QED
        BY <4>1, FS_EmptySet DEF IInv, Sums
    <3>3. FailedSet \subseteq CountedSet("5xx")
      <4> SUFFICES ASSUME NEW r \in Requests, requests[r].failed
                   PROVE  Counted(requests[r], "5xx")
        BY DEF FailedSet, CountedSet
      <4>1. RequestInv(requests[r]) /\ ~IsOpen(requests[r])
        BY <3>1 DEF IInv, WebType
      <4> QED
        BY <4>1 DEF RequestInv, IsOpen, Counted
    <3>4. Cardinality(FailedSet) <= Cardinality(CountedSet("5xx"))
      <4>1. CountedSet("5xx") \in SUBSET Requests
        BY DEF CountedSet
      <4>2. IsFiniteSet(CountedSet("5xx"))
        BY <4>1, WebAssumption, FS_Subset
      <4> QED
        BY <3>3, <4>2, FS_Subset
    <3>5. /\ emitted["database_errors"] = Cardinality(FailedSet)
          /\ emitted["5xx"] = Cardinality(CountedSet("5xx"))
      <4>1. "5xx" \in Classes /\ "5xx" \in Counters /\ "database_errors" \in Counters
        BY DEF Classes, Counters
      <4>2. /\ emitted["database_errors"] + window["database_errors"] = Cardinality(FailedSet)
            /\ emitted["5xx"] + window["5xx"] = Cardinality(CountedSet("5xx"))
        BY <4>1 DEF IInv, Sums
      <4>3. /\ window["5xx"] = 0 /\ window["database_errors"] = 0
            /\ emitted["5xx"] \in Nat /\ emitted["database_errors"] \in Nat
        BY <3>1, <4>1, NewWindowFacts DEF IInv, WebType
      <4> QED
        BY <4>2, <4>3
    <3> QED
      BY <3>1, <3>2, <3>4, <3>5
  <2> QED
    BY <2>1, <2>2, <2>3 DEF WindowsAccount
<1> QED
  BY <1>1, Invariance, PTL

------------------------------------------------------------------------------
(***************************************************************************)
(* Least and greatest members.                                             *)
(***************************************************************************)
LEMMA MinIs ==
    ASSUME NEW S, S \subseteq Nat, S # {}
    PROVE  Min(S) \in S /\ \A y \in S : Min(S) <= y
<1>1. \E x \in S : \A y \in S : x <= y
  BY LeastNatural
<1> QED
  BY <1>1 DEF Min

LEMMA MaxIs ==
    ASSUME NEW n \in Nat, NEW S, S \subseteq 1 .. n, S # {}
    PROVE  Max(S) \in S /\ \A y \in S : y <= Max(S)
<1> DEFINE T == {n - x : x \in S}
<1>1. T \subseteq Nat /\ T # {}
  <2>1. \A x \in S : n - x \in Nat
    <3>1. \A x \in 1 .. n : n - x \in Nat
      OBVIOUS
    <3> QED
      BY <3>1
  <2> QED
    BY <2>1
<1>2. PICK m \in T : \A k \in T : m <= k
  <2> HIDE DEF T
  <2> QED
    BY <1>1, LeastNatural
<1>3. PICK x \in S : m = n - x
  OBVIOUS
<1>4. ASSUME NEW y \in S PROVE x >= y
  <2>1. n - y \in T
    OBVIOUS
  <2>2. n - x <= n - y
    BY <1>2, <1>3, <2>1
  <2> QED
    BY <2>2
<1>5. Max(S) \in S /\ \A y \in S : Max(S) >= y
  BY <1>4 DEF Max
<1> QED
  BY <1>5

------------------------------------------------------------------------------
(***************************************************************************)
(* The bytes of a batch: the fold, by the function it is defined with.     *)
(***************************************************************************)
Doc == [hash : Hashes, document : Documents]
DocBytes(d) == Length(d.hash, d.document)
BytesOf(b) == FoldLeft(LAMBDA sum, d : sum + Length(d.hash, d.document), 0, b)

Totalled(b, g, s) == IF s = {} THEN 0 ELSE g[s \ {Max(s)}] + DocBytes(b[Max(s)])
IsTotal(b, Sets, g) == g = [s \in Sets |-> Totalled(b, g, s)]

LEMMA BytesIs == ASSUME NEW r PROVE BatchBytes(r) = BytesOf(r.batch)
BY DEF BatchBytes, BytesOf

LEMMA FoldIs ==
    ASSUME NEW b
    PROVE  BytesOf(b) = (CHOOSE g : IsTotal(b, SUBSET DOMAIN b, g))[DOMAIN b]
BY DEF BytesOf, FoldLeft, MapThenFoldSet, IsTotal, Totalled, DocBytes

\* The function exists, by induction on the greatest member of the sets.
LEMMA Below ==
    ASSUME NEW n \in Nat, NEW s \in SUBSET (1 .. n), s # {}
    PROVE  n > 0 /\ s \ {Max(s)} \in SUBSET (1 .. n - 1) /\ s \ {Max(s)} \in SUBSET (1 .. n)
<1>1. Max(s) \in s /\ \A y \in s : y <= Max(s)
  BY MaxIs
<1>2. s \subseteq 1 .. n
  OBVIOUS
<1>3. Max(s) \in 1 .. n
  BY <1>1, <1>2
<1>4. ASSUME NEW y \in s \ {Max(s)} PROVE y \in 1 .. n - 1
  <2>1. y \in 1 .. n /\ y <= Max(s) /\ y # Max(s)
    BY <1>1, <1>2
  <2> QED
    BY <1>3, <2>1
<1>5. n > 0
  BY <1>3
<1>6. s \ {Max(s)} \subseteq 1 .. n - 1 /\ s \ {Max(s)} \subseteq 1 .. n
  BY <1>2, <1>4
<1> QED
  BY <1>5, <1>6

LEMMA TotalExists ==
    ASSUME NEW b, NEW n \in Nat
    PROVE  \E g : IsTotal(b, SUBSET (1 .. n), g)
<1> DEFINE T == {k \in Nat : ~\E g : IsTotal(b, SUBSET (1 .. k), g)}
<1> SUFFICES ASSUME T # {} PROVE FALSE
  OBVIOUS
<1>1. PICK k \in T : \A m \in T : k <= m
  <2>1. T \subseteq Nat
    OBVIOUS
  <2> HIDE DEF T
  <2> QED
    BY <2>1, LeastNatural
<1>2. k \in Nat
  OBVIOUS
<1>3. CASE k = 0
  <2> DEFINE g == [s \in SUBSET (1 .. k) |-> 0]
  <2>1. \A s \in SUBSET (1 .. k) : s = {}
    BY <1>3
  <2>2. \A s \in SUBSET (1 .. k) : Totalled(b, g, s) = 0
    BY <2>1 DEF Totalled
  <2>3. IsTotal(b, SUBSET (1 .. k), g)
    BY <2>2 DEF IsTotal
  <2> QED
    BY <2>3
<1>4. CASE k # 0
  <2>1. k - 1 \in Nat /\ ~(k <= k - 1)
    BY <1>2, <1>4
  <2>2. k - 1 \notin T
    BY <1>1, <2>1
  <2>3. PICK g : IsTotal(b, SUBSET (1 .. k - 1), g)
    BY <2>1, <2>2
  <2> DEFINE h == [s \in SUBSET (1 .. k) |-> Totalled(b, g, s)]
  <2>4. \A t \in SUBSET (1 .. k - 1) : t \in SUBSET (1 .. k) => h[t] = g[t]
    BY <2>3 DEF IsTotal
  <2>5. ASSUME NEW s \in SUBSET (1 .. k) PROVE Totalled(b, g, s) = Totalled(b, h, s)
    <3>1. CASE s = {}
      BY <3>1 DEF Totalled
    <3>2. CASE s # {}
      <4>1. s \ {Max(s)} \in SUBSET (1 .. k - 1) /\ s \ {Max(s)} \in SUBSET (1 .. k)
        BY <1>2, <3>2, Below
      <4>2. h[s \ {Max(s)}] = g[s \ {Max(s)}]
        BY <2>4, <4>1
      <4> HIDE DEF h
      <4> QED
        BY <3>2, <4>2 DEF Totalled
    <3> QED
      BY <3>1, <3>2
  <2>6. IsTotal(b, SUBSET (1 .. k), h)
    <3>1. PICK f : f = h
      OBVIOUS
    <3>2. \A s \in SUBSET (1 .. k) : Totalled(b, g, s) = Totalled(b, f, s)
      BY <2>5, <3>1
    <3>3. f = [s \in SUBSET (1 .. k) |-> Totalled(b, g, s)]
      BY <3>1
    <3>4. f = [s \in SUBSET (1 .. k) |-> Totalled(b, f, s)]
      BY <3>2, <3>3
    <3> QED
      BY <3>1, <3>4 DEF IsTotal
  <2> QED
    BY <2>6
<1> QED
  BY <1>3, <1>4

\* Along the sequence the function adds one document after the other.
Adds(b, n, g) ==
    /\ g[1 .. 0] = 0
    /\ \A k \in 0 .. n - 1 : g[1 .. k + 1] = g[1 .. k] + DocBytes(b[k + 1])

LEMMA TotalAdds ==
    ASSUME NEW b, NEW n \in Nat, NEW g, IsTotal(b, SUBSET (1 .. n), g)
    PROVE  Adds(b, n, g)
<1>1. \A s \in SUBSET (1 .. n) : g[s] = Totalled(b, g, s)
  BY DEF IsTotal
<1>2. g[1 .. 0] = 0
  <2>1. 1 .. 0 = {}
    OBVIOUS
  <2>2. g[{}] = Totalled(b, g, {})
    BY <1>1
  <2> QED
    BY <2>1, <2>2 DEF Totalled
<1>3. ASSUME NEW k \in 0 .. n - 1 PROVE g[1 .. k + 1] = g[1 .. k] + DocBytes(b[k + 1])
  <2> DEFINE s == 1 .. k + 1
  <2>1. s \in SUBSET (1 .. n) /\ s # {} /\ k + 1 \in Nat /\ s \subseteq 1 .. k + 1
    OBVIOUS
  <2>2. Max(s) \in s /\ \A y \in s : y <= Max(s)
    <3> HIDE DEF s
    <3> QED
      BY <2>1, MaxIs
  <2>3. Max(s) = k + 1
    BY <2>2
  <2>4. s \ {k + 1} = 1 .. k
    OBVIOUS
  <2>5. g[s] = Totalled(b, g, s)
    BY <1>1, <2>1
  <2> HIDE DEF s
  <2>6. g[s] = g[1 .. k] + DocBytes(b[k + 1])
    BY <2>1, <2>3, <2>4, <2>5 DEF Totalled
  <2> QED
    BY <2>6 DEF s
<1> QED
  BY <1>2, <1>3 DEF Adds

LEMMA BytesAdd ==
    ASSUME NEW D, NEW b \in Seq(D)
    PROVE  \E g : Adds(b, Len(b), g) /\ BytesOf(b) = g[1 .. Len(b)]
<1>1. DOMAIN b = 1 .. Len(b) /\ Len(b) \in Nat
  OBVIOUS
<1> DEFINE g == CHOOSE f : IsTotal(b, SUBSET (1 .. Len(b)), f)
<1>2. IsTotal(b, SUBSET (1 .. Len(b)), g)
  BY <1>1, TotalExists
<1>3. BytesOf(b) = g[1 .. Len(b)]
  BY <1>1, FoldIs
<1> HIDE DEF g
<1>4. Adds(b, Len(b), g)
  BY <1>1, <1>2, TotalAdds
<1> QED
  BY <1>3, <1>4

Agree(a, b, n) == \A i \in 1 .. n : a[i] = b[i]

\* Two sequences with a common beginning have the same sums along it.
LEMMA SameSums ==
    ASSUME NEW a, NEW b, NEW n \in Nat, NEW m \in Nat, n <= m, NEW f, NEW g,
           Adds(a, n, f), Adds(b, m, g), Agree(a, b, n)
    PROVE  f[1 .. n] = g[1 .. n]
<1> DEFINE T == {k \in Nat : k <= n /\ f[1 .. k] # g[1 .. k]}
<1>1. T = {}
  <2> SUFFICES ASSUME T # {} PROVE FALSE
    OBVIOUS
  <2>1. PICK k \in T : \A j \in T : k <= j
    <3>1. T \subseteq Nat
      OBVIOUS
    <3> HIDE DEF T
    <3> QED
      BY <3>1, LeastNatural
  <2>2. k \in Nat /\ k <= n /\ f[1 .. k] # g[1 .. k]
    OBVIOUS
  <2>3. k # 0
    BY <2>2 DEF Adds
  <2> DEFINE j == k - 1
  <2>4. j \in Nat /\ j <= n /\ ~(k <= j) /\ j + 1 = k
    BY <2>2, <2>3
  <2>5. f[1 .. j] = g[1 .. j]
    BY <2>1, <2>4
  <2> HIDE DEF j
  <2>6. j \in 0 .. n - 1 /\ j \in 0 .. m - 1 /\ j + 1 \in 1 .. n
    BY <2>2, <2>4
  <2>7. f[1 .. j + 1] = f[1 .. j] + DocBytes(a[j + 1])
    BY <2>6 DEF Adds
  <2>8. g[1 .. j + 1] = g[1 .. j] + DocBytes(b[j + 1])
    BY <2>6 DEF Adds
  <2>9. a[j + 1] = b[j + 1]
    BY <2>6 DEF Agree
  <2>10. f[1 .. j + 1] = g[1 .. j + 1]
    BY <2>5, <2>7, <2>8, <2>9, Zenon
  <2> QED
    BY <2>2, <2>4, <2>10
<1> QED
  BY <1>1

LEMMA EmptyBytes == BytesOf(<<>>) = 0
<1>1. <<>> \in Seq({}) /\ Len(<<>>) = 0
  OBVIOUS
<1>2. PICK g : Adds(<<>>, 0, g) /\ BytesOf(<<>>) = g[1 .. 0]
  BY <1>1, BytesAdd
<1> QED
  BY <1>2 DEF Adds

LEMMA AppendBytes ==
    ASSUME NEW b \in Seq(Doc), NEW d \in Doc
    PROVE  BytesOf(Append(b, d)) = BytesOf(b) + DocBytes(d)
<1> DEFINE c == Append(b, d)
           n == Len(b)
<1>1. /\ c \in Seq(Doc) /\ Len(c) = n + 1 /\ n \in Nat /\ c[n + 1] = d
      /\ Agree(b, c, n)
  BY DEF Agree
<1>2. PICK f : Adds(b, n, f) /\ BytesOf(b) = f[1 .. n]
  BY BytesAdd
<1> HIDE DEF c, n
<1>3. PICK g : Adds(c, n + 1, g) /\ BytesOf(c) = g[1 .. n + 1]
  BY <1>1, BytesAdd
<1>4. f[1 .. n] = g[1 .. n]
  <2>1. n + 1 \in Nat /\ n <= n + 1
    BY <1>1
  <2> QED
    BY <1>1, <1>2, <1>3, <2>1, SameSums
<1>5. g[1 .. n + 1] = g[1 .. n] + DocBytes(d)
  <2>1. n \in 0 .. (n + 1) - 1
    BY <1>1
  <2>2. g[1 .. n + 1] = g[1 .. n] + DocBytes(c[n + 1])
    BY <1>3, <2>1 DEF Adds
  <2> QED
    BY <1>1, <2>2
<1>6. BytesOf(c) = BytesOf(b) + DocBytes(d)
  BY <1>2, <1>3, <1>4, <1>5, Zenon
<1> QED
  BY <1>6 DEF c

------------------------------------------------------------------------------
(***************************************************************************)
(* The page query: the first k of a set, and of two sets.                  *)
(***************************************************************************)
Before(S, h) == {g \in S : g < h}

LEMMA FirstIs == ASSUME NEW k, NEW S PROVE First(k, S) = {h \in S : Cardinality(Before(S, h)) < k}
BY DEF First, Before

LEMMA HashesFinite ==
    /\ N \in Nat /\ Hashes = 1 .. N /\ IsFiniteSet(Hashes) /\ Cardinality(Hashes) = N
    /\ \A S : S \subseteq Hashes => /\ S \subseteq Nat /\ IsFiniteSet(S)
                                    /\ Cardinality(S) \in Nat /\ Cardinality(S) <= N
<1>1. N \in Nat /\ N > 0 /\ Hashes = 1 .. N
  BY IndexAssumption DEF Hashes
<1>2. IsFiniteSet(Hashes) /\ Cardinality(Hashes) = N
  <2>1. IsFiniteSet(1 .. N) /\ Cardinality(1 .. N) = IF 1 > N THEN 0 ELSE N - 1 + 1
    BY <1>1, FS_Interval
  <2> QED
    BY <1>1, <2>1
<1>3. ASSUME NEW S, S \subseteq Hashes
      PROVE  S \subseteq Nat /\ IsFiniteSet(S) /\ Cardinality(S) \in Nat /\ Cardinality(S) <= N
  <2>1. S \subseteq Nat
    BY <1>1, <1>3
  <2>2. IsFiniteSet(S) /\ Cardinality(S) <= Cardinality(Hashes)
    BY <1>2, <1>3, FS_Subset
  <2>3. Cardinality(S) \in Nat
    BY <2>2, FS_CardinalityType
  <2> QED
    BY <1>2, <2>1, <2>2, <2>3
<1> QED
  BY <1>1, <1>2, <1>3

\* A larger set of hashes has no fewer members.
LEMMA Fewer ==
    ASSUME NEW S, NEW R, S \subseteq R, R \subseteq Hashes
    PROVE  Cardinality(S) \in Nat /\ Cardinality(R) \in Nat /\ Cardinality(S) <= Cardinality(R)
<1>1. IsFiniteSet(R) /\ Cardinality(R) \in Nat /\ S \subseteq Hashes
  BY HashesFinite
<1>2. Cardinality(S) \in Nat
  BY <1>1, HashesFinite
<1>3. Cardinality(S) <= Cardinality(R)
  BY <1>1, FS_Subset
<1> QED
  BY <1>1, <1>2, <1>3

LEMMA BeforeGrows ==
    ASSUME NEW S, NEW R, S \subseteq R, R \subseteq Hashes, NEW h \in Hashes, NEW m \in Hashes, h <= m
    PROVE  Before(S, h) \subseteq Before(R, m) /\ Before(R, m) \subseteq Hashes
<1>1. Hashes \subseteq Nat
  BY HashesFinite
<1>2. ASSUME NEW g \in S, g < h PROVE g \in R /\ g < m
  <2>1. g \in R /\ g \in Nat /\ h \in Nat /\ m \in Nat
    BY <1>1
  <2> QED
    BY <1>2, <2>1
<1> QED
  BY <1>2 DEF Before

\* What comes before a member of the first k is one of them.
LEMMA FirstDown ==
    ASSUME NEW k \in Nat, NEW S, S \subseteq Hashes, NEW m \in First(k, S), NEW h \in S, h <= m
    PROVE  h \in First(k, S)
<1>1. m \in S /\ Cardinality(Before(S, m)) < k
  BY FirstIs
<1>2. S \subseteq Nat
  BY HashesFinite
<1>3. Before(S, h) \subseteq Before(S, m) /\ Before(S, m) \subseteq Hashes
  <2>1. h \in Hashes /\ m \in Hashes
    BY <1>1
  <2> QED
    BY <2>1, BeforeGrows
<1>4. Cardinality(Before(S, h)) <= Cardinality(Before(S, m))
      /\ Cardinality(Before(S, h)) \in Nat /\ Cardinality(Before(S, m)) \in Nat
  BY <1>3, Fewer
<1>5. Cardinality(Before(S, h)) < k
  BY <1>1, <1>4
<1> QED
  BY <1>5, FirstIs

LEMMA FirstSome ==
    ASSUME NEW k \in Nat, k > 0, NEW S, S \subseteq Hashes, S # {}
    PROVE  First(k, S) # {}
<1>1. S \subseteq Nat
  BY HashesFinite
<1>2. PICK h \in S : \A g \in S : h <= g
  BY <1>1, LeastNatural
<1>3. Before(S, h) = {}
  <2>1. ASSUME NEW g \in S PROVE ~(g < h)
    <3>1. g \in Nat /\ h \in Nat /\ h <= g
      BY <1>1, <1>2
    <3> QED
      BY <3>1
  <2> QED
    BY <2>1 DEF Before
<1>4. Cardinality(Before(S, h)) < k
  BY <1>3, FS_EmptySet
<1> QED
  BY <1>4, FirstIs

\* A member that is not among the first k has k of them before it.
LEMMA FirstFull ==
    ASSUME NEW k \in Nat, NEW S, S \subseteq Hashes, NEW h \in S, h \notin First(k, S)
    PROVE  Cardinality(Before(First(k, S), h)) >= k
<1>1. S \subseteq Nat
  BY HashesFinite
<1> DEFINE T == {x \in S : x \notin First(k, S)}
<1>2. PICK x \in T : \A y \in T : x <= y
  <2>1. T \subseteq Nat /\ T # {}
    BY <1>1
  <2> HIDE DEF T
  <2> QED
    BY <2>1, LeastNatural
<1>3. x \in S /\ x \in Nat /\ x <= h /\ h \in Nat
  BY <1>1, <1>2
<1>4. Before(S, x) \subseteq Before(First(k, S), h)
  <2> SUFFICES ASSUME NEW g \in S, g < x PROVE g \in First(k, S) /\ g < h
    BY DEF Before
  <2>1. g \in Nat
    BY <1>1
  <2>2. ~(x <= g)
    BY <1>3, <2>1
  <2>3. g \notin T
    BY <1>2, <2>2
  <2> QED
    BY <1>3, <2>1, <2>3
<1>5. Before(First(k, S), h) \subseteq Hashes /\ Before(S, x) \subseteq Hashes
  BY FirstIs DEF Before
<1>6. /\ Cardinality(Before(S, x)) <= Cardinality(Before(First(k, S), h))
      /\ Cardinality(Before(S, x)) \in Nat /\ Cardinality(Before(First(k, S), h)) \in Nat
  BY <1>4, <1>5, Fewer
<1>7. ~(Cardinality(Before(S, x)) < k)
  BY <1>2, FirstIs
<1> QED
  BY <1>6, <1>7

\* The union of two limited selects misses nothing before its last row.
Union(k, S, R) == First(k, First(k, S) \cup First(k, R))

LEMMA UnionCommutes == ASSUME NEW k, NEW S, NEW R PROVE Union(k, S, R) = Union(k, R, S)
<1>1. First(k, S) \cup First(k, R) = First(k, R) \cup First(k, S)
  OBVIOUS
<1> QED
  BY <1>1 DEF Union

LEMMA UnionMissesNone ==
    ASSUME NEW k \in Nat, NEW S, S \subseteq Hashes, NEW R, R \subseteq Hashes,
           NEW m \in Union(k, S, R), NEW h \in S, h <= m
    PROVE  h \in Union(k, S, R)
<1> DEFINE Both == First(k, S) \cup First(k, R)
<1>1. Both \subseteq Hashes /\ First(k, S) \subseteq Both
  BY FirstIs
<1>2. m \in First(k, Both)
  BY DEF Union
<1> HIDE DEF Both
<1>3. CASE h \in First(k, S)
  <2>1. h \in Both
    BY <1>1, <1>3
  <2>2. h \in First(k, Both)
    BY <1>1, <1>2, <2>1, FirstDown
  <2> QED
    BY <2>2 DEF Union, Both
<1>4. CASE h \notin First(k, S)
  <2>1. Cardinality(Before(First(k, S), h)) >= k
    BY <1>4, FirstFull
  <2>2. Before(First(k, S), h) \subseteq Before(Both, m) /\ Before(Both, m) \subseteq Hashes
    <3>1. m \in Both
      BY <1>2, FirstIs
    <3>2. h \in Hashes /\ m \in Hashes
      BY <1>1, <3>1
    <3> QED
      BY <1>1, <3>2, BeforeGrows
  <2>3. /\ Cardinality(Before(First(k, S), h)) <= Cardinality(Before(Both, m))
        /\ Cardinality(Before(First(k, S), h)) \in Nat /\ Cardinality(Before(Both, m)) \in Nat
    BY <2>2, Fewer
  <2>4. Cardinality(Before(Both, m)) < k
    BY <1>2, FirstIs
  <2> QED
    BY <2>1, <2>3, <2>4
<1> QED
  BY <1>3, <1>4

\* The page query finds a hash with content if there is one beyond `after', and
\* every one up to the last it returns.
HasContent(row) == HasName(row) \/ row.files
Content(after) == {h \in Hashes : HasContent(torrents[h]) /\ h > after}

LEMMA PageMissesNone ==
    ASSUME NEW after, NEW k \in Nat, k > 0
    PROVE  /\ Page(after, k) \subseteq Content(after)
           /\ Page(after, k) = {} => Content(after) = {}
           /\ \A m \in Page(after, k), h \in Content(after) : h <= m => h \in Page(after, k)
<1> DEFINE S == {h \in Hashes : HasName(torrents[h]) /\ h > after}
           R == {h \in Hashes : torrents[h].files /\ h > after}
           P == Page(after, k)
<1>1. P = Union(k, S, R) /\ P = Union(k, R, S)
  BY UnionCommutes DEF Page, Union
<1>2. S \subseteq Hashes /\ R \subseteq Hashes /\ Content(after) = S \cup R
  BY DEF Content, HasContent
<1> HIDE DEF S, R, P
<1>3. P \subseteq S \cup R
  <2>1. First(k, S) \cup First(k, R) \subseteq S \cup R
    BY FirstIs
  <2>2. P \subseteq First(k, S) \cup First(k, R)
    BY <1>1, FirstIs DEF Union
  <2> QED
    BY <2>1, <2>2
<1>4. ASSUME P = {} PROVE S \cup R = {}
  <2> DEFINE Both == First(k, S) \cup First(k, R)
  <2>1. Both \subseteq Hashes
    BY <1>2, FirstIs
  <2>2. First(k, Both) = {}
    BY <1>1, <1>4 DEF Union
  <2>3. Both = {}
    <3> HIDE DEF Both
    <3> QED
      BY <2>1, <2>2, FirstSome
  <2>4. First(k, S) = {} /\ First(k, R) = {}
    BY <2>3
  <2>5. S = {} /\ R = {}
    BY <1>2, <2>4, FirstSome
  <2> QED
    BY <2>5
<1>5. ASSUME NEW m \in P, NEW h \in S \cup R, h <= m PROVE h \in P
  <2>1. CASE h \in S
    BY <1>1, <1>2, <1>5, <2>1, UnionMissesNone
  <2>2. CASE h \in R
    BY <1>1, <1>2, <1>5, <2>2, UnionMissesNone
  <2> QED
    BY <2>1, <2>2
<1> QED
  BY <1>2, <1>3, <1>4, <1>5 DEF P

------------------------------------------------------------------------------
(***************************************************************************)
(* The inductive invariant of the documents.                               *)
(***************************************************************************)
RebuildSteps == {"idle", "obsolete", "page", "build", "write"}
RebuildType == [step : RebuildSteps, after : Nat, page : SUBSET Hashes, batch : Seq(Doc),
                budget : Nat, most : Nat, had : SUBSET Hashes]

IndexType ==
    /\ torrents \in [Hashes -> Rows]
    /\ documents \in [Hashes -> Documents]
    /\ limit \in Limits
    /\ exact \in BOOLEAN
    /\ rebuild \in RebuildType

\* What a rebuild holds fits its step, and its batch the packet.
RebuildInv ==
    /\ rebuild.step = "idle" => rebuild = NoRebuild
    /\ rebuild.step # "idle" => rebuild.most > 0
    /\ rebuild.step = "build" => rebuild.page # {}
    /\ rebuild.step \in {"obsolete", "page"} => rebuild.page = {} /\ rebuild.batch = <<>>
    /\ rebuild.step = "obsolete" => rebuild.after = 0
    /\ BytesOf(rebuild.batch) <= rebuild.budget

\* The rows do not change while a rebuild runs, so what it has read stays true.
ReadInv ==
    /\ \A h \in rebuild.page : HasContent(torrents[h])
    /\ \A d \in Range(rebuild.batch) : /\ HasContent(torrents[d.hash])
                                       /\ d.document = search_document(torrents[d.hash])

Right(h) == documents[h] = search_document(torrents[h])
InBatch(h) == \E d \in Range(rebuild.batch) : d.hash = h

\* How far a rebuild is: past its first statement the rows without content have
\* no document, and up to `after' the others have theirs, unless it is still in
\* the page or in the batch.
DocumentsInv ==
    /\ \A h \in Hashes : torrents[h] = NoRow => documents[h] = NoDocument
    /\ exact => \A h \in Hashes : Right(h)
    /\ rebuild.step \notin {"idle", "obsolete"} =>
        \A h \in Hashes : ~HasContent(torrents[h]) => Right(h)
    /\ rebuild.step # "idle" =>
        \A h \in Hashes : HasContent(torrents[h]) /\ h <= rebuild.after =>
            h \in rebuild.page \/ InBatch(h) \/ Right(h)
    /\ \A h \in rebuild.had : HasContent(torrents[h]) => documents[h] # NoDocument

IndexInv == IndexType /\ RebuildInv /\ ReadInv /\ DocumentsInv

------------------------------------------------------------------------------
(***************************************************************************)
(* Facts about rows, documents and batches.                                *)
(***************************************************************************)
Row(present, complete, named, files) ==
    [present |-> present, complete |-> complete, named |-> named, files |-> files]

LEMMA RowsAre ==
    /\ NoRow = Row(FALSE, FALSE, FALSE, FALSE) /\ Bare = Row(TRUE, FALSE, FALSE, FALSE)
    /\ Full = Row(TRUE, TRUE, TRUE, TRUE)
    /\ FilesOnly = Row(TRUE, FALSE, FALSE, TRUE) /\ Unnamed = Row(TRUE, TRUE, FALSE, FALSE)
BY DEF NoRow, Bare, Full, FilesOnly, Unnamed, Row

LEMMA RowFacts ==
    ASSUME NEW row \in Rows
    PROVE  /\ HasContent(row) \in BOOLEAN
           /\ search_document(row) \in Documents
           /\ search_document(row) = NoDocument <=> ~HasContent(row)
           /\ search_document(row).name = HasName(row) /\ search_document(row).paths = row.files
           /\ row.present <=> row # NoRow
           /\ ~row.present => ~HasContent(row)
<1>1. PICK p \in BOOLEAN, c \in BOOLEAN, n \in BOOLEAN, f \in BOOLEAN :
        row = Row(p, c, n, f) /\ (~p => ~c /\ ~n /\ ~f)
  BY RowsAre DEF Rows
<1>2. row.present = p /\ row.complete = c /\ row.named = n /\ row.files = f
  BY <1>1 DEF Row
<1>3. row.present <=> row # NoRow
  BY <1>1, <1>2, RowsAre DEF Row
<1>4. HasName(row) \in BOOLEAN /\ HasContent(row) \in BOOLEAN /\ row.files \in BOOLEAN
  BY <1>2 DEF HasName, HasContent
<1>5. search_document(row) = [name |-> HasName(row), paths |-> row.files]
  BY DEF search_document
<1>6. search_document(row) \in Documents
  BY <1>4, <1>5 DEF Documents
<1>7. search_document(row).name = HasName(row) /\ search_document(row).paths = row.files
  BY <1>5
<1>8. search_document(row) = NoDocument <=> ~HasContent(row)
  <2>1. NoDocument.name = FALSE /\ NoDocument.paths = FALSE
    BY DEF NoDocument
  <2>2. ASSUME search_document(row) = NoDocument PROVE ~HasContent(row)
    BY <1>4, <1>7, <2>1, <2>2 DEF HasContent
  <2>3. ASSUME ~HasContent(row) PROVE search_document(row) = NoDocument
    <3>1. HasName(row) = FALSE /\ row.files = FALSE
      BY <1>4, <2>3 DEF HasContent
    <3> QED
      BY <1>5, <3>1, Zenon DEF NoDocument
  <2> QED
    BY <2>2, <2>3
<1>9. ~row.present => ~HasContent(row)
  BY <1>1, <1>2 DEF HasContent, HasName
<1> QED
  BY <1>3, <1>4, <1>6, <1>7, <1>8, <1>9

LEMMA RowValues ==
    /\ {NoRow, Bare, Full} \subseteq Rows /\ NoDocument \in Documents
    /\ search_document(NoRow) = NoDocument /\ search_document(Bare) = NoDocument
    /\ ~HasContent(NoRow) /\ Full # NoRow /\ Bare # NoRow
BY DEF Rows, NoRow, Bare, Full, HasContent, HasName, search_document, Documents, NoDocument

LEMMA BytesNatural == ASSUME NEW d \in Doc PROVE DocBytes(d) \in Nat
<1>1. d.hash \in Hashes /\ d.document.name \in BOOLEAN /\ d.document.paths \in BOOLEAN
  BY DEF Doc, Documents
<1>2. Overhead \in Nat /\ NameBytes[d.hash] \in Nat /\ PathBytes[d.hash] \in Nat
  BY <1>1, IndexAssumption
<1> QED
  BY <1>1, <1>2 DEF DocBytes, Length

\* The bytes of a batch are a number.
LEMMA BytesInt == ASSUME NEW b \in Seq(Doc) PROVE BytesOf(b) \in Nat
<1> DEFINE n == Len(b)
<1>1. n \in Nat /\ \A i \in 1 .. n : b[i] \in Doc
  OBVIOUS
<1>2. PICK g : Adds(b, n, g) /\ BytesOf(b) = g[1 .. n]
  BY BytesAdd
<1> HIDE DEF n
<1> DEFINE T == {k \in Nat : k <= n /\ g[1 .. k] \notin Nat}
<1>3. T = {}
  <2> SUFFICES ASSUME T # {} PROVE FALSE
    OBVIOUS
  <2>1. PICK k \in T : \A j \in T : k <= j
    <3>1. T \subseteq Nat
      OBVIOUS
    <3> HIDE DEF T
    <3> QED
      BY <3>1, LeastNatural
  <2>2. k \in Nat /\ k <= n /\ g[1 .. k] \notin Nat
    OBVIOUS
  <2>3. k # 0
    BY <1>2, <2>2 DEF Adds
  <2> DEFINE j == k - 1
  <2>4. j \in Nat /\ j <= n /\ ~(k <= j) /\ j + 1 = k
    BY <1>1, <2>2, <2>3
  <2>5. g[1 .. j] \in Nat
    BY <2>1, <2>4
  <2> HIDE DEF j
  <2>6. j \in 0 .. n - 1 /\ j + 1 \in 1 .. n
    BY <1>1, <2>2, <2>4
  <2>7. g[1 .. j + 1] = g[1 .. j] + DocBytes(b[j + 1])
    BY <1>2, <2>6 DEF Adds
  <2>8. DocBytes(b[j + 1]) \in Nat
    BY <1>1, <2>6, BytesNatural
  <2> QED
    BY <2>2, <2>4, <2>5, <2>7, <2>8
<1>4. g[1 .. n] \in Nat
  BY <1>1, <1>3
<1> QED
  BY <1>2, <1>4

LEMMA AppendRange ==
    ASSUME NEW D, NEW b \in Seq(D), NEW d \in D
    PROVE  Range(Append(b, d)) = Range(b) \cup {d} /\ Range(b) \subseteq D
<1>1. DOMAIN b = 1 .. Len(b) /\ DOMAIN Append(b, d) = 1 .. Len(b) + 1 /\ Len(b) \in Nat
  OBVIOUS
<1>2. /\ \A i \in 1 .. Len(b) : Append(b, d)[i] = b[i] /\ b[i] \in D
      /\ Append(b, d)[Len(b) + 1] = d
  OBVIOUS
<1>3. 1 .. Len(b) + 1 = (1 .. Len(b)) \cup {Len(b) + 1}
  BY <1>1
<1> QED
  BY <1>1, <1>2, <1>3 DEF Range

\* The fields of a rebuild.
LEMMA RebuildFields ==
    ASSUME NEW r \in RebuildType
    PROVE  /\ r.step \in RebuildSteps /\ r.after \in Nat /\ r.page \in SUBSET Hashes
           /\ r.batch \in Seq(Doc) /\ r.budget \in Nat /\ r.most \in Nat
           /\ r.had \in SUBSET Hashes
BY DEF RebuildType

LEMMA NoRebuildFields ==
    /\ NoRebuild \in RebuildType
    /\ NoRebuild.step = "idle" /\ NoRebuild.page = {} /\ NoRebuild.batch = <<>>
    /\ NoRebuild.had = {} /\ NoRebuild.after = 0 /\ NoRebuild.budget = 0
BY DEF NoRebuild, RebuildType, RebuildSteps

------------------------------------------------------------------------------
(***************************************************************************)
(* The steps.                                                              *)
(***************************************************************************)
LEMMA IndexStutter ==
    ASSUME IndexInv, UNCHANGED index
    PROVE  IndexInv'
BY DEF IndexInv, IndexType, RebuildInv, ReadInv, DocumentsInv, Right, InBatch, index

\* A rebuild ends, in whichever way.
LEMMA OverStep ==
    ASSUME IndexInv, rebuild' = NoRebuild, UNCHANGED <<torrents, documents, limit>>,
           exact' \in BOOLEAN, exact' => \A h \in Hashes : Right(h)
    PROVE  IndexInv'
<1>1. IndexType'
  BY NoRebuildFields DEF IndexInv, IndexType
<1>2. RebuildInv'
  BY NoRebuildFields, EmptyBytes DEF RebuildInv
<1>3. ReadInv'
  BY NoRebuildFields, EmptyRange DEF ReadInv
<1>4. DocumentsInv'
  BY NoRebuildFields DEF IndexInv, DocumentsInv, Right
<1> QED
  BY <1>1, <1>2, <1>3, <1>4 DEF IndexInv

\* A change of one row and its document, while no rebuild runs.
LEMMA RowStep ==
    ASSUME IndexInv, Idle, UNCHANGED <<limit, rebuild, exact>>,
           NEW h \in Hashes, NEW row \in Rows, NEW document \in Documents,
           torrents' = [torrents EXCEPT ![h] = row],
           documents' = [documents EXCEPT ![h] = document],
           document = search_document(row)
    PROVE  IndexInv'
<1>1. rebuild = NoRebuild
  BY DEF IndexInv, RebuildInv, Idle
<1>2. torrents \in [Hashes -> Rows] /\ documents \in [Hashes -> Documents]
  BY DEF IndexInv, IndexType
<1>3. \A g \in Hashes : /\ torrents'[g] = IF g = h THEN row ELSE torrents[g]
                        /\ documents'[g] = IF g = h THEN document ELSE documents[g]
  BY <1>2
<1>4. IndexType'
  BY <1>2 DEF IndexInv, IndexType
<1>5. RebuildInv'
  BY DEF IndexInv, RebuildInv
<1>6. ReadInv'
  BY <1>1, NoRebuildFields, EmptyRange DEF ReadInv
<1>7. DocumentsInv'
  <2>1. ASSUME NEW g \in Hashes PROVE torrents'[g] = NoRow => documents'[g] = NoDocument
    BY <1>3, RowValues DEF IndexInv, DocumentsInv
  <2>2. ASSUME exact, NEW g \in Hashes PROVE Right(g)'
    BY <1>3, <2>2 DEF IndexInv, DocumentsInv, Right
  <2> QED
    BY <1>1, <2>1, <2>2, NoRebuildFields DEF DocumentsInv
<1> QED
  BY <1>4, <1>5, <1>6, <1>7 DEF IndexInv

LEMMA IngestStep ==
    ASSUME IndexInv, Ingest
    PROVE  IndexInv'
<1>1. documents \in [Hashes -> Documents] /\ torrents \in [Hashes -> Rows]
  BY DEF IndexInv, IndexType
<1>2. CASE \E h \in Hashes : CommitMetadata(h)
  <2>1. PICK h \in Hashes : CommitMetadata(h)
    BY <1>2
  <2>2. Full \in Rows /\ search_document(Full) \in Documents
    BY RowValues, RowFacts
  <2> QED
    BY <2>1, <2>2, RowStep DEF CommitMetadata
<1>3. CASE \E h \in Hashes : Discover(h)
  <2>1. PICK h \in Hashes : Discover(h)
    BY <1>3
  <2>2. documents[h] = NoDocument
    BY <2>1 DEF Discover, IndexInv, DocumentsInv
  <2>3. documents' = [documents EXCEPT ![h] = NoDocument]
    BY <1>1, <2>1, <2>2 DEF Discover
  <2>4. Bare \in Rows /\ NoDocument \in Documents /\ NoDocument = search_document(Bare)
    BY RowValues
  <2> QED
    BY <2>1, <2>3, <2>4, RowStep DEF Discover
<1>4. CASE \E h \in Hashes : Prune(h)
  <2>1. PICK h \in Hashes : Prune(h)
    BY <1>4
  <2>2. NoRow \in Rows /\ NoDocument \in Documents /\ NoDocument = search_document(NoRow)
    BY RowValues
  <2> QED
    BY <2>1, <2>2, RowStep DEF Prune
<1> QED
  BY <1>2, <1>3, <1>4 DEF Ingest

LEMMA LimitStep ==
    ASSUME IndexInv, ChangeLimit
    PROVE  IndexInv'
BY DEF ChangeLimit, IndexInv, IndexType, RebuildInv, ReadInv, DocumentsInv, Right, InBatch

LEMMA RebuildBeginsStep ==
    ASSUME IndexInv, RebuildBegins
    PROVE  IndexInv'
<1>1. PICK most \in PageLimits :
        rebuild' = [NoRebuild EXCEPT !.step = "obsolete", !.budget = limit, !.most = most,
                                     !.had = {h \in Hashes : documents[h] # NoDocument}]
  BY DEF RebuildBegins
<1>2. UNCHANGED <<torrents, documents, limit, exact>>
  BY DEF RebuildBegins
<1>3. limit \in Nat /\ most \in Nat /\ most > 0
  BY IndexAssumption DEF IndexInv, IndexType
<1>4. /\ rebuild'.step = "obsolete" /\ rebuild'.after = 0 /\ rebuild'.page = {}
      /\ rebuild'.batch = <<>> /\ rebuild'.budget = limit /\ rebuild'.most = most
      /\ rebuild'.had = {h \in Hashes : documents[h] # NoDocument}
  BY <1>1 DEF NoRebuild
<1>5. rebuild' \in RebuildType
  <2>1. PICK kept \in SUBSET Hashes : kept = {h \in Hashes : documents[h] # NoDocument}
    OBVIOUS
  <2>2. rebuild' = [NoRebuild EXCEPT !.step = "obsolete", !.budget = limit, !.most = most,
                                     !.had = kept]
    BY <1>1, <2>1
  <2> QED
    BY <1>3, <2>2, NoRebuildFields DEF RebuildType, RebuildSteps
<1>6. IndexType'
  BY <1>2, <1>5 DEF IndexInv, IndexType
<1>7. RebuildInv'
  BY <1>3, <1>4, EmptyBytes DEF RebuildInv
<1>8. ReadInv'
  BY <1>4, EmptyRange DEF ReadInv
<1>9. DocumentsInv'
  <2>1. ASSUME NEW h \in Hashes PROVE ~(h <= rebuild'.after)
    BY <1>4, HashesFinite
  <2> QED
    BY <1>2, <1>4, <2>1 DEF IndexInv, DocumentsInv, Right
<1> QED
  BY <1>6, <1>7, <1>8, <1>9 DEF IndexInv

\* A rebuild that goes on to another of its statements.
LEMMA Moved ==
    ASSUME NEW r \in RebuildType, NEW s \in RebuildSteps, NEW b \in Seq(Doc), NEW p \in SUBSET Hashes,
           NEW a \in Nat
    PROVE  LET q == [r EXCEPT !.batch = b, !.page = p, !.after = a, !.step = s]
           IN  /\ q \in RebuildType /\ q.step = s /\ q.batch = b /\ q.page = p /\ q.after = a
               /\ q.budget = r.budget /\ q.most = r.most /\ q.had = r.had
BY DEF RebuildType

LEMMA MovedOnly ==
    ASSUME NEW r \in RebuildType, NEW s \in RebuildSteps
    PROVE  LET q == [r EXCEPT !.step = s]
           IN  /\ q \in RebuildType /\ q.step = s /\ q.batch = r.batch /\ q.page = r.page
               /\ q.after = r.after /\ q.budget = r.budget /\ q.most = r.most /\ q.had = r.had
BY DEF RebuildType

LEMMA DeleteObsoleteStep ==
    ASSUME IndexInv, DeleteObsolete
    PROVE  IndexInv'
<1>1. /\ torrents \in [Hashes -> Rows] /\ documents \in [Hashes -> Documents]
      /\ rebuild \in RebuildType
  BY DEF IndexInv, IndexType
<1>2. UNCHANGED <<torrents, limit, exact>> /\ rebuild.step = "obsolete"
  BY DEF DeleteObsolete
<1>3. /\ rebuild' \in RebuildType /\ rebuild'.step = "page" /\ rebuild'.batch = rebuild.batch
      /\ rebuild'.page = rebuild.page /\ rebuild'.after = rebuild.after
      /\ rebuild'.budget = rebuild.budget /\ rebuild'.most = rebuild.most
      /\ rebuild'.had = rebuild.had
  BY <1>1, MovedOnly DEF DeleteObsolete, RebuildSteps
<1>4. /\ rebuild.page = {} /\ rebuild.batch = <<>> /\ rebuild.after = 0 /\ rebuild.most > 0
      /\ BytesOf(rebuild.batch) <= rebuild.budget
  BY <1>2 DEF IndexInv, RebuildInv
<1>5. ASSUME NEW h \in Hashes
      PROVE  /\ documents'[h] \in Documents
             /\ torrents[h] = NoRow => documents'[h] = NoDocument
             /\ HasContent(torrents[h]) => documents'[h] = documents[h]
             /\ ~HasContent(torrents[h]) => documents'[h] = search_document(torrents[h])
  <2>1. documents'[h] = IF torrents[h].present /\ ~HasName(torrents[h]) /\ ~torrents[h].files
                        THEN NoDocument ELSE documents[h]
    BY DEF DeleteObsolete
  <2>2. torrents[h] \in Rows /\ documents[h] \in Documents /\ NoDocument \in Documents
    BY <1>1, RowValues
  <2>3. torrents[h] = NoRow => documents[h] = NoDocument
    BY DEF IndexInv, DocumentsInv
  <2>4. /\ search_document(torrents[h]) = NoDocument <=> ~HasContent(torrents[h])
        /\ torrents[h].present <=> torrents[h] # NoRow
    BY <2>2, RowFacts
  <2> QED
    BY <2>1, <2>2, <2>3, <2>4 DEF HasContent
<1>6. IndexType'
  <2>1. documents' \in [Hashes -> Documents]
    BY <1>5 DEF DeleteObsolete
  <2> QED
    BY <1>1, <1>2, <1>3, <2>1 DEF IndexInv, IndexType
<1>7. RebuildInv'
  BY <1>3, <1>4 DEF RebuildInv
<1>8. ReadInv'
  BY <1>3, <1>4, EmptyRange DEF ReadInv
<1>9. DocumentsInv'
  <2>1. ASSUME NEW h \in Hashes PROVE ~(h <= rebuild'.after)
    BY <1>3, <1>4, HashesFinite
  <2>2. ASSUME exact, NEW h \in Hashes PROVE Right(h)'
    <3>1. documents[h] = search_document(torrents[h])
      BY <2>2 DEF IndexInv, DocumentsInv, Right
    <3> QED
      BY <1>2, <1>5, <3>1 DEF Right
  <2>3. ASSUME NEW h \in Hashes, ~HasContent(torrents[h]) PROVE Right(h)'
    BY <1>2, <1>5, <2>3 DEF Right
  <2>4. ASSUME NEW h \in rebuild.had, HasContent(torrents[h]) PROVE documents'[h] # NoDocument
    <3>1. h \in Hashes /\ documents[h] # NoDocument
      BY <1>1, <2>4, RebuildFields DEF IndexInv, DocumentsInv
    <3> QED
      BY <1>5, <2>4, <3>1
  <2> QED
    BY <1>2, <1>3, <1>5, <2>1, <2>2, <2>3, <2>4 DEF DocumentsInv
<1> QED
  BY <1>6, <1>7, <1>8, <1>9 DEF IndexInv

LEMMA FetchPageStep ==
    ASSUME IndexInv, FetchPage
    PROVE  IndexInv'
<1> DEFINE page == Page(rebuild.after, rebuild.most)
<1>1. /\ torrents \in [Hashes -> Rows] /\ documents \in [Hashes -> Documents]
      /\ rebuild \in RebuildType /\ exact \in BOOLEAN
  BY DEF IndexInv, IndexType
<1>2. /\ UNCHANGED <<torrents, documents, limit>> /\ rebuild.step = "page"
      /\ IF page = {} THEN rebuild' = NoRebuild /\ exact' = TRUE
         ELSE /\ rebuild' = [rebuild EXCEPT !.step = "build", !.page = page, !.after = Max(page)]
              /\ UNCHANGED exact
  BY DEF FetchPage
<1>3. /\ rebuild.page = {} /\ rebuild.batch = <<>> /\ rebuild.most > 0
      /\ BytesOf(rebuild.batch) <= rebuild.budget
      /\ rebuild.after \in Nat /\ rebuild.most \in Nat
  BY <1>1, <1>2, RebuildFields DEF IndexInv, RebuildInv
<1>4. /\ page \subseteq Content(rebuild.after)
      /\ page = {} => Content(rebuild.after) = {}
      /\ \A m \in page, h \in Content(rebuild.after) : h <= m => h \in page
  BY <1>3, PageMissesNone
<1> HIDE DEF page
<1>5. ASSUME NEW h \in Hashes, HasContent(torrents[h]), h <= rebuild.after PROVE Right(h)
  <2>1. ~InBatch(h) /\ h \notin rebuild.page
    BY <1>3, EmptyRange DEF InBatch
  <2> QED
    BY <1>2, <1>5, <2>1 DEF IndexInv, DocumentsInv
<1>6. ASSUME NEW h \in Hashes, ~HasContent(torrents[h]) PROVE Right(h)
  BY <1>2, <1>6 DEF IndexInv, DocumentsInv
<1>7. CASE page = {}
  <2>1. ASSUME NEW h \in Hashes PROVE Right(h)
    <3>1. h \notin Content(rebuild.after)
      BY <1>4, <1>7
    <3>2. HasContent(torrents[h]) => h <= rebuild.after
      BY <1>3, <3>1, HashesFinite DEF Content
    <3> QED
      BY <1>5, <1>6, <3>2
  <2>2. rebuild' = NoRebuild /\ exact' \in BOOLEAN
    BY <1>2, <1>7
  <2> QED
    BY <1>2, <2>1, <2>2, OverStep
<1>8. CASE page # {}
  <2>1. page \subseteq Hashes /\ Hashes = 1 .. N /\ N \in Nat
    BY <1>4, HashesFinite DEF Content
  <2>2. Max(page) \in page /\ Max(page) \in Nat
    <3>1. Max(page) \in page
      BY <1>8, <2>1, MaxIs
    <3>2. page \subseteq Nat
      BY <2>1
    <3> QED
      BY <3>1, <3>2, Zenon
  <2>3. rebuild' = [rebuild EXCEPT !.step = "build", !.page = page, !.after = Max(page)]
        /\ exact' = exact
    BY <1>2, <1>8
  <2>4. /\ rebuild' \in RebuildType /\ rebuild'.step = "build" /\ rebuild'.batch = rebuild.batch
        /\ rebuild'.page = page /\ rebuild'.after = Max(page)
        /\ rebuild'.budget = rebuild.budget /\ rebuild'.most = rebuild.most
        /\ rebuild'.had = rebuild.had
    BY <1>1, <2>1, <2>2, <2>3 DEF RebuildType, RebuildSteps
  <2>5. IndexType'
    BY <1>1, <1>2, <2>3, <2>4 DEF IndexInv, IndexType
  <2>6. RebuildInv'
    BY <1>3, <1>8, <2>4 DEF RebuildInv
  <2>7. ReadInv'
    <3>1. \A h \in page : HasContent(torrents[h])
      BY <1>4 DEF Content
    <3> QED
      BY <1>2, <1>3, <2>4, <3>1, EmptyRange DEF ReadInv
  <2>8. DocumentsInv'
    <3>1. ASSUME NEW h \in Hashes, HasContent(torrents[h]), h <= Max(page)
          PROVE  h \in page \/ Right(h)
      <4>1. h \in Nat
        BY HashesFinite
      <4>2. CASE h <= rebuild.after
        BY <1>5, <3>1, <4>2
      <4>3. CASE ~(h <= rebuild.after)
        <5>1. h \in Content(rebuild.after)
          BY <1>3, <3>1, <4>1, <4>3 DEF Content
        <5> QED
          BY <1>4, <2>2, <3>1, <5>1
      <4> QED
        BY <4>2, <4>3
    <3>2. \A h \in Hashes : Right(h)' <=> Right(h)
      BY <1>2 DEF Right
    <3>3. /\ \A h \in Hashes : torrents[h] = NoRow => documents[h] = NoDocument
          /\ exact => \A h \in Hashes : Right(h)
          /\ \A h \in rebuild.had : HasContent(torrents[h]) => documents[h] # NoDocument
      BY DEF IndexInv, DocumentsInv
    <3> HIDE DEF Right
    <3>4. \A h \in Hashes : HasContent(torrents'[h]) /\ h <= rebuild'.after
                           => h \in rebuild'.page \/ Right(h)'
      BY <1>2, <2>4, <3>1, <3>2
    <3> QED
      BY <1>2, <1>6, <2>3, <2>4, <3>2, <3>3, <3>4 DEF DocumentsInv
  <2> QED
    BY <2>5, <2>6, <2>7, <2>8 DEF IndexInv
<1> QED
  BY <1>7, <1>8

\* The batch a document joins stays within the packet.
LEMMA JoinedFits ==
    ASSUME NEW r \in RebuildType, BytesOf(r.batch) <= r.budget, NEW d \in Doc,
           DocBytes(d) <= r.budget, d.hash \in r.page
    PROVE  LET q == Joined(r, d)
           IN  \/ q = [r EXCEPT !.step = "write"]
               \/ /\ \E s \in {"build", "write"} :
                        q = [r EXCEPT !.batch = Append(r.batch, d), !.page = r.page \ {d.hash},
                                      !.step = s]
                  /\ q.step = "build" => q.page # {}
                  /\ BytesOf(q.batch) <= q.budget
<1> DEFINE grown == [r EXCEPT !.batch = Append(@, d), !.page = @ \ {d.hash}]
           q == Joined(r, d)
<1>1. /\ r.batch \in Seq(Doc) /\ r.page \in SUBSET Hashes /\ r.budget \in Nat
      /\ Append(r.batch, d) \in Seq(Doc)
  BY RebuildFields
<1>2. /\ grown \in RebuildType /\ grown.batch = Append(r.batch, d)
      /\ grown.page = r.page \ {d.hash} /\ grown.budget = r.budget
  BY <1>1 DEF RebuildType
<1>3. BatchBytes(grown) = BytesOf(Append(r.batch, d))
  <2> HIDE DEF grown
  <2> QED
    BY <1>2, BytesIs
<1>4. q = IF r.batch # <<>> /\ BatchBytes(grown) > batch_bytes(r.budget)
          THEN [r EXCEPT !.step = "write"]
          ELSE [grown EXCEPT !.step =
                  IF grown.page = {} \/ BatchBytes(grown) >= batch_bytes(r.budget)
                  THEN "write" ELSE "build"]
  BY DEF Joined
<1>5. \A s : [grown EXCEPT !.step = s]
               = [r EXCEPT !.batch = Append(r.batch, d), !.page = r.page \ {d.hash}, !.step = s]
  OBVIOUS
<1> HIDE DEF grown, q
<1>6. CASE r.batch # <<>> /\ BatchBytes(grown) > batch_bytes(r.budget)
  BY <1>4, <1>6 DEF q
<1>7. CASE ~(r.batch # <<>> /\ BatchBytes(grown) > batch_bytes(r.budget))
  <2>1. PICK s \in {"build", "write"} :
          /\ s = IF grown.page = {} \/ BatchBytes(grown) >= batch_bytes(r.budget)
                 THEN "write" ELSE "build"
    OBVIOUS
  <2>2. q = [grown EXCEPT !.step = s]
    BY <1>4, <1>7, <2>1
  <2>3. q.step = s /\ q.page = grown.page /\ q.batch = grown.batch /\ q.budget = r.budget
    BY <1>2, <2>2 DEF RebuildType
  <2>4. s = "build" => grown.page # {}
    BY <2>1
  <2>5. BytesOf(q.batch) <= q.budget
    <3>1. batch_bytes(r.budget) \in Nat /\ batch_bytes(r.budget) <= r.budget
      <4>1. BatchTarget \in Nat
        BY IndexAssumption
      <4> QED
        BY <1>1, <4>1 DEF batch_bytes
    <3>2. DocBytes(d) \in Nat
      BY BytesNatural
    <3>3. CASE r.batch = <<>>
      <4>1. BytesOf(q.batch) = BytesOf(r.batch) + DocBytes(d) /\ BytesOf(r.batch) = 0
        BY <1>1, <1>2, <2>3, <3>3, AppendBytes, EmptyBytes
      <4> QED
        BY <2>3, <3>2, <4>1
    <3>4. CASE r.batch # <<>>
      <4>1. ~(BatchBytes(grown) > batch_bytes(r.budget)) /\ BytesOf(q.batch) = BatchBytes(grown)
        BY <1>2, <1>3, <1>7, <2>3, <3>4, Zenon
      <4>2. BytesOf(Append(r.batch, d)) \in Nat
        BY <1>1, BytesInt
      <4> QED
        BY <1>1, <1>3, <2>3, <3>1, <4>1, <4>2
    <3> QED
      BY <3>3, <3>4
  <2> QED
    BY <1>5, <2>2, <2>3, <2>4, <2>5 DEF q
<1> QED
  BY <1>6, <1>7

LEMMA BuildDocumentStep ==
    ASSUME IndexInv, BuildDocument
    PROVE  IndexInv'
<1>0. PICK h : h = Min(rebuild.page)
  OBVIOUS
<1> DEFINE d == [hash |-> h, document |-> search_document(torrents[h])]
<1>1. /\ torrents \in [Hashes -> Rows] /\ documents \in [Hashes -> Documents]
      /\ rebuild \in RebuildType /\ exact \in BOOLEAN
  BY DEF IndexInv, IndexType
<1>2. UNCHANGED <<torrents, documents, limit, exact>> /\ rebuild.step = "build"
  BY DEF BuildDocument
<1>3. rebuild' = IF TooLarge(h, torrents[h], rebuild.budget) THEN NoRebuild ELSE Joined(rebuild, d)
  BY <1>0 DEF BuildDocument
<1>4. h \in rebuild.page /\ h \in Hashes
  <2>1. rebuild.page # {} /\ rebuild.page \in SUBSET Hashes
    BY <1>1, <1>2, RebuildFields DEF IndexInv, RebuildInv
  <2>2. rebuild.page \subseteq Nat
    BY <2>1, HashesFinite
  <2>3. h \in rebuild.page
    BY <1>0, <2>1, <2>2, MinIs
  <2> QED
    BY <2>1, <2>3
<1>5. d \in Doc /\ d.hash = h /\ d.document = search_document(torrents[h])
  <2>1. search_document(torrents[h]) \in Documents
    BY <1>1, <1>4, RowFacts
  <2> QED
    BY <1>4, <2>1 DEF Doc
<1>6. DocBytes(d) = Length(h, search_document(torrents[h]))
  BY <1>5 DEF DocBytes
<1>7. /\ rebuild.most > 0 /\ BytesOf(rebuild.batch) <= rebuild.budget
      /\ rebuild.budget \in Nat /\ rebuild.batch \in Seq(Doc) /\ rebuild.page \in SUBSET Hashes
      /\ rebuild.after \in Nat /\ rebuild.most \in Nat
  BY <1>1, <1>2, RebuildFields DEF IndexInv, RebuildInv
<1> HIDE DEF d
<1>8. CASE TooLarge(h, torrents[h], rebuild.budget)
  <2>1. exact => \A g \in Hashes : Right(g)
    BY DEF IndexInv, DocumentsInv
  <2>2. rebuild' = NoRebuild
    BY <1>3, <1>8
  <2> QED
    BY <1>1, <1>2, <2>1, <2>2, OverStep
<1>9. CASE ~TooLarge(h, torrents[h], rebuild.budget)
  <2>1. rebuild' = Joined(rebuild, d)
    BY <1>3, <1>9
  <2>2. DocBytes(d) <= rebuild.budget
    <3>1. DocBytes(d) \in Nat /\ ~(DocBytes(d) > rebuild.budget)
      BY <1>5, <1>6, <1>9, BytesNatural DEF TooLarge
    <3> QED
      BY <1>7, <3>1
  <2>3. \/ rebuild' = [rebuild EXCEPT !.step = "write"]
        \/ /\ \E s \in {"build", "write"} :
                rebuild' = [rebuild EXCEPT !.batch = Append(rebuild.batch, d),
                                           !.page = rebuild.page \ {d.hash}, !.step = s]
           /\ rebuild'.step = "build" => rebuild'.page # {}
           /\ BytesOf(rebuild'.batch) <= rebuild'.budget
    BY <1>1, <1>4, <1>5, <1>7, <2>1, <2>2, JoinedFits
  <2>4. CASE rebuild' = [rebuild EXCEPT !.step = "write"]
    <3>1. /\ rebuild' \in RebuildType /\ rebuild'.step = "write" /\ rebuild'.batch = rebuild.batch
          /\ rebuild'.page = rebuild.page /\ rebuild'.after = rebuild.after
          /\ rebuild'.budget = rebuild.budget /\ rebuild'.most = rebuild.most
          /\ rebuild'.had = rebuild.had
      BY <1>1, <2>4, MovedOnly DEF RebuildSteps
    <3>2. IndexType'
      BY <1>2, <3>1 DEF IndexInv, IndexType
    <3>3. RebuildInv'
      BY <1>7, <3>1 DEF RebuildInv
    <3>4. ReadInv'
      BY <1>2, <3>1 DEF IndexInv, ReadInv
    <3>5. DocumentsInv'
      BY <1>2, <3>1 DEF IndexInv, DocumentsInv, Right, InBatch
    <3> QED
      BY <3>2, <3>3, <3>4, <3>5 DEF IndexInv
  <2>5. CASE rebuild' # [rebuild EXCEPT !.step = "write"]
    <3>1. PICK s \in {"build", "write"} :
            rebuild' = [rebuild EXCEPT !.batch = Append(rebuild.batch, d),
                                       !.page = rebuild.page \ {d.hash}, !.step = s]
      BY <2>3, <2>5
    <3>2. /\ rebuild' \in RebuildType /\ rebuild'.step = s
          /\ rebuild'.batch = Append(rebuild.batch, d)
          /\ rebuild'.page = rebuild.page \ {h} /\ rebuild'.after = rebuild.after
          /\ rebuild'.budget = rebuild.budget /\ rebuild'.most = rebuild.most
          /\ rebuild'.had = rebuild.had
      <4>1. Append(rebuild.batch, d) \in Seq(Doc)
        BY <1>5, <1>7
      <4> QED
        BY <1>1, <1>5, <1>7, <3>1, <4>1 DEF RebuildType, RebuildSteps
    <3>3. Range(rebuild'.batch) = Range(rebuild.batch) \cup {d}
      BY <1>5, <1>7, <3>2, AppendRange
    <3>4. IndexType'
      BY <1>2, <3>2 DEF IndexInv, IndexType
    <3>5. RebuildInv'
      BY <1>7, <2>3, <2>5, <3>2 DEF RebuildInv
    <3>6. ReadInv'
      <4>1. HasContent(torrents[d.hash]) /\ d.document = search_document(torrents[d.hash])
        BY <1>4, <1>5 DEF IndexInv, ReadInv
      <4> QED
        BY <1>2, <3>2, <3>3, <4>1 DEF IndexInv, ReadInv
    <3>7. DocumentsInv'
      <4>1. \A g \in Hashes : Right(g)' <=> Right(g)
        BY <1>2 DEF Right
      <4>2. ASSUME NEW g \in Hashes, HasContent(torrents[g]), g <= rebuild.after
            PROVE  g \in rebuild'.page \/ InBatch(g)' \/ Right(g)
        <5>1. g \in rebuild.page \/ InBatch(g) \/ Right(g)
          BY <1>2, <4>2 DEF IndexInv, DocumentsInv
        <5>2. InBatch(g) => InBatch(g)'
          BY <3>3 DEF InBatch
        <5>3. InBatch(h)'
          BY <1>5, <3>3 DEF InBatch
        <5> QED
          BY <3>2, <5>1, <5>2, <5>3
      <4>3. /\ \A g \in Hashes : torrents[g] = NoRow => documents[g] = NoDocument
            /\ exact => \A g \in Hashes : Right(g)
            /\ \A g \in Hashes : ~HasContent(torrents[g]) => Right(g)
            /\ \A g \in rebuild.had : HasContent(torrents[g]) => documents[g] # NoDocument
        BY <1>2 DEF IndexInv, DocumentsInv
      <4>4. \A g \in Hashes : HasContent(torrents'[g]) /\ g <= rebuild'.after
                               => g \in rebuild'.page \/ InBatch(g)' \/ Right(g)'
        BY <1>2, <3>2, <4>1, <4>2
      <4> QED
        BY <1>2, <3>2, <4>1, <4>3, <4>4 DEF DocumentsInv
    <3> QED
      BY <3>4, <3>5, <3>6, <3>7 DEF IndexInv
  <2> QED
    BY <2>4, <2>5
<1> QED
  BY <1>8, <1>9

LEMMA ReplaceStep ==
    ASSUME IndexInv, replace_search_documents
    PROVE  IndexInv'
<1> DEFINE s == IF rebuild.page = {} THEN "page" ELSE "build"
<1>1. /\ torrents \in [Hashes -> Rows] /\ documents \in [Hashes -> Documents]
      /\ rebuild \in RebuildType /\ exact \in BOOLEAN
  BY DEF IndexInv, IndexType
<1>2. /\ UNCHANGED <<torrents, limit, exact>> /\ rebuild.step = "write"
      /\ rebuild' = [rebuild EXCEPT !.batch = <<>>, !.step = s]
  BY DEF replace_search_documents
<1>3. s \in RebuildSteps /\ (s = "page" => rebuild.page = {}) /\ (s = "build" => rebuild.page # {})
      /\ s # "idle" /\ s # "obsolete"
  BY DEF RebuildSteps
<1> HIDE DEF s
<1>4. /\ rebuild' \in RebuildType /\ rebuild'.step = s /\ rebuild'.batch = <<>>
      /\ rebuild'.page = rebuild.page /\ rebuild'.after = rebuild.after
      /\ rebuild'.budget = rebuild.budget /\ rebuild'.most = rebuild.most
      /\ rebuild'.had = rebuild.had
  <2>0. <<>> \in Seq(Doc)
    OBVIOUS
  <2>1. PICK none \in Seq(Doc) : none = <<>>
    BY <2>0
  <2>2. rebuild' = [rebuild EXCEPT !.batch = none, !.step = s]
    BY <1>2, <2>1
  <2> QED
    BY <1>1, <1>3, <2>1, <2>2 DEF RebuildType
<1>5. rebuild.most > 0 /\ rebuild.budget \in Nat
  BY <1>1, <1>2, RebuildFields DEF IndexInv, RebuildInv
<1>6. ASSUME NEW h \in Hashes
      PROVE  /\ InBatch(h) => HasContent(torrents[h]) /\ documents'[h] = search_document(torrents[h])
             /\ ~InBatch(h) => documents'[h] = documents[h]
  <2>1. documents'[h] = IF \E d \in Range(rebuild.batch) : d.hash = h
                        THEN (CHOOSE d \in Range(rebuild.batch) : d.hash = h).document
                        ELSE documents[h]
    BY DEF replace_search_documents
  <2>2. CASE InBatch(h)
    <3>1. PICK d : /\ d = CHOOSE e \in Range(rebuild.batch) : e.hash = h
                   /\ d \in Range(rebuild.batch) /\ d.hash = h
      BY <2>2 DEF InBatch
    <3>2. documents'[h] = d.document
      BY <2>1, <2>2, <3>1 DEF InBatch
    <3> QED
      BY <2>2, <3>1, <3>2 DEF IndexInv, ReadInv
  <2>3. CASE ~InBatch(h)
    BY <2>1, <2>3 DEF InBatch
  <2> QED
    BY <2>2, <2>3
<1>7. ASSUME NEW h \in Hashes
      PROVE  /\ documents'[h] \in Documents
             /\ torrents[h] = NoRow => documents'[h] = NoDocument
             /\ Right(h) \/ InBatch(h) => documents'[h] = search_document(torrents[h])
             /\ HasContent(torrents[h]) /\ documents[h] # NoDocument => documents'[h] # NoDocument
  <2>1. torrents[h] \in Rows /\ documents[h] \in Documents
    BY <1>1
  <2>2. /\ search_document(torrents[h]) \in Documents
        /\ search_document(torrents[h]) = NoDocument <=> ~HasContent(torrents[h])
    BY <2>1, RowFacts
  <2>3. torrents[h] = NoRow => documents[h] = NoDocument /\ ~HasContent(torrents[h])
    BY RowValues DEF IndexInv, DocumentsInv
  <2>4. torrents'[h] = torrents[h]
    BY <1>2
  <2> QED
    BY <1>6, <2>1, <2>2, <2>3, <2>4 DEF Right
<1>8. IndexType'
  <2>1. documents' \in [Hashes -> Documents]
    BY <1>7 DEF replace_search_documents
  <2> QED
    BY <1>1, <1>2, <1>4, <2>1 DEF IndexInv, IndexType
<1>9. RebuildInv'
  BY <1>3, <1>4, <1>5, EmptyBytes DEF RebuildInv
<1>10. ReadInv'
  BY <1>2, <1>4, EmptyRange DEF IndexInv, ReadInv
<1>11. DocumentsInv'
  <2>1. /\ exact => \A h \in Hashes : Right(h)
        /\ \A h \in Hashes : ~HasContent(torrents[h]) => Right(h)
        /\ \A h \in Hashes : HasContent(torrents[h]) /\ h <= rebuild.after
                               => h \in rebuild.page \/ InBatch(h) \/ Right(h)
        /\ \A h \in rebuild.had : HasContent(torrents[h]) => documents[h] # NoDocument
    BY <1>2 DEF IndexInv, DocumentsInv
  <2>2. rebuild.had \in SUBSET Hashes
    BY <1>1, RebuildFields
  <2>3. \A h \in Hashes : torrents'[h] = NoRow => documents'[h] = NoDocument
    BY <1>2, <1>7
  <2>4. ASSUME exact', NEW h \in Hashes PROVE Right(h)'
    BY <1>2, <1>7, <2>1, <2>4 DEF Right
  <2>5. ASSUME NEW h \in Hashes, ~HasContent(torrents'[h]) PROVE Right(h)'
    BY <1>2, <1>7, <2>1, <2>5 DEF Right
  <2>6. ASSUME NEW h \in Hashes, HasContent(torrents'[h]), h <= rebuild'.after
        PROVE  h \in rebuild'.page \/ Right(h)'
    BY <1>2, <1>4, <1>7, <2>1, <2>6 DEF Right
  <2>7. \A h \in rebuild'.had : HasContent(torrents'[h]) => documents'[h] # NoDocument
    BY <1>2, <1>4, <1>7, <2>1, <2>2
  <2> QED
    BY <2>3, <2>4, <2>5, <2>6, <2>7 DEF DocumentsInv
<1> QED
  BY <1>8, <1>9, <1>10, <1>11 DEF IndexInv

LEMMA FailStep ==
    ASSUME IndexInv, RebuildFails
    PROVE  IndexInv'
<1>1. exact \in BOOLEAN /\ (exact => \A h \in Hashes : Right(h))
  BY DEF IndexInv, IndexType, DocumentsInv
<1> QED
  BY <1>1, OverStep DEF RebuildFails

\* The invariant is inductive, whatever the web service does in between.
THEOREM IndexInvariance == Spec => []IndexInv
<1>1. Init => IndexInv
  <2> SUFFICES ASSUME Init PROVE IndexInv
    OBVIOUS
  <2>1. /\ torrents \in [Hashes -> Rows] /\ documents \in [Hashes -> Documents]
        /\ \A h \in Hashes : torrents[h] = NoRow => documents[h] = NoDocument
        /\ limit \in Limits /\ rebuild = NoRebuild /\ exact = FALSE
    BY DEF Init, IndexInit
  <2>2. IndexType
    BY <2>1, NoRebuildFields DEF IndexType
  <2>3. RebuildInv
    BY <2>1, NoRebuildFields, EmptyBytes DEF RebuildInv
  <2>4. ReadInv
    BY <2>1, NoRebuildFields, EmptyRange DEF ReadInv
  <2>5. DocumentsInv
    BY <2>1, NoRebuildFields DEF DocumentsInv
  <2> QED
    BY <2>2, <2>3, <2>4, <2>5 DEF IndexInv
<1>2. IndexInv /\ [Next]_vars => IndexInv'
  <2> SUFFICES ASSUME IndexInv, [Next]_vars PROVE IndexInv'
    OBVIOUS
  <2>1. CASE UNCHANGED index
    BY <2>1, IndexStutter
  <2>2. CASE IndexStep
    <3>1. CASE Ingest
      BY <3>1, IngestStep
    <3>2. CASE ChangeLimit
      BY <3>2, LimitStep
    <3>3. CASE RebuildStep
      BY <3>3, DeleteObsoleteStep, FetchPageStep, BuildDocumentStep, ReplaceStep DEF RebuildStep
    <3>4. CASE RebuildFails
      BY <3>4, FailStep
    <3>5. CASE RebuildBegins
      BY <3>5, RebuildBeginsStep
    <3> QED
      BY <2>2, <3>1, <3>2, <3>3, <3>4, <3>5 DEF IndexStep
  <2> QED
    BY <2>1, <2>2 DEF Next, WebStep, vars
<1> QED
  BY <1>1, <1>2, PTL DEF Spec

\* Type correctness; and the batch a rebuild is about to write fits into the
\* packet limit that the rebuild has read, for any lengths of names and paths.
THEOREM TypeCorrect == Spec => []TypeOK
<1>1. IInv /\ IndexInv => TypeOK
  <2> SUFFICES ASSUME IInv, IndexInv PROVE TypeOK
    OBVIOUS
  <2>1. /\ torrents \in [Hashes -> Rows] /\ documents \in [Hashes -> Documents]
        /\ limit \in Limits /\ rebuild \in RebuildType
    BY DEF IndexInv, IndexType
  <2>2. rebuild.step \in {"idle", "obsolete", "page", "build", "write"}
    BY <2>1, RebuildFields DEF RebuildSteps
  <2>3. BatchBytes(rebuild) <= rebuild.budget
    BY BytesIs DEF IndexInv, RebuildInv
  <2>4. \A r \in Requests : requests[r].class \in Classes \cup {""}
    BY DEF IInv, WebType, RequestInv, RequestType
  <2>5. /\ web \in {"stopped", "running", "draining", "ended"}
        /\ window \in [Counters -> Nat] /\ emitted \in [Counters -> Nat] /\ active \in Nat
    BY DEF IInv, WebType
  <2> QED
    BY <2>1, <2>2, <2>3, <2>4, <2>5 DEF TypeOK
<1> QED
  BY <1>1, Invariance, IndexInvariance, PTL

------------------------------------------------------------------------------
(***************************************************************************)
(* The pages of a search.                                                  *)
(***************************************************************************)
LEMMA InOrderIs ==
    ASSUME NEW S, S \subseteq Hashes
    PROVE  /\ InOrder(S) \in [1 .. Cardinality(S) -> S] /\ Ordered(InOrder(S), S)
           /\ Cardinality(S) \in Nat /\ Cardinality(S) <= N
<1>1. Hashes = 1 .. N /\ N \in Nat /\ Cardinality(S) \in Nat /\ Cardinality(S) <= N
  BY HashesFinite
<1>2. CanOrder(S)
  BY <1>1, OrderExists
<1> QED
  BY <1>1, <1>2 DEF CanOrder, Ordered, InOrder

\* The rows after the a-th up to the b-th.
Portion(R, a, b) == [x \in 1 .. b - a |-> R[a + x]]

Within(H, n, R, a, b) ==
    /\ n \in Nat /\ R \in [1 .. n -> H]
    /\ a \in Nat /\ b \in Nat /\ a <= b /\ b <= n

LEMMA PortionIs ==
    ASSUME NEW H, NEW n, NEW R, NEW a, NEW b, Within(H, n, R, a, b)
    PROVE  /\ Portion(R, a, b) \in Seq(H) /\ Len(Portion(R, a, b)) = b - a
           /\ \A x \in 1 .. b - a : Portion(R, a, b)[x] = R[a + x]
<1>0. /\ n \in Nat /\ R \in [1 .. n -> H]
      /\ a \in Nat /\ b \in Nat /\ a <= b /\ b <= n
  BY DEF Within
<1>1. b - a \in Nat /\ \A x \in 1 .. b - a : a + x \in 1 .. n
  BY <1>0
<1>2. Portion(R, a, b) \in [1 .. b - a -> H]
  BY <1>0, <1>1 DEF Portion
<1>3. Portion(R, a, b) \in Seq(H)
  BY <1>1, <1>2
<1>4. Len(Portion(R, a, b)) = b - a
  BY <1>1, <1>2, <1>3
<1> QED
  BY <1>3, <1>4 DEF Portion

LEMMA PortionsJoin ==
    ASSUME NEW H, NEW n, NEW R, NEW a, NEW b, Within(H, n, R, a, b)
    PROVE  Portion(R, 0, a) \o Portion(R, a, b) = Portion(R, 0, b)
<1>0. a \in Nat /\ b \in Nat /\ a <= b
  BY DEF Within
<1> DEFINE p == Portion(R, 0, a)
           q == Portion(R, a, b)
           r == Portion(R, 0, b)
<1>1. p \in Seq(H) /\ Len(p) = a /\ \A x \in 1 .. a : p[x] = R[x]
  <2>1. Within(H, n, R, 0, a)
    BY DEF Within
  <2>2. a - 0 = a /\ \A x \in 1 .. a : 0 + x = x
    BY <1>0
  <2>3. p \in Seq(H) /\ Len(p) = a - 0 /\ \A x \in 1 .. a - 0 : p[x] = R[0 + x]
    BY <2>1, PortionIs
  <2> HIDE DEF p
  <2> QED
    BY <2>2, <2>3
<1>2. q \in Seq(H) /\ Len(q) = b - a /\ \A x \in 1 .. b - a : q[x] = R[a + x]
  BY PortionIs
<1>3. r \in Seq(H) /\ Len(r) = b /\ \A x \in 1 .. b : r[x] = R[x]
  <2>1. Within(H, n, R, 0, b)
    BY DEF Within
  <2>2. b - 0 = b /\ \A x \in 1 .. b : 0 + x = x
    BY <1>0
  <2>3. r \in Seq(H) /\ Len(r) = b - 0 /\ \A x \in 1 .. b - 0 : r[x] = R[0 + x]
    BY <2>1, PortionIs
  <2> HIDE DEF r
  <2> QED
    BY <2>2, <2>3
<1> HIDE DEF p, q, r
<1>4. /\ p \o q \in Seq(H) /\ Len(p \o q) = b
      /\ \A x \in 1 .. b : (p \o q)[x] = IF x <= a THEN p[x] ELSE q[x - a]
  <2>1. /\ p \o q \in Seq(H) /\ Len(p \o q) = Len(p) + Len(q)
        /\ \A x \in 1 .. Len(p) + Len(q) :
             (p \o q)[x] = IF x <= Len(p) THEN p[x] ELSE q[x - Len(p)]
    BY <1>1, <1>2, ConcatProperties
  <2>2. a + (b - a) = b
    BY <1>0
  <2> QED
    BY <1>1, <1>2, <2>1, <2>2
<1>5. ASSUME NEW x \in 1 .. b PROVE (p \o q)[x] = r[x]
  <2>1. CASE x <= a
    BY <1>0, <1>1, <1>3, <1>4, <2>1
  <2>2. CASE ~(x <= a)
    <3>1. x - a \in 1 .. b - a /\ a + (x - a) = x
      BY <1>0, <2>2
    <3> QED
      BY <1>2, <1>3, <1>4, <2>2, <3>1
  <2> QED
    BY <2>1, <2>2
<1>6. p \o q = r
  BY <1>3, <1>4, <1>5, SeqEqual
<1> QED
  BY <1>6 DEF p, q, r

\* A sequence of portions, each from where the one before ends, is flattened to
\* one portion.
Cuts(P, R, k, n, cut) ==
    /\ cut \in [0 .. k -> 0 .. n] /\ cut[0] = 0
    /\ \A i \in 1 .. k : cut[i - 1] <= cut[i] /\ P[i] = Portion(R, cut[i - 1], cut[i])

InPortions(H, n, R, P, k, cut) ==
    /\ n \in Nat /\ R \in [1 .. n -> H] /\ k \in Nat /\ k # 0 /\ Len(P) = k
    /\ Cuts(P, R, k, n, cut)

LEMMA FlattenJoins ==
    ASSUME NEW H, NEW n, NEW R, NEW P, NEW k, NEW cut, InPortions(H, n, R, P, k, cut)
    PROVE  FlattenSeq(P) = Portion(R, 0, cut[k])
<1> USE DEF InPortions
<1> DEFINE g == [i \in 1 .. k |-> Portion(R, 0, cut[i])]
<1>1. ASSUME NEW i \in 1 .. k PROVE g[i] = IF i = 1 THEN P[i] ELSE g[i - 1] \o P[i]
  <2>1. g[i] = Portion(R, 0, cut[i]) /\ P[i] = Portion(R, cut[i - 1], cut[i])
    BY DEF Cuts
  <2>2. CASE i = 1
    <3>1. i - 1 = 0 /\ cut[i - 1] = 0
      BY <2>2 DEF Cuts
    <3> QED
      BY <2>1, <2>2, <3>1
  <2>3. CASE i # 1
    <3>1. i - 1 \in 1 .. k /\ i - 1 \in 0 .. k /\ i \in 0 .. k
      BY <2>3
    <3>2. g[i - 1] = Portion(R, 0, cut[i - 1])
      BY <3>1
    <3>3. Within(H, n, R, cut[i - 1], cut[i])
      BY <3>1 DEF Cuts, Within
    <3>4. Portion(R, 0, cut[i - 1]) \o Portion(R, cut[i - 1], cut[i]) = Portion(R, 0, cut[i])
      BY <3>3, PortionsJoin
    <3> HIDE DEF g
    <3> QED
      BY <2>1, <2>3, <3>2, <3>4
  <2> QED
    BY <2>2, <2>3
<1>2. IsFlat(P, k, g)
  <2>1. PICK f : f = g
    OBVIOUS
  <2>2. DOMAIN f = 1 .. k /\ f = [i \in 1 .. k |-> f[i]]
    BY <2>1
  <2>3. \A i \in 1 .. k : f[i] = IF i = 1 THEN P[i] ELSE f[i - 1] \o P[i]
    BY <1>1, <2>1
  <2>4. f = [i \in 1 .. k |-> IF i = 1 THEN P[i] ELSE f[i - 1] \o P[i]]
    BY <2>2, <2>3
  <2> QED
    BY <2>1, <2>4 DEF IsFlat
<1>3. g[k] = Portion(R, 0, cut[k])
  OBVIOUS
<1> HIDE DEF g
<1> DEFINE f == CHOOSE x : IsFlat(P, k, x)
<1>4. IsFlat(P, k, f)
  BY <1>2
<1>5. FlattenSeq(P) = f[k]
  BY FlattenIs
<1> HIDE DEF f
<1>6. f[k] = g[k]
  BY <1>2, <1>4, FlatUnique
<1> QED
  BY <1>3, <1>5, <1>6

\* One page, of rows in order.
PageOf(R, m, o) ==
    LET selected == SubSeq(R, o + 1, IF o + m + 1 < Len(R) THEN o + m + 1 ELSE Len(R))
    IN  [results |-> SubSeq(selected, 1, IF Len(selected) > m THEN m ELSE Len(selected)),
         has_next |-> Len(selected) > m]

LEMMA SubSeqIsPortion ==
    ASSUME NEW H, NEW n, NEW R, NEW a, NEW b, Within(H, n, R, a, b)
    PROVE  SubSeq(R, a + 1, b) = Portion(R, a, b)
<1>0. /\ n \in Nat /\ R \in [1 .. n -> H]
      /\ a \in Nat /\ b \in Nat /\ a <= b /\ b <= n
  BY DEF Within
<1>1. Portion(R, a, b) \in Seq(H) /\ Len(Portion(R, a, b)) = b - a
      /\ \A x \in 1 .. b - a : Portion(R, a, b)[x] = R[a + x]
  BY PortionIs
<1> DEFINE c == a + 1
           s == SubSeq(R, c, b)
<1>2. c \in Int /\ b \in Int /\ \A i \in c .. b : R[i] \in H
  BY <1>0
<1>3. /\ s \in Seq(H) /\ Len(s) = IF c <= b THEN b - c + 1 ELSE 0
      /\ \A i \in 1 .. b - c + 1 : s[i] = R[c + i - 1]
  <2> HIDE DEF c
  <2> QED
    BY <1>2, SubSeqProperties
<1>4. Len(s) = b - a
  <2> HIDE DEF s
  <2> QED
    BY <1>0, <1>3
<1>5. ASSUME NEW i \in 1 .. b - a PROVE s[i] = R[a + i]
  <2>1. i \in 1 .. b - c + 1 /\ c + i - 1 = a + i
    BY <1>0
  <2> HIDE DEF s, c
  <2> QED
    BY <1>3, <2>1
<1> HIDE DEF s, c
<1>6. s = Portion(R, a, b)
  BY <1>1, <1>3, <1>4, <1>5, SeqEqual
<1> QED
  BY <1>6 DEF s, c

Pages(H, n, R, m, o) ==
    /\ n \in Nat /\ R \in [1 .. n -> H] /\ m \in Nat /\ m > 0
    /\ o \in Nat /\ o <= n

LEMMA PageIs ==
    ASSUME NEW H, NEW n, NEW R, NEW m, NEW o, Pages(H, n, R, m, o)
    PROVE  /\ PageOf(R, m, o).has_next <=> o + m < n
           /\ PageOf(R, m, o).results = Portion(R, o, IF o + m < n THEN o + m ELSE n)
<1> USE DEF Pages
<1>1. Len(R) = n
  <2>1. R \in Seq(H)
    OBVIOUS
  <2> QED
    BY <2>1
<1> DEFINE e == IF o + m + 1 < n THEN o + m + 1 ELSE n
           selected == Portion(R, o, e)
           t == IF Len(selected) > m THEN m ELSE Len(selected)
<1>2. PageOf(R, m, o) = [results |-> SubSeq(SubSeq(R, o + 1, e), 1,
                                            IF Len(SubSeq(R, o + 1, e)) > m THEN m
                                            ELSE Len(SubSeq(R, o + 1, e))),
                         has_next |-> Len(SubSeq(R, o + 1, e)) > m]
  BY <1>1 DEF PageOf
<1>3. e \in Nat /\ o <= e /\ e <= n /\ (e - o > m <=> o + m < n)
      /\ (~(o + m < n) => e = n)
  OBVIOUS
<1> HIDE DEF e
<1>4. Within(H, n, R, o, e)
  BY <1>3 DEF Within
<1>5. SubSeq(R, o + 1, e) = selected
  BY <1>4, SubSeqIsPortion
<1>6. /\ selected \in Seq(H) /\ Len(selected) = e - o
      /\ \A x \in 1 .. e - o : selected[x] = R[o + x]
  BY <1>4, PortionIs
<1> HIDE DEF selected
<1>7. PageOf(R, m, o) = [results |-> SubSeq(selected, 1, t), has_next |-> Len(selected) > m]
  BY <1>2, <1>5
<1>8. t \in Nat /\ t <= e - o /\ t = (IF o + m < n THEN o + m ELSE n) - o
  BY <1>3, <1>6
<1> HIDE DEF t
<1>9. SubSeq(selected, 1, t) = Portion(R, o, IF o + m < n THEN o + m ELSE n)
  <2> DEFINE b == IF o + m < n THEN o + m ELSE n
             s == SubSeq(selected, 1, t)
  <2>1. b \in Nat /\ o <= b /\ b <= n /\ t = b - o
    BY <1>8
  <2> HIDE DEF b
  <2>2. Within(H, n, R, o, b)
    BY <2>1 DEF Within
  <2>3. /\ Portion(R, o, b) \in Seq(H) /\ Len(Portion(R, o, b)) = b - o
        /\ \A x \in 1 .. b - o : Portion(R, o, b)[x] = R[o + x]
    BY <2>2, PortionIs
  <2>4. 1 \in Int /\ t \in Int /\ \A i \in 1 .. t : selected[i] \in H
    <3>1. \A i \in 1 .. t : i \in 1 .. Len(selected)
      BY <1>3, <1>6, <1>8
    <3> QED
      BY <1>6, <1>8, <3>1
  <2>5. /\ s \in Seq(H) /\ Len(s) = IF 1 <= t THEN t - 1 + 1 ELSE 0
        /\ \A i \in 1 .. t - 1 + 1 : s[i] = selected[1 + i - 1]
    BY <2>4, SubSeqProperties
  <2> HIDE DEF s
  <2>6. Len(s) = b - o
    BY <1>8, <2>1, <2>5
  <2>7. ASSUME NEW i \in 1 .. b - o PROVE s[i] = R[o + i]
    <3>1. i \in 1 .. t - 1 + 1 /\ 1 + i - 1 = i /\ i \in 1 .. e - o
      BY <1>3, <1>8, <2>1
    <3> QED
      BY <1>6, <2>5, <3>1
  <2>8. s = Portion(R, o, b)
    BY <2>3, <2>5, <2>6, <2>7, SeqEqual
  <2> QED
    BY <2>8 DEF s, b
<1>10. PageOf(R, m, o).has_next = (Len(selected) > m)
       /\ PageOf(R, m, o).results = SubSeq(selected, 1, t)
  <2>1. PICK more : more = (Len(selected) > m)
    OBVIOUS
  <2>2. PICK shown : shown = SubSeq(selected, 1, t)
    OBVIOUS
  <2>3. PageOf(R, m, o) = [results |-> shown, has_next |-> more]
    BY <1>7, <2>1, <2>2, Zenon
  <2>4. PageOf(R, m, o).has_next = more /\ PageOf(R, m, o).results = shown
    BY <2>3
  <2> QED
    BY <2>1, <2>2, <2>4, Zenon
<1> QED
  BY <1>3, <1>6, <1>9, <1>10

\* The pages a client reaches, and what it reads.
Reached(R, m) == {k \in 0 .. N : \A j \in 0 .. k - 1 : PageOf(R, m, j * m).has_next}
FollowedOf(R, m) ==
    FlattenSeq([i \in 1 .. Cardinality(Reached(R, m)) |-> PageOf(R, m, (i - 1) * m).results])

LEMMA Multiples ==
    ASSUME NEW m \in Nat, m > 0
    PROVE  /\ 0 * m = 0
           /\ \A j \in Nat : j * m \in Nat /\ (j + 1) * m = j * m + m /\ j <= j * m
OBVIOUS

\* The last page is the first one that reaches the last row.
LastPage(l, m, n) ==
    /\ l \in Nat /\ n <= l * m + m /\ l * m <= n
    /\ \A j \in Nat : j < l => j * m + m < n

LEMMA LastExists ==
    ASSUME NEW m \in Nat, m > 0, NEW n \in Nat
    PROVE  \E l \in Nat : LastPage(l, m, n) /\ (l <= n)
<1> DEFINE T == {k \in Nat : n <= k * m + m}
<1>1. n \in T
  <2>1. n * m \in Nat /\ n <= n * m
    BY Multiples
  <2> QED
    BY <2>1
<1>2. PICK l \in T : \A k \in T : l <= k
  <2>1. T \subseteq Nat /\ T # {}
    BY <1>1
  <2> HIDE DEF T
  <2> QED
    BY <2>1, LeastNatural
<1>3. l \in Nat /\ n <= l * m + m
  OBVIOUS
<1>4. ASSUME NEW j \in Nat, j < l PROVE j * m + m < n
  <2>1. j \notin T
    BY <1>2, <1>3, <1>4
  <2>2. ~(n <= j * m + m) /\ j * m \in Nat
    BY <2>1, Multiples
  <2> QED
    BY <2>2
<1>5. l * m <= n
  <2>1. CASE l = 0
    BY <2>1, Multiples
  <2>2. CASE l # 0
    <3>1. PICK j \in Nat : l = j + 1
      <4>1. l - 1 \in Nat /\ l = (l - 1) + 1
        BY <1>3, <2>2
      <4> QED
        BY <4>1
    <3>2. j * m + m < n /\ j * m \in Nat /\ l * m = j * m + m
      BY <1>3, <1>4, <3>1, Multiples
    <3> QED
      BY <3>2
  <2> QED
    BY <2>1, <2>2
<1>6. l <= n
  BY <1>1, <1>2
<1> HIDE DEF T
<1> QED
  BY <1>3, <1>4, <1>5, <1>6 DEF LastPage

LEMMA ReachedIs ==
    ASSUME NEW H, NEW n \in Nat, n <= N, NEW R \in [1 .. n -> H], NEW m \in Nat, m > 0,
           NEW l \in Nat, LastPage(l, m, n), l <= n
    PROVE  Reached(R, m) = 0 .. l /\ Cardinality(Reached(R, m)) = l + 1
<1>1. N \in Nat
  BY HashesFinite
<1>2. ASSUME NEW j \in Nat, j <= l PROVE PageOf(R, m, j * m).has_next <=> j * m + m < n
  <2>1. j * m \in Nat /\ j * m <= n
    <3>1. j * m \in Nat
      BY Multiples
    <3>2. CASE j = l
      BY <3>1, <3>2 DEF LastPage
    <3>3. CASE j # l
      <4>1. j < l
        BY <1>2, <3>3
      <4>2. j * m + m < n
        BY <4>1 DEF LastPage
      <4> QED
        BY <3>1, <4>2
    <3> QED
      BY <3>1, <3>2, <3>3
  <2>2. Pages(H, n, R, m, j * m)
    BY <2>1 DEF Pages
  <2> QED
    BY <2>2, PageIs
<1>3. ASSUME NEW k \in 0 .. N PROVE k \in Reached(R, m) <=> k \in 0 .. l
  <2>1. CASE k <= l
    <3>1. ASSUME NEW j \in 0 .. k - 1 PROVE PageOf(R, m, j * m).has_next
      <4>1. j \in Nat /\ j < l /\ j <= l
        BY <2>1
      <4>2. j * m + m < n
        BY <4>1 DEF LastPage
      <4> QED
        BY <1>2, <4>1, <4>2
    <3> QED
      BY <2>1, <3>1 DEF Reached
  <2>2. CASE ~(k <= l)
    <3>1. l \in 0 .. k - 1
      BY <2>2
    <3>2. ~(l * m + m < n)
      <4>1. l * m \in Nat /\ n <= l * m + m
        BY Multiples DEF LastPage
      <4> QED
        BY <4>1
    <3>3. ~PageOf(R, m, l * m).has_next
      BY <1>2, <3>2
    <3>4. k \notin Reached(R, m)
      BY <3>1, <3>3, Zenon DEF Reached
    <3>5. k \notin 0 .. l
      BY <2>2
    <3> QED
      BY <3>4, <3>5
  <2> QED
    BY <2>1, <2>2
<1>4. Reached(R, m) = 0 .. l
  <2>1. Reached(R, m) \subseteq 0 .. N
    BY DEF Reached
  <2>2. 0 .. l \subseteq 0 .. N
    BY <1>1
  <2> QED
    BY <1>3, <2>1, <2>2
<1>5. Cardinality(0 .. l) = l + 1
  <2>1. Cardinality(0 .. l) = IF 0 > l THEN 0 ELSE l - 0 + 1
    BY FS_Interval
  <2> QED
    BY <2>1
<1> QED
  BY <1>4, <1>5

\* Following has_next, a client reads the rows, each once and in their order.
LEMMA FollowedIs ==
    ASSUME NEW H, NEW n \in Nat, n <= N, NEW R \in [1 .. n -> H], NEW m \in Nat, m > 0
    PROVE  FollowedOf(R, m) = R
<1>1. PICK l \in Nat : LastPage(l, m, n) /\ l <= n
  BY LastExists
<1>2. Cardinality(Reached(R, m)) = l + 1
  BY <1>1, ReachedIs
<1> DEFINE P == [i \in 1 .. l + 1 |-> PageOf(R, m, (i - 1) * m).results]
           cut == [i \in 0 .. l + 1 |-> IF i <= l THEN i * m ELSE n]
<1>3. FollowedOf(R, m) = FlattenSeq(P)
  BY <1>2 DEF FollowedOf
<1>4. \A i \in 0 .. l : i * m \in Nat /\ i * m <= n
  <2> SUFFICES ASSUME NEW i \in 0 .. l PROVE i * m \in Nat /\ i * m <= n
    OBVIOUS
  <2>1. i \in Nat /\ i * m \in Nat
    BY Multiples
  <2>2. CASE i = l
    BY <1>1, <2>1, <2>2 DEF LastPage
  <2>3. CASE i # l
    <3>1. i < l
      BY <2>3
    <3>2. i * m + m < n
      BY <1>1, <2>1, <3>1 DEF LastPage
    <3> QED
      BY <2>1, <3>2
  <2> QED
    BY <2>1, <2>2, <2>3
<1>5. cut \in [0 .. l + 1 -> 0 .. n] /\ cut[0] = 0 /\ cut[l + 1] = n
  <2>1. \A i \in 0 .. l + 1 : i <= l => i \in 0 .. l
    OBVIOUS
  <2>2. \A i \in 0 .. l + 1 : cut[i] \in 0 .. n
    BY <1>4, <2>1
  <2>3. cut[0] = 0 /\ cut[l + 1] = n
    BY Multiples
  <2> QED
    BY <2>2, <2>3
<1>6. ASSUME NEW i \in 1 .. l + 1
      PROVE  cut[i - 1] <= cut[i] /\ P[i] = Portion(R, cut[i - 1], cut[i])
  <2>1. PICK j \in 0 .. l : i = j + 1 /\ i - 1 = j
    <3>1. i - 1 \in 0 .. l /\ i = (i - 1) + 1
      OBVIOUS
    <3> QED
      BY <3>1
  <2>2. PICK o \in Nat : o = j * m /\ o <= n
    BY <1>4
  <2>3. cut[i - 1] = o /\ P[i] = PageOf(R, m, o).results
    BY <2>1, <2>2
  <2>4. cut[i] = IF o + m < n THEN o + m ELSE n
    <3>1. j \in Nat /\ i * m = o + m
      BY <2>1, <2>2, Multiples
    <3>2. cut[i] = IF i <= l THEN i * m ELSE n
      BY <2>1
    <3>3. CASE j = l
      <4>1. ~(i <= l) /\ n <= o + m
        BY <1>1, <2>1, <2>2, <3>3 DEF LastPage
      <4> QED
        BY <3>1, <3>2, <4>1
    <3>4. CASE j # l
      <4>1. i <= l /\ j < l
        BY <2>1, <3>4
      <4>2. o + m < n
        BY <1>1, <2>2, <3>1, <4>1 DEF LastPage
      <4> QED
        BY <3>1, <3>2, <4>1, <4>2
    <3> QED
      BY <3>3, <3>4
  <2> HIDE DEF cut, P
  <2>5. P[i] = Portion(R, o, IF o + m < n THEN o + m ELSE n)
    <3>1. PageOf(R, m, o).results = Portion(R, o, IF o + m < n THEN o + m ELSE n)
      <4>1. Pages(H, n, R, m, o)
        BY <2>2 DEF Pages
      <4> QED
        BY <4>1, PageIs
    <3> QED
      BY <2>3, <3>1, Zenon
  <2>6. cut[i - 1] <= cut[i]
    BY <2>2, <2>3, <2>4
  <2> QED
    BY <2>3, <2>4, <2>5, <2>6
<1>7. Len(P) = l + 1
  <2>1. PICK D : \A i \in 1 .. l + 1 : P[i] \in D
    <3>1. \A i \in 1 .. l + 1 : P[i] \in {P[k] : k \in 1 .. l + 1}
      OBVIOUS
    <3> HIDE DEF P
    <3> QED
      BY <3>1
  <2>2. P \in [1 .. l + 1 -> D]
    BY <2>1
  <2>3. P \in Seq(D)
    <3> HIDE DEF P
    <3> QED
      BY <2>2
  <2>4. DOMAIN P = 1 .. l + 1 /\ l + 1 \in Nat
    OBVIOUS
  <2> HIDE DEF P
  <2> QED
    BY <2>3, <2>4
<1> HIDE DEF P, cut
<1>8. Cuts(P, R, l + 1, n, cut)
  BY <1>5, <1>6 DEF Cuts
<1>9. FlattenSeq(P) = Portion(R, 0, cut[l + 1])
  <2>1. PICK e \in Nat : e = l + 1 /\ e # 0
    OBVIOUS
  <2>2. InPortions(H, n, R, P, e, cut)
    BY <1>7, <1>8, <2>1, Zenon DEF InPortions
  <2>3. FlattenSeq(P) = Portion(R, 0, cut[e])
    BY <2>2, FlattenJoins
  <2> QED
    BY <2>1, <2>3, Zenon
<1>10. Portion(R, 0, n) = R
  BY DEF Portion
<1> QED
  BY <1>3, <1>5, <1>9, <1>10

\* With the documents of the rows, a search selects what it is asked for.
LEMMA SearchSelects ==
    ASSUME IndexType, \A h \in Hashes : Right(h),
           NEW query, NEW complete_only
    PROVE  {h \in Hashes : Matches(query, h) /\ (complete_only => torrents[h].complete)}
             = Found(query, complete_only)
<1>1. ASSUME NEW h \in Hashes
      PROVE  documents[h].name = HasName(torrents[h]) /\ documents[h].paths = torrents[h].files
  <2>1. torrents[h] \in Rows /\ documents[h] = search_document(torrents[h])
    BY DEF IndexType, Right
  <2> QED
    BY <2>1, RowFacts
<1> QED
  BY <1>1 DEF Matches, Found

LEMMA PositivePages == ASSUME NEW most \in PageLimits PROVE most \in Nat /\ most > 0
BY IndexAssumption

LEMMA FollowedReads ==
    ASSUME IndexType, \A h \in Hashes : Right(h),
           NEW query, NEW complete_only, NEW m \in Nat, m > 0
    PROVE  Followed(query, complete_only, m) = InOrder(Found(query, complete_only))
<1> DEFINE S == {h \in Hashes : Matches(query, h) /\ (complete_only => torrents[h].complete)}
<1>1. S = Found(query, complete_only) /\ S \subseteq Hashes
  BY SearchSelects
<1>2. PICK R : R = InOrder(S)
  OBVIOUS
<1>3. ASSUME NEW o PROVE search_torrents_filtered_page(query, complete_only, m, o) = PageOf(R, m, o)
  BY <1>2 DEF search_torrents_filtered_page, PageOf
<1>4. Followed(query, complete_only, m) = FollowedOf(R, m)
  <2> DEFINE page(j) == search_torrents_filtered_page(query, complete_only, m, j * m)
             reached == {k \in 0 .. N : \A j \in 0 .. k - 1 : page(j).has_next}
  <2>1. \A j : page(j) = PageOf(R, m, j * m)
    BY <1>3, Zenon
  <2>2. Followed(query, complete_only, m)
          = FlattenSeq([i \in 1 .. Cardinality(reached) |-> page(i - 1).results])
    BY Zenon DEF Followed
  <2> HIDE DEF page
  <2>3. reached = Reached(R, m)
    BY <2>1 DEF Reached
  <2> HIDE DEF reached
  <2>4. [i \in 1 .. Cardinality(reached) |-> page(i - 1).results]
          = [i \in 1 .. Cardinality(Reached(R, m)) |-> PageOf(R, m, (i - 1) * m).results]
    BY <2>1, <2>3
  <2> QED
    BY <2>2, <2>4, Zenon DEF FollowedOf
<1>5. InOrder(S) \in [1 .. Cardinality(S) -> S] /\ Cardinality(S) \in Nat /\ Cardinality(S) <= N
  <2> HIDE DEF S
  <2> QED
    BY <1>1, InOrderIs
<1> HIDE DEF S
<1>6. FollowedOf(R, m) = R
  <2>1. PICK n \in Nat : n = Cardinality(S) /\ n <= N
    BY <1>5
  <2>2. R \in [1 .. n -> S]
    BY <1>2, <1>5, <2>1
  <2> QED
    BY <2>1, <2>2, FollowedIs
<1> QED
  BY <1>1, <1>2, <1>4, <1>6

\* Once a rebuild has completed the documents are those of the rows, and a client
\* that follows has_next reads every torrent with the text it asks for exactly
\* once and none else, for any number of torrents and any page size; and no
\* rebuild, completed, running or failed, leaves a torrent with content without
\* the document it had.
THEOREM SearchesSound == Spec => []IndexSound
<1>1. IndexInv => IndexSound
  <2> SUFFICES ASSUME IndexInv PROVE IndexSound
    OBVIOUS
  <2>1. ASSUME exact, NEW query \in {"", "name", "paths"}, NEW complete_only \in BOOLEAN,
               NEW most \in PageLimits
        PROVE  Followed(query, complete_only, most) = InOrder(Found(query, complete_only))
    <3>1. IndexType /\ \A h \in Hashes : Right(h)
      BY <2>1 DEF IndexInv, DocumentsInv
    <3>2. most \in Nat /\ most > 0
      BY PositivePages
    <3> QED
      BY <3>1, <3>2, FollowedReads
  <2>2. \A h \in rebuild.had :
          HasName(torrents[h]) \/ torrents[h].files => documents[h] # NoDocument
    BY DEF IndexInv, DocumentsInv, HasContent
  <2> QED
    BY <2>1, <2>2 DEF IndexSound
<1> QED
  BY <1>1, IndexInvariance, PTL
==============================================================================
