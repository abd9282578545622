--------------------------- MODULE SchedulerProofs ---------------------------
(***************************************************************************)
(* Proofs about MetadataScheduler, for every set of hashes and peers and   *)
(* every value of the limits.                                              *)
(***************************************************************************)
EXTENDS MetadataScheduler, FiniteSetTheorems, TLAPS

(***************************************************************************)
(* The inductive invariant: the properties of MetadataScheduler and what   *)
(* they rest on.                                                           *)
(***************************************************************************)
\* A hash that is not tracked has no leftover peers.
Untracked == \A h \in Hashes \ jobs : peers[h] = <<>>

MemoryInv == NoStrandedJob /\ PendingPeersSound /\ Untracked

\* A hash whose worker panicked has no other worker; a process that is down
\* has none at all.
WorkersAlive ==
    /\ IsFiniteSet(workers)
    /\ mode = "running" => \A w \in workers : w.hash \notin lost
    /\ mode = "down" => jobs = {} /\ running = {} /\ workers = {} /\ lost = {}

WorkerInv == OneWorkerPerHash /\ WorkersAlive

\* The two parts of the schedule list a row at most once.
ScheduleInv ==
    /\ Distinct(zeroQ)
    /\ Distinct(pastQ)
    /\ Elems(zeroQ) \cap Elems(pastQ) = {}

TableInv == TableTypeOK /\ ScheduleInv /\ CompleteHasTerminalJob

\* What a round relies on, for worker w: the peer it downloads from is its
\* head, no row past the terminal check is marked invalid or unsupported, and
\* the peers still to try are different and eligible.
RoundOK(w) ==
    /\ Distinct(w.todo)
    /\ w.phase = "fetch" => w.todo # <<>>
    /\ w.phase \in {"filter", "attempt", "fetch"} =>
         status[w.hash] \notin {"invalid", "unsupported"}
    /\ w.phase = "attempt" =>
         \A i \in 1 .. Len(w.todo) : attempt[w.hash][w.todo[i]] = "none"
    /\ w.phase = "fetch" =>
         \A i \in 2 .. Len(w.todo) : attempt[w.hash][w.todo[i]] = "none"

RoundInv == \A w \in workers : RoundOK(w)

IInv == TypeOK /\ MemoryInv /\ WorkerInv /\ TableInv /\ RoundInv

------------------------------------------------------------------------------
(***************************************************************************)
(* Facts about the operators on sequences.                                 *)
(***************************************************************************)
\* Elems and Distinct in terms of Len.
LEMMA SeqFacts ==
    ASSUME NEW S, NEW s \in Seq(S)
    PROVE  /\ \A x : x \in Elems(s) <=> \E i \in 1 .. Len(s) : s[i] = x
           /\ Distinct(s) <=> \A i, j \in 1 .. Len(s) : s[i] = s[j] => i = j
           /\ Elems(s) \subseteq S
BY DEF Elems, Distinct

\* Length and elements of a concatenation.
LEMMA ConcatBasics ==
    ASSUME NEW S, NEW s \in Seq(S), NEW t \in Seq(S)
    PROVE  /\ s \o t \in Seq(S)
           /\ Len(s \o t) = Len(s) + Len(t)
           /\ \A i \in 1 .. Len(s) + Len(t) :
                (s \o t)[i] = IF i <= Len(s) THEN s[i] ELSE t[i - Len(s)]
OBVIOUS

\* Removing an element from a queue without duplicates (retain) leaves the
\* others, once each.
LEMMA WithoutFacts ==
    ASSUME NEW S, NEW s \in Seq(S), NEW e, Distinct(s)
    PROVE  /\ Without(s, e) \in Seq(S)
           /\ Distinct(Without(s, e))
           /\ Elems(Without(s, e)) = Elems(s) \ {e}
<1>1. CASE e \notin Elems(s)
  BY <1>1 DEF Without
<1>2. CASE e \in Elems(s)
  <2> DEFINE k == CHOOSE i \in DOMAIN s : s[i] = e
             a == SubSeq(s, 1, k - 1)
             b == SubSeq(s, k + 1, Len(s))
  <2>1. k \in 1 .. Len(s) /\ s[k] = e
    BY <1>2 DEF Elems
  <2>2. Without(s, e) = a \o b
    BY <1>2 DEF Without
  <2> HIDE DEF k
  <2>3. /\ a \in Seq(S) /\ b \in Seq(S) /\ Len(a) = k - 1 /\ Len(b) = Len(s) - k
        /\ \A i \in 1 .. k - 1 : a[i] = s[i]
        /\ \A i \in 1 .. Len(s) - k : b[i] = s[k + i]
    BY <2>1
  <2> HIDE DEF a, b
  <2> DEFINE c == a \o b
  <2>4. /\ c \in Seq(S) /\ Len(c) = Len(a) + Len(b)
        /\ \A i \in 1 .. Len(a) + Len(b) :
             c[i] = IF i <= Len(a) THEN a[i] ELSE b[i - Len(a)]
    BY <2>3, ConcatBasics
  <2> HIDE DEF c
  <2>c. /\ c \in Seq(S) /\ Len(c) = Len(s) - 1
        /\ \A i \in 1 .. Len(s) - 1 : c[i] = IF i < k THEN s[i] ELSE s[i + 1]
    <3>0. /\ Len(s) \in Nat /\ k \in Nat /\ k >= 1 /\ k <= Len(s)
          /\ Len(a) + Len(b) = Len(s) - 1
      BY <2>1, <2>3
    <3>1. c \in Seq(S) /\ Len(c) = Len(s) - 1
      BY <2>4, <3>0
    <3>2. ASSUME NEW i \in 1 .. Len(s) - 1
          PROVE  c[i] = IF i < k THEN s[i] ELSE s[i + 1]
      <4>1. CASE i < k
        <5>0. i \in 1 .. k - 1 /\ i \in 1 .. Len(a) + Len(b) /\ i <= Len(a)
          BY <2>3, <3>0, <4>1
        <5>1. c[i] = a[i]
          BY <2>4, <5>0
        <5> QED
          BY <2>3, <4>1, <5>0, <5>1
      <4>2. CASE i >= k
        <5>0. /\ i - (k - 1) \in 1 .. Len(s) - k
              /\ i \in 1 .. Len(a) + Len(b) /\ ~(i <= Len(a))
          BY <2>3, <3>0, <4>2
        <5>1. i - (k - 1) \in 1 .. Len(s) - k /\ c[i] = b[i - (k - 1)]
          BY <2>3, <2>4, <5>0
        <5>2. b[i - (k - 1)] = s[k + (i - (k - 1))]
          BY <2>3, <5>1
        <5>3. k + (i - (k - 1)) = i + 1
          BY <3>0
        <5> QED
          BY <3>0, <4>2, <5>1, <5>2, <5>3
      <4> QED
        BY <3>0, <4>1, <4>2
    <3> QED
      BY <3>1, <3>2
  <2>d. \A i, j \in 1 .. Len(s) : s[i] = s[j] => i = j
    BY SeqFacts
  <2>6. Distinct(c)
    <3>1. \A i, j \in 1 .. Len(c) : c[i] = c[j] => i = j
      BY <2>1, <2>c, <2>d
    <3> QED
      BY <2>c, <3>1, SeqFacts
  <2>7. Elems(c) = Elems(s) \ {e}
    <3>1. ASSUME NEW x \in Elems(c) PROVE x \in Elems(s) \ {e}
      <4>1. PICK i \in 1 .. Len(s) - 1 : c[i] = x
        BY <2>c, SeqFacts
      <4>2. PICK j \in 1 .. Len(s) : j # k /\ s[j] = x
        BY <2>1, <2>c, <4>1
      <4> QED
        BY <2>1, <2>d, <4>2, SeqFacts
    <3>2. ASSUME NEW x \in Elems(s) \ {e} PROVE x \in Elems(c)
      <4>1. PICK i \in 1 .. Len(s) : s[i] = x
        BY SeqFacts
      <4>2. i # k
        BY <2>1, <4>1
      <4>3. CASE i < k
        <5>1. i \in 1 .. Len(c) /\ c[i] = x
          BY <2>1, <2>c, <4>1, <4>3
        <5> QED
          BY <2>c, <5>1, SeqFacts
      <4>4. CASE i > k
        <5>1. i - 1 \in 1 .. Len(c) /\ c[i - 1] = x
          BY <2>1, <2>c, <4>1, <4>4
        <5> QED
          BY <2>c, <5>1, SeqFacts
      <4> QED
        BY <2>1, <4>2, <4>3, <4>4
    <3> QED
      BY <3>1, <3>2
  <2> QED
    BY <2>2, <2>c, <2>6, <2>7 DEF c
<1> QED
  BY <1>1, <1>2

\* Appending a new element to a queue without duplicates.
LEMMA AppendFacts ==
    ASSUME NEW S, NEW s \in Seq(S), NEW e \in S, Distinct(s), e \notin Elems(s)
    PROVE  /\ Append(s, e) \in Seq(S)
           /\ Distinct(Append(s, e))
           /\ Elems(Append(s, e)) = Elems(s) \cup {e}
<1>1. /\ Append(s, e) \in Seq(S)
      /\ Len(Append(s, e)) = Len(s) + 1
      /\ \A i \in 1 .. Len(s) : Append(s, e)[i] = s[i]
      /\ Append(s, e)[Len(s) + 1] = e
  OBVIOUS
<1>2. Distinct(Append(s, e))
  BY <1>1 DEF Distinct, Elems
<1>3. Elems(Append(s, e)) = Elems(s) \cup {e}
  <2>1. ASSUME NEW x \in Elems(s) \cup {e} PROVE x \in Elems(Append(s, e))
    <3>1. CASE x = e
      BY <1>1, <3>1 DEF Elems
    <3>2. CASE x \in Elems(s)
      BY <1>1, <3>2 DEF Elems
    <3> QED
      BY <3>1, <3>2
  <2>2. ASSUME NEW x \in Elems(Append(s, e)) PROVE x \in Elems(s) \cup {e}
    BY <1>1 DEF Elems
  <2> QED
    BY <2>1, <2>2
<1> QED
  BY <1>1, <1>2, <1>3

\* Concatenating two queues without duplicates that share no element.
LEMMA ConcatFacts ==
    ASSUME NEW S, NEW s \in Seq(S), NEW t \in Seq(S), Distinct(s), Distinct(t),
           Elems(s) \cap Elems(t) = {}
    PROVE  /\ s \o t \in Seq(S)
           /\ Len(s \o t) = Len(s) + Len(t)
           /\ Distinct(s \o t)
           /\ Elems(s \o t) = Elems(s) \cup Elems(t)
<1>1. /\ s \o t \in Seq(S)
      /\ Len(s \o t) = Len(s) + Len(t)
      /\ \A i \in 1 .. Len(s) + Len(t) :
           (s \o t)[i] = IF i <= Len(s) THEN s[i] ELSE t[i - Len(s)]
  BY ConcatBasics
<1>2. Distinct(s \o t)
  <2> SUFFICES ASSUME NEW i \in 1 .. Len(s) + Len(t), NEW j \in 1 .. Len(s) + Len(t),
                      (s \o t)[i] = (s \o t)[j]
               PROVE  i = j
    BY <1>1 DEF Distinct
  <2>1. CASE i <= Len(s) /\ j <= Len(s)
    BY <1>1, <2>1 DEF Distinct
  <2>2. CASE i > Len(s) /\ j > Len(s)
    <3>1. i - Len(s) \in 1 .. Len(t) /\ j - Len(s) \in 1 .. Len(t)
      BY <2>2
    <3>2. t[i - Len(s)] = t[j - Len(s)]
      BY <1>1, <2>2
    <3> QED
      BY <3>1, <3>2 DEF Distinct
  <2>3. CASE i <= Len(s) /\ j > Len(s)
    <3>1. s[i] \in Elems(s) /\ t[j - Len(s)] \in Elems(t)
      BY <2>3 DEF Elems
    <3> QED
      BY <1>1, <2>3, <3>1
  <2>4. CASE i > Len(s) /\ j <= Len(s)
    <3>1. s[j] \in Elems(s) /\ t[i - Len(s)] \in Elems(t)
      BY <2>4 DEF Elems
    <3> QED
      BY <1>1, <2>4, <3>1
  <2> QED
    BY <2>1, <2>2, <2>3, <2>4
<1>3. Elems(s \o t) = Elems(s) \cup Elems(t)
  <2>1. ASSUME NEW x \in Elems(s \o t) PROVE x \in Elems(s) \cup Elems(t)
    BY <1>1 DEF Elems
  <2>2. ASSUME NEW x \in Elems(s) PROVE x \in Elems(s \o t)
    BY <1>1 DEF Elems
  <2>3. ASSUME NEW x \in Elems(t) PROVE x \in Elems(s \o t)
    <3>1. PICK i \in 1 .. Len(t) : t[i] = x
      BY DEF Elems
    <3>2. Len(s) + i \in 1 .. Len(s) + Len(t) /\ (s \o t)[Len(s) + i] = x
      BY <1>1, <3>1
    <3> QED
      BY <1>1, <3>2 DEF Elems
  <2> QED
    BY <2>1, <2>2, <2>3
<1> QED
  BY <1>1, <1>2, <1>3

\* take_round cuts a list in two: together the parts hold what the list held.
LEMMA SplitFacts ==
    ASSUME NEW S, NEW s \in Seq(S), NEW n \in 0 .. Len(s), Distinct(s)
    PROVE  LET a == SubSeq(s, 1, n)
               b == SubSeq(s, n + 1, Len(s))
           IN  /\ a \in Seq(S) /\ b \in Seq(S)
               /\ Len(a) = n /\ Len(b) = Len(s) - n
               /\ Distinct(a) /\ Distinct(b)
               /\ Elems(b) = Elems(s) \ Elems(a)
<1> DEFINE a == SubSeq(s, 1, n)
           b == SubSeq(s, n + 1, Len(s))
<1>1. /\ a \in Seq(S) /\ b \in Seq(S)
      /\ Len(a) = n /\ Len(b) = Len(s) - n
      /\ \A i \in 1 .. n : a[i] = s[i]
      /\ \A i \in 1 .. Len(s) - n : b[i] = s[n + i]
  OBVIOUS
<1> HIDE DEF a, b
<1>d. \A i, j \in 1 .. Len(s) : s[i] = s[j] => i = j
  BY SeqFacts
<1>2. Distinct(a) /\ Distinct(b)
  <2>1. \A i, j \in 1 .. Len(a) : a[i] = a[j] => i = j
    BY <1>1, <1>d
  <2>2. \A i, j \in 1 .. Len(b) : b[i] = b[j] => i = j
    BY <1>1, <1>d
  <2> QED
    BY <1>1, <2>1, <2>2, SeqFacts
<1>3. ASSUME NEW x \in Elems(b) PROVE x \in Elems(s) \ Elems(a)
  <2>1. PICK i \in 1 .. Len(s) - n : b[i] = x
    BY <1>1, SeqFacts
  <2>2. n + i \in 1 .. Len(s) /\ s[n + i] = x
    BY <1>1, <2>1
  <2>3. ASSUME NEW j \in 1 .. n PROVE a[j] # x
    <3>1. a[j] = s[j] /\ j \in 1 .. Len(s) /\ j # n + i
      BY <1>1, <2>1
    <3>2. s[j] # s[n + i]
      BY <1>d, <2>2, <3>1
    <3> QED
      BY <2>2, <3>1, <3>2
  <2> QED
    BY <1>1, <2>2, <2>3, SeqFacts
<1>4. ASSUME NEW x \in Elems(s) \ Elems(a) PROVE x \in Elems(b)
  <2>1. PICK i \in 1 .. Len(s) : s[i] = x
    BY SeqFacts
  <2>2. i > n
    BY <1>1, <2>1, SeqFacts
  <2>3. i - n \in 1 .. Len(s) - n /\ b[i - n] = x
    BY <1>1, <2>1, <2>2
  <2> QED
    BY <1>1, <2>3, SeqFacts
<1> QED
  BY <1>1, <1>2, <1>3, <1>4 DEF a, b

\* An order of n members of S is a sequence without duplicates.
LEMMA OrdersFacts ==
    ASSUME NEW S, NEW n \in Nat, NEW s \in Orders(S, n)
    PROVE  s \in Seq(S) /\ Len(s) = n /\ Distinct(s) /\ Elems(s) \subseteq S
BY DEF Orders, Distinct, Elems

\* The head of a queue without duplicates occurs nowhere in its tail.
LEMMA TailFacts ==
    ASSUME NEW S, NEW s \in Seq(S), s # <<>>, Distinct(s)
    PROVE  /\ Head(s) \in S /\ Head(s) = s[1]
           /\ Tail(s) \in Seq(S) /\ Len(Tail(s)) = Len(s) - 1
           /\ \A i \in 1 .. Len(s) - 1 : Tail(s)[i] = s[i + 1]
           /\ Distinct(Tail(s))
           /\ Elems(Tail(s)) = Elems(s) \ {Head(s)}
<1>1. /\ Head(s) \in S /\ Head(s) = s[1] /\ Len(s) >= 1
      /\ Tail(s) \in Seq(S) /\ Len(Tail(s)) = Len(s) - 1
      /\ \A i \in 1 .. Len(s) - 1 : Tail(s)[i] = s[i + 1]
  OBVIOUS
<1> DEFINE t == Tail(s)
<1> HIDE DEF t
<1>t. /\ t \in Seq(S) /\ Len(t) = Len(s) - 1
      /\ \A i \in 1 .. Len(s) - 1 : t[i] = s[i + 1]
  BY <1>1 DEF t
<1>d. \A i, j \in 1 .. Len(s) : s[i] = s[j] => i = j
  BY SeqFacts
<1>2. Distinct(t)
  <2>1. \A i, j \in 1 .. Len(t) : t[i] = t[j] => i = j
    BY <1>t, <1>d
  <2> QED
    BY <1>t, <2>1, SeqFacts
<1>3. ASSUME NEW x \in Elems(t) PROVE x \in Elems(s) \ {Head(s)}
  <2>1. PICK i \in 1 .. Len(s) - 1 : s[i + 1] = x
    BY <1>t, SeqFacts
  <2>2. s[i + 1] # s[1] /\ i + 1 \in 1 .. Len(s)
    BY <1>1, <1>d, <2>1
  <2> QED
    BY <1>1, <2>1, <2>2, SeqFacts
<1>4. ASSUME NEW x \in Elems(s) \ {Head(s)} PROVE x \in Elems(t)
  <2>1. PICK i \in 1 .. Len(s) : s[i] = x
    BY SeqFacts
  <2>2. i - 1 \in 1 .. Len(t) /\ t[i - 1] = x
    BY <1>1, <1>t, <2>1
  <2> QED
    BY <1>t, <2>2, SeqFacts
<1> QED
  BY <1>1, <1>2, <1>3, <1>4 DEF t

------------------------------------------------------------------------------
(***************************************************************************)
(* The statements of store.rs keep the tables sound.                       *)
(***************************************************************************)
\* Taking a row off the schedule.
LEMMA UnqueueKeeps ==
    ASSUME TableInv, NEW h, Unqueue(h)
    PROVE  /\ zeroQ' \in Seq(Hashes) /\ pastQ' \in Seq(Hashes)
           /\ ScheduleInv'
           /\ Elems(zeroQ') = Elems(zeroQ) \ {h}
           /\ Elems(pastQ') = Elems(pastQ) \ {h}
<1>1. /\ zeroQ \in Seq(Hashes) /\ pastQ \in Seq(Hashes)
      /\ Distinct(zeroQ) /\ Distinct(pastQ) /\ Elems(zeroQ) \cap Elems(pastQ) = {}
  BY DEF TableInv, TableTypeOK, ScheduleInv
<1>2. /\ zeroQ' \in Seq(Hashes) /\ Distinct(zeroQ') /\ Elems(zeroQ') = Elems(zeroQ) \ {h}
      /\ pastQ' \in Seq(Hashes) /\ Distinct(pastQ') /\ Elems(pastQ') = Elems(pastQ) \ {h}
  BY <1>1, WithoutFacts DEF Unqueue
<1>3. ScheduleInv'
  BY <1>1, <1>2 DEF ScheduleInv
<1> QED
  BY <1>2, <1>3

\* Moving a row to the end of the rows that are due at once.
LEMMA RequeueKeeps ==
    ASSUME TableInv, NEW h \in Hashes,
           zeroQ' = Append(Without(zeroQ, h), h),
           pastQ' = pastQ \/ pastQ' = Without(pastQ, h),
           pastQ' = pastQ => h \notin Elems(pastQ)
    PROVE  zeroQ' \in Seq(Hashes) /\ pastQ' \in Seq(Hashes) /\ ScheduleInv'
<1>1. /\ zeroQ \in Seq(Hashes) /\ pastQ \in Seq(Hashes)
      /\ Distinct(zeroQ) /\ Distinct(pastQ) /\ Elems(zeroQ) \cap Elems(pastQ) = {}
  BY DEF TableInv, TableTypeOK, ScheduleInv
<1>2. /\ Without(zeroQ, h) \in Seq(Hashes) /\ Distinct(Without(zeroQ, h))
      /\ Elems(Without(zeroQ, h)) = Elems(zeroQ) \ {h}
      /\ Without(pastQ, h) \in Seq(Hashes) /\ Distinct(Without(pastQ, h))
      /\ Elems(Without(pastQ, h)) = Elems(pastQ) \ {h}
  BY <1>1, WithoutFacts
<1>3. zeroQ' \in Seq(Hashes) /\ Distinct(zeroQ') /\ Elems(zeroQ') = Elems(zeroQ) \cup {h}
  <2>1. h \notin Elems(Without(zeroQ, h))
    BY <1>2
  <2> QED
    BY <1>2, <2>1, AppendFacts
<1>4. pastQ' \in Seq(Hashes) /\ Distinct(pastQ') /\ Elems(pastQ') = Elems(pastQ) \ {h}
  BY <1>1, <1>2
<1> QED
  BY <1>1, <1>3, <1>4 DEF ScheduleInv

\* No step but a worker's verdict marks a row invalid or unsupported.
NoNewRejection == \A g \in Hashes :
    status'[g] \in {"invalid", "unsupported"} => status'[g] = status[g]

\* A discovery with peers.
LEMMA DiscoverPeersKeeps ==
    ASSUME TableInv, NEW h \in Hashes, discover_peers(h),
           job_peers' \in [Hashes -> SUBSET Peers], UNCHANGED attempt
    PROVE  TableInv' /\ NoNewRejection
<1>1. TableTypeOK /\ CompleteHasTerminalJob
  BY DEF TableInv
<1>2. torrent' \in [Hashes -> {"absent", "bare", "complete"}]
  BY <1>1 DEF discover_peers, TorrentSeen, TableTypeOK
<1>3. \A g \in Hashes : torrent'[g] = "complete" => torrent[g] = "complete"
  BY <1>1 DEF discover_peers, TorrentSeen, TableTypeOK
<1>4. CASE torrent[h] = "complete"
  <2>1. status' = [status EXCEPT ![h] = "complete"] /\ Unqueue(h)
    BY <1>4 DEF discover_peers
  <2>2. zeroQ' \in Seq(Hashes) /\ pastQ' \in Seq(Hashes) /\ ScheduleInv'
    BY <2>1, UnqueueKeeps
  <2>3. status' \in [Hashes -> Statuses] /\ NoNewRejection
    BY <1>1, <2>1 DEF TableTypeOK, Statuses, Terminal, NoNewRejection
  <2>4. CompleteHasTerminalJob'
    BY <1>1, <1>3, <2>1 DEF CompleteHasTerminalJob, TableTypeOK
  <2> QED
    BY <1>1, <1>2, <2>2, <2>3, <2>4 DEF TableInv, TableTypeOK
<1>5. CASE torrent[h] # "complete" /\ status[h] \in Terminal
  <2>1. UNCHANGED <<status, zeroQ, pastQ>>
    BY <1>5 DEF discover_peers
  <2> QED
    BY <1>1, <1>2, <1>3, <2>1
    DEF TableInv, TableTypeOK, ScheduleInv, CompleteHasTerminalJob, NoNewRejection
<1>6. CASE torrent[h] # "complete" /\ status[h] \notin Terminal
  <2>1. /\ status' = [status EXCEPT ![h] = "queued"]
        /\ zeroQ' = Append(Without(zeroQ, h), h)
        /\ pastQ' = Without(pastQ, h)
    BY <1>6 DEF discover_peers
  <2>2. zeroQ' \in Seq(Hashes) /\ pastQ' \in Seq(Hashes) /\ ScheduleInv'
    <3>1. pastQ' = pastQ => h \notin Elems(pastQ)
      <4>1. pastQ \in Seq(Hashes) /\ Distinct(pastQ)
        BY DEF TableInv, TableTypeOK, ScheduleInv
      <4>2. Elems(Without(pastQ, h)) = Elems(pastQ) \ {h}
        BY <4>1, WithoutFacts
      <4> QED
        BY <2>1, <4>2
    <3> QED
      BY <2>1, <3>1, RequeueKeeps
  <2>3. status' \in [Hashes -> Statuses] /\ NoNewRejection
    BY <1>1, <2>1 DEF TableTypeOK, Statuses, Live, NoNewRejection
  <2>4. CompleteHasTerminalJob'
    BY <1>1, <1>3, <1>6, <2>1 DEF CompleteHasTerminalJob, TableTypeOK
  <2> QED
    BY <1>1, <1>2, <2>2, <2>3, <2>4 DEF TableInv, TableTypeOK
<1> QED
  BY <1>4, <1>5, <1>6

\* A discovery without peers.
LEMMA DiscoverPeerlessKeeps ==
    ASSUME TableInv, NEW h \in Hashes, discover_peerless(h),
           UNCHANGED <<job_peers, attempt>>
    PROVE  TableInv' /\ NoNewRejection
<1>1. TableTypeOK /\ CompleteHasTerminalJob /\ ScheduleInv
  BY DEF TableInv
<1>2. torrent' \in [Hashes -> {"absent", "bare", "complete"}]
  BY <1>1 DEF discover_peerless, TorrentSeen, TableTypeOK
<1>3. \A g \in Hashes : torrent'[g] = "complete" => torrent[g] = "complete"
  BY <1>1 DEF discover_peerless, TorrentSeen, TableTypeOK
<1>4. status' = [status EXCEPT ![h] = IF @ \in Live THEN "queued" ELSE @]
  BY DEF discover_peerless
<1>5. status' \in [Hashes -> Statuses] /\ NoNewRejection
  BY <1>1, <1>4 DEF TableTypeOK, Statuses, Live, NoNewRejection
<1>6. CompleteHasTerminalJob'
  BY <1>1, <1>3, <1>4 DEF CompleteHasTerminalJob, TableTypeOK, Live
<1>7. zeroQ' \in Seq(Hashes) /\ pastQ' \in Seq(Hashes) /\ ScheduleInv'
  <2>1. CASE h \notin Elems(zeroQ)
    BY <1>1, <2>1 DEF discover_peerless, TableTypeOK, ScheduleInv
  <2>2. CASE h \in Elems(zeroQ)
    <3>1. h \notin Elems(pastQ) /\ pastQ' = pastQ /\ zeroQ' = Append(Without(zeroQ, h), h)
      BY <1>1, <2>2 DEF discover_peerless, ScheduleInv
    <3> QED
      BY <3>1, RequeueKeeps
  <2> QED
    BY <2>1, <2>2
<1> QED
  BY <1>1, <1>2, <1>5, <1>6, <1>7 DEF TableInv, TableTypeOK

\* The commit of verified metadata.
LEMMA CommitKeeps ==
    ASSUME TableInv, NEW h \in Hashes, commit_metadata(h)
    PROVE  TableInv' /\ NoNewRejection /\ UNCHANGED attempt
<1>1. zeroQ' \in Seq(Hashes) /\ pastQ' \in Seq(Hashes) /\ ScheduleInv'
  BY UnqueueKeeps DEF commit_metadata
<1>2. /\ torrent' = [torrent EXCEPT ![h] = "complete"]
      /\ status' = [status EXCEPT ![h] = "complete"]
      /\ UNCHANGED <<job_peers, attempt>>
  BY DEF commit_metadata
<1> QED
  BY <1>1, <1>2 DEF TableInv, TableTypeOK, CompleteHasTerminalJob, NoNewRejection,
     Statuses, Terminal

\* A worker's state write.
LEMMA FailureKeeps ==
    ASSUME TableInv, NEW h \in Hashes, NEW s \in Statuses, update_hash_job_failure(h, s)
    PROVE  /\ TableInv' /\ UNCHANGED attempt
           /\ \A g \in Hashes : g # h => status'[g] = status[g]
           /\ status'[h] \in {status[h], s}
           /\ status[h] = "complete" => status'[h] = "complete"
<1>1. CASE status[h] \in {"none", "complete"}
  BY <1>1 DEF update_hash_job_failure, tables, TableInv, TableTypeOK, ScheduleInv,
     CompleteHasTerminalJob
<1>2. CASE status[h] \notin {"none", "complete"}
  <2>1. /\ status' = [status EXCEPT ![h] = s] /\ Unqueue(h)
        /\ UNCHANGED <<torrent, job_peers, attempt>>
    BY <1>2 DEF update_hash_job_failure
  <2>2. zeroQ' \in Seq(Hashes) /\ pastQ' \in Seq(Hashes) /\ ScheduleInv'
    BY <2>1, UnqueueKeeps
  <2> QED
    BY <1>2, <2>1, <2>2 DEF TableInv, TableTypeOK, CompleteHasTerminalJob
<1> QED
  BY <1>1, <1>2

\* A peer attempt.
LEMMA AttemptKeeps ==
    ASSUME TableInv, NEW h \in Hashes, NEW p \in Peers, NEW s \in {"cooling", "rejected"},
           set_peer_attempt(h, p, s)
    PROVE  /\ TableInv' /\ UNCHANGED status
           /\ \A g \in Hashes, q \in Peers :
                <<g, q>> # <<h, p>> => attempt'[g][q] = attempt[g][q]
BY DEF set_peer_attempt, TableInv, TableTypeOK, ScheduleInv, CompleteHasTerminalJob

\* The tables do not change.
LEMMA TablesSame ==
    ASSUME TableInv, UNCHANGED tables
    PROVE  TableInv' /\ UNCHANGED <<status, attempt>>
BY DEF tables, TableInv, TableTypeOK, ScheduleInv, CompleteHasTerminalJob

------------------------------------------------------------------------------
(***************************************************************************)
(* A worker's step: it replaces one worker by another of the same hash.    *)
(***************************************************************************)
\* Replacing a worker by its next state keeps the memory and the workers sound.
LEMMA BecomesKeeps ==
    ASSUME IInv, NEW w \in workers, NEW v \in Worker, v.hash = w.hash,
           Becomes(w, v), WorkerOnly
    PROVE  MemoryTypeOK' /\ MemoryInv' /\ WorkerInv'
<1>1. /\ UNCHANGED <<jobs, peers, peer_set, running, ready, ready_set, lost, mode, observed>>
      /\ workers' = (workers \ {w}) \cup {v}
  BY DEF Becomes, WorkerOnly, memory
<1>2. MemoryTypeOK'
  BY <1>1 DEF IInv, TypeOK, MemoryTypeOK
<1>3. MemoryInv'
  BY <1>1 DEF IInv, MemoryInv, NoStrandedJob, PendingPeersSound, Untracked
<1>4. \A x, y \in workers' : x.hash = y.hash => x = y
  BY <1>1 DEF IInv, WorkerInv, OneWorkerPerHash
<1>5. IsFiniteSet(workers') /\ Cardinality(workers') <= MaxConcurrent
  <2>1. IsFiniteSet(workers) /\ Cardinality(workers) <= MaxConcurrent
    BY DEF IInv, WorkerInv, WorkersAlive, OneWorkerPerHash
  <2>2. IsFiniteSet(workers \ {w}) /\ Cardinality(workers \ {w}) = Cardinality(workers) - 1
    BY <2>1, FS_RemoveElement
  <2>3. /\ IsFiniteSet(workers')
        /\ \/ Cardinality(workers') = Cardinality(workers \ {w})
           \/ Cardinality(workers') = Cardinality(workers \ {w}) + 1
    BY <1>1, <2>2, FS_AddElement
  <2>4. Cardinality(workers) \in Nat
    BY <2>1, FS_CardinalityType
  <2> QED
    BY <2>1, <2>2, <2>3, <2>4, ConstantsAssumption
<1>6. {x.hash : x \in workers'} = {x.hash : x \in workers}
  BY <1>1
<1>7. OneWorkerPerHash'
  BY <1>1, <1>4, <1>5, <1>6 DEF IInv, WorkerInv, OneWorkerPerHash
<1>8. WorkersAlive'
  BY <1>1, <1>5 DEF IInv, WorkerInv, WorkersAlive
<1> QED
  BY <1>2, <1>3, <1>7, <1>8 DEF WorkerInv

\* A round's facts are not disturbed by what happens to other hashes.
LEMMA RoundFrame ==
    ASSUME IInv, NEW w \in workers, NEW v \in Worker, v.hash = w.hash,
           Becomes(w, v),
           \A g \in Hashes : g # w.hash =>
              status'[g] = status[g] /\ attempt'[g] = attempt[g],
           RoundOK(v)'
    PROVE  RoundInv'
<1> SUFFICES ASSUME NEW x \in workers' PROVE RoundOK(x)'
  BY DEF RoundInv
<1>1. CASE x = v
  BY <1>1
<1>2. CASE x # v
  <2>1. x \in workers /\ x # w
    BY <1>2 DEF Becomes
  <2>2. x.hash # w.hash /\ x.hash \in Hashes
    BY <2>1 DEF IInv, WorkerInv, OneWorkerPerHash, TypeOK, MemoryTypeOK, Worker
  <2>3. status'[x.hash] = status[x.hash] /\ attempt'[x.hash] = attempt[x.hash]
    BY <2>2
  <2>4. RoundOK(x)
    BY <2>1 DEF IInv, RoundInv
  <2> QED
    BY <2>3, <2>4 DEF RoundOK
<1> QED
  BY <1>1, <1>2

\* Every way in which a worker's call to the database ends counts one fault or
\* none.
LEMMA FaultsKept ==
    ASSUME IInv, DbOk \/ DbError
    PROVE  faults' \in 0 .. MaxFaults
BY ConstantsAssumption DEF IInv, TypeOK, DbOk, DbError

\* The pieces of the invariant put together after a worker's step.
LEMMA WorkerAssembled ==
    ASSUME IInv, NEW w \in workers, NEW v \in Worker, v.hash = w.hash,
           Becomes(w, v), WorkerOnly, TableInv', DbOk \/ DbError,
           \A g \in Hashes : g # w.hash =>
              status'[g] = status[g] /\ attempt'[g] = attempt[g],
           RoundOK(v)'
    PROVE  IInv'
<1>1. MemoryTypeOK' /\ MemoryInv' /\ WorkerInv'
  BY BecomesKeeps
<1>2. RoundInv'
  BY RoundFrame
<1>3. observed' \in 0 .. MaxDiscoveries
  BY DEF WorkerOnly, IInv, TypeOK
<1>4. faults' \in 0 .. MaxFaults
  BY FaultsKept
<1>5. TableTypeOK'
  BY DEF TableInv
<1> QED
  BY <1>1, <1>2, <1>3, <1>4, <1>5 DEF IInv, TypeOK

\* What a worker is, spelled out.
LEMMA WorkerFacts ==
    ASSUME IInv, NEW w \in workers
    PROVE  /\ w \in Worker /\ w.hash \in Hashes /\ w.todo \in Seq(Peers)
           /\ w.phase \in Steps \cup Outcomes /\ w.retryable \in BOOLEAN
           /\ RoundOK(w) /\ TableInv
BY DEF IInv, TypeOK, MemoryTypeOK, Worker, RoundInv

\* The next state of a worker, named.
LEMMA NextWorker ==
    ASSUME NEW w \in Worker, NEW ph \in Steps \cup Outcomes
    PROVE  \E v \in Worker : /\ v = [w EXCEPT !.phase = ph]
                             /\ v.hash = w.hash /\ v.phase = ph /\ v.todo = w.todo
<1>1. /\ [w EXCEPT !.phase = ph] \in Worker
      /\ [w EXCEPT !.phase = ph].hash = w.hash
      /\ [w EXCEPT !.phase = ph].phase = ph
      /\ [w EXCEPT !.phase = ph].todo = w.todo
  BY DEF Worker
<1> QED
  BY <1>1

\* The peers that pass the filter, in the order of the round.
LEMMA FilteredFacts ==
    ASSUME NEW s \in Seq(Peers), Distinct(s), NEW keep \in SUBSET Elems(s),
           NEW f \in FirstOf({i \in DOMAIN s : s[i] \in keep}, Cardinality(keep))
    PROVE  LET t == [k \in DOMAIN f |-> s[f[k]]]
           IN  /\ t \in Seq(Peers) /\ Distinct(t)
               /\ \A i \in 1 .. Len(t) : t[i] \in keep
<1> DEFINE n == Cardinality(keep)
           t == [k \in DOMAIN f |-> s[f[k]]]
<1>1. keep \subseteq Peers
  BY SeqFacts
<1>2. n \in Nat
  BY <1>1, ConstantsAssumption, FS_Subset, FS_CardinalityType
<1> HIDE DEF n
<1>3. /\ f \in [1 .. n -> {i \in DOMAIN s : s[i] \in keep}]
      /\ \A i, j \in 1 .. n : i < j => f[i] < f[j]
  BY DEF FirstOf, n
<1>4. t = [k \in 1 .. n |-> s[f[k]]]
  BY <1>3
<1>5. \A k \in 1 .. n : f[k] \in 1 .. Len(s) /\ s[f[k]] \in keep
  BY <1>3
<1> HIDE DEF t
<1>6. t \in Seq(Peers) /\ Len(t) = n /\ \A k \in 1 .. n : t[k] = s[f[k]]
  BY <1>1, <1>2, <1>4, <1>5
<1>7. \A i, j \in 1 .. n : t[i] = t[j] => i = j
  <2> SUFFICES ASSUME NEW i \in 1 .. n, NEW j \in 1 .. n, t[i] = t[j]
               PROVE  i = j
    OBVIOUS
  <2>1. f[i] = f[j]
    BY <1>5, <1>6, SeqFacts
  <2> QED
    BY <1>2, <1>3, <1>5, <2>1
<1>8. Distinct(t)
  BY <1>6, <1>7, SeqFacts
<1> QED
  BY <1>5, <1>6, <1>8 DEF t

\* The terminal check at the start of a round keeps the invariant.
LEMMA CheckTerminalKeeps ==
    ASSUME IInv, NEW w \in workers, CheckTerminal(w) PROVE IInv'
<1> DEFINE ph == IF status[w.hash] \in Terminal THEN "terminal" ELSE "filter"
<1>1. Becomes(w, [w EXCEPT !.phase = ph]) /\ UNCHANGED tables /\ DbOk /\ WorkerOnly
  BY DEF CheckTerminal, Moves, DbOk
<1>2. PICK v \in Worker : /\ v = [w EXCEPT !.phase = ph]
                          /\ v.hash = w.hash /\ v.phase = ph /\ v.todo = w.todo
  <2>1. ph \in Steps \cup Outcomes
    BY DEF Steps, Outcomes
  <2> HIDE DEF ph
  <2> QED
    BY <2>1, WorkerFacts, NextWorker
<1>3. TableInv' /\ UNCHANGED <<status, attempt>>
  BY <1>1, WorkerFacts, TablesSame
<1>4. RoundOK(v)'
  <2>1. Distinct(v.todo) /\ v.phase \in {"terminal", "filter"}
    BY <1>2, WorkerFacts DEF RoundOK
  <2>2. v.phase = "filter" => status[v.hash] \notin {"invalid", "unsupported"}
    BY <1>2 DEF Terminal
  <2> QED
    BY <1>3, <2>1, <2>2 DEF RoundOK
<1>5. Becomes(w, v)
  BY <1>1, <1>2
<1> QED
  BY <1>1, <1>2, <1>3, <1>4, <1>5, WorkerAssembled

\* The filter keeps the invariant: the peers left are the eligible ones.
LEMMA FilterPeersKeeps ==
    ASSUME IInv, NEW w \in workers, FilterPeers(w) PROVE IInv'
<1>1. w.phase = "filter" /\ UNCHANGED tables /\ WorkerOnly
  BY DEF FilterPeers
<1>2. PICK failed \in SUBSET Elems(w.todo) :
        LET keep == {p \in Elems(w.todo) \ failed : Eligible(w.hash, p)}
            delayed == \E p \in Elems(w.todo) : p \in failed \/ attempt[w.hash][p] = "cooling"
        IN  /\ IF failed = {} THEN DbOk ELSE DbError
            /\ \E f \in FirstOf({i \in DOMAIN w.todo : w.todo[i] \in keep}, Cardinality(keep)) :
                 Becomes(w, [w EXCEPT !.phase = "attempt",
                                      !.todo = [k \in DOMAIN f |-> w.todo[f[k]]],
                                      !.retryable = delayed])
  BY DEF FilterPeers
<1> DEFINE keep == {p \in Elems(w.todo) \ failed : Eligible(w.hash, p)}
           delayed == \E p \in Elems(w.todo) : p \in failed \/ attempt[w.hash][p] = "cooling"
<1>3. PICK f \in FirstOf({i \in DOMAIN w.todo : w.todo[i] \in keep}, Cardinality(keep)) :
        Becomes(w, [w EXCEPT !.phase = "attempt",
                             !.todo = [k \in DOMAIN f |-> w.todo[f[k]]],
                             !.retryable = delayed])
  BY <1>2
<1> DEFINE t == [k \in DOMAIN f |-> w.todo[f[k]]]
<1>4. DbOk \/ DbError
  BY <1>2
<1>5. t \in Seq(Peers) /\ Distinct(t) /\ \A i \in 1 .. Len(t) : t[i] \in keep
  <2>1. w.todo \in Seq(Peers) /\ Distinct(w.todo)
    BY WorkerFacts DEF RoundOK
  <2>2. keep \in SUBSET Elems(w.todo)
    OBVIOUS
  <2> HIDE DEF keep
  <2> QED
    BY <2>1, <2>2, FilteredFacts
<1>6. \A i \in 1 .. Len(t) : attempt[w.hash][t[i]] = "none"
  BY <1>5 DEF Eligible
<1>8. TableInv' /\ UNCHANGED <<status, attempt>>
  BY <1>1, WorkerFacts, TablesSame
<1>9. PICK r \in BOOLEAN : r = delayed
  OBVIOUS
<1> HIDE DEF t, keep, delayed
<1>10. PICK v \in Worker :
         /\ v = [w EXCEPT !.phase = "attempt", !.todo = t, !.retryable = r]
         /\ v.hash = w.hash /\ v.phase = "attempt" /\ v.todo = t
  <2>1. "attempt" \in Steps \cup Outcomes
    BY DEF Steps
  <2>2. w \in Worker
    BY WorkerFacts
  <2>3. t \in Seq(Peers)
    BY <1>5
  <2> DEFINE x == [w EXCEPT !.phase = "attempt", !.todo = t, !.retryable = r]
  <2>4. x \in Worker /\ x.hash = w.hash /\ x.phase = "attempt" /\ x.todo = t
    BY <2>1, <2>2, <2>3 DEF Worker
  <2> QED
    BY <2>4
<1>7. Becomes(w, v)
  BY <1>3, <1>9, <1>10 DEF t, keep, delayed
<1>11. RoundOK(v)'
  <2>1. /\ Distinct(v.todo)
        /\ \A i \in 1 .. Len(v.todo) : attempt[v.hash][v.todo[i]] = "none"
    BY <1>5, <1>6, <1>10
  <2>2. status[v.hash] \notin {"invalid", "unsupported"}
    BY <1>1, <1>10, WorkerFacts DEF RoundOK
  <2> QED
    BY <1>8, <1>10, <2>1, <2>2 DEF RoundOK
<1> QED
  BY <1>1, <1>4, <1>7, <1>8, <1>10, <1>11, WorkerAssembled

\* The worker goes on to its next peer: the peers left are still eligible, and
\* none of them is the one it has just tried.
LEMMA NextPeerFacts ==
    ASSUME IInv, NEW w \in workers, w.phase \in {"attempt", "fetch"}, w.todo # <<>>
    PROVE  /\ Head(w.todo) \in Peers
           /\ Tail(w.todo) \in Seq(Peers)
           /\ Distinct(Tail(w.todo))
           /\ \A i \in 1 .. Len(Tail(w.todo)) :
                /\ Tail(w.todo)[i] \in Peers
                /\ Tail(w.todo)[i] # Head(w.todo)
                /\ attempt[w.hash][Tail(w.todo)[i]] = "none"
           /\ [w EXCEPT !.todo = Tail(@), !.retryable = TRUE] \in Worker
           /\ NextPeer(w) \in Worker
           /\ NextPeerRetryable(w) \in Worker
<1> DEFINE s == w.todo
           t == Tail(w.todo)
<1>1. s \in Seq(Peers) /\ Distinct(s) /\ w \in Worker
  BY WorkerFacts DEF RoundOK
<1>2. /\ Head(s) \in Peers /\ Head(s) = s[1]
      /\ t \in Seq(Peers) /\ Len(t) = Len(s) - 1
      /\ \A i \in 1 .. Len(s) - 1 : t[i] = s[i + 1]
      /\ Distinct(t) /\ Elems(t) = Elems(s) \ {Head(s)}
  BY <1>1, TailFacts
<1>3. ASSUME NEW i \in 1 .. Len(t)
      PROVE  t[i] \in Peers /\ t[i] # Head(s) /\ attempt[w.hash][t[i]] = "none"
  <2>1. t[i] \in Elems(t) /\ t[i] \in Peers
    <3>1. t \in Seq(Peers) /\ i \in 1 .. Len(t)
      BY <1>2
    <3> HIDE DEF t
    <3>2. t[i] \in Elems(t) /\ Elems(t) \subseteq Peers
      BY <3>1, SeqFacts
    <3> QED
      BY <3>2
  <2>2. t[i] = s[i + 1] /\ i + 1 \in 2 .. Len(s)
    BY <1>1, <1>2
  <2>3. attempt[w.hash][s[i + 1]] = "none"
    BY <2>2, WorkerFacts DEF RoundOK
  <2> QED
    BY <1>2, <2>1, <2>2, <2>3
<1>4. /\ [w EXCEPT !.todo = Tail(@), !.retryable = TRUE] \in Worker
      /\ NextPeer(w) \in Worker
      /\ NextPeerRetryable(w) \in Worker
  BY <1>1, <1>2 DEF Worker, NextPeer, NextPeerRetryable, Steps
<1> QED
  BY <1>2, <1>3, <1>4

\* From attempting or downloading to the next peer, whatever was recorded for
\* the peer just tried.
LEMMA NextPeerKeeps ==
    ASSUME IInv, NEW w \in workers, w.phase \in {"attempt", "fetch"}, w.todo # <<>>,
           NEW v \in Worker, v.hash = w.hash, v.phase = "attempt", v.todo = Tail(w.todo),
           Becomes(w, v), WorkerOnly, TableInv', DbOk \/ DbError,
           status'[w.hash] \notin {"invalid", "unsupported"},
           \A g \in Hashes : g # w.hash => status'[g] = status[g],
           \A g \in Hashes, q \in Peers :
              <<g, q>> # <<w.hash, Head(w.todo)>> => attempt'[g][q] = attempt[g][q]
    PROVE  IInv'
<1>1. w.hash \in Hashes
  BY WorkerFacts
<1>2. \A g \in Hashes : g # w.hash => status'[g] = status[g] /\ attempt'[g] = attempt[g]
  <2> SUFFICES ASSUME NEW g \in Hashes, g # w.hash PROVE attempt'[g] = attempt[g]
    OBVIOUS
  <2>1. attempt[g] \in [Peers -> {"none", "cooling", "rejected"}]
    BY DEF IInv, TableInv, TableTypeOK
  <2>2. attempt'[g] \in [Peers -> {"none", "cooling", "rejected"}]
    BY DEF TableInv, TableTypeOK
  <2>3. \A q \in Peers : attempt'[g][q] = attempt[g][q]
    OBVIOUS
  <2> QED
    BY <2>1, <2>2, <2>3
<1>3. RoundOK(v)'
  <2>1. Distinct(v.todo)
    BY NextPeerFacts
  <2>2. \A i \in 1 .. Len(v.todo) : attempt'[v.hash][v.todo[i]] = "none"
    <3> SUFFICES ASSUME NEW i \in 1 .. Len(v.todo)
                 PROVE  attempt'[v.hash][v.todo[i]] = "none"
      OBVIOUS
    <3>1. /\ v.todo[i] \in Peers /\ v.todo[i] # Head(w.todo)
          /\ attempt[w.hash][v.todo[i]] = "none"
      BY NextPeerFacts
    <3>2. attempt'[w.hash][v.todo[i]] = attempt[w.hash][v.todo[i]]
      BY <1>1, <3>1
    <3> QED
      BY <3>1, <3>2
  <2> QED
    BY <2>1, <2>2 DEF RoundOK
<1> QED
  BY <1>2, <1>3, WorkerAssembled

\* From downloading to an outcome: only the row of the worker's hash changes.
LEMMA OutcomeKeeps ==
    ASSUME IInv, NEW w \in workers, NEW ph \in Outcomes,
           Moves(w, ph), WorkerOnly, TableInv', DbOk \/ DbError, UNCHANGED attempt,
           \A g \in Hashes : g # w.hash => status'[g] = status[g]
    PROVE  IInv'
<1>1. PICK v \in Worker : /\ v = [w EXCEPT !.phase = ph]
                          /\ v.hash = w.hash /\ v.phase = ph /\ v.todo = w.todo
  BY WorkerFacts, NextWorker
<1>2. RoundOK(v)'
  BY <1>1, WorkerFacts DEF RoundOK, Outcomes
<1>3. Becomes(w, v)
  BY <1>1 DEF Moves
<1> QED
  BY <1>1, <1>2, <1>3, WorkerAssembled

\* The next states of a worker that goes on to its next peer, named.
LEMMA NextPeerNamed ==
    ASSUME IInv, NEW w \in workers, w.phase \in {"attempt", "fetch"}, w.todo # <<>>
    PROVE  /\ \E v \in Worker : /\ v = NextPeer(w)
                                /\ v.hash = w.hash /\ v.phase = "attempt"
                                /\ v.todo = Tail(w.todo)
           /\ \E v \in Worker : /\ v = NextPeerRetryable(w)
                                /\ v.hash = w.hash /\ v.phase = "attempt"
                                /\ v.todo = Tail(w.todo)
           /\ w.phase = "attempt" =>
                \E v \in Worker : /\ v = [w EXCEPT !.todo = Tail(@), !.retryable = TRUE]
                                  /\ v.hash = w.hash /\ v.phase = "attempt"
                                  /\ v.todo = Tail(w.todo)
<1>1. w \in Worker
  BY WorkerFacts
<1>2. /\ NextPeer(w).hash = w.hash /\ NextPeer(w).phase = "attempt"
      /\ NextPeer(w).todo = Tail(w.todo)
  BY <1>1 DEF Worker, NextPeer
<1>3. /\ NextPeerRetryable(w).hash = w.hash /\ NextPeerRetryable(w).phase = "attempt"
      /\ NextPeerRetryable(w).todo = Tail(w.todo)
  BY <1>1 DEF Worker, NextPeer, NextPeerRetryable
<1>4. LET v == [w EXCEPT !.todo = Tail(@), !.retryable = TRUE]
      IN  v.hash = w.hash /\ v.phase = w.phase /\ v.todo = Tail(w.todo)
  BY <1>1 DEF Worker
<1> QED
  BY <1>2, <1>3, <1>4, NextPeerFacts

\* Before a download: the peer is marked as attempted, or the write fails and
\* the worker goes on.
LEMMA StartAttemptKeeps ==
    ASSUME IInv, NEW w \in workers, StartAttempt(w) PROVE IInv'
<1>1. w.phase = "attempt" /\ w.todo # <<>> /\ WorkerOnly
  BY DEF StartAttempt
<1>2. w.hash \in Hashes /\ RoundOK(w) /\ TableInv /\ w.todo \in Seq(Peers)
  BY WorkerFacts
<1>3. status[w.hash] \notin {"invalid", "unsupported"}
  BY <1>1, <1>2 DEF RoundOK
<1>4. CASE set_peer_attempt(w.hash, Head(w.todo), "cooling") /\ DbOk /\ Moves(w, "fetch")
  <2>1. Head(w.todo) \in Peers
    BY <1>1, NextPeerFacts
  <2>2. /\ TableInv' /\ UNCHANGED status
        /\ \A g \in Hashes, q \in Peers :
             <<g, q>> # <<w.hash, Head(w.todo)>> => attempt'[g][q] = attempt[g][q]
    BY <1>2, <1>4, <2>1, AttemptKeeps
  <2>3. PICK v \in Worker : /\ v = [w EXCEPT !.phase = "fetch"]
                            /\ v.hash = w.hash /\ v.phase = "fetch" /\ v.todo = w.todo
    <3>1. w \in Worker /\ "fetch" \in Steps \cup Outcomes
      BY WorkerFacts DEF Steps
    <3> QED
      BY <3>1, NextWorker
  <2>4. Becomes(w, v)
    BY <1>4, <2>3 DEF Moves
  <2>5. ASSUME NEW g \in Hashes, g # w.hash PROVE attempt'[g] = attempt[g]
    <3>1. attempt[g] \in [Peers -> {"none", "cooling", "rejected"}]
      BY DEF IInv, TableInv, TableTypeOK
    <3>2. attempt'[g] \in [Peers -> {"none", "cooling", "rejected"}]
      BY <2>2 DEF TableInv, TableTypeOK
    <3>3. \A q \in Peers : attempt'[g][q] = attempt[g][q]
      BY <2>2, <2>5
    <3> QED
      BY <3>1, <3>2, <3>3
  <2>6. ASSUME NEW i \in 2 .. Len(v.todo) PROVE attempt'[v.hash][v.todo[i]] = "none"
    <3>1. /\ i - 1 \in 1 .. Len(Tail(w.todo))
          /\ Tail(w.todo)[i - 1] = w.todo[i]
      BY <1>1, <1>2, <2>3
    <3>2. /\ w.todo[i] \in Peers /\ w.todo[i] # Head(w.todo)
          /\ attempt[w.hash][w.todo[i]] = "none"
      BY <1>1, <3>1, NextPeerFacts
    <3>3. attempt'[w.hash][w.todo[i]] = attempt[w.hash][w.todo[i]]
      BY <1>2, <2>2, <3>2
    <3> QED
      BY <2>3, <3>2, <3>3
  <2>7. RoundOK(v)'
    BY <1>1, <1>2, <1>3, <2>2, <2>3, <2>6 DEF RoundOK
  <2> QED
    BY <1>1, <1>4, <2>2, <2>3, <2>4, <2>5, <2>7, WorkerAssembled
<1>5. CASE /\ IF torrent[w.hash] = "absent" THEN DbOk ELSE DbError
           /\ Becomes(w, [w EXCEPT !.todo = Tail(@), !.retryable = TRUE])
           /\ UNCHANGED tables
  <2>1. TableInv' /\ UNCHANGED <<status, attempt>>
    BY <1>2, <1>5, TablesSame
  <2>2. PICK v \in Worker : /\ v = [w EXCEPT !.todo = Tail(@), !.retryable = TRUE]
                            /\ v.hash = w.hash /\ v.phase = "attempt"
                            /\ v.todo = Tail(w.todo)
    BY <1>1, NextPeerNamed
  <2>3. Becomes(w, v) /\ (DbOk \/ DbError)
    BY <1>5, <2>2
  <2> QED
    BY <1>1, <1>3, <2>1, <2>2, <2>3, NextPeerKeeps
<1> QED
  BY <1>4, <1>5 DEF StartAttempt

\* The record of a download that failed, or of a mismatch, changes no row but
\* the peer's.
LEMMA RecordedAttempt ==
    ASSUME IInv, NEW w \in workers, w.phase = "fetch", NEW s \in {"cooling", "rejected"},
           \/ set_peer_attempt(w.hash, Head(w.todo), s) /\ DbOk
           \/ UNCHANGED tables /\ IF torrent[w.hash] = "absent" THEN DbOk ELSE DbError
    PROVE  /\ w.todo # <<>> /\ w.hash \in Hashes
           /\ status'[w.hash] \notin {"invalid", "unsupported"}
           /\ TableInv' /\ UNCHANGED status /\ (DbOk \/ DbError)
           /\ \A g \in Hashes, q \in Peers :
                <<g, q>> # <<w.hash, Head(w.todo)>> => attempt'[g][q] = attempt[g][q]
<1>1. w.hash \in Hashes /\ RoundOK(w) /\ TableInv
  BY WorkerFacts
<1>2. w.todo # <<>> /\ status[w.hash] \notin {"invalid", "unsupported"}
  BY <1>1 DEF RoundOK
<1>3. Head(w.todo) \in Peers
  BY <1>2, NextPeerFacts
<1>4. CASE set_peer_attempt(w.hash, Head(w.todo), s) /\ DbOk
  BY <1>1, <1>2, <1>3, <1>4, AttemptKeeps
<1>5. CASE UNCHANGED tables /\ IF torrent[w.hash] = "absent" THEN DbOk ELSE DbError
  BY <1>1, <1>2, <1>5, TablesSame
<1> QED
  BY <1>4, <1>5

\* A download that fails.
LEMMA FetchFailsKeeps ==
    ASSUME IInv, NEW w \in workers, FetchFails(w) PROVE IInv'
<1>1. w.phase = "fetch" /\ WorkerOnly /\ Becomes(w, NextPeerRetryable(w))
  BY DEF FetchFails
<1>2. /\ w.todo # <<>>
      /\ status'[w.hash] \notin {"invalid", "unsupported"}
      /\ TableInv' /\ UNCHANGED status /\ (DbOk \/ DbError)
      /\ \A g \in Hashes, q \in Peers :
           <<g, q>> # <<w.hash, Head(w.todo)>> => attempt'[g][q] = attempt[g][q]
  BY <1>1, RecordedAttempt DEF FetchFails
<1>3. PICK v \in Worker : /\ v = NextPeerRetryable(w) /\ v.hash = w.hash
                          /\ v.phase = "attempt" /\ v.todo = Tail(w.todo)
  BY <1>1, <1>2, NextPeerNamed
<1>4. Becomes(w, v)
  BY <1>1, <1>3
<1> QED
  BY <1>1, <1>2, <1>3, <1>4, NextPeerKeeps

\* Bytes with the wrong hash.
LEMMA FetchMismatchKeeps ==
    ASSUME IInv, NEW w \in workers, FetchMismatch(w) PROVE IInv'
<1>1. w.phase = "fetch" /\ WorkerOnly /\ Becomes(w, NextPeer(w))
  BY DEF FetchMismatch
<1>2. /\ w.todo # <<>>
      /\ status'[w.hash] \notin {"invalid", "unsupported"}
      /\ TableInv' /\ UNCHANGED status /\ (DbOk \/ DbError)
      /\ \A g \in Hashes, q \in Peers :
           <<g, q>> # <<w.hash, Head(w.todo)>> => attempt'[g][q] = attempt[g][q]
  BY <1>1, RecordedAttempt DEF FetchMismatch
<1>3. PICK v \in Worker : /\ v = NextPeer(w) /\ v.hash = w.hash
                          /\ v.phase = "attempt" /\ v.todo = Tail(w.todo)
  BY <1>1, <1>2, NextPeerNamed
<1>4. Becomes(w, v)
  BY <1>1, <1>3
<1> QED
  BY <1>1, <1>2, <1>3, <1>4, NextPeerKeeps

\* Verified bytes that parse.
LEMMA FetchOkKeeps ==
    ASSUME IInv, NEW w \in workers, FetchOk(w) PROVE IInv'
<1>1. w.phase = "fetch" /\ WorkerOnly
  BY DEF FetchOk
<1>2. w.hash \in Hashes /\ RoundOK(w) /\ TableInv
  BY WorkerFacts
<1>3. w.todo # <<>> /\ status[w.hash] \notin {"invalid", "unsupported"}
  BY <1>1, <1>2 DEF RoundOK
<1>4. ASSUME commit_metadata(w.hash)
      PROVE  /\ TableInv' /\ UNCHANGED attempt
             /\ status'[w.hash] \notin {"invalid", "unsupported"}
             /\ \A g \in Hashes : g # w.hash => status'[g] = status[g]
  <2>1. TableInv' /\ UNCHANGED attempt
    BY <1>2, <1>4, CommitKeeps
  <2>2. status' = [status EXCEPT ![w.hash] = "complete"]
    BY <1>4 DEF commit_metadata
  <2> QED
    BY <1>2, <2>1, <2>2 DEF TableInv, TableTypeOK
<1>5. CASE commit_metadata(w.hash) /\ DbOk /\ Moves(w, "complete")
  <2>1. "complete" \in Outcomes
    BY DEF Outcomes
  <2> QED
    BY <1>1, <1>4, <1>5, <2>1, OutcomeKeeps
<1>6. CASE /\ commit_metadata(w.hash) \/ UNCHANGED tables
           /\ DbError
           /\ Becomes(w, NextPeerRetryable(w))
  <2>1. /\ TableInv' /\ UNCHANGED attempt
        /\ status'[w.hash] \notin {"invalid", "unsupported"}
        /\ \A g \in Hashes : g # w.hash => status'[g] = status[g]
    <3>1. CASE UNCHANGED tables
      BY <1>2, <1>3, <3>1, TablesSame
    <3> QED
      BY <1>4, <1>6, <3>1
  <2>2. PICK v \in Worker : /\ v = NextPeerRetryable(w) /\ v.hash = w.hash
                            /\ v.phase = "attempt" /\ v.todo = Tail(w.todo)
    BY <1>1, <1>3, NextPeerNamed
  <2>3. Becomes(w, v)
    BY <1>6, <2>2
  <2> QED
    BY <1>1, <1>3, <1>6, <2>1, <2>2, <2>3, NextPeerKeeps
<1> QED
  BY <1>5, <1>6 DEF FetchOk

\* A state write, or one whose error is ignored, that ends the round.
LEMMA WriteEndsRound ==
    ASSUME IInv, NEW w \in workers, NEW ph \in Outcomes, NEW s \in Statuses,
           Moves(w, ph), WorkerOnly, DbOk \/ DbError,
           update_hash_job_failure(w.hash, s) \/ UNCHANGED tables
    PROVE  IInv'
<1>1. w.hash \in Hashes /\ TableInv
  BY WorkerFacts
<1>2. /\ TableInv' /\ UNCHANGED attempt
      /\ \A g \in Hashes : g # w.hash => status'[g] = status[g]
  <2>1. CASE update_hash_job_failure(w.hash, s)
    BY <1>1, <2>1, FailureKeeps
  <2>2. CASE UNCHANGED tables
    BY <1>1, <2>2, TablesSame
  <2> QED
    BY <2>1, <2>2
<1> QED
  BY <1>2, OutcomeKeeps

\* Verified bytes whose search document is too large.
LEMMA FetchOversizedKeeps ==
    ASSUME IInv, NEW w \in workers, FetchOversized(w) PROVE IInv'
<1>1. "terminal" \in Outcomes /\ "unsupported" \in Statuses
  BY DEF Outcomes, Statuses, Terminal
<1> QED
  BY <1>1, WriteEndsRound DEF FetchOversized

\* Verified bytes that do not parse.
LEMMA FetchUnparsableKeeps ==
    ASSUME IInv, NEW w \in workers, FetchUnparsable(w) PROVE IInv'
<1>1. "terminal" \in Outcomes /\ Content[w.hash] \in Statuses
  BY DEF Outcomes, Statuses, Terminal, FetchUnparsable
<1>2. /\ Moves(w, "terminal") /\ WorkerOnly /\ (DbOk \/ DbError)
      /\ update_hash_job_failure(w.hash, Content[w.hash]) \/ UNCHANGED tables
  BY DEF FetchUnparsable
<1> QED
  BY <1>1, <1>2, WriteEndsRound

\* The end of a round.
LEMMA FinishRoundKeeps ==
    ASSUME IInv, NEW w \in workers, FinishRound(w) PROVE IInv'
<1> DEFINE ph == IF w.retryable THEN "retry" ELSE "parked"
           s == IF w.retryable THEN "retry_at" ELSE "waiting_peers"
<1>1. ph \in Outcomes /\ s \in Statuses
  BY DEF Outcomes, Statuses, Live
<1>2. /\ Moves(w, ph) /\ WorkerOnly /\ (DbOk \/ DbError)
      /\ update_hash_job_failure(w.hash, s) \/ UNCHANGED tables
  BY DEF FinishRound
<1> HIDE DEF ph, s
<1> QED
  BY <1>1, <1>2, WriteEndsRound

\* Every step of a worker keeps the invariant.
LEMMA WorkerStepKeeps ==
    ASSUME IInv, NEW w \in workers, WorkerStep(w) PROVE IInv'
BY CheckTerminalKeeps, FilterPeersKeeps, StartAttemptKeeps, FetchFailsKeeps,
   FetchMismatchKeeps, FetchOkKeeps, FetchOversizedKeeps, FetchUnparsableKeeps,
   FinishRoundKeeps DEF WorkerStep

------------------------------------------------------------------------------
(***************************************************************************)
(* The scheduler task.                                                     *)
(***************************************************************************)
\* An empty queue.
LEMMA EmptyFacts ==
    /\ \A S : <<>> \in Seq(S)
    /\ Len(<<>>) = 0 /\ Distinct(<<>>) /\ Elems(<<>>) = {}
BY DEF Distinct, Elems

\* Rounds are not disturbed by a step that starts none, rejects no metadata
\* and takes no peer's eligibility away.
LEMMA RoundsKept ==
    ASSUME IInv, workers' \subseteq workers, NoNewRejection,
           \A g \in Hashes, q \in Peers : attempt[g][q] = "none" => attempt'[g][q] = "none"
    PROVE  RoundInv'
<1> SUFFICES ASSUME NEW x \in workers' PROVE RoundOK(x)'
  BY DEF RoundInv
<1>1. /\ x \in workers /\ RoundOK(x) /\ x.hash \in Hashes /\ x.todo \in Seq(Peers)
  BY WorkerFacts
<1>2. status'[x.hash] \in {"invalid", "unsupported"} =>
         status[x.hash] \in {"invalid", "unsupported"}
  BY <1>1 DEF NoNewRejection
<1>3. \A i \in 1 .. Len(x.todo) :
        attempt[x.hash][x.todo[i]] = "none" => attempt'[x.hash][x.todo[i]] = "none"
  BY <1>1
<1>4. \A i \in 2 .. Len(x.todo) : i \in 1 .. Len(x.todo)
  BY <1>1
<1> QED
  BY <1>1, <1>2, <1>3, <1>4 DEF RoundOK

\* Merging new addresses in front of the pending lists.
LEMMA MergeKeeps ==
    ASSUME IInv, NEW H \in SUBSET Hashes, NEW new, Merge(H, new),
           \A h \in H : /\ new[h] \in Seq(Peers) /\ Distinct(new[h])
                        /\ Elems(new[h]) \cap peer_set[h] = {}
                        /\ Len(new[h]) + Len(peers[h]) <= MaxPeers
    PROVE  /\ peers' \in [Hashes -> Seq(Peers)]
           /\ peer_set' \in [Hashes -> SUBSET Peers]
           /\ \A h \in Hashes : /\ Distinct(peers'[h])
                                /\ Elems(peers'[h]) = peer_set'[h]
                                /\ Len(peers'[h]) <= MaxPeers
                                /\ h \notin H => peers'[h] = peers[h]
                                /\ peers[h] # <<>> => peers'[h] # <<>>
                                /\ h \in H /\ new[h] # <<>> => peers'[h] # <<>>
<1>1. /\ peers' = [h \in Hashes |-> IF h \in H THEN new[h] \o peers[h] ELSE peers[h]]
      /\ peer_set' = [h \in Hashes |->
                        IF h \in H THEN peer_set[h] \cup Elems(new[h]) ELSE peer_set[h]]
  BY DEF Merge
<1>2. ASSUME NEW h \in Hashes
      PROVE  /\ peers[h] \in Seq(Peers) /\ peer_set[h] \subseteq Peers
             /\ Distinct(peers[h]) /\ Elems(peers[h]) = peer_set[h]
             /\ Len(peers[h]) <= MaxPeers
  BY DEF IInv, TypeOK, MemoryTypeOK, MemoryInv, PendingPeersSound
<1>3. ASSUME NEW h \in Hashes, h \in H
      PROVE  /\ peers'[h] \in Seq(Peers) /\ peer_set'[h] \subseteq Peers
             /\ Distinct(peers'[h]) /\ Elems(peers'[h]) = peer_set'[h]
             /\ Len(peers'[h]) <= MaxPeers
             /\ peers[h] # <<>> \/ new[h] # <<>> => peers'[h] # <<>>
  <2>1. PICK a \in Seq(Peers) : a = new[h]
    BY <1>3
  <2>2. PICK b \in Seq(Peers) : b = peers[h]
    BY <1>2
  <2>3. /\ Distinct(a) /\ Distinct(b) /\ Elems(a) \cap Elems(b) = {}
        /\ Len(a) + Len(b) <= MaxPeers
    BY <1>2, <1>3, <2>1, <2>2
  <2>4. /\ a \o b \in Seq(Peers) /\ Len(a \o b) = Len(a) + Len(b)
        /\ Distinct(a \o b) /\ Elems(a \o b) = Elems(a) \cup Elems(b)
    BY <2>3, ConcatFacts
  <2>5. a # <<>> \/ b # <<>> => a \o b # <<>>
    OBVIOUS
  <2>6. peers'[h] = a \o b /\ peer_set'[h] = Elems(b) \cup Elems(a)
    BY <1>1, <1>2, <1>3, <2>1, <2>2
  <2>7. Elems(a) \subseteq Peers /\ Elems(b) \subseteq Peers
    BY SeqFacts
  <2> QED
    BY <2>1, <2>2, <2>3, <2>4, <2>5, <2>6, <2>7
<1>4. ASSUME NEW h \in Hashes, h \notin H
      PROVE  peers'[h] = peers[h] /\ peer_set'[h] = peer_set[h]
  BY <1>1, <1>4
<1>5. peers' \in [Hashes -> Seq(Peers)]
  <2>1. \A h \in Hashes : peers'[h] \in Seq(Peers)
    BY <1>2, <1>3, <1>4
  <2> QED
    BY <1>1, <2>1
<1>6. peer_set' \in [Hashes -> SUBSET Peers]
  <2>1. \A h \in Hashes : peer_set'[h] \in SUBSET Peers
    BY <1>2, <1>3, <1>4
  <2> QED
    BY <1>1, <2>1
<1> QED
  BY <1>2, <1>3, <1>4, <1>5, <1>6

\* Moving or putting a hash to the front of the ready queue.
LEMMA PushFrontFacts ==
    ASSUME IInv, NEW h \in Hashes, push_front_ready(h)
    PROVE  /\ ready' \in Seq(Hashes) /\ Distinct(ready')
           /\ Elems(ready') = ready_set' /\ ready_set' = ready_set \cup {h}
<1>1. ready \in Seq(Hashes) /\ Distinct(ready) /\ Elems(ready) = ready_set
  BY DEF IInv, TypeOK, MemoryTypeOK, MemoryInv, NoStrandedJob
<1>2. /\ Without(ready, h) \in Seq(Hashes) /\ Distinct(Without(ready, h))
      /\ Elems(Without(ready, h)) = Elems(ready) \ {h}
  BY <1>1, WithoutFacts
<1>3. <<h>> \in Seq(Hashes) /\ Distinct(<<h>>) /\ Elems(<<h>>) = {h}
  BY DEF Distinct, Elems
<1>4. /\ ready' \in Seq(Hashes) /\ Distinct(ready')
      /\ Elems(ready') = {h} \cup (Elems(ready) \ {h})
  <2>1. PICK a \in Seq(Hashes) : a = <<h>>
    BY <1>3
  <2>2. PICK b \in Seq(Hashes) : b = Without(ready, h)
    BY <1>2
  <2>3. /\ a \o b \in Seq(Hashes) /\ Distinct(a \o b)
        /\ Elems(a \o b) = Elems(a) \cup Elems(b)
    <3>1. Distinct(a) /\ Distinct(b) /\ Elems(a) \cap Elems(b) = {}
      BY <1>2, <1>3, <2>1, <2>2
    <3> QED
      BY <3>1, ConcatFacts
  <2>4. ready' = a \o b
    BY <2>1, <2>2 DEF push_front_ready
  <2> QED
    BY <1>2, <1>3, <2>1, <2>2, <2>3, <2>4
<1> QED
  BY <1>1, <1>4 DEF push_front_ready

\* The workers and their rounds are the same.
LEMMA WorkersSame ==
    ASSUME IInv, UNCHANGED <<workers, lost, mode>>, mode = "down" => jobs' = {},
           running' = running
    PROVE  WorkerInv'
BY DEF IInv, WorkerInv, OneWorkerPerHash, WorkersAlive

\* The number of hashes in memory.
LEMMA JobsFinite ==
    ASSUME IInv
    PROVE  IsFiniteSet(jobs) /\ Cardinality(jobs) \in Nat /\ Cardinality(jobs) <= MaxActive
<1>1. jobs \subseteq Hashes /\ Cardinality(jobs) <= MaxActive
  BY DEF IInv, TypeOK, MemoryTypeOK, MemoryInv, PendingPeersSound
<1> QED
  BY <1>1, ConstantsAssumption, FS_Subset, FS_CardinalityType

\* A discovery is persisted.
LEMMA PersistKeeps ==
    ASSUME TableInv, NEW h \in Hashes, NEW ps \in SUBSET Peers,
           persist_hash_discovery(h, ps), UNCHANGED attempt
    PROVE  TableInv' /\ NoNewRejection
<1>1. CASE ps = {}
  BY <1>1, DiscoverPeerlessKeeps DEF persist_hash_discovery
<1>2. CASE ps # {}
  <2>1. PICK kept \in SUBSET (job_peers[h] \cup ps) :
          job_peers' = [job_peers EXCEPT ![h] = kept]
    BY <1>2 DEF persist_hash_discovery
  <2>2. job_peers \in [Hashes -> SUBSET Peers]
    BY DEF TableInv, TableTypeOK
  <2>3. job_peers' \in [Hashes -> SUBSET Peers]
    BY <2>1, <2>2
  <2>4. discover_peers(h)
    BY <1>2 DEF persist_hash_discovery
  <2> QED
    BY <2>3, <2>4, DiscoverPeersKeeps
<1> QED
  BY <1>1, <1>2

\* What merge_peers admits fits into the pending list.
LEMMA MergePeersFits ==
    ASSUME IInv, NEW h \in Hashes, NEW ps \in SUBSET Peers, NEW new \in merge_peers(h, ps)
    PROVE  /\ new \in Seq(Peers) /\ Distinct(new)
           /\ Elems(new) \cap peer_set[h] = {}
           /\ Len(new) + Len(peers[h]) <= MaxPeers
<1> DEFINE fresh == ps \ peer_set[h]
           n == Smaller(MaxPeers - Len(peers[h]), Cardinality(fresh))
<1>1. Len(peers[h]) \in Nat /\ Len(peers[h]) <= MaxPeers
  BY DEF IInv, TypeOK, MemoryTypeOK, MemoryInv, PendingPeersSound
<1>2. Cardinality(fresh) \in Nat
  BY ConstantsAssumption, FS_Subset, FS_CardinalityType
<1> HIDE DEF fresh
<1>3. n \in Nat /\ n <= MaxPeers - Len(peers[h])
  BY <1>1, <1>2, ConstantsAssumption DEF Smaller
<1>4. new \in Orders(fresh, n)
  BY DEF merge_peers, fresh
<1> HIDE DEF n
<1>5. new \in Seq(fresh) /\ Len(new) = n /\ Distinct(new) /\ Elems(new) \subseteq fresh
  BY <1>3, <1>4, OrdersFacts
<1>6. fresh \subseteq Peers /\ fresh \cap peer_set[h] = {}
  BY DEF fresh
<1>7. new \in Seq(Peers)
  BY <1>5, <1>6
<1> QED
  BY <1>1, <1>3, <1>5, <1>6, <1>7, ConstantsAssumption

\* The admission of what merge_peers lets in keeps the memory sound.
LEMMA AdmitKeeps ==
    ASSUME IInv, NEW h \in Hashes, NEW ps \in SUBSET Peers, NEW new \in merge_peers(h, ps),
           admit_job_peers(h, new), UNCHANGED <<workers, lost, mode>>, mode = "running"
    PROVE  MemoryTypeOK' /\ MemoryInv' /\ WorkerInv'
<1>1. /\ new \in Seq(Peers) /\ Distinct(new)
      /\ Elems(new) \cap peer_set[h] = {}
      /\ Len(new) + Len(peers[h]) <= MaxPeers
  BY MergePeersFits
<1>2. MemoryTypeOK /\ NoStrandedJob /\ PendingPeersSound /\ Untracked
  BY DEF IInv, TypeOK, MemoryInv
<1>3. CASE UNCHANGED memory
  <2>1. UNCHANGED <<jobs, peers, peer_set, running, ready, ready_set>>
    BY <1>3 DEF memory
  <2>2. MemoryTypeOK' /\ MemoryInv'
    BY <1>2, <2>1 DEF MemoryTypeOK, MemoryInv, NoStrandedJob, PendingPeersSound, Untracked
  <2> QED
    BY <2>1, <2>2, WorkersSame
<1>4. CASE /\ new # <<>> /\ Merge({h}, [x \in {h} |-> new]) /\ UNCHANGED running
           /\ \/ h \in jobs /\ UNCHANGED jobs
              \/ h \notin jobs /\ Cardinality(jobs) < MaxActive /\ jobs' = jobs \cup {h}
           /\ \/ push_front_ready(h) /\ (h \notin jobs \/ h \notin running \/ h \in ready_set)
              \/ h \in jobs /\ h \in running /\ UNCHANGED <<ready, ready_set>>
  <2>1. /\ peers' \in [Hashes -> Seq(Peers)]
        /\ peer_set' \in [Hashes -> SUBSET Peers]
        /\ \A g \in Hashes : /\ Distinct(peers'[g])
                             /\ Elems(peers'[g]) = peer_set'[g]
                             /\ Len(peers'[g]) <= MaxPeers
                             /\ g # h => peers'[g] = peers[g]
                             /\ peers[g] # <<>> => peers'[g] # <<>>
        /\ peers'[h] # <<>>
    <3>1. PICK f : f = [x \in {h} |-> new]
      OBVIOUS
    <3>2. PICK H \in SUBSET Hashes : H = {h}
      OBVIOUS
    <3>3. Merge(H, f)
      BY <1>4, <3>1, <3>2
    <3>4. \A g \in H : f[g] = new /\ g = h
      BY <3>1, <3>2
    <3>5. \A g \in H : /\ f[g] \in Seq(Peers) /\ Distinct(f[g])
                       /\ Elems(f[g]) \cap peer_set[g] = {}
                       /\ Len(f[g]) + Len(peers[g]) <= MaxPeers
      BY <1>1, <3>4
    <3>6. /\ peers' \in [Hashes -> Seq(Peers)]
          /\ peer_set' \in [Hashes -> SUBSET Peers]
          /\ \A g \in Hashes : /\ Distinct(peers'[g])
                               /\ Elems(peers'[g]) = peer_set'[g]
                               /\ Len(peers'[g]) <= MaxPeers
                               /\ g \notin H => peers'[g] = peers[g]
                               /\ peers[g] # <<>> => peers'[g] # <<>>
                               /\ g \in H /\ f[g] # <<>> => peers'[g] # <<>>
      BY <3>3, <3>5, MergeKeeps
    <3> QED
      BY <1>4, <3>2, <3>4, <3>6
  <2>2. /\ jobs' = jobs \cup {h} /\ Cardinality(jobs') <= MaxActive
    <3>1. IsFiniteSet(jobs) /\ Cardinality(jobs) \in Nat /\ Cardinality(jobs) <= MaxActive
      BY JobsFinite
    <3>2. CASE h \in jobs
      <4>1. jobs' = jobs /\ jobs' = jobs \cup {h}
        BY <1>4, <3>2
      <4> QED
        BY <3>1, <4>1
    <3>3. CASE h \notin jobs
      <4>1. jobs' = jobs \cup {h} /\ Cardinality(jobs) < MaxActive
        BY <1>4, <3>3
      <4>2. Cardinality(jobs \cup {h}) = Cardinality(jobs) + 1
        BY <3>1, <3>3, FS_AddElement
      <4> QED
        BY <3>1, <4>1, <4>2, ConstantsAssumption
    <3> QED
      BY <3>2, <3>3
  <2>3. /\ ready' \in Seq(Hashes) /\ Distinct(ready') /\ Elems(ready') = ready_set'
        /\ ready_set' = jobs' \ running'
    <3>1. CASE push_front_ready(h) /\ (h \notin jobs \/ h \notin running \/ h \in ready_set)
      <4>1. /\ ready' \in Seq(Hashes) /\ Distinct(ready') /\ Elems(ready') = ready_set'
            /\ ready_set' = ready_set \cup {h}
        BY <3>1, PushFrontFacts
      <4>2. h \notin running
        BY <1>2, <3>1 DEF NoStrandedJob
      <4> QED
        BY <1>2, <1>4, <2>2, <4>1, <4>2 DEF NoStrandedJob
    <3>2. CASE h \in jobs /\ h \in running /\ UNCHANGED <<ready, ready_set>>
      BY <1>2, <1>4, <2>2, <3>2 DEF NoStrandedJob, MemoryTypeOK
    <3> QED
      BY <1>4, <3>1, <3>2
  <2>4. NoStrandedJob'
    <3>1. running' \subseteq jobs'
      BY <1>2, <1>4, <2>2 DEF NoStrandedJob
    <3>2. \A g \in ready_set' : peers'[g] # <<>>
      BY <1>2, <1>4, <2>1, <2>2, <2>3 DEF NoStrandedJob, MemoryTypeOK
    <3> QED
      BY <2>3, <3>1, <3>2 DEF NoStrandedJob
  <2>5. PendingPeersSound'
    BY <2>1, <2>2 DEF PendingPeersSound
  <2>6. Untracked'
    BY <1>2, <2>1, <2>2 DEF Untracked
  <2>7. MemoryTypeOK'
    BY <1>2, <1>4, <2>1, <2>2, <2>3 DEF MemoryTypeOK
  <2>8. WorkerInv'
    BY <1>4, WorkersSame
  <2> QED
    BY <2>4, <2>5, <2>6, <2>7, <2>8 DEF MemoryInv
<1> QED
  BY <1>2, <1>3, <1>4 DEF admit_job_peers, NoStrandedJob

\* A discovery arrives.
LEMMA ReceiveDiscoveryKeeps ==
    ASSUME IInv, NEW h \in Hashes, NEW ps \in SUBSET Peers, ReceiveDiscovery(h, ps)
    PROVE  IInv'
<1>1. /\ mode = "running" /\ observed < MaxDiscoveries /\ observed' = observed + 1
      /\ persist_hash_discovery(h, ps)
      /\ UNCHANGED <<workers, lost, mode, attempt, faults>>
  BY DEF ReceiveDiscovery, Selecting
<1>2. TableInv' /\ NoNewRejection
  BY <1>1, PersistKeeps DEF IInv
<1>3. MemoryTypeOK' /\ MemoryInv' /\ WorkerInv'
  <2>1. PICK new \in merge_peers(h, ps) : admit_job_peers(h, new)
    BY DEF ReceiveDiscovery
  <2> QED
    BY <1>1, <2>1, AdmitKeeps
<1>4. RoundInv'
  BY <1>1, <1>2, RoundsKept
<1>5. observed' \in 0 .. MaxDiscoveries /\ faults' \in 0 .. MaxFaults
  BY <1>1, ConstantsAssumption DEF IInv, TypeOK
<1> QED
  BY <1>2, <1>3, <1>4, <1>5 DEF IInv, TypeOK, TableInv

\* The positions FirstOf picks are different.
LEMMA FirstOfFacts ==
    ASSUME NEW S \in SUBSET Nat, NEW n \in Nat, NEW f \in FirstOf(S, n)
    PROVE  /\ f \in [1 .. n -> S]
           /\ \A i, j \in 1 .. n : f[i] = f[j] => i = j
<1>1. /\ f \in [1 .. n -> S] /\ \A i, j \in 1 .. n : i < j => f[i] < f[j]
  BY DEF FirstOf
<1>2. \A i \in 1 .. n : f[i] \in Nat
  BY <1>1
<1>3. ASSUME NEW i \in 1 .. n, NEW j \in 1 .. n, f[i] = f[j] PROVE i = j
  BY <1>1, <1>2, <1>3
<1> QED
  BY <1>1, <1>3

\* The rows of due_hash_jobs: different rows, each with a retained peer.
LEMMA DueRowsFacts ==
    ASSUME IInv, NEW m \in Nat, NEW rows \in due_hash_jobs(m)
    PROVE  LET all == zeroQ \o pastQ
           IN  /\ all \in Seq(Hashes) /\ Distinct(all)
               /\ \A i : Row(i) = all[i]
               /\ DueRows \subseteq 1 .. Len(all) /\ IsFiniteSet(DueRows)
               /\ \A i \in DueRows : job_peers[Row(i)] # {}
               /\ \A i \in DueRows : Row(i) \in Hashes
               /\ Elems(rows) \subseteq DueRows
<1> DEFINE all == zeroQ \o pastQ
<1>1. all \in Seq(Hashes) /\ Len(all) = Len(zeroQ) + Len(pastQ) /\ Distinct(all)
  <2>1. /\ zeroQ \in Seq(Hashes) /\ pastQ \in Seq(Hashes) /\ Distinct(zeroQ)
        /\ Distinct(pastQ) /\ Elems(zeroQ) \cap Elems(pastQ) = {}
    BY DEF IInv, TableInv, TableTypeOK, ScheduleInv
  <2> QED
    BY <2>1, ConcatFacts
<1>2. \A i : Row(i) = all[i]
  BY DEF Row
<1> HIDE DEF all
<1>3. /\ DueRows \subseteq 1 .. Len(all) /\ IsFiniteSet(DueRows)
      /\ \A i \in DueRows : job_peers[Row(i)] # {}
      /\ \A i \in DueRows : Row(i) \in Hashes
  <2>1. DueRows \subseteq 1 .. Len(all) /\ \A i \in DueRows : job_peers[Row(i)] # {}
    BY <1>1 DEF DueRows
  <2>2. IsFiniteSet(1 .. Len(all))
    BY <1>1, FS_Interval
  <2>3. IsFiniteSet(DueRows)
    BY <2>1, <2>2, FS_Subset
  <2> QED
    BY <1>1, <1>2, <2>1, <2>3
<1>4. Elems(rows) \subseteq DueRows
  <2>1. PICK c \in Nat : c = Smaller(m, Cardinality(DueRows))
    <3>1. Cardinality(DueRows) \in Nat
      BY <1>3, FS_CardinalityType
    <3> QED
      BY <3>1 DEF Smaller
  <2>2. rows \in FirstOf(DueRows, c)
    BY <2>1 DEF due_hash_jobs
  <2>3. DueRows \in SUBSET Nat
    BY <1>1, <1>3
  <2>4. rows \in [1 .. c -> DueRows]
    BY <2>1, <2>2 DEF FirstOf
  <2> QED
    BY <2>4 DEF Elems
<1> QED
  BY <1>1, <1>2, <1>3, <1>4 DEF all

\* What load_due_jobs returns: the rows of different hashes, none of them
\* tracked, each with a retained peer, and no more than there are free slots.
LEMMA LoadedFacts ==
    ASSUME IInv, NEW m \in Nat, NEW rows \in due_hash_jobs(m), NEW available \in Nat,
           NEW taken \in FirstOf({i \in Elems(rows) : Row(i) \notin jobs},
                                 Smaller(available,
                                         Cardinality({i \in Elems(rows) : Row(i) \notin jobs})))
    PROVE  LET order == [k \in DOMAIN taken |-> Row(taken[k])]
           IN  /\ order \in Seq(Hashes) /\ Distinct(order)
               /\ Elems(order) \cap jobs = {}
               /\ \A h \in Elems(order) : job_peers[h] # {}
               /\ IsFiniteSet(Elems(order)) /\ Cardinality(Elems(order)) <= available
<1> DEFINE all == zeroQ \o pastQ
           fresh == {i \in Elems(rows) : Row(i) \notin jobs}
           n == Smaller(available, Cardinality(fresh))
           order == [k \in DOMAIN taken |-> Row(taken[k])]
<1>0. /\ all \in Seq(Hashes) /\ Distinct(all)
      /\ \A i : Row(i) = all[i]
      /\ DueRows \subseteq 1 .. Len(all) /\ IsFiniteSet(DueRows)
      /\ \A i \in DueRows : job_peers[Row(i)] # {}
      /\ \A i \in DueRows : Row(i) \in Hashes
      /\ Elems(rows) \subseteq DueRows
  <2> HIDE DEF fresh, n, order
  <2> QED
    BY DueRowsFacts
<1> HIDE DEF all
<1>1. all \in Seq(Hashes) /\ Distinct(all)
  BY <1>0
<1>2. \A i : Row(i) = all[i]
  BY <1>0
<1>3. /\ DueRows \subseteq 1 .. Len(all) /\ IsFiniteSet(DueRows)
      /\ \A i \in DueRows : job_peers[Row(i)] # {}
      /\ \A i \in DueRows : Row(i) \in Hashes
  BY <1>0
<1>4. Elems(rows) \subseteq DueRows
  BY <1>0
<1>5. fresh \subseteq DueRows /\ \A i \in fresh : Row(i) \notin jobs
  BY <1>4
<1>6. n \in Nat /\ n <= available
  <2>1. IsFiniteSet(fresh)
    BY <1>3, <1>5, FS_Subset
  <2>2. Cardinality(fresh) \in Nat
    BY <2>1, FS_CardinalityType
  <2> HIDE DEF fresh
  <2> QED
    BY <2>2 DEF Smaller
<1>7. taken \in FirstOf(fresh, n)
  OBVIOUS
<1> HIDE DEF fresh, n
<1>8. taken \in [1 .. n -> fresh] /\ \A i, j \in 1 .. n : taken[i] = taken[j] => i = j
  <2>1. fresh \in SUBSET Nat
    <3>1. Len(all) \in Nat
      BY <1>1
    <3>2. 1 .. Len(all) \subseteq Nat
      BY <3>1
    <3> QED
      BY <1>3, <1>5, <3>2
  <2>2. n \in Nat
    BY <1>6
  <2> QED
    BY <1>7, <2>1, <2>2, FirstOfFacts
<1>9. order = [k \in 1 .. n |-> all[taken[k]]]
  BY <1>2, <1>8
<1> HIDE DEF order
<1>10. \A k \in 1 .. n : /\ taken[k] \in 1 .. Len(all) /\ all[taken[k]] \in Hashes
                         /\ all[taken[k]] \notin jobs /\ job_peers[all[taken[k]]] # {}
  BY <1>2, <1>3, <1>5, <1>8
<1>11. /\ order \in Seq(Hashes) /\ Len(order) = n
       /\ \A k \in 1 .. n : order[k] = all[taken[k]]
  BY <1>6, <1>9, <1>10
<1>12. Distinct(order)
  <2>1. \A i, j \in 1 .. Len(all) : all[i] = all[j] => i = j
    BY <1>1, SeqFacts
  <2>2. \A i, j \in 1 .. n : order[i] = order[j] => i = j
    <3> SUFFICES ASSUME NEW i \in 1 .. n, NEW j \in 1 .. n, order[i] = order[j]
                 PROVE  i = j
      OBVIOUS
    <3>1. all[taken[i]] = all[taken[j]]
      BY <1>11
    <3>2. taken[i] = taken[j]
      BY <1>10, <2>1, <3>1
    <3> QED
      BY <1>8, <3>2
  <2> QED
    BY <1>11, <2>2, SeqFacts
<1>13. \A x : x \in Elems(order) <=> \E k \in 1 .. n : order[k] = x
  BY <1>11, SeqFacts
<1>14. IsFiniteSet(Elems(order)) /\ Cardinality(Elems(order)) <= n
  <2>1. PICK T : T = Elems(order)
    OBVIOUS
  <2>2. \A k \in 1 .. n : order[k] \in T
    BY <1>13, <2>1
  <2>3. order \in [1 .. n -> T]
    BY <1>9, <1>11, <2>2
  <2>4. order \in Surjection(1 .. n, T)
    BY <1>13, <2>1, <2>3 DEF Surjection
  <2>5. IsFiniteSet(1 .. n) /\ Cardinality(1 .. n) = n
    BY <1>6, FS_Interval
  <2> QED
    BY <2>1, <2>4, <2>5, FS_Surjection
<1>15. Cardinality(Elems(order)) <= available
  <2>1. Cardinality(Elems(order)) \in Nat
    BY <1>14, FS_CardinalityType
  <2> QED
    BY <1>6, <1>14, <2>1
<1>16. \A h \in Elems(order) : h \notin jobs /\ job_peers[h] # {}
  BY <1>10, <1>11, <1>13
<1>17. Elems(order) \cap jobs = {}
  BY <1>16
<1> QED
  BY <1>11, <1>12, <1>14, <1>15, <1>16, <1>17 DEF order

\* The retained peers of a row that has some fit into an empty pending list.
LEMMA RetainedFits ==
    ASSUME IInv, NEW h \in Hashes, job_peers[h] # {}, NEW new \in hash_job_peers(h)
    PROVE  new \in Seq(Peers) /\ Distinct(new) /\ Len(new) <= MaxPeers /\ new # <<>>
<1>1. job_peers[h] \subseteq Peers
  BY DEF IInv, TableInv, TableTypeOK
<1>2. IsFiniteSet(job_peers[h])
  BY <1>1, ConstantsAssumption, FS_Subset
<1>3. Cardinality(job_peers[h]) \in Nat /\ Cardinality(job_peers[h]) # 0
  BY <1>2, FS_CardinalityType, FS_EmptySet
<1>4. PICK n \in Nat : n = Smaller(MaxPeers, Cardinality(job_peers[h]))
  BY <1>3, ConstantsAssumption DEF Smaller
<1>5. n <= MaxPeers /\ n # 0
  BY <1>3, <1>4, ConstantsAssumption DEF Smaller
<1>6. new \in Orders(job_peers[h], n)
  BY <1>4 DEF hash_job_peers
<1>7. new \in Seq(job_peers[h]) /\ Len(new) = n /\ Distinct(new)
  BY <1>4, <1>6, OrdersFacts
<1> QED
  BY <1>1, <1>5, <1>7

\* The retry loader.
LEMMA LoadDueJobsKeeps ==
    ASSUME IInv, LoadDueJobs PROVE IInv'
<1> DEFINE slots == MaxActive - Cardinality(jobs)
<1>1. /\ mode = "running" /\ slots > 0
      /\ UNCHANGED <<running, workers, lost, mode, tables, bounds>>
  BY DEF LoadDueJobs, Selecting
<1>2. /\ IsFiniteSet(jobs) /\ Cardinality(jobs) \in Nat /\ slots \in Nat
  BY <1>1, JobsFinite, ConstantsAssumption
<1>3. PICK available \in Nat : available = slots
  BY <1>2
<1> DEFINE fresh(rows) == {i \in Elems(rows) : Row(i) \notin jobs}
           Loads(taken) ==
             LET order == [k \in DOMAIN taken |-> Row(taken[k])]
                 H == Elems(order)
                 all == UNION {hash_job_peers(h) : h \in H}
             IN  /\ jobs' = jobs \cup H
                 /\ \E new \in {f \in [H -> all] : \A h \in H : f[h] \in hash_job_peers(h)} :
                       Merge(H, new)
                 /\ ready' = ready \o order
                 /\ ready_set' = ready_set \cup H
<1>r. PICK rows \in due_hash_jobs(MaxActive) :
        \E taken \in FirstOf(fresh(rows), Smaller(slots, Cardinality(fresh(rows)))) :
           Loads(taken)
  BY DEF LoadDueJobs, due_rows
<1>4. PICK taken \in FirstOf(fresh(rows), Smaller(available, Cardinality(fresh(rows)))) :
        Loads(taken)
  BY <1>3, <1>r
<1> DEFINE ord == [k \in DOMAIN taken |-> Row(taken[k])]
<1>5. /\ ord \in Seq(Hashes) /\ Distinct(ord) /\ Elems(ord) \cap jobs = {}
      /\ \A h \in Elems(ord) : job_peers[h] # {}
      /\ IsFiniteSet(Elems(ord)) /\ Cardinality(Elems(ord)) <= available
  <2>1. MaxActive \in Nat
    BY ConstantsAssumption
  <2>2. rows \in due_hash_jobs(MaxActive)
    BY <1>r
  <2>3. taken \in FirstOf({i \in Elems(rows) : Row(i) \notin jobs},
                          Smaller(available,
                                  Cardinality({i \in Elems(rows) : Row(i) \notin jobs})))
    BY <1>4
  <2>4. available \in Nat
    BY <1>3
  <2> QED
    BY <2>1, <2>2, <2>3, <2>4, LoadedFacts
<1>6. PICK order \in Seq(Hashes) : order = ord
  BY <1>5
<1>7. PICK H \in SUBSET Hashes : H = Elems(order)
  <2>1. Elems(order) \subseteq Hashes
    BY SeqFacts
  <2> QED
    BY <2>1
<1>8. /\ Distinct(order) /\ H \cap jobs = {} /\ \A h \in H : job_peers[h] # {}
      /\ IsFiniteSet(H) /\ Cardinality(H) <= available
  BY <1>5, <1>6, <1>7
<1>9. PICK new : /\ \A h \in H : new[h] \in hash_job_peers(h)
                 /\ Merge(H, new)
  BY <1>4, <1>6, <1>7
<1>10. jobs' = jobs \cup H /\ ready' = ready \o order /\ ready_set' = ready_set \cup H
  BY <1>4, <1>6, <1>7
<1> HIDE DEF ord
<1>11. MemoryTypeOK /\ NoStrandedJob /\ PendingPeersSound /\ Untracked
  BY DEF IInv, TypeOK, MemoryInv
<1>12. \A h \in H : /\ peers[h] = <<>> /\ peer_set[h] = {} /\ h \notin ready_set
                    /\ h \notin running
  <2> SUFFICES ASSUME NEW h \in H
               PROVE  /\ peers[h] = <<>> /\ peer_set[h] = {} /\ h \notin ready_set
                      /\ h \notin running
    OBVIOUS
  <2>1. h \in Hashes /\ h \notin jobs
    BY <1>8
  <2>2. peers[h] = <<>> /\ Elems(peers[h]) = peer_set[h]
    BY <1>11, <2>1 DEF Untracked, PendingPeersSound
  <2> QED
    BY <1>11, <2>1, <2>2, EmptyFacts DEF NoStrandedJob
<1>13. ASSUME NEW h \in H
       PROVE  /\ new[h] \in Seq(Peers) /\ Distinct(new[h]) /\ new[h] # <<>>
              /\ Elems(new[h]) \cap peer_set[h] = {}
              /\ Len(new[h]) + Len(peers[h]) <= MaxPeers
  <2>1. PICK x \in hash_job_peers(h) : x = new[h]
    BY <1>9
  <2>2. x \in Seq(Peers) /\ Distinct(x) /\ Len(x) <= MaxPeers /\ x # <<>>
    BY <1>8, RetainedFits
  <2>3. Len(x) + Len(peers[h]) <= MaxPeers
    BY <1>12, <2>2, EmptyFacts, ConstantsAssumption
  <2> QED
    BY <1>12, <2>1, <2>2, <2>3
<1>14. /\ peers' \in [Hashes -> Seq(Peers)]
       /\ peer_set' \in [Hashes -> SUBSET Peers]
       /\ \A h \in Hashes : /\ Distinct(peers'[h])
                            /\ Elems(peers'[h]) = peer_set'[h]
                            /\ Len(peers'[h]) <= MaxPeers
                            /\ h \notin H => peers'[h] = peers[h]
                            /\ peers[h] # <<>> => peers'[h] # <<>>
                            /\ h \in H /\ new[h] # <<>> => peers'[h] # <<>>
  <2>1. Merge(H, new)
    BY <1>9
  <2>2. \A h \in H : /\ new[h] \in Seq(Peers) /\ Distinct(new[h])
                     /\ Elems(new[h]) \cap peer_set[h] = {}
                     /\ Len(new[h]) + Len(peers[h]) <= MaxPeers
    BY <1>13
  <2> HIDE DEF slots, fresh, Loads
  <2> QED
    BY <2>1, <2>2, MergeKeeps
<1>15. /\ ready' \in Seq(Hashes) /\ Distinct(ready') /\ Elems(ready') = ready_set'
  <2>1. /\ ready \in Seq(Hashes) /\ Distinct(ready) /\ Elems(ready) = ready_set
        /\ Elems(ready) \cap Elems(order) = {}
    BY <1>7, <1>11, <1>12 DEF NoStrandedJob, MemoryTypeOK
  <2>2. /\ ready \o order \in Seq(Hashes) /\ Distinct(ready \o order)
        /\ Elems(ready \o order) = Elems(ready) \cup Elems(order)
    BY <1>8, <2>1, ConcatFacts
  <2> QED
    BY <1>7, <1>10, <2>1, <2>2
<1>16. NoStrandedJob'
  <2>1. ready_set' = jobs' \ running' /\ running' \subseteq jobs'
    BY <1>1, <1>10, <1>11, <1>12 DEF NoStrandedJob
  <2>2. \A h \in ready_set' : peers'[h] # <<>>
    BY <1>10, <1>11, <1>13, <1>14 DEF NoStrandedJob, MemoryTypeOK
  <2> QED
    BY <1>15, <2>1, <2>2 DEF NoStrandedJob
<1>17. PendingPeersSound'
  <2>1. Cardinality(jobs \cup H) =
          Cardinality(jobs) + Cardinality(H) - Cardinality(jobs \cap H)
    BY <1>2, <1>8, FS_Union
  <2>2. jobs \cap H = {} /\ Cardinality({}) = 0 /\ Cardinality(H) \in Nat
    BY <1>8, FS_EmptySet, FS_CardinalityType
  <2>3. Cardinality(jobs') <= MaxActive
    <3>1. Cardinality(jobs') = Cardinality(jobs) + Cardinality(H) - 0
      BY <1>10, <2>1, <2>2
    <3>2. Cardinality(H) <= MaxActive - Cardinality(jobs)
      BY <1>3, <1>8
    <3>3. Cardinality(jobs) \in Nat /\ Cardinality(H) \in Nat /\ MaxActive \in Nat
      BY <1>2, <2>2, ConstantsAssumption
    <3> QED
      BY <3>1, <3>2, <3>3
  <2> QED
    BY <1>14, <2>3 DEF PendingPeersSound
<1>18. Untracked'
  BY <1>10, <1>11, <1>14 DEF Untracked
<1>19. MemoryTypeOK'
  BY <1>1, <1>10, <1>11, <1>14, <1>15 DEF MemoryTypeOK
<1>20. WorkerInv'
  BY <1>1, WorkersSame
<1>21. TableInv' /\ UNCHANGED <<status, attempt>>
  BY <1>1, TablesSame DEF IInv
<1>22. RoundInv'
  <2>1. NoNewRejection
    BY <1>21 DEF NoNewRejection
  <2> QED
    BY <1>1, <1>21, <2>1, RoundsKept
<1>23. observed' \in 0 .. MaxDiscoveries /\ faults' \in 0 .. MaxFaults
  BY <1>1 DEF IInv, TypeOK, bounds
<1> QED
  BY <1>16, <1>17, <1>18, <1>19, <1>20, <1>21, <1>22, <1>23
  DEF IInv, TypeOK, MemoryInv, TableInv

\* A worker leaves the set.
LEMMA WorkerLeaves ==
    ASSUME IInv, NEW w \in workers, workers' = workers \ {w}
    PROVE  /\ \A x, y \in workers' : x.hash = y.hash => x = y
           /\ IsFiniteSet(workers') /\ Cardinality(workers') <= MaxConcurrent
           /\ {x.hash : x \in workers'} = {x.hash : x \in workers} \ {w.hash}
           /\ workers' \in SUBSET Worker
           /\ \A x \in workers' : x.hash # w.hash
<1>1. /\ \A x, y \in workers : x.hash = y.hash => x = y
      /\ IsFiniteSet(workers) /\ Cardinality(workers) <= MaxConcurrent
  BY DEF IInv, WorkerInv, OneWorkerPerHash, WorkersAlive
<1>2. IsFiniteSet(workers') /\ Cardinality(workers') <= MaxConcurrent
  <2>1. IsFiniteSet(workers') /\ Cardinality(workers') = Cardinality(workers) - 1
    BY <1>1, FS_RemoveElement
  <2>2. Cardinality(workers) \in Nat
    BY <1>1, FS_CardinalityType
  <2> QED
    BY <1>1, <2>1, <2>2, ConstantsAssumption
<1>3. workers' \in SUBSET Worker
  BY DEF IInv, TypeOK, MemoryTypeOK
<1> QED
  BY <1>1, <1>2, <1>3

\* The scheduler's part of an outcome.
LEMMA ApplyKeeps ==
    ASSUME IInv, NEW h \in running, NEW phase, apply_job_outcome(h, phase)
    PROVE  /\ MemoryInv' /\ running' = running \ {h} /\ jobs' \subseteq jobs
           /\ peers' \in [Hashes -> Seq(Peers)]
           /\ peer_set' \in [Hashes -> SUBSET Peers]
           /\ ready' \in Seq(Hashes) /\ ready_set' \in SUBSET Hashes
<1>1. MemoryTypeOK /\ NoStrandedJob /\ PendingPeersSound /\ Untracked
  BY DEF IInv, TypeOK, MemoryInv
<1>2. h \in Hashes /\ h \in jobs /\ h \notin ready_set
  BY <1>1 DEF NoStrandedJob, MemoryTypeOK
<1>3. CASE Forget(h) /\ ready_set' = ready_set \ {h} /\ UNCHANGED ready
  <2>1. /\ jobs' = jobs \ {h} /\ running' = running \ {h}
        /\ peers' = [peers EXCEPT ![h] = <<>>]
        /\ peer_set' = [peer_set EXCEPT ![h] = {}]
        /\ ready' = ready /\ ready_set' = ready_set
    BY <1>2, <1>3 DEF Forget
  <2>2. /\ peers' \in [Hashes -> Seq(Peers)] /\ peer_set' \in [Hashes -> SUBSET Peers]
        /\ peers'[h] = <<>> /\ peer_set'[h] = {}
        /\ \A g \in Hashes \ {h} : peers'[g] = peers[g] /\ peer_set'[g] = peer_set[g]
    BY <1>1, <1>2, <2>1, EmptyFacts DEF MemoryTypeOK
  <2>3. NoStrandedJob'
    BY <1>1, <1>2, <2>1, <2>2 DEF NoStrandedJob, MemoryTypeOK
  <2>4. PendingPeersSound'
    <3>1. ASSUME NEW g \in Hashes
          PROVE  /\ Distinct(peers'[g]) /\ Elems(peers'[g]) = peer_set'[g]
                 /\ Len(peers'[g]) <= MaxPeers
      <4>1. CASE g = h
        <5>1. peers'[g] = <<>> /\ peer_set'[g] = {}
          BY <2>2, <4>1
        <5>2. 0 <= MaxPeers
          BY ConstantsAssumption
        <5> QED
          BY <5>1, <5>2, EmptyFacts
      <4>2. CASE g # h
        BY <1>1, <2>2, <4>2 DEF PendingPeersSound
      <4> QED
        BY <4>1, <4>2
    <3>2. IsFiniteSet(jobs) /\ Cardinality(jobs) \in Nat /\ Cardinality(jobs) <= MaxActive
      BY JobsFinite
    <3>3. IsFiniteSet(jobs') /\ Cardinality(jobs') = Cardinality(jobs) - 1
      BY <1>2, <2>1, <3>2, FS_RemoveElement
    <3>4. Cardinality(jobs') <= MaxActive
      BY <3>2, <3>3, ConstantsAssumption
    <3> QED
      BY <3>1, <3>4 DEF PendingPeersSound
  <2>5. Untracked'
    BY <1>1, <2>1, <2>2 DEF Untracked
  <2> QED
    BY <1>1, <2>1, <2>2, <2>3, <2>4, <2>5 DEF MemoryInv, MemoryTypeOK
<1>4. CASE /\ peers[h] # <<>> /\ running' = running \ {h} /\ push_ready(h)
           /\ UNCHANGED <<jobs, peers, peer_set>>
  <2>1. ready' = Append(ready, h) /\ ready_set' = ready_set \cup {h}
    BY <1>2, <1>4 DEF push_ready
  <2>2. ready \in Seq(Hashes) /\ Distinct(ready) /\ Elems(ready) = ready_set
    BY <1>1 DEF NoStrandedJob, MemoryTypeOK
  <2>3. /\ ready' \in Seq(Hashes) /\ Distinct(ready') /\ Elems(ready') = ready_set'
    BY <1>2, <2>1, <2>2, AppendFacts
  <2>4. NoStrandedJob'
    BY <1>1, <1>2, <1>4, <2>1, <2>3 DEF NoStrandedJob
  <2>5. PendingPeersSound' /\ Untracked'
    BY <1>1, <1>4 DEF PendingPeersSound, Untracked
  <2> QED
    BY <1>1, <1>2, <1>4, <2>1, <2>3, <2>4, <2>5 DEF MemoryInv, MemoryTypeOK
<1> QED
  BY <1>2, <1>3, <1>4 DEF apply_job_outcome

\* The tables and the bounds do not change and no round starts.
LEMMA QuietTables ==
    ASSUME IInv, UNCHANGED <<tables, bounds>>, workers' \subseteq workers
    PROVE  /\ TableInv' /\ RoundInv'
           /\ observed' \in 0 .. MaxDiscoveries /\ faults' \in 0 .. MaxFaults
<1>1. TableInv' /\ UNCHANGED <<status, attempt>>
  BY TablesSame DEF IInv
<1>2. NoNewRejection
  BY <1>1 DEF NoNewRejection
<1>3. RoundInv'
  BY <1>1, <1>2, RoundsKept
<1> QED
  BY <1>1, <1>3 DEF IInv, TypeOK, bounds

\* A worker that finished is joined.
LEMMA JoinNextKeeps ==
    ASSUME IInv, NEW w \in workers, JoinNext(w) PROVE IInv'
<1>1. /\ mode = "running" /\ apply_job_outcome(w.hash, w.phase) /\ workers' = workers \ {w}
      /\ UNCHANGED <<lost, mode, tables, bounds>>
  BY DEF JoinNext, Selecting
<1>2. running = {x.hash : x \in workers} \cup lost /\ \A x \in workers : x.hash \notin lost
  BY <1>1 DEF IInv, WorkerInv, OneWorkerPerHash, WorkersAlive
<1>3. w.hash \in running
  BY <1>2
<1>4. /\ MemoryInv' /\ running' = running \ {w.hash} /\ jobs' \subseteq jobs
      /\ peers' \in [Hashes -> Seq(Peers)] /\ peer_set' \in [Hashes -> SUBSET Peers]
      /\ ready' \in Seq(Hashes) /\ ready_set' \in SUBSET Hashes
  BY <1>1, <1>3, ApplyKeeps
<1>5. /\ \A x, y \in workers' : x.hash = y.hash => x = y
      /\ IsFiniteSet(workers') /\ Cardinality(workers') <= MaxConcurrent
      /\ {x.hash : x \in workers'} = {x.hash : x \in workers} \ {w.hash}
      /\ workers' \in SUBSET Worker
  BY <1>1, WorkerLeaves
<1>6. running' = {x.hash : x \in workers'} \cup lost'
  <2>1. PICK all : all = {x.hash : x \in workers}
    OBVIOUS
  <2>2. running = all \cup lost /\ w.hash \notin lost
    BY <1>2, <2>1
  <2>3. running' = running \ {w.hash} /\ {x.hash : x \in workers'} = all \ {w.hash}
    BY <1>4, <1>5, <2>1
  <2>4. lost' = lost
    BY <1>1
  <2> QED
    BY <2>2, <2>3, <2>4
<1>7. WorkerInv'
  BY <1>1, <1>2, <1>5, <1>6 DEF WorkerInv, OneWorkerPerHash, WorkersAlive
<1>8. MemoryTypeOK'
  BY <1>1, <1>4, <1>5 DEF IInv, TypeOK, MemoryTypeOK
<1>9. /\ TableInv' /\ RoundInv'
      /\ observed' \in 0 .. MaxDiscoveries /\ faults' \in 0 .. MaxFaults
  BY <1>1, QuietTables
<1> QED
  BY <1>4, <1>7, <1>8, <1>9 DEF IInv, TypeOK, TableInv

\* The memory does not change.
LEMMA QuietMemory ==
    ASSUME IInv, UNCHANGED memory PROVE MemoryInv'
BY DEF memory, IInv, MemoryInv, NoStrandedJob, PendingPeersSound, Untracked

\* A worker that panicked is joined: the job keeps its running mark.
LEMMA JoinErrorKeeps ==
    ASSUME IInv, NEW w \in workers, JoinError(w) PROVE IInv'
<1>1. /\ mode = "running" /\ workers' = workers \ {w} /\ lost' = lost \cup {w.hash}
      /\ UNCHANGED <<memory, mode, tables, bounds>>
  BY DEF JoinError, Selecting
<1>2. running = {x.hash : x \in workers} \cup lost /\ \A x \in workers : x.hash \notin lost
  BY <1>1 DEF IInv, WorkerInv, OneWorkerPerHash, WorkersAlive
<1>5. /\ \A x, y \in workers' : x.hash = y.hash => x = y
      /\ IsFiniteSet(workers') /\ Cardinality(workers') <= MaxConcurrent
      /\ {x.hash : x \in workers'} = {x.hash : x \in workers} \ {w.hash}
      /\ workers' \in SUBSET Worker
      /\ \A x \in workers' : x.hash # w.hash
  BY <1>1, WorkerLeaves
<1>6. running' = {x.hash : x \in workers'} \cup lost'
  BY <1>1, <1>2, <1>5 DEF memory
<1>7. WorkerInv'
  BY <1>1, <1>2, <1>5, <1>6 DEF WorkerInv, OneWorkerPerHash, WorkersAlive
<1>8. MemoryTypeOK'
  BY <1>1, <1>5, WorkerFacts DEF IInv, TypeOK, MemoryTypeOK, memory
<1>9. /\ TableInv' /\ RoundInv'
      /\ observed' \in 0 .. MaxDiscoveries /\ faults' \in 0 .. MaxFaults
  BY <1>1, QuietTables
<1> QED
  BY <1>1, <1>7, <1>8, <1>9, QuietMemory DEF IInv, TypeOK, TableInv

\* A worker is joined after the channel closed.
LEMMA DrainWorkerKeeps ==
    ASSUME IInv, NEW w \in workers, DrainWorker(w) PROVE IInv'
<1>1. /\ mode = "draining" /\ workers' = workers \ {w}
      /\ UNCHANGED <<memory, lost, mode, tables, bounds>>
  BY DEF DrainWorker
<1>2. /\ \A x, y \in workers' : x.hash = y.hash => x = y
      /\ IsFiniteSet(workers') /\ Cardinality(workers') <= MaxConcurrent
      /\ workers' \in SUBSET Worker
  BY <1>1, WorkerLeaves
<1>3. WorkerInv'
  BY <1>1, <1>2 DEF WorkerInv, OneWorkerPerHash, WorkersAlive
<1>4. MemoryTypeOK'
  BY <1>1, <1>2 DEF IInv, TypeOK, MemoryTypeOK, memory
<1>5. /\ TableInv' /\ RoundInv'
      /\ observed' \in 0 .. MaxDiscoveries /\ faults' \in 0 .. MaxFaults
  BY <1>1, QuietTables
<1> QED
  BY <1>1, <1>3, <1>4, <1>5, QuietMemory DEF IInv, TypeOK, TableInv

\* A round starts: the job's first peers move from its pending list to a new
\* worker, and the job is marked running.
LEMMA StartRoundKeeps ==
    ASSUME IInv, StartRound PROVE IInv'
<1>1. MemoryTypeOK /\ NoStrandedJob /\ PendingPeersSound /\ Untracked
  BY DEF IInv, TypeOK, MemoryInv
<1>2. /\ mode = "running" /\ ready # <<>> /\ Cardinality(workers) < MaxConcurrent
      /\ UNCHANGED <<jobs, lost, mode, tables, bounds>>
  <2>1. IsFiniteSet(workers)
    BY DEF IInv, WorkerInv, WorkersAlive
  <2>2. Cardinality(workers) \in Nat
    BY <2>1, FS_CardinalityType
  <2> QED
    BY <2>2, ConstantsAssumption DEF StartRound, Filled
<1>3. PICK h \in Hashes : /\ h = Head(ready) /\ Tail(ready) \in Seq(Hashes)
                          /\ Distinct(Tail(ready))
                          /\ Elems(Tail(ready)) = ready_set \ {h} /\ h \in ready_set
  <2>1. ready \in Seq(Hashes) /\ Distinct(ready) /\ Elems(ready) = ready_set
    BY <1>1 DEF NoStrandedJob, MemoryTypeOK
  <2>2. /\ Head(ready) \in Hashes /\ Head(ready) = ready[1]
        /\ Tail(ready) \in Seq(Hashes) /\ Distinct(Tail(ready))
        /\ Elems(Tail(ready)) = Elems(ready) \ {Head(ready)}
    BY <1>2, <2>1, TailFacts
  <2>3. 1 \in 1 .. Len(ready)
    BY <1>2, <2>1
  <2>4. Head(ready) \in ready_set
    BY <2>1, <2>2, <2>3, SeqFacts
  <2> QED
    BY <2>1, <2>2, <2>4
<1>4. h \in jobs /\ h \notin running /\ peers[h] # <<>>
  BY <1>1, <1>3 DEF NoStrandedJob
<1>5. PICK s \in Seq(Peers) : /\ s = peers[h] /\ Distinct(s) /\ Elems(s) = peer_set[h]
                              /\ Len(s) <= MaxPeers /\ s # <<>>
  BY <1>1, <1>4 DEF PendingPeersSound, MemoryTypeOK
<1>6. PICK n \in 0 .. Len(s) : n = Smaller(RoundLimit, Len(s)) /\ n # 0
  <2>1. Len(s) \in Nat /\ Len(s) # 0 /\ RoundLimit \in Nat /\ RoundLimit # 0
    BY <1>5, ConstantsAssumption
  <2> QED
    BY <2>1 DEF Smaller
<1>7. PICK a \in Seq(Peers), b \in Seq(Peers) :
        /\ a = SubSeq(s, 1, n) /\ b = SubSeq(s, n + 1, Len(s))
        /\ Len(a) = n /\ Len(b) = Len(s) - n /\ Distinct(a) /\ Distinct(b)
        /\ Elems(b) = Elems(s) \ Elems(a)
  <2> DEFINE c == SubSeq(s, 1, n)
             d == SubSeq(s, n + 1, Len(s))
  <2>1. /\ c \in Seq(Peers) /\ d \in Seq(Peers)
        /\ Len(c) = n /\ Len(d) = Len(s) - n /\ Distinct(c) /\ Distinct(d)
        /\ Elems(d) = Elems(s) \ Elems(c)
    BY <1>5, <1>6, SplitFacts
  <2> QED
    BY <2>1
<1>8. a # <<>>
  BY <1>6, <1>7
<1>9. PICK x \in Worker : /\ x = [hash |-> h, phase |-> "check", todo |-> a, retryable |-> FALSE]
                          /\ x.hash = h /\ x.phase = "check" /\ x.todo = a
  <2> DEFINE y == [hash |-> h, phase |-> "check", todo |-> a, retryable |-> FALSE]
  <2>1. y \in Worker /\ y.hash = h /\ y.phase = "check" /\ y.todo = a
    BY <1>7 DEF Worker, Steps
  <2> QED
    BY <2>1
<1>10. /\ ready' = Tail(ready) /\ ready_set' = ready_set \ {h}
       /\ peers' = [peers EXCEPT ![h] = b]
       /\ peer_set' = [peer_set EXCEPT ![h] = @ \ Elems(a)]
       /\ running' = running \cup {h}
       /\ workers' = workers \cup {x}
  BY <1>3, <1>4, <1>5, <1>6, <1>7, <1>8, <1>9 DEF StartRound
<1>11. /\ peers' \in [Hashes -> Seq(Peers)] /\ peer_set' \in [Hashes -> SUBSET Peers]
       /\ peers'[h] = b /\ peer_set'[h] = peer_set[h] \ Elems(a)
       /\ \A g \in Hashes \ {h} : peers'[g] = peers[g] /\ peer_set'[g] = peer_set[g]
  BY <1>1, <1>10 DEF MemoryTypeOK
<1>12. NoStrandedJob'
  BY <1>1, <1>2, <1>3, <1>4, <1>10, <1>11 DEF NoStrandedJob, MemoryTypeOK
<1>13. PendingPeersSound'
  <2>1. ASSUME NEW g \in Hashes
        PROVE  /\ Distinct(peers'[g]) /\ Elems(peers'[g]) = peer_set'[g]
               /\ Len(peers'[g]) <= MaxPeers
    <3>1. CASE g = h
      <4>1. Distinct(peers'[g]) /\ Elems(peers'[g]) = peer_set'[g]
        BY <1>5, <1>7, <1>11, <3>1
      <4>2. Len(b) <= MaxPeers
        BY <1>5, <1>6, <1>7, ConstantsAssumption
      <4> QED
        BY <1>11, <3>1, <4>1, <4>2
    <3>2. CASE g # h
      BY <1>1, <1>11, <3>2 DEF PendingPeersSound
    <3> QED
      BY <3>1, <3>2
  <2> QED
    BY <1>1, <1>2, <2>1 DEF PendingPeersSound
<1>14. Untracked'
  BY <1>1, <1>2, <1>4, <1>11 DEF Untracked
<1>15. MemoryTypeOK'
  BY <1>1, <1>2, <1>3, <1>10, <1>11 DEF MemoryTypeOK
<1>16. /\ running = {w.hash : w \in workers} \cup lost
       /\ \A w \in workers : w.hash \notin lost
       /\ \A v, w \in workers : v.hash = w.hash => v = w
       /\ IsFiniteSet(workers)
  BY <1>2 DEF IInv, WorkerInv, OneWorkerPerHash, WorkersAlive
<1>17. \A w \in workers : w.hash # h
  BY <1>4, <1>16
<1>18. OneWorkerPerHash'
  <2>1. \A v, w \in workers' : v.hash = w.hash => v = w
    BY <1>9, <1>10, <1>16, <1>17
  <2>2. Cardinality(workers') <= MaxConcurrent
    <3>1. x \notin workers
      BY <1>9, <1>17
    <3>2. Cardinality(workers') = Cardinality(workers) + 1 /\ Cardinality(workers) \in Nat
      BY <1>10, <1>16, <3>1, FS_AddElement, FS_CardinalityType
    <3> QED
      BY <1>2, <3>2, ConstantsAssumption
  <2>3. {w.hash : w \in workers'} = {w.hash : w \in workers} \cup {h}
    BY <1>9, <1>10
  <2>4. running' = {w.hash : w \in workers'} \cup lost'
    BY <1>2, <1>10, <1>16, <2>3
  <2> QED
    BY <2>1, <2>2, <2>4 DEF OneWorkerPerHash
<1>19. WorkersAlive'
  <2>1. IsFiniteSet(workers')
    BY <1>10, <1>16, FS_AddElement
  <2>2. h \notin lost
    BY <1>4, <1>16
  <2> QED
    BY <1>2, <1>9, <1>10, <1>16, <2>1, <2>2 DEF WorkersAlive
<1>20. TableInv' /\ UNCHANGED <<status, attempt>>
  BY <1>2, TablesSame DEF IInv
<1>21. RoundInv'
  <2>1. RoundOK(x)'
    BY <1>7, <1>9 DEF RoundOK
  <2>2. ASSUME NEW w \in workers PROVE RoundOK(w)'
    BY <1>20 DEF IInv, RoundInv, RoundOK
  <2> QED
    BY <1>10, <2>1, <2>2 DEF RoundInv
<1>22. observed' \in 0 .. MaxDiscoveries /\ faults' \in 0 .. MaxFaults
  BY <1>2 DEF IInv, TypeOK, bounds
<1> QED
  BY <1>12, <1>13, <1>14, <1>15, <1>18, <1>19, <1>20, <1>21, <1>22
  DEF IInv, TypeOK, MemoryInv, WorkerInv, TableInv

------------------------------------------------------------------------------
(***************************************************************************)
(* The rest of the system.                                                 *)
(***************************************************************************)
\* Steps that leave the scheduler and its workers alone.
LEMMA TableStepKeeps ==
    ASSUME IInv, UNCHANGED <<memory, workers, lost, mode>>, TableInv', NoNewRejection,
           \A g \in Hashes, q \in Peers : attempt[g][q] = "none" => attempt'[g][q] = "none",
           observed' \in 0 .. MaxDiscoveries, faults' \in 0 .. MaxFaults
    PROVE  IInv'
<1>1. MemoryInv'
  BY QuietMemory
<1>2. MemoryTypeOK'
  BY DEF IInv, TypeOK, MemoryTypeOK, memory
<1>3. WorkerInv'
  BY WorkersSame DEF memory, IInv, WorkerInv, WorkersAlive
<1>4. RoundInv'
  BY RoundsKept
<1> QED
  BY <1>1, <1>2, <1>3, <1>4 DEF IInv, TypeOK, TableInv

\* The statistics worker persists an observation.
LEMMA ObservePeerlessKeeps ==
    ASSUME IInv, NEW h \in Hashes, ObservePeerless(h) PROVE IInv'
<1>1. /\ observed < MaxDiscoveries /\ observed' = observed + 1 /\ discover_peerless(h)
      /\ UNCHANGED <<memory, workers, lost, mode, job_peers, attempt, faults>>
  BY DEF ObservePeerless
<1>2. TableInv' /\ NoNewRejection
  BY <1>1, DiscoverPeerlessKeeps DEF IInv
<1>3. observed' \in 0 .. MaxDiscoveries /\ faults' \in 0 .. MaxFaults
  BY <1>1, ConstantsAssumption DEF IInv, TypeOK
<1> QED
  BY <1>1, <1>2, <1>3, TableStepKeeps

\* A scheduled row becomes due.
LEMMA RowBecomesDueKeeps ==
    ASSUME IInv, NEW h \in Hashes, RowBecomesDue(h) PROVE IInv'
<1>1. /\ h \notin Elems(zeroQ \o pastQ) /\ pastQ' = Append(pastQ, h)
      /\ UNCHANGED <<memory, workers, lost, mode, torrent, status, job_peers, attempt,
                     zeroQ, bounds>>
  BY DEF RowBecomesDue
<1>2. /\ zeroQ \in Seq(Hashes) /\ pastQ \in Seq(Hashes) /\ Distinct(zeroQ)
      /\ Distinct(pastQ) /\ Elems(zeroQ) \cap Elems(pastQ) = {}
  BY DEF IInv, TableInv, TableTypeOK, ScheduleInv
<1>3. Elems(zeroQ \o pastQ) = Elems(zeroQ) \cup Elems(pastQ)
  BY <1>2, ConcatFacts
<1>4. /\ pastQ' \in Seq(Hashes) /\ Distinct(pastQ') /\ Elems(pastQ') = Elems(pastQ) \cup {h}
  BY <1>1, <1>2, <1>3, AppendFacts
<1>5. ScheduleInv'
  BY <1>1, <1>2, <1>3, <1>4 DEF ScheduleInv
<1>6. TableInv' /\ NoNewRejection
  BY <1>1, <1>4, <1>5
  DEF IInv, TableInv, TableTypeOK, CompleteHasTerminalJob, NoNewRejection
<1>7. observed' \in 0 .. MaxDiscoveries /\ faults' \in 0 .. MaxFaults
  BY <1>1 DEF IInv, TypeOK, bounds
<1> QED
  BY <1>1, <1>6, <1>7, TableStepKeeps

\* The prune command deletes a torrent with all that hangs on it.
LEMMA PruneTorrentKeeps ==
    ASSUME IInv, NEW h \in Hashes, PruneTorrent(h) PROVE IInv'
<1>1. /\ faults < MaxFaults /\ faults' = faults + 1
      /\ torrent' = [torrent EXCEPT ![h] = "absent"]
      /\ status' = [status EXCEPT ![h] = "none"]
      /\ job_peers' = [job_peers EXCEPT ![h] = {}]
      /\ attempt' = [attempt EXCEPT ![h] = [p \in Peers |-> "none"]]
      /\ Unqueue(h)
      /\ UNCHANGED <<memory, workers, lost, mode, observed>>
  BY DEF PruneTorrent
<1>2. TableInv
  BY DEF IInv
<1>3. zeroQ' \in Seq(Hashes) /\ pastQ' \in Seq(Hashes) /\ ScheduleInv'
  BY <1>1, <1>2, UnqueueKeeps
<1>4. TableTypeOK'
  BY <1>1, <1>2, <1>3 DEF TableInv, TableTypeOK, Statuses
<1>5. CompleteHasTerminalJob' /\ NoNewRejection
  BY <1>1, <1>2 DEF TableInv, TableTypeOK, CompleteHasTerminalJob, NoNewRejection
<1>6. \A g \in Hashes, q \in Peers : attempt[g][q] = "none" => attempt'[g][q] = "none"
  BY <1>1, <1>2 DEF TableInv, TableTypeOK
<1>7. observed' \in 0 .. MaxDiscoveries /\ faults' \in 0 .. MaxFaults
  BY <1>1, ConstantsAssumption DEF IInv, TypeOK
<1> QED
  BY <1>1, <1>3, <1>4, <1>5, <1>6, <1>7, TableStepKeeps DEF TableInv

\* A peer's cooldown ends.
LEMMA PeerCoolsDownKeeps ==
    ASSUME IInv, NEW h \in Hashes, NEW p \in Peers, PeerCoolsDown(h, p) PROVE IInv'
<1>1. /\ attempt' = [attempt EXCEPT ![h][p] = "none"]
      /\ UNCHANGED <<memory, workers, lost, mode, torrent, status, job_peers, zeroQ, pastQ,
                     bounds>>
  BY DEF PeerCoolsDown
<1>2. TableInv' /\ NoNewRejection
  BY <1>1 DEF IInv, TableInv, TableTypeOK, ScheduleInv, CompleteHasTerminalJob, NoNewRejection
<1>3. \A g \in Hashes, q \in Peers : attempt[g][q] = "none" => attempt'[g][q] = "none"
  BY <1>1 DEF IInv, TableInv, TableTypeOK
<1>4. observed' \in 0 .. MaxDiscoveries /\ faults' \in 0 .. MaxFaults
  BY <1>1 DEF IInv, TypeOK, bounds
<1> QED
  BY <1>1, <1>2, <1>3, <1>4, TableStepKeeps

\* The process is gone: what is left is the database.
LEMMA StoppedKeeps ==
    ASSUME IInv, Stopped, UNCHANGED tables,
           observed' \in 0 .. MaxDiscoveries, faults' \in 0 .. MaxFaults
    PROVE  IInv'
<1>1. /\ mode' = "down" /\ jobs' = {} /\ peers' = [h \in Hashes |-> <<>>]
      /\ peer_set' = [h \in Hashes |-> {}] /\ running' = {} /\ ready' = <<>>
      /\ ready_set' = {} /\ workers' = {} /\ lost' = {}
  BY DEF Stopped
<1>2. MemoryTypeOK'
  BY <1>1, EmptyFacts DEF MemoryTypeOK
<1>3. IsFiniteSet({}) /\ Cardinality({}) = 0
  BY FS_EmptySet
<1>4. MemoryInv'
  <2>1. NoStrandedJob'
    BY <1>1, EmptyFacts DEF NoStrandedJob
  <2>2. PendingPeersSound'
    <3>1. \A h \in Hashes : peers'[h] = <<>> /\ peer_set'[h] = {}
      BY <1>1
    <3>2. 0 <= MaxPeers /\ 0 <= MaxActive
      BY ConstantsAssumption
    <3>3. Cardinality(jobs') <= MaxActive
      BY <1>1, <1>3, <3>2
    <3> QED
      BY <3>1, <3>2, <3>3, EmptyFacts DEF PendingPeersSound
  <2>3. Untracked'
    BY <1>1 DEF Untracked
  <2> QED
    BY <2>1, <2>2, <2>3 DEF MemoryInv
<1>5. WorkerInv'
  <2>1. 0 <= MaxConcurrent
    BY ConstantsAssumption
  <2>2. IsFiniteSet(workers') /\ Cardinality(workers') <= MaxConcurrent
    BY <1>1, <1>3, <2>1
  <2> QED
    BY <1>1, <2>2 DEF WorkerInv, OneWorkerPerHash, WorkersAlive
<1>6. RoundInv'
  BY <1>1 DEF RoundInv
<1>7. TableInv'
  BY TablesSame DEF IInv
<1> QED
  BY <1>2, <1>4, <1>5, <1>6, <1>7 DEF IInv, TypeOK, TableInv

\* A crash.
LEMMA CrashKeeps ==
    ASSUME IInv, Crash PROVE IInv'
<1>1. observed' \in 0 .. MaxDiscoveries /\ faults' \in 0 .. MaxFaults
  BY ConstantsAssumption DEF Crash, IInv, TypeOK
<1> QED
  BY <1>1, StoppedKeeps DEF Crash

\* The end of a drained or timed-out shutdown.
LEMMA ExitKeeps ==
    ASSUME IInv, Exit PROVE IInv'
<1>1. observed' \in 0 .. MaxDiscoveries /\ faults' \in 0 .. MaxFaults
  BY DEF Exit, IInv, TypeOK, bounds
<1> QED
  BY <1>1, StoppedKeeps DEF Exit

\* The discovery channel closes.
LEMMA CloseChannelKeeps ==
    ASSUME IInv, CloseChannel PROVE IInv'
<1>1. /\ faults < MaxFaults /\ faults' = faults + 1 /\ mode' = "draining"
      /\ UNCHANGED <<memory, workers, lost, tables, observed>>
  BY DEF CloseChannel
<1>2. MemoryInv'
  BY <1>1, QuietMemory
<1>3. MemoryTypeOK'
  BY <1>1 DEF IInv, TypeOK, MemoryTypeOK, memory
<1>4. WorkerInv'
  BY <1>1 DEF IInv, WorkerInv, OneWorkerPerHash, WorkersAlive, memory
<1>5. TableInv' /\ UNCHANGED <<status, attempt>>
  BY <1>1, TablesSame DEF IInv
<1>6. NoNewRejection
  BY <1>5 DEF NoNewRejection
<1>7. RoundInv'
  BY <1>1, <1>5, <1>6, RoundsKept
<1>8. observed' \in 0 .. MaxDiscoveries /\ faults' \in 0 .. MaxFaults
  BY <1>1, ConstantsAssumption DEF IInv, TypeOK
<1> QED
  BY <1>2, <1>3, <1>4, <1>5, <1>7, <1>8 DEF IInv, TypeOK, TableInv

\* A restart, with the stale attempts pruned.
LEMMA RestartKeeps ==
    ASSUME IInv, Restart PROVE IInv'
<1>1. /\ mode = "down" /\ mode' = "running"
      /\ UNCHANGED <<memory, workers, lost, torrent, status, job_peers, zeroQ, pastQ, bounds>>
  BY DEF Restart
<1>2. PICK kept \in SUBSET (Hashes \X Peers) :
        attempt' = [h \in Hashes |-> [p \in Peers |->
                      IF <<h, p>> \in kept THEN attempt[h][p] ELSE "none"]]
  BY DEF Restart
<1>3. jobs = {} /\ running = {} /\ workers = {} /\ lost = {}
  BY <1>1 DEF IInv, WorkerInv, WorkersAlive
<1>4. TableInv'
  BY <1>1, <1>2 DEF IInv, TableInv, TableTypeOK, ScheduleInv, CompleteHasTerminalJob
<1>5. MemoryInv'
  BY <1>1, QuietMemory
<1>6. MemoryTypeOK'
  BY <1>1 DEF IInv, TypeOK, MemoryTypeOK, memory
<1>7. WorkerInv'
  <2>1. UNCHANGED <<jobs, running, workers, lost>>
    BY <1>1 DEF memory
  <2> QED
    BY <1>1, <1>3, <2>1 DEF IInv, WorkerInv, OneWorkerPerHash, WorkersAlive
<1>8. RoundInv'
  BY <1>1, <1>3 DEF RoundInv
<1>9. observed' \in 0 .. MaxDiscoveries /\ faults' \in 0 .. MaxFaults
  BY <1>1 DEF IInv, TypeOK, bounds
<1> QED
  BY <1>4, <1>5, <1>6, <1>7, <1>8, <1>9 DEF IInv, TypeOK, TableInv

------------------------------------------------------------------------------
(***************************************************************************)
(* The invariant and the theorems.                                         *)
(***************************************************************************)
\* The first process starts with an empty database.
LEMMA InitIInv == Init => IInv
<1> SUFFICES ASSUME Init PROVE IInv
  OBVIOUS
<1>1. IsFiniteSet({}) /\ Cardinality({}) = 0
  BY FS_EmptySet
<1>2. 0 <= MaxPeers /\ 0 <= MaxActive /\ 0 <= MaxConcurrent
  BY ConstantsAssumption
<1>3. TypeOK
  BY ConstantsAssumption, EmptyFacts DEF Init, TypeOK, MemoryTypeOK, TableTypeOK, Statuses
<1>4. NoStrandedJob /\ Untracked
  BY EmptyFacts DEF Init, NoStrandedJob, Untracked
<1>5. PendingPeersSound
  <2>1. \A h \in Hashes : peers[h] = <<>> /\ peer_set[h] = {}
    BY DEF Init
  <2>2. Cardinality(jobs) <= MaxActive
    BY <1>1, <1>2 DEF Init
  <2> QED
    BY <1>2, <2>1, <2>2, EmptyFacts DEF PendingPeersSound
<1>6. WorkerInv
  <2>1. IsFiniteSet(workers) /\ Cardinality(workers) <= MaxConcurrent
    BY <1>1, <1>2 DEF Init
  <2> QED
    BY <2>1 DEF Init, WorkerInv, OneWorkerPerHash, WorkersAlive
<1>7. TableInv
  BY <1>3, EmptyFacts DEF Init, TableInv, TypeOK, ScheduleInv, CompleteHasTerminalJob
<1>8. RoundInv
  BY DEF Init, RoundInv
<1> QED
  BY <1>3, <1>4, <1>5, <1>6, <1>7, <1>8 DEF IInv, MemoryInv

\* Nothing changes.
LEMMA StutterKeeps ==
    ASSUME IInv, UNCHANGED vars PROVE IInv'
<1>1. /\ UNCHANGED <<memory, workers, lost, mode>> /\ UNCHANGED <<tables, bounds>>
      /\ workers' \subseteq workers
  BY DEF vars
<1>2. /\ TableInv' /\ UNCHANGED <<status, attempt>>
      /\ observed' \in 0 .. MaxDiscoveries /\ faults' \in 0 .. MaxFaults
  BY <1>1, QuietTables DEF tables
<1>3. NoNewRejection
  BY <1>2 DEF NoNewRejection
<1> QED
  BY <1>1, <1>2, <1>3, TableStepKeeps

\* Every step of the system keeps the invariant.
LEMMA NextKeeps == IInv /\ [Next]_vars => IInv'
<1> SUFFICES ASSUME IInv, [Next]_vars PROVE IInv'
  OBVIOUS
<1>1. CASE StartRound
  BY <1>1, StartRoundKeeps
<1>2. ASSUME NEW h \in Hashes, NEW ps \in SUBSET Peers, ReceiveDiscovery(h, ps) PROVE IInv'
  BY <1>2, ReceiveDiscoveryKeeps
<1>3. CASE LoadDueJobs
  BY <1>3, LoadDueJobsKeeps
<1>4. ASSUME NEW w \in workers,
             JoinNext(w) \/ JoinError(w) \/ WorkerStep(w) \/ DrainWorker(w)
      PROVE  IInv'
  BY <1>4, JoinNextKeeps, JoinErrorKeeps, WorkerStepKeeps, DrainWorkerKeeps
<1>5. ASSUME NEW h \in Hashes, ObservePeerless(h) \/ RowBecomesDue(h) \/ PruneTorrent(h)
      PROVE  IInv'
  BY <1>5, ObservePeerlessKeeps, RowBecomesDueKeeps, PruneTorrentKeeps
<1>6. ASSUME NEW h \in Hashes, NEW p \in Peers, PeerCoolsDown(h, p) PROVE IInv'
  BY <1>6, PeerCoolsDownKeeps
<1>7. CASE Crash \/ CloseChannel \/ Exit \/ Restart
  BY <1>7, CrashKeeps, CloseChannelKeeps, ExitKeeps, RestartKeeps
<1>8. CASE UNCHANGED vars
  BY <1>8, StutterKeeps
<1> QED
  BY <1>1, <1>2, <1>3, <1>4, <1>5, <1>6, <1>7, <1>8 DEF Next

\* The invariant holds in every reachable state, for all sets of hashes and
\* peers and all limits.
THEOREM Invariance == Spec => []IInv
BY InitIInv, NextKeeps, PTL DEF Spec

\* Every variable keeps its type: in particular the only statuses ever written
\* are the ones due_hash_jobs and hash_job_is_terminal test for.
THEOREM TypeCorrect == Spec => []TypeOK
<1>1. IInv => TypeOK
  BY DEF IInv
<1> QED
  BY <1>1, Invariance, PTL

\* The scheduler never strands a job: ready, ready_set, jobs and running stay in
\* step through admissions, loads, rounds, panics and outcomes.
THEOREM JobsNotStranded == Spec => []NoStrandedJob
<1>1. IInv => NoStrandedJob
  BY DEF IInv, MemoryInv
<1> QED
  BY <1>1, Invariance, PTL

\* One round per hash, at most max_concurrent of them, and running marks them.
THEOREM WorkersExclusive == Spec => []OneWorkerPerHash
<1>1. IInv => OneWorkerPerHash
  BY DEF IInv, WorkerInv
<1> QED
  BY <1>1, Invariance, PTL

\* The pending lists hold no address twice and respect the limits.
THEOREM PendingBounded == Spec => []PendingPeersSound
<1>1. IInv => PendingPeersSound
  BY DEF IInv, MemoryInv
<1> QED
  BY <1>1, Invariance, PTL

\* A completed torrent has a completed job row.
THEOREM CompletionDurable == Spec => []CompleteHasTerminalJob
<1>1. IInv => CompleteHasTerminalJob
  BY DEF IInv, TableInv
<1> QED
  BY <1>1, Invariance, PTL

------------------------------------------------------------------------------
(***************************************************************************)
(* What a step may never do.                                               *)
(***************************************************************************)
\* What a step may do to a terminal row.
TerminalKept == \A h \in Hashes : status[h] \in Terminal =>
    status'[h] \in {status[h], "none"}

\* The statements of store.rs reopen no terminal row; a worker's state write
\* relies on what the round knows of the row.
LEMMA StatementsKeepTerminal ==
    ASSUME TableInv, NEW h \in Hashes
    PROVE  /\ discover_peers(h) => TerminalKept
           /\ discover_peerless(h) => TerminalKept
           /\ UNCHANGED status => TerminalKept
           /\ \A s : status[h] \notin {"invalid", "unsupported"} /\ update_hash_job_failure(h, s)
                        => TerminalKept
           /\ status[h] \notin {"invalid", "unsupported"} /\ commit_metadata(h) => TerminalKept
<1>1. status \in [Hashes -> Statuses] /\ CompleteHasTerminalJob
  BY DEF TableInv, TableTypeOK
<1>2. ASSUME discover_peers(h) PROVE TerminalKept
  BY <1>1, <1>2 DEF discover_peers, CompleteHasTerminalJob, TerminalKept
<1>3. ASSUME discover_peerless(h) PROVE TerminalKept
  BY <1>1, <1>3 DEF discover_peerless, TerminalKept, Terminal, Live
<1>4. ASSUME NEW s, status[h] \notin {"invalid", "unsupported"}, update_hash_job_failure(h, s)
      PROVE  TerminalKept
  BY <1>1, <1>4 DEF update_hash_job_failure, tables, TerminalKept, Terminal
<1>5. ASSUME status[h] \notin {"invalid", "unsupported"}, commit_metadata(h)
      PROVE  TerminalKept
  BY <1>1, <1>5 DEF commit_metadata, TerminalKept, Terminal
<1> QED
  BY <1>2, <1>3, <1>4, <1>5 DEF TerminalKept

\* A worker's step reopens no terminal row.
LEMMA WorkerKeepsTerminal ==
    ASSUME IInv, NEW w \in workers, WorkerStep(w) PROVE TerminalKept
<1>1. w.hash \in Hashes /\ RoundOK(w) /\ TableInv
  BY WorkerFacts
<1>2. w.phase \in {"attempt", "fetch"} => status[w.hash] \notin {"invalid", "unsupported"}
  BY <1>1 DEF RoundOK
<1>3. \/ UNCHANGED status
      \/ w.phase \in {"attempt", "fetch"} /\ commit_metadata(w.hash)
      \/ w.phase \in {"attempt", "fetch"} /\ \E s : update_hash_job_failure(w.hash, s)
  BY DEF WorkerStep, CheckTerminal, FilterPeers, StartAttempt, FetchFails, FetchMismatch,
     FetchOk, FetchOversized, FetchUnparsable, FinishRound, set_peer_attempt, tables
<1> QED
  BY <1>1, <1>2, <1>3, StatementsKeepTerminal

\* No step reopens a terminal row.
LEMMA NextKeepsTerminal == IInv /\ [Next]_vars => TerminalKept
<1> SUFFICES ASSUME IInv, [Next]_vars PROVE TerminalKept
  OBVIOUS
<1>0. TableInv /\ status \in [Hashes -> Statuses]
  BY DEF IInv, TableInv, TableTypeOK
<1>1. CASE UNCHANGED status
  BY <1>1 DEF TerminalKept
<1>2. ASSUME NEW h \in Hashes, NEW ps \in SUBSET Peers, ReceiveDiscovery(h, ps)
      PROVE  TerminalKept
  <2>1. discover_peers(h) \/ discover_peerless(h)
    BY <1>2 DEF ReceiveDiscovery, persist_hash_discovery
  <2> QED
    BY <1>0, <2>1, StatementsKeepTerminal
<1>3. ASSUME NEW h \in Hashes, ObservePeerless(h) PROVE TerminalKept
  BY <1>0, <1>3, StatementsKeepTerminal DEF ObservePeerless
<1>4. ASSUME NEW w \in workers, WorkerStep(w) PROVE TerminalKept
  BY <1>4, WorkerKeepsTerminal
<1>5. ASSUME NEW h \in Hashes, PruneTorrent(h) PROVE TerminalKept
  BY <1>0, <1>5 DEF PruneTorrent, TerminalKept
<1>6. StartRound \/ LoadDueJobs \/ Crash \/ CloseChannel \/ Exit \/ Restart \/ UNCHANGED vars
        => UNCHANGED status
  BY DEF StartRound, LoadDueJobs, Crash, CloseChannel, Exit, Restart, vars, tables
<1>7. ASSUME NEW w \in workers, JoinNext(w) \/ JoinError(w) \/ DrainWorker(w)
      PROVE  UNCHANGED status
  BY <1>7 DEF JoinNext, JoinError, DrainWorker, tables
<1>8. ASSUME NEW h \in Hashes, RowBecomesDue(h) \/ \E p \in Peers : PeerCoolsDown(h, p)
      PROVE  UNCHANGED status
  BY <1>8 DEF RowBecomesDue, PeerCoolsDown
<1> QED
  BY <1>1, <1>2, <1>3, <1>4, <1>5, <1>6, <1>7, <1>8 DEF Next

\* A terminal job row stays terminal until the prune command deletes it.
THEOREM TerminalStays == Spec => TerminalNeverReopened
<1>1. IInv /\ [Next]_vars =>
        [\A h \in Hashes : status[h] \in Terminal => status'[h] \in {status[h], "none"}]_vars
  BY NextKeepsTerminal DEF TerminalKept
<1> QED
  BY <1>1, Invariance, PTL DEF Spec, TerminalNeverReopened

\* Only StartAttempt starts a download, from the head of the list that passed
\* the filter.
LEMMA FetchStarts ==
    ASSUME IInv, [Next]_vars, NEW v \in workers', v \notin workers, v.phase = "fetch"
    PROVE  \E w \in workers : /\ w.phase = "attempt" /\ w.todo # <<>>
                              /\ v.hash = w.hash /\ v.todo = w.todo
<1>1. PICK w \in workers : WorkerStep(w)
  <2>1. CASE StartRound
    <3>1. \E h, round : v = [hash |-> h, phase |-> "check", todo |-> round, retryable |-> FALSE]
      BY <2>1 DEF StartRound
    <3> QED
      BY <3>1
  <2>2. ASSUME \/ \E h \in Hashes, ps \in SUBSET Peers : ReceiveDiscovery(h, ps)
               \/ LoadDueJobs
               \/ \E w \in workers : JoinNext(w) \/ JoinError(w) \/ DrainWorker(w)
               \/ \E h \in Hashes : ObservePeerless(h) \/ RowBecomesDue(h) \/ PruneTorrent(h)
               \/ \E h \in Hashes, p \in Peers : PeerCoolsDown(h, p)
               \/ Crash \/ CloseChannel \/ Exit \/ Restart \/ UNCHANGED vars
        PROVE  workers' \subseteq workers
    BY <2>2 DEF ReceiveDiscovery, LoadDueJobs, JoinNext, JoinError, DrainWorker,
       ObservePeerless, RowBecomesDue, PruneTorrent, PeerCoolsDown, Crash, CloseChannel,
       Exit, Stopped, Restart, vars
  <2>3. ~(workers' \subseteq workers)
    OBVIOUS
  <2>4. SUFFICES ASSUME ~\E w \in workers : WorkerStep(w) PROVE FALSE
    OBVIOUS
  <2>5. (\E w \in workers : JoinNext(w) \/ JoinError(w) \/ WorkerStep(w) \/ DrainWorker(w))
          => \E w \in workers : JoinNext(w) \/ JoinError(w) \/ DrainWorker(w)
    BY <2>4
  <2>6. ~StartRound
    BY <2>1, <2>4
  <2> QED
    BY <2>2, <2>3, <2>5, <2>6 DEF Next
<1>2. w \in Worker /\ w.phase \in Steps \cup Outcomes
  BY WorkerFacts
<1>3. ASSUME NEW x, Becomes(w, x) PROVE v = x
  BY <1>3 DEF Becomes
<1>4. ASSUME NEW ph, Moves(w, ph), ph # "fetch" PROVE FALSE
  <2>1. v = [w EXCEPT !.phase = ph]
    BY <1>3, <1>4 DEF Moves
  <2>2. v.phase = ph
    BY <1>2, <2>1 DEF Worker
  <2> QED
    BY <1>4, <2>2
<1>5. ASSUME Becomes(w, NextPeer(w)) \/ Becomes(w, NextPeerRetryable(w)) PROVE FALSE
  <2>1. v = NextPeer(w) \/ v = NextPeerRetryable(w)
    BY <1>3, <1>5
  <2>2. NextPeer(w).phase = "attempt" /\ NextPeerRetryable(w).phase = "attempt"
    BY <1>2 DEF Worker, NextPeer, NextPeerRetryable
  <2> QED
    BY <2>1, <2>2
<1>6. CASE StartAttempt(w)
  <2>1. w.phase = "attempt" /\ w.todo # <<>>
    BY <1>6 DEF StartAttempt
  <2>2. \/ v = [w EXCEPT !.phase = "fetch"]
        \/ v = [w EXCEPT !.todo = Tail(@), !.retryable = TRUE]
    BY <1>3, <1>6 DEF StartAttempt, Moves
  <2>3. CASE v = [w EXCEPT !.phase = "fetch"]
    <3>1. v.hash = w.hash /\ v.todo = w.todo
      BY <1>2, <2>3 DEF Worker
    <3> QED
      BY <2>1, <3>1
  <2>4. CASE v = [w EXCEPT !.todo = Tail(@), !.retryable = TRUE]
    <3>1. v.phase = w.phase
      BY <1>2, <2>4 DEF Worker
    <3> QED
      BY <2>1, <3>1
  <2> QED
    BY <2>2, <2>3, <2>4
<1>7. CASE FilterPeers(w)
  <2>1. \E s, r : Becomes(w, [w EXCEPT !.phase = "attempt", !.todo = s, !.retryable = r])
    BY <1>7 DEF FilterPeers
  <2>2. PICK s, r : v = [w EXCEPT !.phase = "attempt", !.todo = s, !.retryable = r]
    BY <1>3, <2>1
  <2>3. v.phase = "attempt"
    BY <1>2, <2>2 DEF Worker
  <2> QED
    BY <2>3
<1>8. CASE \/ CheckTerminal(w) \/ FetchOversized(w) \/ FetchUnparsable(w) \/ FinishRound(w)
  <2>1. \E ph \in {"terminal", "filter", "retry", "parked"} : Moves(w, ph)
    BY <1>8 DEF CheckTerminal, FetchOversized, FetchUnparsable, FinishRound
  <2> QED
    BY <1>4, <2>1
<1>9. CASE FetchFails(w) \/ FetchMismatch(w) \/ FetchOk(w)
  <2>1. \/ Becomes(w, NextPeer(w)) \/ Becomes(w, NextPeerRetryable(w)) \/ Moves(w, "complete")
    BY <1>9 DEF FetchFails, FetchMismatch, FetchOk
  <2> QED
    BY <1>4, <1>5, <2>1
<1> QED
  BY <1>1, <1>6, <1>7, <1>8, <1>9 DEF WorkerStep

\* A download that starts: the peer is eligible and the row is not rejected.
LEMMA FetchAllowed ==
    ASSUME IInv, [Next]_vars, NEW h \in Hashes, NEW p \in Peers, Begins(h, p)
    PROVE  attempt[h][p] = "none" /\ status[h] \notin {"invalid", "unsupported"}
<1>1. PICK v \in workers' : /\ v.phase = "fetch" /\ v.hash = h /\ v \notin workers
                            /\ Head(v.todo) = p
  BY DEF Begins
<1>2. PICK w \in workers : /\ w.phase = "attempt" /\ w.todo # <<>>
                           /\ v.hash = w.hash /\ v.todo = w.todo
  BY <1>1, FetchStarts
<1>3. RoundOK(w) /\ w.todo \in Seq(Peers)
  BY WorkerFacts
<1>4. 1 \in 1 .. Len(w.todo) /\ Head(w.todo) = w.todo[1]
  BY <1>2, <1>3
<1> QED
  BY <1>1, <1>2, <1>3, <1>4 DEF RoundOK

\* No download starts from a peer in cooldown or one that was rejected.
THEOREM CooldownRespected == Spec => NoFetchDuringCooldown
<1>1. IInv /\ [Next]_vars =>
        [\A h \in Hashes, p \in Peers : Begins(h, p) => attempt[h][p] = "none"]_vars
  BY FetchAllowed
<1> QED
  BY <1>1, Invariance, PTL DEF Spec, NoFetchDuringCooldown

\* No download starts for metadata known to be invalid or unsupported.
THEOREM RejectedNotFetched == Spec => NoFetchOfRejectedMetadata
<1>1. IInv /\ [Next]_vars =>
        [\A h \in Hashes, p \in Peers :
            Begins(h, p) => status[h] \notin {"invalid", "unsupported"}]_vars
  BY FetchAllowed
<1> QED
  BY <1>1, Invariance, PTL DEF Spec, NoFetchOfRejectedMetadata

(***************************************************************************)
(* The loader.  Its LIMIT counts rows that are tracked already; there are  *)
(* fewer of those than max_active while a slot is free, since no row is    *)
(* listed twice and a tracked row takes one of the slots.                  *)
(***************************************************************************)
\* A query that returns as many rows as are due returns them all.
LEMMA AllRowsReturned ==
    ASSUME NEW D, IsFiniteSet(D), NEW n \in Nat, n = Cardinality(D), NEW f \in [1 .. n -> D],
           \A i, j \in 1 .. n : f[i] = f[j] => i = j
    PROVE  D \subseteq Elems(f)
<1>1. f \in Injection(1 .. n, D)
  BY DEF Injection, IsInjective
<1>2. Cardinality(1 .. n) = n
  BY FS_Interval
<1>3. f \in Surjection(1 .. n, D)
  BY <1>1, <1>2, FS_Injection
<1> QED
  BY <1>3 DEF Surjection, Elems

\* More rows than tracked hashes cannot all be tracked.
LEMMA OneRowUntracked ==
    ASSUME NEW J, IsFiniteSet(J), NEW n \in Nat, Cardinality(J) < n, NEW g, DOMAIN g = 1 .. n,
           \A i, j \in 1 .. n : g[i] = g[j] => i = j
    PROVE  \E k \in 1 .. n : g[k] \notin J
<1> SUFFICES ASSUME \A k \in 1 .. n : g[k] \in J PROVE FALSE
  OBVIOUS
<1> DEFINE h == [k \in 1 .. n |-> g[k]]
<1>1. h \in [1 .. n -> J] /\ \A i, j \in 1 .. n : h[i] = h[j] => i = j
  OBVIOUS
<1> HIDE DEF h
<1>2. IsFiniteSet(1 .. n) /\ Cardinality(1 .. n) = n
  BY FS_Interval
<1>3. Cardinality(J) < Cardinality(1 .. n)
  BY <1>2
<1>4. \E i, j \in 1 .. n : i # j /\ h[i] = h[j]
  BY <1>1, <1>2, <1>3, FS_PigeonHole
<1> QED
  BY <1>1, <1>4

LEMMA LoaderInv == IInv => LoaderNotStarved
<1> SUFFICES ASSUME IInv, Cardinality(jobs) < MaxActive,
                    NEW due \in DueRows, Row(due) \notin jobs, NEW rows \in due_rows
             PROVE  \E i \in Elems(rows) : Row(i) \notin jobs
  BY DEF LoaderNotStarved
<1> DEFINE all == zeroQ \o pastQ
           n == Smaller(MaxActive, Cardinality(DueRows))
<1>1. MaxActive \in Nat /\ rows \in due_hash_jobs(MaxActive)
  BY ConstantsAssumption DEF due_rows
<1>2. /\ all \in Seq(Hashes) /\ Distinct(all)
      /\ \A i : Row(i) = all[i]
      /\ DueRows \subseteq 1 .. Len(all) /\ IsFiniteSet(DueRows)
  BY <1>1, DueRowsFacts
<1>3. Cardinality(DueRows) \in Nat
  BY <1>2, FS_CardinalityType
<1>4. n \in Nat /\ (n = MaxActive \/ n = Cardinality(DueRows))
  BY <1>1, <1>3 DEF Smaller
<1>5. rows \in FirstOf(DueRows, n)
  BY <1>1 DEF due_hash_jobs
<1> HIDE DEF n, all
<1>6. DueRows \in SUBSET Nat
  <2>1. Len(all) \in Nat
    BY <1>2
  <2>2. 1 .. Len(all) \subseteq Nat
    BY <2>1
  <2> QED
    BY <1>2, <2>2
<1>7. rows \in [1 .. n -> DueRows] /\ \A i, j \in 1 .. n : rows[i] = rows[j] => i = j
  BY <1>4, <1>5, <1>6, FirstOfFacts
<1>8. CASE n = Cardinality(DueRows)
  <2>1. due \in Elems(rows)
    BY <1>2, <1>4, <1>7, <1>8, AllRowsReturned
  <2> QED
    BY <2>1
<1>9. CASE n = MaxActive
  <2> DEFINE g == [k \in 1 .. n |-> Row(rows[k])]
  <2>1. \A i, j \in 1 .. Len(all) : all[i] = all[j] => i = j
    BY <1>2, SeqFacts
  <2>2. \A k \in 1 .. n : rows[k] \in 1 .. Len(all) /\ Row(rows[k]) = all[rows[k]]
    BY <1>2, <1>7
  <2>3. ASSUME NEW i \in 1 .. n, NEW j \in 1 .. n, g[i] = g[j] PROVE i = j
    <3>1. all[rows[i]] = all[rows[j]]
      BY <2>2, <2>3
    <3>2. rows[i] = rows[j]
      BY <2>1, <2>2, <3>1
    <3> QED
      BY <1>7, <3>2
  <2>4. IsFiniteSet(jobs) /\ Cardinality(jobs) < n
    BY <1>9, JobsFinite
  <2>5. DOMAIN g = 1 .. n /\ \A k \in 1 .. n : g[k] = Row(rows[k])
    OBVIOUS
  <2> HIDE DEF g
  <2>6. PICK k \in 1 .. n : g[k] \notin jobs
    BY <1>4, <2>3, <2>4, <2>5, OneRowUntracked
  <2>7. rows[k] \in Elems(rows) /\ Row(rows[k]) \notin jobs
    BY <1>7, <2>5, <2>6 DEF Elems
  <2> QED
    BY <2>7
<1> QED
  BY <1>4, <1>8, <1>9

\* The loader is never starved by the rows of hashes that are in memory: whenever
\* a slot is free and an untracked job is due, every answer due_hash_jobs may give
\* to load_due_jobs contains an untracked one.
THEOREM LoaderAlwaysFed == Spec => []LoaderNotStarved
BY LoaderInv, Invariance, PTL
==============================================================================
