--------------------------- MODULE PeerFetchProofs ---------------------------
(***************************************************************************)
(* Proofs about PeerFetch, for every block size, size limit, window and    *)
(* timeout: the request window is accounted for whatever the peer sends,   *)
(* the time a peer can hold a worker is bounded, and what is returned is   *)
(* complete.                                                               *)
(***************************************************************************)
EXTENDS PeerFetch, FiniteSetTheorems, WellFoundedInduction, TLAPS

(***************************************************************************)
(* The inductive invariant.  Its first part is about the window alone.     *)
(***************************************************************************)
WindowTypes ==
    /\ metadata_size \in 0 .. MaxMetadataSize /\ max_outstanding \in 0 .. MaxReqq
    /\ DOMAIN pieces = Indices
    /\ \A i \in Indices : pieces[i] \in {Absent} \cup 1 .. Block
    /\ received \in 0 .. TotalPieces /\ next_to_request \in 0 .. TotalPieces
    /\ in_flight \in 0 .. MaxReqq /\ requested \subseteq Indices

\* `received`, kept by hand beside the pieces, is the number of pieces held, and
\* a piece that is held has the length its place asks for.
PiecesInv ==
    /\ received = Cardinality(Held)
    /\ \A i \in Held : pieces[i] = metadata_piece_len(metadata_size, i)

\* The parts of WindowSound that hold at every stage.
RequestsInv ==
    /\ in_flight = Cardinality(requested)
    /\ in_flight <= max_outstanding
    /\ requested \subseteq 0 .. next_to_request - 1
    /\ Indices \ Held \subseteq requested \cup (next_to_request .. TotalPieces - 1)

WindowInv == WindowTypes /\ PiecesInv /\ RequestsInv

\* Before the extended handshake there is no window; after it there is one,
\* for at least one piece and one request.  It is open while the first requests
\* are written, for one request after a piece, and never in the receive loop.
StageInv ==
    /\ stage \notin {"request", "receive", "refill", "done"} =>
         /\ metadata_size = 0 /\ received = 0 /\ next_to_request = 0
         /\ in_flight = 0 /\ requested = {}
    /\ stage \in {"request", "receive", "refill"} => metadata_size > 0 /\ max_outstanding > 0
    /\ stage = "receive" => requested # {} /\ ~WindowOpen(next_to_request, in_flight)
    /\ stage \in {"request", "refill"} => WindowOpen(next_to_request, in_flight)
    /\ stage = "refill" => in_flight = max_outstanding - 1

\* What the clock of the receive loop can show.
ClockInv ==
    /\ stage \in Stages /\ half \in {"header", "body"}
    /\ waited \in 0 .. budget /\ budget \in Nat /\ elapsed \in Nat
    /\ stage = "receive" => budget <= Deadline
    /\ stage = "receive" /\ half = "header" => elapsed + budget = Deadline + waited
    /\ stage = "receive" /\ half = "body" => elapsed <= Deadline + waited
    /\ stage = "refill" => budget = PeerTimeout /\ elapsed <= 2 * Deadline + waited

\* The number of bytes collected.
Bytes(ps) == FoldFunction(+, 0, ps)

\* Metadata that is returned is whole: every piece is there and was counted, and
\* the bytes are as many as the peer announced.
ReturnedWhole ==
    outcome = "ok" => Held = Indices /\ received = TotalPieces /\ Bytes(pieces) = metadata_size

OutcomeInv ==
    /\ outcome \in Outcomes \cup {Absent}
    /\ outcome # Absent <=> stage = "done"
    /\ ReturnedWhole

IInv == WindowInv /\ StageInv /\ ClockInv /\ OutcomeInv

------------------------------------------------------------------------------
(***************************************************************************)
(* Arithmetic of pieces.                                                   *)
(***************************************************************************)
\* Integer division as the code's div_ceil uses it.
LEMMA Division ==
    ASSUME NEW a \in Nat, NEW b \in Nat \ {0}
    PROVE  /\ a \div b \in Nat
           /\ b * (a \div b) <= a
           /\ a < b * (a \div b) + b
<1>1. a \div b \in Int /\ b * (a \div b) <= a /\ a < b * (a \div b) + b
  OBVIOUS
<1>2. a \div b \in Nat
  OBVIOUS
<1> QED
  BY <1>1, <1>2

\* A size has a piece for every started block, and each has a byte at least and
\* a block at most.
LEMMA PieceFacts ==
    ASSUME NEW s \in Nat
    PROVE  /\ metadata_piece_count(s) \in Nat
           /\ s = 0 => metadata_piece_count(s) = 0
           /\ s > 0 => metadata_piece_count(s) > 0
           /\ s > 0 => \A i \in 0 .. metadata_piece_count(s) - 1 :
                         metadata_piece_len(s, i) \in 1 .. Block
<1> DEFINE q == metadata_piece_count(s)
<1>1. Block \in Nat \ {0}
  BY FetchAssumption
<1>2. q \in Nat /\ Block * q <= s + Block - 1 /\ s + Block - 1 < Block * q + Block
  BY <1>1, Division DEF metadata_piece_count
<1> HIDE DEF q
<1>3. s = 0 => q = 0
  BY <1>1, <1>2
<1>4. s > 0 => q > 0
  BY <1>1, <1>2
<1>5. ASSUME s > 0, NEW i \in 0 .. q - 1
      PROVE  metadata_piece_len(s, i) \in 1 .. Block
  <2>1. CASE i + 1 = q
    <3>1. metadata_piece_len(s, i) = s - i * Block
      BY <2>1 DEF metadata_piece_len, q
    <3>2. i * Block = Block * q - Block
      BY <1>1, <1>2, <2>1
    <3>3. Block * q \in Int
      BY <1>1, <1>2
    <3> QED
      BY <1>1, <1>2, <3>1, <3>2, <3>3
  <2>2. CASE i + 1 # q
    BY <1>1, <2>2 DEF metadata_piece_len, q
  <2> QED
    BY <2>1, <2>2
<1> QED
  BY <1>2, <1>3, <1>4, <1>5 DEF q

\* A set of naturals that is not empty has a least member: induction, by way of
\* the least counterexample.
LEMMA LeastNatural ==
    ASSUME NEW T, T \subseteq Nat, T # {}
    PROVE  \E n \in T : \A m \in T : n <= m
<1>1. PICK x \in T : \A y \in T : ~(<<y, x>> \in OpToRel(<, Nat))
  BY NatLessThanWellFounded, WFMin
<1>2. ASSUME NEW y \in T PROVE x <= y
  <2>1. <<y, x>> \in Nat \X Nat /\ y \in Nat /\ x \in Nat
    OBVIOUS
  <2>2. ~(<<y, x>> \in {ss \in Nat \X Nat : ss[1] < ss[2]})
    BY <1>1 DEF OpToRel
  <2>3. ~(y < x)
    BY <2>1, <2>2
  <2> QED
    BY <2>1, <2>3
<1> QED
  BY <1>2

\* The fold of Functions, by the function it is defined with: the sum over a set
\* is one chosen member's value and the sum over the others.
Pick(s) == CHOOSE x \in s : TRUE
Summed(ps, g, s) == IF s = {} THEN 0 ELSE ps[Pick(s)] + g[s \ {Pick(s)}]
IsSum(ps, Sets, g) == g = [s \in Sets |-> Summed(ps, g, s)]
SumsOver(ps, D, g) == IsSum(ps, SUBSET D, g)

LEMMA FoldIs ==
    ASSUME NEW ps
    PROVE  FoldFunction(+, 0, ps) = (CHOOSE g : IsSum(ps, SUBSET DOMAIN ps, g))[DOMAIN ps]
BY DEF FoldFunction, FoldFunctionOnSet, MapThenFoldSet, IsSum, Summed, Pick

LEMMA PickIn == ASSUME NEW s, s # {} PROVE Pick(s) \in s
BY DEF Pick

\* The function exists, by induction on the size of the sets.
Small(D, n) == {s \in SUBSET D : Cardinality(s) <= n}

LEMMA SmallFacts ==
    ASSUME NEW D, IsFiniteSet(D), NEW n \in Nat, NEW s \in Small(D, n), s # {}
    PROVE  /\ n > 0 /\ s \ {Pick(s)} \in Small(D, n - 1)
           /\ s \ {Pick(s)} \in Small(D, n)
<1>1. IsFiniteSet(s) /\ Cardinality(s) <= n /\ Cardinality(s) \in Nat
  BY FS_Subset, FS_CardinalityType DEF Small
<1>2. Pick(s) \in s
  BY PickIn
<1>3. Cardinality(s \ {Pick(s)}) = Cardinality(s) - 1
  BY <1>1, <1>2, FS_RemoveElement
<1>4. Cardinality(s) # 0
  BY <1>1, FS_EmptySet
<1>5. n > 0 /\ Cardinality(s \ {Pick(s)}) <= n - 1 /\ Cardinality(s \ {Pick(s)}) <= n
  BY <1>1, <1>3, <1>4
<1> QED
  BY <1>5 DEF Small

LEMMA SumExists ==
    ASSUME NEW ps, NEW D, IsFiniteSet(D)
    PROVE  \E g : IsSum(ps, SUBSET D, g)
<1> DEFINE T == {n \in Nat : ~\E g : IsSum(ps, Small(D, n), g)}
<1>1. T = {}
  <2> SUFFICES ASSUME T # {} PROVE FALSE
    OBVIOUS
  <2>1. PICK n \in T : \A m \in T : n <= m
    <3>1. T \subseteq Nat
      OBVIOUS
    <3> HIDE DEF T
    <3> QED
      BY <3>1, LeastNatural
  <2>2. CASE n = 0
    <3> DEFINE g == [s \in Small(D, n) |-> 0]
    <3>1. \A s \in Small(D, n) : s = {}
      <4> SUFFICES ASSUME NEW s \in Small(D, n), s # {} PROVE FALSE
        OBVIOUS
      <4>1. n \in Nat
        OBVIOUS
      <4>2. n > 0
        BY <4>1, SmallFacts
      <4> QED
        BY <2>2, <4>2
    <3>2. \A s \in Small(D, n) : Summed(ps, g, s) = 0
      BY <3>1 DEF Summed
    <3>3. IsSum(ps, Small(D, n), g)
      BY <3>2 DEF IsSum
    <3> QED
      BY <3>3
  <2>3. CASE n # 0
    <3>1. n - 1 \in Nat /\ ~(n <= n - 1)
      BY <2>3
    <3>2. n - 1 \notin T
      BY <2>1, <3>1
    <3>3. PICK g : IsSum(ps, Small(D, n - 1), g)
      BY <3>1, <3>2
    <3> DEFINE h == [s \in Small(D, n) |-> Summed(ps, g, s)]
    <3>4. \A t \in Small(D, n - 1) : t \in Small(D, n) => h[t] = g[t]
      BY <3>3 DEF IsSum
    <3>5. ASSUME NEW s \in Small(D, n) PROVE Summed(ps, g, s) = Summed(ps, h, s)
      <4>1. CASE s = {}
        BY <4>1 DEF Summed
      <4>2. CASE s # {}
        <5>1. n \in Nat
          OBVIOUS
        <5>2. s \ {Pick(s)} \in Small(D, n - 1) /\ s \ {Pick(s)} \in Small(D, n)
          BY <4>2, <5>1, SmallFacts
        <5>3. h[s \ {Pick(s)}] = g[s \ {Pick(s)}]
          BY <3>4, <5>2
        <5> HIDE DEF h
        <5> QED
          BY <5>3 DEF Summed
      <4> QED
        BY <4>1, <4>2
    <3>6. h = [s \in Small(D, n) |-> Summed(ps, h, s)]
      <4>1. PICK k : k = h
        OBVIOUS
      <4>2. \A s \in Small(D, n) : Summed(ps, g, s) = Summed(ps, k, s)
        BY <3>5, <4>1
      <4>3. k = [s \in Small(D, n) |-> Summed(ps, g, s)]
        BY <4>1
      <4>4. k = [s \in Small(D, n) |-> Summed(ps, k, s)]
        BY <4>2, <4>3
      <4> QED
        BY <4>1, <4>4
    <3>7. IsSum(ps, Small(D, n), h)
      BY <3>6 DEF IsSum
    <3> QED
      BY <3>7
  <2> QED
    BY <2>2, <2>3
<1>2. Cardinality(D) \in Nat
  BY FS_CardinalityType
<1>3. Small(D, Cardinality(D)) = SUBSET D
  BY FS_Subset DEF Small
<1>4. \E g : IsSum(ps, Small(D, Cardinality(D)), g)
  BY <1>1, <1>2
<1> QED
  BY <1>3, <1>4

\* What a set of pieces of the right lengths adds up to: a block for each, less
\* what the last one falls short of a block.
RightLength(n, size, i) == IF i + 1 = n THEN size - i * Block ELSE Block
Gap(n, size) == n * Block - size
Closed(n, size, s) == Block * Cardinality(s) - (IF n - 1 \in s THEN Gap(n, size) ELSE 0)

LEMMA ClosedStep ==
    ASSUME NEW n \in Nat, NEW size \in Int, NEW D, D = 0 .. n - 1, NEW s \in SUBSET D,
           NEW x \in s
    PROVE  RightLength(n, size, x) + Closed(n, size, s \ {x}) = Closed(n, size, s)
<1> DEFINE len == RightLength(n, size, x)
           c == Cardinality(s)
           t == s \ {x}
           gap == Gap(n, size)
<1>1. Block \in Nat /\ IsFiniteSet(s) /\ x \in Int
  <2>1. IsFiniteSet(D)
    BY FS_Interval
  <2>2. D \subseteq Int
    OBVIOUS
  <2> QED
    BY <2>1, <2>2, FS_Subset, FetchAssumption
<1>2. c \in Nat /\ Cardinality(t) = c - 1
  BY <1>1, FS_CardinalityType, FS_RemoveElement
<1>3. gap \in Int /\ gap = n * Block - size
  BY <1>1 DEF Gap
<1>4. Block * (c - 1) = Block * c - Block /\ Block * c \in Int
  BY <1>1, <1>2
<1>5. Closed(n, size, s) = Block * c - (IF n - 1 \in s THEN gap ELSE 0)
  BY DEF Closed
<1>6. Closed(n, size, t) = Block * (c - 1) - (IF n - 1 \in t THEN gap ELSE 0)
  BY <1>2 DEF Closed
<1>7. CASE x + 1 = n
  <2>1. n - 1 = x /\ n - 1 \in s /\ n - 1 \notin t
    BY <1>1, <1>7
  <2>2. x * Block = n * Block - Block /\ n * Block \in Int
    BY <1>1, <1>7
  <2>3. len = Block - gap
    BY <1>1, <1>3, <1>7, <2>2 DEF RightLength
  <2> HIDE DEF c, t, gap, len
  <2>4. Closed(n, size, s) = Block * c - gap
    BY <1>5, <2>1
  <2>5. Closed(n, size, t) = Block * (c - 1) - 0
    BY <1>6, <2>1
  <2>6. len + Closed(n, size, t) = Closed(n, size, s)
    BY <1>1, <1>3, <1>4, <2>3, <2>4, <2>5
  <2> QED
    BY <2>6 DEF t, len
<1>8. CASE x + 1 # n
  <2>1. n - 1 # x
    BY <1>1, <1>8
  <2>2. n - 1 \in s <=> n - 1 \in t
    BY <2>1
  <2>3. len = Block
    BY <1>8 DEF RightLength
  <2> HIDE DEF c, t, gap, len
  <2>4. CASE n - 1 \in s
    <3>1. n - 1 \in t
      BY <2>2, <2>4
    <3>2. Closed(n, size, s) = Block * c - gap
      BY <1>5, <2>4
    <3>3. Closed(n, size, t) = Block * (c - 1) - gap
      BY <1>6, <3>1
    <3>4. len + Closed(n, size, t) = Closed(n, size, s)
      BY <1>1, <1>3, <1>4, <2>3, <3>2, <3>3
    <3> QED
      BY <3>4 DEF t, len
  <2>5. CASE n - 1 \notin s
    <3>1. n - 1 \notin t
      BY <2>2, <2>5
    <3>2. Closed(n, size, s) = Block * c - 0
      BY <1>5, <2>5
    <3>3. Closed(n, size, t) = Block * (c - 1) - 0
      BY <1>6, <3>1
    <3>4. len + Closed(n, size, t) = Closed(n, size, s)
      BY <1>1, <1>4, <2>3, <3>2, <3>3
    <3> QED
      BY <3>4 DEF t, len
  <2> QED
    BY <2>4, <2>5
<1> QED
  BY <1>7, <1>8

RightLengths(n, size, D, ps) == \A i \in D : ps[i] = RightLength(n, size, i)

AddsUp(n, size, D, ps, g) ==
    D = 0 .. n - 1 /\ RightLengths(n, size, D, ps) /\ SumsOver(ps, D, g)

LEMMA SumClosed ==
    ASSUME NEW n \in Nat, NEW size \in Int, NEW D, NEW ps, NEW g, AddsUp(n, size, D, ps, g)
    PROVE  g[D] = Closed(n, size, D)
<1> USE DEF AddsUp
<1> DEFINE T == {k \in Nat : \E s \in SUBSET D : Cardinality(s) = k /\ g[s] # Closed(n, size, s)}
<1>1. IsFiniteSet(D) /\ Block \in Nat
  BY FS_Interval, FetchAssumption
<1>2. T = {}
  <2> SUFFICES ASSUME T # {} PROVE FALSE
    OBVIOUS
  <2>1. PICK k \in T : \A m \in T : k <= m
    <3>1. T \subseteq Nat
      OBVIOUS
    <3> HIDE DEF T
    <3> QED
      BY <3>1, LeastNatural
  <2>2. PICK s \in SUBSET D : Cardinality(s) = k /\ g[s] # Closed(n, size, s)
    OBVIOUS
  <2>3. g[s] = Summed(ps, g, s) /\ IsFiniteSet(s) /\ k \in Nat
    BY <1>1, FS_Subset DEF IsSum, SumsOver
  <2>4. CASE s = {}
    <3>1. Closed(n, size, {}) = 0
      BY <1>1, FS_EmptySet DEF Closed
    <3>2. Summed(ps, g, {}) = 0
      BY DEF Summed
    <3> QED
      BY <2>2, <2>3, <2>4, <3>1, <3>2
  <2>5. CASE s # {}
    <3> DEFINE x == Pick(s)
               t == s \ {x}
    <3>1. x \in s
      BY <2>5, PickIn
    <3>2. g[s] = ps[x] + g[t]
      BY <2>3, <2>5 DEF Summed
    <3>3. Cardinality(t) = k - 1 /\ Cardinality(t) \in Nat
      BY <2>2, <2>3, <3>1, FS_RemoveElement, FS_CardinalityType
    <3>4. t \in SUBSET D
      OBVIOUS
    <3> HIDE DEF x, t
    <3>5. g[t] = Closed(n, size, t)
      <4>1. ~(k <= Cardinality(t))
        BY <2>3, <3>3
      <4>2. Cardinality(t) \notin T
        BY <2>1, <4>1
      <4> QED
        BY <3>3, <3>4, <4>2
    <3>6. ps[x] + Closed(n, size, t) = Closed(n, size, s)
      <4>1. ps[x] = RightLength(n, size, x)
        BY <3>1 DEF RightLengths
      <4>2. RightLength(n, size, x) + Closed(n, size, s \ {x}) = Closed(n, size, s)
        BY <3>1, ClosedStep
      <4> QED
        BY <4>1, <4>2 DEF t
    <3> QED
      BY <2>2, <3>2, <3>5, <3>6
  <2> QED
    BY <2>4, <2>5
<1>3. ASSUME NEW s \in SUBSET D PROVE g[s] = Closed(n, size, s)
  <2>1. Cardinality(s) \in Nat
    BY <1>1, FS_Subset, FS_CardinalityType
  <2> QED
    BY <1>2, <2>1
<1> QED
  BY <1>3

\* Pieces of the lengths metadata_piece_len asks for add up to the size.
LEMMA WholeSum ==
    ASSUME NEW size \in Nat, size > 0, NEW n, n = metadata_piece_count(size),
           NEW ps, DOMAIN ps = 0 .. n - 1,
           \A i \in 0 .. n - 1 : ps[i] = metadata_piece_len(size, i)
    PROVE  FoldFunction(+, 0, ps) = size
<1> DEFINE D == 0 .. n - 1
           g == CHOOSE f : IsSum(ps, SUBSET D, f)
<1>1. n \in Nat /\ n > 0 /\ Block \in Nat
  BY PieceFacts, FetchAssumption
<1>2. IsFiniteSet(D) /\ Cardinality(D) = n /\ n - 1 \in D
  <2>1. n - 1 \in Int /\ 0 \in Int
    BY <1>1
  <2>2. IsFiniteSet(D) /\ Cardinality(D) = IF 0 > n - 1 THEN 0 ELSE (n - 1) - 0 + 1
    BY <2>1, FS_Interval
  <2> QED
    BY <1>1, <2>2
<1>3. FoldFunction(+, 0, ps) = g[D]
  BY FoldIs
<1>4. SumsOver(ps, D, g)
  BY <1>2, SumExists DEF SumsOver
<1>5. RightLengths(n, size, D, ps)
  BY DEF metadata_piece_len, RightLengths, RightLength
<1>6. D = 0 .. n - 1 /\ size \in Int /\ n \in Nat
  BY <1>1
<1> HIDE DEF D, g
<1>7. g[D] = Closed(n, size, D)
  <2>1. AddsUp(n, size, D, ps, g)
    BY <1>4, <1>5, <1>6 DEF AddsUp
  <2> QED
    BY <1>6, <2>1, SumClosed
<1>8. Closed(n, size, D) = Block * n - Gap(n, size)
  BY <1>2 DEF Closed
<1>9. Block * n = n * Block /\ n * Block \in Int
  BY <1>1
<1>10. Block * n - Gap(n, size) = size
  BY <1>9 DEF Gap
<1> QED
  BY <1>3, <1>7, <1>8, <1>10

\* The indices of the pieces are finite in number, as many as TotalPieces.
LEMMA IndicesFinite ==
    ASSUME WindowTypes
    PROVE  /\ TotalPieces \in Nat
           /\ IsFiniteSet(Indices) /\ Cardinality(Indices) = TotalPieces
           /\ \A S : S \subseteq Indices =>
                IsFiniteSet(S) /\ Cardinality(S) \in 0 .. TotalPieces
           /\ \A S : S \subseteq Indices /\ Cardinality(S) = TotalPieces => S = Indices
<1>1. TotalPieces \in Nat
  <2>1. metadata_size \in Nat
    BY FetchAssumption DEF WindowTypes
  <2> QED
    BY <2>1, PieceFacts DEF TotalPieces
<1>2. IsFiniteSet(Indices) /\ Cardinality(Indices) = TotalPieces
  <2>1. /\ IsFiniteSet(0 .. TotalPieces - 1)
        /\ Cardinality(0 .. TotalPieces - 1) =
             IF 0 > TotalPieces - 1 THEN 0 ELSE (TotalPieces - 1) - 0 + 1
    BY <1>1, FS_Interval
  <2> QED
    BY <1>1, <2>1 DEF Indices
<1>3. ASSUME NEW S, S \subseteq Indices
      PROVE  /\ IsFiniteSet(S) /\ Cardinality(S) \in 0 .. TotalPieces
             /\ Cardinality(S) = TotalPieces => S = Indices
  <2>1. /\ IsFiniteSet(S) /\ Cardinality(S) <= Cardinality(Indices)
        /\ Cardinality(S) = Cardinality(Indices) => S = Indices
    BY <1>2, <1>3, FS_Subset
  <2>2. Cardinality(S) \in Nat
    BY <2>1, FS_CardinalityType
  <2> QED
    BY <1>1, <1>2, <2>1, <2>2
<1> QED
  BY <1>1, <1>2, <1>3

------------------------------------------------------------------------------
(***************************************************************************)
(* The window, whatever the stage does.                                    *)
(***************************************************************************)
\* A step that leaves the window alone keeps what is said of it.
LEMMA WindowQuiet ==
    ASSUME WindowInv, UNCHANGED window
    PROVE  WindowInv'
BY DEF WindowInv, WindowTypes, PiecesInv, RequestsInv, TotalPieces, Indices, Held, window

\* The window the extended handshake sets up: nothing held, nothing requested.
LEMMA WindowSetUp ==
    ASSUME WindowInv, NEW s \in 1 .. MaxMetadataSize, NEW r \in 1 .. MaxReqq,
           received = 0, next_to_request = 0, in_flight = 0, requested = {},
           metadata_size' = s, max_outstanding' = r,
           pieces' = [i \in 0 .. metadata_piece_count(s) - 1 |-> Absent],
           UNCHANGED <<received, next_to_request, in_flight, requested>>
    PROVE  WindowInv'
<1>1. MaxMetadataSize \in Nat /\ MaxReqq \in Nat
  BY FetchAssumption
<1> DEFINE T == metadata_piece_count(s)
<1>2. T \in Nat /\ T > 0
  BY <1>1, PieceFacts
<1>3. TotalPieces' = T /\ Indices' = 0 .. T - 1
  BY DEF TotalPieces, Indices
<1> HIDE DEF T
<1>4. pieces' = [i \in 0 .. T - 1 |-> Absent]
  BY DEF T
<1>5. Held' = {}
  BY <1>3, <1>4 DEF Held
<1>6. WindowTypes'
  <2>1. metadata_size' \in 0 .. MaxMetadataSize /\ max_outstanding' \in 0 .. MaxReqq
    BY <1>1
  <2>2. DOMAIN pieces' = 0 .. T - 1 /\ \A i \in 0 .. T - 1 : pieces'[i] = Absent
    BY <1>4
  <2>3. 0 \in 0 .. T /\ 0 \in 0 .. MaxReqq
    BY <1>1, <1>2
  <2> QED
    BY <1>3, <2>1, <2>2, <2>3 DEF WindowTypes
<1>7. PiecesInv'
  <2>1. Cardinality(Held') = 0
    BY <1>5, FS_EmptySet
  <2> QED
    BY <1>5, <2>1 DEF PiecesInv
<1>8. RequestsInv'
  <2>1. in_flight' = Cardinality(requested')
    BY FS_EmptySet
  <2> QED
    BY <1>1, <1>2, <1>3, <2>1 DEF RequestsInv
<1> QED
  BY <1>6, <1>7, <1>8 DEF WindowInv

\* Writing a request moves one index from those to come to those outstanding.
LEMMA WindowRequest ==
    ASSUME WindowInv, WindowOpen(next_to_request, in_flight),
           requested' = requested \cup {next_to_request},
           next_to_request' = next_to_request + 1, in_flight' = in_flight + 1,
           UNCHANGED <<metadata_size, max_outstanding, pieces, received>>
    PROVE  WindowInv'
<1> DEFINE n == next_to_request
<1>1. MaxReqq \in Nat
  BY FetchAssumption
<1>2. TotalPieces \in Nat /\ IsFiniteSet(requested)
  BY IndicesFinite DEF WindowInv, WindowTypes
<1>3. TotalPieces' = TotalPieces /\ Indices' = Indices /\ Held' = Held
  BY DEF TotalPieces, Indices, Held
<1>4. n \in 0 .. TotalPieces - 1 /\ in_flight < max_outstanding
  BY <1>2 DEF WindowOpen, WindowInv, WindowTypes
<1>5. WindowTypes'
  BY <1>1, <1>2, <1>3, <1>4 DEF WindowInv, WindowTypes, Indices
<1>6. PiecesInv'
  BY <1>3 DEF WindowInv, PiecesInv
<1>7. Cardinality(requested') = Cardinality(requested) + 1
  <2>1. n \notin requested
    BY <1>4 DEF WindowInv, RequestsInv
  <2> QED
    BY <1>2, <2>1, FS_AddElement
<1>8. in_flight' = Cardinality(requested')
  BY <1>7 DEF WindowInv, RequestsInv
<1>9. in_flight' <= max_outstanding'
  BY <1>4 DEF WindowInv, WindowTypes
<1>10. requested' \subseteq 0 .. next_to_request' - 1
  BY <1>4 DEF WindowInv, RequestsInv
<1>11. Indices' \ Held' \subseteq requested' \cup (next_to_request' .. TotalPieces' - 1)
  BY <1>3, <1>4, <1>2 DEF WindowInv, RequestsInv
<1> QED
  BY <1>5, <1>6, <1>8, <1>9, <1>10, <1>11 DEF WindowInv, RequestsInv

\* A valid piece is held from now on and no longer outstanding, whether or not
\* it was asked for, held before, or both.
LEMMA WindowPiece ==
    ASSUME WindowInv, metadata_size > 0, NEW i \in Indices,
           NEW len, len = metadata_piece_len(metadata_size, i),
           requested' = requested \ {i},
           in_flight' = IF i \in requested THEN in_flight - 1 ELSE in_flight,
           pieces' = [pieces EXCEPT ![i] = IF @ = Absent THEN len ELSE @],
           received' = IF pieces[i] = Absent THEN received + 1 ELSE received,
           UNCHANGED <<metadata_size, max_outstanding, next_to_request>>
    PROVE  /\ WindowInv'
           /\ Held' = Held \cup {i}
           /\ received' >= received
<1>1. MaxReqq \in Nat /\ MaxMetadataSize \in Nat /\ Absent \notin Int /\ Block \in Nat
  BY FetchAssumption
<1>2. TotalPieces \in Nat /\ IsFiniteSet(requested)
  BY IndicesFinite DEF WindowInv, WindowTypes
<1>3. TotalPieces' = TotalPieces /\ Indices' = Indices
  BY DEF TotalPieces, Indices
<1>4. len \in 1 .. Block
  BY <1>1, PieceFacts DEF WindowInv, WindowTypes, Indices, TotalPieces
<1>5. /\ DOMAIN pieces' = Indices
      /\ \A j \in Indices : j # i => pieces'[j] = pieces[j]
      /\ pieces[i] = Absent => pieces'[i] = len
      /\ pieces[i] # Absent => pieces'[i] = pieces[i]
  BY DEF WindowInv, WindowTypes
<1>6. len # Absent
  BY <1>1, <1>4
<1>7. Held' = Held \cup {i}
  BY <1>3, <1>5, <1>6 DEF Held
<1>8. IsFiniteSet(Held) /\ Held \subseteq Indices
  BY IndicesFinite DEF Held, WindowInv
<1>9. received' = Cardinality(Held') /\ received' >= received
  <2>1. received = Cardinality(Held) /\ received \in Nat
    BY <1>2 DEF WindowInv, PiecesInv, WindowTypes
  <2>2. CASE pieces[i] = Absent
    <3>1. i \notin Held
      BY <2>2 DEF Held
    <3>2. Cardinality(Held \cup {i}) = Cardinality(Held) + 1
      BY <1>8, <3>1, FS_AddElement
    <3>3. Cardinality(Held') = Cardinality(Held) + 1
      BY <1>7, <3>2, Zenon
    <3> QED
      BY <2>1, <2>2, <3>3
  <2>3. CASE pieces[i] # Absent
    <3>1. Held' = Held
      BY <1>7, <2>3 DEF Held
    <3> QED
      BY <2>1, <2>3, <3>1
  <2> QED
    BY <2>2, <2>3
<1>10. PiecesInv'
  <2>1. \A j \in Held' : pieces'[j] = metadata_piece_len(metadata_size, j)
    <3> SUFFICES ASSUME NEW j \in Held'
                 PROVE  pieces'[j] = metadata_piece_len(metadata_size, j)
      OBVIOUS
    <3>1. CASE j \in Held
      BY <1>5, <1>8, <3>1 DEF WindowInv, PiecesInv, Held
    <3>2. CASE j \notin Held
      BY <1>5, <1>7, <3>2 DEF Held
    <3> QED
      BY <3>1, <3>2
  <2> QED
    BY <1>9, <2>1 DEF PiecesInv
<1>11. in_flight' = Cardinality(requested') /\ in_flight' <= max_outstanding /\ in_flight' \in Nat
       /\ in_flight' <= in_flight
  <2>1. /\ in_flight = Cardinality(requested) /\ in_flight <= max_outstanding
        /\ in_flight \in Nat /\ max_outstanding \in Nat
    BY <1>1 DEF WindowInv, RequestsInv, WindowTypes
  <2>2. CASE i \in requested
    <3>1. Cardinality(requested \ {i}) = Cardinality(requested) - 1
      BY <1>2, <2>2, FS_RemoveElement
    <3>2. Cardinality(requested \ {i}) \in Nat
      BY <1>2, FS_RemoveElement, FS_CardinalityType
    <3>3. Cardinality(requested') = Cardinality(requested) - 1 /\ Cardinality(requested') \in Nat
      BY <3>1, <3>2, Zenon
    <3> QED
      BY <2>1, <2>2, <3>3
  <2>3. CASE i \notin requested
    <3>1. requested' = requested
      BY <2>3
    <3> QED
      BY <2>1, <2>3, <3>1
  <2> QED
    BY <2>2, <2>3
<1>12. received' \in 0 .. TotalPieces
  <2>1. Held' \subseteq Indices
    BY <1>7, <1>8
  <2>2. Cardinality(Held') \in 0 .. TotalPieces
    BY <2>1, IndicesFinite DEF WindowInv
  <2> QED
    BY <1>9, <2>2
<1>13. WindowTypes'
  <2>1. \A j \in Indices : pieces'[j] \in {Absent} \cup 1 .. Block
    BY <1>4, <1>5 DEF WindowInv, WindowTypes
  <2>2. in_flight' \in 0 .. MaxReqq
    BY <1>1, <1>11 DEF WindowInv, WindowTypes
  <2> QED
    BY <1>3, <1>5, <1>12, <2>1, <2>2 DEF WindowInv, WindowTypes
<1>14. RequestsInv'
  BY <1>3, <1>7, <1>11 DEF WindowInv, RequestsInv
<1> QED
  BY <1>7, <1>9, <1>10, <1>13, <1>14 DEF WindowInv

------------------------------------------------------------------------------
(***************************************************************************)
(* The end of the attempt and the receive loop.                            *)
(***************************************************************************)
\* The assembly succeeds only with every piece there and the announced number
\* of bytes.
LEMMA AssemblyChecks ==
    ASSUME NEW ps
    PROVE  /\ assembled(ps) \in {"ok", "protocol"}
           /\ assembled(ps) = "ok" => /\ \A i \in DOMAIN ps : ps[i] # Absent
                                      /\ Bytes(ps) = metadata_size
<1>1. CASE \E i \in DOMAIN ps : ps[i] = Absent
  <2>1. assembled(ps) = "protocol"
    BY <1>1, Zenon DEF assembled
  <2> QED
    BY <2>1
<1>2. CASE ~\E i \in DOMAIN ps : ps[i] = Absent
  <2>1. assembled(ps) = IF Bytes(ps) = 0 \/ Bytes(ps) # metadata_size THEN "protocol" ELSE "ok"
    BY <1>2, Zenon DEF assembled, Bytes
  <2> QED
    BY <1>2, <2>1
<1> QED
  BY <1>1, <1>2

\* `received` tells exactly whether every piece is held.
LEMMA CountsWhole ==
    WindowInv => /\ TotalPieces \in Nat
                 /\ Cardinality(Indices) = TotalPieces
                 /\ received < TotalPieces => Indices \ Held # {}
<1> SUFFICES ASSUME WindowInv
             PROVE  /\ TotalPieces \in Nat
                    /\ Cardinality(Indices) = TotalPieces
                    /\ received < TotalPieces => Indices \ Held # {}
  OBVIOUS
<1>1. Held \subseteq Indices
  BY DEF Held
<1>2. received = Cardinality(Held) /\ received \in Int
  BY DEF WindowInv, PiecesInv, WindowTypes
<1>3. TotalPieces \in Nat /\ Cardinality(Indices) = TotalPieces
  BY IndicesFinite DEF WindowInv
<1>4. Held = Indices => received = TotalPieces
  BY <1>2, <1>3, Zenon
<1>5. received < TotalPieces => Held # Indices
  BY <1>2, <1>3, <1>4
<1>6. Held # Indices => Indices \ Held # {}
  BY <1>1
<1> QED
  BY <1>3, <1>5, <1>6

\* The same of the next state.
LEMMA CountsWholeNext ==
    WindowInv' => /\ TotalPieces' \in Nat
                  /\ Cardinality(Indices)' = TotalPieces'
                  /\ received' < TotalPieces' => Indices' \ Held' # {}
<1>1. (WindowInv => /\ TotalPieces \in Nat
                    /\ Cardinality(Indices) = TotalPieces
                    /\ received < TotalPieces => Indices \ Held # {})'
  BY CountsWhole, PTL
<1> QED
  BY <1>1

\* What the assembly accepts is whole.
LEMMA AssemblyWhole ==
    ASSUME WindowInv', UNCHANGED metadata_size, assembled(pieces') = "ok"
    PROVE  /\ Held' = Indices' /\ received' = TotalPieces'
           /\ Bytes(pieces') = metadata_size'
<1>1. (\A i \in DOMAIN pieces' : pieces'[i] # Absent) /\ Bytes(pieces') = metadata_size
  BY AssemblyChecks
<1>2. DOMAIN pieces' = Indices'
  BY DEF WindowInv, WindowTypes
<1>3. Held' = Indices'
  BY <1>1, <1>2 DEF Held
<1>4. Cardinality(Indices)' = TotalPieces'
  BY CountsWholeNext
<1>5. received' = Cardinality(Held')
  BY DEF WindowInv, PiecesInv
<1>6. received' = TotalPieces'
  BY <1>3, <1>4, <1>5, Zenon
<1> QED
  BY <1>1, <1>3, <1>6

\* Every way the attempt ends; only a whole result may end it with "ok".
LEMMA FinishStep ==
    ASSUME ClockInv, NEW why \in Outcomes, Finish(why),
           why = "ok" => /\ Held' = Indices' /\ received' = TotalPieces'
                         /\ Bytes(pieces') = metadata_size'
    PROVE  StageInv' /\ ClockInv' /\ OutcomeInv'
<1>1. StageInv'
  BY DEF Finish, StageInv
<1>2. ClockInv'
  BY DEF Finish, ClockInv, Stages
<1>3. OutcomeInv'
  <2>1. outcome' # Absent
    BY FetchAssumption DEF Finish
  <2> QED
    BY <2>1 DEF Finish, OutcomeInv, ReturnedWhole
<1> QED
  BY <1>1, <1>2, <1>3

LEMMA FailStep ==
    ASSUME IInv, NEW why \in Outcomes \ {"ok"}, Fail(why)
    PROVE  IInv'
<1>1. WindowInv'
  BY WindowQuiet DEF Fail, IInv
<1>2. StageInv' /\ ClockInv' /\ OutcomeInv'
  BY FinishStep DEF Fail, IInv
<1> QED
  BY <1>1, <1>2 DEF IInv

\* The top of the receive loop with the window filled: it ends with the assembly,
\* ends at the deadline, or waits for an answer that is outstanding.
LEMMA LoopStep ==
    ASSUME ClockInv, OutcomeInv, stage # "done",
           WindowInv', metadata_size > 0, max_outstanding > 0,
           UNCHANGED <<metadata_size, max_outstanding>>,
           ~WindowOpen(next_to_request', in_flight'),
           NEW spent \in Nat, ReceiveLoop(received', pieces', spent)
    PROVE  StageInv' /\ ClockInv' /\ OutcomeInv'
<1>1. TotalPieces' = TotalPieces
  BY DEF TotalPieces
<1>2. TotalPieces \in Nat /\ received' \in Nat /\ PeerTimeout \in Nat \ {0} /\ MaxReqq \in Nat
  BY <1>1, FetchAssumption, CountsWholeNext DEF WindowInv, WindowTypes
<1>3. CASE received' >= TotalPieces /\ Finish(assembled(pieces'))
  <2>1. assembled(pieces') \in Outcomes
    BY AssemblyChecks DEF Outcomes
  <2>2. assembled(pieces') = "ok" => /\ Held' = Indices' /\ received' = TotalPieces'
                                     /\ Bytes(pieces') = metadata_size'
    BY AssemblyWhole
  <2> HIDE DEF assembled
  <2> QED
    BY <1>3, <2>1, <2>2, FinishStep
<1>4. CASE Finish("timeout")
  BY <1>4, FinishStep DEF Outcomes
<1>5. CASE /\ received' < TotalPieces /\ spent < Deadline
           /\ Start("receive", Deadline - spent)
           /\ half' = "header" /\ elapsed' = spent
  <2>1. requested' # {}
    <3>1. CASE next_to_request' < TotalPieces
      <4>1. in_flight' > 0
        BY <1>1, <1>2, <3>1 DEF WindowOpen, WindowInv, WindowTypes
      <4>2. in_flight' = Cardinality(requested')
        BY DEF WindowInv, RequestsInv
      <4>3. requested' = {} => Cardinality(requested') = 0
        BY FS_EmptySet
      <4> QED
        BY <4>1, <4>2, <4>3
    <3>2. CASE ~(next_to_request' < TotalPieces)
      <4>1. Indices' \ Held' # {}
        BY <1>1, <1>5, CountsWholeNext
      <4>2. Indices' \ Held' \subseteq requested' \cup (next_to_request' .. TotalPieces' - 1)
        BY DEF WindowInv, RequestsInv
      <4>3. next_to_request' .. TotalPieces' - 1 = {}
        BY <1>1, <1>2, <3>2 DEF WindowInv, WindowTypes
      <4> QED
        BY <4>1, <4>2, <4>3
    <3> QED
      BY <3>1, <3>2
  <2>2. StageInv'
    BY <1>1, <1>5, <2>1, FetchAssumption DEF StageInv, Start, WindowOpen, WindowInv, WindowTypes
  <2>3. ClockInv'
    BY <1>2, <1>5 DEF ClockInv, Start, Stages, Deadline
  <2>4. OutcomeInv'
    <3>1. outcome' = Absent
      BY <1>5 DEF OutcomeInv, Start
    <3>2. Absent # "ok"
      BY FetchAssumption DEF Outcomes
    <3> QED
      BY <1>5, <3>1, <3>2 DEF OutcomeInv, ReturnedWhole, Start
  <2> QED
    BY <2>2, <2>3, <2>4
<1> QED
  BY <1>3, <1>4, <1>5 DEF ReceiveLoop, NextRead

\* The end of an iteration: a request is written only in the place of one that
\* was just answered.
LEMMA RefillStep ==
    ASSUME IInv, stage = "receive", WindowInv',
           UNCHANGED <<metadata_size, max_outstanding, next_to_request>>,
           in_flight' \in {in_flight, in_flight - 1},
           Refill(in_flight', received', pieces')
    PROVE  StageInv' /\ ClockInv' /\ OutcomeInv'
<1>1. TotalPieces' = TotalPieces
  BY DEF TotalPieces
<1>2. /\ TotalPieces \in Nat /\ PeerTimeout \in Nat \ {0} /\ MaxReqq \in Nat
      /\ next_to_request \in Nat /\ in_flight \in Nat /\ max_outstanding \in Nat
      /\ in_flight <= max_outstanding
  BY <1>1, FetchAssumption, CountsWholeNext DEF IInv, WindowInv, WindowTypes, RequestsInv
<1>3. /\ metadata_size > 0 /\ max_outstanding > 0
      /\ ~WindowOpen(next_to_request, in_flight)
  BY DEF IInv, StageInv
<1>4. CASE /\ WindowOpen(next_to_request, in_flight')
           /\ Start("refill", PeerTimeout) /\ UNCHANGED <<half, elapsed>>
  <2>1. in_flight' = max_outstanding - 1
    BY <1>2, <1>3, <1>4 DEF WindowOpen
  <2>2. StageInv'
    BY <1>1, <1>3, <1>4, <2>1 DEF StageInv, Start, WindowOpen
  <2>3. elapsed <= 2 * Deadline
    <3>1. Deadline \in Nat /\ waited \in 0 .. budget /\ budget \in Nat /\ elapsed \in Nat
      BY <1>2 DEF IInv, ClockInv, Deadline
    <3>2. /\ budget <= Deadline
          /\ half = "header" => elapsed + budget = Deadline + waited
          /\ half = "body" => elapsed <= Deadline + waited
          /\ half \in {"header", "body"}
      BY DEF IInv, ClockInv
    <3> QED
      BY <3>1, <3>2
  <2>4. ClockInv'
    BY <1>2, <1>4, <2>3 DEF IInv, ClockInv, Start, Stages, Deadline
  <2>5. OutcomeInv'
    <3>1. outcome' = Absent
      BY <1>4 DEF IInv, OutcomeInv, Start
    <3>2. Absent # "ok"
      BY FetchAssumption DEF Outcomes
    <3> QED
      BY <1>4, <3>1, <3>2 DEF OutcomeInv, ReturnedWhole, Start
  <2> QED
    BY <2>2, <2>4, <2>5
<1>5. CASE /\ ~WindowOpen(next_to_request, in_flight')
           /\ ReceiveLoop(received', pieces', elapsed)
  <2>1. elapsed \in Nat
    BY DEF IInv, ClockInv
  <2> QED
    BY <1>3, <1>5, <2>1, LoopStep DEF IInv
<1> QED
  BY <1>4, <1>5 DEF Refill

\* An operation is started and the attempt goes on, before there is a window.
LEMMA EarlyStep ==
    ASSUME IInv, stage \notin {"request", "receive", "refill", "done"},
           NEW s \in {"handshake_write", "handshake_read", "extension_write", "extension_read"},
           NEW limit \in Nat, Start(s, limit),
           half' \in {"header", "body"}, elapsed' \in Nat, UNCHANGED window
    PROVE  IInv'
<1>1. WindowInv'
  BY WindowQuiet DEF IInv
<1>2. StageInv'
  BY DEF IInv, StageInv, Start, window
<1>3. ClockInv'
  BY DEF ClockInv, Start, Stages
<1>4. OutcomeInv'
  <2>1. outcome' = Absent
    BY DEF IInv, OutcomeInv, Start
  <2>2. Absent # "ok"
    BY FetchAssumption DEF Outcomes
  <2> QED
    BY <2>1, <2>2 DEF OutcomeInv, ReturnedWhole, Start
<1> QED
  BY <1>1, <1>2, <1>3, <1>4 DEF IInv

------------------------------------------------------------------------------
(***************************************************************************)
(* One lemma per kind of step.                                             *)
(***************************************************************************)
LEMMA InitInv ==
    ASSUME Init PROVE IInv
<1>1. MaxMetadataSize \in Nat /\ MaxReqq \in Nat /\ PeerTimeout \in Nat /\ ConnectTimeout \in Nat
  BY FetchAssumption
<1>2. TotalPieces = 0
  BY PieceFacts DEF Init, TotalPieces
<1>3. Indices = {} /\ Held = {}
  BY <1>2 DEF Indices, Held
<1>4. WindowTypes
  <2>1. DOMAIN pieces = {}
    BY DEF Init
  <2>2. 0 \in 0 .. 0 /\ 0 \in 0 .. MaxReqq /\ 0 \in 0 .. MaxMetadataSize
    BY <1>1
  <2> QED
    BY <1>2, <1>3, <2>1, <2>2 DEF Init, WindowTypes
<1>5. PiecesInv /\ RequestsInv
  <2>1. Cardinality(Held) = 0 /\ Cardinality(requested) = 0
    BY <1>3, FS_EmptySet DEF Init
  <2> QED
    BY <1>2, <1>3, <2>1 DEF Init, PiecesInv, RequestsInv
<1>6. StageInv
  BY DEF Init, StageInv
<1>7. ClockInv
  BY <1>1 DEF Init, ClockInv, Stages
<1>8. OutcomeInv
  <2>1. Absent # "ok"
    BY FetchAssumption DEF Outcomes
  <2> QED
    BY <2>1 DEF Init, OutcomeInv, ReturnedWhole
<1> QED
  BY <1>4, <1>5, <1>6, <1>7, <1>8 DEF IInv, WindowInv

\* The passing of time, and a frame whose length prefix has been read.
LEMMA ClockStep ==
    ASSUME IInv, Tick \/ FrameStarts
    PROVE  IInv'
<1>1. WindowInv'
  BY WindowQuiet DEF Tick, FrameStarts, IInv
<1>2. UNCHANGED <<stage, outcome, window>>
  BY DEF Tick, FrameStarts
<1>3. StageInv'
  BY <1>2 DEF IInv, StageInv, WindowOpen, TotalPieces, window
<1>4. PeerTimeout \in Nat
  BY FetchAssumption
<1>7. ClockInv'
  <2>1. CASE Tick
    BY <1>4, <2>1 DEF IInv, ClockInv, Tick, Deadline
  <2>2. CASE FrameStarts
    BY <1>4, <2>2 DEF IInv, ClockInv, FrameStarts, AtHeader, Deadline
  <2> QED
    BY <2>1, <2>2
<1>8. OutcomeInv'
  BY <1>2 DEF IInv, OutcomeInv, ReturnedWhole, Held, Indices, TotalPieces, window
<1> QED
  BY <1>1, <1>3, <1>7, <1>8 DEF IInv

\* Every step that only ends the attempt with an error.
LEMMA ErrorStep ==
    ASSUME IInv, TimedOut \/ IoError \/ FrameTooLarge \/ RejectFrame
    PROVE  IInv'
<1>1. PICK why \in {"timeout", "io", "protocol", "rejected"} : Fail(why)
  BY DEF TimedOut, IoError, FrameTooLarge, RejectFrame
<1> QED
  BY <1>1, FailStep DEF Outcomes

\* An undecodable message.
LEMMA BadFrameStep ==
    ASSUME IInv, BadFrame
    PROVE  IInv'
<1>1. CASE Fail("protocol")
  BY <1>1, FailStep DEF Outcomes
<1>2. CASE Fail(assembled(pieces))
  <2>1. UNCHANGED window
    BY <1>2 DEF Fail
  <2>2. WindowInv'
    BY <2>1, WindowQuiet DEF IInv
  <2>3. UNCHANGED <<metadata_size, pieces>>
    BY <2>1 DEF window
  <2>4. Finish(assembled(pieces'))
    BY <1>2, <2>3 DEF Fail
  <2>5. assembled(pieces') \in Outcomes
    BY AssemblyChecks DEF Outcomes
  <2>6. assembled(pieces') = "ok" => /\ Held' = Indices' /\ received' = TotalPieces'
                                     /\ Bytes(pieces') = metadata_size'
    BY <2>2, <2>3, AssemblyWhole
  <2>7. StageInv' /\ ClockInv' /\ OutcomeInv'
    BY <2>4, <2>5, <2>6, FinishStep DEF IInv
  <2> QED
    BY <2>2, <2>7 DEF IInv
<1> QED
  BY <1>1, <1>2 DEF BadFrame

\* The connection and the handshakes up to the wait for the extended handshake.
LEMMA HandshakeStep ==
    ASSUME IInv,
           Connected \/ HandshakeWritten \/ ExtensionWritten
             \/ \E reply \in HandshakeReplies : HandshakeReply(reply)
    PROVE  IInv'
<1>1. PeerTimeout \in Nat \ {0} /\ half \in {"header", "body"} /\ elapsed \in Nat
  BY FetchAssumption DEF IInv, ClockInv
<1>2. CASE Connected
  BY <1>1, <1>2, EarlyStep DEF Connected
<1>3. CASE HandshakeWritten
  BY <1>1, <1>3, EarlyStep DEF HandshakeWritten
<1>4. CASE ExtensionWritten
  <2>1. Start("extension_read", PeerTimeout - 0) /\ half' = "header" /\ elapsed' = 0
    BY <1>1, <1>4 DEF ExtensionWritten, NextRead
  <2>2. PeerTimeout - 0 \in Nat /\ 0 \in Nat
    BY <1>1
  <2> QED
    BY <1>4, <2>1, <2>2, EarlyStep DEF ExtensionWritten
<1>5. CASE \E reply \in HandshakeReplies : HandshakeReply(reply)
  <2>1. PICK reply \in HandshakeReplies : HandshakeReply(reply)
    BY <1>5
  <2>2. CASE Fail("invalid_handshake") \/ Fail("extension_unavailable")
    BY <2>2, FailStep DEF Outcomes
  <2>3. CASE Start("extension_write", PeerTimeout) /\ UNCHANGED <<half, elapsed, window>>
    BY <1>1, <2>1, <2>3, EarlyStep DEF HandshakeReply
  <2> QED
    BY <2>1, <2>2, <2>3 DEF HandshakeReply
<1> QED
  BY <1>2, <1>3, <1>4, <1>5

\* A keep-alive, or a message the loop has no use for.
LEMMA IgnoredStep ==
    ASSUME IInv, Ignored
    PROVE  IInv'
<1>1. WindowInv'
  BY WindowQuiet DEF Ignored, IInv
<1>2. PeerTimeout \in Nat \ {0} /\ elapsed \in Nat
  BY FetchAssumption DEF IInv, ClockInv
<1>3. CASE stage = "extension_read" /\ NextRead(stage, PeerTimeout, elapsed)
  <2>1. CASE Finish("timeout")
    BY <2>1, FailStep DEF Outcomes, Fail, Ignored
  <2>2. CASE /\ elapsed < PeerTimeout /\ Start(stage, PeerTimeout - elapsed)
             /\ half' = "header" /\ elapsed' = elapsed
    <3>1. PeerTimeout - elapsed \in Nat
      BY <1>2, <2>2
    <3> QED
      BY <1>2, <1>3, <2>2, <3>1, EarlyStep DEF Ignored
  <2> QED
    BY <1>3, <2>1, <2>2 DEF NextRead
<1>4. CASE stage = "receive" /\ Refill(in_flight, received, pieces)
  <2>1. /\ UNCHANGED <<metadata_size, max_outstanding, next_to_request>>
        /\ in_flight' = in_flight /\ received' = received /\ pieces' = pieces
    BY DEF Ignored, window
  <2>2. Refill(in_flight', received', pieces')
    BY <1>4, <2>1
  <2>3. StageInv' /\ ClockInv' /\ OutcomeInv'
    BY <1>1, <1>4, <2>1, <2>2, RefillStep
  <2> QED
    BY <1>1, <2>3 DEF IInv
<1> QED
  BY <1>3, <1>4 DEF Ignored

\* A request has been written.
LEMMA RequestStep ==
    ASSUME IInv, RequestWritten
    PROVE  IInv'
<1>1. /\ stage \in {"request", "refill"}
      /\ metadata_size > 0 /\ max_outstanding > 0
      /\ WindowOpen(next_to_request, in_flight)
      /\ stage = "refill" => in_flight = max_outstanding - 1
  BY DEF IInv, StageInv, RequestWritten
<1>2. UNCHANGED <<metadata_size, max_outstanding, pieces, received>>
  BY DEF RequestWritten
<1>3. WindowInv'
  <2>1. /\ requested' = requested \cup {next_to_request}
        /\ next_to_request' = next_to_request + 1 /\ in_flight' = in_flight + 1
    BY DEF RequestWritten
  <2> QED
    BY <1>1, <1>2, <2>1, WindowRequest DEF IInv
<1>4. /\ PeerTimeout \in Nat \ {0} /\ MaxReqq \in Nat
      /\ in_flight' = in_flight + 1 /\ max_outstanding \in Nat /\ in_flight \in Nat
  BY FetchAssumption DEF IInv, WindowInv, WindowTypes, RequestWritten
<1>5. CASE /\ WindowOpen(next_to_request', in_flight')
           /\ Start(stage, PeerTimeout) /\ UNCHANGED <<half, elapsed>>
  <2>1. stage = "request" /\ stage' = "request"
    BY <1>1, <1>4, <1>5 DEF WindowOpen, Start
  <2>2. TotalPieces' = TotalPieces
    BY <1>2 DEF TotalPieces
  <2>3. StageInv'
    BY <1>1, <1>2, <1>5, <2>1, <2>2 DEF StageInv, WindowOpen
  <2>4. ClockInv'
    BY <1>4, <1>5, <2>1 DEF IInv, ClockInv, Start, Stages
  <2>5. OutcomeInv'
    <3>1. outcome' = Absent
      BY <1>5, <2>1 DEF IInv, OutcomeInv, Start
    <3>2. Absent # "ok"
      BY FetchAssumption DEF Outcomes
    <3> QED
      BY <2>1, <3>1, <3>2 DEF OutcomeInv, ReturnedWhole
  <2> QED
    BY <1>3, <2>3, <2>4, <2>5 DEF IInv
<1>6. CASE /\ ~WindowOpen(next_to_request', in_flight')
           /\ ReceiveLoop(received, pieces, IF stage = "request" THEN 0 ELSE elapsed)
  <2> DEFINE spent == IF stage = "request" THEN 0 ELSE elapsed
  <2>1. spent \in Nat
    BY DEF IInv, ClockInv
  <2>2. ReceiveLoop(received', pieces', spent)
    BY <1>2, <1>6
  <2> HIDE DEF spent
  <2>3. StageInv' /\ ClockInv' /\ OutcomeInv'
    BY <1>1, <1>2, <1>3, <1>6, <2>1, <2>2, LoopStep DEF IInv
  <2> QED
    BY <1>3, <2>3 DEF IInv
<1> QED
  BY <1>5, <1>6 DEF RequestWritten

\* The extended handshake: what from_bytes lets through and the size check after
\* it keep the window in range.
LEMMA ExtendedStep ==
    ASSUME IInv, NEW raw \in RawHandshakes, ExtendedHandshake(raw)
    PROVE  IInv'
<1> DEFINE hs == from_bytes(raw)
<1>1. /\ MaxReqq \in Nat \ {0} /\ MaxMetadataSize \in Nat /\ PeerTimeout \in Nat \ {0}
      /\ MaxDeclaredSize \in Nat
  BY FetchAssumption
<1>2. CASE Fail("protocol") \/ Fail("extension_unavailable") \/ Fail("too_large")
  BY <1>2, FailStep DEF Outcomes
<1>3. CASE /\ hs # Absent /\ hs.metadata_size # Absent
           /\ hs.metadata_size <= MaxMetadataSize
           /\ metadata_size' = hs.metadata_size
           /\ max_outstanding' = IF hs.reqq = Absent THEN 1 ELSE hs.reqq
           /\ pieces' = [i \in 0 .. metadata_piece_count(hs.metadata_size) - 1 |-> Absent]
           /\ Start("request", PeerTimeout)
           /\ UNCHANGED <<half, elapsed, received, next_to_request, in_flight, requested>>
  <2> DEFINE s == hs.metadata_size
             r == IF hs.reqq = Absent THEN 1 ELSE hs.reqq
  <2>1. s \in 1 .. MaxMetadataSize /\ r \in 1 .. MaxReqq
    <3>1. /\ raw.metadata_size \in {Absent} \cup 1 .. MaxDeclaredSize
          /\ hs = [raw EXCEPT !.reqq = IF @ \in 1 .. MaxReqq THEN @ ELSE Absent]
      BY <1>3, Zenon DEF from_bytes
    <3>2. hs.metadata_size = raw.metadata_size
          /\ hs.reqq = IF raw.reqq \in 1 .. MaxReqq THEN raw.reqq ELSE Absent
      BY <3>1 DEF RawHandshakes
    <3> HIDE DEF hs
    <3> QED
      BY <1>1, <1>3, <3>1, <3>2
  <2>2. stage = "extension_read" /\ received = 0 /\ next_to_request = 0 /\ in_flight = 0 /\ requested = {}
    BY DEF ExtendedHandshake, AtBody, IInv, StageInv
  <2>3. /\ metadata_size' = s /\ max_outstanding' = r
        /\ pieces' = [i \in 0 .. metadata_piece_count(s) - 1 |-> Absent]
        /\ UNCHANGED <<received, next_to_request, in_flight, requested>>
        /\ Start("request", PeerTimeout) /\ UNCHANGED <<half, elapsed>>
    BY <1>3
  <2> HIDE DEF s, r
  <2>4. WindowInv'
    BY <2>1, <2>2, <2>3, WindowSetUp DEF IInv
  <2>5. TotalPieces' = metadata_piece_count(s) /\ metadata_piece_count(s) > 0
    BY <1>1, <2>1, <2>3, PieceFacts DEF TotalPieces
  <2>6. StageInv'
    BY <1>1, <2>1, <2>2, <2>3, <2>5 DEF StageInv, Start, WindowOpen
  <2>7. ClockInv'
    BY <1>1, <2>3 DEF IInv, ClockInv, Start, Stages
  <2>8. OutcomeInv'
    <3>1. outcome' = Absent
      BY <2>2, <2>3 DEF IInv, OutcomeInv, Start
    <3>2. Absent # "ok"
      BY FetchAssumption DEF Outcomes
    <3> QED
      BY <2>3, <3>1, <3>2 DEF OutcomeInv, ReturnedWhole, Start
  <2> QED
    BY <2>4, <2>6, <2>7, <2>8 DEF IInv
<1> QED
  BY <1>2, <1>3, Zenon DEF ExtendedHandshake

\* A piece.
LEMMA PieceStep ==
    ASSUME IInv, NEW i \in 0 .. TotalPieces, NEW size, NEW len, PieceFrame(i, size, len)
    PROVE  IInv'
<1>1. CASE Fail("protocol")
  BY <1>1, FailStep DEF Outcomes
<1>2. CASE /\ ValidPiece(i, size, len)
           /\ requested' = requested \ {i}
           /\ in_flight' = IF i \in requested THEN in_flight - 1 ELSE in_flight
           /\ pieces' = [pieces EXCEPT ![i] = IF @ = Absent THEN len ELSE @]
           /\ received' = IF pieces[i] = Absent THEN received + 1 ELSE received
           /\ Refill(in_flight', received', pieces')
           /\ UNCHANGED <<metadata_size, max_outstanding, next_to_request>>
  <2>1. stage = "receive" /\ metadata_size > 0
    BY DEF PieceFrame, AtBody, IInv, StageInv
  <2>2. TotalPieces \in Nat
    BY CountsWhole DEF IInv
  <2>3. i \in Indices /\ len = metadata_piece_len(metadata_size, i)
    BY <1>2, <2>2 DEF ValidPiece, Indices
  <2>4. WindowInv'
    BY <1>2, <2>1, <2>3, WindowPiece DEF IInv
  <2>5. in_flight' \in {in_flight, in_flight - 1}
    BY <1>2
  <2>6. StageInv' /\ ClockInv' /\ OutcomeInv'
    BY <1>2, <2>1, <2>4, <2>5, RefillStep
  <2> QED
    BY <2>4, <2>6 DEF IInv
<1> QED
  BY <1>1, <1>2 DEF PieceFrame

LEMMA StutterStep ==
    ASSUME IInv, UNCHANGED vars
    PROVE  IInv'
<1>1. UNCHANGED window /\ UNCHANGED io
  BY DEF vars
<1>2. WindowInv'
  BY <1>1, WindowQuiet DEF IInv
<1>3. StageInv'
  BY <1>1 DEF IInv, StageInv, WindowOpen, TotalPieces, window, io
<1>4. ClockInv'
  BY <1>1 DEF IInv, ClockInv, io
<1>5. OutcomeInv'
  BY <1>1 DEF IInv, OutcomeInv, ReturnedWhole, Held, Indices, TotalPieces, window, io
<1> QED
  BY <1>2, <1>3, <1>4, <1>5 DEF IInv

------------------------------------------------------------------------------
(***************************************************************************)
(* The receive loop's count and the assembly agree.                        *)
(***************************************************************************)
\* The loop reads on only while a piece is missing, so that an attempt that ends
\* with every piece counted ended well, or in writing a request.
CountInv ==
    /\ stage = "receive" => received < TotalPieces
    /\ stage = "done" /\ metadata_size > 0 /\ received = TotalPieces
         => outcome \in {"ok", "io", "timeout"}

\* The assembly with the size as a parameter.
AssembledOf(ps, size) ==
    IF \E i \in DOMAIN ps : ps[i] = Absent
       THEN "protocol"
       ELSE LET len == FoldFunction(+, 0, ps)
            IN  IF len = 0 \/ len # size THEN "protocol" ELSE "ok"

\* Pieces that are all held are assembled: the check of the total length after the
\* loop never refuses what the loop counted.
LEMMA AssemblyAccepts ==
    WindowInv /\ metadata_size > 0 /\ received >= TotalPieces => AssembledOf(pieces, metadata_size) = "ok"
<1> SUFFICES ASSUME WindowInv, metadata_size > 0, received >= TotalPieces
             PROVE  AssembledOf(pieces, metadata_size) = "ok"
  OBVIOUS
<1>1. metadata_size \in Nat /\ DOMAIN pieces = Indices
  BY FetchAssumption DEF WindowInv, WindowTypes
<1>2. Held = Indices
  <2>1. TotalPieces \in Nat /\ received \in 0 .. TotalPieces
    BY IndicesFinite DEF WindowInv, WindowTypes
  <2>2. received = TotalPieces
    BY <2>1
  <2>3. Cardinality(Held) = TotalPieces
    BY <2>2 DEF WindowInv, PiecesInv
  <2>4. Held \subseteq Indices
    BY DEF Held
  <2> QED
    BY <2>3, <2>4, IndicesFinite DEF WindowInv
<1>3. \A i \in Indices : pieces[i] # Absent /\ pieces[i] = metadata_piece_len(metadata_size, i)
  <2>1. \A i \in Held : pieces[i] # Absent /\ pieces[i] = metadata_piece_len(metadata_size, i)
    BY DEF Held, WindowInv, PiecesInv
  <2> QED
    BY <1>2, <2>1
<1>4. FoldFunction(+, 0, pieces) = metadata_size
  <2>1. PICK n : n = metadata_piece_count(metadata_size)
    OBVIOUS
  <2>2. Indices = 0 .. n - 1
    BY <2>1 DEF Indices, TotalPieces
  <2> QED
    BY <1>1, <1>3, <2>1, <2>2, WholeSum
<1>5. ~\E i \in DOMAIN pieces : pieces[i] = Absent
  BY <1>1, <1>3
<1>6. ~(metadata_size = 0 \/ metadata_size # metadata_size)
  BY <1>1
<1> QED
  BY <1>4, <1>5, <1>6, Zenon DEF AssembledOf

LEMMA AssemblyAcceptsNext ==
    ASSUME WindowInv', metadata_size > 0, UNCHANGED metadata_size, received' >= TotalPieces'
    PROVE  assembled(pieces') = "ok"
<1>1. (WindowInv /\ metadata_size > 0 /\ received >= TotalPieces => AssembledOf(pieces, metadata_size) = "ok")'
  BY AssemblyAccepts, PTL
<1>2. AssembledOf(pieces', metadata_size') = "ok"
  BY <1>1
<1>3. assembled(pieces') = AssembledOf(pieces', metadata_size)
  BY DEF assembled, AssembledOf
<1>4. AssembledOf(pieces', metadata_size') = AssembledOf(pieces', metadata_size)
  OBVIOUS
<1> QED
  BY <1>2, <1>3, <1>4

\* The top of the loop.
LEMMA CountLoop ==
    ASSUME WindowInv', metadata_size > 0, UNCHANGED metadata_size,
           NEW spent, ReceiveLoop(received', pieces', spent)
    PROVE  CountInv'
<1>1. TotalPieces' = TotalPieces
  BY DEF TotalPieces
<1>2. CASE received' >= TotalPieces /\ Finish(assembled(pieces'))
  <2>1. assembled(pieces') = "ok"
    BY <1>1, <1>2, AssemblyAcceptsNext
  <2>2. stage' = "done" /\ outcome' = "ok"
    BY <1>2, <2>1 DEF Finish
  <2> QED
    BY <2>2 DEF CountInv
<1>3. CASE Finish("timeout")
  BY <1>3 DEF Finish, CountInv
<1>4. CASE received' < TotalPieces /\ Start("receive", Deadline - spent)
  BY <1>1, <1>4 DEF Start, CountInv
<1> QED
  BY <1>2, <1>3, <1>4 DEF ReceiveLoop, NextRead

\* The end of an iteration.
LEMMA CountRefill ==
    ASSUME WindowInv', metadata_size > 0, UNCHANGED metadata_size,
           Refill(in_flight', received', pieces')
    PROVE  CountInv'
<1>1. CASE Start("refill", PeerTimeout)
  BY <1>1 DEF Start, CountInv
<1>2. CASE ReceiveLoop(received', pieces', elapsed)
  BY <1>2, CountLoop
<1> QED
  BY <1>1, <1>2 DEF Refill

\* A failure while a piece is missing, before there is a window, or of the
\* connection.
LEMMA CountFail ==
    ASSUME IInv, CountInv, NEW why, Fail(why),
           \/ why \in {"io", "timeout"}
           \/ stage \notin {"request", "refill", "done"}
    PROVE  CountInv'
<1>1. stage' = "done" /\ outcome' = why /\ UNCHANGED <<metadata_size, received>>
  BY DEF Fail, Finish, window
<1>2. TotalPieces' = TotalPieces
  BY <1>1 DEF TotalPieces
<1>3. CASE why \in {"io", "timeout"}
  BY <1>1, <1>3 DEF CountInv
<1>4. CASE stage = "receive"
  <2>1. received < TotalPieces /\ received \in Int /\ TotalPieces \in Int
    BY <1>4, CountsWhole DEF CountInv, IInv, WindowInv, WindowTypes
  <2>2. received' # TotalPieces'
    BY <1>1, <1>2, <2>1
  <2> QED
    BY <1>1, <2>2 DEF CountInv
<1>5. CASE stage \notin {"request", "refill", "done", "receive"}
  <2>1. ~(metadata_size' > 0)
    BY <1>1, <1>5 DEF IInv, StageInv
  <2> QED
    BY <1>1, <2>1 DEF CountInv
<1> QED
  BY <1>3, <1>4, <1>5

\* The count and the assembly agree after every step.
LEMMA CountStep ==
    ASSUME IInv, IInv', CountInv, [Next]_vars
    PROVE  CountInv'
<1>0. WindowInv' /\ (stage \in {"request", "receive", "refill"} => metadata_size > 0)
  BY DEF IInv, StageInv
<1>1. CASE Tick \/ FrameStarts \/ UNCHANGED vars
  <2>1. UNCHANGED <<stage, outcome, metadata_size, received>>
    BY <1>1 DEF Tick, FrameStarts, vars, io, window
  <2>2. TotalPieces' = TotalPieces
    BY <2>1 DEF TotalPieces
  <2> QED
    BY <2>1, <2>2 DEF CountInv
<1>2. CASE TimedOut \/ IoError
  BY <1>2, CountFail DEF TimedOut, IoError
<1>3. CASE FrameTooLarge \/ RejectFrame \/ BadFrame
  <2>1. stage \in {"extension_read", "receive"}
    BY <1>3 DEF FrameTooLarge, RejectFrame, BadFrame, AtHeader, AtBody
  <2>2. PICK why : Fail(why)
    BY <1>3 DEF FrameTooLarge, RejectFrame, BadFrame
  <2> QED
    BY <2>1, <2>2, CountFail
<1>4. CASE Connected \/ HandshakeWritten
  BY <1>4 DEF Connected, HandshakeWritten, Start, CountInv
<1>5. CASE \E reply \in HandshakeReplies : HandshakeReply(reply)
  <2>1. stage = "handshake_read"
    BY <1>5 DEF HandshakeReply
  <2>2. CASE \E why : Fail(why)
    BY <2>1, <2>2, CountFail
  <2>3. CASE Start("extension_write", PeerTimeout)
    BY <2>3 DEF Start, CountInv
  <2> QED
    BY <1>5, <2>2, <2>3 DEF HandshakeReply
<1>6. CASE ExtensionWritten
  <2>1. stage = "extension_write" /\ UNCHANGED window
    BY <1>6 DEF ExtensionWritten
  <2>2. CASE Finish("timeout")
    BY <2>1, <2>2, CountFail DEF Fail
  <2>3. CASE stage' = "extension_read"
    BY <2>3 DEF CountInv
  <2> QED
    BY <1>6, <2>2, <2>3 DEF ExtensionWritten, NextRead, Start
<1>7. CASE Ignored
  <2>1. UNCHANGED window
    BY <1>7 DEF Ignored
  <2>2. CASE stage = "extension_read" /\ NextRead(stage, PeerTimeout, elapsed)
    <3>1. CASE Finish("timeout")
      BY <2>1, <2>2, <3>1, CountFail DEF Fail
    <3>2. CASE stage' = "extension_read"
      BY <3>2 DEF CountInv
    <3> QED
      BY <2>2, <3>1, <3>2 DEF NextRead, Start
  <2>3. CASE stage = "receive" /\ Refill(in_flight, received, pieces)
    <3>1. /\ UNCHANGED metadata_size
          /\ in_flight' = in_flight /\ received' = received /\ pieces' = pieces
      BY <2>1 DEF window
    <3>2. Refill(in_flight', received', pieces')
      BY <2>3, <3>1
    <3> QED
      BY <1>0, <2>3, <3>1, <3>2, CountRefill
  <2> QED
    BY <1>7, <2>2, <2>3 DEF Ignored
<1>8. CASE RequestWritten
  <2>1. stage \in {"request", "refill"} /\ UNCHANGED <<metadata_size, pieces, received>>
    BY <1>8 DEF RequestWritten
  <2>2. CASE Start(stage, PeerTimeout)
    BY <2>1, <2>2 DEF Start, CountInv
  <2>3. CASE ReceiveLoop(received, pieces, IF stage = "request" THEN 0 ELSE elapsed)
    <3>1. PICK spent : ReceiveLoop(received', pieces', spent)
      BY <2>1, <2>3
    <3> QED
      BY <1>0, <2>1, <3>1, CountLoop
  <2> QED
    BY <1>8, <2>2, <2>3 DEF RequestWritten
<1>9. CASE \E raw \in RawHandshakes : ExtendedHandshake(raw)
  <2>1. stage = "extension_read"
    BY <1>9 DEF ExtendedHandshake, AtBody
  <2>2. CASE \E why : Fail(why)
    BY <2>1, <2>2, CountFail
  <2>3. CASE Start("request", PeerTimeout)
    BY <2>3 DEF Start, CountInv
  <2> QED
    BY <1>9, <2>2, <2>3, Zenon DEF ExtendedHandshake
<1>10. CASE \E i \in 0 .. TotalPieces, size \in {metadata_size, metadata_size + 1},
               len \in 0 .. Block + 1 : PieceFrame(i, size, len)
  <2>1. stage = "receive"
    BY <1>10 DEF PieceFrame, AtBody
  <2>2. CASE Fail("protocol")
    BY <2>1, <2>2, CountFail
  <2>3. CASE UNCHANGED metadata_size /\ Refill(in_flight', received', pieces')
    BY <1>0, <2>1, <2>3, CountRefill
  <2> QED
    BY <1>10, <2>2, <2>3 DEF PieceFrame
<1> QED
  BY <1>1, <1>2, <1>3, <1>4, <1>5, <1>6, <1>7, <1>8, <1>9, <1>10 DEF Next

------------------------------------------------------------------------------
(***************************************************************************)
(* The theorems.                                                           *)
(***************************************************************************)
\* The invariant holds in every state of every attempt, whatever the peer sends
\* and whenever it sends it.
THEOREM Invariance == Spec => []IInv
<1>1. Init => IInv
  BY InitInv
<1>2. IInv /\ [Next]_vars => IInv'
  <2> SUFFICES ASSUME IInv, [Next]_vars PROVE IInv'
    OBVIOUS
  <2>1. CASE Tick \/ FrameStarts
    BY <2>1, ClockStep
  <2>2. CASE TimedOut \/ IoError \/ FrameTooLarge \/ RejectFrame
    BY <2>2, ErrorStep
  <2>3. CASE BadFrame
    BY <2>3, BadFrameStep
  <2>4. CASE Connected \/ HandshakeWritten \/ ExtensionWritten
               \/ \E reply \in HandshakeReplies : HandshakeReply(reply)
    BY <2>4, HandshakeStep
  <2>5. CASE Ignored
    BY <2>5, IgnoredStep
  <2>6. CASE RequestWritten
    BY <2>6, RequestStep
  <2>7. CASE \E raw \in RawHandshakes : ExtendedHandshake(raw)
    BY <2>7, ExtendedStep
  <2>8. CASE \E i \in 0 .. TotalPieces, size \in {metadata_size, metadata_size + 1},
                len \in 0 .. Block + 1 : PieceFrame(i, size, len)
    BY <2>8, PieceStep
  <2>9. CASE UNCHANGED vars
    BY <2>9, StutterStep
  <2> QED
    BY <2>1, <2>2, <2>3, <2>4, <2>5, <2>6, <2>7, <2>8, <2>9 DEF Next
<1> QED
  BY <1>1, <1>2, PTL DEF Spec

\* Every variable of fetch_from_stream_with_limit keeps its type: no counter
\* leaves the range of its Rust type, and no piece index or length its bounds.
THEOREM TypeCorrect == Spec => []TypeOK
<1>1. IInv => TypeOK
  BY DEF IInv, WindowInv, WindowTypes, ClockInv, OutcomeInv, TypeOK
<1> QED
  BY <1>1, Invariance, PTL

\* The request window is accounted for: in_flight counts the requests
\* outstanding and stays within the peer's reqq, no piece is lost, and the loop
\* never waits for a peer that owes nothing.
THEOREM WindowAlwaysSound == Spec => []WindowSound
<1>1. IInv => WindowSound
  BY DEF IInv, WindowInv, RequestsInv, StageInv, WindowSound
<1> QED
  BY <1>1, Invariance, PTL

\* However slowly the peer sends, the receive loop's clock never shows more than
\* twice the deadline and one write.
THEOREM ReceiveAlwaysBounded == Spec => []ReceiveBounded
<1>1. IInv => ReceiveBounded
  <2> SUFFICES ASSUME IInv PROVE ReceiveBounded
    OBVIOUS
  <2>1. PeerTimeout \in Nat
    BY FetchAssumption
  <2> QED
    BY <2>1 DEF IInv, ClockInv, ReceiveBounded, Deadline
<1> QED
  BY <1>1, Invariance, PTL

\* The receive loop's own count decides the outcome: what an attempt returns has
\* every piece, each counted once, and as many bytes as the peer announced; and
\* when every piece was counted the assembly returns them, unless the connection
\* failed under a last needless request.
THEOREM AcceptedExactlyDelivered == Spec => []AcceptedIffDelivered
<1>1. Init => CountInv
  BY DEF Init, CountInv
<1>2. IInv /\ IInv' /\ CountInv /\ [Next]_vars => CountInv'
  BY CountStep
<1>3. IInv /\ CountInv => AcceptedIffDelivered
  BY DEF IInv, OutcomeInv, ReturnedWhole, Bytes, CountInv, AcceptedIffDelivered
<1> QED
  BY <1>1, <1>2, <1>3, Invariance, PTL DEF Spec
==============================================================================
