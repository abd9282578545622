----------------------------- MODULE PeerFetch -----------------------------
(***************************************************************************)
(* One attempt to fetch a torrent's metadata from one peer                 *)
(* (fetch_with_connection and fetch_from_stream_with_limit, metadata.rs):  *)
(* TCP connect, BitTorrent handshake, extended handshake, then a window of *)
(* ut_metadata requests whose answers are collected until every piece is   *)
(* held, an error ends the attempt, or a timeout fires.                    *)
(*                                                                         *)
(* The peer is the environment: it may answer in any order, repeat a       *)
(* piece, send a piece nobody asked for, send other messages, stall, or    *)
(* close the connection.  A piece's bytes are abstracted to their number.  *)
(* Time is discrete; `waited` is what the pending read or write has taken  *)
(* out of the `budget` that tokio's timeout() gave it, `elapsed` is        *)
(* start.elapsed() of the two loops that read frames.                      *)
(***************************************************************************)
EXTENDS Integers, FiniteSets, Functions

CONSTANTS
    Block,            \* 16384, bytes per metadata piece
    MaxMetadataSize,  \* metadata.max_metadata_size
    MaxDeclaredSize,  \* 64 MiB, the largest metadata_size the parser lets in
    MaxId,            \* 255, the largest extension message id
    MaxReqq,          \* 64
    ConnectTimeout,   \* metadata.connect_timeout_secs
    PeerTimeout,      \* metadata.peer_timeout_secs
    Absent            \* a field that is not there; a piece not yet held

(* The Result of an attempt, by kind of error. *)
Outcomes == {"ok", "timeout", "io", "invalid_handshake",
             "extension_unavailable", "too_large", "rejected", "protocol"}

ASSUME FetchAssumption ==
    /\ {Block, MaxMetadataSize, MaxDeclaredSize, MaxId, MaxReqq} \subseteq Nat \ {0}
    /\ {ConnectTimeout, PeerTimeout} \subseteq Nat \ {0}
    /\ MaxMetadataSize <= MaxDeclaredSize
    /\ Absent \notin Int /\ Absent \notin Outcomes

VARIABLES
    stage,            \* the IoStage of the pending read or write, or "done"
    half,             \* which part of a frame is being read
    waited, budget,   \* of the pending operation
    elapsed,          \* start.elapsed() of the running frame loop
    outcome,          \* the Result of the attempt
    metadata_size, max_outstanding, pieces, received,
    next_to_request, in_flight, requested

io == <<stage, half, waited, budget, elapsed, outcome>>
window == <<metadata_size, max_outstanding, pieces, received,
            next_to_request, in_flight, requested>>
vars == <<io, window>>

Stages == {"connect", "handshake_write", "handshake_read", "extension_write",
           "extension_read", "request", "receive", "refill", "done"}
Deadline == 2 * PeerTimeout

-----------------------------------------------------------------------------
(* Pieces *)

metadata_piece_count(size) == (size + Block - 1) \div Block

metadata_piece_len(size, i) ==
    IF i + 1 = metadata_piece_count(size) THEN size - i * Block ELSE Block

TotalPieces == metadata_piece_count(metadata_size)
Indices == 0 .. TotalPieces - 1
Held == {i \in Indices : pieces[i] # Absent}

(* What the assembly after the loop returns for the pieces collected. *)
assembled(ps) ==
    IF \E i \in DOMAIN ps : ps[i] = Absent
       THEN "protocol"
       ELSE LET len == FoldFunction(+, 0, ps)
            IN  IF len = 0 \/ len # metadata_size THEN "protocol" ELSE "ok"

WindowOpen_past_end(next, flying) == next <= TotalPieces /\ flying < max_outstanding
WindowOpen(next, flying) == next < TotalPieces /\ flying < max_outstanding

-----------------------------------------------------------------------------
(* Reads and writes.  Each operator gives io its next value. *)

Start(s, limit) ==
    /\ stage' = s /\ waited' = 0 /\ budget' = limit
    /\ UNCHANGED outcome

Finish(why) ==
    /\ stage' = "done" /\ outcome' = why /\ waited' = 0 /\ budget' = 0
    /\ UNCHANGED <<half, elapsed>>

Fail(why) == Finish(why) /\ UNCHANGED window

NextRead_full_budget(s, limit, spent) ==
    \/ spent >= limit /\ Finish("timeout")
    \/ /\ spent < limit
       /\ Start(s, limit)
       /\ half' = "header" /\ elapsed' = spent

NextRead_restarts_clock(s, limit, spent) ==
    \/ spent >= limit /\ Finish("timeout")
    \/ /\ spent < limit
       /\ Start(s, limit)
       /\ half' = "header" /\ elapsed' = 0

(* The top of a frame loop: give up at its limit, else read a header with  *)
(* what remains of it.                                                     *)
NextRead(s, limit, spent) ==
    \/ spent >= limit /\ Finish("timeout")
    \/ /\ spent < limit
       /\ Start(s, limit - spent)
       /\ half' = "header" /\ elapsed' = spent

ReceiveLoop(got, ps, spent) ==
    \/ got >= TotalPieces /\ Finish(assembled(ps))
    \/ got < TotalPieces /\ NextRead("receive", Deadline, spent)

(* The end of an iteration: top the window up, then loop. *)
Refill(flying, got, ps) ==
    \/ /\ WindowOpen(next_to_request, flying)
       /\ Start("refill", PeerTimeout)
       /\ UNCHANGED <<half, elapsed>>
    \/ /\ ~WindowOpen(next_to_request, flying)
       /\ ReceiveLoop(got, ps, elapsed)

-----------------------------------------------------------------------------
Init ==
    /\ stage = "connect" /\ half = "header"
    /\ waited = 0 /\ budget = ConnectTimeout /\ elapsed = 0
    /\ outcome = Absent
    /\ metadata_size = 0 /\ max_outstanding = 0 /\ pieces = <<>>
    /\ received = 0 /\ next_to_request = 0 /\ in_flight = 0 /\ requested = {}

(* Time passes while an operation is pending; only the frame loops keep a   *)
(* clock of their own.                                                      *)
Tick ==
    /\ stage # "done" /\ waited < budget
    /\ waited' = waited + 1
    /\ elapsed' = IF stage \in {"extension_read", "receive", "refill"}
                     THEN elapsed + 1 ELSE elapsed
    /\ UNCHANGED <<stage, half, budget, outcome, window>>

TimedOut == stage # "done" /\ waited = budget /\ Fail("timeout")

(* The connection is refused, reset or closed by the peer. *)
IoError == stage # "done" /\ Fail("io")

Connected ==
    /\ stage = "connect"
    /\ Start("handshake_write", PeerTimeout)
    /\ UNCHANGED <<half, elapsed, window>>

HandshakeWritten ==
    /\ stage = "handshake_write"
    /\ Start("handshake_read", PeerTimeout)
    /\ UNCHANGED <<half, elapsed, window>>

HandshakeReply(reply) ==
    /\ stage = "handshake_read"
    /\ \/ /\ reply \in {"garbled", "other_hash"}
          /\ Fail("invalid_handshake")
       \/ reply = "no_extensions" /\ Fail("extension_unavailable")
       \/ /\ reply = "good"
          /\ Start("extension_write", PeerTimeout)
          /\ UNCHANGED <<half, elapsed, window>>

ExtensionWritten ==
    /\ stage = "extension_write"
    /\ NextRead("extension_read", PeerTimeout, 0)
    /\ UNCHANGED window

(* read_next_frame: the length prefix is read with the remaining time of    *)
(* the loop, and the body again with that same time.                        *)
AtHeader == stage \in {"extension_read", "receive"} /\ half = "header"
AtBody(s) == stage = s /\ half = "body"

FrameStarts ==
    /\ AtHeader
    /\ half' = "body" /\ waited' = 0
    /\ UNCHANGED <<stage, budget, elapsed, outcome, window>>

FrameTooLarge == AtHeader /\ Fail("protocol")

(* A keep-alive has no body; any other message the loop has no use for ends *)
(* the iteration too.                                                       *)
Ignored ==
    /\ AtHeader \/ AtBody("extension_read") \/ AtBody("receive")
    /\ \/ stage = "extension_read" /\ NextRead(stage, PeerTimeout, elapsed)
       \/ stage = "receive" /\ Refill(in_flight, received, pieces)
    /\ UNCHANGED window

BadFrame ==
    \/ AtBody("extension_read") /\ Fail("protocol")
    \/ AtBody("receive") /\ Fail(assembled(pieces))

(* ExtendedHandshake::from_bytes: an id or a size outside its range makes    *)
(* the whole message invalid, a reqq outside its range is dropped.           *)
from_bytes(raw) ==
    IF \/ raw.ut_metadata \notin {Absent} \cup 0..MaxId
       \/ raw.metadata_size \notin {Absent} \cup 1..MaxDeclaredSize
       THEN Absent
       ELSE [raw EXCEPT !.reqq = IF @ \in 1..MaxReqq THEN @ ELSE Absent]

(* from_bytes leaves no size of zero and no id above MaxId for the checks   *)
(* that follow it in the code.                                              *)
ExtendedHandshake(raw) ==
    /\ AtBody("extension_read")
    /\ LET hs == from_bytes(raw) IN
       \/ hs = Absent /\ Fail("protocol")
       \/ /\ hs # Absent
          /\ hs.ut_metadata \in {Absent, 0} \/ hs.metadata_size = Absent
          /\ Fail("extension_unavailable")
       \/ /\ hs # Absent
          /\ hs.ut_metadata \notin {Absent, 0} /\ hs.metadata_size # Absent
          /\ \/ hs.metadata_size > MaxMetadataSize /\ Fail("too_large")
             \/ /\ hs.metadata_size <= MaxMetadataSize
                /\ metadata_size' = hs.metadata_size
                /\ max_outstanding' = IF hs.reqq = Absent THEN 1 ELSE hs.reqq
                /\ pieces' = [i \in 0 .. metadata_piece_count(hs.metadata_size) - 1
                                 |-> Absent]
                /\ Start("request", PeerTimeout)
                /\ UNCHANGED <<half, elapsed, received, next_to_request,
                               in_flight, requested>>

(* One request has been written, by the loop that fills the window first or *)
(* by the one that tops it up; the receive clock starts after the first.    *)
RequestWritten ==
    /\ stage \in {"request", "refill"}
    /\ requested' = requested \cup {next_to_request}
    /\ next_to_request' = next_to_request + 1
    /\ in_flight' = in_flight + 1
    /\ \/ /\ WindowOpen(next_to_request', in_flight')
          /\ Start(stage, PeerTimeout)
          /\ UNCHANGED <<half, elapsed>>
       \/ /\ ~WindowOpen(next_to_request', in_flight')
          /\ ReceiveLoop(received, pieces, IF stage = "request" THEN 0 ELSE elapsed)
    /\ UNCHANGED <<metadata_size, max_outstanding, pieces, received>>

ValidPiece(i, size, len) ==
    /\ size = metadata_size /\ i < TotalPieces
    /\ len = metadata_piece_len(metadata_size, i)

PieceFrame_always_decrements(i, size, len) ==
    /\ AtBody("receive")
    /\ ValidPiece(i, size, len)
    /\ requested' = requested \ {i}
    /\ in_flight' = in_flight - 1
    /\ pieces' = [pieces EXCEPT ![i] = IF @ = Absent THEN len ELSE @]
    /\ received' = IF pieces[i] = Absent THEN received + 1 ELSE received
    /\ Refill(in_flight', received', pieces')
    /\ UNCHANGED <<metadata_size, max_outstanding, next_to_request>>

PieceFrame_counts_repeats(i, size, len) ==
    /\ AtBody("receive")
    /\ ValidPiece(i, size, len)
    /\ requested' = requested \ {i}
    /\ in_flight' = IF i \in requested THEN in_flight - 1 ELSE in_flight
    /\ pieces' = [pieces EXCEPT ![i] = len]
    /\ received' = received + 1
    /\ Refill(in_flight', received', pieces')
    /\ UNCHANGED <<metadata_size, max_outstanding, next_to_request>>

(* A data message; one that was not asked for is kept like any other. *)
PieceFrame(i, size, len) ==
    /\ AtBody("receive")
    /\ \/ ~ValidPiece(i, size, len) /\ Fail("protocol")
       \/ /\ ValidPiece(i, size, len)
          /\ requested' = requested \ {i}
          /\ in_flight' = IF i \in requested THEN in_flight - 1 ELSE in_flight
          /\ pieces' = [pieces EXCEPT ![i] = IF @ = Absent THEN len ELSE @]
          /\ received' = IF pieces[i] = Absent THEN received + 1 ELSE received
          /\ Refill(in_flight', received', pieces')
          /\ UNCHANGED <<metadata_size, max_outstanding, next_to_request>>

RejectFrame == AtBody("receive") /\ Fail("rejected")

-----------------------------------------------------------------------------
(* What the peer may send: values on both sides of every bound. *)
HandshakeReplies == {"garbled", "other_hash", "no_extensions", "good"}
RawHandshakes ==
    [ut_metadata   : {Absent, 0, 1, MaxId + 1},
     metadata_size : {Absent, MaxDeclaredSize + 1} \cup 0 .. MaxMetadataSize + 1,
     reqq          : {Absent, 0, 1, 2, MaxReqq, MaxReqq + 1}]

Next ==
    \/ Tick \/ TimedOut \/ IoError
    \/ Connected \/ HandshakeWritten \/ ExtensionWritten
    \/ \E reply \in HandshakeReplies : HandshakeReply(reply)
    \/ FrameStarts \/ FrameTooLarge \/ Ignored \/ BadFrame \/ RejectFrame
    \/ \E raw \in RawHandshakes : ExtendedHandshake(raw)
    \/ RequestWritten
    \/ \E i \in 0 .. TotalPieces, size \in {metadata_size, metadata_size + 1},
          len \in 0 .. Block + 1 : PieceFrame(i, size, len)

Spec == Init /\ [][Next]_vars

(* tokio's timer drives both: time does not stand still, and a timeout() is *)
(* polled once it has run out.  Nothing is assumed of the peer.             *)
FairSpec == Spec /\ WF_vars(Tick) /\ WF_vars(TimedOut)

-----------------------------------------------------------------------------
(* Every variable keeps its type: the values the Rust types and the          *)
(* validation of the extended handshake allow.                               *)
TypeOK ==
    /\ stage \in Stages /\ half \in {"header", "body"}
    /\ waited \in 0..budget /\ budget \in Nat /\ elapsed \in Nat
    /\ outcome \in Outcomes \cup {Absent}
    /\ outcome # Absent <=> stage = "done"
    /\ metadata_size \in 0..MaxMetadataSize /\ max_outstanding \in 0..MaxReqq
    /\ DOMAIN pieces = Indices
    /\ \A i \in Indices : pieces[i] \in {Absent} \cup 1..Block
    /\ received \in 0..TotalPieces /\ next_to_request \in 0..TotalPieces
    /\ in_flight \in 0..MaxReqq /\ requested \subseteq Indices

(* in_flight, kept by hand beside the set `requested`, is the number of      *)
(* requests outstanding whatever the peer repeats or volunteers, and it      *)
(* never exceeds the reqq the peer announced (fetch_from_stream_with_limit). *)
(* A piece is asked for once, so it must never be lost: a piece not held is  *)
(* outstanding or still to be requested, and the receive loop never waits    *)
(* for a frame when no answer is outstanding.                                *)
WindowSound ==
    /\ in_flight = Cardinality(requested)
    /\ in_flight <= max_outstanding
    /\ requested \subseteq 0 .. next_to_request - 1
    /\ stage \in {"receive", "refill"} =>
        /\ Indices \ Held \subseteq requested \cup (next_to_request .. TotalPieces - 1)
        /\ stage = "receive" => requested # {}

(* The receive loop's own count decides the outcome and the assembly that    *)
(* follows never overrules it: metadata is returned exactly when every piece *)
(* was counted, unless writing a last needless request failed, and what is   *)
(* returned has the announced size.                                          *)
AcceptedIffDelivered ==
    stage = "done" /\ metadata_size > 0 =>
        /\ outcome = "ok" => /\ received = TotalPieces
                             /\ FoldFunction(+, 0, pieces) = metadata_size
        /\ received = TotalPieces => outcome \in {"ok", "io", "timeout"}

(* How long a peer can hold a worker in the receive loop: a frame begun just *)
(* in time may take its remaining time twice, and one request write follows. *)
ReceiveBounded ==
    stage \in {"receive", "refill"} => elapsed <= 2 * Deadline + PeerTimeout

(* The attempt ends whatever the peer does, one that only sends keep-alives  *)
(* included, so the worker and its permit come back.                         *)
SessionEnds == <>(stage = "done")
=============================================================================
