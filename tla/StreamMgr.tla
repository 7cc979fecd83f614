------------------------------ MODULE StreamMgr ------------------------------
(***************************************************************************)
(* The server's per-camera worker, stream_mgr() in                         *)
(* src/stream_server/src/stream_mgr.c: set-up (buffer, core pinning,       *)
(* timestamp queue, decoder, listening socket, accept), the receive loop   *)
(* over {timestamp, frame_size, frame_bytes} packets and the EOSTREAM      *)
(* sentinel, the decoder's receive side, and the cleanup path.             *)
(*                                                                         *)
(* The camera's byte stream is one of the constant Streams: packets       *)
(* [ts, size] and the sentinel EOS.  Integers travel as bytes: the server  *)
(* copies them into host integers (a little-endian host) without          *)
(* converting, so a big-endian sender's value arrives byte-swapped.        *)
(* Integers are 16 bits wide here instead of 64 and 32, which keeps the    *)
(* byte-swap behaviour.                                                    *)
(*                                                                         *)
(* The decoder (viddec, outside src/) is in-order: recv_frame returns the  *)
(* frames of the packets fed to it in order, withholding at most Latency   *)
(* of them until flush_decoder; with DropFrames it may also discard a      *)
(* packet without producing a frame (the spec allows zero outputs).        *)
(***************************************************************************)
EXTENDS Integers, Sequences

CONSTANTS
    Streams,        \* what the camera may send on the connection
    EOS,            \* the 8 bytes "EOSTREAM" in the timestamp slot
    BufSize,        \* ENCODED_FRAME_BUF_SIZE
    Latency,        \* frames the decoder may withhold before a flush
    WireBigEndian,  \* the sender writes integers in network byte order
    DropFrames      \* the decoder may discard a packet

Word == 0 .. 65535
Packet == [ts : Word, size : Word]

ASSUME StreamAssumption == Streams \subseteq Seq(Packet \cup {EOS})
ASSUME BufSizeAssumption == BufSize \in Word
ASSUME LatencyAssumption == Latency \in Nat
ASSUME FlagsAssumption == WireBigEndian \in BOOLEAN /\ DropFrames \in BOOLEAN

(* Reading a sent integer into a host integer with no ntoh conversion.     *)
ByteSwap(x) == (x % 256) * 256 + x \div 256
AsRead(x) == IF WireBigEndian THEN ByteSwap(x) ELSE x

SetupSteps == <<"buf", "pin", "queue", "decoder", "stream", "accept">>
(* What each set-up step creates that cleanup releases.                    *)
Creates == [buf |-> {"buf"}, pin |-> {}, queue |-> {"queue"},
            decoder |-> {"decoder"}, stream |-> {"sockfd"},
            accept |-> {"clientfd"}]
Resources == {"buf", "queue", "decoder", "sockfd", "clientfd"}

VARIABLES
    wire,       \* the bytes the camera sends (fixed for a behaviour)
    pc,         \* where the worker is
    step,       \* next set-up step (index into SetupSteps)
    created,    \* resources set up so far
    released,   \* resources cleanup has released
    incoming,   \* incoming_stream
    next,       \* index in wire of the next packet to read
    closed,     \* the camera closed the connection
    tsQueue,    \* timestamp_queue, as read
    curTs,      \* the timestamp of the packet being read, as read
    dec,        \* timestamps of the packets inside the decoder, in order
    flushed,    \* flush_decoder has been called
    pairs,      \* <<decoded frame's packet timestamp, dequeued timestamp>>
    endedBy     \* why the loop ended

vars == <<wire, pc, step, created, released, incoming, next, closed, tsQueue,
          curTs, dec, flushed, pairs, endedBy>>

Pcs == {"setup", "ts", "size", "frame", "recv", "cleanup", "done"}
Ends == {"none", "setup", "short", "toolarge", "nomem", "decode", "enodata",
         "recverr"}

TypeOK ==
    /\ wire \in Streams
    /\ pc \in Pcs
    /\ step \in 1 .. Len(SetupSteps) + 1
    /\ created \subseteq Resources
    /\ released \subseteq Resources
    /\ incoming \in BOOLEAN
    /\ next \in 1 .. Len(wire) + 1
    /\ closed \in BOOLEAN
    /\ tsQueue \in Seq(Word)
    /\ curTs \in Word
    /\ dec \in Seq(Word)
    /\ flushed \in BOOLEAN
    /\ pairs \in Seq(Word \X Word)
    /\ endedBy \in Ends

-----------------------------------------------------------------------------
(* Leave the loop (break or goto cleanup).                                 *)
Break(why) == pc' = "cleanup" /\ endedBy' = why

(* recv_from_stream returns fewer bytes than asked once the peer is gone.  *)
ShortRead == closed \/ next > Len(wire)

(* The set-up steps of stream_mgr, in order; any may fail (allocation,     *)
(* sched_setaffinity, init_queue, init_decoder, setup_stream, accept_conn) *)
(* and jumps to cleanup.                                                   *)
Setup ==
    /\ pc = "setup"
    /\ LET s == SetupSteps[step] IN
         \/ /\ created' = created \cup Creates[s]
            /\ step' = step + 1
            /\ pc' = IF step = Len(SetupSteps) THEN "ts" ELSE "setup"
            /\ UNCHANGED endedBy
         \/ /\ Break("setup")
            /\ UNCHANGED <<step, created>>
    /\ UNCHANGED <<wire, released, incoming, next, closed, tsQueue, curTs,
                   dec, flushed, pairs>>

(* Read the 8-byte timestamp.  The sentinel ends the input and flushes the *)
(* decoder; any other value is enqueued (enqueue may fail to grow).        *)
RecvTs ==
    /\ pc = "ts"
    /\ IF ShortRead
       THEN Break("short") /\ UNCHANGED <<incoming, next, tsQueue, curTs, flushed>>
       ELSE IF wire[next] = EOS
       THEN /\ incoming' = FALSE
            /\ flushed' = TRUE
            /\ next' = next + 1
            /\ pc' = "recv"
            /\ UNCHANGED <<tsQueue, curTs, endedBy>>
       ELSE \/ /\ tsQueue' = Append(tsQueue, AsRead(wire[next].ts))
               /\ curTs' = AsRead(wire[next].ts)
               /\ pc' = "size"
               /\ UNCHANGED <<incoming, next, flushed, endedBy>>
            \/ /\ Break("nomem")
               /\ UNCHANGED <<incoming, next, tsQueue, curTs, flushed>>
    /\ UNCHANGED <<wire, step, created, released, closed, dec, pairs>>

(* Read frame_size and reject one larger than the frame buffer.            *)
RecvSize ==
    /\ pc = "size"
    /\ IF ShortRead
       THEN Break("short")
       ELSE IF AsRead(wire[next].size) > BufSize
       THEN Break("toolarge")
       ELSE pc' = "frame" /\ UNCHANGED endedBy
    /\ UNCHANGED <<wire, step, created, released, incoming, next, closed, tsQueue,
                   curTs, dec, flushed, pairs>>

(* decode_packet keeps the packet for a later frame, or with DropFrames    *)
(* may discard it.                                                         *)
DecoderTakes(t) == IF DropFrames THEN {<<t>>, <<>>} ELSE {<<t>>}

(* Read frame_size bytes into enc_frame_buf and feed them to the decoder.  *)
RecvFrame ==
    /\ pc = "frame"
    /\ IF ShortRead
       THEN Break("short") /\ UNCHANGED <<next, dec>>
       ELSE /\ next' = next + 1
            /\ \/ /\ \E out \in DecoderTakes(curTs) : dec' = dec \o out
                  /\ pc' = "recv"
                  /\ UNCHANGED endedBy
               \/ Break("decode") /\ UNCHANGED dec
    /\ UNCHANGED <<wire, step, created, released, incoming, closed, tsQueue, curTs,
                   flushed, pairs>>

(* recv_frame: a frame pairs with the dequeued timestamp (dequeue on an    *)
(* empty queue leaves ts = 0); EAGAIN goes back to the top of the loop;    *)
(* ENODATA after the flush ends the loop, as does any other error.         *)
Loop == IF incoming THEN "ts" ELSE "recv"

(* Variant pairing a frame with the timestamp of the packet just read.     *)
PairedTsLatest == curTs

PairedTs == IF tsQueue = <<>> THEN 0 ELSE Head(tsQueue)

RecvFrameDecoded ==
    /\ pc = "recv"
    /\ \/ /\ dec # <<>>
          /\ pairs' = Append(pairs, <<Head(dec), PairedTs>>)
          /\ dec' = Tail(dec)
          /\ tsQueue' = IF tsQueue = <<>> THEN tsQueue ELSE Tail(tsQueue)
          /\ pc' = Loop
          /\ UNCHANGED endedBy
       \/ /\ ~flushed /\ Len(dec) <= Latency
          /\ pc' = Loop
          /\ UNCHANGED <<pairs, dec, tsQueue, endedBy>>
       \/ /\ flushed /\ dec = <<>>
          /\ Break("enodata")
          /\ UNCHANGED <<pairs, dec, tsQueue>>
       \/ /\ Break("recverr")
          /\ UNCHANGED <<pairs, dec, tsQueue>>
    /\ UNCHANGED <<wire, step, created, released, incoming, next, closed, curTs,
                   flushed>>

(* cleanup: free the buffer if it was allocated, then cleanup_decoder and  *)
(* cleanup_queue unconditionally, whether or not init_decoder/init_queue   *)
(* ran, then close sockfd and clientfd if >= 0.  A goto from before their  *)
(* declarations leaves sockfd and clientfd uninitialised: their value may  *)
(* be >= 0, so close may be called on them although never created.        *)
Cleanup ==
    /\ pc = "cleanup"
    /\ \E junk \in SUBSET ({"sockfd", "clientfd"} \ created) :
          released' = created \cup {"queue", "decoder"} \cup junk
    /\ pc' = "done"
    /\ UNCHANGED <<wire, step, created, incoming, next, closed, tsQueue, curTs,
                   dec, flushed, pairs, endedBy>>

(* The camera end closes the connection at any time.                       *)
PeerClose ==
    /\ ~closed /\ pc \notin {"cleanup", "done"}
    /\ closed' = TRUE
    /\ UNCHANGED <<wire, pc, step, created, released, incoming, next, tsQueue, curTs,
                   dec, flushed, pairs, endedBy>>

Init ==
    /\ wire \in Streams
    /\ pc = "setup"
    /\ step = 1
    /\ created = {}
    /\ released = {}
    /\ incoming = TRUE
    /\ next = 1
    /\ closed = FALSE
    /\ tsQueue = <<>>
    /\ curTs = 0
    /\ dec = <<>>
    /\ flushed = FALSE
    /\ pairs = <<>>
    /\ endedBy = "none"

Worker == Setup \/ RecvTs \/ RecvSize \/ RecvFrame \/ RecvFrameDecoded \/ Cleanup

Next == Worker \/ PeerClose

Spec == Init /\ [][Next]_vars

-----------------------------------------------------------------------------
(* PROPERTIES                                                              *)

(* Spec 4.6 and 8: each frame the decoder emits is paired with the         *)
(* timestamp of the packet it was decoded from, although the decoder       *)
(* withholds frames and recv_frame is called once per packet; when the     *)
(* stream ends with ENODATA every enqueued timestamp has been dequeued.    *)
TimestampsMatchFrames ==
    /\ \A i \in 1 .. Len(pairs) : pairs[i][1] = pairs[i][2]
    /\ endedBy = "enodata" => tsQueue = <<>>

(* A packet whose frame fits ENCODED_FRAME_BUF_SIZE is never refused as    *)
(* too large.                                                              *)
ValidPacketsAccepted ==
    endedBy = "toolarge" => wire[next].size > BufSize

(* cleanup releases only what set-up created.                              *)
CleanupReleasesOnlyCreated == released \subseteq created
=============================================================================
