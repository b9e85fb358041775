--------------------------- MODULE FrameTransport ---------------------------
(***************************************************************************)
(* The way of a screen frame in apps/rustview-desktop/src/network.rs: the  *)
(* capture thread cuts a JPEG into chunks (send_frame), the viewer's       *)
(* receive thread puts it together (FrameAssembler), decodes it into the   *)
(* latest-frame slot (publish_frame), and the interface takes it from      *)
(* there.  The channel keeps messages in order; a host that does not       *)
(* follow send_frame may send any message of the two kinds.                *)
(*                                                                         *)
(* Bytes are counted, and a chunk stands for the piece of a frame with its *)
(* index and length.                                                       *)
(***************************************************************************)
EXTENDS Naturals, Sequences, SequencesExt

CONSTANTS ChunkSize,    \* MAX_JPEG_CHUNK_SIZE
          FrameSize,    \* MAX_JPEG_FRAME_SIZE
          MaxChunks,    \* MAX_JPEG_CHUNKS
          LastFrame,    \* u64::MAX, the last frame id
          Sizes,        \* sizes of captured frames
          Capacity,     \* bound: messages on their way
          MaxForged     \* bound: messages of a host that does not

ASSUME SizesPositive == ChunkSize \in Nat \ {0} /\ FrameSize \in Nat \ {0}
\* The largest frame has no more chunks than a frame may have.
ASSUME ChunksSuffice == MaxChunks \in Nat /\ FrameSize <= ChunkSize * MaxChunks
ASSUME SizesAreNat == Sizes \subseteq Nat /\ LastFrame \in Nat
ASSUME FrameBoundsAreNat == Capacity \in Nat \ {0} /\ MaxForged \in Nat

VARIABLES
  honest,      \* whether the host follows send_frame
  sending,     \* the frame the capture thread is sending
  frameId,     \* its next frame id
  captured,    \* sizes of the frames sent in full, by frame id
  wire,        \* messages on their way
  messages,    \* messages sent by a host that does not follow send_frame
  pending,     \* the frame being assembled
  slot,        \* latest_frame
  published,   \* frames put into the slot, in order
  shown,       \* frames the interface took, in order
  sendPc,      \* the capture thread runs, has failed
  receivePc    \* the receive thread runs, has rejected a message

hostVars == <<honest, sending, frameId, captured, messages, sendPc>>
viewerVars == <<pending, slot, published, shown, receivePc>>
frameVars == <<honest, sending, frameId, captured, wire, messages, pending, slot,
               published, shown, sendPc, receivePc>>

None == [none |-> TRUE]

FrameInit ==
  /\ honest \in BOOLEAN
  /\ sending = None
  /\ frameId = 0
  /\ captured = <<>>
  /\ wire = <<>>
  /\ messages = 0
  /\ pending = None
  /\ slot = None
  /\ published = <<>>
  /\ shown = <<>>
  /\ sendPc = "run"
  /\ receivePc = "run"

-----------------------------------------------------------------------------
(* send_frame *)

\* Mutant: a last chunk that is full is counted twice.
MChunkCount(size) == size \div ChunkSize + 1
\* div_ceil
ChunkCount(size) == (size + ChunkSize - 1) \div ChunkSize

\* Mutant: the last chunk is sent in full.
MChunkLength(size, index) == ChunkSize
\* The length of a chunk of bytes.chunks(MAX_JPEG_CHUNK_SIZE).
ChunkLength(size, index) ==
  IF (index + 1) * ChunkSize <= size THEN ChunkSize ELSE size - index * ChunkSize

FrameStart(frame, total, count) ==
  [kind |-> "start", frame |-> frame, total |-> total, count |-> count]
FrameChunk(frame, index, length) ==
  [kind |-> "chunk", frame |-> frame, index |-> index, length |-> length]

Room == Len(wire) < Capacity

Sendable(size) == size \in 1..FrameSize

\* A JPEG outside the limit is an error that ends the capture thread.
BeginFrame ==
  /\ honest /\ sendPc = "run"
  /\ sending = None
  /\ \E size \in Sizes :
        \/ /\ Sendable(size)
           /\ Room
           /\ wire' = Append(wire, FrameStart(frameId, size, ChunkCount(size)))
           /\ sending' = [size |-> size, next |-> 0]
           /\ UNCHANGED sendPc
        \/ /\ ~Sendable(size)
           /\ sendPc' = "failed"
           /\ UNCHANGED <<wire, sending>>
  /\ UNCHANGED <<honest, frameId, captured, messages, viewerVars>>

SendChunk ==
  /\ sending # None
  /\ sending.next * ChunkSize < sending.size
  /\ Room
  /\ wire' = Append(wire, FrameChunk(frameId, sending.next,
                                     ChunkLength(sending.size, sending.next)))
  /\ sending' = [sending EXCEPT !.next = @ + 1]
  /\ UNCHANGED <<honest, frameId, captured, messages, sendPc, viewerVars>>

\* Mutant: the id starts again after the last one.
MEndFrame ==
  /\ sending # None
  /\ sending.next * ChunkSize >= sending.size
  /\ sending' = None
  /\ captured' = Append(captured, sending.size)
  /\ frameId' = (frameId + 1) % (LastFrame + 1)
  /\ Len(captured) < LastFrame + 3
  /\ UNCHANGED <<honest, wire, messages, sendPc, viewerVars>>

\* checked_add: the capture thread fails after the frame of the last id.
EndFrame ==
  /\ sending # None
  /\ sending.next * ChunkSize >= sending.size
  /\ sending' = None
  /\ captured' = Append(captured, sending.size)
  /\ IF frameId < LastFrame
     THEN frameId' = frameId + 1 /\ UNCHANGED sendPc
     ELSE sendPc' = "failed" /\ UNCHANGED frameId
  /\ UNCHANGED <<honest, wire, messages, viewerVars>>

\* A host that does not follow send_frame.
SendAnything ==
  /\ ~honest
  /\ messages < MaxForged
  /\ Room
  /\ \E frame \in {0, 1}, number \in 0..(MaxChunks + 1), length \in 0..(FrameSize + 1) :
        \/ wire' = Append(wire, FrameStart(frame, length, number))
        \/ wire' = Append(wire, FrameChunk(frame, number, length))
  /\ messages' = messages + 1
  /\ UNCHANGED <<honest, sending, frameId, captured, sendPc, viewerVars>>

-----------------------------------------------------------------------------
(* The receive thread *)

Valid(m) ==
  IF m.kind = "start"
  THEN m.total \in 1..FrameSize /\ m.count \in 1..MaxChunks
  ELSE m.length \in 1..ChunkSize

\* The length of the first i chunks, summed up to the last one.
Received(bytes) ==
  LET received[i \in 0..Len(bytes)] ==
        IF i = 0 THEN 0 ELSE received[i - 1] + bytes[i].length
  IN  received[Len(bytes)]

\* Mutant: a start goes on with the bytes of an unfinished frame.
MStarted(m) == [frame |-> m.frame, total |-> m.total, count |-> m.count, next |-> 0,
                bytes |-> IF pending = None THEN <<>> ELSE pending.bytes]
\* FrameAssembler::start: an unfinished frame is dropped.
Started(m) ==
  [frame |-> m.frame, total |-> m.total, count |-> m.count, next |-> 0, bytes |-> <<>>]

\* Mutant: the chunk may be any of the frame.
MFits(m) ==
  /\ pending # None
  /\ m.frame = pending.frame
  /\ Received(pending.bytes) + m.length <= pending.total
\* Mutant: the length is looked at only when the frame is complete.
MFitsAnyLength(m) ==
  /\ pending # None
  /\ m.frame = pending.frame /\ m.index = pending.next
Fits(m) ==
  /\ pending # None
  /\ m.frame = pending.frame /\ m.index = pending.next
  /\ Received(pending.bytes) + m.length <= pending.total

Pushed(m) == [pending EXCEPT !.next = @ + 1,
                             !.bytes = Append(@, [index |-> m.index, length |-> m.length])]
Complete(frame) == frame.next = frame.count
Whole(frame) == Received(frame.bytes) = frame.total

Reject == receivePc' = "rejected" /\ UNCHANGED <<pending, slot, published>>

\* Mutant: a frame that was not taken yet is kept.
MPublish(frame) ==
  /\ slot' = IF slot = None THEN frame ELSE slot
  /\ published' = Append(published, frame)
\* publish_frame replaces a frame that was not taken yet.
Publish(frame) ==
  /\ slot' = frame
  /\ published' = Append(published, frame)

\* A message that is not valid, a chunk that does not fit, a completed frame of
\* another length, or one that does not decode to the announced dimensions ends
\* the session.
ReceiveMessage ==
  /\ receivePc = "run"
  /\ wire # <<>>
  /\ wire' = Tail(wire)
  /\ LET m == Head(wire) IN
       \/ /\ Valid(m) /\ m.kind = "start"
          /\ pending' = Started(m)
          /\ UNCHANGED <<slot, published, receivePc>>
       \/ /\ Valid(m) /\ m.kind = "chunk" /\ Fits(m)
          /\ ~Complete(Pushed(m))
          /\ pending' = Pushed(m)
          /\ UNCHANGED <<slot, published, receivePc>>
       \/ /\ Valid(m) /\ m.kind = "chunk" /\ Fits(m)
          /\ Complete(Pushed(m)) /\ Whole(Pushed(m))
          /\ \/ /\ Publish(Pushed(m))
                /\ pending' = None
                /\ UNCHANGED receivePc
             \/ ~honest /\ Reject
       \/ /\ \/ ~Valid(m)
             \/ m.kind = "chunk" /\ ~Fits(m)
             \/ m.kind = "chunk" /\ Fits(m) /\ Complete(Pushed(m)) /\ ~Whole(Pushed(m))
          /\ Reject
  /\ UNCHANGED <<hostVars, shown>>

\* take_latest_frame
Show ==
  /\ slot # None
  /\ shown' = Append(shown, slot)
  /\ slot' = None
  /\ UNCHANGED <<hostVars, wire, pending, published, receivePc>>

-----------------------------------------------------------------------------
FrameNext == BeginFrame \/ SendChunk \/ EndFrame \/ SendAnything \/ ReceiveMessage \/ Show

FrameSpec == FrameInit /\ [][FrameNext]_frameVars

\* The receive thread runs and the interface polls on every repaint.
FrameFairSpec == FrameSpec /\ WF_frameVars(ReceiveMessage) /\ WF_frameVars(Show)

-----------------------------------------------------------------------------
(* Properties *)

Pieces == [index : Nat, length : 1..ChunkSize]
PendingFrames == [frame : Nat, total : 1..FrameSize, count : 1..MaxChunks, next : Nat,
                  bytes : Seq(Pieces)]

FrameTypeOK ==
  /\ honest \in BOOLEAN
  /\ sending \in {None} \cup [size : 1..FrameSize, next : Nat]
  /\ frameId \in 0..LastFrame
  /\ captured \in Seq(1..FrameSize)
  /\ Len(wire) <= Capacity
  /\ messages \in 0..MaxForged
  /\ pending \in {None} \cup PendingFrames
  /\ slot \in {None} \cup PendingFrames
  /\ published \in Seq(PendingFrames) /\ shown \in Seq(PendingFrames)
  /\ sendPc \in {"run", "failed"} /\ receivePc \in {"run", "rejected"}

\* What send_frame produces, every assembler accepts: no size of a frame, a
\* multiple of the chunk size or the largest one included, ends the session.
\* The frames put together are the captured ones, by id and size, none missing
\* and none twice, and they are shown in their order.
FramesArrive ==
  honest =>
     /\ receivePc = "run"
     /\ \A i \in 1..Len(published) :
           /\ published[i].frame = i - 1
           /\ i <= Len(captured) => published[i].total = captured[i]
     /\ \A i, k \in 1..Len(shown) : i < k => shown[i].frame < shown[k].frame

\* Whatever the host sends, a published frame is one frame's chunks from the
\* first to the last and exactly as long as it was announced, the slot holds the
\* newest one, and of an unfinished frame no more is kept than was announced.
PublishedWhole ==
  /\ \A i \in 1..Len(published) :
        LET frame == published[i]
        IN  /\ Len(frame.bytes) = frame.count
            /\ \A k \in 1..Len(frame.bytes) : frame.bytes[k].index = k - 1
            /\ Received(frame.bytes) = frame.total
  /\ slot # None => slot = Last(published)
  /\ pending # None => /\ Received(pending.bytes) <= pending.total
                       /\ Len(pending.bytes) < pending.count

\* A published frame, or a newer one, is shown.
FramesShown ==
  \A n \in 1..(LastFrame + 1) :
     honest /\ Len(published) >= n ~> \E i \in 1..Len(shown) : shown[i].frame >= n - 1

=============================================================================
