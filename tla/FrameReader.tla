---------------------------- MODULE FrameReader ----------------------------
(***************************************************************************)
(* One connection after its upgrade: a client writes frames, the network   *)
(* cuts their bytes anywhere, append_read() collects them up to a limit and *)
(* the loop of Websocket_Handler::drive_io() takes frames off the front of *)
(* the buffer with the codec of WebsocketFrame.  Reactor assumes of this loop that a  *)
(* message is taken when its last byte is there and not before, and that   *)
(* the next one begins right after it.                                     *)
(***************************************************************************)
EXTENDS WebsocketFrame

CONSTANTS
  Frames,         \* the frames the client may write
  MaxReadBuffer,  \* WS_MAX_READ_BUFFER
  MaxFrames       \* bound: how many it writes

\* A frame as the client encodes it, at its choice with more bytes of length
\* than the length needs: ext of them, 0, 2 or 8, the first of eight being high.
FrameType == [opcode : 0..15, masked : BOOLEAN, ext : {0, 2, 8}, high : Byte, length : Nat]

\* The length has room in the bytes it is encoded in; one beyond 31 bits is given by high alone.
Fits(f) ==
  /\ f.ext = 0 => f.length < 126 /\ f.high = 0
  /\ f.ext = 2 => f.length <= 65535 /\ f.high = 0
  /\ f.ext = 8 => f.length <= 2147483647

\* A frame of the greatest payload, header and all, fits in the read buffer.
ASSUME FrameReaderAssumption ==
  /\ Frames \subseteq FrameType /\ MaxFrames \in Nat
  /\ MaxReadBuffer \in Nat /\ MaxReadBuffer >= MaxPayload + 14
  /\ \A f \in Frames : Fits(f)

VARIABLES
  wire,       \* the frames written so far
  starts,     \* history: where each of them begins in the stream, and where the next one will
  arrived,    \* how many of their bytes append_read() has got
  consumed,   \* how many of them were erased from the front of the buffer
  taken,      \* history: what handle_one_frame() was called with
  driving,    \* drive_io() is in its loop
  closed      \* the connection was queued for closing

readerVars == <<wire, starts, arrived, consumed, taken, driving, closed>>

-----------------------------------------------------------------------------
(* The bytes of the stream *)

\* Any byte of a key or a payload: here one that also begins a text frame.
Filler == 129

\* The seven bits of the length, the bytes that extend it, and the masking key.
LengthCode(f) == IF f.ext = 0 THEN f.length ELSE IF f.ext = 2 THEN 126 ELSE 127
LengthBytes(f) ==
  LET l == f.length IN
  CASE f.ext = 0 -> <<>>
    [] f.ext = 2 -> <<l \div 256, l % 256>>
    [] f.ext = 8 -> <<f.high, 0, 0, 0, l \div 16777216, (l \div 65536) % 256, (l \div 256) % 256, l % 256>>
KeyBytes(f) == IF f.masked THEN <<Filler, Filler, Filler, Filler>> ELSE <<>>

\* What the client encodes in front of the payload (RFC 6455, section 5.2).
Encoded == [f \in Frames |->
  <<128 + f.opcode, (IF f.masked THEN 128 ELSE 0) + LengthCode(f)>> \o LengthBytes(f) \o KeyBytes(f)]

Legal(f) == f.high = 0 /\ f.length <= MaxPayload

\* The bytes of a frame; of one that is not legal the client writes no more
\* than three of the payload.
FrameLen == [f \in Frames |-> Len(Encoded[f]) + (IF Legal(f) THEN f.length ELSE 3)]

\* Where the frame after the first i begins.
Offset(i) == starts[i + 1]

ByteAt(pos) ==
  LET i == CHOOSE k \in 0..Len(wire) - 1 : Offset(k) <= pos /\ pos < Offset(k + 1)
      header == Encoded[wire[i + 1]]
      at == pos - Offset(i) + 1 IN
  IF at <= Len(header) THEN header[at] ELSE Filler

\* The buffer: its size, and its first bytes; those not there yet read as 0.
Buffered == arrived - consumed
BufferStart == [k \in 0..13 |-> IF k < Buffered THEN ByteAt(consumed + k) ELSE 0]

-----------------------------------------------------------------------------
ReaderInit ==
  /\ wire = <<>>
  /\ starts = <<0>>
  /\ arrived = 0
  /\ consumed = 0
  /\ taken = <<>>
  /\ driving = FALSE
  /\ closed = FALSE

\* The client writes one more frame.
Write(f) ==
  /\ Len(wire) < MaxFrames
  /\ wire' = Append(wire, f)
  /\ starts' = Append(starts, Offset(Len(wire)) + FrameLen[f])
  /\ UNCHANGED <<arrived, consumed, taken, driving, closed>>

\* Bound: where reads end, after each of the first bytes of a frame, before its
\* last one and after it.
ReadEnds ==
  UNION {{Offset(i - 1) + k : k \in {j \in 1..16 : j <= FrameLen[wire[i]]} \cup {FrameLen[wire[i]] - 1, FrameLen[wire[i]]}} :
           i \in 1..Len(wire)}

\* A buffer that holds the bytes up to there is not beyond the limit; mutant: half the limit.
WithinHalf(end) == end - consumed <= MaxReadBuffer \div 2
WithinLimit(end) == end - consumed <= MaxReadBuffer

\* The read loop appends all that there is and calls drive_io(), which alone
\* makes the buffer shorter.
AppendRead ==
  /\ ~driving /\ ~closed
  /\ \E end \in ReadEnds : end > arrived /\ WithinLimit(end) /\ arrived' = end
  /\ driving' = TRUE
  /\ UNCHANGED <<wire, starts, consumed, taken, closed>>

\* There is more than the buffer may hold: append_read() refuses one of the reads,
\* and the connection is closed without drive_io() for those before it.
AppendRefused ==
  /\ ~driving /\ ~closed
  /\ \E end \in ReadEnds : end > arrived /\ ~WithinLimit(end)
  /\ arrived' \in {got \in {arrived} \cup ReadEnds : got >= arrived /\ WithinLimit(got)}
  /\ closed' = TRUE
  /\ UNCHANGED <<wire, starts, consumed, taken, driving>>

\* try_consume_frame() gives WS_PARSE_OK: the frame is erased from the buffer and
\* handled, and the loop goes on.
TakeFrame ==
  /\ driving
  /\ Complete(BufferStart, Buffered)
  /\ consumed' = consumed + TotalLen(BufferStart)
  /\ taken' = Append(taken, [opcode |-> Opcode(BufferStart), length |-> PayloadLen(BufferStart)])
  /\ UNCHANGED <<wire, starts, arrived, driving, closed>>

\* WS_PARSE_NEED_MORE
AwaitMore ==
  /\ driving
  /\ NeedMore(BufferStart, Buffered)
  /\ driving' = FALSE
  /\ UNCHANGED <<wire, starts, arrived, consumed, taken, closed>>

\* WS_PARSE_ERROR
Refuse ==
  /\ driving
  /\ Broken(BufferStart, Buffered)
  /\ driving' = FALSE
  /\ closed' = TRUE
  /\ UNCHANGED <<wire, starts, arrived, consumed, taken>>

ReaderStep == AppendRead \/ AppendRefused \/ TakeFrame \/ AwaitMore \/ Refuse

ReaderNext == (\E f \in Frames : Write(f)) \/ ReaderStep

ReaderSpec == ReaderInit /\ [][ReaderNext]_readerVars

\* Written bytes arrive, and the loop runs.
ReaderFair == WF_readerVars(ReaderStep)

-----------------------------------------------------------------------------
ReaderTypes ==
  /\ wire \in Seq(Frames) /\ Len(wire) <= MaxFrames
  /\ starts \in Seq(Nat) /\ Len(starts) = Len(wire) + 1
  /\ arrived \in 0..Offset(Len(wire))
  /\ consumed \in 0..arrived
  /\ taken \in Seq([opcode : 0..15, length : 0..MaxPayload])
  /\ driving \in BOOLEAN
  /\ closed \in BOOLEAN

\* The reader never falls out of step with the client: what it has consumed are
\* whole frames, and each was handled once, in order, with the opcode and the
\* length the client meant, whichever encoding the client chose and however the
\* bytes were cut.
InStep ==
  /\ consumed = Offset(Len(taken))
  /\ taken = [i \in 1..Len(taken) |-> [opcode |-> wire[i].opcode, length |-> wire[i].length]]

\* Between two reads nothing that could have been decided lies in the buffer: a
\* whole frame was taken, and a frame that is not legal was refused as soon as
\* its header was there, before its payload is waited for.
NothingLeftBehind ==
  ~driving /\ ~closed /\ Buffered > 0 =>
    LET f == wire[Len(taken) + 1] IN
    /\ Buffered < FrameLen[f]
    /\ ~Legal(f) => Buffered < Len(Encoded[f])

\* Types, and the reader in step with the client (try_consume_frame).
FramesInStep == ReaderTypes /\ InStep

\* A frame that is not legal ends the connection, and so does a client that is
\* ahead of the server by more than the read buffer holds (append_read); that
\* takes more than one frame, so that one which waits after each of its frames is
\* never closed for a legal one.
RefusedRightly ==
  closed =>
    LET next == Len(taken) + 1 IN
    ~Legal(wire[next]) \/ (next < Len(wire) /\ Offset(Len(wire)) - consumed > MaxReadBuffer)

\* The echo of a frame that was taken, as pack_data() encodes it, is taken by the
\* same parser when its last byte is there and not before, with the same opcode
\* and length; it is never longer than the frame it answers.
EchoReadsBack ==
  \A i \in 1..Len(taken) :
    LET header == PackHeader(1, taken[i].opcode, 0, taken[i].length)
        p == [k \in 0..13 |-> IF k < Len(header) THEN header[k + 1] ELSE Filler]
        size == Len(header) + taken[i].length IN
    /\ Complete(p, size) /\ NeedMore(p, size - 1)
    /\ TotalLen(p) = size
    /\ Opcode(p) = taken[i].opcode /\ PayloadLen(p) = taken[i].length
    /\ size <= FrameLen[wire[i]]

\* A frame that was written is handled, or the connection has ended.
WrittenIsTaken == []<>(Len(taken) = Len(wire) \/ closed)
=============================================================================
