--------------------------- MODULE WebsocketFrame ---------------------------
(***************************************************************************)
(* The frame codec: Websocket_Request::try_consume_frame() on the bytes at *)
(* the front of a read buffer, and Websocket_Respond::pack_data().         *)
(*                                                                         *)
(* A buffer is given by the bytes a header can have, p[0] .. p[13], and by *)
(* the number n of bytes it holds; those from p[n] on are not there yet.   *)
(* Of the payload only the length matters: client and server XOR it with   *)
(* the same key, and nothing looks into it.                                *)
(***************************************************************************)
EXTENDS Naturals, Sequences

CONSTANT MaxPayload   \* WS_MAX_PAYLOAD_BYTES

ASSUME FrameAssumption == MaxPayload \in Nat /\ MaxPayload <= 2147483647

Byte == 0..255
HeaderBytes == [0..13 -> Byte]

-----------------------------------------------------------------------------
(* try_consume_frame() *)

Opcode(p) == p[0] % 16
Masked(p) == p[1] >= 128
Len7(p) == p[1] % 128

\* How many bytes extend the length.
ExtLen(p) == IF Len7(p) < 126 THEN 0 ELSE IF Len7(p) = 126 THEN 2 ELSE 8

\* Mutant: the masking key is not counted.
HeaderLenNoKey(p) == 2 + ExtLen(p)
HeaderLen(p) == 2 + ExtLen(p) + (IF Masked(p) THEN 4 ELSE 0)

\* A length in eight bytes.  What is beyond MaxPayload is all alike.
Beyond31(p) == (\E k \in 2..5 : p[k] # 0) \/ p[6] >= 128
Ext8(p) ==
  IF Beyond31(p)
  THEN MaxPayload + 1
  ELSE p[6] * 16777216 + p[7] * 65536 + p[8] * 256 + p[9]

PayloadLen(p) ==
  CASE ExtLen(p) = 0 -> Len7(p)
    [] ExtLen(p) = 2 -> p[2] * 256 + p[3]
    [] ExtLen(p) = 8 -> Ext8(p)

TotalLen(p) == HeaderLen(p) + PayloadLen(p)

\* Mutant: the length is not looked at before the payload is there.
BrokenLate(p, n) == n >= 2 /\ n >= TotalLen(p) /\ PayloadLen(p) > MaxPayload

\* WS_PARSE_ERROR: the top bit of a 64-bit length, before the key is there, or
\* a length beyond the limit, after it.
Broken(p, n) ==
  \/ n >= 10 /\ ExtLen(p) = 8 /\ p[2] >= 128
  \/ n >= 2 /\ n >= HeaderLen(p) /\ PayloadLen(p) > MaxPayload

\* WS_PARSE_OK; mutant: one byte late.
CompleteLate(p, n) == n >= 2 /\ n >= HeaderLen(p) /\ n > TotalLen(p) /\ ~Broken(p, n)
Complete(p, n) == n >= 2 /\ n >= HeaderLen(p) /\ n >= TotalLen(p) /\ ~Broken(p, n)

\* WS_PARSE_NEED_MORE
NeedMore(p, n) == ~Broken(p, n) /\ ~Complete(p, n)

-----------------------------------------------------------------------------
(* pack_data() *)

\* The eight bytes of a 64-bit length.
EightBytes(length) ==
  LET q1 == length \div 256
      q2 == q1 \div 256
      q3 == q2 \div 256
      q4 == q3 \div 256
      q5 == q4 \div 256
      q6 == q5 \div 256
      q7 == q6 \div 256 IN
  <<q7 % 256, q6 % 256, q5 % 256, q4 % 256, q3 % 256, q2 % 256, q1 % 256, length % 256>>

\* The bytes that extend the length, and the seven bits before them.
PackExt(length) ==
  IF length < 126 THEN <<>>
  ELSE IF length <= 65535 THEN <<length \div 256, length % 256>>
  ELSE EightBytes(length)

\* Mutant: the code for two bytes ends one too early.
PackCodeShort(length) ==
  IF length < 126 THEN length ELSE IF length < 65535 THEN 126 ELSE 127
PackCode(length) ==
  IF length < 126 THEN length ELSE IF length <= 65535 THEN 126 ELSE 127

\* The header; the message follows it.
PackHeader(fin, opcode, mask, length) ==
  <<fin * 128 + (opcode % 16), mask * 128 + PackCode(length)>> \o PackExt(length)
=============================================================================
