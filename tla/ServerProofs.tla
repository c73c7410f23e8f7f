---------------------------- MODULE ServerProofs ----------------------------
(***************************************************************************)
(* What a server process does outside the event loop, for every instance.  *)
(* The frame codec: every header, every buffer size, every length up to    *)
(* any limit.  The reader of one connection: every set of frames, every    *)
(* encoding the client may choose and every way the network cuts the       *)
(* bytes; it stays in step with the client, leaves nothing undecided in    *)
(* its buffer, ends only for a frame that is not legal or a client too far *)
(* ahead, and answers in frames that read back.  main() and its workers:   *)
(* no worker is left behind.                                               *)
(***************************************************************************)
EXTENDS FrameReader, Workers, SequenceTheorems, TLAPS

-----------------------------------------------------------------------------
(* The parser *)

\* What the parser computes from a header.
LEMMA HeaderType ==
  ASSUME NEW p \in HeaderBytes
  PROVE  /\ \A k \in 0..13 : p[k] \in Byte
         /\ Len7(p) \in 0..127 /\ Masked(p) \in BOOLEAN
         /\ ExtLen(p) \in {0, 2, 8}
         /\ HeaderLen(p) \in 2..14 /\ HeaderLen(p) >= 2 + ExtLen(p)
         /\ PayloadLen(p) \in Nat
<1>0. \A k \in 0..13 : p[k] \in 0..255
  BY DEF HeaderBytes, Byte
<1>1. ASSUME NEW k \in 0..13
      PROVE  p[k] \in Nat /\ p[k] <= 255
  <2> DEFINE b == p[k]
  <2>1. b \in 0..255
    BY <1>0
  <2> HIDE DEF b
  <2>2. b \in Nat /\ b <= 255
    BY <2>1
  <2> QED  BY <2>2 DEF b
<1>2. Len7(p) \in 0..127 /\ Masked(p) \in BOOLEAN
  BY <1>1 DEF Len7, Masked
<1>3. ExtLen(p) \in {0, 2, 8}
  BY DEF ExtLen
<1>4. HeaderLen(p) \in 2..14 /\ HeaderLen(p) >= 2 + ExtLen(p)
  BY <1>2, <1>3 DEF HeaderLen
<1>5. Ext8(p) \in Nat
  <2>1. MaxPayload + 1 \in Nat
    BY FrameAssumption
  <2>2. p[6] \in Nat /\ p[7] \in Nat /\ p[8] \in Nat /\ p[9] \in Nat
    <3>1. 6 \in 0..13 /\ 7 \in 0..13 /\ 8 \in 0..13 /\ 9 \in 0..13
      OBVIOUS
    <3> QED  BY <1>1, <3>1
  <2>3. p[6] * 16777216 + p[7] * 65536 + p[8] * 256 + p[9] \in Nat
    BY <2>2
  <2> QED  BY <2>1, <2>3 DEF Ext8
<1>6. p[2] * 256 + p[3] \in Nat
  <2>1. 2 \in 0..13 /\ 3 \in 0..13
    OBVIOUS
  <2>2. p[2] \in Nat /\ p[3] \in Nat
    BY <1>1, <2>1
  <2> QED  BY <2>2
<1>7. PayloadLen(p) \in Nat
  BY <1>2, <1>3, <1>5, <1>6 DEF PayloadLen
<1>8. \A k \in 0..13 : p[k] \in Byte
  BY DEF HeaderBytes
<1> QED  BY <1>2, <1>3, <1>4, <1>7, <1>8

\* More bytes never change a verdict: what try_consume_frame() says of the front
\* of a buffer is the same however many reads it took to fill it, so the loop of
\* drive_io() may run after any of them.
THEOREM PrefixDecides ==
  ASSUME NEW p \in HeaderBytes, NEW n \in Nat, NEW m \in Nat, n <= m
  PROVE  /\ Complete(p, n) => Complete(p, m)
         /\ Broken(p, n) => Broken(p, m)
<1>1. /\ ExtLen(p) \in {0, 2, 8}
      /\ HeaderLen(p) \in 2..14 /\ HeaderLen(p) >= 2 + ExtLen(p)
      /\ PayloadLen(p) \in Nat
  BY HeaderType
<1>2. Broken(p, n) => Broken(p, m)
  BY <1>1 DEF Broken
<1>3. ASSUME Complete(p, n) PROVE ~Broken(p, m)
  BY <1>1, <1>3 DEF Complete, Broken
<1>4. ASSUME Complete(p, n) PROVE Complete(p, m)
  BY <1>1, <1>3, <1>4 DEF Complete, TotalLen
<1> QED  BY <1>2, <1>4

\* The parser looks at no byte that is not there yet: buffers of n bytes that
\* agree on them get the same verdict, and the same length once there is one.
THEOREM NoOverread ==
  ASSUME NEW p \in HeaderBytes, NEW q \in HeaderBytes, NEW n \in Nat,
         \A k \in 0..13 : k < n => p[k] = q[k]
  PROVE  /\ Broken(p, n) <=> Broken(q, n)
         /\ Complete(p, n) <=> Complete(q, n)
         /\ Complete(p, n) => TotalLen(p) = TotalLen(q) /\ PayloadLen(p) = PayloadLen(q)
<1>1. CASE n < 2
  <2>1. ~Broken(p, n) /\ ~Broken(q, n)
    BY <1>1 DEF Broken
  <2> QED  BY <1>1, <2>1 DEF Complete
<1>2. CASE n >= 2
  <2>1. p[0] = q[0] /\ p[1] = q[1]
    BY <1>2
  <2>2. Len7(p) = Len7(q) /\ Masked(p) = Masked(q) /\ ExtLen(p) = ExtLen(q) /\ HeaderLen(p) = HeaderLen(q)
    BY <2>1 DEF Len7, Masked, ExtLen, HeaderLen
  <2>3. ExtLen(p) \in {0, 2, 8} /\ HeaderLen(p) \in 2..14 /\ HeaderLen(p) >= 2 + ExtLen(p)
    BY HeaderType
  <2>4. ASSUME n >= HeaderLen(p)
        PROVE  PayloadLen(p) = PayloadLen(q)
    <3>1. \A k \in 2..9 : k < 2 + ExtLen(p) => p[k] = q[k]
      BY <2>3, <2>4
    <3>2. CASE ExtLen(p) = 0
      BY <2>2, <3>2 DEF PayloadLen
    <3>3. CASE ExtLen(p) = 2
      <4>1. p[2] = q[2] /\ p[3] = q[3]
        BY <3>1, <3>3
      <4> QED  BY <2>2, <3>3, <4>1 DEF PayloadLen
    <3>4. CASE ExtLen(p) = 8
      <4>1. \A k \in 2..9 : p[k] = q[k]
        BY <3>1, <3>4
      <4>2. Beyond31(p) <=> Beyond31(q)
        BY <4>1 DEF Beyond31
      <4>3. Ext8(p) = Ext8(q)
        BY <4>1, <4>2 DEF Ext8
      <4> QED  BY <2>2, <3>4, <4>3 DEF PayloadLen
    <3> QED  BY <2>3, <3>2, <3>3, <3>4
  <2>5. n >= 10 => p[2] = q[2]
    BY <1>2
  <2>6. Broken(p, n) <=> Broken(q, n)
    BY <2>2, <2>4, <2>5 DEF Broken
  <2> QED  BY <2>2, <2>4, <2>6 DEF Complete, TotalLen
<1> QED  BY <1>1, <1>2

-----------------------------------------------------------------------------
(* The round trip *)

\* A number by its last octet and the rest.
LEMMA DivMod ==
  ASSUME NEW v \in Nat
  PROVE  v \div 256 \in Nat /\ v % 256 \in Nat /\ v % 256 <= 255
         /\ v = (v \div 256) * 256 + (v % 256)
OBVIOUS

\* A length of seven bits is not taken for the mask bit.
LEMMA SevenBits ==
  ASSUME NEW b \in Nat, b <= 127
  PROVE  b % 128 = b /\ ~(b >= 128)
OBVIOUS

\* The eight bytes b stand for length, which fits in 31 bits.
Represents(b, length) ==
  /\ b \in Seq(Nat) /\ Len(b) = 8
  /\ b[1] = 0 /\ b[2] = 0 /\ b[3] = 0 /\ b[4] = 0
  /\ b[5] \in Nat /\ b[5] <= 127 /\ b[6] \in Byte /\ b[7] \in Byte /\ b[8] \in Byte
  /\ b[5] * 16777216 + b[6] * 65536 + b[7] * 256 + b[8] = length

\* pack_data() writes a length as eight octets that stand for it.
LEMMA EightBytesValue ==
  ASSUME NEW length \in Nat, length <= MaxPayload
  PROVE  Represents(EightBytes(length), length)
<1>0. length <= 2147483647
  BY FrameAssumption
<1> DEFINE q1 == length \div 256
           q2 == q1 \div 256
           q3 == q2 \div 256
<1>1. q1 \in Nat /\ q1 <= 8388607 /\ length % 256 \in 0..255 /\ length = q1 * 256 + (length % 256)
  BY <1>0
<1> HIDE DEF q1
<1>2. q2 \in Nat /\ q2 <= 32767 /\ q1 % 256 \in 0..255 /\ q1 = q2 * 256 + (q1 % 256)
  BY <1>1
<1> HIDE DEF q2
<1>3. q3 \in 0..127 /\ q2 % 256 \in 0..255 /\ q2 = q3 * 256 + (q2 % 256)
  BY <1>2
<1> HIDE DEF q3
<1>4. q3 \div 256 = 0 /\ q3 % 256 = q3 /\ 0 \div 256 = 0 /\ 0 % 256 = 0
  BY <1>3
<1>5. EightBytes(length) = <<0, 0, 0, 0, q3, q2 % 256, q1 % 256, length % 256>>
  BY <1>4 DEF EightBytes, q1, q2, q3
<1>6. q3 * 16777216 + (q2 % 256) * 65536 + (q1 % 256) * 256 + (length % 256) = length
  BY <1>1, <1>2, <1>3
<1> QED  BY <1>1, <1>2, <1>3, <1>5, <1>6 DEF Represents, Byte

\* Two octets before a sequence move it by two.
LEMMA AfterTwo ==
  ASSUME NEW a \in Nat, NEW b \in Nat, NEW s \in Seq(Nat)
  PROVE  LET h == <<a, b>> \o s IN
         /\ Len(h) = 2 + Len(s) /\ h[1] = a /\ h[2] = b
         /\ \A k \in 1..Len(s) : h[k + 2] = s[k]
<1>1. <<a, b>> \in Seq(Nat) /\ Len(<<a, b>>) = 2 /\ <<a, b>>[1] = a /\ <<a, b>>[2] = b
  OBVIOUS
<1>2. Len(s) \in Nat
  BY LenProperties
<1> QED  BY <1>1, <1>2, ConcatProperties

\* The buffer begins with these bytes.
StartsWith(p, header) == \A k \in 1..Len(header) : p[k - 1] = header[k]

\* What the parser makes of a header that pack_data() wrote.
LEMMA PackedHeader ==
  ASSUME NEW length \in Nat, length <= MaxPayload,
         NEW fin \in {0, 1}, NEW opcode \in 0..15, NEW p \in HeaderBytes,
         StartsWith(p, PackHeader(fin, opcode, 0, length))
  PROVE  /\ Opcode(p) = opcode
         /\ HeaderLen(p) = Len(PackHeader(fin, opcode, 0, length))
         /\ PayloadLen(p) = length
         /\ ExtLen(p) = 8 => p[2] = 0
<1> DEFINE header == PackHeader(fin, opcode, 0, length)
           ext == PackExt(length)
           short == PackCode(length)
<1>1. ext \in Seq(Nat) /\ Len(ext) \in {0, 2, 8} /\ short \in 0..127
  <2>1. CASE length < 126
    <3> HIDE DEF ext, short
    <3>1. ext = <<>> /\ short = length
      BY <2>1 DEF ext, short, PackExt, PackCode
    <3>2. <<>> \in Seq(Nat) /\ Len(<<>>) = 0
      OBVIOUS
    <3>3. Len(ext) = 0 /\ ext \in Seq(Nat)
      BY <3>1, <3>2
    <3>4. short \in 0..127
      BY <2>1, <3>1
    <3> QED  BY <3>3, <3>4
  <2>2. CASE 126 <= length /\ length <= 65535
    BY <2>2, DivMod DEF PackExt, PackCode
  <2>3. CASE length > 65535
    BY <2>3, EightBytesValue DEF PackExt, PackCode, Represents
  <2> QED  BY <2>1, <2>2, <2>3
<1>2. opcode % 16 = opcode /\ fin * 128 + opcode \in Nat
  OBVIOUS
<1>3. /\ Len(header) = 2 + Len(ext) /\ header[1] = fin * 128 + opcode /\ header[2] = short
      /\ \A k \in 1..Len(ext) : header[k + 2] = ext[k]
  <2> HIDE DEF ext, short
  <2>a. 0 * 128 + short = short
    BY <1>1
  <2>1. header = <<fin * 128 + opcode, short>> \o ext
    BY <1>2, <2>a DEF PackHeader, ext, short
  <2> HIDE DEF header
  <2> QED  BY <1>1, <1>2, <2>1, AfterTwo
<1>4. \A k \in 1..Len(header) : p[k - 1] = header[k]
  BY DEF StartsWith
<1> HIDE DEF header, ext, short
<1>5. p[0] = fin * 128 + opcode /\ p[1] = short
  <2>1. 1 \in 1..Len(header) /\ 2 \in 1..Len(header)
    BY <1>1, <1>3
  <2>2. p[1 - 1] = header[1] /\ p[2 - 1] = header[2]
    BY <1>4, <2>1
  <2> QED  BY <1>3, <2>2
<1>6. ASSUME NEW k \in 1..Len(ext)
      PROVE  p[k + 1] = ext[k]
  <2>1. k + 2 \in 1..Len(header) /\ (k + 2) - 1 = k + 1
    BY <1>1, <1>3
  <2>2. p[(k + 2) - 1] = header[k + 2]
    BY <1>4, <2>1
  <2> QED  BY <1>3, <2>1, <2>2
<1>7. Opcode(p) = opcode /\ Len7(p) = short /\ ~Masked(p)
  <2>1. (fin * 128 + opcode) % 16 = opcode
    OBVIOUS
  <2>2. short % 128 = short /\ ~(short >= 128)
    <3>1. short \in Nat /\ short <= 127
      BY <1>1
    <3> QED  BY <3>1, SevenBits
  <2> QED  BY <1>5, <2>1, <2>2 DEF Opcode, Len7, Masked
<1>8. CASE length < 126
  <2>1. Len(ext) = 0 /\ short = length
    BY <1>8 DEF ext, short, PackExt, PackCode
  <2>2. ExtLen(p) = 0
    BY <1>7, <1>8, <2>1 DEF ExtLen
  <2> QED  BY <1>3, <1>7, <2>1, <2>2 DEF header, HeaderLen, PayloadLen
<1>9. CASE 126 <= length /\ length <= 65535
  <2>1. Len(ext) = 2 /\ short = 126 /\ ext[1] = length \div 256 /\ ext[2] = length % 256
    BY <1>9 DEF ext, short, PackExt, PackCode
  <2>2. ExtLen(p) = 2
    BY <1>7, <2>1 DEF ExtLen
  <2>3. p[1 + 1] = ext[1] /\ p[2 + 1] = ext[2]
    BY <1>6, <2>1
  <2>4. p[2] * 256 + p[3] = length
    BY <2>1, <2>3, DivMod
  <2> QED  BY <1>3, <1>7, <2>1, <2>2, <2>4 DEF header, HeaderLen, PayloadLen
<1>10. CASE length > 65535
  <2>1. ext = EightBytes(length) /\ short = 127
    BY <1>10 DEF ext, short, PackExt, PackCode
  <2>2. Represents(ext, length)
    BY <2>1, EightBytesValue
  <2>3. Len(ext) = 8
    BY <2>2 DEF Represents
  <2>4. ExtLen(p) = 8
    BY <1>7, <2>1 DEF ExtLen
  <2>5. /\ p[2] = ext[1] /\ p[3] = ext[2] /\ p[4] = ext[3] /\ p[5] = ext[4]
        /\ p[6] = ext[5] /\ p[7] = ext[6] /\ p[8] = ext[7] /\ p[9] = ext[8]
    <3>1. /\ p[1 + 1] = ext[1] /\ p[2 + 1] = ext[2] /\ p[3 + 1] = ext[3] /\ p[4 + 1] = ext[4]
          /\ p[5 + 1] = ext[5] /\ p[6 + 1] = ext[6] /\ p[7 + 1] = ext[7] /\ p[8 + 1] = ext[8]
      BY <1>6, <2>3
    <3> QED  BY <3>1
  <2>6. ~Beyond31(p)
    <3>1. p[2] = 0 /\ p[3] = 0 /\ p[4] = 0 /\ p[5] = 0 /\ p[6] \in Nat /\ p[6] <= 127
      BY <2>2, <2>5 DEF Represents
    <3>2. \A k \in 2..5 : k = 2 \/ k = 3 \/ k = 4 \/ k = 5
      OBVIOUS
    <3>3. \A k \in 2..5 : p[k] = 0
      BY <3>1, <3>2
    <3>4. ~(p[6] >= 128)
      BY <3>1
    <3> QED  BY <3>3, <3>4 DEF Beyond31
  <2>7. Ext8(p) = length
    BY <2>2, <2>5, <2>6 DEF Ext8, Represents
  <2>8. p[2] = 0
    BY <2>2, <2>5 DEF Represents
  <2> QED  BY <1>3, <1>7, <2>3, <2>4, <2>7, <2>8 DEF header, HeaderLen, PayloadLen
<1> QED  BY <1>8, <1>9, <1>10

\* Whatever pack_data() sends reads back as it was: for every length up to the
\* limit, the parser takes the frame exactly when its last byte is there, with
\* its opcode and its length, and consumes exactly its bytes, so that frames put
\* one after another in a write buffer are told apart again.
THEOREM RoundTrip ==
  ASSUME NEW length \in Nat, length <= MaxPayload,
         NEW fin \in {0, 1}, NEW opcode \in 0..15, NEW p \in HeaderBytes,
         StartsWith(p, PackHeader(fin, opcode, 0, length)),
         NEW n \in Nat
  PROVE  LET total == Len(PackHeader(fin, opcode, 0, length)) + length IN
         /\ n >= total => Complete(p, n)
         /\ n < total => NeedMore(p, n)
         /\ TotalLen(p) = total /\ PayloadLen(p) = length /\ Opcode(p) = opcode
<1>1. /\ Opcode(p) = opcode
      /\ HeaderLen(p) = Len(PackHeader(fin, opcode, 0, length))
      /\ PayloadLen(p) = length
      /\ ExtLen(p) = 8 => p[2] = 0
  BY PackedHeader
<1>2. HeaderLen(p) \in 2..14
  BY HeaderType
<1>3. ~Broken(p, n)
  <2>1. MaxPayload \in Nat /\ ~(PayloadLen(p) > MaxPayload)
    BY <1>1, FrameAssumption
  <2>2. ~(ExtLen(p) = 8 /\ p[2] >= 128)
    BY <1>1
  <2> QED  BY <2>1, <2>2 DEF Broken
<1> DEFINE total == Len(PackHeader(fin, opcode, 0, length)) + length
<1>4. TotalLen(p) = total /\ total \in Nat /\ total >= HeaderLen(p)
  BY <1>1, <1>2 DEF TotalLen
<1> HIDE DEF total
<1>5. n >= total => Complete(p, n)
  BY <1>2, <1>3, <1>4 DEF Complete
<1>6. n < total => ~Complete(p, n)
  BY <1>4 DEF Complete
<1>7. n < total => NeedMore(p, n)
  BY <1>3, <1>6 DEF NeedMore
<1> QED  BY <1>1, <1>4, <1>5, <1>7 DEF total

-----------------------------------------------------------------------------
(* What the client writes *)

\* The parts of a frame.
LEMMA FrameParts ==
  ASSUME NEW f \in Frames
  PROVE  /\ f.opcode \in 0..15 /\ f.masked \in BOOLEAN /\ f.ext \in {0, 2, 8}
         /\ f.high \in Byte /\ f.length \in Nat /\ Fits(f)
<1>1. f \in FrameType /\ Fits(f)
  BY FrameReaderAssumption
<1>. QED
  BY <1>1 DEF FrameType

\* A string put behind another: its length, the first one's bytes, then the second one's.
LEMMA Behind ==
  ASSUME NEW u \in Seq(Byte), NEW s \in Seq(Byte)
  PROVE  /\ u \o s \in Seq(Byte) /\ Len(u \o s) = Len(u) + Len(s)
         /\ \A k \in 1..Len(u) : (u \o s)[k] = u[k]
         /\ \A k \in 1..Len(s) : (u \o s)[k + Len(u)] = s[k]
<1>1. u \o s \in Seq(Byte) /\ Len(u \o s) = Len(u) + Len(s)
  BY ConcatProperties
<1>2. \A k \in 1..Len(u) + Len(s) : (u \o s)[k] = IF k <= Len(u) THEN u[k] ELSE s[k - Len(u)]
  BY ConcatProperties
<1>3. Len(u) \in Nat /\ Len(s) \in Nat
  BY LenProperties
<1>4. ASSUME NEW k \in 1..Len(s) PROVE (u \o s)[k + Len(u)] = s[k]
  <2>1. k + Len(u) \in 1..Len(u) + Len(s) /\ ~(k + Len(u) <= Len(u)) /\ (k + Len(u)) - Len(u) = k
    BY <1>3
  <2>. QED
    BY <1>2, <2>1
<1>. QED
  BY <1>1, <1>2, <1>3, <1>4

\* Two bytes and two more strings of bytes after them.
LEMMA HeaderOfParts ==
  ASSUME NEW a \in Byte, NEW b \in Byte, NEW s \in Seq(Byte), NEW t \in Seq(Byte)
  PROVE  LET h == (<<a, b>> \o s) \o t IN
         /\ h \in Seq(Byte) /\ Len(h) = 2 + Len(s) + Len(t) /\ h[1] = a /\ h[2] = b
         /\ \A k \in 1..Len(s) : h[k + 2] = s[k]
<1>1. PICK u \in Seq(Byte) : u = <<a, b>> /\ Len(u) = 2 /\ u[1] = a /\ u[2] = b
  <2>1. <<a, b>> \in Seq(Byte) /\ Len(<<a, b>>) = 2 /\ <<a, b>>[1] = a /\ <<a, b>>[2] = b
    OBVIOUS
  <2>. QED
    BY <2>1, Zenon
<1>2. Len(s) \in Nat /\ Len(t) \in Nat
  BY LenProperties
<1>3. PICK v \in Seq(Byte) :
        /\ v = u \o s /\ Len(v) = 2 + Len(s) /\ v[1] = a /\ v[2] = b
        /\ \A k \in 1..Len(s) : v[k + 2] = s[k]
  <2>1. 1 \in 1..Len(u) /\ 2 \in 1..Len(u)
    BY <1>1
  <2>2. /\ u \o s \in Seq(Byte) /\ Len(u \o s) = 2 + Len(s)
        /\ (u \o s)[1] = a /\ (u \o s)[2] = b
    BY <1>1, <2>1, Behind
  <2>3. \A k \in 1..Len(s) : (u \o s)[k + 2] = s[k]
    BY <1>1, Behind, Zenon
  <2>. QED
    BY <2>2, <2>3, Zenon
<1>4. PICK h \in Seq(Byte) :
        /\ h = v \o t /\ Len(h) = Len(v) + Len(t)
        /\ \A k \in 1..Len(v) : h[k] = v[k]
  BY Behind
<1>5. h[1] = a /\ h[2] = b
  BY <1>2, <1>3, <1>4
<1>6. \A k \in 1..Len(s) : h[k + 2] = s[k]
  BY <1>2, <1>3, <1>4
<1>7. h = (<<a, b>> \o s) \o t
  BY <1>1, <1>3, <1>4
<1>. QED
  BY <1>2, <1>3, <1>4, <1>5, <1>6, <1>7

\* A length of two bytes.
LEMMA TwoBytes ==
  ASSUME NEW l \in Nat, l <= 65535
  PROVE  l \div 256 \in Byte /\ l % 256 \in Byte /\ (l \div 256) * 256 + (l % 256) = l
<1>1. l \div 256 \in Nat /\ l \div 256 <= 255 /\ l % 256 \in Nat /\ l % 256 <= 255
  OBVIOUS
<1>. QED
  BY <1>1 DEF Byte

\* The bytes of a number, lowest first.
Byte0(l) == l % 256
Byte1(l) == (l \div 256) % 256
Byte2(l) == (l \div 65536) % 256
Byte3(l) == l \div 16777216

\* A length of four bytes that fits in 31 bits.
LEMMA FourBytes ==
  ASSUME NEW l \in Nat, l <= 2147483647
  PROVE  /\ l \div 16777216 \in Byte /\ l \div 16777216 <= 127
         /\ (l \div 65536) % 256 \in Byte /\ (l \div 256) % 256 \in Byte /\ l % 256 \in Byte
         /\ (l \div 16777216) * 16777216 + ((l \div 65536) % 256) * 65536
              + ((l \div 256) % 256) * 256 + (l % 256) = l
<1>1. l \div 16777216 \in Nat /\ l \div 16777216 <= 127
  BY SMT
<1>2. /\ (l \div 65536) % 256 \in Nat /\ (l \div 65536) % 256 <= 255
      /\ (l \div 256) % 256 \in Nat /\ (l \div 256) % 256 <= 255
      /\ l % 256 \in Nat /\ l % 256 <= 255
  BY SMT
<1>3. (l \div 16777216) * 16777216 + ((l \div 65536) % 256) * 65536
              + ((l \div 256) % 256) * 256 + (l % 256) = l
  BY SMT
<1>4. \A b \in Nat : b <= 255 => b \in Byte
  BY DEF Byte
<1>. QED
  BY <1>1, <1>2, <1>3, <1>4, SMT

\* The bytes that extend the length.
LEMMA LengthBytesType ==
  ASSUME NEW f \in Frames
  PROVE  LengthBytes(f) \in Seq(Byte) /\ Len(LengthBytes(f)) = f.ext
<1>1. f.ext \in {0, 2, 8} /\ f.high \in Byte /\ f.length \in Nat /\ Fits(f)
  BY FrameParts
<1>2. CASE f.ext = 0
  <2>1. LengthBytes(f) = <<>>
    BY <1>2 DEF LengthBytes
  <2>. QED
    BY <1>2, <2>1
<1>3. CASE f.ext = 2
  <2>1. LengthBytes(f) = <<f.length \div 256, f.length % 256>>
    BY <1>3 DEF LengthBytes
  <2>2. f.length \div 256 \in Byte /\ f.length % 256 \in Byte
    BY <1>1, <1>3, TwoBytes DEF Fits
  <2>. QED
    BY <1>3, <2>1, <2>2
<1>4. CASE f.ext = 8
  <2> DEFINE l == f.length
  <2>1. LengthBytes(f) = <<f.high, 0, 0, 0, l \div 16777216, (l \div 65536) % 256, (l \div 256) % 256, l % 256>>
    BY <1>4, SMT DEF LengthBytes
  <2>2. l \in Nat /\ l <= 2147483647
    BY <1>1, <1>4, SMT DEF Fits
  <2> HIDE DEF l
  <2>3. /\ l \div 16777216 \in Byte /\ (l \div 65536) % 256 \in Byte
        /\ (l \div 256) % 256 \in Byte /\ l % 256 \in Byte
    BY <2>2, FourBytes, SMT
  <2>4. 0 \in Byte
    BY DEF Byte
  <2>. QED
    BY <1>1, <1>4, <2>1, <2>3, <2>4, SMT
<1>. QED
  BY <1>1, <1>2, <1>3, <1>4

\* What a client puts in front of a payload, byte by byte.
LEMMA EncodedHeader ==
  ASSUME NEW f \in Frames
  PROVE  LET h == Encoded[f] IN
         /\ h \in Seq(Byte) /\ Len(h) = 2 + f.ext + (IF f.masked THEN 4 ELSE 0)
         /\ h[1] = 128 + f.opcode /\ h[2] = (IF f.masked THEN 128 ELSE 0) + LengthCode(f)
         /\ \A k \in 1..f.ext : h[k + 2] = LengthBytes(f)[k]
<1>1. /\ f.opcode \in 0..15 /\ f.masked \in BOOLEAN /\ f.ext \in {0, 2, 8}
      /\ f.length \in Nat /\ Fits(f)
  BY FrameParts
<1>2. LengthCode(f) \in 0..127
  BY <1>1 DEF LengthCode, Fits
<1>3. PICK a \in Byte : a = 128 + f.opcode
  BY <1>1 DEF Byte
<1>4. PICK b \in Byte : b = (IF f.masked THEN 128 ELSE 0) + LengthCode(f)
  BY <1>1, <1>2 DEF Byte
<1>5. LengthBytes(f) \in Seq(Byte) /\ Len(LengthBytes(f)) = f.ext
  BY LengthBytesType
<1>6. KeyBytes(f) \in Seq(Byte) /\ Len(KeyBytes(f)) = IF f.masked THEN 4 ELSE 0
  <2>1. Filler \in Byte
    BY DEF Filler, Byte
  <2>2. /\ <<Filler, Filler, Filler, Filler>> \in Seq(Byte)
        /\ Len(<<Filler, Filler, Filler, Filler>>) = 4
    BY <2>1
  <2>3. <<>> \in Seq(Byte) /\ Len(<<>>) = 0
    OBVIOUS
  <2>. QED
    BY <1>1, <2>2, <2>3 DEF KeyBytes
<1>7. Encoded[f] = (<<a, b>> \o LengthBytes(f)) \o KeyBytes(f)
  BY <1>3, <1>4, Zenon DEF Encoded
<1>8. PICK s \in Seq(Byte), t \in Seq(Byte) : s = LengthBytes(f) /\ t = KeyBytes(f)
  BY <1>5, <1>6
<1>9. PICK h : h = (<<a, b>> \o s) \o t
  OBVIOUS
<1>10. /\ h \in Seq(Byte) /\ Len(h) = 2 + Len(s) + Len(t) /\ h[1] = a /\ h[2] = b
       /\ \A k \in 1..Len(s) : h[k + 2] = s[k]
  BY <1>9, HeaderOfParts
<1>11. h = Encoded[f]
  BY <1>7, <1>8, <1>9
<1>. QED
  BY <1>3, <1>4, <1>5, <1>6, <1>8, <1>10, <1>11

\* The first bytes of the buffer are the beginning of frame f, as far as they are there.
Holds(p, n, f) == \A k \in 0..13 : k < n /\ k < Len(Encoded[f]) => p[k] = Encoded[f][k + 1]

\* From two bytes on the parser knows the frame's header.
LEMMA HeaderSeen ==
  ASSUME NEW f \in Frames, NEW p \in HeaderBytes, NEW n \in Nat, n >= 2, Holds(p, n, f)
  PROVE  /\ Opcode(p) = f.opcode /\ ExtLen(p) = f.ext /\ HeaderLen(p) = Len(Encoded[f])
         /\ \A k \in 1..f.ext : k + 1 < n => p[k + 1] = LengthBytes(f)[k]
<1>1. /\ f.opcode \in 0..15 /\ f.masked \in BOOLEAN /\ f.ext \in {0, 2, 8}
      /\ f.length \in Nat /\ Fits(f)
  BY FrameParts
<1>2. /\ Len(Encoded[f]) = 2 + f.ext + (IF f.masked THEN 4 ELSE 0)
      /\ Encoded[f][1] = 128 + f.opcode
      /\ Encoded[f][2] = (IF f.masked THEN 128 ELSE 0) + LengthCode(f)
      /\ \A k \in 1..f.ext : Encoded[f][k + 2] = LengthBytes(f)[k]
  BY EncodedHeader
<1>3. Len(Encoded[f]) >= 2 + f.ext /\ Len(Encoded[f]) \in 2..14
  BY <1>1, <1>2
<1>4. p[0] = 128 + f.opcode /\ p[1] = (IF f.masked THEN 128 ELSE 0) + LengthCode(f)
  <2>1. 0 \in 0..13 /\ 1 \in 0..13 /\ 0 + 1 = 1 /\ 1 + 1 = 2
    OBVIOUS
  <2>2. p[0] = Encoded[f][0 + 1] /\ p[1] = Encoded[f][1 + 1]
    BY <1>3, <2>1 DEF Holds
  <2>. QED
    BY <1>2, <2>1, <2>2
<1>5. LengthCode(f) \in 0..127
  BY <1>1 DEF LengthCode, Fits
<1>6. Opcode(p) = f.opcode
  <2>1. (128 + f.opcode) % 16 = f.opcode
    BY <1>1
  <2>. QED
    BY <1>4, <2>1 DEF Opcode
<1>7. Len7(p) = LengthCode(f) /\ (Masked(p) <=> f.masked)
  <2>1. LengthCode(f) \in Nat /\ LengthCode(f) <= 127
    BY <1>5
  <2> HIDE DEF LengthCode
  <2>2. CASE f.masked
    <3>1. p[1] = 128 + LengthCode(f)
      BY <1>4, <2>2
    <3>2. (128 + LengthCode(f)) % 128 = LengthCode(f) /\ 128 + LengthCode(f) >= 128
      BY <2>1
    <3>. QED
      BY <2>2, <3>1, <3>2 DEF Len7, Masked
  <2>3. CASE ~f.masked
    <3>1. p[1] = LengthCode(f)
      BY <1>4, <2>1, <2>3
    <3>2. LengthCode(f) % 128 = LengthCode(f) /\ ~(LengthCode(f) >= 128)
      BY <2>1, SevenBits
    <3>. QED
      BY <2>3, <3>1, <3>2 DEF Len7, Masked
  <2>. QED
    BY <1>1, <2>2, <2>3
<1>8. ExtLen(p) = f.ext
  BY <1>1, <1>7 DEF ExtLen, LengthCode, Fits
<1>9. HeaderLen(p) = Len(Encoded[f])
  BY <1>1, <1>2, <1>7, <1>8 DEF HeaderLen
<1>10. ASSUME NEW k \in 1..f.ext, k + 1 < n PROVE p[k + 1] = LengthBytes(f)[k]
  <2>1. k + 1 \in 0..13 /\ k + 1 < Len(Encoded[f]) /\ (k + 1) + 1 = k + 2
    BY <1>1, <1>3
  <2>2. p[k + 1] = Encoded[f][(k + 1) + 1]
    BY <1>10, <2>1 DEF Holds
  <2>. QED
    BY <1>2, <2>1, <2>2
<1>. QED
  BY <1>6, <1>8, <1>9, <1>10

\* With the whole header there the parser knows the length, or that it is beyond the limit.
LEMMA LengthSeen ==
  ASSUME NEW f \in Frames, NEW p \in HeaderBytes, NEW n \in Nat, n >= 2, Holds(p, n, f),
         n >= Len(Encoded[f])
  PROVE  /\ f.high = 0 => PayloadLen(p) = f.length
         /\ f.high # 0 => PayloadLen(p) = MaxPayload + 1
<1>1. /\ f.ext \in {0, 2, 8} /\ f.length \in Nat /\ f.high \in Byte /\ Fits(f) /\ f.masked \in BOOLEAN
  BY FrameParts
<1>2. ExtLen(p) = f.ext
  BY HeaderSeen
<1>3. n >= 2 + f.ext
  <2>1. Len(Encoded[f]) = 2 + f.ext + (IF f.masked THEN 4 ELSE 0)
    BY EncodedHeader
  <2>. QED
    BY <1>1, <2>1
<1>4. \A k \in 1..f.ext : p[k + 1] = LengthBytes(f)[k]
  <2>. SUFFICES ASSUME NEW k \in 1..f.ext PROVE p[k + 1] = LengthBytes(f)[k]
    OBVIOUS
  <2>1. k + 1 < n
    BY <1>1, <1>3
  <2>. QED
    BY <2>1, HeaderSeen
<1>5. CASE f.ext = 0
  <2>1. Len7(p) = f.length /\ f.high = 0
    <3>1. f.high = 0 /\ f.length < 126
      BY <1>1, <1>5, SMT DEF Fits
    <3>2. Encoded[f][2] = (IF f.masked THEN 128 ELSE 0) + f.length /\ Len(Encoded[f]) >= 2
      BY <1>1, <1>5, EncodedHeader DEF LengthCode
    <3>3. p[1] = (IF f.masked THEN 128 ELSE 0) + f.length
      <4>1. 1 \in 0..13 /\ 1 + 1 = 2
        OBVIOUS
      <4>2. p[1] = Encoded[f][1 + 1]
        BY <3>2, <4>1, EncodedHeader, <1>1 DEF Holds
      <4>. QED
        BY <3>2, <4>1, <4>2
    <3>4. f.length % 128 = f.length /\ (128 + f.length) % 128 = f.length /\ 0 + f.length = f.length
      BY <1>1, <3>1
    <3>5. Len7(p) = f.length
      BY <1>1, <3>3, <3>4 DEF Len7
    <3>. QED
      BY <3>1, <3>5
  <2>. QED
    BY <1>2, <1>5, <2>1 DEF PayloadLen
<1>6. CASE f.ext = 2
  <2>1. LengthBytes(f) = <<f.length \div 256, f.length % 256>>
    BY <1>6 DEF LengthBytes
  <2>2. p[1 + 1] = LengthBytes(f)[1] /\ p[2 + 1] = LengthBytes(f)[2]
    BY <1>4, <1>6
  <2>3. p[2] = f.length \div 256 /\ p[3] = f.length % 256
    BY <2>1, <2>2
  <2>4. f.length <= 65535 /\ f.high = 0
    BY <1>1, <1>6, SMT DEF Fits
  <2>5. p[2] * 256 + p[3] = f.length
    BY <1>1, <2>3, <2>4, TwoBytes
  <2>6. PayloadLen(p) = p[2] * 256 + p[3]
    BY <1>2, <1>6 DEF PayloadLen
  <2>. QED
    BY <2>4, <2>5, <2>6
<1>7. CASE f.ext = 8
  <2> DEFINE l == f.length
  <2>1. LengthBytes(f) = <<f.high, 0, 0, 0, l \div 16777216, (l \div 65536) % 256, (l \div 256) % 256, l % 256>>
    BY <1>7, SMT DEF LengthBytes
  <2>2. /\ p[1 + 1] = LengthBytes(f)[1] /\ p[2 + 1] = LengthBytes(f)[2] /\ p[3 + 1] = LengthBytes(f)[3]
        /\ p[4 + 1] = LengthBytes(f)[4] /\ p[5 + 1] = LengthBytes(f)[5] /\ p[6 + 1] = LengthBytes(f)[6]
        /\ p[7 + 1] = LengthBytes(f)[7] /\ p[8 + 1] = LengthBytes(f)[8]
    BY <1>4, <1>7
  <2>3. /\ p[2] = f.high /\ p[3] = 0 /\ p[4] = 0 /\ p[5] = 0 /\ p[6] = l \div 16777216
        /\ p[7] = (l \div 65536) % 256 /\ p[8] = (l \div 256) % 256 /\ p[9] = l % 256
    BY <2>1, <2>2, SMT
  <2>4. l \in Nat /\ l <= 2147483647
    BY <1>1, <1>7, SMT DEF Fits
  <2> HIDE DEF l
  <2>5. p[6] * 16777216 + p[7] * 65536 + p[8] * 256 + p[9] = l
    <3>1. p[6] = Byte3(l) /\ p[7] = Byte2(l) /\ p[8] = Byte1(l) /\ p[9] = Byte0(l)
      BY <2>3 DEF Byte0, Byte1, Byte2, Byte3
    <3>2. Byte3(l) * 16777216 + Byte2(l) * 65536 + Byte1(l) * 256 + Byte0(l) = l
      BY <2>4, FourBytes DEF Byte0, Byte1, Byte2, Byte3
    <3>. QED
      BY <3>1, <3>2, SMT
  <2>6. p[6] \in Nat /\ p[6] <= 127 /\ ~(p[6] >= 128)
    <3>1. PICK b \in Nat : b = l \div 16777216 /\ b <= 127
      BY <2>4, SMT
    <3>2. ~(b >= 128)
      BY <3>1
    <3>. QED
      BY <2>3, <3>1, <3>2, SMT
  <2>7. Beyond31(p) <=> f.high # 0
    <3>1. \A k \in 2..5 : k = 2 \/ k = 3 \/ k = 4 \/ k = 5
      OBVIOUS
    <3>2. 2 \in 2..5
      OBVIOUS
    <3>. QED
      BY <2>3, <2>6, <3>1, <3>2, SMT DEF Beyond31
  <2>8. PayloadLen(p) = Ext8(p)
    BY <1>2, <1>7, SMT DEF PayloadLen
  <2>. QED
    BY <2>5, <2>7, <2>8, SMT DEF Ext8, l
<1>. QED
  BY <1>1, <1>5, <1>6, <1>7

\* What try_consume_frame() makes of a buffer that begins with frame f: it takes the frame exactly
\* when it is legal and its last byte is there, and refuses one that is not with its header, if
\* not before.
LEMMA Verdict ==
  ASSUME NEW f \in Frames, NEW p \in HeaderBytes, NEW n \in Nat, Holds(p, n, f)
  PROVE  /\ Complete(p, n) => /\ Legal(f) /\ n >= FrameLen[f] /\ TotalLen(p) = FrameLen[f]
                              /\ PayloadLen(p) = f.length /\ Opcode(p) = f.opcode
         /\ Broken(p, n) => ~Legal(f)
         /\ NeedMore(p, n) => n < FrameLen[f] /\ (~Legal(f) => n < Len(Encoded[f]))
<1> DEFINE size == Len(Encoded[f])
<1>1. /\ f.ext \in {0, 2, 8} /\ f.length \in Nat /\ f.high \in Byte /\ f.masked \in BOOLEAN
  BY FrameParts
<1>2. size \in 2..14 /\ size >= 2 + f.ext
  <2>1. size = 2 + f.ext + (IF f.masked THEN 4 ELSE 0)
    BY EncodedHeader
  <2> HIDE DEF size
  <2>. QED
    BY <1>1, <2>1
<1> HIDE DEF size
<1>3. FrameLen[f] = size + (IF Legal(f) THEN f.length ELSE 3)
  BY DEF FrameLen, size
<1>4. FrameLen[f] \in Nat /\ FrameLen[f] >= size
  BY <1>1, <1>2, <1>3
<1>5. MaxPayload \in Nat
  BY FrameAssumption, SMT
<1>6. f.high \in Nat /\ 0 <= f.high
  BY <1>1 DEF Byte
<1>7. CASE n < 2
  <2>1. ~Complete(p, n) /\ ~Broken(p, n)
    BY <1>7 DEF Complete, Broken
  <2>2. n < size /\ n < FrameLen[f]
    BY <1>2, <1>4, <1>7
  <2>. QED
    BY <2>1, <2>2 DEF size
<1>8. CASE n >= 2 /\ n < size
  <2>1. ExtLen(p) = f.ext /\ HeaderLen(p) = size
    BY <1>8, HeaderSeen DEF size
  <2>2. ~Complete(p, n)
    BY <1>2, <1>8, <2>1 DEF Complete
  <2>3. ASSUME Broken(p, n) PROVE ~Legal(f)
    <3>1. n >= 10 /\ f.ext = 8 /\ p[2] >= 128
      BY <1>2, <1>8, <2>1, <2>3 DEF Broken
    <3>2. p[1 + 1] = LengthBytes(f)[1]
      BY <1>8, <3>1, HeaderSeen
    <3>3. LengthBytes(f)[1] = f.high
      BY <3>1, SMT DEF LengthBytes
    <3>. QED
      BY <1>6, <3>1, <3>2, <3>3 DEF Legal
  <2>. QED
    BY <1>2, <1>4, <1>8, <2>2, <2>3 DEF size
<1>9. CASE n >= size
  <2>1. n >= 2
    BY <1>2, <1>9
  <2>2. Opcode(p) = f.opcode /\ ExtLen(p) = f.ext /\ HeaderLen(p) = size
    BY <2>1, HeaderSeen DEF size
  <2>3. (f.high = 0 => PayloadLen(p) = f.length) /\ (f.high # 0 => PayloadLen(p) = MaxPayload + 1)
    BY <1>9, <2>1, LengthSeen DEF size
  <2>4. PayloadLen(p) > MaxPayload <=> ~Legal(f)
    BY <1>1, <1>5, <2>3 DEF Legal
  <2>5. Broken(p, n) <=> ~Legal(f)
    <3>1. ASSUME ExtLen(p) = 8, n >= 10, p[2] >= 128 PROVE ~Legal(f)
      <4>1. p[1 + 1] = LengthBytes(f)[1]
        BY <2>1, <2>2, <3>1, HeaderSeen
      <4>2. LengthBytes(f)[1] = f.high
        BY <2>2, <3>1, SMT DEF LengthBytes
      <4>. QED
        BY <1>6, <3>1, <4>1, <4>2 DEF Legal
    <3>. QED
      BY <1>9, <2>1, <2>2, <2>4, <3>1 DEF Broken
  <2>6. CASE Legal(f)
    <3>1. TotalLen(p) = FrameLen[f] /\ PayloadLen(p) = f.length
      BY <1>3, <2>2, <2>3, <2>6 DEF TotalLen, Legal
    <3>2. Complete(p, n) <=> n >= FrameLen[f]
      BY <1>9, <2>1, <2>2, <2>5, <2>6, <3>1 DEF Complete
    <3>. QED
      BY <1>4, <2>2, <2>5, <2>6, <3>1, <3>2 DEF NeedMore
  <2>7. CASE ~Legal(f)
    BY <2>5, <2>7 DEF Complete, NeedMore
  <2>. QED
    BY <2>6, <2>7
<1>. QED
  BY <1>2, <1>7, <1>8, <1>9

-----------------------------------------------------------------------------
(* The stream *)

\* The frames lie one after another in the stream, and every byte of it is in one of them.
StartsRight ==
  /\ Offset(0) = 0
  /\ \A i \in 1..Len(wire) : Offset(i) = Offset(i - 1) + FrameLen[wire[i]]
  /\ \A i \in 0..Len(wire), j \in 0..Len(wire) : i < j => Offset(i) < Offset(j)
  /\ \A pos \in Nat : pos < Offset(Len(wire)) =>
       \E k \in 0..Len(wire) - 1 : Offset(k) <= pos /\ pos < Offset(k + 1)

\* A frame has at least the two bytes of its header.
LEMMA FrameLenType ==
  ASSUME NEW f \in Frames
  PROVE  FrameLen[f] \in Nat \ {0} /\ FrameLen[f] >= Len(Encoded[f]) /\ Len(Encoded[f]) \in 2..14
<1>1. /\ f.ext \in {0, 2, 8} /\ f.length \in Nat /\ f.masked \in BOOLEAN
  BY FrameParts
<1>2. Len(Encoded[f]) = 2 + f.ext + (IF f.masked THEN 4 ELSE 0)
  BY EncodedHeader
<1>3. Len(Encoded[f]) \in 2..14
  BY <1>1, <1>2
<1>4. FrameLen[f] = Len(Encoded[f]) + (IF Legal(f) THEN f.length ELSE 3)
  BY DEF FrameLen
<1>5. PICK size \in 2..14 : size = Len(Encoded[f])
  BY <1>3
<1>6. PICK more \in Nat : more = IF Legal(f) THEN f.length ELSE 3
  BY <1>1
<1>7. FrameLen[f] = size + more
  BY <1>4, <1>5, <1>6
<1>8. size + more \in Nat \ {0} /\ size + more >= size
  BY SMT
<1>. QED
  BY <1>5, <1>7, <1>8, Zenon

\* Where a frame begins is a number.
LEMMA OffsetType ==
  ASSUME ReaderTypes, NEW i \in 0..Len(wire)
  PROVE  Offset(i) \in Nat
<1>1. starts \in Seq(Nat) /\ Len(starts) = Len(wire) + 1 /\ Len(wire) \in Nat
  BY LenProperties DEF ReaderTypes
<1>2. i + 1 \in 1..Len(starts)
  BY <1>1
<1>. QED
  BY <1>1, <1>2, ElementOfSeq DEF Offset

\* The byte at a place of frame j + 1.
LEMMA ByteOfFrame ==
  ASSUME ReaderTypes, StartsRight, NEW j \in 0..Len(wire) - 1, NEW pos \in Nat,
         Offset(j) <= pos, pos < Offset(j + 1)
  PROVE  LET header == Encoded[wire[j + 1]]
             at == pos - Offset(j) + 1 IN
         /\ wire[j + 1] \in Frames /\ at \in Nat \ {0}
         /\ ByteAt(pos) = IF at <= Len(header) THEN header[at] ELSE Filler
         /\ ByteAt(pos) \in Byte
<1>1. wire \in Seq(Frames) /\ Len(wire) \in Nat
  BY LenProperties DEF ReaderTypes
<1>2. wire[j + 1] \in Frames
  BY <1>1, ElementOfSeq
<1>3. \A k \in 0..Len(wire) : Offset(k) \in Nat
  BY OffsetType
<1>4. ASSUME NEW k \in 0..Len(wire) - 1, Offset(k) <= pos, pos < Offset(k + 1)
      PROVE  k = j
  <2>1. k \in 0..Len(wire) /\ k + 1 \in 0..Len(wire) /\ j \in 0..Len(wire) /\ j + 1 \in 0..Len(wire)
    BY <1>1
  <2>2. CASE k < j
    <3>1. Offset(k + 1) <= Offset(j)
      <4>1. k + 1 = j \/ k + 1 < j
        BY <1>1, <2>2
      <4>. QED
        BY <1>3, <2>1, <4>1 DEF StartsRight
    <3>. QED
      BY <1>3, <1>4, <2>1, <3>1
  <2>3. CASE j < k
    <3>1. Offset(j + 1) <= Offset(k)
      <4>1. j + 1 = k \/ j + 1 < k
        BY <1>1, <2>3
      <4>. QED
        BY <1>3, <2>1, <4>1 DEF StartsRight
    <3>. QED
      BY <1>3, <1>4, <2>1, <3>1
  <2>. QED
    BY <1>1, <2>2, <2>3
<1> DEFINE i == CHOOSE k \in 0..Len(wire) - 1 : Offset(k) <= pos /\ pos < Offset(k + 1)
<1>5. i = j
  <2>1. i \in 0..Len(wire) - 1 /\ Offset(i) <= pos /\ pos < Offset(i + 1)
    OBVIOUS
  <2> HIDE DEF i
  <2>. QED
    BY <1>4, <2>1
<1> HIDE DEF i
<1> DEFINE header == Encoded[wire[j + 1]]
           at == pos - Offset(j) + 1
<1>6. ByteAt(pos) = IF at <= Len(header) THEN header[at] ELSE Filler
  BY <1>5, Zenon DEF ByteAt, i
<1>7. at \in Nat \ {0}
  BY <1>1, <1>3
<1>8. header \in Seq(Byte)
  BY <1>2, EncodedHeader
<1>9. ByteAt(pos) \in Byte
  <2> HIDE DEF header, at
  <2>1. CASE at <= Len(header)
    <3>1. at \in 1..Len(header)
      BY <1>7, <1>8, <2>1, LenProperties
    <3>. QED
      BY <1>6, <1>8, <2>1, <3>1, ElementOfSeq
  <2>2. CASE ~(at <= Len(header))
    <3>1. Filler \in Byte
      BY DEF Filler, Byte
    <3>. QED
      BY <1>6, <2>2, <3>1
  <2>. QED
    BY <2>1, <2>2
<1>. QED
  BY <1>2, <1>6, <1>7, <1>9

-----------------------------------------------------------------------------
(* The reader *)

\* What was handled are the first frames, each legal, with the opcode and the length they have.
TakenRight ==
  /\ Len(taken) <= Len(wire)
  /\ consumed = Offset(Len(taken))
  /\ \A i \in 1..Len(taken) :
       Legal(wire[i]) /\ taken[i] = [opcode |-> wire[i].opcode, length |-> wire[i].length]

\* A connection that was closed has a frame that was not handled.
ClosedRight == closed => ~driving /\ Len(taken) < Len(wire)

\* The inductive invariant.
ReaderInv ==
  ReaderTypes /\ StartsRight /\ TakenRight /\ ClosedRight /\ RefusedRightly /\ NothingLeftBehind

\* A buffer that is not empty begins with the frame that follows those handled.
LEMMA BufferHolds ==
  ASSUME ReaderInv
  PROVE  /\ BufferStart \in HeaderBytes /\ Buffered \in Nat
         /\ Buffered > 0 => /\ Len(taken) + 1 \in 1..Len(wire)
                            /\ wire[Len(taken) + 1] \in Frames
                            /\ Holds(BufferStart, Buffered, wire[Len(taken) + 1])
<1>1. ReaderTypes /\ StartsRight /\ TakenRight
  BY DEF ReaderInv
<1>2. wire \in Seq(Frames) /\ Len(wire) \in Nat /\ Len(taken) \in Nat /\ Len(taken) <= Len(wire)
  BY <1>1, LenProperties DEF ReaderTypes, TakenRight
<1>3. \A k \in 0..Len(wire) : Offset(k) \in Nat
  BY <1>1, OffsetType
<1>4. arrived \in Nat /\ arrived <= Offset(Len(wire)) /\ consumed \in Nat /\ consumed <= arrived
  BY <1>1, <1>2, <1>3 DEF ReaderTypes
<1>5. Buffered \in Nat
  BY <1>4 DEF Buffered
<1>6. BufferStart \in HeaderBytes
  <2>. SUFFICES ASSUME NEW k \in 0..13
                PROVE  (IF k < Buffered THEN ByteAt(consumed + k) ELSE 0) \in Byte
    BY DEF BufferStart, HeaderBytes
  <2>1. 0 \in Byte
    BY DEF Byte
  <2>2. ASSUME k < Buffered PROVE ByteAt(consumed + k) \in Byte
    <3>1. consumed + k \in Nat /\ consumed + k < Offset(Len(wire))
      BY <1>2, <1>3, <1>4, <2>2 DEF Buffered
    <3>2. PICK j \in 0..Len(wire) - 1 : Offset(j) <= consumed + k /\ consumed + k < Offset(j + 1)
      BY <1>1, <3>1 DEF StartsRight
    <3>. QED
      BY <1>1, <3>1, <3>2, ByteOfFrame
  <2>. QED
    BY <2>1, <2>2
<1>7. ASSUME Buffered > 0
      PROVE  /\ Len(taken) + 1 \in 1..Len(wire) /\ wire[Len(taken) + 1] \in Frames
             /\ Holds(BufferStart, Buffered, wire[Len(taken) + 1])
  <2> DEFINE j == Len(taken)
             f == wire[j + 1]
  <2>1. consumed = Offset(j) /\ Offset(j) < Offset(Len(wire))
    BY <1>1, <1>2, <1>3, <1>4, <1>7 DEF TakenRight, Buffered
  <2>2. j # Len(wire)
    BY <1>2, <1>3, <2>1
  <2>3. j \in 0..Len(wire) - 1 /\ j + 1 \in 1..Len(wire)
    BY <1>2, <2>2
  <2>4. f \in Frames
    BY <1>2, <2>3, ElementOfSeq
  <2>5. Offset(j + 1) = Offset(j) + FrameLen[f]
    <3>1. (j + 1) - 1 = j
      BY <1>2
    <3>. QED
      BY <1>1, <2>3, <3>1 DEF StartsRight
  <2>6. Len(Encoded[f]) \in Nat /\ FrameLen[f] \in Nat /\ FrameLen[f] >= Len(Encoded[f])
    BY <2>4, FrameLenType
  <2> HIDE DEF j, f
  <2>7. ASSUME NEW k \in 0..13, k < Buffered, k < Len(Encoded[f])
        PROVE  BufferStart[k] = Encoded[f][k + 1]
    <3>1. consumed + k \in Nat /\ Offset(j) <= consumed + k /\ consumed + k < Offset(j + 1)
      <4>1. k \in Nat /\ k < FrameLen[f]
        BY <2>6, <2>7
      <4>2. Offset(j) \in Nat /\ consumed = Offset(j)
        BY <1>4, <2>1
      <4>. QED
        BY <2>5, <2>6, <4>1, <4>2
    <3>2. (consumed + k) - Offset(j) + 1 = k + 1 /\ k + 1 <= Len(Encoded[f])
      BY <1>4, <2>1, <2>6, <2>7
    <3>3. ByteAt(consumed + k) = Encoded[f][k + 1]
      BY <1>1, <2>3, <3>1, <3>2, ByteOfFrame DEF f
    <3>4. BufferStart[k] = ByteAt(consumed + k)
      BY <2>7 DEF BufferStart
    <3>. QED
      BY <3>3, <3>4
  <2>. QED
    BY <2>3, <2>4, <2>7 DEF Holds, f, j
<1>. QED
  BY <1>5, <1>6, <1>7

\* Nothing was written: the invariant holds.
LEMMA ReaderInitInv == ReaderInit => ReaderInv
<1>. SUFFICES ASSUME ReaderInit PROVE ReaderInv
  OBVIOUS
<1>1. Len(wire) = 0 /\ Len(taken) = 0 /\ Offset(0) = 0
  BY DEF ReaderInit, Offset
<1>2. ReaderTypes
  <2>1. starts \in Seq(Nat) /\ Len(starts) = 1
    BY DEF ReaderInit
  <2>2. wire \in Seq(Frames) /\ taken \in Seq([opcode : 0..15, length : 0..MaxPayload])
    BY DEF ReaderInit
  <2>3. MaxFrames \in Nat
    BY FrameReaderAssumption
  <2>4. arrived = 0 /\ consumed = 0 /\ driving = FALSE /\ closed = FALSE
    BY DEF ReaderInit
  <2>5. arrived \in 0..Offset(Len(wire)) /\ consumed \in 0..arrived
    BY <1>1, <2>4
  <2>6. Len(wire) <= MaxFrames /\ Len(starts) = Len(wire) + 1
    BY <1>1, <2>1, <2>3
  <2>7. driving \in BOOLEAN /\ closed \in BOOLEAN
    BY <2>4
  <2>. QED
    BY <2>1, <2>2, <2>5, <2>6, <2>7 DEF ReaderTypes
<1>3. StartsRight
  BY <1>1 DEF StartsRight
<1>4. TakenRight /\ ClosedRight /\ RefusedRightly /\ NothingLeftBehind
  BY <1>1 DEF ReaderInit, TakenRight, ClosedRight, RefusedRightly, NothingLeftBehind, Buffered
<1>. QED
  BY <1>2, <1>3, <1>4 DEF ReaderInv

\* One more frame in the stream begins where the last one ends.
LEMMA WriteStarts ==
  ASSUME ReaderInv, NEW f \in Frames, Write(f)
  PROVE  /\ wire' \in Seq(Frames) /\ Len(wire') = Len(wire) + 1 /\ Len(wire') <= MaxFrames
         /\ starts' \in Seq(Nat) /\ Len(starts') = Len(wire') + 1
         /\ \A i \in 1..Len(wire) : wire'[i] = wire[i]
         /\ \A i \in 0..Len(wire) : Offset(i)' = Offset(i)
         /\ Offset(Len(wire)) <= starts'[Len(wire') + 1]
         /\ StartsRight'
<1> DEFINE n == Len(wire)
           end == Offset(n) + FrameLen[f]
<1>1. ReaderTypes /\ StartsRight
  BY DEF ReaderInv
<1>2. /\ wire \in Seq(Frames) /\ n \in Nat /\ starts \in Seq(Nat) /\ Len(starts) = n + 1
      /\ n < MaxFrames /\ MaxFrames \in Nat
  BY <1>1, FrameReaderAssumption, LenProperties DEF ReaderTypes, Write
<1>3. FrameLen[f] \in Nat \ {0}
  BY FrameLenType
<1>4. \A i \in 0..n : Offset(i) \in Nat
  BY <1>1, OffsetType
<1>5. end \in Nat /\ Offset(n) < end
  BY <1>2, <1>3, <1>4
<1>6. wire' = Append(wire, f) /\ starts' = Append(starts, end)
  BY DEF Write
<1> HIDE DEF end
<1>7. /\ wire' \in Seq(Frames) /\ Len(wire') = n + 1 /\ wire'[n + 1] = f
      /\ \A i \in 1..n : wire'[i] = wire[i]
  BY <1>2, <1>6, AppendProperties
<1>8. /\ starts' \in Seq(Nat) /\ Len(starts') = n + 2 /\ starts'[n + 2] = end
      /\ \A i \in 1..n + 1 : starts'[i] = starts[i]
  <2>1. (n + 1) + 1 = n + 2
    BY <1>2
  <2>. QED
    BY <1>2, <1>5, <1>6, <2>1, AppendProperties
<1>9. \A i \in 0..n : Offset(i)' = Offset(i)
  <2>. SUFFICES ASSUME NEW i \in 0..n PROVE starts'[i + 1] = starts[i + 1]
    BY DEF Offset
  <2>1. i + 1 \in 1..n + 1
    BY <1>2
  <2>. QED
    BY <1>8, <2>1
<1>10. \A i \in 0..n + 1 : i = n + 1 \/ i \in 0..n
  BY <1>2
<1>11. StartsRight'
  <2> DEFINE off(i) == starts'[i + 1]
  <2>1. \A i \in 0..n : off(i) = Offset(i) /\ off(i) \in Nat
    BY <1>4, <1>9 DEF Offset
  <2>2. off(n + 1) = end
    <3>1. (n + 1) + 1 = n + 2
      BY <1>2
    <3>. QED
      BY <1>8, <3>1
  <2>3. 0 \in 0..n /\ n \in 0..n
    BY <1>2
  <2>4. off(0) = 0
    BY <1>1, <2>1, <2>3 DEF StartsRight
  <2> HIDE DEF off
  <2>5. ASSUME NEW i \in 1..n + 1 PROVE off(i) = off(i - 1) + FrameLen[wire'[i]]
    <3>1. CASE i = n + 1
      <4>1. i - 1 = n
        BY <1>2, <3>1
      <4>. QED
        BY <1>7, <2>1, <2>2, <2>3, <3>1, <4>1 DEF end
    <3>2. CASE i # n + 1
      <4>1. i \in 1..n /\ i - 1 \in 0..n /\ i \in 0..n
        BY <1>2, <3>2
      <4>. QED
        BY <1>1, <1>7, <2>1, <4>1 DEF StartsRight
    <3>. QED
      BY <3>1, <3>2
  <2>6. ASSUME NEW i \in 0..n + 1, NEW j \in 0..n + 1, i < j PROVE off(i) < off(j)
    <3>1. i \in 0..n
      BY <1>2, <2>6
    <3>2. CASE j \in 0..n
      BY <1>1, <2>1, <2>6, <3>1, <3>2 DEF StartsRight
    <3>3. CASE j = n + 1
      <4>1. off(i) <= Offset(n)
        <5>1. CASE i = n
          BY <1>4, <2>1, <2>3, <5>1
        <5>2. CASE i < n
          BY <1>1, <1>4, <2>1, <2>3, <3>1, <5>2 DEF StartsRight
        <5>. QED
          BY <1>2, <3>1, <5>1, <5>2
      <4>. QED
        BY <1>4, <1>5, <2>1, <2>2, <2>3, <3>1, <3>3, <4>1
    <3>. QED
      BY <1>10, <3>2, <3>3
  <2>7. ASSUME NEW pos \in Nat, pos < off(n + 1)
        PROVE  \E k \in 0..n : off(k) <= pos /\ pos < off(k + 1)
    <3>1. CASE pos < Offset(n)
      <4>1. PICK k \in 0..n - 1 : Offset(k) <= pos /\ pos < Offset(k + 1)
        BY <1>1, <3>1 DEF StartsRight
      <4>2. k \in 0..n /\ k + 1 \in 0..n
        BY <1>2
      <4>. QED
        BY <2>1, <4>1, <4>2
    <3>2. CASE ~(pos < Offset(n))
      <4>1. off(n) <= pos
        BY <1>4, <2>1, <2>3, <3>2
      <4>. QED
        BY <2>3, <2>7, <4>1
    <3>. QED
      BY <3>1, <3>2
  <2>8. Len(wire') = n + 1 /\ (n + 1) - 1 = n
    BY <1>2, <1>7
  <2>9. /\ off(0) = 0
        /\ \A i \in 1..Len(wire') : off(i) = off(i - 1) + FrameLen[wire'[i]]
        /\ \A i \in 0..Len(wire'), j \in 0..Len(wire') : i < j => off(i) < off(j)
        /\ \A pos \in Nat : pos < off(Len(wire')) =>
             \E k \in 0..Len(wire') - 1 : off(k) <= pos /\ pos < off(k + 1)
    BY <2>4, <2>5, <2>6, <2>7, <2>8
  <2>. QED
    BY <2>9 DEF StartsRight, Offset, off
<1>12. Offset(Len(wire)) <= starts'[Len(wire') + 1] /\ Len(wire') <= MaxFrames /\ Len(starts') = Len(wire') + 1
  <2>1. (n + 1) + 1 = n + 2 /\ n \in 0..n /\ n + 1 <= MaxFrames
    BY <1>2
  <2>2. Offset(n) <= end
    BY <1>4, <1>5, <2>1
  <2>. QED
    BY <1>7, <1>8, <2>1, <2>2
<1>. QED
  BY <1>7, <1>8, <1>9, <1>11, <1>12

\* A write leaves what was read as it was.
LEMMA WriteInv ==
  ASSUME ReaderInv, NEW f \in Frames, Write(f)
  PROVE  ReaderInv'
<1>1. ReaderTypes /\ TakenRight /\ ClosedRight /\ RefusedRightly /\ NothingLeftBehind
  BY DEF ReaderInv
<1>2. /\ arrived' = arrived /\ consumed' = consumed /\ taken' = taken
      /\ driving' = driving /\ closed' = closed /\ Buffered' = Buffered
  BY DEF Write, Buffered
<1>3. /\ wire' \in Seq(Frames) /\ Len(wire') = Len(wire) + 1 /\ Len(wire') <= MaxFrames
      /\ starts' \in Seq(Nat) /\ Len(starts') = Len(wire') + 1
      /\ \A i \in 1..Len(wire) : wire'[i] = wire[i]
      /\ \A i \in 0..Len(wire) : Offset(i)' = Offset(i)
      /\ Offset(Len(wire)) <= starts'[Len(wire') + 1]
      /\ StartsRight'
  BY WriteStarts
<1>4. Len(wire) \in Nat /\ Len(taken) \in Nat /\ Len(taken) <= Len(wire)
  BY <1>1, LenProperties DEF ReaderTypes, TakenRight
<1>5. ReaderTypes'
  <2>1. arrived' \in 0..starts'[Len(wire') + 1]
    <3>1. arrived \in 0..Offset(Len(wire)) /\ Offset(Len(wire)) \in Nat
      BY <1>1, <1>4, OffsetType DEF ReaderTypes
    <3>2. Len(wire') + 1 \in 1..Len(starts')
      BY <1>3, <1>4
    <3>3. starts'[Len(wire') + 1] \in Nat
      BY <1>3, <3>2, ElementOfSeq
    <3>. QED
      BY <1>2, <1>3, <3>1, <3>3
  <2>2. consumed' \in 0..arrived' /\ taken' \in Seq([opcode : 0..15, length : 0..MaxPayload])
    BY <1>1, <1>2 DEF ReaderTypes
  <2>3. driving' \in BOOLEAN /\ closed' \in BOOLEAN
    BY <1>1, <1>2 DEF ReaderTypes
  <2>. QED
    BY <1>3, <2>1, <2>2, <2>3 DEF ReaderTypes, Offset
<1>6. TakenRight'
  <2>1. Len(taken') <= Len(wire')
    BY <1>2, <1>3, <1>4
  <2>2. consumed' = Offset(Len(taken))'
    <3>1. starts'[Len(taken) + 1] = starts[Len(taken) + 1]
      BY <1>3, <1>4 DEF Offset
    <3>. QED
      BY <1>1, <1>2, <3>1 DEF TakenRight, Offset
  <2>3. ASSUME NEW i \in 1..Len(taken')
        PROVE  Legal(wire'[i]) /\ taken'[i] = [opcode |-> wire'[i].opcode, length |-> wire'[i].length]
    <3>1. i \in 1..Len(taken) /\ i \in 1..Len(wire)
      BY <1>2, <1>4, <2>3
    <3>. QED
      BY <1>1, <1>2, <1>3, <3>1 DEF TakenRight
  <2>. QED
    BY <2>1, <2>2, <2>3 DEF TakenRight
<1>7. ASSUME Buffered > 0 PROVE wire'[Len(taken') + 1] = wire[Len(taken) + 1]
  BY <1>2, <1>3, <1>7, BufferHolds
<1>8. ClosedRight'
  BY <1>1, <1>2, <1>3, <1>4 DEF ClosedRight
<1>9. RefusedRightly'
  <2>. SUFFICES ASSUME closed PROVE RefusedRightly'
    BY <1>2 DEF RefusedRightly
  <2>1. Len(taken) + 1 \in 1..Len(wire)
    BY <1>1, <1>4 DEF ClosedRight
  <2>2. wire'[Len(taken') + 1] = wire[Len(taken) + 1]
    BY <1>2, <1>3, <2>1
  <2>3. Offset(Len(wire)) \in Nat /\ starts'[Len(wire') + 1] \in Nat /\ consumed \in Nat
    <3>1. Len(wire') + 1 \in 1..Len(starts')
      BY <1>3, <1>4
    <3>2. starts'[Len(wire') + 1] \in Nat
      BY <1>3, <3>1, ElementOfSeq
    <3>3. arrived \in Nat /\ consumed \in Nat
      BY <1>1, <1>4, OffsetType DEF ReaderTypes
    <3>. QED
      BY <1>1, <1>4, <3>2, <3>3, OffsetType
  <2>4. MaxReadBuffer \in Nat
    BY FrameReaderAssumption
  <2>5. CASE ~Legal(wire[Len(taken) + 1])
    BY <2>2, <2>5 DEF RefusedRightly
  <2>6. CASE Len(taken) + 1 < Len(wire) /\ Offset(Len(wire)) - consumed > MaxReadBuffer
    <3>1. Len(taken') + 1 < Len(wire')
      BY <1>2, <1>3, <1>4, <2>6
    <3>2. starts'[Len(wire') + 1] - consumed > MaxReadBuffer
      BY <1>3, <2>3, <2>4, <2>6
    <3>. QED
      BY <1>2, <3>1, <3>2 DEF RefusedRightly, Offset
  <2>. QED
    BY <1>1, <2>5, <2>6 DEF RefusedRightly
<1>10. NothingLeftBehind'
  BY <1>1, <1>2, <1>7 DEF NothingLeftBehind
<1>. QED
  BY <1>3, <1>5, <1>6, <1>8, <1>9, <1>10 DEF ReaderInv

\* A read ends in the stream.
LEMMA ReadsEndInStream ==
  ASSUME ReaderInv, NEW end \in ReadEnds
  PROVE  end \in Nat /\ end <= Offset(Len(wire))
<1>1. ReaderTypes /\ StartsRight
  BY DEF ReaderInv
<1>2. wire \in Seq(Frames) /\ Len(wire) \in Nat
  BY <1>1, LenProperties DEF ReaderTypes
<1>3. \A i \in 0..Len(wire) : Offset(i) \in Nat
  BY <1>1, OffsetType
<1>4. PICK i \in 1..Len(wire) :
        end \in {Offset(i - 1) + k : k \in {j \in 1..16 : j <= FrameLen[wire[i]]}
                                           \cup {FrameLen[wire[i]] - 1, FrameLen[wire[i]]}}
  BY DEF ReadEnds
<1>5. FrameLen[wire[i]] \in Nat \ {0}
  BY <1>2, ElementOfSeq, FrameLenType
<1>6. PICK k \in {j \in 1..16 : j <= FrameLen[wire[i]]} \cup {FrameLen[wire[i]] - 1, FrameLen[wire[i]]} :
        end = Offset(i - 1) + k
  BY <1>4
<1>7. k \in Nat /\ k <= FrameLen[wire[i]]
  BY <1>5, <1>6
<1>8. i \in 0..Len(wire) /\ i - 1 \in 0..Len(wire) /\ Len(wire) \in 0..Len(wire)
  BY <1>2
<1>9. Offset(i) = Offset(i - 1) + FrameLen[wire[i]]
  BY <1>1 DEF StartsRight
<1>10. Offset(i) <= Offset(Len(wire))
  <2>1. CASE i = Len(wire)
    BY <1>3, <1>8, <2>1
  <2>2. CASE i # Len(wire)
    <3>1. i < Len(wire)
      BY <1>2, <2>2
    <3>. QED
      BY <1>1, <1>3, <1>8, <3>1 DEF StartsRight
  <2>. QED
    BY <2>1, <2>2
<1>11. Offset(i - 1) \in Nat /\ Offset(Len(wire)) \in Nat
  BY <1>3, <1>8
<1>. QED
  BY <1>5, <1>6, <1>7, <1>9, <1>10, <1>11

\* More bytes come to be decided upon.
LEMMA AppendReadInv ==
  ASSUME ReaderInv, AppendRead
  PROVE  ReaderInv'
<1>1. ReaderTypes /\ StartsRight /\ TakenRight
  BY DEF ReaderInv
<1>2. PICK end \in ReadEnds : end > arrived /\ arrived' = end
  BY DEF AppendRead
<1>3. end \in Nat /\ end <= Offset(Len(wire))
  BY ReadsEndInStream
<1>4. /\ wire' = wire /\ starts' = starts /\ consumed' = consumed /\ taken' = taken
      /\ closed' = closed /\ driving' = TRUE /\ ~closed
  BY DEF AppendRead
<1>5. ReaderTypes'
  <2>1. arrived \in 0..Offset(Len(wire)) /\ Offset(Len(wire)) \in Nat /\ consumed \in 0..arrived
    <3>1. Len(wire) \in 0..Len(wire)
      BY <1>1, LenProperties DEF ReaderTypes
    <3>. QED
      BY <1>1, <3>1, OffsetType DEF ReaderTypes
  <2>2. end \in 0..Offset(Len(wire)) /\ consumed \in 0..end
    BY <1>2, <1>3, <2>1
  <2>3. arrived' \in 0..(starts'[Len(wire') + 1]) /\ consumed' \in 0..arrived'
    BY <1>2, <1>4, <2>2 DEF Offset
  <2>4. /\ wire' \in Seq(Frames) /\ Len(wire') <= MaxFrames
        /\ starts' \in Seq(Nat) /\ Len(starts') = Len(wire') + 1
        /\ taken' \in Seq([opcode : 0..15, length : 0..MaxPayload])
        /\ driving' \in BOOLEAN /\ closed' \in BOOLEAN
    BY <1>1, <1>4 DEF ReaderTypes
  <2>. QED
    BY <2>3, <2>4 DEF ReaderTypes, Offset
<1>6. StartsRight'
  BY <1>1, <1>4 DEF StartsRight, Offset
<1>7. TakenRight'
  BY <1>1, <1>4 DEF TakenRight, Offset
<1>8. ClosedRight' /\ RefusedRightly' /\ NothingLeftBehind'
  BY <1>4 DEF ClosedRight, RefusedRightly, NothingLeftBehind
<1>. QED
  BY <1>5, <1>6, <1>7, <1>8 DEF ReaderInv

\* More bytes come than the buffer may hold: there is a frame behind the one at the front, which
\* fits in the buffer if it is legal.
LEMMA AppendRefusedInv ==
  ASSUME ReaderInv, AppendRefused
  PROVE  ReaderInv'
<1> DEFINE n == Len(wire)
           j == Len(taken)
<1>1. ReaderTypes /\ StartsRight /\ TakenRight
  BY DEF ReaderInv
<1>2. PICK end \in ReadEnds : end > arrived /\ ~WithinLimit(end)
  BY DEF AppendRefused
<1>3. end \in Nat /\ end <= Offset(n)
  BY ReadsEndInStream
<1>4. /\ wire' = wire /\ starts' = starts /\ consumed' = consumed /\ taken' = taken
      /\ closed' = TRUE /\ driving' = FALSE
      /\ arrived' \in {arrived} \cup ReadEnds /\ arrived' >= arrived
  BY <1>1 DEF AppendRefused, ReaderTypes
<1>5. wire \in Seq(Frames) /\ n \in Nat /\ j \in Nat /\ j <= n /\ consumed = Offset(j)
  BY <1>1, LenProperties DEF ReaderTypes, TakenRight
<1>6. \A i \in 0..n : Offset(i) \in Nat
  BY <1>1, OffsetType
<1>7. MaxReadBuffer \in Nat /\ MaxPayload \in Nat /\ MaxReadBuffer >= MaxPayload + 14
  BY FrameReaderAssumption, FrameAssumption
<1>8. /\ arrived \in 0..Offset(n) /\ consumed \in 0..arrived
      /\ Offset(n) \in Nat /\ Offset(j) \in Nat
  BY <1>1, <1>5, <1>6 DEF ReaderTypes
<1>9. Offset(n) - consumed > MaxReadBuffer
  <2>1. end - consumed > MaxReadBuffer
    BY <1>2, <1>3, <1>7, <1>8 DEF WithinLimit
  <2>. QED
    BY <1>3, <1>7, <1>8, <2>1
<1> HIDE DEF n, j
<1>10. j < n /\ j + 1 \in 1..n
  <2>1. j # n
    BY <1>5, <1>7, <1>8, <1>9
  <2>. QED
    BY <1>5, <2>1
<1>11. RefusedRightly'
  <2>1. ASSUME Legal(wire[j + 1]) PROVE j + 1 < n
    <3>1. wire[j + 1] \in Frames
      BY <1>5, <1>10, ElementOfSeq DEF n
    <3>2. FrameLen[wire[j + 1]] = Len(Encoded[wire[j + 1]]) + wire[j + 1].length
      BY <2>1, <3>1, Zenon DEF FrameLen
    <3>3. Len(Encoded[wire[j + 1]]) \in 2..14
      BY <3>1, FrameLenType
    <3>4. wire[j + 1].length \in Nat /\ wire[j + 1].length <= MaxPayload
      BY <2>1, <3>1, FrameParts DEF Legal
    <3>5. FrameLen[wire[j + 1]] <= MaxPayload + 14 /\ FrameLen[wire[j + 1]] \in Nat
      <4>1. PICK size \in 2..14 : size = Len(Encoded[wire[j + 1]])
        BY <3>3
      <4>2. PICK l \in Nat : l = wire[j + 1].length /\ l <= MaxPayload
        BY <3>4
      <4>3. FrameLen[wire[j + 1]] = size + l
        BY <3>2, <4>1, <4>2
      <4>4. size + l \in Nat /\ size + l <= MaxPayload + 14
        BY <1>7, <4>2
      <4>. QED
        BY <4>3, <4>4
    <3>6. Offset(j + 1) = Offset(j) + FrameLen[wire[j + 1]]
      <4>1. (j + 1) - 1 = j
        BY <1>5
      <4>. QED
        BY <1>1, <1>10, <4>1 DEF StartsRight, n
    <3>7. j + 1 # n
      BY <1>5, <1>7, <1>8, <1>9, <3>5, <3>6
    <3>. QED
      BY <1>5, <1>10, <3>7
  <2>. QED
    BY <1>4, <1>9, <2>1 DEF RefusedRightly, Offset, n, j
<1>12. ReaderTypes'
  <2>1. arrived' \in 0..Offset(n)
    <3>1. CASE arrived' = arrived
      BY <1>8, <3>1
    <3>2. CASE arrived' \in ReadEnds
      BY <1>8, <3>2, ReadsEndInStream DEF n
    <3>. QED
      BY <1>4, <3>1, <3>2
  <2>2. consumed \in 0..arrived'
    BY <1>4, <1>8, <2>1
  <2>3. arrived' \in 0..(starts'[Len(wire') + 1]) /\ consumed' \in 0..arrived'
    BY <1>4, <2>1, <2>2 DEF Offset, n
  <2>4. /\ wire' \in Seq(Frames) /\ Len(wire') <= MaxFrames
        /\ starts' \in Seq(Nat) /\ Len(starts') = Len(wire') + 1
        /\ taken' \in Seq([opcode : 0..15, length : 0..MaxPayload])
        /\ driving' \in BOOLEAN /\ closed' \in BOOLEAN
    BY <1>1, <1>4 DEF ReaderTypes
  <2>. QED
    BY <2>3, <2>4 DEF ReaderTypes, Offset
<1>13. StartsRight' /\ TakenRight'
  BY <1>1, <1>4 DEF StartsRight, TakenRight, Offset
<1>14. ClosedRight' /\ NothingLeftBehind'
  BY <1>4, <1>10 DEF ClosedRight, NothingLeftBehind, n, j
<1>. QED
  BY <1>11, <1>12, <1>13, <1>14 DEF ReaderInv

\* What is in the buffer when the parser decides, and the frame it begins with.
LEMMA Deciding ==
  ASSUME ReaderInv, Buffered > 0
  PROVE  LET f == wire[Len(taken) + 1] IN
         /\ f \in Frames /\ Len(taken) + 1 \in 1..Len(wire)
         /\ Complete(BufferStart, Buffered) =>
              /\ Legal(f) /\ Buffered >= FrameLen[f] /\ TotalLen(BufferStart) = FrameLen[f]
              /\ PayloadLen(BufferStart) = f.length /\ Opcode(BufferStart) = f.opcode
         /\ Broken(BufferStart, Buffered) => ~Legal(f)
         /\ NeedMore(BufferStart, Buffered) =>
              Buffered < FrameLen[f] /\ (~Legal(f) => Buffered < Len(Encoded[f]))
<1>1. /\ BufferStart \in HeaderBytes /\ Buffered \in Nat
      /\ Len(taken) + 1 \in 1..Len(wire) /\ wire[Len(taken) + 1] \in Frames
      /\ Holds(BufferStart, Buffered, wire[Len(taken) + 1])
  BY BufferHolds
<1>. QED
  BY <1>1, Verdict

\* What the parser decides needs two bytes in the buffer.
LEMMA DecidesOnBytes ==
  ASSUME ReaderInv, Complete(BufferStart, Buffered) \/ Broken(BufferStart, Buffered)
  PROVE  Buffered > 0
<1>1. Buffered \in Nat
  BY BufferHolds
<1>2. ~(Buffered < 2)
  BY <1>1 DEF Complete, Broken
<1>. QED
  BY <1>1, <1>2

\* A frame is taken: the next one is at the front.
LEMMA TakeFrameInv ==
  ASSUME ReaderInv, TakeFrame
  PROVE  ReaderInv'
<1> DEFINE f == wire[Len(taken) + 1]
           m == [opcode |-> f.opcode, length |-> f.length]
<1>1. ReaderTypes /\ StartsRight /\ TakenRight /\ ClosedRight
  BY DEF ReaderInv
<1>2. Buffered > 0
  BY DecidesOnBytes DEF TakeFrame
<1>3. /\ f \in Frames /\ Len(taken) + 1 \in 1..Len(wire) /\ Legal(f) /\ Buffered >= FrameLen[f]
      /\ TotalLen(BufferStart) = FrameLen[f]
      /\ PayloadLen(BufferStart) = f.length /\ Opcode(BufferStart) = f.opcode
  BY <1>2, Deciding DEF TakeFrame
<1>4. /\ wire' = wire /\ starts' = starts /\ arrived' = arrived
      /\ driving' = driving /\ closed' = closed
      /\ consumed' = consumed + FrameLen[f] /\ taken' = Append(taken, m)
  BY <1>3 DEF TakeFrame
<1>5. m \in [opcode : 0..15, length : 0..MaxPayload]
  <2>1. f.opcode \in 0..15 /\ f.length \in Nat
    BY <1>3, FrameParts
  <2>2. f.length <= MaxPayload
    BY <1>3 DEF Legal
  <2>3. MaxPayload \in Nat
    BY FrameAssumption, SMT
  <2>4. f.length \in 0..MaxPayload
    BY <2>1, <2>2, <2>3
  <2>. QED
    BY <2>1, <2>4
<1>6. FrameLen[f] \in Nat
  BY <1>3, FrameLenType
<1>7. /\ taken \in Seq([opcode : 0..15, length : 0..MaxPayload]) /\ Len(taken) \in Nat
      /\ wire \in Seq(Frames) /\ Len(wire) \in Nat
  BY <1>1, LenProperties DEF ReaderTypes
<1> HIDE DEF m
<1>8. /\ taken' \in Seq([opcode : 0..15, length : 0..MaxPayload]) /\ Len(taken') = Len(taken) + 1
      /\ \A i \in 1..Len(taken) : taken'[i] = taken[i]
      /\ taken'[Len(taken) + 1] = m
  BY <1>4, <1>5, <1>7, AppendProperties
<1>9. consumed' = Offset(Len(taken) + 1)
  <2>1. consumed = Offset(Len(taken))
    BY <1>1 DEF TakenRight
  <2>2. (Len(taken) + 1) - 1 = Len(taken)
    BY <1>7
  <2>3. Offset(Len(taken) + 1) = Offset(Len(taken)) + FrameLen[f]
    BY <1>1, <1>3, <2>2 DEF StartsRight
  <2>. QED
    BY <1>4, <2>1, <2>3
<1>10. ReaderTypes'
  <2>1. arrived \in Nat /\ consumed \in Nat /\ arrived - consumed >= FrameLen[f]
    <3>1. Offset(Len(wire)) \in Nat
      BY <1>1, <1>7, OffsetType
    <3>. QED
      BY <1>1, <1>3, <3>1 DEF ReaderTypes, Buffered
  <2>2. consumed + FrameLen[f] \in 0..arrived
    BY <1>6, <2>1
  <2>3. arrived' \in 0..(starts'[Len(wire') + 1]) /\ consumed' \in 0..arrived'
    BY <1>1, <1>4, <2>2 DEF ReaderTypes, Offset
  <2>4. /\ wire' \in Seq(Frames) /\ Len(wire') <= MaxFrames
        /\ starts' \in Seq(Nat) /\ Len(starts') = Len(wire') + 1
        /\ driving' \in BOOLEAN /\ closed' \in BOOLEAN
    BY <1>1, <1>4 DEF ReaderTypes
  <2>. QED
    BY <1>8, <2>3, <2>4 DEF ReaderTypes, Offset
<1>11. StartsRight'
  BY <1>1, <1>4 DEF StartsRight, Offset
<1>12. TakenRight'
  <2>1. Len(taken') <= Len(wire')
    BY <1>3, <1>4, <1>7, <1>8
  <2>2. consumed' = starts'[Len(taken') + 1]
    BY <1>4, <1>8, <1>9 DEF Offset
  <2>3. ASSUME NEW i \in 1..Len(taken')
        PROVE  Legal(wire'[i]) /\ taken'[i] = [opcode |-> wire'[i].opcode, length |-> wire'[i].length]
    <3>1. CASE i \in 1..Len(taken)
      BY <1>1, <1>4, <1>8, <3>1 DEF TakenRight
    <3>2. CASE i = Len(taken) + 1
      BY <1>3, <1>4, <1>8, <3>2 DEF m
    <3>. QED
      BY <1>7, <1>8, <2>3, <3>1, <3>2
  <2>. QED
    BY <2>1, <2>2, <2>3 DEF TakenRight, Offset
<1>13. driving /\ ~closed
  BY <1>1 DEF TakeFrame, ClosedRight
<1>14. ClosedRight' /\ RefusedRightly' /\ NothingLeftBehind'
  BY <1>4, <1>13 DEF ClosedRight, RefusedRightly, NothingLeftBehind
<1>. QED
  BY <1>10, <1>11, <1>12, <1>14 DEF ReaderInv

\* The bytes that are there decide nothing yet: all of them are of a frame that is not complete.
LEMMA AwaitMoreInv ==
  ASSUME ReaderInv, AwaitMore
  PROVE  ReaderInv'
<1>1. ReaderTypes /\ StartsRight /\ TakenRight /\ ClosedRight
  BY DEF ReaderInv
<1>2. /\ wire' = wire /\ starts' = starts /\ arrived' = arrived /\ consumed' = consumed
      /\ taken' = taken /\ closed' = closed /\ driving' = FALSE /\ Buffered' = Buffered
  BY DEF AwaitMore, Buffered
<1>3. ~closed
  BY <1>1 DEF AwaitMore, ClosedRight
<1>4. ReaderTypes'
  BY <1>1, <1>2 DEF ReaderTypes, Offset
<1>5. StartsRight' /\ TakenRight'
  BY <1>1, <1>2 DEF StartsRight, TakenRight, Offset
<1>6. ClosedRight' /\ RefusedRightly'
  BY <1>2, <1>3 DEF ClosedRight, RefusedRightly
<1>7. NothingLeftBehind'
  <2>1. ASSUME Buffered > 0
        PROVE  LET f == wire[Len(taken) + 1] IN
               Buffered < FrameLen[f] /\ (~Legal(f) => Buffered < Len(Encoded[f]))
    BY <2>1, Deciding DEF AwaitMore
  <2>. QED
    BY <1>2, <2>1 DEF NothingLeftBehind
<1>. QED
  BY <1>4, <1>5, <1>6, <1>7 DEF ReaderInv

\* A frame is refused: it is not legal.
LEMMA RefuseInv ==
  ASSUME ReaderInv, Refuse
  PROVE  ReaderInv'
<1>1. ReaderTypes /\ StartsRight /\ TakenRight
  BY DEF ReaderInv
<1>2. /\ wire' = wire /\ starts' = starts /\ arrived' = arrived /\ consumed' = consumed
      /\ taken' = taken /\ closed' = TRUE /\ driving' = FALSE /\ Buffered' = Buffered
  BY DEF Refuse, Buffered
<1>3. Buffered > 0
  BY DecidesOnBytes DEF Refuse
<1>4. ~Legal(wire[Len(taken) + 1])
  BY <1>3, Deciding DEF Refuse
<1>5. ReaderTypes'
  BY <1>1, <1>2 DEF ReaderTypes, Offset
<1>6. StartsRight' /\ TakenRight'
  BY <1>1, <1>2 DEF StartsRight, TakenRight, Offset
<1>7. ClosedRight' /\ RefusedRightly' /\ NothingLeftBehind'
  <2>1. Len(taken) + 1 \in 1..Len(wire) /\ Len(taken) \in Nat /\ Len(wire) \in Nat
    BY <1>1, <1>3, Deciding, LenProperties DEF ReaderTypes
  <2>. QED
    BY <1>2, <1>4, <2>1 DEF ClosedRight, RefusedRightly, NothingLeftBehind
<1>. QED
  BY <1>5, <1>6, <1>7 DEF ReaderInv

\* A step that changes nothing.
LEMMA ReaderStutterInv ==
  ASSUME ReaderInv, UNCHANGED readerVars
  PROVE  ReaderInv'
<1>1. /\ wire' = wire /\ starts' = starts /\ arrived' = arrived /\ consumed' = consumed
      /\ taken' = taken /\ closed' = closed /\ driving' = driving /\ Buffered' = Buffered
  BY DEF readerVars, Buffered
<1>2. ReaderTypes /\ StartsRight /\ TakenRight /\ ClosedRight /\ RefusedRightly /\ NothingLeftBehind
  BY DEF ReaderInv
<1>3. ReaderTypes'
  BY <1>1, <1>2 DEF ReaderTypes, Offset
<1>4. StartsRight' /\ TakenRight'
  BY <1>1, <1>2 DEF StartsRight, TakenRight, Offset
<1>5. ClosedRight' /\ RefusedRightly' /\ NothingLeftBehind'
  BY <1>1, <1>2 DEF ClosedRight, RefusedRightly, NothingLeftBehind, Offset, readerVars
<1>. QED
  BY <1>3, <1>4, <1>5 DEF ReaderInv

\* The inductive invariant of the reader.
THEOREM ReaderInvariance == ReaderSpec => []ReaderInv
<1>1. ReaderInit => ReaderInv
  BY ReaderInitInv
<1>2. ReaderInv /\ [ReaderNext]_readerVars => ReaderInv'
  <2>. SUFFICES ASSUME ReaderInv, [ReaderNext]_readerVars PROVE ReaderInv'
    OBVIOUS
  <2>1. ASSUME NEW f \in Frames, Write(f) PROVE ReaderInv'
    BY <2>1, WriteInv
  <2>2. CASE AppendRead
    BY <2>2, AppendReadInv
  <2>3. CASE TakeFrame
    BY <2>3, TakeFrameInv
  <2>4. CASE AwaitMore
    BY <2>4, AwaitMoreInv
  <2>5. CASE Refuse
    BY <2>5, RefuseInv
  <2>6. CASE AppendRefused
    BY <2>6, AppendRefusedInv
  <2>7. CASE UNCHANGED readerVars
    BY <2>7, ReaderStutterInv
  <2>. QED
    BY <2>1, <2>2, <2>3, <2>4, <2>5, <2>6, <2>7 DEF ReaderNext, ReaderStep
<1>. QED
  BY <1>1, <1>2, PTL DEF ReaderSpec

-----------------------------------------------------------------------------
(* What it is for *)

\* The reader stays in step with the client (the loop of drive_io() and
\* try_consume_frame()): what was consumed are whole frames, each handled once,
\* in order, with the opcode and the length the client meant.
THEOREM InStepAlways == ReaderSpec => []FramesInStep
<1>1. ReaderInv => FramesInStep
  <2>. SUFFICES ASSUME ReaderInv PROVE FramesInStep
    OBVIOUS
  <2>1. ReaderTypes /\ TakenRight
    BY DEF ReaderInv
  <2>2. taken = [i \in 1..Len(taken) |-> [opcode |-> wire[i].opcode, length |-> wire[i].length]]
    <3>1. taken \in [1..Len(taken) -> [opcode : 0..15, length : 0..MaxPayload]]
      BY <2>1, LenProperties DEF ReaderTypes
    <3>2. \A i \in 1..Len(taken) : taken[i] = [opcode |-> wire[i].opcode, length |-> wire[i].length]
      BY <2>1 DEF TakenRight
    <3>. QED
      BY <3>1, <3>2
  <2>. QED
    BY <2>1, <2>2 DEF FramesInStep, InStep, TakenRight
<1>. QED
  BY <1>1, ReaderInvariance, PTL

\* Between two reads the buffer holds less than a frame, and of a frame that is
\* not legal less than its header: nothing that could have been decided is left
\* there to wait for bytes the client need not send.
THEOREM NothingWaits == ReaderSpec => []NothingLeftBehind
<1>1. ReaderInv => NothingLeftBehind
  BY DEF ReaderInv
<1>. QED
  BY <1>1, ReaderInvariance, PTL

\* What ends a connection (append_read() and try_consume_frame()): a frame that
\* is not legal, or a client that is ahead by more than the read buffer holds,
\* which takes at least two frames; so one that waits for each frame to be taken
\* before it writes the next is never closed for a legal one.
THEOREM ClosedForCause == ReaderSpec => []RefusedRightly
<1>1. ReaderInv => RefusedRightly
  BY DEF ReaderInv
<1>. QED
  BY <1>1, ReaderInvariance, PTL

\* How many bytes of length pack_data() writes.
ExtBytes(length) == IF length < 126 THEN 0 ELSE IF length <= 65535 THEN 2 ELSE 8

\* The header pack_data() writes: bytes, and no more of them than a client needs.
LEMMA PackedBytes ==
  ASSUME NEW length \in Nat, length <= MaxPayload, NEW opcode \in 0..15
  PROVE  LET header == PackHeader(1, opcode, 0, length) IN
         /\ header \in Seq(Byte)
         /\ Len(header) = 2 + ExtBytes(length) /\ ExtBytes(length) \in {0, 2, 8}
<1> DEFINE ext == PackExt(length)
           short == PackCode(length)
<1>1. /\ ext \in Seq(Byte) /\ short \in Byte
      /\ Len(ext) = ExtBytes(length) /\ ExtBytes(length) \in {0, 2, 8}
  <2>0. 126 \in Byte /\ 127 \in Byte
    BY DEF Byte
  <2>1. CASE length < 126
    <3> HIDE DEF ext, short
    <3>1. ext = <<>> /\ short = length
      BY <2>1 DEF ext, short, PackExt, PackCode
    <3>2. <<>> \in Seq(Byte) /\ Len(<<>>) = 0
      OBVIOUS
    <3>3. length \in Byte
      BY <2>1 DEF Byte
    <3>4. ext \in Seq(Byte) /\ Len(ext) = 0 /\ short \in Byte
      BY <3>1, <3>2, <3>3, Zenon
    <3>. QED
      BY <2>1, <3>4 DEF ExtBytes
  <2>2. CASE ~(length < 126) /\ length <= 65535
    <3> HIDE DEF ext, short
    <3>1. ext = <<length \div 256, length % 256>> /\ short = 126
      BY <2>2 DEF ext, short, PackExt, PackCode
    <3>2. length \div 256 \in Byte /\ length % 256 \in Byte
      BY <2>2, TwoBytes
    <3>3. ext \in Seq(Byte) /\ Len(ext) = 2
      BY <3>1, <3>2
    <3>. QED
      BY <2>0, <2>2, <3>1, <3>3 DEF ExtBytes
  <2>3. CASE ~(length < 126) /\ ~(length <= 65535)
    <3> HIDE DEF ext, short
    <3>1. ext = EightBytes(length) /\ short = 127
      BY <2>3 DEF ext, short, PackExt, PackCode
    <3>2. Represents(ext, length)
      BY <3>1, EightBytesValue
    <3>3. ext \in Seq(Nat) /\ Len(ext) = 8
      BY <3>2 DEF Represents
    <3>4. ASSUME NEW k \in 1..8 PROVE ext[k] \in Byte
      <4>1. /\ ext[1] = 0 /\ ext[2] = 0 /\ ext[3] = 0 /\ ext[4] = 0 /\ ext[5] \in Nat /\ ext[5] <= 127
            /\ ext[6] \in Byte /\ ext[7] \in Byte /\ ext[8] \in Byte
        BY <3>2 DEF Represents
      <4>2. 0 \in Byte /\ ext[5] \in Byte
        BY <4>1 DEF Byte
      <4>3. k = 1 \/ k = 2 \/ k = 3 \/ k = 4 \/ k = 5 \/ k = 6 \/ k = 7 \/ k = 8
        OBVIOUS
      <4>. QED
        BY <4>1, <4>2, <4>3, Zenon
    <3>5. ext \in Seq(Byte)
      <4>1. ext \in [1..8 -> Nat]
        BY <3>3, LenProperties
      <4>2. ext \in [1..8 -> Byte]
        BY <3>4, <4>1
      <4>3. [1..8 -> Byte] \subseteq Seq(Byte)
        BY SeqDef
      <4>. QED
        BY <4>2, <4>3, Zenon
    <3>. QED
      BY <2>0, <2>3, <3>1, <3>3, <3>5 DEF ExtBytes
  <2>. QED
    BY <2>1, <2>2, <2>3
<1>2. 1 * 128 + (opcode % 16) \in Byte
  BY DEF Byte
<1> HIDE DEF ext, short
<1>3. 0 * 128 + short = short
  BY <1>1 DEF Byte
<1>4. PackHeader(1, opcode, 0, length) = <<1 * 128 + (opcode % 16), short>> \o ext
  BY <1>3 DEF PackHeader, ext, short
<1>5. PICK a \in Byte : a = 1 * 128 + (opcode % 16)
  BY <1>2
<1>6. PICK u \in Seq(Byte) : u = <<a, short>> /\ Len(u) = 2
  <2>1. <<a, short>> \in Seq(Byte) /\ Len(<<a, short>>) = 2
    BY <1>1
  <2>. QED
    BY <2>1, Zenon
<1>7. u \o ext \in Seq(Byte) /\ Len(u \o ext) = 2 + Len(ext)
  <2>1. ext \in Seq(Byte)
    BY <1>1
  <2>2. u \o ext \in Seq(Byte) /\ Len(u \o ext) = Len(u) + Len(ext)
    BY <2>1, Behind
  <2>. QED
    BY <1>6, <2>2
<1>8. PackHeader(1, opcode, 0, length) = u \o ext
  BY <1>4, <1>5, <1>6, Zenon
<1>. QED
  BY <1>1, <1>7, <1>8

\* No legal frame is shorter than pack_data() would make it.
LEMMA PackedShortest ==
  ASSUME NEW f \in Frames, Legal(f)
  PROVE  /\ f.length \in Nat /\ f.length <= MaxPayload /\ f.opcode \in 0..15
         /\ Len(PackHeader(1, f.opcode, 0, f.length)) + f.length <= FrameLen[f]
<1>1. /\ f.opcode \in 0..15 /\ f.masked \in BOOLEAN /\ f.ext \in {0, 2, 8}
      /\ f.length \in Nat /\ Fits(f)
  BY FrameParts
<1>2. f.length <= MaxPayload
  BY DEF Legal
<1>3. PICK l \in Nat : l = f.length
  BY <1>1
<1>4. Len(PackHeader(1, f.opcode, 0, f.length)) = 2 + ExtBytes(l) /\ ExtBytes(l) \in {0, 2, 8}
  BY <1>1, <1>2, <1>3, PackedBytes
<1>5. PICK e \in Nat : e = Len(Encoded[f]) /\ e >= 2 + f.ext
  <2>1. Len(Encoded[f]) = 2 + f.ext + (IF f.masked THEN 4 ELSE 0)
    BY EncodedHeader
  <2>. QED
    BY <1>1, <2>1
<1>6. FrameLen[f] = e + l
  BY <1>3, <1>5 DEF FrameLen
<1>7. ExtBytes(l) <= f.ext
  <2>1. CASE f.ext = 0
    <3>1. l < 126
      BY <1>1, <1>3, <2>1 DEF Fits
    <3>. QED
      BY <2>1, <3>1 DEF ExtBytes
  <2>2. CASE f.ext = 2
    <3>1. l <= 65535
      BY <1>1, <1>3, <2>2, SMT DEF Fits
    <3>. QED
      BY <2>2, <3>1, SMT DEF ExtBytes
  <2>3. CASE f.ext = 8
    BY <1>4, <2>3
  <2>. QED
    BY <1>1, <2>1, <2>2, <2>3
<1>8. PICK h \in Nat : h = 2 + ExtBytes(l)
  BY <1>4
<1>9. h + l <= e + l
  BY <1>1, <1>4, <1>5, <1>7, <1>8
<1>. QED
  BY <1>1, <1>2, <1>3, <1>4, <1>6, <1>8, <1>9

\* The echo of a frame that was handled is no longer than it was and reads back
\* with the opcode and the length it has, no byte early or late (pack_data()
\* against try_consume_frame()).
THEOREM AnswersReadBack == ReaderSpec => []EchoReadsBack
<1>1. ReaderInv => EchoReadsBack
  <2>. SUFFICES ASSUME ReaderInv PROVE EchoReadsBack
    OBVIOUS
  <2>1. ReaderTypes /\ TakenRight
    BY DEF ReaderInv
  <2>2. ASSUME NEW i \in 1..Len(taken)
        PROVE  LET header == PackHeader(1, taken[i].opcode, 0, taken[i].length)
                   p == [k \in 0..13 |-> IF k < Len(header) THEN header[k + 1] ELSE Filler]
                   size == Len(header) + taken[i].length IN
               /\ Complete(p, size) /\ NeedMore(p, size - 1)
               /\ TotalLen(p) = size
               /\ Opcode(p) = taken[i].opcode /\ PayloadLen(p) = taken[i].length
               /\ size <= FrameLen[wire[i]]
    <3>1. PICK f \in Frames : f = wire[i]
      <4>1. wire \in Seq(Frames) /\ Len(wire) \in Nat /\ Len(taken) \in Nat /\ Len(taken) <= Len(wire)
        BY <2>1, LenProperties DEF ReaderTypes, TakenRight
      <4>2. i \in 1..Len(wire)
        BY <4>1
      <4>. QED
        BY <4>1, <4>2, ElementOfSeq
    <3>2. Legal(f) /\ taken[i].opcode = f.opcode /\ taken[i].length = f.length
      <4>1. Legal(wire[i]) /\ taken[i] = [opcode |-> wire[i].opcode, length |-> wire[i].length]
        BY <2>1 DEF TakenRight
      <4>2. taken[i] = [opcode |-> f.opcode, length |-> f.length]
        BY <3>1, <4>1
      <4>. QED
        BY <3>1, <4>1, <4>2
    <3>3. PICK l \in Nat, op \in 0..15 :
            /\ l = f.length /\ op = f.opcode /\ l <= MaxPayload
            /\ Len(PackHeader(1, op, 0, l)) + l <= FrameLen[f]
      BY <3>2, PackedShortest
    <3>4. PICK header \in Seq(Byte) : header = PackHeader(1, op, 0, l)
      BY <3>3, PackedBytes
    <3>5. PICK h \in {2, 4, 10} : h = Len(header)
      <4>1. Len(PackHeader(1, op, 0, l)) = 2 + ExtBytes(l) /\ ExtBytes(l) \in {0, 2, 8}
        BY <3>3, PackedBytes
      <4>2. 2 + ExtBytes(l) \in {2, 4, 10}
        BY <4>1
      <4>. QED
        BY <3>4, <4>1, <4>2
    <3> DEFINE p == [k \in 0..13 |-> IF k < Len(header) THEN header[k + 1] ELSE Filler]
               size == h + l
    <3>6. p \in HeaderBytes
      <4>1. Filler \in Byte
        BY DEF Filler, Byte
      <4>2. ASSUME NEW k \in 0..13, k < Len(header) PROVE header[k + 1] \in Byte
        <5>1. k + 1 \in 1..Len(header)
          BY <3>5, <4>2
        <5>. QED
          BY <5>1, ElementOfSeq
      <4>. QED
        BY <4>1, <4>2 DEF HeaderBytes
    <3>7. StartsWith(p, header)
      <4>. SUFFICES ASSUME NEW k \in 1..Len(header) PROVE p[k - 1] = header[k]
        BY DEF StartsWith
      <4>1. k - 1 \in 0..13 /\ k - 1 < Len(header) /\ (k - 1) + 1 = k
        BY <3>5
      <4>. QED
        BY <4>1
    <3>8. size \in Nat /\ size - 1 \in Nat /\ size >= size /\ size - 1 < size
      BY <3>5
    <3> HIDE DEF p
    <3>9. 1 \in {0, 1}
      OBVIOUS
    <3>10. StartsWith(p, PackHeader(1, op, 0, l))
      BY <3>4, <3>7
    <3>11. /\ size >= size => Complete(p, size)
           /\ TotalLen(p) = size /\ PayloadLen(p) = l /\ Opcode(p) = op
      BY <3>3, <3>4, <3>5, <3>6, <3>8, <3>9, <3>10, RoundTrip
    <3>12. size - 1 < size => NeedMore(p, size - 1)
      BY <3>3, <3>4, <3>5, <3>6, <3>8, <3>9, <3>10, RoundTrip
    <3>13. size <= FrameLen[wire[i]]
      BY <3>1, <3>3, <3>4, <3>5
    <3>14. /\ Complete(p, size) /\ NeedMore(p, size - 1) /\ TotalLen(p) = size
           /\ Opcode(p) = op /\ PayloadLen(p) = l /\ size <= FrameLen[wire[i]]
      BY <3>8, <3>11, <3>12, <3>13
    <3>15. taken[i].opcode = op /\ taken[i].length = l
      BY <3>2, <3>3
    <3>. QED
      BY <3>4, <3>5, <3>14, <3>15, Zenon DEF p, size
  <2>. QED
    BY <2>2, Zenon DEF EchoReadsBack
<1>. QED
  BY <1>1, ReaderInvariance, PTL

-----------------------------------------------------------------------------
(* The processes *)

\* The workers are numbered in the order of their forks, and there are never more than asked for.
KidsInOrder ==
  /\ Len(kids) <= workers
  /\ \A k \in 1..Len(kids) : kids[k] = k

\* A process exists only if it was started: the parent that serves alone, or a worker that was forked.
OnlyStarted == \A p \in Procs :
  proc[p] # "none" => IF workers = 1 THEN p = 0 ELSE p \in 1..Len(kids)

\* Where main() is tells how many workers it has, and main() that goes on has no exit status.
PhaseRight ==
  /\ phase = "start" => workers = 0
  /\ phase \in {"fork", "wait"} => workers > 1
  /\ phase = "serve" => workers = 1
  /\ phase # "done" => code = -1

\* The inductive invariant.
WorkersInv ==
  /\ WorkersTypes /\ NoOrphans
  /\ KidsInOrder /\ OnlyStarted /\ PhaseRight

-----------------------------------------------------------------------------
\* main() clamps the number of workers to 1 .. MaxWorkers.
LEMMA ClampRange ==
  ASSUME NEW n \in Asked
  PROVE  Clamp(n) \in 1..MaxWorkers
  BY WorkersAssumption DEF Clamp

\* Init establishes the invariant.
LEMMA WorkersInitInv == WorkersInit => WorkersInv
<1>. SUFFICES ASSUME WorkersInit PROVE WorkersInv
  OBVIOUS
<1>1. WorkersTypes
  BY WorkersAssumption DEF WorkersInit, WorkersTypes, Procs
<1>2. NoOrphans /\ KidsInOrder /\ OnlyStarted /\ PhaseRight
  BY DEF WorkersInit, NoOrphans, KidsInOrder, OnlyStarted, PhaseRight
<1>. QED
  BY <1>1, <1>2 DEF WorkersInv

-----------------------------------------------------------------------------
(* main() *)

\* The start keeps the invariant.
LEMMA StartsInv ==
  ASSUME WorkersInv, Starts
  PROVE  WorkersInv'
<1>1. WorkersTypes /\ PhaseRight /\ KidsInOrder /\ OnlyStarted
  BY DEF WorkersInv
<1>2. PICK n \in Asked : workers' = Clamp(n)
  BY DEF Starts
<1>3. workers' \in 1..MaxWorkers /\ MaxWorkers \in Nat
  BY <1>2, ClampRange, WorkersAssumption
<1>4. UNCHANGED <<kids, termed, code, shot>>
  BY DEF Starts
<1>5. 0 \in Procs
  BY WorkersAssumption DEF Procs
<1>6. /\ phase = "start" /\ phase' \in {"serve", "fork"} /\ (phase' = "serve" <=> workers' = 1)
      /\ proc' = IF workers' = 1 THEN [proc EXCEPT ![0] = "init"] ELSE proc
  BY DEF Starts
<1>7. workers = 0 /\ Len(kids) = 0 /\ \A p \in Procs : proc[p] = "none"
  BY <1>1, <1>6 DEF PhaseRight, KidsInOrder, OnlyStarted, WorkersTypes
<1>8. WorkersTypes'
  <2>1. proc' \in [Procs -> {"none", "init", "up", "dead", "reaped"}]
    BY <1>1, <1>6 DEF WorkersTypes
  <2>. QED
    BY <1>1, <1>3, <1>4, <1>6, <2>1 DEF WorkersTypes
<1>9. PhaseRight' /\ NoOrphans'
  BY <1>1, <1>3, <1>4, <1>6 DEF PhaseRight, NoOrphans
<1>10. KidsInOrder'
  BY <1>3, <1>4, <1>7 DEF KidsInOrder
<1>11. OnlyStarted'
  BY <1>1, <1>5, <1>6, <1>7 DEF OnlyStarted, WorkersTypes
<1>. QED
  BY <1>8, <1>9, <1>10, <1>11 DEF WorkersInv

\* A fork keeps the invariant: the new worker has the next number.
LEMMA ForkInv ==
  ASSUME WorkersInv, Fork
  PROVE  WorkersInv'
<1>1. WorkersTypes /\ PhaseRight /\ KidsInOrder /\ OnlyStarted
  BY DEF WorkersInv
<1>2. /\ UNCHANGED <<phase, workers, termed, code, shot>>
      /\ phase = "fork" /\ Len(kids) < workers
      /\ kids' = Append(kids, Len(kids) + 1)
      /\ proc' = [proc EXCEPT ![Len(kids) + 1] = "init"]
  BY DEF Fork
<1>3. Len(kids) \in Nat /\ workers \in 2..MaxWorkers /\ MaxWorkers \in Nat
  BY <1>1, <1>2, WorkersAssumption DEF WorkersTypes, PhaseRight
<1>4. Len(kids) + 1 \in 1..MaxWorkers /\ Len(kids) + 1 \in Procs
  BY <1>2, <1>3 DEF Procs
<1>5. kids' \in Seq(1..MaxWorkers) /\ Len(kids') = Len(kids) + 1
      /\ \A k \in 1..Len(kids') : kids'[k] = IF k <= Len(kids) THEN kids[k] ELSE Len(kids) + 1
  BY <1>1, <1>2, <1>4 DEF WorkersTypes
<1>6. WorkersTypes'
  <2>1. proc' \in [Procs -> {"none", "init", "up", "dead", "reaped"}]
    BY <1>1, <1>2 DEF WorkersTypes
  <2>. QED
    BY <1>1, <1>2, <1>5, <2>1 DEF WorkersTypes
<1>7. KidsInOrder'
  BY <1>1, <1>2, <1>3, <1>5 DEF KidsInOrder
<1>8. OnlyStarted'
  BY <1>1, <1>2, <1>3, <1>5 DEF OnlyStarted, WorkersTypes
<1>9. PhaseRight' /\ NoOrphans'
  BY <1>1, <1>2 DEF PhaseRight, NoOrphans
<1>. QED
  BY <1>6, <1>7, <1>8, <1>9 DEF WorkersInv

\* A fork that fails keeps the invariant: every process there is, is sent SIGTERM.
LEMMA ForkFailsInv ==
  ASSUME WorkersInv, ForkFails
  PROVE  WorkersInv'
<1>1. WorkersTypes /\ PhaseRight /\ KidsInOrder /\ OnlyStarted
  BY DEF WorkersInv
<1>2. /\ UNCHANGED <<workers, kids, proc, shot>>
      /\ phase = "fork" /\ phase' = "done" /\ code' = 1
      /\ termed' = {kids[k] : k \in DOMAIN kids}
  BY DEF ForkFails
<1>3. Len(kids) \in Nat /\ DOMAIN kids = 1..Len(kids) /\ Len(kids) <= MaxWorkers /\ MaxWorkers \in Nat
  BY <1>1, WorkersAssumption DEF WorkersTypes, KidsInOrder
<1>4. termed' = 1..Len(kids)
  BY <1>1, <1>2, <1>3 DEF KidsInOrder
<1>5. WorkersTypes'
  BY <1>1, <1>2, <1>3, <1>4 DEF WorkersTypes, Procs
<1>6. NoOrphans'
  BY <1>1, <1>2, <1>4 DEF NoOrphans, OnlyStarted, PhaseRight
<1>7. KidsInOrder' /\ OnlyStarted' /\ PhaseRight'
  BY <1>1, <1>2 DEF KidsInOrder, OnlyStarted, PhaseRight
<1>. QED
  BY <1>5, <1>6, <1>7 DEF WorkersInv

\* The end of the forks, and the death of the parent of several workers, keep the invariant.
LEMMA ParentStepInv ==
  ASSUME WorkersInv, AllForked \/ ParentShot
  PROVE  WorkersInv'
<1>1. WorkersTypes /\ PhaseRight /\ KidsInOrder /\ OnlyStarted
  BY DEF WorkersInv
<1>2. /\ UNCHANGED <<workers, kids, proc, termed, code, shot>>
      /\ phase \in {"fork", "wait"} /\ phase' \in {"wait", "done"}
  BY DEF AllForked, ParentShot
<1>3. WorkersTypes' /\ NoOrphans'
  BY <1>1, <1>2 DEF WorkersTypes, NoOrphans, PhaseRight
<1>4. KidsInOrder' /\ OnlyStarted' /\ PhaseRight'
  BY <1>1, <1>2 DEF KidsInOrder, OnlyStarted, PhaseRight
<1>. QED
  BY <1>3, <1>4 DEF WorkersInv

\* wait() that reaps a process keeps the invariant.
LEMMA WaitReapsInv ==
  ASSUME WorkersInv, NEW p \in Procs, WaitReaps(p)
  PROVE  WorkersInv'
<1>1. WorkersTypes /\ PhaseRight /\ KidsInOrder /\ OnlyStarted /\ NoOrphans
  BY DEF WorkersInv
<1>2. /\ UNCHANGED <<phase, workers, kids, termed, code, shot>>
      /\ phase = "wait" /\ proc[p] = "dead" /\ proc' = [proc EXCEPT ![p] = "reaped"]
  BY DEF WaitReaps
<1>3. WorkersTypes' /\ NoOrphans'
  <2>1. proc' \in [Procs -> {"none", "init", "up", "dead", "reaped"}]
    BY <1>1, <1>2 DEF WorkersTypes
  <2>2. WorkersTypes'
    BY <1>1, <1>2, <2>1 DEF WorkersTypes
  <2>3. phase' # "done"
    BY <1>2
  <2>4. NoOrphans'
    BY <2>3 DEF NoOrphans
  <2>. QED
    BY <2>2, <2>4
<1>4. KidsInOrder' /\ OnlyStarted' /\ PhaseRight'
  BY <1>1, <1>2 DEF KidsInOrder, OnlyStarted, PhaseRight, WorkersTypes
<1>. QED
  BY <1>3, <1>4 DEF WorkersInv

\* wait() that fails keeps the invariant: main() returns 0 and all have been waited for.
LEMMA WaitFailsInv ==
  ASSUME WorkersInv, WaitFails
  PROVE  WorkersInv'
<1>1. WorkersTypes /\ PhaseRight /\ KidsInOrder /\ OnlyStarted
  BY DEF WorkersInv
<1>2. /\ UNCHANGED <<workers, kids, proc, termed, shot>>
      /\ phase = "wait" /\ phase' = "done" /\ code' = 0 /\ \A p \in Procs : proc[p] \in {"none", "reaped"}
  BY DEF WaitFails
<1>3. WorkersTypes' /\ NoOrphans'
  BY <1>1, <1>2 DEF WorkersTypes, NoOrphans
<1>4. KidsInOrder' /\ OnlyStarted' /\ PhaseRight'
  BY <1>1, <1>2 DEF KidsInOrder, OnlyStarted, PhaseRight
<1>. QED
  BY <1>3, <1>4 DEF WorkersInv

-----------------------------------------------------------------------------
(* The processes that serve *)

\* A socket that is bound keeps the invariant.
LEMMA InitSucceedsInv ==
  ASSUME WorkersInv, NEW p \in Procs, InitSucceeds(p)
  PROVE  WorkersInv'
<1>1. WorkersTypes /\ PhaseRight /\ KidsInOrder /\ OnlyStarted /\ NoOrphans
  BY DEF WorkersInv
<1>2. /\ UNCHANGED <<phase, workers, kids, termed, code, shot>>
      /\ proc[p] = "init" /\ proc' = [proc EXCEPT ![p] = "up"]
  BY DEF InitSucceeds
<1>3. /\ proc' \in [Procs -> {"none", "init", "up", "dead", "reaped"}]
      /\ \A q \in Procs : proc'[q] = IF q = p THEN "up" ELSE proc[q]
  BY <1>1, <1>2 DEF WorkersTypes
<1>4. WorkersTypes'
  BY <1>1, <1>2, <1>3 DEF WorkersTypes
<1>5. NoOrphans'
  BY <1>1, <1>2, <1>3 DEF NoOrphans
<1>6. KidsInOrder' /\ OnlyStarted' /\ PhaseRight'
  BY <1>1, <1>2, <1>3 DEF KidsInOrder, OnlyStarted, PhaseRight
<1>. QED
  BY <1>4, <1>5, <1>6 DEF WorkersInv

\* The end of a process keeps the invariant: it stays started.  If it was the parent that serves
\* alone, no other process is there.
LEMMA EndInv ==
  ASSUME WorkersInv, NEW p \in Procs, proc[p] \in {"init", "up"}, End(p),
         shot' \in {shot, shot \cup {p}},
         \/ UNCHANGED <<phase, code>>
         \/ p = 0 /\ phase' = "done" /\ code' \in {code, 1}
  PROVE  WorkersInv'
<1>1. WorkersTypes /\ PhaseRight /\ KidsInOrder /\ OnlyStarted /\ NoOrphans
  BY DEF WorkersInv
<1>2. /\ UNCHANGED <<workers, kids, termed>>
      /\ proc' = [proc EXCEPT ![p] = "dead"]
  BY DEF End
<1>3. /\ proc' \in [Procs -> {"none", "init", "up", "dead", "reaped"}]
      /\ \A q \in Procs : proc'[q] = IF q = p THEN "dead" ELSE proc[q]
  BY <1>1, <1>2 DEF WorkersTypes
<1>6. WorkersTypes'
  <2>1. shot' \subseteq Procs
    BY <1>1 DEF WorkersTypes
  <2>2. /\ phase' \in {"start", "fork", "wait", "serve", "done"} /\ code' \in {-1, 0, 1}
        /\ phase' # "start" => workers > 0
    BY <1>1, WorkersAssumption DEF WorkersTypes, OnlyStarted, PhaseRight, KidsInOrder
  <2>. QED
    BY <1>1, <1>2, <1>3, <2>1, <2>2 DEF WorkersTypes
<1>7. p = 0 => \A q \in Procs \ {p} : proc[q] = "none"
  BY <1>1, WorkersAssumption DEF OnlyStarted, Procs, WorkersTypes
<1>8. NoOrphans'
  <2>1. CASE UNCHANGED <<phase, code>>
    BY <1>1, <1>2, <1>3, <2>1 DEF NoOrphans
  <2>2. CASE p = 0 /\ phase' = "done" /\ code' = 1
    BY <1>3, <1>7, <2>2 DEF NoOrphans
  <2>3. CASE p = 0 /\ phase' = "done" /\ code' = code
    BY <1>1, <1>3, <1>7, <2>3 DEF NoOrphans, PhaseRight
  <2>. QED
    BY <2>1, <2>2, <2>3
<1>9. KidsInOrder' /\ OnlyStarted' /\ PhaseRight'
  BY <1>1, <1>2, <1>3 DEF KidsInOrder, OnlyStarted, PhaseRight
<1>. QED
  BY <1>6, <1>8, <1>9 DEF WorkersInv

\* A process whose socket is not bound, one that obeys SIGTERM and one that is shot keep it.
LEMMA ProcessEndsInv ==
  ASSUME WorkersInv, NEW p \in Procs, InitFails(p) \/ Terminated(p) \/ Shot(p)
  PROVE  WorkersInv'
<1>1. proc[p] \in {"init", "up"} /\ End(p) /\ shot' \in {shot, shot \cup {p}}
  BY DEF InitFails, Terminated, Shot
<1>2. \/ UNCHANGED <<phase, code>>
      \/ p = 0 /\ phase' = "done" /\ code' \in {code, 1}
  BY DEF InitFails, Terminated, Shot
<1>. QED
  BY <1>1, <1>2, EndInv

-----------------------------------------------------------------------------
\* The inductive invariant holds in every reachable state.
THEOREM WorkersInvariance == WorkersSpec => []WorkersInv
<1>1. WorkersInit => WorkersInv
  BY WorkersInitInv
<1>2. WorkersInv /\ [WorkersNext]_workerVars => WorkersInv'
  <2>. SUFFICES ASSUME WorkersInv, [WorkersNext]_workerVars PROVE WorkersInv'
    OBVIOUS
  <2>1. CASE MainStep
    BY <2>1, StartsInv, ForkInv, ForkFailsInv, ParentStepInv, WaitReapsInv, WaitFailsInv DEF MainStep
  <2>2. CASE ParentShot
    BY <2>2, ParentStepInv
  <2>3. ASSUME NEW p \in Procs, InitSucceeds(p) \/ InitFails(p) \/ Terminated(p) \/ Shot(p)
        PROVE  WorkersInv'
    BY <2>3, InitSucceedsInv, ProcessEndsInv
  <2>4. CASE UNCHANGED workerVars
    <3>1. WorkersTypes' /\ NoOrphans'
      BY <2>4 DEF workerVars, WorkersInv, WorkersTypes, NoOrphans
    <3>2. KidsInOrder' /\ OnlyStarted' /\ PhaseRight'
      BY <2>4 DEF workerVars, WorkersInv, KidsInOrder, OnlyStarted, PhaseRight
    <3>. QED
      BY <3>1, <3>2 DEF WorkersInv
  <2>. QED
    BY <2>1, <2>2, <2>3, <2>4 DEF WorkersNext
<1>. QED
  BY <1>1, <1>2, PTL DEF WorkersSpec

\* When main() has returned, no worker runs that nobody has told to end.
THEOREM NobodyLeftBehind == WorkersSpec => []WorkersKept
<1>1. WorkersInv => WorkersKept
  BY DEF WorkersInv, WorkersKept
<1>. QED
  BY <1>1, WorkersInvariance, PTL
=============================================================================
