----------------------------- MODULE GridProofs -----------------------------
(***************************************************************************)
(* The GridFS file, for any size of a chunk, any bytes, any length and any *)
(* requests that are not answered: a caller that avoids the calls Sound,   *)
(* ReadsSoundly and CutSoundly tell of has a file of bytes, ByteFile, and  *)
(* in the server each closed file is whole.                                *)
(***************************************************************************)
EXTENDS GridFile, SequenceTheorems, Induction

-----------------------------------------------------------------------------
(* Offsets and chunks *)

\* The size of a chunk.
LEMMA SizeIs == CS \in Nat /\ CS > 0
BY FileAssumption

\* The offset at which a chunk begins.
Base(i) == i * CS

\* Where a chunk begins, and the next.
LEMMA BaseFacts ==
  ASSUME NEW i \in Nat
  PROVE  Base(i) \in Nat /\ Base(0) = 0 /\ Base(i + 1) = Base(i) + CS
BY FileAssumption, SMT DEF Base

\* The chunks do not overlap.
LEMMA BaseOrder ==
  ASSUME NEW i \in Nat, NEW j \in Nat
  PROVE  /\ i < j => Base(i) + CS <= Base(j)
         /\ i <= j => Base(i) <= Base(j)
<1>1. ASSUME i < j PROVE Base(i) + CS <= Base(j)
  <2>1. PICK k \in Nat : j = i + 1 + k
    <3>1. j - i - 1 \in Nat /\ j = i + 1 + (j - i - 1)
      BY <1>1
    <3> QED BY <3>1
  <2>2. j * CS = i * CS + CS + k * CS
    BY <2>1, FileAssumption
  <2>3. k * CS \in Nat /\ i * CS \in Nat
    BY FileAssumption
  <2> QED BY <2>2, <2>3, FileAssumption DEF Base
<1>2. i = j \/ i < j \/ i > j
  OBVIOUS
<1>3. Base(i) \in Nat /\ Base(j) \in Nat /\ CS \in Nat
  BY BaseFacts, SizeIs
<1> QED BY <1>1, <1>2, <1>3

\* The chunk an offset lies in, and its place there.
LEMMA Places ==
  ASSUME NEW x \in Nat
  PROVE  /\ x \div CS \in Nat /\ x % CS \in Nat /\ x % CS < CS
         /\ x = Base(x \div CS) + (x % CS)
<1>1. CS \in Nat /\ CS > 0
  BY FileAssumption
<1>2. x \div CS \in Nat /\ x % CS \in 0 .. CS - 1
  BY <1>1, SMT
<1>3. x = CS * (x \div CS) + (x % CS)
  BY <1>1, SMT
<1> QED BY <1>1, <1>2, <1>3 DEF Base

\* A place in a chunk is of that chunk.
LEMMA PlaceOf ==
  ASSUME NEW c \in Nat, NEW o \in Nat, o < CS
  PROVE  (Base(c) + o) \div CS = c /\ (Base(c) + o) % CS = o
<1> DEFINE x == Base(c) + o
           d == x \div CS
<1>1. x \in Nat /\ Base(c) \in Nat /\ CS \in Nat
  <2>1. Base(c) \in Nat /\ CS \in Nat
    BY BaseFacts, SizeIs
  <2> QED BY <2>1
<1>2. d \in Nat /\ x % CS \in Nat /\ x % CS < CS /\ x = Base(d) + (x % CS) /\ Base(d) \in Nat
  BY <1>1, Places, BaseFacts
<1>3. ~ d < c /\ ~ c < d
  BY <1>1, <1>2, BaseOrder
<1>4. d = c
  BY <1>2, <1>3
<1> QED BY <1>1, <1>2, <1>4

-----------------------------------------------------------------------------
(* A right file: its chunks, its pending chunk, its bytes *)

\* What the server may have for a file, and the states of a call.
ChunkMaps == UNION {[D -> Seq(Byte)] : D \in SUBSET Nat}

FileState ==
  [pos : Nat, length : Nat, chunkNum : Nat, pending : Seq(Byte), chunks : ChunkMaps,
   left : Int, ok : BOOLEAN, down : BOOLEAN, ret : Seq(Byte \cup Nat)]

\* The chunks of a file of this length: all of them, each as long as it has to be.
Whole(chunks, length) ==
  /\ DOMAIN chunks = {i \in Nat : Base(i) < length}
  /\ \A i \in DOMAIN chunks : Len(chunks[i]) = Smaller(CS, length - Base(i))

\* What is pending is a chunk of the file, at least as long as the one in the server.
PendingRight(s) ==
  s.pending # <<>> =>
    /\ Base(s.chunkNum) <= s.length
    /\ Smaller(CS, s.length - Base(s.chunkNum)) <= Len(s.pending)
    /\ Len(s.pending) <= CS
    /\ Base(s.chunkNum) <= s.pos

Right(s) ==
  /\ s \in FileState
  /\ Whole(s.chunks, s.length)
  /\ PendingRight(s)
  /\ s.pos <= ContentLength(s)

Piece(s, c) == IF s.pending # <<>> /\ c = s.chunkNum THEN s.pending ELSE s.chunks[c]

\* What a map of chunks is.
LEMMA ChunkMap ==
  /\ \A f \in ChunkMaps : /\ f = [i \in DOMAIN f |-> f[i]] /\ DOMAIN f \subseteq Nat
                          /\ \A i \in DOMAIN f : f[i] \in Seq(Byte)
  /\ \A D \in SUBSET Nat : \A f \in [D -> Seq(Byte)] : f \in ChunkMaps
BY DEF ChunkMaps

\* The fields of a state.
LEMMA Fields ==
  ASSUME NEW s \in FileState
  PROVE  /\ s.pos \in Nat /\ s.length \in Nat /\ s.chunkNum \in Nat /\ s.pending \in Seq(Byte)
         /\ s.chunks \in ChunkMaps /\ s.left \in Int /\ s.ok \in BOOLEAN /\ s.down \in BOOLEAN
         /\ s.ret \in Seq(Byte \cup Nat)
         /\ Len(s.pending) \in Nat /\ (s.pending # <<>> => Len(s.pending) > 0)
BY DEF FileState

\* The length of the file, as the program sees it.
LEMMA LengthIs ==
  ASSUME NEW s \in FileState
  PROVE  /\ ContentLength(s) \in Nat
         /\ s.pending = <<>> => ContentLength(s) = s.length
         /\ s.pending # <<>> => ContentLength(s) = Bigger(s.length, Base(s.chunkNum) + Len(s.pending))
<1>1. s.length \in Nat /\ s.chunkNum \in Nat /\ Len(s.pending) \in Nat
  BY Fields
<1>2. Base(s.chunkNum) \in Nat
  BY <1>1, BaseFacts
<1>3. ContentLength(s) = Bigger(s.length, IF s.pending = <<>> THEN 0 ELSE Base(s.chunkNum) + Len(s.pending))
  BY DEF ContentLength, Base
<1> QED BY <1>1, <1>2, <1>3 DEF Bigger

\* Each offset of the file is in a chunk, the pending one or one of the server's.
LEMMA PieceOf ==
  ASSUME NEW s, Right(s), NEW c \in Nat, NEW o \in Nat, o < CS, Base(c) + o < ContentLength(s)
  PROVE  /\ ~ (s.pending # <<>> /\ c = s.chunkNum) => c \in DOMAIN s.chunks /\ Base(c) < s.length
         /\ Piece(s, c) \in Seq(Byte)
         /\ o < Len(Piece(s, c))
         /\ ByteAt(s, Base(c) + o) = Piece(s, c)[o + 1]
<1>1. /\ s.length \in Nat /\ s.chunkNum \in Nat /\ s.pending \in Seq(Byte) /\ Len(s.pending) \in Nat
      /\ s.chunks \in ChunkMaps /\ s \in FileState
  BY Fields DEF Right
<1>2. /\ Base(c) \in Nat /\ Base(s.chunkNum) \in Nat /\ CS \in Nat /\ CS > 0
  <2>1. Base(c) \in Nat /\ Base(s.chunkNum) \in Nat
    BY <1>1, BaseFacts
  <2> QED BY <2>1, SizeIs
<1>3. (Base(c) + o) \div CS = c /\ (Base(c) + o) % CS = o
  BY PlaceOf
<1>4. /\ DOMAIN s.chunks = {i \in Nat : Base(i) < s.length}
      /\ \A i \in DOMAIN s.chunks : Len(s.chunks[i]) = Smaller(CS, s.length - Base(i))
      /\ \A i \in DOMAIN s.chunks : s.chunks[i] \in Seq(Byte)
  BY <1>1, ChunkMap DEF Right, Whole
<1>5. CASE s.pending # <<>> /\ c = s.chunkNum
  <2>1. ContentLength(s) = Bigger(s.length, Base(c) + Len(s.pending))
    BY <1>1, <1>5, LengthIs
  <2>2. Smaller(CS, s.length - Base(c)) <= Len(s.pending)
    BY <1>5 DEF Right, PendingRight
  <2>3. o < Len(s.pending)
    BY <1>1, <1>2, <2>1, <2>2 DEF Bigger, Smaller
  <2> QED BY <1>1, <1>3, <1>5, <2>3 DEF Piece, ByteAt
<1>6. CASE ~ (s.pending # <<>> /\ c = s.chunkNum)
  <2>1. Base(c) + o < s.length
    <3>1. CASE s.pending = <<>>
      BY <1>1, <3>1, LengthIs
    <3>2. CASE s.pending # <<>>
      <4>1. /\ ContentLength(s) = Bigger(s.length, Base(s.chunkNum) + Len(s.pending))
            /\ Base(s.chunkNum) <= s.length /\ Len(s.pending) <= CS
        BY <1>1, <3>2, LengthIs DEF Right, PendingRight
      <4>2. c < s.chunkNum \/ s.chunkNum < c
        BY <1>1, <1>6, <3>2
      <4>3. c < s.chunkNum => Base(c) + CS <= Base(s.chunkNum)
        BY <1>1, BaseOrder
      <4>4. s.chunkNum < c => Base(s.chunkNum) + CS <= Base(c)
        BY <1>1, BaseOrder
      <4> QED BY <1>1, <1>2, <4>1, <4>2, <4>3, <4>4 DEF Bigger
    <3> QED BY <3>1, <3>2
  <2>2. c \in DOMAIN s.chunks /\ Base(c) < s.length
    BY <1>1, <1>2, <1>4, <2>1
  <2>3. s.chunks[c] \in Seq(Byte) /\ Len(s.chunks[c]) = Smaller(CS, s.length - Base(c))
    BY <1>4, <2>2
  <2>4. o < Len(s.chunks[c])
    BY <1>1, <1>2, <2>1, <2>3 DEF Smaller
  <2> QED BY <1>3, <1>6, <2>2, <2>3, <2>4 DEF Piece, ByteAt
<1> QED BY <1>5, <1>6

\* Each byte of the file is in its place in a chunk.
LEMMA BytesAre ==
  ASSUME NEW s, Right(s)
  PROVE  /\ BytesOf(s) \in Seq(Byte) /\ Len(BytesOf(s)) = ContentLength(s)
         /\ \A x \in Nat : x < ContentLength(s) =>
              BytesOf(s)[x + 1] = Piece(s, x \div CS)[(x % CS) + 1]
<1>1. ContentLength(s) \in Nat
  BY LengthIs DEF Right
<1>2. ASSUME NEW x \in Nat, x < ContentLength(s)
      PROVE  ByteAt(s, x) = Piece(s, x \div CS)[(x % CS) + 1] /\ ByteAt(s, x) \in Byte
  <2> DEFINE c == x \div CS
             o == x % CS
  <2>1. c \in Nat /\ o \in Nat /\ o < CS /\ x = Base(c) + o
    BY Places
  <2> HIDE DEF c, o
  <2>2. /\ Piece(s, c) \in Seq(Byte) /\ o < Len(Piece(s, c))
        /\ ByteAt(s, Base(c) + o) = Piece(s, c)[o + 1]
    BY <1>2, <2>1, PieceOf
  <2>3. Piece(s, c)[o + 1] \in Byte
    BY <2>1, <2>2
  <2> QED BY <2>1, <2>2, <2>3 DEF c, o
<1>3. BytesOf(s) = [i \in 1 .. ContentLength(s) |-> ByteAt(s, i - 1)]
  BY DEF BytesOf
<1>4. \A i \in 1 .. ContentLength(s) : ByteAt(s, i - 1) \in Byte
  BY <1>1, <1>2
<1>5. BytesOf(s) \in [1 .. ContentLength(s) -> Byte]
  BY <1>3, <1>4
<1>6. BytesOf(s) \in Seq(Byte) /\ Len(BytesOf(s)) = ContentLength(s)
  BY <1>1, <1>5
<1>7. ASSUME NEW x \in Nat, x < ContentLength(s)
      PROVE  BytesOf(s)[x + 1] = Piece(s, x \div CS)[(x % CS) + 1]
  <2>1. x + 1 \in 1 .. ContentLength(s) /\ x + 1 - 1 = x
    BY <1>1, <1>7
  <2>2. BytesOf(s)[x + 1] = ByteAt(s, x)
    BY <1>3, <2>1
  <2> QED BY <1>2, <1>7, <2>2
<1> QED BY <1>6, <1>7

\* Two states of the same file have the same bytes in the same places.
Alike(s, t) ==
  /\ ContentLength(t) = ContentLength(s)
  /\ \A c \in Nat : \A o \in Nat :
       o < CS /\ Base(c) + o < ContentLength(s) => Piece(t, c)[o + 1] = Piece(s, c)[o + 1]

\* The bytes are the same then.
LEMMA SameBytes ==
  ASSUME NEW s, NEW t, Right(s), Right(t), Alike(s, t)
  PROVE  BytesOf(t) = BytesOf(s)
<1>1. /\ BytesOf(s) \in Seq(Byte) /\ Len(BytesOf(s)) = ContentLength(s)
      /\ BytesOf(t) \in Seq(Byte) /\ Len(BytesOf(t)) = ContentLength(s)
  BY BytesAre DEF Alike
<1>2. ASSUME NEW i \in 1 .. Len(BytesOf(s)) PROVE BytesOf(t)[i] = BytesOf(s)[i]
  <2> DEFINE x == i - 1
             c == x \div CS
             o == x % CS
  <2>0. x \in Nat /\ x < ContentLength(s) /\ x < ContentLength(t) /\ x + 1 = i
    BY <1>1, <1>2 DEF Alike
  <2>1. c \in Nat /\ o \in Nat /\ o < CS /\ x = Base(c) + o
    BY <2>0, Places
  <2>2. BytesOf(s)[x + 1] = Piece(s, c)[o + 1] /\ BytesOf(t)[x + 1] = Piece(t, c)[o + 1]
    BY <2>0, BytesAre
  <2> HIDE DEF c, o, x
  <2> QED BY <2>0, <2>1, <2>2 DEF Alike
<1> QED BY <1>1, <1>2, SeqEqual

\* A state of the file in which d was written from an offset on.
Covered(s, t, at, d) ==
  /\ ContentLength(t) = Bigger(ContentLength(s), at + Len(d))
  /\ \A c \in Nat : \A o \in Nat :
       o < CS /\ Base(c) + o < ContentLength(t) =>
         Piece(t, c)[o + 1] = IF at <= Base(c) + o /\ Base(c) + o < at + Len(d)
                              THEN d[Base(c) + o - at + 1] ELSE Piece(s, c)[o + 1]

\* The bytes are those d was written over.
LEMMA Overwritten ==
  ASSUME NEW s, NEW t, Right(s), Right(t), NEW at \in Nat, at <= ContentLength(s),
         NEW d \in Seq(Byte), Covered(s, t, at, d)
  PROVE  BytesOf(t) = Promise!Over(BytesOf(s), at, d)
<1> DEFINE old == BytesOf(s)
           new == BytesOf(t)
           over == Promise!Over(old, at, d)
<1>1. /\ old \in Seq(Byte) /\ Len(old) = ContentLength(s)
      /\ new \in Seq(Byte) /\ Len(new) = ContentLength(t)
  BY BytesAre
<1>2. Len(d) \in Nat /\ ContentLength(s) \in Nat /\ ContentLength(t) \in Nat
  BY <1>1
<1>3. /\ DOMAIN over = 1 .. ContentLength(t)
      /\ \A i \in 1 .. ContentLength(t) : over[i] = IF i \in at + 1 .. at + Len(d) THEN d[i - at] ELSE old[i]
  <2>1. over = [i \in 1 .. Promise!Most(Len(old), at + Len(d)) |->
                  IF i \in at + 1 .. at + Len(d) THEN d[i - at] ELSE old[i]]
    BY DEF Promise!Over
  <2>2. Promise!Most(Len(old), at + Len(d)) = ContentLength(t)
    BY <1>1 DEF Promise!Most, Covered, Bigger
  <2> QED BY <2>1, <2>2
<1>4. ASSUME NEW i \in 1 .. ContentLength(t) PROVE new[i] = over[i]
  <2> DEFINE x == i - 1
             c == x \div CS
             o == x % CS
  <2>0. x \in Nat /\ x < ContentLength(t) /\ x + 1 = i
    BY <1>2, <1>4
  <2>1. c \in Nat /\ o \in Nat /\ o < CS /\ x = Base(c) + o
    BY <2>0, Places
  <2>2. new[x + 1] = Piece(t, c)[o + 1] /\ (x < ContentLength(s) => old[x + 1] = Piece(s, c)[o + 1])
    BY <2>0, BytesAre
  <2> HIDE DEF c, o, x, old, new, over
  <2>3. Piece(t, c)[o + 1] = IF at <= x /\ x < at + Len(d) THEN d[x - at + 1] ELSE Piece(s, c)[o + 1]
    <3>1. Base(c) + o < ContentLength(t)
      BY <2>0, <2>1
    <3>2. Piece(t, c)[o + 1] = IF at <= Base(c) + o /\ Base(c) + o < at + Len(d)
                               THEN d[Base(c) + o - at + 1] ELSE Piece(s, c)[o + 1]
      BY <2>1, <3>1 DEF Covered
    <3>3. Base(c) \in Nat
      BY <2>1, BaseFacts
    <3>4. Base(c) + o = x /\ Base(c) + o - at + 1 = x - at + 1
      BY <2>0, <2>1, <3>3
    <3> QED BY <3>2, <3>4
  <2>4. CASE at <= x /\ x < at + Len(d)
    <3>1. i \in at + 1 .. at + Len(d) /\ i - at = x - at + 1
      BY <1>2, <2>0, <2>4
    <3> QED BY <1>3, <1>4, <2>0, <2>2, <2>3, <2>4, <3>1
  <2>5. CASE ~ (at <= x /\ x < at + Len(d))
    <3>1. i \notin at + 1 .. at + Len(d)
      BY <1>2, <2>0, <2>5
    <3>2. x < ContentLength(s)
      BY <1>2, <2>0, <2>5 DEF Covered, Bigger
    <3> QED BY <1>3, <1>4, <2>0, <2>2, <2>3, <2>5, <3>1, <3>2
  <2> QED BY <2>4, <2>5
<1>5. new = [i \in 1 .. ContentLength(t) |-> new[i]]
  <2> HIDE DEF new
  <2> QED BY <1>1
<1>6. over = [i \in 1 .. ContentLength(t) |-> over[i]]
  <2>1. over = [i \in DOMAIN over |-> over[i]]
    BY DEF Promise!Over
  <2> HIDE DEF over
  <2> QED BY <2>1, <1>3
<1> HIDE DEF new, over, old
<1>7. new = over
  BY <1>4, <1>5, <1>6
<1> QED BY <1>7 DEF new, over, old

-----------------------------------------------------------------------------
(* The pending chunk: flushed, loaded, merged into *)

\* A chunk is put where it belongs, and the others stay (gridfile_flush_pendingchunk).
LEMMA WithChunkIs ==
  ASSUME NEW chunks \in ChunkMaps, NEW c \in Nat, NEW p \in Seq(Byte)
  PROVE  /\ WithChunk(chunks, c, p) \in ChunkMaps
         /\ DOMAIN WithChunk(chunks, c, p) = DOMAIN chunks \cup {c}
         /\ WithChunk(chunks, c, p)[c] = p
         /\ \A i \in DOMAIN chunks : i # c => WithChunk(chunks, c, p)[i] = chunks[i]
<1> DEFINE D == DOMAIN chunks \cup {c}
           new == [j \in D |-> IF j = c THEN p ELSE chunks[j]]
<1>1. D \in SUBSET Nat /\ \A i \in DOMAIN chunks : chunks[i] \in Seq(Byte)
  BY ChunkMap
<1>2. new \in [D -> Seq(Byte)]
  BY <1>1
<1>3. new \in ChunkMaps
  <2> HIDE DEF new, D
  <2> QED BY <1>1, <1>2, ChunkMap
<1>4. WithChunk(chunks, c, p) = new
  BY DEF WithChunk
<1>5. DOMAIN new = D /\ new[c] = p /\ \A i \in DOMAIN chunks : i # c => new[i] = chunks[i]
  OBVIOUS
<1> HIDE DEF new
<1> QED BY <1>3, <1>4, <1>5

\* The same for all chunks and all bytes.
LEMMA WithChunkAll ==
  \A a \in ChunkMaps : \A b \in Nat : \A q \in Seq(Byte) :
    /\ DOMAIN WithChunk(a, b, q) = DOMAIN a \cup {b}
    /\ WithChunk(a, b, q)[b] = q
    /\ \A i \in DOMAIN a : i # b => WithChunk(a, b, q)[i] = a[i]
<1>1. ASSUME NEW a \in ChunkMaps, NEW b \in Nat, NEW q \in Seq(Byte)
      PROVE  /\ DOMAIN WithChunk(a, b, q) = DOMAIN a \cup {b}
             /\ WithChunk(a, b, q)[b] = q
             /\ \A i \in DOMAIN a : i # b => WithChunk(a, b, q)[i] = a[i]
  BY WithChunkIs
<1> QED BY <1>1

\* A chunk written over another, or at the end, keeps the chunks of a file whole.
LEMMA WholeWith ==
  ASSUME NEW chunks \in ChunkMaps, NEW length \in Nat, Whole(chunks, length), NEW c \in Nat,
         NEW p \in Seq(Byte), p # <<>>, Base(c) <= length,
         Smaller(CS, length - Base(c)) <= Len(p), Len(p) <= CS
  PROVE  Whole(WithChunk(chunks, c, p), Bigger(length, Base(c) + Len(p)))
<1> DEFINE new == WithChunk(chunks, c, p)
           end == Bigger(length, Base(c) + Len(p))
<1>1. /\ DOMAIN new = DOMAIN chunks \cup {c} /\ new[c] = p
      /\ \A i \in DOMAIN chunks : i # c => new[i] = chunks[i]
  BY WithChunkIs
<1>2. /\ DOMAIN chunks = {i \in Nat : Base(i) < length}
      /\ \A i \in DOMAIN chunks : Len(chunks[i]) = Smaller(CS, length - Base(i))
  BY DEF Whole
<1>3. Len(p) \in Nat /\ Len(p) > 0
  OBVIOUS
<1>4. Base(c) \in Nat /\ CS \in Nat /\ CS > 0
  BY BaseFacts, SizeIs
<1> HIDE DEF new
<1>5. end \in Nat /\ end >= length /\ Base(c) < end /\ (end = length \/ end = Base(c) + Len(p))
  BY <1>3, <1>4 DEF Bigger
<1>6. Len(p) = Smaller(CS, end - Base(c))
  BY <1>3, <1>4 DEF Bigger, Smaller
<1>7. ASSUME NEW i \in Nat, i # c
      PROVE  /\ Base(i) < length <=> Base(i) < end
             /\ Base(i) < length => Smaller(CS, end - Base(i)) = Smaller(CS, length - Base(i))
  <2>1. Base(i) \in Nat
    BY BaseFacts
  <2>2. i < c \/ c < i
    BY <1>7
  <2>3. i < c => Base(i) + CS <= Base(c)
    BY BaseOrder
  <2>4. c < i => Base(c) + CS <= Base(i)
    BY BaseOrder
  <2> HIDE DEF end
  <2>5. CASE end = length
    BY <2>5
  <2>6. CASE end = Base(c) + Len(p)
    BY <1>3, <1>4, <1>5, <2>1, <2>2, <2>3, <2>4, <2>6 DEF Smaller
  <2> QED BY <1>5, <2>5, <2>6
<1> HIDE DEF end
<1>8. DOMAIN new = {i \in Nat : Base(i) < end}
  BY <1>1, <1>2, <1>5, <1>7
<1>9. ASSUME NEW i \in DOMAIN new PROVE Len(new[i]) = Smaller(CS, end - Base(i))
  <2>1. CASE i = c
    BY <1>1, <1>6, <2>1
  <2>2. CASE i # c
    <3>1. i \in DOMAIN chunks /\ i \in Nat /\ Base(i) < length /\ new[i] = chunks[i]
      BY <1>1, <1>2, <1>9, <2>2
    <3> QED BY <1>2, <1>7, <2>2, <3>1
  <2> QED BY <2>1, <2>2
<1>10. Whole(new, end)
  BY <1>8, <1>9 DEF Whole
<1> QED BY <1>10 DEF new, end

\* An answer that did not come.
LEMMA NoReplyIs ==
  ASSUME NEW s \in FileState
  PROVE  /\ NoReply(s) \in FileState /\ NoReply(s).ok = FALSE /\ NoReply(s).down = TRUE
         /\ NoReply(s).pos = s.pos /\ NoReply(s).length = s.length /\ NoReply(s).chunkNum = s.chunkNum
         /\ NoReply(s).pending = s.pending /\ NoReply(s).chunks = s.chunks /\ NoReply(s).left = s.left
         /\ NoReply(s).ret = s.ret
BY DEF NoReply, FileState

\* What a flush does to each field.
LEMMA FlushIs ==
  ASSUME NEW s \in FileState, NEW t, t = FlushPending(s)
  PROVE  /\ t \in FileState /\ (s.left \in Nat => t.left \in Nat)
         /\ t.pos = s.pos /\ t.ret = s.ret
         /\ \/ /\ s.pending = <<>> /\ t.ok /\ t.down = s.down /\ t.pending = <<>>
               /\ t.chunkNum = s.chunkNum /\ t.length = s.length /\ t.chunks = s.chunks
            \/ /\ s.pending # <<>> /\ ~ t.ok /\ t.down /\ t.pending = s.pending
               /\ t.chunkNum = s.chunkNum /\ t.length = s.length /\ t.chunks = s.chunks
            \/ /\ s.pending # <<>> /\ t.ok /\ t.down = s.down /\ t.pending = <<>>
               /\ t.chunkNum = s.chunkNum + 1
               /\ t.length = Bigger(s.length, Base(s.chunkNum) + Len(s.pending))
               /\ t.chunks = WithChunk(s.chunks, s.chunkNum, s.pending)
<1>1. /\ s.pos \in Nat /\ s.length \in Nat /\ s.chunkNum \in Nat /\ s.pending \in Seq(Byte)
      /\ s.chunks \in ChunkMaps /\ s.left \in Int /\ Len(s.pending) \in Nat
  BY Fields
<1>2. CASE s.pending = <<>>
  <2>1. t = [s EXCEPT !.ok = TRUE]
    BY <1>2 DEF FlushPending
  <2>2. t \in FileState
    BY <2>1 DEF FileState
  <2>3. /\ t.pos = s.pos /\ t.ret = s.ret /\ t.ok /\ t.down = s.down /\ t.pending = s.pending
        /\ t.chunkNum = s.chunkNum /\ t.length = s.length /\ t.chunks = s.chunks /\ t.left = s.left
    BY <2>1 DEF FileState
  <2> QED BY <1>2, <2>2, <2>3
<1>3. CASE s.pending # <<>> /\ s.left = 0
  <2>1. t = NoReply(s)
    BY <1>3 DEF FlushPending
  <2> QED BY <1>3, <2>1, NoReplyIs
<1>4. CASE s.pending # <<>> /\ s.left # 0
  <2> DEFINE chunks == WithChunk(s.chunks, s.chunkNum, s.pending)
             end == Bigger(s.length, Base(s.chunkNum) + Len(s.pending))
  <2>1. chunks \in ChunkMaps
    BY <1>1, WithChunkIs
  <2>2. end \in Nat
    <3>1. Base(s.chunkNum) \in Nat
      BY <1>1, BaseFacts
    <3> QED BY <1>1, <3>1 DEF Bigger
  <2>3. t = [s EXCEPT !.ok = TRUE, !.left = s.left - 1, !.chunks = chunks, !.length = end,
                      !.chunkNum = s.chunkNum + 1, !.pending = <<>>]
    BY <1>4 DEF FlushPending, Base, FileState
  <2> HIDE DEF chunks, end
  <2>4. t \in FileState
    <3>1. <<>> \in Seq(Byte) /\ s.left - 1 \in Int /\ s.chunkNum + 1 \in Nat
      BY <1>1
    <3> QED BY <2>1, <2>2, <2>3, <3>1 DEF FileState
  <2>5. /\ t.pos = s.pos /\ t.ret = s.ret /\ t.ok /\ t.down = s.down /\ t.pending = <<>>
        /\ t.chunkNum = s.chunkNum + 1 /\ t.length = end /\ t.chunks = chunks /\ t.left = s.left - 1
    BY <2>3 DEF FileState
  <2>6. s.left \in Nat => t.left \in Nat
    BY <1>4, <2>5
  <2> QED BY <1>4, <2>4, <2>5, <2>6 DEF chunks, end
<1> QED BY <1>2, <1>3, <1>4

\* A flush changes nothing the program sees.
LEMMA FlushKeeps ==
  ASSUME NEW s, Right(s), NEW t, t = FlushPending(s)
  PROVE  Right(t) /\ BytesOf(t) = BytesOf(s) /\ ContentLength(t) = ContentLength(s)
<1>1. s \in FileState /\ t \in FileState
  BY FlushIs DEF Right
<1>2. /\ s.length \in Nat /\ s.chunkNum \in Nat /\ s.pending \in Seq(Byte) /\ s.chunks \in ChunkMaps
      /\ Len(s.pending) \in Nat /\ (s.pending # <<>> => Len(s.pending) > 0) /\ t.length \in Nat
  BY <1>1, Fields
<1>3. Base(s.chunkNum) \in Nat
  BY <1>2, BaseFacts
<1> DEFINE w == WithChunk(s.chunks, s.chunkNum, s.pending)
<1>9. w[s.chunkNum] = s.pending /\ \A i \in DOMAIN s.chunks : i # s.chunkNum => w[i] = s.chunks[i]
  <2>1. s.chunks \in ChunkMaps /\ s.chunkNum \in Nat /\ s.pending \in Seq(Byte)
    BY <1>2
  <2>2. /\ WithChunk(s.chunks, s.chunkNum, s.pending)[s.chunkNum] = s.pending
        /\ \A i \in DOMAIN s.chunks : i # s.chunkNum =>
             WithChunk(s.chunks, s.chunkNum, s.pending)[i] = s.chunks[i]
    <3>1. \A a \in ChunkMaps : \A b \in Nat : \A p \in Seq(Byte) :
            WithChunk(a, b, p)[b] = p /\ \A i \in DOMAIN a : i # b => WithChunk(a, b, p)[i] = a[i]
      BY WithChunkAll
    <3> QED BY <2>1, <3>1, Zenon
  <2> QED BY <2>2
<1>4. CASE t.pending = s.pending /\ t.chunkNum = s.chunkNum /\ t.length = s.length /\ t.chunks = s.chunks
  <2>1. ContentLength(t) = ContentLength(s)
    BY <1>4 DEF ContentLength
  <2>2. Right(t)
    BY <1>1, <1>4, <2>1, FlushIs DEF Right, PendingRight
  <2>3. Alike(s, t)
    BY <1>4, <2>1 DEF Alike, Piece
  <2> QED BY <2>1, <2>2, <2>3, SameBytes
<1>5. CASE /\ s.pending # <<>> /\ t.pending = <<>>
           /\ t.length = Bigger(s.length, Base(s.chunkNum) + Len(s.pending))
           /\ t.chunks = WithChunk(s.chunks, s.chunkNum, s.pending)
  <2>1. ContentLength(t) = ContentLength(s)
    BY <1>1, <1>5, LengthIs
  <2>2. Whole(t.chunks, t.length)
    BY <1>2, <1>5, WholeWith DEF Right, PendingRight
  <2>3. Right(t)
    BY <1>1, <1>5, <2>1, <2>2, FlushIs DEF Right, PendingRight
  <2>4. ASSUME NEW c \in Nat, NEW o \in Nat, o < CS, Base(c) + o < ContentLength(s)
        PROVE  Piece(t, c)[o + 1] = Piece(s, c)[o + 1]
    <3>0. Piece(t, c) = t.chunks[c]
      BY <1>5 DEF Piece
    <3>1. CASE c = s.chunkNum
      <4>1. Piece(s, c) = s.pending
        BY <1>5, <3>1 DEF Piece
      <4>2. t.chunks[c] = s.pending
        BY <1>5, <1>9, <3>1
      <4> QED BY <3>0, <4>1, <4>2
    <3>2. CASE c # s.chunkNum
      <4>1. c \in DOMAIN s.chunks
        BY <2>4, <3>2, PieceOf
      <4>2. Piece(s, c) = s.chunks[c]
        BY <3>2 DEF Piece
      <4>3. t.chunks[c] = s.chunks[c]
        BY <1>5, <1>9, <3>2, <4>1
      <4> QED BY <3>0, <4>2, <4>3
    <3> QED BY <3>1, <3>2
  <2>5. Alike(s, t)
    BY <2>1, <2>4 DEF Alike
  <2> QED BY <2>1, <2>3, <2>5, SameBytes
<1> QED BY <1>1, <1>4, <1>5, FlushIs

\* What a load does to each field.
LEMMA LoadIs ==
  ASSUME NEW s \in FileState, NEW t, t = LoadPending(s)
  PROVE  /\ t \in FileState /\ (s.left \in Nat => t.left \in Nat)
         /\ t.pos = s.pos /\ t.ret = s.ret /\ t.length = s.length /\ t.chunks = s.chunks
         /\ \/ /\ ~ t.ok /\ t.down /\ t.pending = s.pending /\ t.chunkNum = s.chunkNum
            \/ /\ s.pos \div CS \notin DOMAIN s.chunks /\ ~ t.ok /\ t.down = s.down
               /\ t.pending = s.pending /\ t.chunkNum = s.chunkNum
            \/ /\ s.pos \div CS \in DOMAIN s.chunks /\ t.ok /\ t.down = s.down
               /\ t.pending = s.chunks[s.pos \div CS] /\ t.chunkNum = s.pos \div CS
<1>1. s.pos \in Nat /\ s.chunks \in ChunkMaps /\ s.left \in Int
  BY Fields
<1>2. CASE s.left = 0
  <2>1. t = NoReply(s)
    BY <1>2 DEF LoadPending
  <2> QED BY <2>1, NoReplyIs
<1> DEFINE c == s.pos \div CS
<1>3. CASE s.left # 0 /\ c \notin DOMAIN s.chunks
  <2>1. t = [s EXCEPT !.ok = FALSE, !.left = s.left - 1]
    BY <1>1, <1>3 DEF LoadPending, FileState
  <2>2. s.left - 1 \in Int
    BY <1>1
  <2>3. t \in FileState
    BY <2>1, <2>2 DEF FileState
  <2>4. /\ t.pos = s.pos /\ t.ret = s.ret /\ t.length = s.length /\ t.chunks = s.chunks /\ ~ t.ok
        /\ t.down = s.down /\ t.pending = s.pending /\ t.chunkNum = s.chunkNum /\ t.left = s.left - 1
    BY <2>1 DEF FileState
  <2>5. s.left \in Nat => t.left \in Nat
    BY <1>3, <2>4
  <2> QED BY <1>3, <2>3, <2>4, <2>5
<1>4. CASE s.left # 0 /\ c \in DOMAIN s.chunks
  <2>1. t = [s EXCEPT !.ok = TRUE, !.left = s.left - 1, !.chunkNum = c, !.pending = s.chunks[c]]
    BY <1>1, <1>4 DEF LoadPending, FileState
  <2>2. s.left - 1 \in Int /\ c \in Nat /\ s.chunks[c] \in Seq(Byte)
    BY <1>1, <1>4, ChunkMap
  <2> HIDE DEF c
  <2>3. t \in FileState
    BY <2>1, <2>2 DEF FileState
  <2>4. /\ t.pos = s.pos /\ t.ret = s.ret /\ t.length = s.length /\ t.chunks = s.chunks
        /\ t.ok /\ t.down = s.down /\ t.pending = s.chunks[c] /\ t.chunkNum = c /\ t.left = s.left - 1
    BY <2>1 DEF FileState
  <2>5. s.left \in Nat => t.left \in Nat
    BY <1>4, <2>4
  <2> QED BY <1>4, <2>3, <2>4, <2>5 DEF c
<1> QED BY <1>2, <1>3, <1>4

\* Loading the chunk of the position changes nothing the program sees.
LEMMA LoadKeeps ==
  ASSUME NEW s, Right(s), s.pending = <<>>, Base(s.pos \div CS) < s.length, NEW t, t = LoadPending(s)
  PROVE  /\ Right(t) /\ BytesOf(t) = BytesOf(s) /\ ContentLength(t) = ContentLength(s)
         /\ t.ok \/ t.down
         /\ t.ok => t.pending # <<>> /\ t.chunkNum = s.pos \div CS
<1> DEFINE c == s.pos \div CS
<1>1. s \in FileState /\ t \in FileState
  BY LoadIs DEF Right
<1>2. /\ s.length \in Nat /\ s.pos \in Nat /\ s.chunks \in ChunkMaps /\ t.chunkNum \in Nat
      /\ t.pending \in Seq(Byte)
  BY <1>1, Fields
<1>3. c \in Nat /\ s.pos % CS \in Nat /\ s.pos = Base(c) + (s.pos % CS)
  BY <1>2, Places
<1> HIDE DEF c
<1>4. Base(c) \in Nat /\ CS \in Nat /\ CS > 0 /\ Base(c) < s.length
  <2>1. Base(c) \in Nat
    BY <1>3, BaseFacts
  <2> QED BY <2>1, SizeIs DEF c
<1>5. /\ DOMAIN s.chunks = {i \in Nat : Base(i) < s.length}
      /\ \A i \in DOMAIN s.chunks : Len(s.chunks[i]) = Smaller(CS, s.length - Base(i))
  BY DEF Right, Whole
<1>6. c \in DOMAIN s.chunks
  BY <1>3, <1>4, <1>5
<1>7. /\ t.pos = s.pos /\ t.ret = s.ret /\ t.length = s.length /\ t.chunks = s.chunks
      /\ \/ ~ t.ok /\ t.down /\ t.pending = s.pending /\ t.chunkNum = s.chunkNum
         \/ t.ok /\ t.pending = s.chunks[c] /\ t.chunkNum = c
  BY <1>1, <1>6, LoadIs DEF c
<1>8. CASE ~ t.ok /\ t.down /\ t.pending = s.pending /\ t.chunkNum = s.chunkNum
  <2>1. ContentLength(t) = ContentLength(s)
    BY <1>7, <1>8 DEF ContentLength
  <2>2. Right(t)
    BY <1>1, <1>7, <1>8, <2>1 DEF Right, PendingRight
  <2>3. Alike(s, t)
    BY <1>7, <1>8, <2>1 DEF Alike, Piece
  <2> QED BY <1>8, <2>1, <2>2, <2>3, SameBytes
<1>9. CASE t.ok /\ t.pending = s.chunks[c] /\ t.chunkNum = c
  <2>1. Len(t.pending) = Smaller(CS, s.length - Base(c)) /\ Len(t.pending) \in Nat
    BY <1>2, <1>5, <1>6, <1>9
  <2>2. t.pending # <<>> /\ Len(t.pending) <= CS /\ Base(c) + Len(t.pending) <= s.length
    BY <1>2, <1>4, <2>1 DEF Smaller
  <2>3. ContentLength(s) = s.length /\ ContentLength(t) = Bigger(s.length, Base(c) + Len(t.pending))
    BY <1>1, <1>7, <1>9, <2>2, LengthIs
  <2>4. ContentLength(t) = ContentLength(s)
    BY <1>2, <1>4, <2>1, <2>2, <2>3 DEF Bigger
  <2>5. PendingRight(t)
    <3> DEFINE o == s.pos % CS
    <3>0. o \in Nat /\ s.pos = Base(c) + o
      BY <1>3
    <3> HIDE DEF o
    <3>1. Base(c) <= s.pos /\ Base(c) <= s.length
      BY <1>2, <1>4, <3>0
    <3>2. Smaller(CS, s.length - Base(c)) <= Len(t.pending)
      BY <2>1
    <3>3. t.length = s.length /\ t.pos = s.pos /\ t.chunkNum = c
      BY <1>7, <1>9
    <3> QED BY <2>2, <3>1, <3>2, <3>3 DEF PendingRight
  <2>6. Right(t)
    BY <1>1, <1>7, <2>4, <2>5 DEF Right
  <2>7. Alike(s, t)
    BY <1>7, <1>9, <2>4 DEF Alike, Piece
  <2> QED BY <1>9, <2>2, <2>4, <2>6, <2>7, SameBytes DEF c
<1> QED BY <1>7, <1>8, <1>9

\* What memcpy() leaves.
LEMMA MergedIs ==
  ASSUME NEW old \in Seq(Byte), NEW at \in Nat, NEW d \in Seq(Byte)
  PROVE  /\ Merged(old, at, d) \in Seq(Byte)
         /\ Len(Merged(old, at, d)) = Bigger(Len(old), at + Len(d))
         /\ \A i \in 1 .. Bigger(Len(old), at + Len(d)) :
              Merged(old, at, d)[i] = IF i \in at + 1 .. at + Len(d) THEN d[i - at]
                                      ELSE IF i <= Len(old) THEN old[i] ELSE Garbage
<1> DEFINE n == Bigger(Len(old), at + Len(d))
           F(i) == IF i \in at + 1 .. at + Len(d) THEN d[i - at]
                   ELSE IF i <= Len(old) THEN old[i] ELSE Garbage
<1>1. n \in Nat
  BY DEF Bigger
<1>2. ASSUME NEW i \in 1 .. n PROVE F(i) \in Byte
  <2>1. CASE i \in at + 1 .. at + Len(d)
    <3>1. i - at \in 1 .. Len(d)
      BY <1>1, <2>1
    <3> QED BY <2>1, <3>1
  <2>2. CASE i \notin at + 1 .. at + Len(d) /\ i <= Len(old)
    BY <1>1, <1>2, <2>2
  <2>3. CASE i \notin at + 1 .. at + Len(d) /\ ~ i <= Len(old)
    BY <2>3, FileAssumption
  <2> QED BY <2>1, <2>2, <2>3
<1>3. Merged(old, at, d) = [i \in 1 .. n |-> F(i)]
  BY DEF Merged
<1> HIDE DEF n, F
<1>4. [i \in 1 .. n |-> F(i)] \in [1 .. n -> Byte]
  BY <1>2
<1>5. Merged(old, at, d) \in Seq(Byte) /\ Len(Merged(old, at, d)) = n
  BY <1>1, <1>3, <1>4
<1>6. \A i \in 1 .. n : Merged(old, at, d)[i] = F(i)
  BY <1>3
<1> QED BY <1>5, <1>6 DEF n, F

\* d is written into the chunk at hand, at offset off in it.
Fits(s, off, d) ==
  /\ off \in Nat /\ d \in Seq(Byte) /\ (d # <<>> \/ s.pending # <<>>)
  /\ s.pos = Base(s.chunkNum) + off /\ off + Len(d) <= CS
  /\ s.pending # <<>> \/ (off = 0 /\ s.length <= s.pos + Len(d))
FillOf(s, off, d, t) ==
  Fits(s, off, d) /\ t = [s EXCEPT !.pending = Merged(s.pending, off, d), !.pos = s.pos + Len(d)]
Filled(s, t, d) ==
  /\ Right(t) /\ t.pos = s.pos + Len(d) /\ t.ok = s.ok /\ t.down = s.down /\ t.ret = s.ret
  /\ t.chunkNum = s.chunkNum /\ t.pending # <<>>
  /\ BytesOf(t) = Promise!Over(BytesOf(s), s.pos, d)
  /\ ContentLength(t) = Bigger(ContentLength(s), s.pos + Len(d))

\* The bytes merged into the pending chunk are in their place in the file.
LEMMA Fills ==
  ASSUME NEW s, Right(s), NEW off, NEW d, NEW t, FillOf(s, off, d, t)
  PROVE  Filled(s, t, d)
<1> DEFINE b == Base(s.chunkNum)
           new == Merged(s.pending, off, d)
           old == s.pending
<1>1. /\ s \in FileState /\ s.pos \in Nat /\ s.length \in Nat /\ s.chunkNum \in Nat /\ old \in Seq(Byte)
      /\ Len(old) \in Nat /\ (old # <<>> => Len(old) > 0)
  BY Fields DEF Right
<1>2. /\ off \in Nat /\ d \in Seq(Byte) /\ s.pos = b + off /\ off + Len(d) <= CS
      /\ old # <<>> \/ (off = 0 /\ s.length <= s.pos + Len(d))
      /\ Len(d) \in Nat /\ (Len(d) > 0 \/ old # <<>>)
  BY DEF Fits, FillOf
<1>3. b \in Nat /\ CS \in Nat /\ CS > 0
  <2>1. b \in Nat
    BY <1>1, BaseFacts
  <2> QED BY <2>1, SizeIs
<1>4. /\ new \in Seq(Byte) /\ Len(new) = Bigger(Len(old), off + Len(d))
      /\ \A i \in 1 .. Bigger(Len(old), off + Len(d)) :
           new[i] = IF i \in off + 1 .. off + Len(d) THEN d[i - off]
                    ELSE IF i <= Len(old) THEN old[i] ELSE Garbage
  BY <1>1, <1>2, MergedIs
<1>5. /\ old = <<>> => ContentLength(s) = s.length
      /\ old # <<>> => ContentLength(s) = Bigger(s.length, b + Len(old))
  BY <1>1, LengthIs
<1>6. /\ old # <<>> => b <= s.length /\ Smaller(CS, s.length - b) <= Len(old) /\ Len(old) <= CS
      /\ s.pos <= ContentLength(s)
  BY DEF Right, PendingRight
<1> HIDE DEF b, new, old
<1>7. off <= Len(old)
  BY <1>1, <1>2, <1>3, <1>5, <1>6 DEF Bigger, Smaller
<1>8. /\ t \in FileState /\ t.pending = new /\ t.pos = s.pos + Len(d) /\ t.ok = s.ok /\ t.down = s.down
      /\ t.chunks = s.chunks /\ t.length = s.length /\ t.chunkNum = s.chunkNum /\ t.ret = s.ret
  <2>1. t = [s EXCEPT !.pending = new, !.pos = s.pos + Len(d)]
    BY DEF FillOf, new, old
  <2>2. s.pos + Len(d) \in Nat
    BY <1>1, <1>2
  <2> QED BY <1>1, <1>4, <2>1, <2>2 DEF FileState
<1>9. Len(new) \in Nat /\ Len(new) >= off + Len(d) /\ Len(new) >= Len(old) /\ Len(new) <= CS /\ new # <<>>
  <2>1. old = <<>> => Len(old) = 0
    OBVIOUS
  <2>2. Len(new) \in Nat /\ Len(new) >= off + Len(d) /\ Len(new) >= Len(old) /\ Len(new) <= CS /\ Len(new) > 0
    BY <1>1, <1>2, <1>3, <1>4, <1>6, <2>1 DEF Bigger
  <2> QED BY <2>2
<1>10. ContentLength(t) = Bigger(s.length, b + Len(new))
  BY <1>8, <1>9, LengthIs DEF b
<1>11. ContentLength(t) = Bigger(ContentLength(s), s.pos + Len(d))
  <2> DEFINE o == Len(old)
             n == Len(new)
             k == Len(d)
             l == s.length
             p == s.pos
             x == ContentLength(s)
  <2>1. n = Bigger(o, off + k)
    BY <1>4
  <2>2. o \in Nat /\ k \in Nat /\ l \in Nat /\ off \in Nat /\ p = b + off
    BY <1>1, <1>2
  <2>3. (old = <<>> => o = 0 /\ x = l) /\ (old # <<>> => x = Bigger(l, b + o))
    <3>1. old = <<>> => o = 0
      OBVIOUS
    <3> QED BY <1>5, <3>1
  <2>4. ContentLength(t) = Bigger(l, b + n)
    BY <1>10
  <2> HIDE DEF o, n, k, l, p, x
  <2>5. CASE old = <<>>
    <3>1. o = 0 /\ x = l
      BY <2>3, <2>5
    <3>2. ContentLength(t) = Bigger(x, p + k)
      BY <1>3, <2>1, <2>2, <2>4, <3>1 DEF Bigger
    <3> QED BY <3>2 DEF x, p, k
  <2>6. CASE old # <<>>
    <3>1. x = Bigger(l, b + o)
      BY <2>3, <2>6
    <3>2. ContentLength(t) = Bigger(x, p + k)
      BY <1>3, <2>1, <2>2, <2>4, <3>1 DEF Bigger
    <3> QED BY <3>2 DEF x, p, k
  <2> QED BY <2>5, <2>6
<1>12. b <= s.length /\ Smaller(CS, s.length - b) <= Len(new)
  BY <1>1, <1>2, <1>3, <1>5, <1>6, <1>9 DEF Smaller
<1>13. Right(t)
  <2>1. PendingRight(t)
    <3>1. b <= s.pos + Len(d)
      BY <1>2, <1>3
    <3> QED BY <1>8, <1>9, <1>12, <3>1 DEF PendingRight, b
  <2>2. Whole(t.chunks, t.length)
    BY <1>8 DEF Right
  <2>3. t.pos <= ContentLength(t)
    BY <1>1, <1>2, <1>8, <1>11, <1>10, <1>9, <1>3 DEF Bigger
  <2> QED BY <1>8, <2>1, <2>2, <2>3 DEF Right
<1>14. ASSUME NEW c \in Nat, NEW o \in Nat, o < CS, Base(c) + o < ContentLength(t)
       PROVE  Piece(t, c)[o + 1] = IF s.pos <= Base(c) + o /\ Base(c) + o < s.pos + Len(d)
                                   THEN d[Base(c) + o - s.pos + 1] ELSE Piece(s, c)[o + 1]
  <2>1. Base(c) \in Nat
    BY <1>14, BaseFacts
  <2>2. CASE c = s.chunkNum
    <3>1. Piece(t, c) = new /\ Base(c) = b
      BY <1>8, <1>9, <2>2 DEF Piece, b
    <3>2. o < Len(new)
      BY <1>13, <1>14, <3>1, PieceOf
    <3>3. new[o + 1] = IF o + 1 \in off + 1 .. off + Len(d) THEN d[o + 1 - off]
                       ELSE IF o + 1 <= Len(old) THEN old[o + 1] ELSE Garbage
      <4>1. o + 1 \in 1 .. Bigger(Len(old), off + Len(d))
        BY <1>4, <1>9, <1>14, <3>2
      <4>2. PICK i \in 1 .. Bigger(Len(old), off + Len(d)) : i = o + 1
        BY <4>1
      <4>3. new[i] = IF i \in off + 1 .. off + Len(d) THEN d[i - off]
                     ELSE IF i <= Len(old) THEN old[i] ELSE Garbage
        BY <1>4, <4>2
      <4>4. i \in Nat /\ o + 1 \in Nat
        BY <1>14, <4>2
      <4> QED BY <1>1, <1>2, <1>14, <4>2, <4>3, <4>4
    <3>4. CASE off <= o /\ o < off + Len(d)
      <4>1. s.pos <= Base(c) + o /\ Base(c) + o < s.pos + Len(d) /\ Base(c) + o - s.pos + 1 = o + 1 - off
        BY <1>2, <1>3, <1>14, <3>1, <3>4
      <4>2. o + 1 \in off + 1 .. off + Len(d)
        BY <1>2, <1>14, <3>4
      <4> QED BY <3>1, <3>3, <4>1, <4>2
    <3>5. CASE ~ (off <= o /\ o < off + Len(d))
      <4>1. ~ (s.pos <= Base(c) + o /\ Base(c) + o < s.pos + Len(d))
        BY <1>2, <1>3, <1>14, <3>1, <3>5
      <4>2. o + 1 \notin off + 1 .. off + Len(d)
        BY <1>2, <1>14, <3>5
      <4>3. o + 1 <= Len(old) /\ old # <<>>
        <5>1. o < off \/ (o >= off + Len(d) /\ Len(new) = Len(old))
          BY <1>1, <1>2, <1>4, <1>14, <3>2, <3>5 DEF Bigger
        <5>2. o < Len(old)
          BY <1>1, <1>2, <1>7, <1>14, <3>2, <5>1
        <5> QED BY <1>1, <1>14, <5>2
      <4>4. Piece(s, c) = old
        BY <2>2, <4>3 DEF Piece, old
      <4> QED BY <3>1, <3>3, <4>1, <4>2, <4>3, <4>4
    <3>6. (off <= o /\ o < off + Len(d)) \/ ~ (off <= o /\ o < off + Len(d))
      OBVIOUS
    <3> QED BY <3>4, <3>5, <3>6
  <2>3. CASE c # s.chunkNum
    <3>1. c < s.chunkNum \/ s.chunkNum < c
      BY <1>1, <1>14, <2>3
    <3>2. c < s.chunkNum => Base(c) + CS <= b
      BY <1>1, <1>14, BaseOrder DEF b
    <3>3. s.chunkNum < c => b + CS <= Base(c)
      BY <1>1, <1>14, BaseOrder DEF b
    <3>4. ~ (s.pos <= Base(c) + o /\ Base(c) + o < s.pos + Len(d))
      BY <1>2, <1>3, <1>14, <2>1, <3>1, <3>2, <3>3
    <3>5. Piece(t, c) = s.chunks[c] /\ Piece(s, c) = s.chunks[c]
      BY <1>8, <2>3 DEF Piece
    <3> QED BY <3>4, <3>5
  <2> QED BY <2>2, <2>3
<1>15. BytesOf(t) = Promise!Over(BytesOf(s), s.pos, d)
  <2>1. Covered(s, t, s.pos, d)
    BY <1>11, <1>14 DEF Covered
  <2> QED BY <1>1, <1>2, <1>6, <1>13, <2>1, Overwritten
<1> QED BY <1>8, <1>9, <1>11, <1>13, <1>15 DEF Filled

-----------------------------------------------------------------------------
(* Parts of sequences, and writing over them *)

\* r is the n bytes of s behind the first m.
IsPart(r, s, m, n) ==
  r \in Seq(Byte) /\ Len(r) = n /\ \A i \in 1 .. n : r[i] = s[m + i]

\* A part of a sequence, byte by byte.
LEMMA PartOf ==
  ASSUME NEW s \in Seq(Byte), NEW m \in Nat, NEW n \in Nat, m + n <= Len(s)
  PROVE  IsPart(SubSeq(s, m + 1, m + n), s, m, n)
<1> DEFINE r == SubSeq(s, m + 1, m + n)
<1>1. Len(s) \in Nat /\ \A i \in m + 1 .. m + n : s[i] \in Byte
  BY ElementOfSeq, LenProperties
<1>2. /\ r \in Seq(Byte) /\ Len(r) = IF m + 1 <= m + n THEN m + n - (m + 1) + 1 ELSE 0
      /\ \A i \in 1 .. m + n - (m + 1) + 1 : r[i] = s[m + 1 + i - 1]
  BY <1>1, SubSeqProperties
<1>3. m + n - (m + 1) + 1 = n /\ (m + 1 <= m + n \/ n = 0) /\ \A i \in 1 .. n : m + 1 + i - 1 = m + i
  OBVIOUS
<1> HIDE DEF r
<1>4. r \in Seq(Byte) /\ Len(r) = n /\ \A i \in 1 .. n : r[i] = s[m + i]
  BY <1>2, <1>3
<1> QED BY <1>4 DEF IsPart, r

\* The first n bytes of d, and the rest.
LEMMA HeadAndRest ==
  ASSUME NEW d \in Seq(Byte), NEW n \in 0 .. Len(d)
  PROVE  IsPart(SubSeq(d, 1, n), d, 0, n) /\ IsPart(SubSeq(d, n + 1, Len(d)), d, n, Len(d) - n)
<1>1. Len(d) \in Nat
  BY LenProperties
<1>2. 0 + n <= Len(d) /\ 0 + 1 = 1 /\ 0 + n = n /\ n \in Nat /\ 0 \in Nat
  BY <1>1
<1>3. Len(d) - n \in Nat /\ n + (Len(d) - n) = Len(d) /\ n + (Len(d) - n) <= Len(d)
  BY <1>1
<1>4. IsPart(SubSeq(d, 0 + 1, 0 + n), d, 0, n)
  BY <1>2, PartOf, Zenon
<1>5. IsPart(SubSeq(d, n + 1, n + (Len(d) - n)), d, n, Len(d) - n)
  BY <1>2, <1>3, PartOf, Zenon
<1> QED BY <1>2, <1>3, <1>4, <1>5

\* Writing over bytes.
IsOver(r, b, at, d, n) ==
  /\ r \in Seq(Byte) /\ Len(r) = Bigger(Len(b), at + n)
  /\ \A i \in 1 .. Bigger(Len(b), at + n) : r[i] = IF i \in at + 1 .. at + n THEN d[i - at] ELSE b[i]

\* Writing over bytes, byte by byte.
LEMMA OverIs ==
  ASSUME NEW b \in Seq(Byte), NEW at \in 0 .. Len(b), NEW d \in Seq(Byte)
  PROVE  IsOver(Promise!Over(b, at, d), b, at, d, Len(d))
<1> DEFINE n == Bigger(Len(b), at + Len(d))
           F(i) == IF i \in at + 1 .. at + Len(d) THEN d[i - at] ELSE b[i]
<1>1. n \in Nat /\ Len(b) \in Nat /\ Len(d) \in Nat
  BY LenProperties DEF Bigger
<1>2. ASSUME NEW i \in 1 .. n PROVE F(i) \in Byte
  <2>1. CASE i \in at + 1 .. at + Len(d)
    <3>1. i - at \in 1 .. Len(d)
      BY <1>1, <2>1
    <3> QED BY <2>1, <3>1
  <2>2. CASE i \notin at + 1 .. at + Len(d)
    <3>1. i \in 1 .. Len(b)
      BY <1>1, <1>2, <2>2 DEF Bigger
    <3> QED BY <2>2, <3>1
  <2> QED BY <2>1, <2>2
<1>3. Promise!Over(b, at, d) = [i \in 1 .. n |-> F(i)]
  <2>1. Promise!Most(Len(b), at + Len(d)) = n
    BY DEF Promise!Most, Bigger
  <2> QED BY <2>1 DEF Promise!Over
<1> HIDE DEF n, F
<1>4. [i \in 1 .. n |-> F(i)] \in [1 .. n -> Byte]
  BY <1>2
<1>5. Promise!Over(b, at, d) \in Seq(Byte) /\ Len(Promise!Over(b, at, d)) = n
  BY <1>1, <1>3, <1>4
<1>6. \A i \in 1 .. n : Promise!Over(b, at, d)[i] = F(i)
  BY <1>3
<1> QED BY <1>5, <1>6 DEF n, F, IsOver

\* Writing nothing.
LEMMA OverNothing ==
  ASSUME NEW b \in Seq(Byte), NEW at \in 0 .. Len(b), NEW d \in Seq(Byte), Len(d) = 0
  PROVE  Promise!Over(b, at, d) = b
<1> DEFINE over == Promise!Over(b, at, d)
<1>1. Len(b) \in Nat
  BY LenProperties
<1>2. /\ over \in Seq(Byte) /\ Len(over) = Bigger(Len(b), at + Len(d))
      /\ \A i \in 1 .. Bigger(Len(b), at + Len(d)) :
           over[i] = IF i \in at + 1 .. at + Len(d) THEN d[i - at] ELSE b[i]
  <2>1. IsOver(over, b, at, d, Len(d))
    BY OverIs
  <2> HIDE DEF over
  <2> QED BY <2>1 DEF IsOver
<1>3. Bigger(Len(b), at + Len(d)) = Len(b) /\ \A i \in 1 .. Len(b) : i \notin at + 1 .. at + Len(d)
  BY <1>1 DEF Bigger
<1> HIDE DEF over
<1>4. Len(over) = Len(b) /\ \A i \in 1 .. Len(b) : over[i] = b[i]
  BY <1>2, <1>3
<1>5. over = b
  BY <1>2, <1>4, SeqEqual
<1> QED BY <1>5 DEF over

\* Writing one part and then the next one is writing both.
LEMMA OverParts ==
  ASSUME NEW b \in Seq(Byte), NEW at \in 0 .. Len(b), NEW d \in Seq(Byte), NEW n \in 0 .. Len(d),
         NEW m \in 0 .. Len(d) - n
  PROVE  Promise!Over(Promise!Over(b, at, SubSeq(d, 1, n)), at + n, SubSeq(SubSeq(d, n + 1, Len(d)), 1, m))
           = Promise!Over(b, at, SubSeq(d, 1, n + m))
<1> DEFINE first == SubSeq(d, 1, n)
           rest == SubSeq(d, n + 1, Len(d))
           second == SubSeq(rest, 1, m)
           both == SubSeq(d, 1, n + m)
           b1 == Promise!Over(b, at, first)
           b2 == Promise!Over(b1, at + n, second)
           b3 == Promise!Over(b, at, both)
<1>1. Len(d) \in Nat /\ Len(b) \in Nat /\ n + m \in 0 .. Len(d)
  <2>1. Len(d) \in Nat /\ Len(b) \in Nat
    BY LenProperties
  <2> QED BY <2>1
<1>2. /\ first \in Seq(Byte) /\ Len(first) = n /\ \A i \in 1 .. n : first[i] = d[0 + i]
      /\ rest \in Seq(Byte) /\ Len(rest) = Len(d) - n /\ \A i \in 1 .. Len(d) - n : rest[i] = d[n + i]
  BY HeadAndRest DEF IsPart
<1>3. both \in Seq(Byte) /\ Len(both) = n + m /\ \A i \in 1 .. n + m : both[i] = d[0 + i]
  BY <1>1, HeadAndRest DEF IsPart
<1> HIDE DEF first, rest, both
<1>4. second \in Seq(Byte) /\ Len(second) = m /\ \A i \in 1 .. m : second[i] = rest[0 + i]
  <2>1. m \in 0 .. Len(rest)
    BY <1>2
  <2> QED BY <1>2, <2>1, HeadAndRest DEF IsPart
<1>5. \A i \in 1 .. m : second[i] = d[n + i]
  <2>1. \A i \in 1 .. m : i \in 1 .. Len(d) - n /\ 0 + i = i
    BY <1>1
  <2> QED BY <1>2, <1>4, <2>1
<1> HIDE DEF second
<1>6. IsOver(b1, b, at, first, n)
  <2>1. IsOver(b1, b, at, first, Len(first))
    BY <1>2, OverIs
  <2> QED BY <1>2, <2>1
<1>7. at + n \in 0 .. Len(b1)
  BY <1>1, <1>6 DEF Bigger, IsOver
<1> HIDE DEF b1
<1>8. IsOver(b2, b1, at + n, second, m)
  <2>1. IsOver(b2, b1, at + n, second, Len(second))
    <3>1. b1 \in Seq(Byte)
      BY <1>6 DEF IsOver
    <3> QED BY <1>4, <1>7, <3>1, OverIs
  <2> QED BY <1>4, <2>1
<1>9. IsOver(b3, b, at, both, n + m)
  <2>1. IsOver(b3, b, at, both, Len(both))
    BY <1>3, OverIs
  <2> QED BY <1>3, <2>1
<1> HIDE DEF b2, b3
<1>10. Len(b2) = Len(b3)
  BY <1>1, <1>6, <1>8, <1>9 DEF Bigger, IsOver
<1>11. ASSUME NEW i \in 1 .. Len(b2) PROVE b2[i] = b3[i]
  <2>0. /\ i \in Nat /\ i >= 1 /\ i \in 1 .. Bigger(Len(b1), (at + n) + m)
        /\ i \in 1 .. Bigger(Len(b), at + (n + m))
    BY <1>1, <1>6, <1>8, <1>9, <1>10, <1>11 DEF Bigger, IsOver
  <2>1. /\ b2[i] = IF i \in at + n + 1 .. at + n + m THEN second[i - (at + n)] ELSE b1[i]
        /\ b3[i] = IF i \in at + 1 .. at + (n + m) THEN both[i - at] ELSE b[i]
    BY <1>8, <1>9, <2>0 DEF IsOver
  <2>2. CASE i \in at + n + 1 .. at + n + m
    <3>1. i - (at + n) \in 1 .. m /\ i - at \in 1 .. n + m /\ n + (i - (at + n)) = i - at
      BY <1>1, <2>0, <2>2
    <3>2. i \in at + 1 .. at + (n + m)
      BY <1>1, <2>0, <2>2
    <3>3. b2[i] = d[i - at] /\ b3[i] = d[i - at]
      BY <1>1, <1>3, <1>5, <2>0, <2>1, <2>2, <3>1, <3>2
    <3> QED BY <3>3
  <2>3. CASE i \in at + 1 .. at + n
    <3>1. i - at \in 1 .. n /\ i - at \in 1 .. n + m /\ i \in 1 .. Bigger(Len(b), at + n)
      BY <1>1, <2>0, <2>3 DEF Bigger
    <3>2. i \notin at + n + 1 .. at + n + m /\ i \in at + 1 .. at + (n + m)
      BY <1>1, <2>0, <2>3
    <3>3. b2[i] = first[i - at] /\ b3[i] = both[i - at]
      BY <1>6, <2>1, <2>3, <3>1, <3>2 DEF IsOver
    <3> QED BY <1>2, <1>3, <3>1, <3>3
  <2>4. CASE i \notin at + n + 1 .. at + n + m /\ i \notin at + 1 .. at + n
    <3>1. i \in 1 .. Bigger(Len(b), at + n) /\ i \notin at + 1 .. at + (n + m)
      BY <1>1, <2>0, <2>4 DEF Bigger
    <3> QED BY <1>6, <2>1, <2>4, <3>1 DEF IsOver
  <2> QED BY <2>2, <2>3, <2>4
<1>12. b2 = b3
  BY <1>8, <1>9, <1>10, <1>11, SeqEqual DEF IsOver
<1> QED BY <1>12 DEF b1, b2, b3, first, second, rest, both

-----------------------------------------------------------------------------
(* gridfile_write_buffer *)

\* What the write of k whole chunks does to each field.
FullParts(s, t, d, k) ==
  /\ DOMAIN t.chunks = DOMAIN s.chunks \cup (s.chunkNum .. s.chunkNum + k - 1)
  /\ \A i \in s.chunkNum .. s.chunkNum + k - 1 : IsPart(t.chunks[i], d, Base(i - s.chunkNum), CS)
  /\ \A i \in DOMAIN s.chunks : i \notin s.chunkNum .. s.chunkNum + k - 1 => t.chunks[i] = s.chunks[i]

\* Each field after the write of k whole chunks.
LEMMA FullIs ==
  ASSUME NEW s \in FileState, NEW d \in Seq(Byte), NEW k \in Nat, k <= s.left, Base(k) <= Len(d),
         NEW t, t = WriteFull(s, d, k)
  PROVE  /\ t \in FileState /\ t.left \in Nat
         /\ t.pos = s.pos + Base(k) /\ t.chunkNum = s.chunkNum + k /\ t.pending = s.pending
         /\ t.ret = s.ret
         /\ t.length = IF k = 0 THEN s.length ELSE Bigger(s.length, s.pos + Base(k))
         /\ t.ok = (k = Len(d) \div CS) /\ t.down = (s.down \/ k < Len(d) \div CS)
         /\ FullParts(s, t, d, k)
<1> DEFINE c == s.chunkNum
           new == c .. c + k - 1
           D == DOMAIN s.chunks \cup new
           F(i) == SubSeq(d, ((i - c) * CS) + 1, (i - c + 1) * CS)
           chunks == [i \in D |-> IF i \in new THEN F(i) ELSE s.chunks[i]]
           end == IF k = 0 THEN s.length ELSE Bigger(s.length, s.pos + Base(k))
<1>1. /\ s.pos \in Nat /\ s.length \in Nat /\ c \in Nat /\ s.chunks \in ChunkMaps /\ s.left \in Int
      /\ s.down \in BOOLEAN /\ Len(d) \in Nat
  BY Fields
<1>2. CS \in Nat /\ CS > 0 /\ Base(k) \in Nat
  BY SizeIs, BaseFacts
<1>3. ASSUME NEW i \in new PROVE IsPart(F(i), d, Base(i - c), CS)
  <2> DEFINE j == i - c
  <2>1. j \in Nat /\ j < k /\ j + 1 \in Nat
    BY <1>1, <1>3
  <2> HIDE DEF j
  <2>2. Base(j) \in Nat /\ Base(j) + CS <= Base(k) /\ Base(j + 1) = Base(j) + CS
    BY <2>1, BaseFacts, BaseOrder
  <2>3. Base(j) + CS <= Len(d)
    BY <1>1, <1>2, <2>2
  <2>4. IsPart(SubSeq(d, Base(j) + 1, Base(j) + CS), d, Base(j), CS)
    BY <1>2, <2>2, <2>3, PartOf
  <2>5. F(i) = SubSeq(d, Base(j) + 1, Base(j + 1))
    BY DEF Base, j
  <2> QED BY <2>2, <2>4, <2>5 DEF j
<1>4. chunks \in ChunkMaps
  <2>1. D \in SUBSET Nat
    BY <1>1, ChunkMap
  <2>2. \A i \in D : (IF i \in new THEN F(i) ELSE s.chunks[i]) \in Seq(Byte)
    <3>1. \A i \in DOMAIN s.chunks : s.chunks[i] \in Seq(Byte)
      BY <1>1, ChunkMap
    <3>2. \A i \in new : F(i) \in Seq(Byte)
      BY <1>3 DEF IsPart
    <3> HIDE DEF F, new
    <3> QED BY <3>1, <3>2
  <2> HIDE DEF F, new, D
  <2>3. chunks \in [D -> Seq(Byte)]
    BY <2>2
  <2> HIDE DEF chunks
  <2> QED BY <2>1, <2>3, ChunkMap
<1>5. /\ DOMAIN chunks = D /\ \A i \in new : chunks[i] = F(i)
      /\ \A i \in DOMAIN s.chunks : i \notin new => chunks[i] = s.chunks[i]
  <2> HIDE DEF F, new
  <2> QED OBVIOUS
<1>6. end \in Nat
  BY <1>1, <1>2 DEF Bigger
<1> DEFINE full == Len(d) \div CS
<1>7. t = [s EXCEPT !.chunks = chunks, !.chunkNum = c + k, !.pos = s.pos + k * CS, !.left = s.left - k,
                    !.length = IF k = 0 THEN s.length ELSE Bigger(s.length, s.pos + k * CS),
                    !.ok = (k = full), !.down = s.down \/ k < full]
  <2> HIDE DEF F, full
  <2> QED BY DEF WriteFull, FileState, F, full
<1>8. k * CS = Base(k)
  BY DEF Base
<1>9. t = [s EXCEPT !.chunks = chunks, !.chunkNum = c + k, !.pos = s.pos + Base(k), !.left = s.left - k,
                    !.length = end, !.ok = (k = full), !.down = (s.down \/ k < full)]
  <2> HIDE DEF chunks, full
  <2> QED BY <1>7, <1>8
<1> HIDE DEF chunks, end, full, F, new, D
<1>10. /\ s.pos + Base(k) \in Nat /\ c + k \in Nat /\ s.left - k \in Nat
       /\ (k = full) \in BOOLEAN /\ (s.down \/ k < full) \in BOOLEAN
  BY <1>1, <1>2
<1> DEFINE ok == (k = full)
           fails == (s.down \/ k < full)
           pos == s.pos + Base(k)
           num == c + k
           left == s.left - k
<1>14. t = [s EXCEPT !.chunks = chunks, !.chunkNum = num, !.pos = pos, !.left = left,
                     !.length = end, !.ok = ok, !.down = fails]
  BY <1>9
<1>15. pos \in Nat /\ num \in Nat /\ left \in Nat /\ left \in Int /\ ok \in BOOLEAN /\ fails \in BOOLEAN
  BY <1>10
<1> HIDE DEF ok, fails, pos, num, left
<1>16. t \in FileState
  BY <1>4, <1>6, <1>14, <1>15 DEF FileState
<1>17. /\ t.pos = pos /\ t.chunkNum = num /\ t.pending = s.pending /\ t.ret = s.ret /\ t.left = left
       /\ t.length = end /\ t.chunks = chunks /\ t.ok = ok /\ t.down = fails
  BY <1>14 DEF FileState
<1>11. /\ t \in FileState /\ t.left \in Nat
       /\ t.pos = s.pos + Base(k) /\ t.chunkNum = c + k /\ t.pending = s.pending /\ t.ret = s.ret
       /\ t.length = end /\ t.chunks = chunks /\ t.ok = (k = full) /\ t.down = (s.down \/ k < full)
  BY <1>15, <1>16, <1>17 DEF ok, fails, pos, num, left
<1>12. FullParts(s, t, d, k)
  BY <1>3, <1>5, <1>11 DEF FullParts, D, new
<1> QED BY <1>11, <1>12 DEF end, full

\* The offset of a chunk behind others.
LEMMA BaseSum ==
  ASSUME NEW i \in Nat, NEW k \in Nat
  PROVE  Base(i + k) = Base(i) + Base(k)
BY FileAssumption, SMT DEF Base

\* The chunks of a run are those that begin in it.
LEMMA RunIs ==
  ASSUME NEW c \in Nat, NEW k \in Nat, NEW i \in Nat
  PROVE  /\ i \in c .. c + k - 1 => Base(c) <= Base(i) /\ Base(i) + CS <= Base(c) + Base(k)
                                    /\ Base(i) = Base(c) + Base(i - c) /\ i - c \in Nat
         /\ i \notin c .. c + k - 1 => Base(i) + CS <= Base(c) \/ Base(c) + Base(k) <= Base(i)
<1>1. Base(c + k) = Base(c) + Base(k) /\ c + k \in Nat
  BY BaseSum
<1>2. ASSUME i \in c .. c + k - 1
      PROVE  /\ Base(c) <= Base(i) /\ Base(i) + CS <= Base(c) + Base(k)
             /\ Base(i) = Base(c) + Base(i - c) /\ i - c \in Nat
  <2> DEFINE j == i - c
  <2>1. j \in Nat /\ c + j = i /\ c <= i /\ i < c + k
    BY <1>2
  <2> HIDE DEF j
  <2>2. Base(c + j) = Base(c) + Base(j)
    BY <2>1, BaseSum
  <2>3. Base(c) <= Base(i) /\ Base(i) + CS <= Base(c + k)
    BY <1>1, <2>1, BaseOrder
  <2>4. Base(i) = Base(c) + Base(j)
    BY <2>1, <2>2
  <2> QED BY <1>1, <2>1, <2>3, <2>4 DEF j
<1>3. ASSUME i \notin c .. c + k - 1
      PROVE  Base(i) + CS <= Base(c) \/ Base(c) + Base(k) <= Base(i)
  <2>1. i < c \/ c + k <= i
    BY <1>3
  <2>2. i < c => Base(i) + CS <= Base(c)
    BY BaseOrder
  <2>3. c + k <= i => Base(c + k) <= Base(i)
    BY <1>1, BaseOrder
  <2> QED BY <1>1, <2>1, <2>2, <2>3
<1> QED BY <1>2, <1>3

\* Whole chunks written at the start of a chunk.
LEMMA FullKeeps ==
  ASSUME NEW s, Right(s), NEW d \in Seq(Byte), NEW k \in Nat, k <= s.left, Base(k) <= Len(d),
         k > 0 => s.pending = <<>> /\ s.pos = Base(s.chunkNum), NEW t, t = WriteFull(s, d, k)
  PROVE  /\ Right(t) /\ BytesOf(t) = Promise!Over(BytesOf(s), s.pos, SubSeq(d, 1, Base(k)))
         /\ ContentLength(t) = Bigger(ContentLength(s), s.pos + Base(k))
<1> DEFINE c == s.chunkNum
           new == c .. c + k - 1
           dd == SubSeq(d, 1, Base(k))
<1>1. /\ s \in FileState /\ s.length \in Nat /\ c \in Nat /\ s.chunks \in ChunkMaps /\ s.pos \in Nat
      /\ ContentLength(s) \in Nat
  <2>1. s \in FileState
    BY DEF Right
  <2> QED BY <2>1, Fields, LengthIs
<1>2. /\ t \in FileState /\ t.pos = s.pos + Base(k) /\ t.chunkNum = c + k /\ t.pending = s.pending
      /\ t.length = IF k = 0 THEN s.length ELSE Bigger(s.length, s.pos + Base(k))
      /\ FullParts(s, t, d, k)
  BY <1>1, FullIs
<1>3. /\ DOMAIN t.chunks = DOMAIN s.chunks \cup new
      /\ \A i \in new : IsPart(t.chunks[i], d, Base(i - c), CS)
      /\ \A i \in DOMAIN s.chunks : i \notin new => t.chunks[i] = s.chunks[i]
  BY <1>2 DEF FullParts
<1>4. Base(c) \in Nat /\ Base(k) \in Nat /\ Base(0) = 0 /\ CS \in Nat /\ CS > 0 /\ (k > 0 => s.pos = Base(c))
  <2>1. Base(c) \in Nat /\ Base(k) \in Nat /\ Base(0) = 0
    BY <1>1, BaseFacts
  <2> QED BY <2>1, SizeIs
<1>5. Len(d) \in Nat /\ dd \in Seq(Byte) /\ Len(dd) = Base(k) /\ \A i \in 1 .. Base(k) : dd[i] = d[0 + i]
  <2>1. Len(d) \in Nat
    BY LenProperties
  <2>2. Base(k) \in 0 .. Len(d)
    BY <1>4, <2>1
  <2>3. IsPart(dd, d, 0, Base(k))
    BY <2>2, HeadAndRest
  <2> HIDE DEF dd
  <2> QED BY <2>1, <2>3 DEF IsPart
<1>6. s.pos <= ContentLength(s) /\ Whole(s.chunks, s.length)
  BY DEF Right
<1> HIDE DEF dd
<1>7. CASE k = 0
  <2>1. t.pos = s.pos /\ t.chunkNum = c /\ t.length = s.length /\ t.pending = s.pending
    BY <1>1, <1>2, <1>4, <1>7
  <2>2. t.chunks = s.chunks
    <3>1. new = {}
      BY <1>1, <1>7
    <3>2. DOMAIN t.chunks = DOMAIN s.chunks /\ \A i \in DOMAIN s.chunks : t.chunks[i] = s.chunks[i]
      BY <1>3, <3>1
    <3>3. t.chunks \in ChunkMaps
      BY <1>2, Fields
    <3>4. /\ t.chunks = [i \in DOMAIN t.chunks |-> t.chunks[i]]
          /\ s.chunks = [i \in DOMAIN s.chunks |-> s.chunks[i]]
      BY <1>1, <3>3, ChunkMap
    <3> QED BY <3>2, <3>4
  <2>3. ContentLength(t) = ContentLength(s)
    BY <2>1 DEF ContentLength
  <2>4. Right(t)
    BY <1>2, <2>1, <2>2, <2>3 DEF Right, PendingRight
  <2>5. Alike(s, t)
    BY <2>1, <2>2, <2>3 DEF Alike, Piece
  <2>6. BytesOf(t) = BytesOf(s)
    BY <2>4, <2>5, SameBytes
  <2>7. Promise!Over(BytesOf(s), s.pos, dd) = BytesOf(s)
    <3>1. BytesOf(s) \in Seq(Byte) /\ Len(BytesOf(s)) = ContentLength(s)
      BY BytesAre
    <3>2. Len(dd) = 0 /\ s.pos \in 0 .. Len(BytesOf(s))
      BY <1>1, <1>4, <1>5, <1>6, <1>7, <3>1
    <3> QED BY <1>5, <3>1, <3>2, OverNothing
  <2>8. ContentLength(s) = Bigger(ContentLength(s), s.pos + Base(k))
    BY <1>1, <1>4, <1>6, <1>7 DEF Bigger
  <2> QED BY <2>3, <2>4, <2>6, <2>7, <2>8 DEF dd
<1>8. CASE k > 0
  <2> DEFINE l == s.length
             m == Bigger(l, s.pos + Base(k))
  <2>0. s.pos = Base(c)
    BY <1>4, <1>8
  <2>1. s.pending = <<>> /\ t.pending = <<>> /\ ContentLength(s) = l /\ ContentLength(t) = m /\ t.length = m
    BY <1>1, <1>2, <1>8, LengthIs
  <2>2. m \in Nat /\ l <= m /\ s.pos + Base(k) <= m /\ (m = l \/ m = s.pos + Base(k)) /\ s.pos <= l /\ l \in Nat
    BY <1>1, <1>4, <2>0, <1>6, <2>1 DEF Bigger
  <2> HIDE DEF l, m
  <2>3. /\ DOMAIN s.chunks = {i \in Nat : Base(i) < l}
        /\ \A i \in DOMAIN s.chunks : Len(s.chunks[i]) = Smaller(CS, l - Base(i))
    BY <1>6 DEF Whole, l
  <2>4. ASSUME NEW i \in Nat
        PROVE  /\ Base(i) \in Nat
               /\ i \in new => /\ Base(c) <= Base(i) /\ Base(i) + CS <= Base(c) + Base(k)
                               /\ Base(i) = Base(c) + Base(i - c) /\ i - c \in Nat
               /\ i \notin new => Base(i) + CS <= Base(c) \/ Base(c) + Base(k) <= Base(i)
    <3>1. Base(i) \in Nat
      BY <2>4, BaseFacts
    <3> QED BY <1>1, <3>1, RunIs
  <2> HIDE DEF new
  <2>5. DOMAIN t.chunks = {i \in Nat : Base(i) < m}
    <3>1. DOMAIN s.chunks \subseteq Nat /\ new \subseteq Nat
      BY <1>1, <2>3 DEF new
    <3>2. ASSUME NEW i \in Nat PROVE Base(i) < m <=> (Base(i) < l \/ i \in new)
      <4>1. Base(i) \in Nat
        BY <2>4
      <4>2. CASE i \in new
        <5>1. Base(i) + CS <= Base(c) + Base(k)
          BY <2>4, <4>2
        <5>2. Base(i) < m
          BY <1>4, <2>0, <2>2, <4>1, <5>1
        <5> QED BY <4>2, <5>2
      <4>3. CASE i \notin new
        <5>1. Base(i) + CS <= Base(c) \/ Base(c) + Base(k) <= Base(i)
          BY <2>4, <4>3
        <5>2. Base(i) < m <=> Base(i) < l
          BY <1>4, <2>0, <2>2, <4>1, <5>1
        <5> QED BY <4>3, <5>2
      <4> QED BY <4>2, <4>3
    <3> QED BY <1>3, <2>3, <3>1, <3>2
  <2>6. ASSUME NEW i \in DOMAIN t.chunks PROVE Len(t.chunks[i]) = Smaller(CS, m - Base(i))
    <3>1. i \in Nat
      BY <2>5, <2>6
    <3>2. CASE i \in new
      <4>1. Len(t.chunks[i]) = CS
        BY <1>3, <3>2 DEF IsPart
      <4>2. Base(i) \in Nat /\ Base(i) + CS <= Base(c) + Base(k)
        BY <2>4, <3>1, <3>2
      <4> QED BY <1>4, <2>0, <2>2, <4>1, <4>2 DEF Smaller
    <3>3. CASE i \notin new
      <4>1. i \in DOMAIN s.chunks /\ t.chunks[i] = s.chunks[i]
        BY <1>3, <2>6, <3>3
      <4>2. Len(t.chunks[i]) = Smaller(CS, l - Base(i)) /\ Base(i) < l
        BY <2>3, <4>1
      <4>3. Base(i) \in Nat /\ (Base(i) + CS <= Base(c) \/ Base(c) + Base(k) <= Base(i))
        BY <2>4, <3>1, <3>3
      <4> QED BY <1>4, <2>0, <2>2, <4>2, <4>3 DEF Smaller
    <3> QED BY <3>2, <3>3
  <2>7. Right(t)
    <3>1. Whole(t.chunks, t.length)
      BY <2>1, <2>5, <2>6 DEF Whole
    <3>2. t.pos <= ContentLength(t)
      BY <1>2, <2>1, <2>2
    <3> QED BY <1>2, <2>1, <3>1, <3>2 DEF Right, PendingRight
  <2>8. ASSUME NEW a \in Nat, NEW o \in Nat, o < CS, Base(a) + o < ContentLength(t)
        PROVE  Piece(t, a)[o + 1] = IF s.pos <= Base(a) + o /\ Base(a) + o < s.pos + Base(k)
                                    THEN dd[Base(a) + o - s.pos + 1] ELSE Piece(s, a)[o + 1]
    <3>1. Piece(t, a) = t.chunks[a] /\ Piece(s, a) = s.chunks[a]
      BY <2>1 DEF Piece
    <3>2. a \in DOMAIN t.chunks
      BY <2>1, <2>7, <2>8, PieceOf
    <3>3. CASE a \in new
      <4> DEFINE x == Base(a - c)
      <4>1. Base(a) = Base(c) + x /\ Base(a) + CS <= Base(c) + Base(k) /\ x \in Nat
        <5>1. a - c \in Nat
          BY <2>4, <2>8, <3>3
        <5> QED BY <2>4, <2>8, <3>3, <5>1, BaseFacts
      <4>2. IsPart(t.chunks[a], d, x, CS)
        BY <1>3, <3>3
      <4> HIDE DEF x
      <4>3. o + 1 \in 1 .. CS /\ x + (o + 1) \in 1 .. Base(k)
        BY <1>4, <2>0, <2>8, <4>1
      <4>4. t.chunks[a][o + 1] = d[x + (o + 1)]
        BY <4>2, <4>3 DEF IsPart
      <4>5. dd[x + (o + 1)] = d[0 + (x + (o + 1))] /\ 0 + (x + (o + 1)) = x + (o + 1)
        BY <1>5, <4>1, <4>3
      <4>6. s.pos <= Base(a) + o /\ Base(a) + o < s.pos + Base(k) /\ Base(a) + o - s.pos + 1 = x + (o + 1)
        BY <1>4, <2>0, <2>8, <4>1
      <4> QED BY <3>1, <4>4, <4>5, <4>6
    <3>4. CASE a \notin new
      <4>1. t.chunks[a] = s.chunks[a]
        BY <1>3, <3>2, <3>4
      <4>3. Base(a) \in Nat /\ (Base(a) + CS <= Base(c) \/ Base(c) + Base(k) <= Base(a))
        BY <2>4, <2>8, <3>4
      <4>2. ~ (s.pos <= Base(a) + o /\ Base(a) + o < s.pos + Base(k))
        BY <1>4, <2>0, <2>8, <4>3
      <4> QED BY <3>1, <4>1, <4>2
    <3> QED BY <3>3, <3>4
  <2>9. Covered(s, t, s.pos, dd)
    BY <1>5, <2>1, <2>8 DEF Covered, m
  <2>10. BytesOf(t) = Promise!Over(BytesOf(s), s.pos, dd)
    BY <1>1, <1>5, <1>6, <2>7, <2>9, Overwritten
  <2> QED BY <2>1, <2>7, <2>10 DEF dd, m
<1>9. k = 0 \/ k > 0
  OBVIOUS
<1> QED BY <1>7, <1>8, <1>9

\* A state in which only what was returned or what is left of the call is another.
SameFile(s, t) ==
  /\ t \in FileState /\ t.pos = s.pos /\ t.length = s.length /\ t.chunkNum = s.chunkNum
  /\ t.pending = s.pending /\ t.chunks = s.chunks

\* It is the same file.
LEMMA SameFileKeeps ==
  ASSUME NEW s, Right(s), NEW t, SameFile(s, t)
  PROVE  Right(t) /\ BytesOf(t) = BytesOf(s) /\ ContentLength(t) = ContentLength(s)
<1>1. ContentLength(t) = ContentLength(s)
  BY DEF SameFile, ContentLength
<1>2. Right(t)
  BY <1>1 DEF SameFile, Right, PendingRight
<1>3. Alike(s, t)
  BY <1>1 DEF SameFile, Alike, Piece
<1> QED BY <1>1, <1>2, <1>3, SameBytes

\* The first n bytes of d are in the file, and t says whether the server answered.
Written(s, t, d, n) ==
  /\ Right(t) /\ t.left \in Nat /\ n \in 0 .. Len(d) /\ t.pos = s.pos + n
  /\ BytesOf(t) = Promise!Over(BytesOf(s), s.pos, SubSeq(d, 1, n))
  /\ ContentLength(t) = Bigger(ContentLength(s), s.pos + n)
  /\ s.down => t.down
  /\ t.down => s.down \/ ~ t.ok
  /\ t.ok \/ t.down

\* Nothing was written yet.
LEMMA WrittenNone ==
  ASSUME NEW s, Right(s), NEW t, Right(t), NEW d \in Seq(Byte), t.left \in Nat, t.pos = s.pos,
         BytesOf(t) = BytesOf(s), s.down => t.down, t.down => s.down \/ ~ t.ok, t.ok \/ t.down
  PROVE  Written(s, t, d, 0)
<1>1. s.pos \in Nat /\ s.pos <= ContentLength(s) /\ ContentLength(s) \in Nat
  BY Fields, LengthIs DEF Right
<1>2. /\ BytesOf(s) \in Seq(Byte) /\ Len(BytesOf(s)) = ContentLength(s)
      /\ Len(BytesOf(t)) = ContentLength(t) /\ Len(d) \in Nat
  BY BytesAre, LenProperties
<1>3. SubSeq(d, 1, 0) \in Seq(Byte) /\ Len(SubSeq(d, 1, 0)) = 0
  <2>1. IsPart(SubSeq(d, 1, 0), d, 0, 0)
    BY <1>2, HeadAndRest
  <2> QED BY <2>1 DEF IsPart
<1>4. Promise!Over(BytesOf(s), s.pos, SubSeq(d, 1, 0)) = BytesOf(s)
  <2>1. s.pos \in 0 .. Len(BytesOf(s))
    BY <1>1, <1>2
  <2> QED BY <1>2, <1>3, <2>1, OverNothing
<1>5. ContentLength(t) = Bigger(ContentLength(s), s.pos + 0) /\ t.pos = s.pos + 0 /\ 0 \in 0 .. Len(d)
  BY <1>1, <1>2 DEF Bigger
<1> QED BY <1>4, <1>5 DEF Written

\* What comes behind it is written on.
LEMMA WrittenOn ==
  ASSUME NEW s, Right(s), NEW t, NEW u, NEW d \in Seq(Byte), NEW n, Written(s, t, d, n), t.ok,
         NEW m, Written(t, u, SubSeq(d, n + 1, Len(d)), m)
  PROVE  Written(s, u, d, n + m)
<1> DEFINE rest == SubSeq(d, n + 1, Len(d))
<1>1. n \in 0 .. Len(d) /\ Len(d) \in Nat /\ Len(rest) = Len(d) - n
  <2>1. n \in 0 .. Len(d) /\ Len(d) \in Nat
    BY LenProperties DEF Written
  <2>2. IsPart(rest, d, n, Len(d) - n)
    BY <2>1, HeadAndRest
  <2> QED BY <2>1, <2>2 DEF IsPart
<1> DEFINE over == Promise!Over(Promise!Over(BytesOf(s), s.pos, SubSeq(d, 1, n)), s.pos + n, SubSeq(rest, 1, m))
<1>2. /\ m \in 0 .. Len(rest) /\ BytesOf(u) = over /\ u.pos = s.pos + n + m
      /\ ContentLength(u) = Bigger(Bigger(ContentLength(s), s.pos + n), s.pos + n + m)
  BY DEF Written
<1>3. s.pos \in Nat /\ s.pos <= ContentLength(s) /\ ContentLength(s) \in Nat
  BY Fields, LengthIs DEF Right
<1>4. over = Promise!Over(BytesOf(s), s.pos, SubSeq(d, 1, n + m))
  <2>1. BytesOf(s) \in Seq(Byte) /\ Len(BytesOf(s)) = ContentLength(s)
    BY BytesAre
  <2>2. s.pos \in 0 .. Len(BytesOf(s)) /\ m \in 0 .. Len(d) - n
    BY <1>1, <1>2, <1>3, <2>1
  <2> QED BY <1>1, <2>1, <2>2, OverParts
<1> HIDE DEF over, rest
<1>5. /\ n + m \in 0 .. Len(d) /\ u.pos = s.pos + (n + m)
      /\ ContentLength(u) = Bigger(ContentLength(s), s.pos + (n + m))
  BY <1>1, <1>2, <1>3 DEF Bigger
<1>6. /\ Right(u) /\ u.left \in Nat /\ (s.down => u.down) /\ (u.down => s.down \/ ~ u.ok) /\ (u.ok \/ u.down)
  BY DEF Written
<1> QED BY <1>2, <1>4, <1>5, <1>6 DEF Written

\* The chunk of the position, when it is needed, is there or the server does not answer.
LEMMA LoadedIs ==
  ASSUME NEW s, Right(s), s.left \in Nat, NEW needed \in BOOLEAN,
         s.pending = <<>> /\ needed => Base(s.pos \div CS) < s.length,
         NEW t, t = LoadedFor(s, needed)
  PROVE  /\ Right(t) /\ t.left \in Nat /\ BytesOf(t) = BytesOf(s) /\ ContentLength(t) = ContentLength(s)
         /\ t.pos = s.pos /\ t.length = s.length
         /\ s.down => t.down
         /\ t.down => s.down \/ ~ t.ok
         /\ t.ok \/ t.down
         /\ t.ok => \/ /\ s.pending = <<>> /\ ~ needed
                       /\ t.pending = <<>> /\ t.chunkNum = s.chunkNum
                    \/ /\ s.pending = <<>> /\ needed
                       /\ t.pending # <<>> /\ t.chunkNum = s.pos \div CS
                    \/ /\ s.pending # <<>>
                       /\ t.pending # <<>> /\ t.chunkNum = s.chunkNum
<1>1. s \in FileState
  BY DEF Right
<1>2. CASE s.pending = <<>> /\ needed
  <2>1. t = LoadPending(s)
    BY <1>2 DEF LoadedFor
  <2>2. /\ Right(t) /\ BytesOf(t) = BytesOf(s) /\ ContentLength(t) = ContentLength(s)
        /\ t.ok \/ t.down
        /\ t.ok => t.pending # <<>> /\ t.chunkNum = s.pos \div CS
    BY <1>2, <2>1, LoadKeeps
  <2>3. t.left \in Nat /\ t.pos = s.pos /\ t.length = s.length /\ (s.down => t.down) /\ (t.down => s.down \/ ~ t.ok)
    BY <1>1, <2>1, LoadIs
  <2> QED BY <1>2, <2>2, <2>3
<1>3. CASE ~ (s.pending = <<>> /\ needed)
  <2>1. t = [s EXCEPT !.ok = TRUE]
    BY <1>3 DEF LoadedFor
  <2>2. SameFile(s, t) /\ t.ok /\ t.left = s.left /\ t.down = s.down
    BY <1>1, <2>1 DEF FileState, SameFile
  <2>3. Right(t) /\ BytesOf(t) = BytesOf(s) /\ ContentLength(t) = ContentLength(s)
    BY <2>2, SameFileKeeps
  <2> QED BY <1>3, <2>2, <2>3 DEF SameFile
<1> QED BY <1>2, <1>3

\* The position is inside of the pending chunk.
InChunk(t) == Base(t.chunkNum) < t.pos /\ t.pos < Base(t.chunkNum) + CS

\* The head of d fills up the chunk of the position, which is flushed when it is full.
LEMMA HeadIs ==
  ASSUME NEW s, Right(s), s.left \in Nat, s.pos % CS # 0,
         s.pending = <<>> \/ s.chunkNum = s.pos \div CS, NEW d \in Seq(Byte),
         NEW n, n = Smaller(Len(d), CS - (s.pos % CS)),
         NEW t, t = WriteHead(LoadedFor(s, TRUE), SubSeq(d, 1, n))
  PROVE  /\ n \in 0 .. Len(d)
         /\ ~ t.ok => Written(s, t, d, 0) \/ Written(s, t, d, n)
         /\ t.ok => /\ Written(s, t, d, n)
                    /\ n = Len(d) \/ (t.pending = <<>> /\ t.pos = Base(t.chunkNum))
                    /\ t.pending # <<>> => InChunk(t)
<1> DEFINE c == s.pos \div CS
           o == s.pos % CS
           head == SubSeq(d, 1, n)
           l == LoadedFor(s, TRUE)
           f == FilledUp(l, head)
<1>1. /\ s \in FileState /\ s.pos \in Nat /\ s.length \in Nat /\ ContentLength(s) \in Nat
      /\ s.pos <= ContentLength(s)
  <2>1. s \in FileState
    BY DEF Right
  <2> QED BY <2>1, Fields, LengthIs DEF Right
<1>2. c \in Nat /\ o \in Nat /\ o < CS /\ s.pos = Base(c) + o /\ o > 0
  <2>1. c \in Nat /\ o \in Nat /\ o < CS /\ s.pos = Base(c) + o
    BY <1>1, Places
  <2> HIDE DEF c
  <2>2. o # 0
    OBVIOUS
  <2> HIDE DEF o
  <2> QED BY <2>1, <2>2
<1>3. Base(c) \in Nat /\ CS \in Nat /\ CS > 0 /\ Base(c + 1) = Base(c) + CS
  <2>1. Base(c) \in Nat /\ Base(c + 1) = Base(c) + CS
    BY <1>2, BaseFacts
  <2> QED BY <2>1, SizeIs
<1>4. n \in 0 .. Len(d) /\ Len(d) \in Nat /\ n = Smaller(Len(d), CS - o)
  <2>1. Len(d) \in Nat
    BY LenProperties
  <2>2. n = Smaller(Len(d), CS - o)
    OBVIOUS
  <2> HIDE DEF o, c
  <2> QED BY <1>2, <1>3, <2>1, <2>2 DEF Smaller
<1>5. head \in Seq(Byte) /\ Len(head) = n
  <2>1. IsPart(head, d, 0, n)
    BY <1>4, HeadAndRest
  <2> HIDE DEF head
  <2> QED BY <2>1 DEF IsPart
<1>6. /\ Right(l) /\ l.left \in Nat /\ BytesOf(l) = BytesOf(s) /\ ContentLength(l) = ContentLength(s)
      /\ l.pos = s.pos
      /\ (s.down => l.down) /\ (l.down => s.down \/ ~ l.ok) /\ (l.ok \/ l.down)
      /\ l.ok => l.pending # <<>> /\ l.chunkNum = c
  <2>1. s.pending = <<>> => Base(c) < s.length
    <3>1. s.pending = <<>> => ContentLength(s) = s.length
      BY <1>1, LengthIs
    <3> HIDE DEF c, o
    <3> QED BY <1>1, <1>2, <1>3, <3>1
  <2>2. s.pending = <<>> /\ TRUE => Base(s.pos \div CS) < s.length
    BY <2>1
  <2>3. /\ Right(l) /\ l.left \in Nat /\ BytesOf(l) = BytesOf(s) /\ ContentLength(l) = ContentLength(s)
        /\ l.pos = s.pos
        /\ (s.down => l.down) /\ (l.down => s.down \/ ~ l.ok) /\ (l.ok \/ l.down)
        /\ l.ok => \/ /\ s.pending = <<>> /\ ~ TRUE
                      /\ l.pending = <<>> /\ l.chunkNum = s.chunkNum
                   \/ /\ s.pending = <<>> /\ TRUE
                      /\ l.pending # <<>> /\ l.chunkNum = s.pos \div CS
                   \/ /\ s.pending # <<>>
                      /\ l.pending # <<>> /\ l.chunkNum = s.chunkNum
    BY <2>2, LoadedIs
  <2> HIDE DEF l
  <2> QED BY <2>3
<1> HIDE DEF l
<1>7. CASE ~ l.ok
  <2>1. t = l
    BY <1>7 DEF WriteHead, l
  <2>2. Written(s, t, d, 0)
    BY <1>6, <2>1, WrittenNone
  <2> QED BY <1>4, <1>7, <2>1, <2>2
<1>8. CASE l.ok
  <2>0. l.chunkNum = c /\ l.pending # <<>> /\ l.pos % CS = o
    BY <1>6, <1>8
  <2>1. f = [l EXCEPT !.pending = Merged(l.pending, o, head), !.pos = l.pos + Len(head)]
    <3>1. l \in FileState
      BY <1>6 DEF Right
    <3> QED BY <2>0, <3>1 DEF FilledUp, FileState
  <2> HIDE DEF f
  <2>2. Fits(l, o, head)
    <3>1. l.pos = Base(l.chunkNum) + o
      BY <1>2, <1>6, <2>0
    <3>2. o + Len(head) <= CS
      <4> HIDE DEF o, head
      <4> QED BY <1>2, <1>3, <1>4, <1>5 DEF Smaller
    <3> QED BY <1>2, <1>5, <2>0, <3>1, <3>2 DEF Fits
  <2>3. /\ Right(f) /\ f.pos = l.pos + n /\ f.ok = l.ok /\ f.down = l.down
        /\ f.chunkNum = c /\ f.pending # <<>>
        /\ BytesOf(f) = Promise!Over(BytesOf(l), l.pos, head)
        /\ ContentLength(f) = Bigger(ContentLength(l), l.pos + n)
    <3> HIDE DEF head, o
    <3>1. /\ Right(f) /\ f.pos = l.pos + Len(head) /\ f.ok = l.ok /\ f.down = l.down /\ f.ret = l.ret
          /\ f.chunkNum = l.chunkNum /\ f.pending # <<>>
          /\ BytesOf(f) = Promise!Over(BytesOf(l), l.pos, head)
          /\ ContentLength(f) = Bigger(ContentLength(l), l.pos + Len(head))
      <4>1. Filled(l, f, head)
        BY <1>6, <2>1, <2>2, Fills DEF FillOf
      <4> QED BY <4>1 DEF Filled
    <3>2. l.chunkNum = c /\ Len(head) = n
      BY <1>5, <2>0
    <3> QED BY <3>1, <3>2, Zenon
  <2>4. f.left = l.left
    <3>1. l \in FileState
      BY <1>6 DEF Right
    <3> QED BY <2>1, <3>1 DEF FileState
  <2>5. Written(s, f, d, n)
    <3>1. /\ Right(f) /\ f.left \in Nat /\ n \in 0 .. Len(d) /\ f.pos = s.pos + n
          /\ ContentLength(f) = Bigger(ContentLength(s), s.pos + n)
          /\ (s.down => f.down) /\ (f.down => s.down \/ ~ f.ok) /\ (f.ok \/ f.down)
      BY <1>4, <1>6, <1>8, <2>3, <2>4
    <3>2. BytesOf(f) = Promise!Over(BytesOf(s), s.pos, SubSeq(d, 1, n))
      BY <1>6, <2>3 DEF head
    <3> QED BY <3>1, <3>2 DEF Written
  <2>6. CASE o + Len(head) >= CS
    <3>1. t = FlushPending(f)
      <4>1. (l.pos % CS) + Len(head) >= CS
        BY <2>0, <2>6
      <4> QED BY <1>8, <4>1 DEF WriteHead, f, head, l
    <3>2. Right(t) /\ BytesOf(t) = BytesOf(f) /\ ContentLength(t) = ContentLength(f)
      BY <2>3, <3>1, FlushKeeps
    <3>3. /\ (f.left \in Nat => t.left \in Nat) /\ t.pos = f.pos
          /\ \/ ~ t.ok /\ t.down /\ t.pending = f.pending
             \/ t.ok /\ t.down = f.down /\ t.pending = <<>> /\ t.chunkNum = f.chunkNum + 1
      <4>1. f \in FileState
        BY <2>3 DEF Right
      <4> QED BY <2>3, <3>1, <4>1, FlushIs
    <3>6. /\ f.left \in Nat /\ n \in 0 .. Len(d) /\ f.pos = s.pos + n
          /\ BytesOf(f) = Promise!Over(BytesOf(s), s.pos, SubSeq(d, 1, n))
          /\ ContentLength(f) = Bigger(ContentLength(s), s.pos + n)
          /\ (s.down => f.down) /\ (f.down => s.down \/ ~ f.ok) /\ (f.ok \/ f.down)
      BY <2>5 DEF Written
    <3>7. /\ t.left \in Nat /\ t.pos = s.pos + n
          /\ (s.down => t.down) /\ (t.down => s.down \/ ~ t.ok) /\ (t.ok \/ t.down)
      BY <1>8, <2>3, <3>3, <3>6
    <3>8. /\ BytesOf(t) = Promise!Over(BytesOf(s), s.pos, SubSeq(d, 1, n))
          /\ ContentLength(t) = Bigger(ContentLength(s), s.pos + n)
      BY <3>2, <3>6
    <3>4. Written(s, t, d, n)
      BY <3>2, <3>6, <3>7, <3>8 DEF Written
    <3>5. t.ok => t.pos = Base(t.chunkNum)
      <4>1. o + n = CS
        <5>1. o + n >= CS
          BY <1>5, <2>6
        <5> HIDE DEF o, c
        <5> QED BY <1>2, <1>3, <1>4, <5>1 DEF Smaller
      <4>2. t.ok => t.chunkNum = c + 1
        BY <2>3, <3>3
      <4>3. t.pos = s.pos + n
        BY <1>6, <2>3, <3>3
      <4> HIDE DEF o, c
      <4>4. s.pos + n = Base(c + 1)
        BY <1>2, <1>3, <1>4, <4>1
      <4> QED BY <4>2, <4>3, <4>4
    <3> QED BY <1>4, <3>3, <3>4, <3>5
  <2>7. CASE ~ (o + Len(head) >= CS)
    <3>1. t = f
      <4>1. ~ ((l.pos % CS) + Len(head) >= CS)
        BY <2>0, <2>7
      <4> QED BY <1>8, <4>1 DEF WriteHead, f, head, l
    <3>2. n = Len(d) /\ o + n < CS
      <4> HIDE DEF o, c
      <4>1. ~ (o + n >= CS)
        BY <1>5, <2>7
      <4>2. o \in Nat /\ CS \in Nat /\ n \in Nat /\ Len(d) \in Nat /\ n = Smaller(Len(d), CS - o)
        BY <1>2, <1>3, <1>4
      <4> QED BY <4>1, <4>2 DEF Smaller
    <3>3. InChunk(f)
      <4>1. f.pos = Base(c) + o + n /\ f.chunkNum = c
        BY <1>2, <1>6, <2>3
      <4> HIDE DEF o, c
      <4> QED BY <1>2, <1>3, <1>4, <3>2, <4>1 DEF InChunk
    <3> QED BY <1>4, <1>8, <2>3, <2>5, <3>1, <3>2, <3>3
  <2> QED BY <2>6, <2>7
<1> QED BY <1>7, <1>8

\* The rest of d, shorter than a chunk, begins the chunk of the position.
LEMMA TailIs ==
  ASSUME NEW s, Right(s), s.left \in Nat, s.ok, NEW d \in Seq(Byte), Len(d) < CS,
         d = <<>> \/ s.pos = Base(s.chunkNum), NEW t, t = WriteTail(s, d)
  PROVE  /\ d = <<>> => t = s
         /\ ~ t.ok => d # <<>> /\ Written(s, t, d, 0)
         /\ t.ok => Written(s, t, d, Len(d))
         /\ t.ok /\ d # <<>> => InChunk(t)
<1>0. Len(d) \in Nat /\ (d # <<>> => Len(d) > 0)
  BY LenProperties
<1>1. CASE d = <<>>
  <2>1. t = s
    BY <1>1 DEF WriteTail
  <2>2. Written(s, t, d, 0)
    BY <2>1, WrittenNone
  <2>3. Len(d) = 0
    BY <1>1
  <2> QED BY <1>1, <2>1, <2>2, <2>3
<1>2. CASE d # <<>>
  <2> DEFINE needed == s.pos + Len(d) < s.length
             l == LoadedFor(s, needed)
             c == s.chunkNum
  <2>1. s \in FileState /\ s.pos \in Nat /\ s.length \in Nat /\ c \in Nat
    <3>1. s \in FileState
      BY DEF Right
    <3> QED BY <3>1, Fields
  <2>2. Base(c) \in Nat /\ CS \in Nat /\ CS > 0 /\ s.pos = Base(c)
    <3>1. Base(c) \in Nat
      BY <2>1, BaseFacts
    <3> QED BY <1>2, <3>1, SizeIs
  <2>3. s.pos \div CS = c
    <3>1. 0 \in Nat /\ 0 < CS /\ Base(c) + 0 = s.pos
      BY <2>2
    <3>2. (Base(c) + 0) \div CS = c
      BY <2>1, <3>1, PlaceOf
    <3> QED BY <3>1, <3>2
  <2>4. s.pending = <<>> /\ needed => Base(s.pos \div CS) < s.length
    BY <1>0, <2>1, <2>2, <2>3
  <2>5. needed \in BOOLEAN
    OBVIOUS
  <2> HIDE DEF needed
  <2>6. /\ Right(l) /\ l.left \in Nat /\ BytesOf(l) = BytesOf(s) /\ ContentLength(l) = ContentLength(s)
        /\ l.pos = s.pos /\ l.length = s.length
        /\ (s.down => l.down) /\ (l.down => s.down \/ ~ l.ok) /\ (l.ok \/ l.down)
        /\ l.ok => \/ /\ s.pending = <<>> /\ ~ needed
                      /\ l.pending = <<>> /\ l.chunkNum = s.chunkNum
                   \/ /\ s.pending = <<>> /\ needed
                      /\ l.pending # <<>> /\ l.chunkNum = s.pos \div CS
                   \/ /\ s.pending # <<>>
                      /\ l.pending # <<>> /\ l.chunkNum = s.chunkNum
    BY <2>4, <2>5, LoadedIs
  <2>7. t = IF l.ok THEN [l EXCEPT !.pending = Merged(l.pending, 0, d), !.pos = l.pos + Len(d)] ELSE l
    <3>1. l \in FileState
      BY <2>6 DEF Right
    <3>2. t = IF l.ok THEN [l EXCEPT !.pending = Merged(@, 0, d), !.pos = @ + Len(d)] ELSE l
      BY <1>2 DEF WriteTail, needed
    <3> HIDE DEF l
    <3> QED BY <3>1, <3>2 DEF FileState
  <2> HIDE DEF l
  <2>8. CASE ~ l.ok
    <3>1. t = l
      BY <2>7, <2>8
    <3>2. Written(s, t, d, 0)
      BY <2>6, <3>1, WrittenNone
    <3> QED BY <1>2, <2>8, <3>1, <3>2
  <2>9. CASE l.ok
    <3>1. l.chunkNum = c /\ (l.pending # <<>> \/ ~ needed)
      BY <2>3, <2>6, <2>9
    <3>2. Fits(l, 0, d)
      <4>1. l.pos = Base(l.chunkNum) + 0 /\ 0 \in Nat /\ 0 + Len(d) <= CS
        BY <1>0, <2>2, <2>6, <3>1
      <4>2. l.pending # <<>> \/ l.length <= l.pos + Len(d)
        BY <1>0, <2>1, <2>6, <3>1 DEF needed
      <4> QED BY <1>2, <4>1, <4>2 DEF Fits
    <3>3. t = [l EXCEPT !.pending = Merged(l.pending, 0, d), !.pos = l.pos + Len(d)]
      BY <2>7, <2>9
    <3>4. /\ Right(t) /\ t.pos = l.pos + Len(d) /\ t.ok = l.ok /\ t.down = l.down
          /\ t.chunkNum = l.chunkNum /\ t.pending # <<>>
          /\ BytesOf(t) = Promise!Over(BytesOf(l), l.pos, d)
          /\ ContentLength(t) = Bigger(ContentLength(l), l.pos + Len(d))
      <4>1. Filled(l, t, d)
        BY <2>6, <3>2, <3>3, Fills DEF FillOf
      <4> QED BY <4>1 DEF Filled
    <3>5. t.left = l.left
      <4>1. l \in FileState
        BY <2>6 DEF Right
      <4> QED BY <3>3, <4>1 DEF FileState
    <3>6. SubSeq(d, 1, Len(d)) = d
      <4>1. Len(d) \in 0 .. Len(d)
        BY <1>0
      <4>2. IsPart(SubSeq(d, 1, Len(d)), d, 0, Len(d))
        BY <4>1, HeadAndRest
      <4> DEFINE e == SubSeq(d, 1, Len(d))
      <4> HIDE DEF e
      <4>3. e \in Seq(Byte) /\ Len(e) = Len(d) /\ \A i \in 1 .. Len(d) : e[i] = d[0 + i]
        BY <4>2 DEF IsPart, e
      <4>4. \A i \in 1 .. Len(d) : e[i] = d[i]
        BY <1>0, <4>3
      <4>5. e = d
        BY <4>3, <4>4, SeqEqual
      <4> QED BY <4>5 DEF e
    <3>9. /\ t.left \in Nat /\ t.pos = s.pos + Len(d) /\ Len(d) \in 0 .. Len(d)
          /\ (s.down => t.down) /\ (t.down => s.down \/ ~ t.ok) /\ (t.ok \/ t.down)
      BY <1>0, <2>6, <2>9, <3>4, <3>5
    <3>10. /\ BytesOf(t) = Promise!Over(BytesOf(s), s.pos, SubSeq(d, 1, Len(d)))
           /\ ContentLength(t) = Bigger(ContentLength(s), s.pos + Len(d))
      BY <2>6, <3>4, <3>6
    <3>7. Written(s, t, d, Len(d))
      BY <3>4, <3>9, <3>10 DEF Written
    <3>8. InChunk(t)
      BY <1>0, <1>2, <2>2, <2>6, <3>1, <3>4 DEF InChunk
    <3> QED BY <1>2, <2>9, <3>4, <3>7, <3>8
  <2> QED BY <2>8, <2>9
<1> QED BY <1>1, <1>2

\* A call that failed.
LEMMA FailedIs ==
  ASSUME NEW s \in FileState, NEW told \in Nat, NEW t, t = Failed(s, told)
  PROVE  SameFile(s, t) /\ t.ret = <<told>> /\ ~ t.ok /\ t.down = s.down /\ t.left = s.left
<1>1. t = [s EXCEPT !.ret = <<told>>, !.ok = FALSE]
  BY DEF Failed
<1>2. <<told>> \in Seq(Byte \cup Nat)
  OBVIOUS
<1>3. t \in FileState
  BY <1>1, <1>2 DEF FileState
<1>4. /\ t.pos = s.pos /\ t.length = s.length /\ t.chunkNum = s.chunkNum
      /\ t.pending = s.pending /\ t.chunks = s.chunks /\ t.ret = <<told>> /\ ~ t.ok /\ t.down = s.down
      /\ t.left = s.left
  BY <1>1 DEF FileState
<1> QED BY <1>3, <1>4 DEF SameFile

\* The same bytes are in the file when the call returns.
LEMMA WrittenSame ==
  ASSUME NEW s, NEW t, NEW d, NEW n, Written(s, t, d, n), NEW u, SameFile(t, u), u.left = t.left,
         s.down => u.down, u.down => s.down \/ ~ u.ok, u.ok \/ u.down
  PROVE  Written(s, u, d, n)
<1>1. /\ Right(t) /\ t.left \in Nat /\ n \in 0 .. Len(d) /\ t.pos = s.pos + n
      /\ BytesOf(t) = Promise!Over(BytesOf(s), s.pos, SubSeq(d, 1, n))
      /\ ContentLength(t) = Bigger(ContentLength(s), s.pos + n)
  BY DEF Written
<1>2. Right(u) /\ BytesOf(u) = BytesOf(t) /\ ContentLength(u) = ContentLength(t) /\ u.pos = t.pos
  BY <1>1, SameFileKeeps DEF SameFile
<1>3. /\ Right(u) /\ u.left \in Nat /\ n \in 0 .. Len(d) /\ u.pos = s.pos + n
      /\ BytesOf(u) = Promise!Over(BytesOf(s), s.pos, SubSeq(d, 1, n))
      /\ ContentLength(u) = Bigger(ContentLength(s), s.pos + n)
  BY <1>1, <1>2
<1> QED BY <1>3 DEF Written

\* What the call returns when nothing failed, and what it does when it did.
AllWritten(s, u, d, all) ==
  /\ u.ok /\ Written(s, u, d, Len(d)) /\ u.ret = <<all>>
  /\ d # <<>> /\ u.pending # <<>> => InChunk(u)
  /\ d = <<>> => u.pos = s.pos /\ u.chunkNum = s.chunkNum /\ u.pending = s.pending
PartWritten(s, u, d, all) ==
  ~ u.ok /\ \E n \in 0 .. Len(d) - 1 : Written(s, u, d, n) /\ u.ret = <<all - Len(d) + n>>

\* From the start of a chunk d is written, whole chunks first.
LEMMA RestIs ==
  ASSUME NEW s, Right(s), s.ok, s.left \in Nat, NEW d \in Seq(Byte),
         d = <<>> \/ (s.pos = Base(s.chunkNum) /\ (s.pending # <<>> => Len(d) < CS)),
         NEW all \in Nat, Len(d) <= all, NEW u, u = WriteRest(s, d, all)
  PROVE  AllWritten(s, u, d, all) \/ PartWritten(s, u, d, all)
<1> DEFINE full == Len(d) \div CS
           k == Smaller(full, s.left)
           t == WriteFull(s, d, k)
           rest == SubSeq(d, Base(k) + 1, Len(d))
           v == WriteTail(t, rest)
           c == s.chunkNum
<1>1. Len(d) \in Nat /\ (d # <<>> => Len(d) > 0) /\ (d = <<>> => Len(d) = 0)
  BY LenProperties
<1>2. full \in Nat /\ Base(full) <= Len(d) /\ Len(d) < Base(full) + CS /\ Base(full) \in Nat
  <2>1. full \in Nat /\ (Len(d) % CS) \in Nat /\ (Len(d) % CS) < CS /\ Len(d) = Base(full) + (Len(d) % CS)
    BY <1>1, Places
  <2> DEFINE o == Len(d) % CS
  <2> HIDE DEF full, o
  <2>2. o \in Nat /\ o < CS /\ Len(d) = Base(full) + o
    BY <2>1 DEF o
  <2>3. Base(full) \in Nat /\ CS \in Nat
    BY <2>1, BaseFacts, SizeIs
  <2> QED BY <1>1, <2>1, <2>2, <2>3
<1>3. s \in FileState /\ c \in Nat /\ s.pos \in Nat
  <2>1. s \in FileState
    BY DEF Right
  <2> QED BY <2>1, Fields
<1> HIDE DEF full
<1>4. k \in Nat /\ k <= full /\ k <= s.left
  BY <1>2 DEF Smaller
<1> DEFINE n == Base(k)
<1>5. /\ n \in Nat /\ n <= Base(full) /\ n <= Len(d) /\ CS \in Nat /\ CS > 0 /\ Base(0) = 0
      /\ (k > 0 => n >= CS) /\ (k < full => n + CS <= Base(full))
  <2> HIDE DEF k
  <2>1. n \in Nat /\ n <= Base(full) /\ Base(0) = 0 /\ 0 \in Nat
    BY <1>2, <1>4, BaseFacts, BaseOrder
  <2>2. k > 0 => Base(0) + CS <= n
    BY <1>4, <2>1, BaseOrder
  <2>3. k < full => n + CS <= Base(full)
    BY <1>2, <1>4, BaseOrder
  <2>4. CS \in Nat /\ CS > 0
    BY SizeIs
  <2> HIDE DEF n
  <2> QED BY <1>1, <1>2, <2>1, <2>2, <2>3, <2>4
<1> HIDE DEF k
<1>6. k > 0 => s.pending = <<>> /\ s.pos = Base(c)
  <2> HIDE DEF n
  <2> QED BY <1>1, <1>5
<1>7. /\ t \in FileState /\ t.left \in Nat /\ t.pos = s.pos + n /\ t.chunkNum = c + k /\ t.pending = s.pending
      /\ t.ok = (k = full) /\ t.down = (s.down \/ k < full)
  <2>1. Base(k) <= Len(d)
    BY <1>5
  <2> HIDE DEF t
  <2>2. t = WriteFull(s, d, k)
    BY DEF t
  <2> QED BY <1>3, <1>4, <2>1, <2>2, FullIs DEF full
<1>8. /\ Right(t) /\ BytesOf(t) = Promise!Over(BytesOf(s), s.pos, SubSeq(d, 1, n))
      /\ ContentLength(t) = Bigger(ContentLength(s), s.pos + n)
  <2>1. Base(k) <= Len(d)
    BY <1>5
  <2> HIDE DEF t
  <2>2. t = WriteFull(s, d, k)
    BY DEF t
  <2> QED BY <1>4, <1>6, <2>1, <2>2, FullKeeps
<1> HIDE DEF t
<1>9. n \in 0 .. Len(d)
  <2> HIDE DEF n
  <2> QED BY <1>1, <1>5
<1>10. Written(s, t, d, n)
  <2>1. k = full \/ k < full
    BY <1>2, <1>4
  <2>2. ~ (k = full /\ k < full)
    BY <1>2, <1>4
  <2>3. (t.ok <=> k = full) /\ (t.down <=> s.down \/ k < full)
    BY <1>7, Zenon
  <2>4. (s.down => t.down) /\ (t.down => s.down \/ ~ t.ok) /\ (t.ok \/ t.down)
    BY <2>1, <2>2, <2>3, Zenon
  <2> QED BY <1>7, <1>8, <1>9, <2>4 DEF Written
<1>11. rest \in Seq(Byte) /\ Len(rest) = Len(d) - n /\ (rest = <<>> <=> n = Len(d))
  <2>1. IsPart(rest, d, n, Len(d) - n)
    BY <1>9, HeadAndRest
  <2> HIDE DEF rest, n
  <2>2. rest \in Seq(Byte) /\ Len(rest) = Len(d) - n
    BY <2>1 DEF IsPart
  <2> QED BY <1>1, <1>5, <2>2
<1>12. u = IF t.ok THEN (IF v.ok THEN [v EXCEPT !.ret = <<all>>] ELSE Failed(v, all - Len(rest)))
           ELSE Failed(t, all - Len(rest))
  <2>1. k * CS = Base(k)
    BY DEF Base
  <2>2. u = LET w == IF t.ok THEN WriteTail(t, rest) ELSE t
            IN IF w.ok THEN [w EXCEPT !.ret = <<all>>] ELSE Failed(w, all - Len(rest))
    BY <2>1 DEF WriteRest, k, full, t
  <2> HIDE DEF rest
  <2> QED BY <2>2
<1> HIDE DEF rest, v
<1>13. all - Len(rest) = all - Len(d) + n /\ all - Len(rest) \in Nat
  <2> HIDE DEF n
  <2> QED BY <1>1, <1>5, <1>11
<1>14. CASE ~ t.ok
  <2>1. u = Failed(t, all - Len(rest))
    BY <1>12, <1>14
  <2>2. SameFile(t, u) /\ u.ret = <<all - Len(rest)>> /\ ~ u.ok /\ u.down = t.down /\ u.left = t.left
    BY <1>7, <1>13, <2>1, FailedIs
  <2>3. t.down /\ k < full
    <3>1. k # full
      BY <1>7, <1>14, Zenon
    <3>2. k < full
      BY <1>2, <1>4, <3>1
    <3>3. t.down
      BY <1>7, <3>2, Zenon
    <3> QED BY <3>2, <3>3
  <2>4. Written(s, u, d, n)
    <3>1. (s.down => u.down) /\ (u.down => s.down \/ ~ u.ok) /\ (u.ok \/ u.down)
      BY <2>2, <2>3
    <3> QED BY <1>10, <2>2, <3>1, WrittenSame
  <2>5. n \in 0 .. Len(d) - 1
    <3> HIDE DEF n
    <3> QED BY <1>1, <1>2, <1>5, <2>3
  <2> QED BY <1>13, <2>2, <2>4, <2>5 DEF PartWritten
<1>15. CASE t.ok
  <2>1. k = full
    BY <1>7, <1>15
  <2>2. Len(rest) < CS
    <3> HIDE DEF n
    <3>1. n = Base(full)
      BY <2>1 DEF n
    <3> QED BY <1>1, <1>2, <1>5, <1>11, <3>1
  <2>3. rest = <<>> \/ t.pos = Base(t.chunkNum)
    <3>1. CASE d = <<>>
      <4> HIDE DEF n
      <4> QED BY <1>1, <1>5, <1>11, <3>1
    <3>2. CASE d # <<>>
      <4>1. Base(c + k) = Base(c) + Base(k)
        BY <1>3, <1>4, BaseSum
      <4> QED BY <1>7, <3>2, <4>1
    <3> QED BY <3>1, <3>2
  <2>4. /\ rest = <<>> => v = t
        /\ ~ v.ok => rest # <<>> /\ Written(t, v, rest, 0)
        /\ v.ok => Written(t, v, rest, Len(rest))
        /\ v.ok /\ rest # <<>> => InChunk(v)
    BY <1>7, <1>8, <1>11, <1>15, <2>2, <2>3, TailIs DEF v
  <2>5. ASSUME NEW m, Written(t, v, rest, m)
        PROVE  Written(s, v, d, n + m) /\ v \in FileState
    <3>1. Written(t, v, SubSeq(d, n + 1, Len(d)), m)
      BY <2>5 DEF rest
    <3>2. Written(s, v, d, n + m)
      BY <1>10, <1>15, <3>1, WrittenOn
    <3> QED BY <2>5, <3>2 DEF Written, Right
  <2>6. CASE ~ v.ok
    <3>1. Written(s, v, d, n + 0) /\ v \in FileState /\ rest # <<>>
      BY <2>4, <2>5, <2>6
    <3>2. u = Failed(v, all - Len(rest))
      BY <1>12, <1>15, <2>6
    <3>3. SameFile(v, u) /\ u.ret = <<all - Len(rest)>> /\ ~ u.ok /\ u.down = v.down /\ u.left = v.left
      BY <1>13, <3>1, <3>2, FailedIs
    <3>4. v.down /\ (s.down => v.down)
      BY <2>6, <3>1 DEF Written
    <3>5. Written(s, u, d, n + 0)
      <4>1. (s.down => u.down) /\ (u.down => s.down \/ ~ u.ok) /\ (u.ok \/ u.down)
        BY <3>3, <3>4
      <4> QED BY <3>1, <3>3, <4>1, WrittenSame
    <3>6. n + 0 = n /\ n \in 0 .. Len(d) - 1
      <4> HIDE DEF n
      <4> QED BY <1>1, <1>5, <1>11, <3>1
    <3> QED BY <1>13, <3>3, <3>5, <3>6 DEF PartWritten
  <2>7. CASE v.ok
    <3>1. n + Len(rest) = Len(d)
      <4> HIDE DEF n
      <4> QED BY <1>1, <1>5, <1>11
    <3>2. Written(s, v, d, Len(d)) /\ v \in FileState
      BY <2>4, <2>5, <2>7, <3>1
    <3>3. u = [v EXCEPT !.ret = <<all>>]
      BY <1>12, <1>15, <2>7
    <3>4. SameFile(v, u) /\ u.ret = <<all>> /\ u.ok /\ u.down = v.down /\ u.left = v.left
      <4>1. <<all>> \in Seq(Byte \cup Nat)
        OBVIOUS
      <4>2. u \in FileState
        BY <3>2, <3>3, <4>1 DEF FileState
      <4>3. /\ u.pos = v.pos /\ u.length = v.length /\ u.chunkNum = v.chunkNum
            /\ u.pending = v.pending /\ u.chunks = v.chunks /\ u.ret = <<all>> /\ u.ok = v.ok /\ u.down = v.down
            /\ u.left = v.left
        BY <3>2, <3>3 DEF FileState
      <4> QED BY <2>7, <4>2, <4>3 DEF SameFile
    <3>5. Written(s, u, d, Len(d))
      <4>1. (s.down => u.down) /\ (u.down => s.down \/ ~ u.ok) /\ (u.ok \/ u.down)
        BY <2>7, <3>2, <3>4 DEF Written
      <4> QED BY <3>2, <3>4, <4>1, WrittenSame
    <3>6. u.pos = v.pos /\ u.chunkNum = v.chunkNum /\ u.pending = v.pending
      BY <3>4 DEF SameFile
    <3>7. d # <<>> /\ u.pending # <<>> => InChunk(u)
      <4>1. CASE rest # <<>>
        BY <2>4, <2>7, <3>6, <4>1 DEF InChunk
      <4>2. CASE rest = <<>>
        <5>1. v.pending = s.pending /\ n = Len(d)
          BY <1>7, <1>11, <2>4, <4>2
        <5>2. d # <<>> => k > 0
          BY <1>1, <1>4, <1>5, <5>1
        <5> QED BY <1>6, <3>6, <5>1, <5>2
      <4> QED BY <4>1, <4>2
    <3>8. d = <<>> => u.pos = s.pos /\ u.chunkNum = s.chunkNum /\ u.pending = s.pending
      <4>1. ASSUME d = <<>> PROVE k = 0 /\ n = 0 /\ rest = <<>>
        <5>1. Len(d) = 0
          BY <1>1, <4>1
        <5>2. k = 0
          <6> HIDE DEF n
          <6> QED BY <1>4, <1>5, <5>1
        <5>3. n = 0
          BY <1>5, <5>2
        <5> QED BY <1>11, <5>1, <5>2, <5>3
      <4> QED BY <1>3, <1>7, <2>4, <3>6, <4>1
    <3> QED BY <3>4, <3>5, <3>7, <3>8 DEF AllWritten
  <2> QED BY <2>6, <2>7
<1> QED BY <1>14, <1>15

\* All of a sequence is the sequence.
LEMMA WholeSeq ==
  ASSUME NEW d \in Seq(Byte)
  PROVE  SubSeq(d, 1, Len(d)) = d
<1> DEFINE e == SubSeq(d, 1, Len(d))
<1>0. Len(d) \in Nat
  BY LenProperties
<1>1. Len(d) \in 0 .. Len(d)
  BY <1>0
<1>2. IsPart(e, d, 0, Len(d))
  BY <1>1, HeadAndRest
<1> HIDE DEF e
<1>3. e \in Seq(Byte) /\ Len(e) = Len(d) /\ \A i \in 1 .. Len(d) : e[i] = d[0 + i]
  BY <1>2 DEF IsPart
<1>4. \A i \in 1 .. Len(d) : e[i] = d[i]
  BY <1>0, <1>3
<1>5. e = d
  BY <1>3, <1>4, SeqEqual
<1> QED BY <1>5 DEF e

FullyWritten(s, t, d) ==
  /\ t.ok /\ Written(s, t, d, Len(d)) /\ t.ret = <<Len(d)>>
  /\ d # <<>> /\ t.pending # <<>> => InChunk(t)
PartlyWritten(s, t, d) ==
  ~ t.ok /\ \E n \in 0 .. Len(d), told \in 0 .. Len(d) :
              /\ Written(s, t, d, n) /\ t.ret = <<told>> /\ told \in {0, n}
              /\ d # <<>> => told < Len(d)

\* The number of the chunk is set to that of the position.
LEMMA PlacedIs ==
  ASSUME NEW s, Right(s), s.pending = <<>> \/ s.chunkNum = s.pos \div CS,
         NEW p, p = [s EXCEPT !.chunkNum = s.pos \div CS]
  PROVE  /\ Right(p) /\ BytesOf(p) = BytesOf(s) /\ ContentLength(p) = ContentLength(s)
         /\ p.pos = s.pos /\ p.chunkNum = s.pos \div CS /\ p.pending = s.pending /\ p.ok = s.ok
         /\ p.left = s.left /\ p.down = s.down
<1> DEFINE c == s.pos \div CS
<1>1. s \in FileState
  BY DEF Right
<1>2. c \in Nat
  BY <1>1, Fields, Places
<1> HIDE DEF c
<1>3. p = [s EXCEPT !.chunkNum = c]
  BY DEF c
<1>4. p \in FileState
  BY <1>1, <1>2, <1>3 DEF FileState
<1>5. /\ p.pos = s.pos /\ p.chunkNum = c /\ p.pending = s.pending /\ p.ok = s.ok /\ p.left = s.left
      /\ p.down = s.down /\ p.length = s.length /\ p.chunks = s.chunks
  BY <1>1, <1>3 DEF FileState
<1>6. s.pending = <<>> \/ p.chunkNum = s.chunkNum
  BY <1>5 DEF c
<1>7. ContentLength(p) = ContentLength(s)
  BY <1>5, <1>6 DEF ContentLength
<1>8. Right(p)
  BY <1>4, <1>5, <1>6, <1>7 DEF Right, PendingRight
<1>9. Alike(s, p)
  BY <1>5, <1>6, <1>7 DEF Alike, Piece
<1>10. BytesOf(p) = BytesOf(s)
  BY <1>8, <1>9, SameBytes
<1> QED BY <1>5, <1>7, <1>8, <1>10 DEF c

\* A write puts d, or the front of it, into the file.
LEMMA WriteIs ==
  ASSUME NEW s, Right(s), s.ok, s.left \in Nat, NEW d \in Seq(Byte), Sound(s, d),
         NEW t, t = WriteBuffer(s, d)
  PROVE  FullyWritten(s, t, d) \/ PartlyWritten(s, t, d)
<1> DEFINE p == [s EXCEPT !.chunkNum = s.pos \div CS]
           n == HeadLen(p, d)
           h == IF p.pos % CS = 0 THEN p ELSE WriteHead(LoadedFor(p, TRUE), SubSeq(d, 1, n))
           rest == SubSeq(d, n + 1, Len(d))
<1>1. /\ s.pending = <<>> \/ s.chunkNum = s.pos \div CS
      /\ s.pending # <<>> /\ s.pos % CS = 0 => Len(d) < CS
  BY DEF Sound
<1>2. /\ Right(p) /\ BytesOf(p) = BytesOf(s) /\ ContentLength(p) = ContentLength(s)
      /\ p.pos = s.pos /\ p.chunkNum = s.pos \div CS /\ p.pending = s.pending /\ p.ok = s.ok
      /\ p.left = s.left /\ p.down = s.down
  <2> HIDE DEF p
  <2>1. p = [s EXCEPT !.chunkNum = s.pos \div CS]
    BY DEF p
  <2> QED BY <1>1, <2>1, PlacedIs
<1>3. t = IF h.ok THEN WriteRest(h, rest, Len(d)) ELSE Failed(h, 0)
  BY DEF WriteBuffer
<1> HIDE DEF p
<1>4. Len(d) \in Nat /\ (d # <<>> => Len(d) > 0) /\ s.pos \in Nat
  <2>1. s \in FileState
    BY DEF Right
  <2>2. s.pos \in Nat
    BY <2>1, Fields
  <2> QED BY <2>2, LenProperties
<1>5. ASSUME NEW m, Written(p, t, d, m) PROVE Written(s, t, d, m)
  BY <1>2, <1>5 DEF Written
<1>6. CASE p.pos % CS = 0
  <2>1. h = p /\ n = 0 /\ rest = d
    <3>1. h = p /\ n = 0
      BY <1>6 DEF HeadLen
    <3>2. SubSeq(d, 0 + 1, Len(d)) = d
      BY WholeSeq
    <3> QED BY <3>1, <3>2
  <2>2. t = WriteRest(p, d, Len(d))
    BY <1>2, <1>3, <2>1
  <2>3. p.pos = Base(p.chunkNum)
    <3> DEFINE c == s.pos \div CS
    <3>1. c \in Nat /\ s.pos = Base(c) + (s.pos % CS) /\ s.pos % CS = 0
      BY <1>2, <1>4, <1>6, Places
    <3>2. p.chunkNum = c
      BY <1>2
    <3> HIDE DEF c
    <3>3. Base(c) \in Nat /\ s.pos = Base(c) + 0
      BY <3>1, BaseFacts
    <3> QED BY <1>2, <3>2, <3>3
  <2>4. p.pending # <<>> => Len(d) < CS
    BY <1>1, <1>2, <1>6
  <2>5. AllWritten(p, t, d, Len(d)) \/ PartWritten(p, t, d, Len(d))
    <3>1. p.ok /\ p.left \in Nat /\ Right(p) /\ Len(d) <= Len(d)
      BY <1>2, <1>4
    <3>2. d = <<>> \/ (p.pos = Base(p.chunkNum) /\ (p.pending # <<>> => Len(d) < CS))
      BY <2>3, <2>4
    <3> HIDE DEF h, n, rest
    <3> QED BY <1>4, <2>2, <3>1, <3>2, RestIs
  <2>6. CASE AllWritten(p, t, d, Len(d))
    <3>1. /\ t.ok /\ Written(p, t, d, Len(d)) /\ t.ret = <<Len(d)>>
          /\ d # <<>> /\ t.pending # <<>> => InChunk(t)
      BY <2>6 DEF AllWritten
    <3> QED BY <1>5, <3>1 DEF FullyWritten
  <2>7. CASE PartWritten(p, t, d, Len(d))
    <3>1. PICK m \in 0 .. Len(d) - 1 : Written(p, t, d, m) /\ t.ret = <<Len(d) - Len(d) + m>>
      BY <2>7 DEF PartWritten
    <3>2. Len(d) - Len(d) + m = m /\ m \in 0 .. Len(d) /\ m < Len(d)
      BY <1>4, <3>1
    <3>3. ~ t.ok
      BY <2>7 DEF PartWritten
    <3> QED BY <1>5, <3>1, <3>2, <3>3 DEF PartlyWritten
  <2> QED BY <2>5, <2>6, <2>7
<1>7. CASE p.pos % CS # 0
  <2>1. n = Smaller(Len(d), CS - (p.pos % CS)) /\ h = WriteHead(LoadedFor(p, TRUE), SubSeq(d, 1, n))
    BY <1>7 DEF HeadLen
  <2> HIDE DEF n, h
  <2>2. /\ n \in 0 .. Len(d)
        /\ ~ h.ok => Written(p, h, d, 0) \/ Written(p, h, d, n)
        /\ h.ok => /\ Written(p, h, d, n)
                   /\ n = Len(d) \/ (h.pending = <<>> /\ h.pos = Base(h.chunkNum))
                   /\ h.pending # <<>> => InChunk(h)
    <3>1. p.left \in Nat /\ (p.pending = <<>> \/ p.chunkNum = p.pos \div CS)
      BY <1>1, <1>2
    <3> QED BY <1>2, <1>7, <2>1, <3>1, HeadIs
  <2>3. CASE ~ h.ok
    <3>1. t = Failed(h, 0)
      BY <1>3, <2>3
    <3>2. PICK m \in 0 .. Len(d) : Written(p, h, d, m)
      <4>1. 0 \in 0 .. Len(d)
        BY <1>4
      <4> QED BY <2>2, <2>3, <4>1
    <3>3. h \in FileState /\ h.down /\ (p.down => h.down)
      BY <2>3, <3>2 DEF Written, Right
    <3>4. SameFile(h, t) /\ t.ret = <<0>> /\ ~ t.ok /\ t.down = h.down /\ t.left = h.left
      <4>1. 0 \in Nat
        OBVIOUS
      <4>2. \A told \in Nat : \A u : u = Failed(h, told) =>
              SameFile(h, u) /\ u.ret = <<told>> /\ ~ u.ok /\ u.down = h.down /\ u.left = h.left
        BY <3>3, FailedIs
      <4> QED BY <3>1, <4>1, <4>2, Zenon
    <3>5. Written(p, t, d, m)
      <4>1. (p.down => t.down) /\ (t.down => p.down \/ ~ t.ok) /\ (t.ok \/ t.down)
        BY <3>3, <3>4
      <4> QED BY <3>2, <3>4, <4>1, WrittenSame
    <3>6. 0 \in 0 .. Len(d)
      BY <1>4
    <3> QED BY <1>4, <1>5, <3>2, <3>4, <3>5, <3>6 DEF PartlyWritten
  <2>4. CASE h.ok
    <3>1. t = WriteRest(h, rest, Len(d))
      BY <1>3, <2>4
    <3>2. Written(p, h, d, n) /\ Right(h) /\ h.left \in Nat
      BY <2>2, <2>4 DEF Written
    <3>3. rest \in Seq(Byte) /\ Len(rest) = Len(d) - n /\ (rest = <<>> <=> n = Len(d))
      <4>1. IsPart(rest, d, n, Len(d) - n)
        BY <2>2, HeadAndRest
      <4> HIDE DEF rest
      <4>2. rest \in Seq(Byte) /\ Len(rest) = Len(d) - n
        BY <4>1 DEF IsPart
      <4> QED BY <1>4, <2>2, <4>2
    <3>4. rest = <<>> \/ (h.pos = Base(h.chunkNum) /\ h.pending = <<>>)
      BY <2>2, <2>4, <3>3
    <3>5. Len(rest) <= Len(d)
      BY <1>4, <2>2, <3>3
    <3>6. AllWritten(h, t, rest, Len(d)) \/ PartWritten(h, t, rest, Len(d))
      BY <1>4, <2>4, <3>1, <3>2, <3>3, <3>4, <3>5, RestIs
    <3>7. ASSUME NEW m, Written(h, t, rest, m) PROVE Written(p, t, d, n + m)
      BY <1>2, <2>4, <3>2, <3>7, WrittenOn
    <3> HIDE DEF rest
    <3>8. CASE AllWritten(h, t, rest, Len(d))
      <4>1. /\ t.ok /\ Written(h, t, rest, Len(rest)) /\ t.ret = <<Len(d)>>
            /\ rest # <<>> /\ t.pending # <<>> => InChunk(t)
            /\ rest = <<>> => t.pos = h.pos /\ t.chunkNum = h.chunkNum /\ t.pending = h.pending
        BY <3>8 DEF AllWritten
      <4>2. n + Len(rest) = Len(d)
        BY <1>4, <2>2, <3>3
      <4>3. Written(p, t, d, Len(d))
        BY <3>7, <4>1, <4>2
      <4>4. t.pending # <<>> => InChunk(t)
        BY <2>2, <2>4, <4>1 DEF InChunk
      <4> QED BY <1>5, <4>1, <4>3, <4>4 DEF FullyWritten
    <3>9. CASE PartWritten(h, t, rest, Len(d))
      <4>1. PICK m \in 0 .. Len(rest) - 1 : Written(h, t, rest, m) /\ t.ret = <<Len(d) - Len(rest) + m>>
        BY <3>9 DEF PartWritten
      <4>2. Len(d) - Len(rest) + m = n + m /\ n + m \in 0 .. Len(d) /\ n + m < Len(d)
        BY <1>4, <2>2, <3>3, <4>1
      <4>3. ~ t.ok
        BY <3>9 DEF PartWritten
      <4>4. Written(s, t, d, n + m)
        BY <1>5, <3>7, <4>1
      <4> QED BY <4>1, <4>2, <4>3, <4>4 DEF PartlyWritten
    <3> QED BY <3>6, <3>8, <3>9
  <2> QED BY <2>3, <2>4
<1> QED BY <1>6, <1>7

-----------------------------------------------------------------------------
(* gridfile_seek *)

\* The position moves.
MoveOf(s, o, r, t) ==
  /\ o \in Nat /\ o <= ContentLength(s) /\ (s.pending # <<>> => Base(s.chunkNum) <= o)
  /\ r \in Seq(Byte \cup Nat) /\ t = [s EXCEPT !.pos = o, !.ret = r]
MovedTo(s, t, o, r) ==
  /\ Right(t) /\ BytesOf(t) = BytesOf(s) /\ ContentLength(t) = ContentLength(s)
  /\ t.pos = o /\ t.ret = r /\ t.chunkNum = s.chunkNum /\ t.pending = s.pending /\ t.ok = s.ok
  /\ t.left = s.left /\ t.down = s.down

\* A moved position changes nothing else.
LEMMA MovesIs ==
  ASSUME NEW s, Right(s), NEW o, NEW r, NEW t, MoveOf(s, o, r, t)
  PROVE  MovedTo(s, t, o, r)
<1>0. /\ o \in Nat /\ o <= ContentLength(s) /\ (s.pending # <<>> => Base(s.chunkNum) <= o)
      /\ r \in Seq(Byte \cup Nat) /\ t = [s EXCEPT !.pos = o, !.ret = r]
  BY DEF MoveOf
<1>1. s \in FileState
  BY DEF Right
<1>2. t \in FileState
  BY <1>0, <1>1 DEF FileState
<1>3. /\ t.pos = o /\ t.ret = r /\ t.chunkNum = s.chunkNum /\ t.pending = s.pending /\ t.ok = s.ok
      /\ t.left = s.left /\ t.down = s.down /\ t.length = s.length /\ t.chunks = s.chunks
  BY <1>0, <1>1 DEF FileState
<1>4. ContentLength(t) = ContentLength(s)
  BY <1>3 DEF ContentLength
<1>5. Right(t)
  BY <1>0, <1>2, <1>3, <1>4 DEF Right, PendingRight
<1>6. Alike(s, t)
  BY <1>3, <1>4 DEF Alike, Piece
<1> QED BY <1>3, <1>4, <1>5, <1>6, SameBytes DEF MovedTo

\* An offset of the pending chunk.
LEMMA InsideIs ==
  ASSUME NEW s \in FileState, NEW o \in Nat, ~ Outside(s, o)
  PROVE  Base(s.chunkNum) <= o /\ o \div CS = s.chunkNum
<1> DEFINE c == s.chunkNum
           x == o - Base(c)
<1>1. c \in Nat
  BY Fields
<1>2. Base(c) \in Nat /\ Base(c + 1) = Base(c) + CS /\ CS \in Nat
  BY <1>1, BaseFacts, SizeIs
<1>3. ~ (o >= Base(c + 1)) /\ ~ (o < Base(c))
  BY DEF Outside, Base
<1> HIDE DEF c
<1>4. x \in Nat /\ x < CS /\ Base(c) + x = o /\ Base(c) <= o
  BY <1>2, <1>3
<1> HIDE DEF x
<1>5. (Base(c) + x) \div CS = c
  BY <1>1, <1>4, PlaceOf
<1> QED BY <1>4, <1>5 DEF c

\* A seek moves the position, or the pending chunk could not be flushed.
SeekDone(s, t, o) ==
  /\ t.ok /\ t.down = s.down /\ t.pos = Smaller(ContentLength(s), o) /\ t.ret = <<t.pos>>
  /\ t.pending # <<>> => /\ t.chunkNum = t.pos \div CS
                         /\ t.pending = s.pending /\ t.chunkNum = s.chunkNum
SeekFailed(s, t) == ~ t.ok /\ t.down /\ t.pos = s.pos /\ t.ret = <<s.pos>>

\* gridfile_seek does one or the other, and the bytes stay.
LEMMA SeekIs ==
  ASSUME NEW s, Right(s), s.ok, NEW o \in Nat, NEW t, t = Seek(s, o)
  PROVE  /\ Right(t) /\ BytesOf(t) = BytesOf(s) /\ ContentLength(t) = ContentLength(s)
         /\ s.left \in Nat => t.left \in Nat
         /\ SeekDone(s, t, o) \/ SeekFailed(s, t)
<1> DEFINE x == Smaller(ContentLength(s), o)
           out == s.pending # <<>> /\ Outside(s, x)
           f == IF out THEN FlushPending(s) ELSE s
<1>1. s \in FileState /\ ContentLength(s) \in Nat /\ s.pos \in Nat /\ s.pos <= ContentLength(s)
  <2>1. s \in FileState
    BY DEF Right
  <2> QED BY <2>1, Fields, LengthIs DEF Right
<1>2. x \in Nat /\ x <= ContentLength(s)
  BY <1>1 DEF Smaller
<1>3. t = IF f.ok THEN [f EXCEPT !.pos = x, !.ret = <<x>>] ELSE [f EXCEPT !.ret = <<f.pos>>]
  BY DEF Seek, SeekTo, Moved
<1> HIDE DEF x
<1>4. <<x>> \in Seq(Byte \cup Nat)
  BY <1>2
<1>5. CASE ~ out
  <2>1. f = s
    BY <1>5
  <2>2. t = [s EXCEPT !.pos = x, !.ret = <<x>>]
    BY <1>3, <2>1
  <2>3. s.pending # <<>> => Base(s.chunkNum) <= x /\ x \div CS = s.chunkNum
    BY <1>1, <1>2, <1>5, InsideIs
  <2>4. /\ Right(t) /\ BytesOf(t) = BytesOf(s) /\ ContentLength(t) = ContentLength(s)
        /\ t.pos = x /\ t.ret = <<x>> /\ t.chunkNum = s.chunkNum /\ t.pending = s.pending /\ t.ok = s.ok
        /\ t.left = s.left /\ t.down = s.down
    <3>1. MoveOf(s, x, <<x>>, t)
      BY <1>2, <1>4, <2>2, <2>3 DEF MoveOf
    <3>2. MovedTo(s, t, x, <<x>>)
      BY <3>1, MovesIs
    <3> QED BY <3>2 DEF MovedTo
  <2>5. t.ok
    BY <2>4, Zenon
  <2>6. SeekDone(s, t, o)
    BY <2>3, <2>4, <2>5 DEF SeekDone, x
  <2> QED BY <2>4, <2>6
<1>6. CASE out
  <2>1. f = FlushPending(s)
    BY <1>6
  <2> HIDE DEF f
  <2>2. /\ f \in FileState /\ (s.left \in Nat => f.left \in Nat) /\ f.pos = s.pos
        /\ \/ ~ f.ok /\ f.down
           \/ f.ok /\ f.down = s.down /\ f.pending = <<>>
    BY <1>1, <2>1, FlushIs
  <2>3. Right(f) /\ BytesOf(f) = BytesOf(s) /\ ContentLength(f) = ContentLength(s)
    BY <2>1, FlushKeeps
  <2>4. CASE f.ok
    <3>1. t = [f EXCEPT !.pos = x, !.ret = <<x>>]
      BY <1>3, <2>4
    <3>2. x <= ContentLength(f) /\ f.pending = <<>> /\ f.down = s.down
      BY <1>2, <2>2, <2>3, <2>4
    <3>3. /\ Right(t) /\ BytesOf(t) = BytesOf(f) /\ ContentLength(t) = ContentLength(f)
          /\ t.pos = x /\ t.ret = <<x>> /\ t.chunkNum = f.chunkNum /\ t.pending = f.pending /\ t.ok = f.ok
          /\ t.left = f.left /\ t.down = f.down
      <4>1. MoveOf(f, x, <<x>>, t)
        BY <1>2, <1>4, <3>1, <3>2 DEF MoveOf
      <4>2. MovedTo(f, t, x, <<x>>)
        BY <2>3, <4>1, MovesIs
      <4> QED BY <4>2 DEF MovedTo
    <3>4. t.ok
      BY <2>4, <3>3, Zenon
    <3>5. SeekDone(s, t, o)
      BY <3>2, <3>3, <3>4 DEF SeekDone, x
    <3> QED BY <2>2, <2>3, <3>3, <3>5
  <2>5. CASE ~ f.ok
    <3>1. t = [f EXCEPT !.ret = <<s.pos>>]
      BY <1>3, <2>2, <2>5
    <3>2. <<s.pos>> \in Seq(Byte \cup Nat)
      BY <1>1
    <3>3. t \in FileState
      BY <2>2, <3>1, <3>2 DEF FileState
    <3>4. SameFile(f, t) /\ t.ret = <<s.pos>> /\ t.ok = f.ok /\ t.down = f.down /\ t.left = f.left
      BY <2>2, <3>1, <3>3 DEF FileState, SameFile
    <3>5. Right(t) /\ BytesOf(t) = BytesOf(f) /\ ContentLength(t) = ContentLength(f)
      BY <2>3, <3>4, SameFileKeeps
    <3>6. SeekFailed(s, t)
      BY <2>2, <2>5, <3>4 DEF SeekFailed, SameFile
    <3> QED BY <2>2, <2>3, <3>4, <3>5, <3>6
  <2> QED BY <2>4, <2>5
<1> QED BY <1>5, <1>6

-----------------------------------------------------------------------------
(* gridfile_truncate *)

\* The server removes the chunks from one on.
RemoveOf(s, t, k) ==
  /\ t \in FileState
  /\ \/ ~ t.ok /\ t.down
     \/ /\ t.ok = s.ok /\ t.down = s.down /\ t.pos = s.pos /\ t.length = s.length
        /\ t.chunkNum = s.chunkNum /\ t.pending = s.pending
        /\ DOMAIN t.chunks = {j \in DOMAIN s.chunks : j < k}
        /\ \A j \in DOMAIN t.chunks : t.chunks[j] = s.chunks[j]

\* gridfile_remove_chunks does so, or was not answered.
LEMMA RemoveIs ==
  ASSUME NEW s \in FileState, NEW k \in Nat
  PROVE  RemoveOf(s, RemoveChunks(s, k), k)
<1> DEFINE t == RemoveChunks(s, k)
<1>1. CASE s.left = 0
  <2>1. t = NoReply(s)
    BY <1>1 DEF RemoveChunks
  <2> HIDE DEF t
  <2>2. t \in FileState /\ ~ t.ok /\ t.down
    BY <2>1, NoReplyIs
  <2> QED BY <2>2 DEF RemoveOf, t
<1>2. CASE s.left # 0
  <2> DEFINE D == {j \in DOMAIN s.chunks : j < k}
             chunks == [j \in D |-> s.chunks[j]]
  <2>1. t = [s EXCEPT !.left = s.left - 1, !.chunks = chunks]
    BY <1>2 DEF RemoveChunks, FileState
  <2> HIDE DEF t
  <2>2. /\ s.chunks \in ChunkMaps /\ s.left - 1 \in Int
        /\ DOMAIN s.chunks \subseteq Nat /\ \A j \in DOMAIN s.chunks : s.chunks[j] \in Seq(Byte)
    <3>1. s.chunks \in ChunkMaps /\ s.left \in Int
      BY Fields
    <3> QED BY <3>1, ChunkMap
  <2>3. chunks \in ChunkMaps
    <3>1. D \in SUBSET Nat /\ chunks \in [D -> Seq(Byte)]
      BY <2>2
    <3> HIDE DEF D, chunks
    <3> QED BY <3>1, ChunkMap
  <2>4. DOMAIN chunks = D /\ \A j \in D : chunks[j] = s.chunks[j]
    OBVIOUS
  <2> HIDE DEF chunks
  <2>5. t \in FileState
    BY <2>1, <2>2, <2>3 DEF FileState
  <2>6. /\ t.ok = s.ok /\ t.down = s.down /\ t.pos = s.pos /\ t.length = s.length
        /\ t.chunkNum = s.chunkNum /\ t.pending = s.pending /\ t.chunks = chunks
    BY <2>1 DEF FileState
  <2> QED BY <2>4, <2>5, <2>6 DEF RemoveOf, t
<1> QED BY <1>1, <1>2

\* The chunks of t are those of the first n bytes of s.
CutTo(s, t, n) ==
  /\ t \in FileState /\ t.pending = <<>> /\ t.pos = n /\ Whole(t.chunks, n)
  /\ \A c \in Nat : \A o \in Nat : o < CS /\ Base(c) + o < n => t.chunks[c][o + 1] = Piece(s, c)[o + 1]

\* With that length they are the file.
LEMMA CutToIs ==
  ASSUME NEW s, Right(s), NEW n \in 0 .. ContentLength(s), NEW t, CutTo(s, t, n), t.length = n
  PROVE  Right(t) /\ BytesOf(t) = SubSeq(BytesOf(s), 1, n) /\ ContentLength(t) = n
<1> DEFINE old == BytesOf(s)
           new == BytesOf(t)
           part == SubSeq(old, 1, n)
<1>1. ContentLength(s) \in Nat
  BY LengthIs DEF Right
<1>2. /\ t \in FileState /\ t.pending = <<>> /\ t.pos = n /\ Whole(t.chunks, n)
      /\ \A c \in Nat : \A o \in Nat : o < CS /\ Base(c) + o < n => t.chunks[c][o + 1] = Piece(s, c)[o + 1]
  BY DEF CutTo
<1>3. ContentLength(t) = n
  BY <1>2, LengthIs
<1>4. Right(t)
  BY <1>1, <1>2, <1>3 DEF Right, PendingRight
<1>5. /\ old \in Seq(Byte) /\ Len(old) = ContentLength(s)
      /\ new \in Seq(Byte) /\ Len(new) = n
  BY <1>3, <1>4, BytesAre
<1>6. part \in Seq(Byte) /\ Len(part) = n /\ \A i \in 1 .. n : part[i] = old[0 + i]
  <2>1. n \in 0 .. Len(old)
    BY <1>5
  <2> HIDE DEF old
  <2>2. IsPart(part, old, 0, n)
    BY <1>5, <2>1, HeadAndRest
  <2> HIDE DEF part
  <2> QED BY <2>2 DEF IsPart
<1>7. ASSUME NEW i \in 1 .. n PROVE new[i] = part[i]
  <2> DEFINE x == i - 1
             c == x \div CS
             o == x % CS
  <2>0. x \in Nat /\ x < ContentLength(s) /\ x < ContentLength(t) /\ x + 1 = i /\ x < n /\ 0 + i = i
    BY <1>1, <1>3, <1>7
  <2>1. c \in Nat /\ o \in Nat /\ o < CS /\ x = Base(c) + o
    BY <2>0, Places
  <2>2. old[x + 1] = Piece(s, c)[o + 1] /\ new[x + 1] = Piece(t, c)[o + 1]
    BY <1>4, <2>0, BytesAre
  <2> HIDE DEF c, o, x, old, new, part
  <2>3. Piece(t, c) = t.chunks[c]
    BY <1>2 DEF Piece
  <2>4. t.chunks[c][o + 1] = Piece(s, c)[o + 1]
    BY <1>2, <2>0, <2>1
  <2> QED BY <1>6, <1>7, <2>0, <2>2, <2>3, <2>4
<1> HIDE DEF old, new, part
<1>8. new = part
  BY <1>5, <1>6, <1>7, SeqEqual
<1> QED BY <1>3, <1>4, <1>8 DEF new, part, old

\* The chunks a cut inside of a chunk leaves: those before it, and the front of that chunk.
LEMMA CutInside ==
  ASSUME NEW l, Right(l), NEW c \in Nat, NEW o \in Nat, 0 < o, o < CS, Base(c) + o <= ContentLength(l),
         l.pending # <<>>, l.chunkNum = c, NEW t \in FileState, t.pending = <<>>, t.pos = Base(c) + o,
         DOMAIN t.chunks = {j \in DOMAIN l.chunks \cup {c} : j < c + 1},
         t.chunks[c] = SubSeq(l.pending, 1, o),
         \A j \in DOMAIN t.chunks : j # c => t.chunks[j] = l.chunks[j]
  PROVE  CutTo(l, t, Base(c) + o)
<1> DEFINE n == Base(c) + o
           p == SubSeq(l.pending, 1, o)
<1>1. l \in FileState /\ l.length \in Nat /\ l.pending \in Seq(Byte) /\ Len(l.pending) \in Nat
  <2>1. l \in FileState
    BY DEF Right
  <2> QED BY <2>1, Fields
<1>2. Base(c) \in Nat /\ CS \in Nat
  BY BaseFacts, SizeIs
<1>3. /\ Base(c) <= l.length /\ Smaller(CS, l.length - Base(c)) <= Len(l.pending)
      /\ ContentLength(l) = Bigger(l.length, Base(c) + Len(l.pending))
  BY <1>1, LengthIs DEF Right, PendingRight
<1>4. o <= Len(l.pending)
  BY <1>1, <1>2, <1>3 DEF Bigger, Smaller
<1>5. p \in Seq(Byte) /\ Len(p) = o /\ \A i \in 1 .. o : p[i] = l.pending[0 + i]
  <2>1. o \in 0 .. Len(l.pending)
    BY <1>1, <1>4
  <2>2. IsPart(p, l.pending, 0, o)
    BY <1>1, <2>1, HeadAndRest
  <2> HIDE DEF p
  <2> QED BY <2>2 DEF IsPart
<1>6. /\ DOMAIN l.chunks = {i \in Nat : Base(i) < l.length}
      /\ \A i \in DOMAIN l.chunks : Len(l.chunks[i]) = Smaller(CS, l.length - Base(i))
  BY DEF Right, Whole
<1> HIDE DEF p
<1>7. ASSUME NEW i \in Nat
      PROVE  /\ Base(i) \in Nat
             /\ i < c => Base(i) + CS <= Base(c)
             /\ c < i => Base(c) + CS <= Base(i)
  BY BaseFacts, BaseOrder
<1>8. DOMAIN t.chunks = {i \in Nat : Base(i) < n}
  <2>1. DOMAIN l.chunks \cup {c} \subseteq Nat
    BY <1>6
  <2>2. ASSUME NEW i \in Nat PROVE (i \in DOMAIN l.chunks \cup {c} /\ i < c + 1) <=> Base(i) < n
    <3>1. CASE i < c
      <4>1. Base(i) \in Nat /\ Base(i) + CS <= Base(c)
        BY <1>7, <3>1
      <4>2. Base(i) < l.length /\ Base(i) < n
        BY <1>1, <1>2, <1>3, <4>1
      <4> QED BY <1>6, <3>1, <4>2
    <3>2. CASE i = c
      BY <1>2, <3>2
    <3>3. CASE c < i
      <4>1. Base(i) \in Nat /\ Base(c) + CS <= Base(i)
        BY <1>7, <3>3
      <4>2. ~ (Base(i) < n)
        BY <1>2, <4>1
      <4>3. ~ (i < c + 1)
        BY <3>3
      <4> QED BY <4>2, <4>3
    <3> QED BY <3>1, <3>2, <3>3
  <2> QED BY <2>1, <2>2
<1>9. ASSUME NEW i \in DOMAIN t.chunks PROVE Len(t.chunks[i]) = Smaller(CS, n - Base(i))
  <2>1. CASE i = c
    <3>1. Len(t.chunks[i]) = o
      BY <1>5, <2>1 DEF p
    <3> QED BY <1>2, <2>1, <3>1 DEF Smaller
  <2>2. CASE i # c
    <3>1. i \in Nat /\ i < c /\ i \in DOMAIN l.chunks /\ t.chunks[i] = l.chunks[i]
      BY <1>6, <1>9, <2>2
    <3>2. Base(i) \in Nat /\ Base(i) + CS <= Base(c)
      BY <1>7, <3>1
    <3>3. Len(t.chunks[i]) = Smaller(CS, l.length - Base(i))
      BY <1>6, <3>1
    <3> QED BY <1>1, <1>2, <1>3, <3>2, <3>3 DEF Smaller
  <2> QED BY <2>1, <2>2
<1>10. ASSUME NEW a \in Nat, NEW i \in Nat, i < CS, Base(a) + i < n
       PROVE  t.chunks[a][i + 1] = Piece(l, a)[i + 1]
  <2>0. Base(a) \in Nat
    BY <1>7, <1>10
  <2>1. a \in DOMAIN t.chunks
    <3>1. Base(a) < n
      BY <1>2, <1>10, <2>0
    <3> HIDE DEF n
    <3> QED BY <1>8, <3>1
  <2>2. CASE a = c
    <3>1. i + 1 \in 1 .. o /\ 0 + (i + 1) = i + 1
      BY <1>2, <1>10, <2>2
    <3>2. t.chunks[a] = p /\ Piece(l, a) = l.pending
      BY <2>2 DEF p, Piece
    <3> QED BY <1>5, <3>1, <3>2
  <2>3. CASE a # c
    <3>1. t.chunks[a] = l.chunks[a] /\ Piece(l, a) = l.chunks[a]
      BY <2>1, <2>3 DEF Piece
    <3> QED BY <3>1
  <2> QED BY <2>2, <2>3
<1>11. Whole(t.chunks, n)
  BY <1>8, <1>9 DEF Whole
<1> QED BY <1>10, <1>11 DEF CutTo

\* The chunks a cut between chunks leaves.
LEMMA CutBetween ==
  ASSUME NEW s, Right(s), s.pending = <<>>, NEW c \in Nat, Base(c) <= ContentLength(s),
         NEW t \in FileState, t.pending = <<>>, t.pos = Base(c),
         DOMAIN t.chunks = {j \in DOMAIN s.chunks : j < c},
         \A j \in DOMAIN t.chunks : t.chunks[j] = s.chunks[j]
  PROVE  CutTo(s, t, Base(c))
<1>1. s \in FileState /\ s.length \in Nat /\ ContentLength(s) = s.length
  <2>1. s \in FileState
    BY DEF Right
  <2> QED BY <2>1, Fields, LengthIs
<1>2. Base(c) \in Nat /\ CS \in Nat /\ CS > 0
  BY BaseFacts, SizeIs
<1>3. /\ DOMAIN s.chunks = {i \in Nat : Base(i) < s.length}
      /\ \A i \in DOMAIN s.chunks : Len(s.chunks[i]) = Smaller(CS, s.length - Base(i))
  BY DEF Right, Whole
<1>4. ASSUME NEW i \in Nat
      PROVE  /\ Base(i) \in Nat
             /\ i < c => Base(i) + CS <= Base(c)
             /\ c <= i => Base(c) <= Base(i)
  BY BaseFacts, BaseOrder
<1>5. DOMAIN t.chunks = {i \in Nat : Base(i) < Base(c)}
  <2>1. ASSUME NEW i \in Nat PROVE (Base(i) < s.length /\ i < c) <=> Base(i) < Base(c)
    <3>0. Base(i) \in Nat /\ Base(c) <= s.length
      BY <1>1, <1>4
    <3>1. CASE i < c
      <4>1. Base(i) + CS <= Base(c)
        BY <1>4, <3>1
      <4> QED BY <1>1, <1>2, <3>0, <3>1, <4>1
    <3>2. CASE c <= i
      <4>1. Base(c) <= Base(i)
        BY <1>4, <3>2
      <4>2. ~ (Base(i) < Base(c)) /\ ~ (i < c)
        BY <1>2, <3>0, <3>2, <4>1
      <4> QED BY <4>2
    <3> QED BY <3>1, <3>2
  <2> QED BY <1>3, <2>1
<1>6. ASSUME NEW i \in DOMAIN t.chunks PROVE Len(t.chunks[i]) = Smaller(CS, Base(c) - Base(i))
  <2>1. i \in Nat /\ i < c /\ i \in DOMAIN s.chunks /\ t.chunks[i] = s.chunks[i]
    BY <1>3, <1>6
  <2>2. Base(i) \in Nat /\ Base(i) + CS <= Base(c)
    BY <1>4, <2>1
  <2>3. Len(t.chunks[i]) = Smaller(CS, s.length - Base(i))
    BY <1>3, <2>1
  <2> QED BY <1>1, <1>2, <2>2, <2>3 DEF Smaller
<1>7. ASSUME NEW a \in Nat, NEW i \in Nat, i < CS, Base(a) + i < Base(c)
      PROVE  t.chunks[a][i + 1] = Piece(s, a)[i + 1]
  <2>1. Base(a) \in Nat
    BY <1>4, <1>7
  <2>2. a \in DOMAIN t.chunks
    BY <1>2, <1>5, <1>7, <2>1
  <2> QED BY <2>2 DEF Piece
<1>8. Whole(t.chunks, Base(c))
  BY <1>5, <1>6 DEF Whole
<1> QED BY <1>7, <1>8 DEF CutTo

\* The chunks are cut at the position, or a request was not answered.
CutDone(s, t, n) ==
  /\ t.ok /\ t.down = s.down
  /\ \E l : Right(l) /\ BytesOf(l) = BytesOf(s) /\ ContentLength(l) = ContentLength(s) /\ CutTo(l, t, n)

\* gridfile_truncate cuts the chunks, or a request was not answered.
LEMMA CutIs ==
  ASSUME NEW s, Right(s), s.ok, s.left \in Nat, NEW n \in Nat, n = s.pos, n # 0,
         s.pending # <<>> => s.chunkNum = n \div CS /\ n # Base(s.chunkNum),
         NEW t, t = CutAt(CutChunk(s), n)
  PROVE  t \in FileState /\ ((~ t.ok /\ t.down) \/ CutDone(s, t, n))
<1> DEFINE c == n \div CS
           o == n % CS
           k == (n + CS - 1) \div CS
           l == LoadedFor(s, TRUE)
<1>1. /\ s \in FileState /\ s.pos \in Nat /\ s.length \in Nat /\ ContentLength(s) \in Nat
      /\ s.pos <= ContentLength(s) /\ (s.pending = <<>> => ContentLength(s) = s.length)
  <2>1. s \in FileState
    BY DEF Right
  <2> QED BY <2>1, Fields, LengthIs DEF Right
<1>2. c \in Nat /\ o \in Nat /\ o < CS /\ n = Base(c) + o
  BY Places
<1>3. Base(c) \in Nat /\ CS \in Nat /\ CS > 0 /\ Base(c + 1) = Base(c) + CS /\ c + 1 \in Nat
  <2>1. c \in Nat
    BY <1>2
  <2> HIDE DEF c
  <2>2. Base(c) \in Nat /\ Base(c + 1) = Base(c) + CS
    BY <2>1, BaseFacts
  <2> QED BY <2>1, <2>2, SizeIs
<1>4. CASE o = 0
  <2>1. CutChunk(s) = s
    BY <1>4 DEF CutChunk
  <2>2. t = RemoveChunks(s, k)
    BY <2>1 DEF CutAt
  <2>3. k = c
    <3> HIDE DEF c, o
    <3>1. CS - 1 \in Nat /\ CS - 1 < CS /\ n + CS - 1 = Base(c) + (CS - 1)
      BY <1>2, <1>3, <1>4
    <3>2. (Base(c) + (CS - 1)) \div CS = c
      BY <1>2, <3>1, PlaceOf
    <3> QED BY <3>1, <3>2
  <2>4. s.pending = <<>>
    <3> HIDE DEF o
    <3>1. n = Base(n \div CS)
      BY <1>2, <1>3, <1>4
    <3> QED BY <3>1
  <2> HIDE DEF c, o, k
  <2>5. /\ t \in FileState
        /\ \/ ~ t.ok /\ t.down
           \/ /\ t.ok = s.ok /\ t.down = s.down /\ t.pos = s.pos /\ t.pending = s.pending
              /\ DOMAIN t.chunks = {j \in DOMAIN s.chunks : j < c}
              /\ \A j \in DOMAIN t.chunks : t.chunks[j] = s.chunks[j]
    <3>1. t = RemoveChunks(s, c) /\ c \in Nat
      BY <1>2, <2>2, <2>3
    <3>2. RemoveOf(s, t, c)
      BY <1>1, <3>1, RemoveIs
    <3> QED BY <3>2 DEF RemoveOf
  <2>6. CASE /\ t.ok = s.ok /\ t.down = s.down /\ t.pos = s.pos /\ t.pending = s.pending
             /\ DOMAIN t.chunks = {j \in DOMAIN s.chunks : j < c}
             /\ \A j \in DOMAIN t.chunks : t.chunks[j] = s.chunks[j]
    <3>1. n = Base(c) /\ Base(c) <= ContentLength(s) /\ t.pos = Base(c)
      BY <1>1, <1>2, <1>3, <1>4, <2>6
    <3>2. CutTo(s, t, Base(c))
      BY <1>2, <2>4, <2>5, <2>6, <3>1, CutBetween
    <3>3. t.ok
      BY <2>6, Zenon
    <3> QED BY <2>5, <2>6, <3>1, <3>2, <3>3 DEF CutDone
  <2> QED BY <2>5, <2>6
<1>5. CASE o # 0
  <2> HIDE DEF c
  <2>0. o > 0 /\ s.pos % CS = o
    <3>1. s.pos % CS = o
      OBVIOUS
    <3> HIDE DEF o
    <3> QED BY <1>2, <1>5, <3>1
  <2> DEFINE m == [l EXCEPT !.pending = SubSeq(l.pending, 1, o)]
             f == FlushPending(m)
  <2>1. CutChunk(s) = IF l.ok THEN f ELSE l
    <3> HIDE DEF o
    <3>1. CutChunk(s) = IF l.ok THEN FlushPending([l EXCEPT !.pending = SubSeq(@, 1, o)]) ELSE l
      BY <1>5, <2>0 DEF CutChunk
    <3>2. [l EXCEPT !.pending = SubSeq(@, 1, o)] = [l EXCEPT !.pending = SubSeq(l.pending, 1, o)]
      OBVIOUS
    <3> QED BY <3>1, <3>2
  <2>2. /\ Right(l) /\ l.left \in Nat /\ BytesOf(l) = BytesOf(s) /\ ContentLength(l) = ContentLength(s)
        /\ l.pos = s.pos
        /\ (s.down => l.down) /\ (l.down => s.down \/ ~ l.ok) /\ (l.ok \/ l.down)
        /\ l.ok => l.pending # <<>> /\ l.chunkNum = c
    <3>1. s.pending = <<>> /\ TRUE => Base(s.pos \div CS) < s.length
      <4> HIDE DEF o
      <4>0. o > 0
        BY <2>0
      <4>2. Base(c) < n
        BY <1>2, <1>3, <4>0
      <4>1. s.pending = <<>> => Base(c) < s.length
        BY <1>1, <1>3, <4>2
      <4> QED BY <4>1 DEF c
    <3>2. /\ Right(l) /\ l.left \in Nat /\ BytesOf(l) = BytesOf(s) /\ ContentLength(l) = ContentLength(s)
          /\ l.pos = s.pos
          /\ (s.down => l.down) /\ (l.down => s.down \/ ~ l.ok) /\ (l.ok \/ l.down)
          /\ l.ok => \/ /\ s.pending = <<>> /\ ~ TRUE
                        /\ l.pending = <<>> /\ l.chunkNum = s.chunkNum
                     \/ /\ s.pending = <<>> /\ TRUE
                        /\ l.pending # <<>> /\ l.chunkNum = s.pos \div CS
                     \/ /\ s.pending # <<>>
                        /\ l.pending # <<>> /\ l.chunkNum = s.chunkNum
      BY <3>1, LoadedIs
    <3> HIDE DEF l
    <3> QED BY <3>2 DEF c
  <2> HIDE DEF l
  <2>3. l \in FileState
    BY <2>2 DEF Right
  <2>4. CASE ~ l.ok
    <3>1. t = l
      BY <2>1, <2>4 DEF CutAt
    <3> QED BY <2>2, <2>3, <2>4, <3>1
  <2>5. CASE l.ok
    <3> DEFINE p == SubSeq(l.pending, 1, o)
    <3>1. l.pending # <<>> /\ l.chunkNum = c /\ l.pos = n /\ (l.down <=> s.down)
      BY <2>2, <2>5
    <3>2. l.pending \in Seq(Byte) /\ Len(l.pending) \in Nat /\ l.chunks \in ChunkMaps /\ l.length \in Nat
      BY <2>3, Fields
    <3>3. Base(c) + o <= ContentLength(l) /\ o <= Len(l.pending)
      <4> HIDE DEF o
      <4>1. Base(c) + o <= ContentLength(l)
        BY <1>1, <1>2, <2>2
      <4>2. /\ Smaller(CS, l.length - Base(c)) <= Len(l.pending)
            /\ ContentLength(l) = Bigger(l.length, Base(c) + Len(l.pending))
        BY <2>2, <2>3, <3>1, LengthIs DEF Right, PendingRight
      <4> QED BY <1>2, <1>3, <3>2, <4>1, <4>2 DEF Bigger, Smaller
    <3>4. p \in Seq(Byte) /\ p # <<>>
      <4> HIDE DEF o
      <4>1. o \in 0 .. Len(l.pending)
        BY <1>2, <3>2, <3>3
      <4>2. IsPart(p, l.pending, 0, o)
        BY <3>2, <4>1, HeadAndRest
      <4> HIDE DEF p
      <4>3. p \in Seq(Byte) /\ Len(p) = o
        BY <4>2 DEF IsPart
      <4>4. p = <<>> => Len(p) = 0
        OBVIOUS
      <4> QED BY <2>0, <4>3, <4>4
    <3> HIDE DEF p
    <3>5. m \in FileState /\ m.pending = p /\ m.chunkNum = c /\ m.chunks = l.chunks /\ m.pos = n /\ m.down = l.down
      <4>1. m = [l EXCEPT !.pending = p]
        BY DEF p
      <4> HIDE DEF m
      <4>2. m \in FileState
        BY <2>3, <3>4, <4>1 DEF FileState
      <4>3. /\ m.pending = p /\ m.chunkNum = l.chunkNum /\ m.chunks = l.chunks /\ m.pos = l.pos
            /\ m.down = l.down
        BY <2>3, <4>1 DEF FileState
      <4> QED BY <3>1, <4>2, <4>3
    <3> HIDE DEF m
    <3>6. /\ f \in FileState /\ f.pos = n
          /\ \/ ~ f.ok /\ f.down
             \/ /\ f.ok /\ f.down = l.down /\ f.pending = <<>>
                /\ f.chunks = WithChunk(l.chunks, c, p)
      BY <3>4, <3>5, FlushIs
    <3>7. CutChunk(s) = f
      BY <2>1, <2>5
    <3> HIDE DEF f
    <3>8. CASE ~ f.ok
      <4>1. t = f
        BY <3>7, <3>8 DEF CutAt
      <4> QED BY <3>6, <3>8, <4>1
    <3>9. CASE f.ok
      <4>1. t = RemoveChunks(f, k)
        BY <3>7, <3>9 DEF CutAt
      <4>2. k = c + 1
        <5> HIDE DEF o
        <5>1. o - 1 \in Nat /\ o - 1 < CS /\ n + CS - 1 = Base(c + 1) + (o - 1)
          BY <1>2, <1>3, <2>0
        <5>2. (Base(c + 1) + (o - 1)) \div CS = c + 1
          BY <1>3, <5>1, PlaceOf
        <5> QED BY <5>1, <5>2
      <4> HIDE DEF k
      <4>3. /\ t \in FileState
            /\ \/ ~ t.ok /\ t.down
               \/ /\ t.ok = f.ok /\ t.down = f.down /\ t.pos = f.pos /\ t.pending = f.pending
                  /\ DOMAIN t.chunks = {j \in DOMAIN f.chunks : j < c + 1}
                  /\ \A j \in DOMAIN t.chunks : t.chunks[j] = f.chunks[j]
        <5>1. RemoveOf(f, t, c + 1)
          <6>1. c + 1 \in Nat
            BY <1>3
          <6> QED BY <3>6, <4>1, <4>2, <6>1, RemoveIs
        <5> QED BY <5>1 DEF RemoveOf
      <4>4. CASE /\ t.ok = f.ok /\ t.down = f.down /\ t.pos = f.pos /\ t.pending = f.pending
                 /\ DOMAIN t.chunks = {j \in DOMAIN f.chunks : j < c + 1}
                 /\ \A j \in DOMAIN t.chunks : t.chunks[j] = f.chunks[j]
        <5>0. f.pending = <<>> /\ f.chunks = WithChunk(l.chunks, c, p) /\ f.down = l.down
          BY <3>6, <3>9
        <5>1. /\ DOMAIN f.chunks = DOMAIN l.chunks \cup {c} /\ f.chunks[c] = p
              /\ \A i \in DOMAIN l.chunks : i # c => f.chunks[i] = l.chunks[i]
          <6>1. c \in Nat
            BY <1>2
          <6>2. /\ DOMAIN WithChunk(l.chunks, c, p) = DOMAIN l.chunks \cup {c}
                /\ WithChunk(l.chunks, c, p)[c] = p
                /\ \A i \in DOMAIN l.chunks : i # c => WithChunk(l.chunks, c, p)[i] = l.chunks[i]
            <7>2. l.chunks \in ChunkMaps /\ p \in Seq(Byte)
              BY <3>2, <3>4
            <7> QED BY <6>1, <7>2, WithChunkAll, Zenon
          <6> QED BY <5>0, <6>2
        <5>2. DOMAIN t.chunks = {j \in DOMAIN l.chunks \cup {c} : j < c + 1}
          BY <4>4, <5>1
        <5>3. t.chunks[c] = SubSeq(l.pending, 1, o)
          <6>1. c \in DOMAIN t.chunks
            BY <1>2, <5>2
          <6> QED BY <4>4, <5>1, <6>1 DEF p
        <5>4. \A j \in DOMAIN t.chunks : j # c => t.chunks[j] = l.chunks[j]
          BY <4>4, <5>1, <5>2
        <5>5. t.pending = <<>> /\ t.pos = Base(c) + o
          <6> HIDE DEF o
          <6> QED BY <1>2, <3>6, <4>4, <5>0
        <5>6. CutTo(l, t, Base(c) + o)
          <6> HIDE DEF o
          <6> QED BY <1>2, <2>0, <2>2, <3>1, <3>3, <4>3, <5>2, <5>3, <5>4, <5>5, CutInside
        <5>7. t.ok /\ t.down = s.down
          <6>1. t.down \in BOOLEAN /\ s.down \in BOOLEAN
            BY <1>1, <4>3, Fields
          <6>2. t.ok
            BY <3>9, <4>4, Zenon
          <6>3. t.down = l.down
            BY <4>4, <5>0
          <6>4. l.down <=> s.down
            BY <3>1
          <6>5. t.down <=> s.down
            BY <6>3, <6>4, Zenon
          <6> QED BY <6>1, <6>2, <6>5
        <5>8. n = Base(c) + o
          BY <1>2
        <5> QED BY <2>2, <4>3, <5>6, <5>7, <5>8 DEF CutDone
      <4> QED BY <4>3, <4>4
    <3> QED BY <3>8, <3>9
  <2> QED BY <2>4, <2>5
<1> QED BY <1>4, <1>5

\* The length becomes n when all that went before succeeded.
ShortOf(s, t, n) ==
  /\ t \in FileState /\ t.ok = s.ok /\ t.down = s.down /\ t.pos = s.pos /\ t.chunkNum = s.chunkNum
  /\ t.pending = s.pending /\ t.chunks = s.chunks
  /\ s.ok => t.length = n /\ t.ret = <<n>>

\* The length is set so.
LEMMA ShortIs ==
  ASSUME NEW s \in FileState, NEW n \in Nat
  PROVE  ShortOf(s, Shortened(s, n), n)
<1> DEFINE t == Shortened(s, n)
<1> DEFINE length == IF s.ok THEN n ELSE s.length
           ret == <<IF s.ok THEN n ELSE s.length>>
<1>1. t = [s EXCEPT !.length = length, !.ret = ret]
  BY DEF Shortened, FileState
<1>2. length \in Nat /\ ret \in Seq(Byte \cup Nat)
  <2>1. s.length \in Nat
    BY Fields
  <2> QED BY <2>1
<1>3. s.ok => length = n /\ ret = <<n>>
  OBVIOUS
<1> HIDE DEF length, ret, t
<1>4. t \in FileState
  BY <1>1, <1>2 DEF FileState
<1>5. /\ t.ok = s.ok /\ t.down = s.down /\ t.pos = s.pos /\ t.chunkNum = s.chunkNum
      /\ t.pending = s.pending /\ t.chunks = s.chunks /\ t.length = length /\ t.ret = ret
  BY <1>1 DEF FileState
<1> QED BY <1>3, <1>4, <1>5 DEF ShortOf, t

\* The file is its first bytes, and its end is the position.
Truncated(s, t, n) ==
  /\ Right(t) /\ t.down = s.down /\ t.pos = Smaller(n, ContentLength(s)) /\ t.ret = <<t.pos>>
  /\ ContentLength(t) = t.pos /\ BytesOf(t) = SubSeq(BytesOf(s), 1, t.pos)

\* A truncate cuts the file, or a request was not answered.
LEMMA TruncateIs ==
  ASSUME NEW s, Right(s), s.ok, s.left \in Nat, NEW n \in Nat, CutSoundly(s, n), NEW t, t = Truncate(s, n)
  PROVE  t \in FileState /\ (t.down \/ Truncated(s, t, n))
<1> DEFINE m == ContentLength(s)
<1>1. s \in FileState /\ m \in Nat
  <2>1. s \in FileState
    BY DEF Right
  <2> QED BY <2>1, LengthIs
<1>2. BytesOf(s) \in Seq(Byte) /\ Len(BytesOf(s)) = m
  BY BytesAre
<1>3. CASE n > m
  <2> HIDE DEF m
  <2>1. t = Seek(s, m)
    <3>1. n > ContentLength(s) /\ n \notin 1 .. ContentLength(s)
      BY <1>1, <1>3 DEF m
    <3> QED BY <3>1 DEF Truncate, m
  <2>2. /\ Right(t) /\ BytesOf(t) = BytesOf(s) /\ ContentLength(t) = m
        /\ SeekDone(s, t, m) \/ SeekFailed(s, t)
    BY <1>1, <2>1, SeekIs DEF m
  <2>3. CASE SeekDone(s, t, m)
    <3>1. t.down = s.down /\ t.pos = Smaller(m, m) /\ t.ret = <<t.pos>>
      BY <2>3 DEF SeekDone, m
    <3>2. Smaller(m, m) = m /\ Smaller(n, m) = m
      BY <1>1, <1>3 DEF Smaller
    <3>3. SubSeq(BytesOf(s), 1, m) = BytesOf(s)
      BY <1>2, WholeSeq
    <3> QED BY <2>2, <3>1, <3>2, <3>3 DEF Truncated, Right, m
  <2> QED BY <2>2, <2>3 DEF SeekFailed, Right
<1>4. CASE n \in 1 .. m
  <2> DEFINE a == Seek(s, n)
             b == CutAt(CutChunk(a), n)
  <2>0. n # 0 /\ Smaller(m, n) = n /\ Smaller(n, m) = n
    BY <1>1, <1>4 DEF Smaller
  <2>1. t = Shortened(b, n)
    BY <1>1, <1>4 DEF Truncate
  <2>2. /\ Right(a) /\ BytesOf(a) = BytesOf(s) /\ ContentLength(a) = m /\ a.left \in Nat
        /\ SeekDone(s, a, n) \/ SeekFailed(s, a)
    BY SeekIs
  <2> HIDE DEF a, m
  <2>3. CASE SeekFailed(s, a)
    <3>1. ~ a.ok /\ a.down /\ a \in FileState
      BY <2>2, <2>3 DEF SeekFailed, Right
    <3>2. b = a
      BY <3>1 DEF CutChunk, CutAt
    <3> QED BY <2>1, <3>1, <3>2, ShortIs DEF ShortOf
  <2>4. CASE SeekDone(s, a, n)
    <3>1. a.ok /\ a.down = s.down /\ a.pos = n
      BY <2>0, <2>4 DEF SeekDone, m
    <3>2. a.pending # <<>> => a.chunkNum = n \div CS /\ n # Base(a.chunkNum)
      <4>1. a.pending # <<>> => a.chunkNum = n \div CS /\ a.pending = s.pending /\ a.chunkNum = s.chunkNum
        BY <2>4, <3>1 DEF SeekDone
      <4>2. s.pending # <<>> => n # Base(s.chunkNum)
        BY DEF CutSoundly, Base
      <4> QED BY <4>1, <4>2
    <3>3. b \in FileState /\ ((~ b.ok /\ b.down) \/ CutDone(a, b, n))
      BY <2>0, <2>2, <3>1, <3>2, CutIs
    <3> HIDE DEF b
    <3>4. /\ t \in FileState /\ t.ok = b.ok /\ t.down = b.down /\ t.pos = b.pos /\ t.chunkNum = b.chunkNum
          /\ t.pending = b.pending /\ t.chunks = b.chunks
          /\ b.ok => t.length = n /\ t.ret = <<n>>
      <4>1. ShortOf(b, t, n)
        BY <2>1, <3>3, ShortIs
      <4> QED BY <4>1 DEF ShortOf
    <3>5. CASE CutDone(a, b, n)
      <4>1. PICK l : Right(l) /\ BytesOf(l) = BytesOf(a) /\ ContentLength(l) = ContentLength(a) /\ CutTo(l, b, n)
        BY <3>5 DEF CutDone
      <4>2. b.ok /\ b.down = a.down
        BY <3>5 DEF CutDone
      <4>3. CutTo(l, t, n) /\ t.length = n
        BY <3>4, <4>1, <4>2 DEF CutTo
      <4>4. n \in 0 .. ContentLength(l)
        BY <1>1, <1>4, <2>2, <4>1 DEF m
      <4>5. Right(t) /\ BytesOf(t) = SubSeq(BytesOf(l), 1, n) /\ ContentLength(t) = n
        BY <4>1, <4>3, <4>4, CutToIs
      <4>6. t.pos = n /\ t.ret = <<n>> /\ t.down = s.down
        BY <3>1, <3>4, <4>2, <4>3 DEF CutTo
      <4> QED BY <2>0, <2>2, <3>4, <4>1, <4>5, <4>6 DEF Truncated, m
    <3>6. CASE ~ b.ok /\ b.down
      BY <3>4, <3>6
    <3> QED BY <3>3, <3>5, <3>6
  <2> QED BY <2>2, <2>3, <2>4
<1>5. CASE n = 0
  <2> DEFINE a == RemoveChunks(s, 0)
             b == Shortened(a, 0)
             pos == IF b.ok THEN 0 ELSE b.pos
  <2>1. t = [b EXCEPT !.pos = pos]
    <3>0. b \in FileState
      <4>1. PICK z \in Nat : z = 0
        OBVIOUS
      <4>2. RemoveChunks(s, z) \in FileState
        <5>1. RemoveOf(s, RemoveChunks(s, z), z)
          BY <1>1, <4>1, RemoveIs
        <5> QED BY <5>1 DEF RemoveOf
      <4>3. ShortOf(a, b, z)
        BY <4>1, <4>2, ShortIs
      <4> QED BY <4>3 DEF ShortOf
    <3>1. ~ (n > ContentLength(s)) /\ n \notin 1 .. ContentLength(s)
      BY <1>1, <1>5
    <3>2. t = LET q == Shortened(RemoveChunks(s, 0), 0) IN [q EXCEPT !.pos = IF q.ok THEN 0 ELSE @]
      BY <3>1 DEF Truncate
    <3> HIDE DEF b
    <3>3. t = [b EXCEPT !.pos = IF b.ok THEN 0 ELSE @]
      BY <3>2 DEF b
    <3> QED BY <3>0, <3>3 DEF FileState
  <2>2. s.pending = <<>>
    BY <1>5 DEF CutSoundly
  <2>3. /\ a \in FileState
        /\ \/ ~ a.ok /\ a.down
           \/ /\ a.ok = s.ok /\ a.down = s.down /\ a.pending = s.pending
              /\ DOMAIN a.chunks = {j \in DOMAIN s.chunks : j < 0}
              /\ \A j \in DOMAIN a.chunks : a.chunks[j] = s.chunks[j]
    <3>1. PICK z \in Nat : z = 0
      OBVIOUS
    <3>2. a = RemoveChunks(s, z)
      BY <3>1
    <3> HIDE DEF a
    <3>3. RemoveOf(s, a, z)
      BY <1>1, <3>1, <3>2, RemoveIs
    <3> QED BY <3>1, <3>3 DEF RemoveOf
  <2> HIDE DEF a
  <2>4. /\ b \in FileState /\ b.ok = a.ok /\ b.down = a.down /\ b.pending = a.pending /\ b.chunks = a.chunks
        /\ a.ok => b.length = 0 /\ b.ret = <<0>>
    <3>1. PICK z \in Nat : z = 0
      OBVIOUS
    <3>2. ShortOf(a, b, z)
      BY <2>3, <3>1, ShortIs
    <3> HIDE DEF b
    <3> QED BY <3>1, <3>2 DEF ShortOf
  <2> HIDE DEF b
  <2>5. /\ t \in FileState /\ t.pos = pos /\ t.ok = b.ok /\ t.down = b.down /\ t.pending = b.pending
        /\ t.chunks = b.chunks /\ t.length = b.length /\ t.ret = b.ret
    <3>1. pos \in Nat
      BY <2>4, Fields
    <3> HIDE DEF pos
    <3> QED BY <2>1, <2>4, <3>1 DEF FileState
  <2>6. CASE ~ a.ok /\ a.down
    BY <2>4, <2>5, <2>6
  <2>7. CASE /\ a.ok = s.ok /\ a.down = s.down /\ a.pending = s.pending
             /\ DOMAIN a.chunks = {j \in DOMAIN s.chunks : j < 0}
             /\ \A j \in DOMAIN a.chunks : a.chunks[j] = s.chunks[j]
    <3>1. a.ok /\ b.ok
      BY <2>4, <2>7, Zenon
    <3>2. t.pos = 0 /\ t.length = 0 /\ t.ret = <<0>> /\ t.pending = <<>> /\ t.down = s.down
      BY <2>2, <2>4, <2>5, <2>7, <3>1
    <3>3. Base(0) = 0 /\ 0 \in Nat
      BY BaseFacts
    <3>4. CutTo(s, t, Base(0))
      <4>1. /\ DOMAIN t.chunks = {j \in DOMAIN s.chunks : j < 0}
            /\ \A j \in DOMAIN t.chunks : t.chunks[j] = s.chunks[j]
        BY <2>4, <2>5, <2>7
      <4>2. Base(0) <= ContentLength(s) /\ t.pos = Base(0)
        BY <1>1, <3>2, <3>3
      <4> QED BY <2>2, <2>5, <3>2, <3>3, <4>1, <4>2, CutBetween
    <3>5. 0 \in 0 .. ContentLength(s) /\ CutTo(s, t, 0)
      BY <1>1, <3>3, <3>4
    <3>6. Right(t) /\ BytesOf(t) = SubSeq(BytesOf(s), 1, 0) /\ ContentLength(t) = 0
      BY <3>2, <3>5, CutToIs
    <3>7. Smaller(n, m) = 0
      BY <1>1, <1>5 DEF Smaller
    <3> QED BY <2>5, <3>2, <3>6, <3>7 DEF Truncated
  <2> QED BY <2>3, <2>6, <2>7
<1> QED BY <1>1, <1>3, <1>4, <1>5

\* A state after a request without answer, of which nothing else is known.
Failing(s) == "down" \in DOMAIN s /\ s.down = TRUE

\* What was not answered is not forgotten: flushing, loading and filling up keep it.
LEMMA FailingStays ==
  ASSUME NEW s, Failing(s), NEW d
  PROVE  /\ Failing(NoReply(s)) /\ Failing(FlushPending(s)) /\ Failing(LoadPending(s))
         /\ Failing(LoadedFor(s, TRUE)) /\ Failing(LoadedFor(s, FALSE)) /\ Failing(FilledUp(s, d))
<1>1. Failing(NoReply(s))
  BY DEF Failing, NoReply
<1>2. Failing(FlushPending(s))
  <2>1. CASE s.pending = <<>>
    BY <2>1 DEF Failing, FlushPending
  <2>2. CASE s.pending # <<>> /\ s.left = 0
    BY <1>1, <2>2 DEF FlushPending
  <2>3. CASE s.pending # <<>> /\ s.left # 0
    BY <2>3 DEF Failing, FlushPending
  <2> QED BY <2>1, <2>2, <2>3
<1>3. Failing(LoadPending(s))
  <2>1. CASE s.left = 0
    BY <1>1, <2>1 DEF LoadPending
  <2>2. CASE s.left # 0 /\ s.pos \div CS \notin DOMAIN s.chunks
    BY <2>2 DEF Failing, LoadPending
  <2>3. CASE s.left # 0 /\ s.pos \div CS \in DOMAIN s.chunks
    BY <2>3 DEF Failing, LoadPending
  <2> QED BY <2>1, <2>2, <2>3
<1>4. Failing([s EXCEPT !.ok = TRUE])
  BY DEF Failing
<1>5. Failing(FilledUp(s, d))
  BY DEF Failing, FilledUp
<1> QED BY <1>1, <1>2, <1>3, <1>4, <1>5 DEF LoadedFor

\* Nor do whole chunks and the rest of what is written forget it.
LEMMA FailingRest ==
  ASSUME NEW s, Failing(s), NEW d, NEW all
  PROVE  Failing(WriteRest(s, d, all))
<1> DEFINE k == Smaller(Len(d) \div CS, s.left)
           t == WriteFull(s, d, k)
           rest == SubSeq(d, (k * CS) + 1, Len(d))
           u == IF t.ok THEN WriteTail(t, rest) ELSE t
<1>1. Failing(t)
  <2> HIDE DEF k
  <2> QED BY DEF Failing, WriteFull
<1> HIDE DEF t, k
<1>2. Failing(WriteTail(t, rest))
  <2> HIDE DEF rest
  <2> DEFINE l == LoadedFor(t, t.pos + Len(rest) < t.length)
  <2>1. Failing(l)
    <3>1. Failing([t EXCEPT !.ok = TRUE]) /\ Failing(LoadPending(t))
      <4>1. Failing(LoadPending(t))
        BY <1>1, FailingStays
      <4>2. Failing([t EXCEPT !.ok = TRUE])
        BY <1>1 DEF Failing
      <4> QED BY <4>1, <4>2
    <3> QED BY <3>1 DEF LoadedFor
  <2> HIDE DEF l
  <2>2. Failing([l EXCEPT !.pending = Merged(@, 0, rest), !.pos = @ + Len(rest)])
    BY <2>1 DEF Failing
  <2>3. WriteTail(t, rest) = IF rest = <<>> THEN t
          ELSE IF l.ok THEN [l EXCEPT !.pending = Merged(@, 0, rest), !.pos = @ + Len(rest)] ELSE l
    BY DEF WriteTail, l
  <2> QED BY <1>1, <2>1, <2>2, <2>3
<1>3. Failing(u)
  BY <1>1, <1>2
<1>4. WriteRest(s, d, all) = IF u.ok THEN [u EXCEPT !.ret = <<all>>] ELSE Failed(u, all - Len(rest))
  BY DEF WriteRest, t, k
<1> HIDE DEF u, rest
<1>5. Failing([u EXCEPT !.ret = <<all>>]) /\ Failing(Failed(u, all - Len(rest)))
  BY <1>3 DEF Failing, Failed
<1> QED BY <1>4, <1>5

\* Nor does a whole write.
LEMMA FailingWrite ==
  ASSUME NEW s, Failing(s), NEW d
  PROVE  Failing(WriteBuffer(s, d))
<1> DEFINE p == [s EXCEPT !.chunkNum = s.pos \div CS]
           n == HeadLen(p, d)
           h == SubSeq(d, 1, n)
           t == IF p.pos % CS = 0 THEN p ELSE WriteHead(LoadedFor(p, TRUE), h)
           r == SubSeq(d, n + 1, Len(d))
<1>1. Failing(p)
  BY DEF Failing
<1>2. WriteBuffer(s, d) = IF t.ok THEN WriteRest(t, r, Len(d)) ELSE Failed(t, 0)
  BY DEF WriteBuffer
<1> HIDE DEF p, n, h, r
<1>3. Failing(WriteHead(LoadedFor(p, TRUE), h))
  <2> DEFINE l == LoadedFor(p, TRUE)
  <2>1. Failing(l)
    BY <1>1, FailingStays
  <2> HIDE DEF l
  <2>2. Failing(FilledUp(l, h)) 
    BY <2>1, FailingStays
  <2>3. Failing(FlushPending(FilledUp(l, h)))
    BY <2>2, FailingStays
  <2> QED BY <2>1, <2>2, <2>3 DEF WriteHead, l
<1>4. Failing(t)
  BY <1>1, <1>3
<1> HIDE DEF t
<1>5. Failing(WriteRest(t, r, Len(d)))
  BY <1>4, FailingRest
<1>6. Failing(Failed(t, 0))
  BY <1>4 DEF Failing, Failed
<1> QED BY <1>2, <1>5, <1>6

-----------------------------------------------------------------------------
(* gridfile_expand *)

\* What gridfile_expand writes.
Zeros(m) == [i \in 1 .. m |-> Zero]

\* One sequence behind another.
Joined(r, a, b) ==
  /\ r \in Seq(Byte) /\ Len(r) = Len(a) + Len(b)
  /\ \A i \in 1 .. Len(a) + Len(b) : r[i] = IF i <= Len(a) THEN a[i] ELSE b[i - Len(a)]

\* One sequence behind another, byte by byte.
LEMMA JoinedIs ==
  ASSUME NEW a \in Seq(Byte), NEW b \in Seq(Byte)
  PROVE  Joined(a \o b, a, b) /\ Len(a) \in Nat /\ Len(b) \in Nat
<1>1. Len(a) \in Nat /\ Len(b) \in Nat
  BY LenProperties
<1>2. a \o b \in Seq(Byte) /\ Len(a \o b) = Len(a) + Len(b)
  BY ConcatProperties
<1>3. \A i \in 1 .. Len(a) + Len(b) : (a \o b)[i] = IF i <= Len(a) THEN a[i] ELSE b[i - Len(a)]
  BY ConcatProperties
<1> QED BY <1>1, <1>2, <1>3 DEF Joined

\* Zeros are bytes; zeros behind zeros are zeros.
LEMMA ZerosAre ==
  ASSUME NEW b \in Seq(Byte), NEW k \in Nat, NEW m \in Nat
  PROVE  /\ Zeros(k) \in Seq(Byte) /\ Len(Zeros(k)) = k
         /\ (b \o Zeros(k)) \o Zeros(m) = b \o Zeros(k + m)
<1>1. \A j \in Nat : Zeros(j) \in Seq(Byte) /\ Len(Zeros(j)) = j /\ \A i \in 1 .. j : Zeros(j)[i] = Zero
  BY FileAssumption DEF Zeros
<1> DEFINE x == Zeros(k)
           y == Zeros(m)
           z == Zeros(k + m)
<1>2. /\ x \in Seq(Byte) /\ Len(x) = k /\ \A i \in 1 .. k : x[i] = Zero
      /\ y \in Seq(Byte) /\ Len(y) = m /\ \A i \in 1 .. m : y[i] = Zero
      /\ z \in Seq(Byte) /\ Len(z) = k + m /\ \A i \in 1 .. k + m : z[i] = Zero
  <2>1. k + m \in Nat
    OBVIOUS
  <2> QED BY <1>1, <2>1
<1> HIDE DEF x, y, z
<1>3. (b \o x) \o y = b \o z
  <2> DEFINE f == b \o x
             l == f \o y
             r == b \o z
  <2>1. Joined(f, b, x) /\ Joined(r, b, z) /\ Len(b) \in Nat
    BY <1>2, JoinedIs
  <2>2. f \in Seq(Byte) /\ Len(f) = Len(b) + k
    BY <1>2, <2>1 DEF Joined
  <2> HIDE DEF f, r
  <2>3. Joined(l, f, y)
    BY <1>2, <2>2, JoinedIs
  <2> HIDE DEF l
  <2>4. l \in Seq(Byte) /\ Len(l) = Len(b) + k + m /\ r \in Seq(Byte) /\ Len(r) = Len(b) + k + m
    BY <1>2, <2>1, <2>2, <2>3 DEF Joined
  <2>5. ASSUME NEW i \in 1 .. Len(b) + k + m PROVE l[i] = r[i]
    <3>0. Len(z) = k + m /\ i \in 1 .. Len(b) + Len(z)
      BY <1>2, <2>1
    <3>1. r[i] = IF i <= Len(b) THEN b[i] ELSE z[i - Len(b)]
      BY <2>1, <3>0 DEF Joined
    <3>2. l[i] = IF i <= Len(b) + k THEN f[i] ELSE y[i - (Len(b) + k)]
      BY <1>2, <2>2, <2>3 DEF Joined
    <3>3. i <= Len(b) + k => f[i] = IF i <= Len(b) THEN b[i] ELSE x[i - Len(b)]
      BY <1>2, <2>1 DEF Joined
    <3>4. CASE i <= Len(b)
      BY <2>1, <3>1, <3>2, <3>3, <3>4
    <3>5. CASE i > Len(b)
      <4>1. z[i - Len(b)] = Zero
        BY <1>2, <2>1, <3>5
      <4>2. i <= Len(b) + k => x[i - Len(b)] = Zero
        BY <1>2, <2>1, <3>5
      <4>3. i > Len(b) + k => y[i - (Len(b) + k)] = Zero
        BY <1>2, <2>1, <3>5
      <4> QED BY <2>1, <3>1, <3>2, <3>3, <3>5, <4>1, <4>2, <4>3
    <3> QED BY <2>1, <3>4, <3>5
  <2>6. l = r
    BY <2>1, <2>4, <2>5, SeqEqual
  <2> QED BY <2>6 DEF l, r, f
<1> QED BY <1>2, <1>3 DEF x, y, z

\* Writing at the end is appending.
LEMMA OverEnd ==
  ASSUME NEW b \in Seq(Byte), NEW d \in Seq(Byte)
  PROVE  Promise!Over(b, Len(b), d) = b \o d
<1> DEFINE l == Promise!Over(b, Len(b), d)
           r == b \o d
<1>1. Len(b) \in Nat /\ Len(d) \in Nat /\ Len(b) \in 0 .. Len(b)
  BY LenProperties
<1>2. IsOver(l, b, Len(b), d, Len(d))
  BY <1>1, OverIs
<1>3. Bigger(Len(b), Len(b) + Len(d)) = Len(b) + Len(d)
  BY <1>1 DEF Bigger
<1>0. Joined(r, b, d)
  BY JoinedIs
<1>4. r \in Seq(Byte) /\ Len(r) = Len(b) + Len(d)
  BY <1>0 DEF Joined
<1>5. \A i \in 1 .. Len(b) + Len(d) : r[i] = IF i \in Len(b) + 1 .. Len(b) + Len(d) THEN d[i - Len(b)] ELSE b[i]
  <2> HIDE DEF r
  <2> QED BY <1>0, <1>1 DEF Joined
<1> HIDE DEF l, r
<1>6. /\ l \in Seq(Byte) /\ Len(l) = Len(b) + Len(d)
      /\ \A i \in 1 .. Len(b) + Len(d) : l[i] = IF i \in Len(b) + 1 .. Len(b) + Len(d) THEN d[i - Len(b)] ELSE b[i]
  BY <1>2, <1>3 DEF IsOver
<1>7. l = r
  BY <1>1, <1>4, <1>5, <1>6, SeqEqual
<1> QED BY <1>7 DEF l, r

\* Where an expand of a file by n bytes is after k turns: in a file that got zeros, or after a
\* request that was not answered.
Grown(s, r, k, n) ==
  /\ Right(r.file) /\ r.file.ok = TRUE /\ r.file.left \in Nat /\ (r.file.down => s.down) /\ (s.down => r.file.down)
  /\ r.going = TRUE
  /\ r.cur \in ContentLength(s) .. ContentLength(s) + n
  /\ r.cur >= ContentLength(s) + k \/ r.cur = ContentLength(s) + n
  /\ r.file.pos = r.cur /\ ContentLength(r.file) = r.cur
  /\ BytesOf(r.file) = BytesOf(s) \o Zeros(r.cur - ContentLength(s))
  /\ r.file.pending # <<>> => InChunk(r.file)
TurnOk(s, r, k, n) ==
  "file" \in DOMAIN r /\ "going" \in DOMAIN r /\ (Failing(r.file) \/ Grown(s, r, k, n))

\* What is written last is in the chunk of the position, so up to the end of that chunk it is sound to go on.
LEMMA SoundAtEnd ==
  ASSUME NEW s, Right(s), s.pos = ContentLength(s), s.pending # <<>> => InChunk(s),
         NEW d \in Seq(Byte)
  PROVE  Sound(s, d)
<1>1. CASE s.pending = <<>>
  BY <1>1 DEF Sound
<1>2. CASE s.pending # <<>>
  <2> DEFINE c == s.chunkNum
             o == s.pos - Base(c)
  <2>1. c \in Nat /\ s.pos \in Nat /\ Base(c) \in Nat /\ CS \in Nat
    <3>1. c \in Nat /\ s.pos \in Nat
      BY Fields DEF Right
    <3>2. Base(c) \in Nat
      BY <3>1, BaseFacts
    <3> QED BY <3>1, <3>2, SizeIs
  <2>2. Base(c) < s.pos /\ s.pos < Base(c) + CS
    BY <1>2 DEF InChunk
  <2>3. o \in Nat /\ o > 0 /\ o < CS /\ s.pos = Base(c) + o
    BY <2>1, <2>2
  <2> HIDE DEF c, o
  <2>4. s.pos \div CS = c /\ s.pos % CS = o
    BY <2>1, <2>3, PlaceOf
  <2> QED BY <2>3, <2>4 DEF Sound, c
<1> QED BY <1>1, <1>2

\* A turn adds zeros, or a request was not answered.
LEMMA ExpandTurnIs ==
  ASSUME NEW s, Right(s), NEW n \in Nat, NEW k \in Nat, NEW r, TurnOk(s, r, k, n)
  PROVE  TurnOk(s, ExpandTurn(r, ContentLength(s) + n), k + 1, n)
<1> DEFINE e == ContentLength(s)
           m == Smaller(CS - (r.cur % CS), (e + n) - r.cur)
           t == WriteBuffer(r.file, Zeros(m))
           q == ExpandTurn(r, e + n)
<1>1. q = IF ~r.going \/ r.cur >= e + n THEN r
          ELSE IF t.ret = <<m>> THEN [file |-> t, cur |-> r.cur + m, going |-> TRUE]
          ELSE [r EXCEPT !.file = t, !.going = FALSE]
  BY DEF ExpandTurn, Zeros
<1>2. e \in Nat
  BY LengthIs DEF Right
<1>3. CASE Failing(r.file)
  <2>1. Failing(t)
    BY <1>3, FailingWrite
  <2> HIDE DEF t, m, q, e
  <2>2. CASE q = r
    BY <1>3, <2>2 DEF TurnOk, e, q
  <2>3. CASE q = [file |-> t, cur |-> r.cur + m, going |-> TRUE]
    <3>1. q.file = t /\ "file" \in DOMAIN q /\ "going" \in DOMAIN q
      BY <2>3
    <3> QED BY <2>1, <3>1 DEF TurnOk, q, e
  <2>4. CASE q = [r EXCEPT !.file = t, !.going = FALSE]
    <3>1. q.file = t /\ "file" \in DOMAIN q /\ "going" \in DOMAIN q
      BY <2>4 DEF TurnOk
    <3> QED BY <2>1, <3>1 DEF TurnOk, q, e
  <2> QED BY <1>1, <2>2, <2>3, <2>4
<1>4. CASE Grown(s, r, k, n)
  <2> DEFINE x == r.cur
  <2>1. x \in Nat /\ e <= x /\ x <= e + n
    BY <1>2, <1>4 DEF Grown
  <2>2. CASE x >= e + n
    <3>1. q = r
      BY <1>1, <2>2
    <3>2. x = e + n
      BY <1>2, <2>1, <2>2
    <3> HIDE DEF q, x, e
    <3>3. Grown(s, r, k + 1, n)
      BY <1>4, <3>2 DEF Grown, x, e
    <3> QED BY <3>1, <3>3 DEF TurnOk, q, e
  <2>3. CASE x < e + n
    <3> DEFINE o == x % CS
               z == Zeros(m)
    <3>1. o \in Nat /\ o < CS /\ CS \in Nat
      BY <2>1, Places, SizeIs
    <3>2. m \in Nat /\ m > 0 /\ m <= (e + n) - x
      <4> HIDE DEF x, o, e
      <4>1. m = Smaller(CS - o, (e + n) - x)
        BY DEF x, o
      <4> QED BY <1>2, <2>1, <2>3, <3>1, <4>1 DEF Smaller
    <3> HIDE DEF m, e, o, x
    <3>3. z \in Seq(Byte) /\ Len(z) = m
      <4>1. BytesOf(s) \in Seq(Byte)
        BY BytesAre
      <4> QED BY <3>2, <4>1, ZerosAre
    <3>4. /\ Right(r.file) /\ r.file.ok /\ r.file.left \in Nat /\ (r.file.down => s.down) /\ (s.down => r.file.down)
          /\ r.file.pos = x /\ ContentLength(r.file) = x
          /\ BytesOf(r.file) = BytesOf(s) \o Zeros(x - e)
          /\ r.file.pending # <<>> => InChunk(r.file)
      BY <1>4 DEF Grown, e, x
    <3>5. Sound(r.file, z)
      BY <3>3, <3>4, SoundAtEnd
    <3> HIDE DEF z
    <3>6. FullyWritten(r.file, t, z) \/ PartlyWritten(r.file, t, z)
      BY <3>3, <3>4, <3>5, WriteIs DEF z
    <3>7. q = IF t.ret = <<m>> THEN [file |-> t, cur |-> x + m, going |-> TRUE]
              ELSE [r EXCEPT !.file = t, !.going = FALSE]
      <4>1. r.going = TRUE
        BY <1>4 DEF Grown
      <4>2. ~ (~ r.going \/ x >= e + n)
        BY <1>2, <2>1, <2>3, <4>1
      <4> HIDE DEF t, q
      <4> QED BY <1>1, <4>2 DEF x
    <3> HIDE DEF t, q
    <3>8. CASE FullyWritten(r.file, t, z)
      <4>1. t.ok /\ Written(r.file, t, z, m) /\ t.ret = <<m>> /\ (t.pending # <<>> => InChunk(t))
        <5>1. z # <<>>
          BY <3>2, <3>3
        <5> QED BY <3>3, <3>8, <5>1 DEF FullyWritten
      <4>2. q = [file |-> t, cur |-> x + m, going |-> TRUE]
        BY <3>7, <4>1
      <4>3. /\ Right(t) /\ t.left \in Nat /\ t.pos = x + m
            /\ BytesOf(t) = Promise!Over(BytesOf(r.file), x, SubSeq(z, 1, m))
            /\ ContentLength(t) = Bigger(x, x + m)
            /\ (r.file.down => t.down) /\ (t.down => r.file.down \/ ~ t.ok)
        BY <3>4, <4>1 DEF Written
      <4>4. ContentLength(t) = x + m
        BY <2>1, <3>2, <4>3 DEF Bigger
      <4>5. BytesOf(t) = BytesOf(s) \o Zeros((x + m) - e)
        <5>1. SubSeq(z, 1, m) = z
          BY <3>3, WholeSeq
        <5>2. BytesOf(r.file) \in Seq(Byte) /\ Len(BytesOf(r.file)) = x /\ BytesOf(s) \in Seq(Byte)
          BY <3>4, BytesAre
        <5>3. BytesOf(t) = BytesOf(r.file) \o z
          BY <3>3, <4>3, <5>1, <5>2, OverEnd
        <5>4. x - e \in Nat /\ (x - e) + m = (x + m) - e
          BY <1>2, <2>1, <3>2
        <5>5. (BytesOf(s) \o Zeros(x - e)) \o Zeros(m) = BytesOf(s) \o Zeros((x - e) + m)
          BY <3>2, <5>2, <5>4, ZerosAre
        <5> QED BY <3>4, <5>3, <5>4, <5>5 DEF z
      <4>6. q.file = t /\ q.cur = x + m /\ q.going = TRUE /\ "file" \in DOMAIN q /\ "going" \in DOMAIN q
        BY <4>2
      <4>7. x + m \in e .. e + n /\ (x + m >= e + (k + 1) \/ x + m = e + n)
        <5>1. x >= e + k \/ x = e + n
          BY <1>4 DEF Grown, e, x
        <5> QED BY <1>2, <2>1, <2>3, <3>2, <5>1
      <4>8. Grown(s, q, k + 1, n)
        <5>1. t.ok = TRUE
          <6>1. t.ok \in BOOLEAN
            BY <4>3, Fields DEF Right
          <6> QED BY <4>1, <6>1
        <5>2. (t.down => s.down) /\ (s.down => t.down)
          BY <3>4, <4>1, <4>3, Zenon
        <5> QED BY <4>1, <4>3, <4>4, <4>5, <4>6, <4>7, <5>1, <5>2 DEF Grown, e
      <4> QED BY <4>6, <4>8 DEF TurnOk, q, e
    <3>9. CASE PartlyWritten(r.file, t, z)
      <4>1. ~ t.ok /\ \E i \in 0 .. Len(z), told \in 0 .. Len(z) :
                        /\ Written(r.file, t, z, i) /\ t.ret = <<told>>
                        /\ z # <<>> => told < Len(z)
        BY <3>9 DEF PartlyWritten
      <4>2. PICK i \in 0 .. Len(z), told \in 0 .. Len(z) :
                   Written(r.file, t, z, i) /\ t.ret = <<told>> /\ (z # <<>> => told < Len(z))
        BY <4>1
      <4>3. t.ret # <<m>>
        <5>1. told < m
          BY <3>2, <3>3, <4>2
        <5> QED BY <3>2, <3>3, <4>2, <5>1
      <4>4. Right(t) /\ t.down
        BY <4>1, <4>2 DEF Written
      <4>5. Failing(t)
        <5>1. t.down \in BOOLEAN /\ "down" \in DOMAIN t
          BY <4>4, Fields DEF Right, FileState
        <5> QED BY <4>4, <5>1 DEF Failing
      <4>6. q = [r EXCEPT !.file = t, !.going = FALSE]
        BY <3>7, <4>3
      <4>7. q.file = t /\ "file" \in DOMAIN q /\ "going" \in DOMAIN q
        BY <4>6 DEF TurnOk
      <4> QED BY <4>5, <4>7 DEF TurnOk, q, e
    <3> QED BY <3>6, <3>8, <3>9
  <2> QED BY <1>2, <2>1, <2>2, <2>3
<1> QED BY <1>3, <1>4 DEF TurnOk

\* The turns of an expand.
ExpandRun(f, c, size, n) == f = [k \in 0 .. n |-> IF k = 0 THEN c ELSE ExpandTurn(f[k - 1], size)]

\* There is a sequence of turns as Expand() takes them.
LEMMA ExpandTurns ==
  ASSUME NEW c, NEW size, NEW n \in Nat
  PROVE  \E f : ExpandRun(f, c, size, n)
<1> DEFINE D(f, m) == f = [k \in 0 .. m |-> IF k = 0 THEN c ELSE ExpandTurn(f[k - 1], size)]
           S == {m \in Nat : \E f : D(f, m)}
<1>1. 0 \in S
  <2>1. D([k \in 0 .. 0 |-> c], 0)
    OBVIOUS
  <2> QED BY <2>1
<1>2. ASSUME NEW m \in Nat, m \in S PROVE m + 1 \in S
  <2>1. PICK f : D(f, m)
    BY <1>2
  <2> DEFINE g == [k \in 0 .. m + 1 |-> IF k = m + 1 THEN ExpandTurn(f[m], size) ELSE f[k]]
  <2>2. \A k \in 0 .. m : f[k] = IF k = 0 THEN c ELSE ExpandTurn(f[k - 1], size)
    BY <2>1
  <2>3. ASSUME NEW k \in 0 .. m + 1 PROVE g[k] = IF k = 0 THEN c ELSE ExpandTurn(g[k - 1], size)
    <3>1. CASE k = m + 1
      <4>1. k # 0 /\ k - 1 = m /\ m \in 0 .. m + 1 /\ m # m + 1
        BY <3>1
      <4>2. g[k] = ExpandTurn(f[m], size) /\ g[m] = f[m]
        BY <3>1, <4>1
      <4> QED BY <4>1, <4>2
    <3>2. CASE k # m + 1
      <4>1. k \in 0 .. m /\ g[k] = f[k]
        BY <3>2
      <4>2. k # 0 => k - 1 \in 0 .. m + 1 /\ k - 1 # m + 1 /\ g[k - 1] = f[k - 1]
        BY <4>1
      <4> QED BY <2>2, <4>1, <4>2
    <3> QED BY <3>1, <3>2
  <2>4. g = [k \in 0 .. m + 1 |-> g[k]]
    OBVIOUS
  <2> HIDE DEF g
  <2>5. D(g, m + 1)
    BY <2>3, <2>4
  <2> HIDE DEF D
  <2> QED BY <2>5
<1>3. \A m \in Nat : m \in S => m + 1 \in S
  BY <1>2
<1> HIDE DEF S
<1>4. n \in S
  BY <1>1, <1>3, InductionOn, Zenon
<1>5. PICK f : D(f, n)
  BY <1>4 DEF S
<1> QED BY <1>5 DEF ExpandRun

\* What an expand by n bytes promises.
Expanded(s, t, n) ==
  /\ Right(t) /\ (t.down => s.down) /\ t.pos = ContentLength(s) + n /\ t.ret = <<t.pos>>
  /\ ContentLength(t) = t.pos
  /\ BytesOf(t) = BytesOf(s) \o Zeros(n)

\* An expand adds its zeros, or a request was not answered.
LEMMA ExpandIs ==
  ASSUME NEW s, Right(s), s.ok, s.left \in Nat, NEW n \in Nat, NEW t, t = Expand(s, n)
  PROVE  t.down = TRUE \/ Expanded(s, t, n)
<1> DEFINE e == ContentLength(s)
           a == Seek(s, e)
           b == [a EXCEPT !.ok = TRUE]
           c == [file |-> b, cur |-> e, going |-> TRUE]
           D(f) == f = [k \in 0 .. n |-> IF k = 0 THEN c ELSE ExpandTurn(f[k - 1], e + n)]
           turn == CHOOSE f : D(f)
           r == turn[n]
<1>1. t = [r.file EXCEPT !.ret = <<r.cur>>]
  BY Zenon DEF Expand
<1>2. D(turn)
  <2> HIDE DEF c, e
  <2> DEFINE size == e + n
  <2> HIDE DEF size
  <2>1. PICK f : ExpandRun(f, c, size, n)
    BY ExpandTurns
  <2>2. D(f)
    BY <2>1 DEF ExpandRun, size
  <2> HIDE DEF D
  <2> QED BY <2>2, Zenon
<1>3. e \in Nat
  BY LengthIs DEF Right
<1>4. /\ Right(a) /\ BytesOf(a) = BytesOf(s) /\ ContentLength(a) = e
      /\ a.left \in Nat /\ (SeekDone(s, a, e) \/ SeekFailed(s, a))
  <2> HIDE DEF e
  <2> QED BY <1>3, SeekIs DEF e
<1>5. a \in FileState
  BY <1>4 DEF Right
<1>6. TurnOk(s, c, 0, n)
  <2> HIDE DEF a, e
  <2>0. "file" \in DOMAIN c /\ "going" \in DOMAIN c /\ c.file = b /\ c.cur = e /\ c.going = TRUE
    OBVIOUS
  <2>1. /\ SameFile(a, b) /\ b.ok = TRUE /\ b.left = a.left /\ b.down = a.down /\ "down" \in DOMAIN b
    BY <1>5 DEF SameFile, FileState
  <2> HIDE DEF b
  <2>2. Right(b) /\ BytesOf(b) = BytesOf(a) /\ ContentLength(b) = ContentLength(a)
    BY <1>4, <2>1, SameFileKeeps
  <2>3. CASE SeekFailed(s, a)
    <3>1. a.down /\ a.down \in BOOLEAN
      BY <1>5, <2>3, Fields DEF SeekFailed
    <3>2. Failing(b)
      BY <2>1, <3>1 DEF Failing
    <3> HIDE DEF c
    <3> QED BY <2>0, <3>2 DEF TurnOk
  <2>4. CASE SeekDone(s, a, e)
    <3>1. Smaller(e, e) = e
      BY <1>3 DEF Smaller
    <3>2. a.pos = e /\ a.down = s.down /\ (a.pending # <<>> => a.chunkNum = e \div CS)
      BY <2>4, <3>1 DEF SeekDone, e
    <3>3. b.pos = e /\ ContentLength(b) = e /\ BytesOf(b) = BytesOf(s) /\ b.left \in Nat /\ b.ok = TRUE
          /\ b.pending = a.pending /\ b.chunkNum = a.chunkNum
      BY <1>4, <2>1, <2>2, <3>2 DEF SameFile
    <3>4. BytesOf(s) = BytesOf(s) \o Zeros(e - e)
      <4>1. e - e = 0 /\ 0 \in Nat
        BY <1>3
      <4>2. Zeros(0) = <<>>
        BY DEF Zeros
      <4>3. BytesOf(s) \in Seq(Byte)
        BY BytesAre
      <4> QED BY <4>1, <4>2, <4>3
    <3>5. b.pending # <<>> => InChunk(b)
      <4>1. SUFFICES ASSUME b.pending # <<>> PROVE InChunk(b)
        OBVIOUS
      <4> DEFINE x == e \div CS
                 o == e % CS
      <4>2. b.chunkNum = x /\ x \in Nat /\ o \in Nat /\ o < CS /\ e = Base(x) + o
        BY <1>3, <3>2, <3>3, <4>1, Places
      <4>3. Base(x) \in Nat /\ CS \in Nat
        BY <4>2, BaseFacts, SizeIs
      <4> HIDE DEF x, o
      <4>4. o # 0
        <5>1. /\ ContentLength(b) = Bigger(b.length, Base(b.chunkNum) + Len(b.pending))
              /\ Len(b.pending) \in Nat /\ Len(b.pending) > 0 /\ b.length \in Nat
          BY <2>2, <4>1, LengthIs, Fields DEF Right
        <5> QED BY <3>3, <4>2, <4>3, <5>1 DEF Bigger
      <4> QED BY <3>3, <4>2, <4>3, <4>4 DEF InChunk
    <3>6. e \in e .. e + n /\ e >= e + 0
      BY <1>3
    <3>7. (b.down => s.down) /\ (s.down => b.down)
      BY <2>1, <3>2
    <3> HIDE DEF c
    <3>8. Grown(s, c, 0, n)
      BY <2>0, <2>2, <3>3, <3>4, <3>5, <3>6, <3>7 DEF Grown, e
    <3> QED BY <2>0, <3>8 DEF TurnOk
  <2> QED BY <1>4, <2>3, <2>4
<1> HIDE DEF turn, c
<1>7. \A k \in 0 .. n : turn[k] = IF k = 0 THEN c ELSE ExpandTurn(turn[k - 1], e + n)
  <2> HIDE DEF e
  <2> QED BY <1>2
<1>8. TurnOk(s, turn[n], n, n)
  <2> DEFINE S == {k \in Nat : k <= n => TurnOk(s, turn[k], k, n)}
  <2>1. 0 \in S
    <3>1. turn[0] = c
      BY <1>7
    <3> QED BY <1>6, <3>1
  <2>2. ASSUME NEW k \in Nat, k \in S PROVE k + 1 \in S
    <3>1. SUFFICES ASSUME k + 1 <= n PROVE TurnOk(s, turn[k + 1], k + 1, n)
      OBVIOUS
    <3>2. k + 1 \in 0 .. n /\ k + 1 # 0 /\ (k + 1) - 1 = k /\ k <= n
      BY <3>1
    <3>3. turn[k + 1] = ExpandTurn(turn[k], e + n)
      <4> HIDE DEF e
      <4> QED BY <1>7, <3>2
    <3>4. TurnOk(s, turn[k], k, n)
      BY <2>2, <3>2
    <3> QED BY <3>3, <3>4, ExpandTurnIs
  <2>3. \A k \in Nat : k \in S => k + 1 \in S
    BY <2>2
  <2> HIDE DEF S
  <2>4. n \in S
    BY <2>1, <2>3, InductionOn, Zenon
  <2> QED BY <2>4 DEF S
<1> HIDE DEF r, e
<1>9. CASE Failing(r.file)
  BY <1>1, <1>9 DEF Failing
<1>10. CASE Grown(s, r, n, n)
  <2>1. r.cur = e + n
    BY <1>3, <1>10 DEF Grown, e
  <2> DEFINE f == r.file
  <2>2. /\ Right(f) /\ (f.down => s.down) /\ f.pos = e + n /\ ContentLength(f) = e + n
        /\ BytesOf(f) = BytesOf(s) \o Zeros(n)
    <3>1. (e + n) - e = n
      BY <1>3
    <3> QED BY <1>10, <2>1, <3>1 DEF Grown, e
  <2> HIDE DEF f
  <2> DEFINE x == <<e + n>>
  <2>3. t = [f EXCEPT !.ret = x] /\ f \in FileState
    BY <1>1, <2>1, <2>2 DEF f, Right
  <2>4. x \in Seq(Byte \cup Nat)
    BY <1>3
  <2>5. t.ret = x /\ t.down = f.down /\ SameFile(f, t)
    <3> HIDE DEF x
    <3> QED BY <2>3, <2>4 DEF SameFile, FileState
  <2>6. Right(t) /\ BytesOf(t) = BytesOf(f) /\ ContentLength(t) = ContentLength(f)
    BY <2>2, <2>5, SameFileKeeps
  <2>7. t.pos = f.pos
    BY <2>5 DEF SameFile
  <2> QED BY <2>2, <2>5, <2>6, <2>7 DEF Expanded, e
<1> QED BY <1>8, <1>9, <1>10 DEF TurnOk, r

-----------------------------------------------------------------------------
(* gridfile_read_buffer *)

\* The turns of gridfile_get_chunks.
ChunkRun(f, chunks, first, n) ==
  f = [k \in 0 .. n |-> IF k = 0 THEN [next |-> first, bytes |-> <<>>] ELSE ChunkTurn(chunks, f[k - 1])]

\* There is a sequence of turns as FromChunks() takes them.
LEMMA ChunkTurns ==
  ASSUME NEW chunks, NEW first, NEW n \in Nat
  PROVE  \E f : ChunkRun(f, chunks, first, n)
<1> DEFINE c == [next |-> first, bytes |-> <<>>]
           D(f, m) == f = [k \in 0 .. m |-> IF k = 0 THEN c ELSE ChunkTurn(chunks, f[k - 1])]
           S == {m \in Nat : \E f : D(f, m)}
<1> HIDE DEF c
<1>1. 0 \in S
  <2>1. D([k \in 0 .. 0 |-> c], 0)
    OBVIOUS
  <2> QED BY <2>1
<1>2. ASSUME NEW m \in Nat, m \in S PROVE m + 1 \in S
  <2>1. PICK f : D(f, m)
    BY <1>2
  <2> DEFINE g == [k \in 0 .. m + 1 |-> IF k = m + 1 THEN ChunkTurn(chunks, f[m]) ELSE f[k]]
  <2>2. \A k \in 0 .. m : f[k] = IF k = 0 THEN c ELSE ChunkTurn(chunks, f[k - 1])
    BY <2>1
  <2>3. ASSUME NEW k \in 0 .. m + 1 PROVE g[k] = IF k = 0 THEN c ELSE ChunkTurn(chunks, g[k - 1])
    <3>1. CASE k = m + 1
      <4>1. k # 0 /\ k - 1 = m /\ m \in 0 .. m + 1 /\ m # m + 1
        BY <3>1
      <4>2. g[k] = ChunkTurn(chunks, f[m]) /\ g[m] = f[m]
        BY <3>1, <4>1
      <4> QED BY <4>1, <4>2
    <3>2. CASE k # m + 1
      <4>1. k \in 0 .. m /\ g[k] = f[k]
        BY <3>2
      <4>2. k # 0 => k - 1 \in 0 .. m + 1 /\ k - 1 # m + 1 /\ g[k - 1] = f[k - 1]
        BY <4>1
      <4> QED BY <2>2, <4>1, <4>2
    <3> QED BY <3>1, <3>2
  <2>4. g = [k \in 0 .. m + 1 |-> g[k]]
    OBVIOUS
  <2> HIDE DEF g
  <2>5. D(g, m + 1)
    BY <2>3, <2>4
  <2> HIDE DEF D
  <2> QED BY <2>5
<1>3. \A m \in Nat : m \in S => m + 1 \in S
  BY <1>2
<1> HIDE DEF S
<1>4. n \in S
  BY <1>1, <1>3, InductionOn, Zenon
<1>5. PICK f : D(f, n)
  BY <1>4 DEF S
<1> QED BY <1>5 DEF ChunkRun, c

\* The bytes of k chunks from the chunk first on, as far as the server has them.
Gathered(s, first, k, b) ==
  /\ b \in Seq(Byte) /\ Len(b) = Smaller(Base(first + k), s.length) - Base(first)
  /\ \A x \in Nat : Base(first) <= x /\ x < Smaller(Base(first + k), s.length) =>
                      b[x - Base(first) + 1] = s.chunks[x \div CS][(x % CS) + 1]

\* A turn takes the next chunk.
LEMMA ChunkTurnIs ==
  ASSUME NEW s, Right(s), NEW first \in Nat, NEW k \in Nat, Base(first + k) < s.length,
         NEW r, r.next = first + k, Gathered(s, first, k, r.bytes)
  PROVE  /\ ChunkTurn(s.chunks, r).next = first + (k + 1)
         /\ Gathered(s, first, k + 1, ChunkTurn(s.chunks, r).bytes)
<1> DEFINE c == first + k
           more == {i \in DOMAIN s.chunks : i >= r.next}
           i == CHOOSE i \in more : \A j \in more : i <= j
           a == r.bytes
           p == s.chunks[c]
           b == a \o p
<1>1. /\ s.chunks \in ChunkMaps /\ s.length \in Nat /\ c \in Nat /\ c + 1 = first + (k + 1)
      /\ DOMAIN s.chunks = {j \in Nat : Base(j) < s.length}
      /\ \A j \in DOMAIN s.chunks : Len(s.chunks[j]) = Smaller(CS, s.length - Base(j))
  BY Fields DEF Right, Whole
<1>2. c \in DOMAIN s.chunks
  BY <1>1
<1>3. p \in Seq(Byte) /\ Len(p) = Smaller(CS, s.length - Base(c))
  BY <1>1, <1>2, ChunkMap
<1>4. i = c /\ more # {}
  <2>1. c \in more /\ \A j \in more : c <= j
    BY <1>1, <1>2
  <2>2. \A j \in more : j \in Nat
    BY <1>1
  <2> HIDE DEF more
  <2>3. i \in more /\ \A j \in more : i <= j
    BY <2>1
  <2>4. i \in Nat /\ c \in Nat /\ i <= c /\ c <= i
    BY <1>1, <2>1, <2>2, <2>3
  <2> HIDE DEF i, c
  <2> QED BY <2>1, <2>4
<1>5. ChunkTurn(s.chunks, r) = [next |-> c + 1, bytes |-> b]
  <2>1. ChunkTurn(s.chunks, r) = IF more = {} THEN r ELSE [next |-> i + 1, bytes |-> r.bytes \o s.chunks[i]]
    BY DEF ChunkTurn
  <2> HIDE DEF more, i
  <2> QED BY <1>4, <2>1
<1>6. /\ Base(first) \in Nat /\ Base(c) \in Nat /\ Base(c + 1) = Base(c) + CS /\ CS \in Nat /\ CS > 0
      /\ Base(first) <= Base(c)
  <2>1. Base(first) \in Nat /\ Base(c) \in Nat /\ Base(c + 1) = Base(c) + CS
    BY <1>1, BaseFacts
  <2>2. Base(first) <= Base(c)
    BY <1>1, BaseOrder
  <2> QED BY <2>1, <2>2, SizeIs
<1> DEFINE f == Base(first)
           u == Base(c)
           w == Smaller(u + CS, s.length)
<1>7. Smaller(u, s.length) = u /\ w \in Nat /\ u <= w /\ w <= u + CS /\ w - u = Len(p)
  <2> HIDE DEF c, p
  <2> QED BY <1>1, <1>3, <1>6 DEF Smaller, c
<1>8. /\ a \in Seq(Byte) /\ Len(a) = u - f
      /\ \A x \in Nat : f <= x /\ x < u => a[x - f + 1] = s.chunks[x \div CS][(x % CS) + 1]
  <2>1. Smaller(Base(first + k), s.length) = u
    BY <1>7
  <2> QED BY <2>1 DEF Gathered
<1>9. Joined(b, a, p)
  <2> HIDE DEF a, p
  <2> QED BY <1>3, <1>8, JoinedIs
<1> HIDE DEF a, b
<1>10. b \in Seq(Byte) /\ Len(b) = w - f
  <2> HIDE DEF p, u, f, w
  <2>1. b \in Seq(Byte) /\ Len(b) = Len(a) + Len(p)
    BY <1>9 DEF Joined
  <2>2. w \in Nat /\ u \in Nat /\ f \in Nat
    BY <1>6, <1>7 DEF u, f
  <2> QED BY <1>7, <1>8, <2>1, <2>2
<1>11. ASSUME NEW x \in Nat, f <= x, x < w PROVE b[x - f + 1] = s.chunks[x \div CS][(x % CS) + 1]
  <2>0. w \in Nat /\ u \in Nat /\ f \in Nat /\ f <= u /\ Len(a) = u - f /\ Len(p) = w - u /\ w <= u + CS
    BY <1>6, <1>7, <1>8
  <2>1. /\ \A y \in 1 .. Len(a) : b[y] = a[y]
        /\ \A y \in 1 .. Len(p) : b[Len(a) + y] = p[y]
    <3> HIDE DEF w, u, f, p
    <3>1. Len(a) \in Nat /\ Len(p) \in Nat
      BY <2>0
    <3>2. ASSUME NEW y \in 1 .. Len(a) PROVE b[y] = a[y]
      BY <1>9, <3>1 DEF Joined
    <3>3. ASSUME NEW y \in 1 .. Len(p) PROVE b[Len(a) + y] = p[y]
      <4> DEFINE z == Len(a) + y
      <4>1. z \in 1 .. Len(a) + Len(p) /\ ~ (z <= Len(a)) /\ z - Len(a) = y
        BY <3>1
      <4> HIDE DEF z
      <4>2. b[z] = p[y]
        BY <1>9, <4>1 DEF Joined
      <4> QED BY <4>2 DEF z
    <3> QED BY <3>2, <3>3
  <2>2. CASE x < u
    <3> HIDE DEF w, u, f, p
    <3>1. x - f + 1 \in 1 .. Len(a)
      BY <1>11, <2>0, <2>2
    <3> QED BY <1>8, <1>11, <2>1, <2>2, <3>1
  <2>3. CASE x >= u
    <3> DEFINE o == x - u
    <3>1. o \in Nat /\ o < CS /\ x = u + o /\ o + 1 \in 1 .. Len(p) /\ x - f + 1 = Len(a) + (o + 1)
      <4> HIDE DEF w, u, f, p
      <4> QED BY <1>6, <1>11, <2>0, <2>3
    <3> HIDE DEF o
    <3>2. x \div CS = c /\ x % CS = o
      BY <1>1, <3>1, PlaceOf
    <3>3. b[x - f + 1] = p[o + 1]
      <4> HIDE DEF w, u, f, p
      <4> QED BY <2>1, <3>1
    <3> QED BY <3>2, <3>3
  <2> QED BY <2>0, <2>2, <2>3
<1>12. Gathered(s, first, k + 1, b)
  <2>1. Smaller(Base(first + (k + 1)), s.length) = w
    BY <1>1, <1>6
  <2> HIDE DEF w
  <2> QED BY <1>10, <1>11, <2>1 DEF Gathered
<1> QED BY <1>1, <1>5, <1>12

\* What the turns of gridfile_get_chunks gather, when the last of the chunks is there.
LEMMA GatheredIs ==
  ASSUME NEW s, Right(s), NEW first \in Nat, NEW n \in Nat, Base(first) <= s.length,
         \A k \in Nat : k < n => Base(first + k) < s.length,
         NEW f, ChunkRun(f, s.chunks, first, n)
  PROVE  Gathered(s, first, n, f[n].bytes)
<1> DEFINE c == [next |-> first, bytes |-> <<>>]
           P(k) == f[k].next = first + k /\ Gathered(s, first, k, f[k].bytes)
           S == {k \in Nat : k <= n => P(k)}
<1>1. \A k \in 0 .. n : f[k] = IF k = 0 THEN c ELSE ChunkTurn(s.chunks, f[k - 1])
  BY DEF ChunkRun
<1>2. 0 \in S
  <2>1. f[0] = c
    BY <1>1
  <2>2. f[0].next = first + 0 /\ f[0].bytes = <<>> /\ first + 0 = first
    BY <2>1
  <2>3. s.length \in Nat /\ Base(first) \in Nat
    BY BaseFacts, Fields DEF Right
  <2>4. Smaller(Base(first), s.length) = Base(first)
    BY <2>3 DEF Smaller
  <2>5. <<>> \in Seq(Byte) /\ Len(<<>>) = 0
    OBVIOUS
  <2>6. Gathered(s, first, 0, f[0].bytes)
    BY <2>2, <2>3, <2>4, <2>5 DEF Gathered
  <2> QED BY <2>2, <2>6
<1>3. ASSUME NEW k \in Nat, k \in S PROVE k + 1 \in S
  <2>1. SUFFICES ASSUME k + 1 <= n PROVE P(k + 1)
    OBVIOUS
  <2>2. P(k) /\ k < n
    BY <1>3, <2>1
  <2>3. f[k + 1] = ChunkTurn(s.chunks, f[k])
    <3>1. k + 1 \in 0 .. n /\ k + 1 # 0 /\ (k + 1) - 1 = k
      BY <2>1
    <3> QED BY <1>1, <3>1
  <2>4. Base(first + k) < s.length
    BY <2>2
  <2> QED BY <2>2, <2>3, <2>4, ChunkTurnIs
<1>4. \A k \in Nat : k \in S => k + 1 \in S
  BY <1>3
<1> HIDE DEF S
<1>5. n \in S
  BY <1>2, <1>4, InductionOn, Zenon
<1> QED BY <1>5 DEF S

\* What is read from the chunks of the server, from the position on.
ReadHere(s, size) == FromChunks(s, s.pos \div CS, ((s.pos + size - 1) \div CS) - (s.pos \div CS) + 1, size)
\* The pending chunk, if there is one, is before the position.
Behind(s) == s.pending = <<>> \/ s.chunkNum < s.pos \div CS

\* gridfile_load_from_chunks finds every byte of the server's chunks in its place.
LEMMA FromChunksIs ==
  ASSUME NEW s, Right(s), NEW size \in Nat, size > 0, s.pos + size <= s.length, Behind(s)
  PROVE  ReadHere(s, size) = SubSeq(BytesOf(s), s.pos + 1, s.pos + size)
<1> DEFINE pos == s.pos
           first == pos \div CS
           o == pos % CS
           y == pos + size - 1
           last == y \div CS
           n == last - first + 1
           c == [next |-> first, bytes |-> <<>>]
           f == CHOOSE f : f = [k \in 0 .. n |-> IF k = 0 THEN c ELSE ChunkTurn(s.chunks, f[k - 1])]
           b == f[n].bytes
           r == Slice(b, o + 1, o + size)
           t == SubSeq(BytesOf(s), pos + 1, pos + size)
<1>0. ReadHere(s, size) = r
  BY Zenon DEF ReadHere, FromChunks
<1>1. /\ pos \in Nat /\ s.length \in Nat /\ y \in Nat /\ y < s.length
      /\ first \in Nat /\ o \in Nat /\ o < CS /\ pos = Base(first) + o /\ Base(first) \in Nat
  <2>1. pos \in Nat /\ s.length \in Nat
    BY Fields DEF Right
  <2>2. first \in Nat /\ o \in Nat /\ o < CS /\ pos = Base(first) + o
    BY <2>1, Places
  <2>3. Base(first) \in Nat
    BY <2>2, BaseFacts
  <2> HIDE DEF pos, first, o
  <2> QED BY <2>1, <2>2, <2>3 DEF pos
<1> HIDE DEF first, o
<1>2. last \in Nat /\ Base(last) <= y /\ y < Base(last) + CS /\ Base(last) \in Nat /\ CS \in Nat
  <2> DEFINE q == y % CS
  <2> HIDE DEF y
  <2>1. last \in Nat /\ q \in Nat /\ q < CS /\ y = Base(last) + q
    BY <1>1, Places
  <2>2. Base(last) \in Nat
    BY <2>1, BaseFacts
  <2> HIDE DEF last, q
  <2> QED BY <1>1, <2>1, <2>2, SizeIs
<1>3. first <= last
  <2>1. last < first => Base(last) + CS <= Base(first)
    BY <1>1, <1>2, BaseOrder
  <2> HIDE DEF last
  <2> QED BY <1>1, <1>2, <2>1
<1>4. n \in Nat /\ n > 0 /\ first + n = last + 1 /\ \A k \in Nat : k < n => first + k <= last
  <2> HIDE DEF last
  <2> QED BY <1>1, <1>2, <1>3
<1> HIDE DEF y, last, n
<1>5. \A k \in Nat : k < n => Base(first + k) < s.length
  <2>1. ASSUME NEW k \in Nat, k < n PROVE Base(first + k) < s.length
    <3>1. first + k \in Nat /\ first + k <= last
      BY <1>1, <1>4, <2>1
    <3>2. Base(first + k) <= Base(last) /\ Base(first + k) \in Nat
      BY <1>2, <3>1, BaseOrder, BaseFacts
    <3> QED BY <1>1, <1>2, <3>2
  <2> QED BY <2>1
<1>6. ChunkRun(f, s.chunks, first, n)
  <2>1. PICK run : ChunkRun(run, s.chunks, first, n)
    BY <1>4, ChunkTurns
  <2>2. \E g : g = [k \in 0 .. n |-> IF k = 0 THEN c ELSE ChunkTurn(s.chunks, g[k - 1])]
    BY <2>1, Zenon DEF ChunkRun
  <2> HIDE DEF c
  <2>3. f = [k \in 0 .. n |-> IF k = 0 THEN c ELSE ChunkTurn(s.chunks, f[k - 1])]
    BY <2>2, Zenon
  <2> QED BY <2>3, Zenon DEF ChunkRun, c
<1> HIDE DEF f
<1>7. Gathered(s, first, n, b)
  <2>1. Base(first) <= s.length
    BY <1>1
  <2> QED BY <1>1, <1>4, <1>5, <1>6, <2>1, GatheredIs
<1> DEFINE u == Smaller(Base(first + n), s.length)
<1>8. u \in Nat /\ pos + size <= u
  <2>1. Base(first + n) = Base(last) + CS
    BY <1>2, <1>4, BaseFacts
  <2>2. pos + size = y + 1
    BY <1>1 DEF y
  <2> QED BY <1>1, <1>2, <2>1, <2>2 DEF Smaller
<1>9. /\ b \in Seq(Byte) /\ Len(b) = u - Base(first)
      /\ \A x \in Nat : Base(first) <= x /\ x < u => b[x - Base(first) + 1] = s.chunks[x \div CS][(x % CS) + 1]
  BY <1>7 DEF Gathered
<1> HIDE DEF b, u
<1>10. r = SubSeq(b, o + 1, o + size) /\ o + size <= Len(b)
  <2>1. Len(b) \in Nat /\ o + size <= Len(b)
    BY <1>1, <1>8, <1>9
  <2>2. Smaller(o + size, Len(b)) = o + size
    BY <1>1, <2>1 DEF Smaller
  <2> QED BY <2>1, <2>2 DEF Slice
<1> HIDE DEF r
<1>11. IsPart(r, b, o, size)
  <2>1. o + size <= Len(b) /\ o \in 0 .. Len(b) /\ size \in Nat
    BY <1>1, <1>8, <1>9, <1>10
  <2>2. IsPart(SubSeq(b, o + 1, o + size), b, o, size)
    BY <1>1, <1>9, <2>1, PartOf
  <2> QED BY <1>10, <2>2, Zenon
<1>12. IsPart(t, BytesOf(s), pos, size) /\ s.pos + size <= ContentLength(s) /\ ContentLength(s) \in Nat
  <2>1. BytesOf(s) \in Seq(Byte) /\ Len(BytesOf(s)) = ContentLength(s)
    BY BytesAre
  <2>2. ContentLength(s) \in Nat /\ s.length <= ContentLength(s)
    <3>1. s \in FileState
      BY DEF Right
    <3>2. /\ ContentLength(s) \in Nat
          /\ s.pending = <<>> => ContentLength(s) = s.length
          /\ s.pending # <<>> => ContentLength(s) = Bigger(s.length, Base(s.chunkNum) + Len(s.pending))
      BY <3>1, LengthIs
    <3>3. s.length \in Nat /\ Base(s.chunkNum) + Len(s.pending) \in Nat
      <4>1. s.chunkNum \in Nat /\ Len(s.pending) \in Nat /\ s.length \in Nat
        BY <3>1, Fields
      <4>2. Base(s.chunkNum) \in Nat
        BY <4>1, BaseFacts
      <4> QED BY <4>1, <4>2
    <3> QED BY <3>2, <3>3 DEF Bigger
  <2>3. pos + size <= Len(BytesOf(s)) /\ pos \in 0 .. Len(BytesOf(s))
    BY <1>1, <2>1, <2>2
  <2> QED BY <2>1, <2>2, <2>3, PartOf
<1> HIDE DEF t
<1>13. ASSUME NEW i \in 1 .. size PROVE r[i] = t[i]
  <2> DEFINE x == pos + i - 1
             d == x \div CS
             e == (x % CS) + 1
  <2>1. /\ x \in Nat /\ Base(first) <= x /\ x < u /\ x - Base(first) + 1 = o + i /\ x + 1 = pos + i
        /\ x < ContentLength(s) /\ pos <= x
    <3>1. pos + size <= ContentLength(s) /\ ContentLength(s) \in Nat
      BY <1>12
    <3> DEFINE a == Base(first)
    <3>2. a \in Nat /\ pos = a + o /\ o \in Nat /\ pos \in Nat /\ u \in Nat /\ pos + size <= u
      BY <1>1, <1>8
    <3> HIDE DEF a, pos
    <3> QED BY <3>1, <3>2, <1>13 DEF a
  <2>2. r[i] = b[o + i] /\ t[i] = BytesOf(s)[pos + i]
    BY <1>11, <1>12 DEF IsPart
  <2> HIDE DEF x
  <2>3. b[o + i] = s.chunks[d][e]
    <3>1. b[x - Base(first) + 1] = s.chunks[d][e]
      BY <1>9, <2>1
    <3> QED BY <2>1, <3>1
  <2>4. BytesOf(s)[pos + i] = Piece(s, d)[e]
    <3>1. BytesOf(s)[x + 1] = Piece(s, d)[e]
      BY <2>1, BytesAre
    <3> QED BY <2>1, <3>1
  <2>5. d \in Nat /\ (s.pending = <<>> \/ s.chunkNum < d)
    <3> DEFINE q == x % CS
    <3>1. d \in Nat /\ x = Base(d) + q /\ q \in Nat /\ q < CS
      BY <2>1, Places
    <3>2. Base(d) \in Nat
      BY <3>1, BaseFacts
    <3> HIDE DEF d, q
    <3>3. d < first => Base(d) + CS <= Base(first)
      BY <1>1, <3>1, BaseOrder
    <3>4. first <= d
      BY <1>1, <1>2, <2>1, <3>1, <3>2, <3>3
    <3>5. s.pending = <<>> \/ s.chunkNum < first
      BY DEF Behind, first
    <3>6. s.chunkNum \in Nat
      BY Fields DEF Right
    <3> QED BY <1>1, <3>1, <3>4, <3>5, <3>6
  <2>6. Piece(s, d) = s.chunks[d]
    <3>1. s.chunkNum \in Nat
      BY Fields DEF Right
    <3> HIDE DEF d
    <3> QED BY <2>5, <3>1 DEF Piece
  <2> QED BY <2>2, <2>3, <2>4, <2>6
<1>14. r \in Seq(Byte) /\ t \in Seq(Byte) /\ Len(r) = size /\ Len(t) = size
  BY <1>11, <1>12 DEF IsPart
<1>15. r = t
  BY <1>13, <1>14, SeqEqual
<1> QED BY <1>0, <1>15 DEF t

\* What a read of m bytes promises.
ReadDone(s, t, m) ==
  /\ Right(t) /\ BytesOf(t) = BytesOf(s) /\ ContentLength(t) = ContentLength(s)
  /\ t.pos = s.pos + m /\ t.ret = s.ret \o SubSeq(BytesOf(s), s.pos + 1, s.pos + m)
  /\ t.chunkNum = s.chunkNum /\ t.pending = s.pending /\ t.ok = s.ok

\* Every step of the call before this one succeeded.
Going(s) == s.ok = TRUE

\* The program ended in a read that was not answered.
Ended(t) == ~ t.ok /\ t.down = TRUE

\* The caller gets bytes, and the position moves behind them.
LEMMA GotIs ==
  ASSUME NEW s, Right(s), NEW m \in Nat, s.pos + m <= ContentLength(s), NEW b,
         b = SubSeq(BytesOf(s), s.pos + 1, s.pos + m), NEW t, t = Got(s, b)
  PROVE  ReadDone(s, t, m)
<1>1. s.pos \in Nat /\ s.ret \in Seq(Byte \cup Nat) /\ ContentLength(s) \in Nat /\ s \in FileState
  BY Fields, LengthIs DEF Right
<1>2. b \in Seq(Byte) /\ Len(b) = m
  <2>1. BytesOf(s) \in Seq(Byte) /\ Len(BytesOf(s)) = ContentLength(s)
    BY BytesAre
  <2>2. IsPart(SubSeq(BytesOf(s), s.pos + 1, s.pos + m), BytesOf(s), s.pos, m)
    BY <1>1, <2>1, PartOf
  <2>3. IsPart(b, BytesOf(s), s.pos, m)
    BY <2>2, Zenon
  <2> QED BY <2>3 DEF IsPart
<1> DEFINE o == s.pos + m
           r == s.ret \o b
<1>3. t = [s EXCEPT !.pos = o, !.ret = r]
  BY <1>1, <1>2 DEF Got, FileState
<1>4. r \in Seq(Byte \cup Nat)
  <2>1. b \in Seq(Byte \cup Nat)
    BY <1>2
  <2> QED BY <1>1, <2>1
<1>5. o \in Nat /\ o <= ContentLength(s) /\ (s.pending # <<>> => Base(s.chunkNum) <= o)
  <2>1. s.pending # <<>> => Base(s.chunkNum) <= s.pos
    BY DEF Right, PendingRight
  <2>2. Base(s.chunkNum) \in Nat
    <3>1. s.chunkNum \in Nat
      BY <1>1, Fields
    <3> QED BY <3>1, BaseFacts
  <2> QED BY <1>1, <2>1, <2>2
<1> HIDE DEF o, r
<1>6. MovedTo(s, t, o, r)
  <2>1. MoveOf(s, o, r, t)
    BY <1>3, <1>4, <1>5 DEF MoveOf
  <2> QED BY <2>1, MovesIs
<1>7. ReadDone(s, t, m)
  BY <1>6 DEF MovedTo, ReadDone, o, r
<1> QED BY <1>7

\* Nothing is read behind the end of a file.
LEMMA SliceOfNothing ==
  ASSUME NEW q \in Seq(Byte), NEW x \in Nat
  PROVE  Slice(q, x + 1, x + 0) = <<>>
<1>1. Len(q) \in Nat /\ Smaller(x + 0, Len(q)) \in Nat /\ Smaller(x + 0, Len(q)) < x + 1
  <2>1. Len(q) \in Nat
    BY LenProperties
  <2> QED BY <2>1 DEF Smaller
<1> DEFINE y == Smaller(x + 0, Len(q))
<1> HIDE DEF y
<1>2. SubSeq(q, x + 1, y) = <<>>
  BY <1>1 DEF y
<1> QED BY <1>2 DEF Slice, y

\* A turn appends bytes.
LEMMA TurnIsBytes ==
  ASSUME NEW chunks \in ChunkMaps, NEW r, r.bytes \in Seq(Byte)
  PROVE  ChunkTurn(chunks, r).bytes \in Seq(Byte)
<1> DEFINE more == {i \in DOMAIN chunks : i >= r.next}
           i == CHOOSE i \in more : \A j \in more : i <= j
           a == r.bytes
<1>1. ChunkTurn(chunks, r) = IF more = {} THEN r ELSE [next |-> i + 1, bytes |-> a \o chunks[i]]
  BY DEF ChunkTurn
<1>2. CASE more = {}
  <2> HIDE DEF more, i
  <2> QED BY <1>1, <1>2
<1>3. CASE more # {}
  <2>1. more \subseteq Nat
    BY ChunkMap
  <2>2. \E k \in more : \A j \in more : k <= j
    <3> HIDE DEF more
    <3> QED BY <1>3, <2>1, LeastOf, Zenon
  <2>3. i \in more
    <3> HIDE DEF more
    <3> QED BY <2>2, Zenon
  <2>4. chunks[i] \in Seq(Byte)
    <3> HIDE DEF i
    <3> QED BY <2>3, ChunkMap
  <2> DEFINE b == chunks[i]
  <2> HIDE DEF more, a, b
  <2>5. a \o b \in Seq(Byte)
    <3>1. a \in Seq(Byte) /\ b \in Seq(Byte)
      BY <2>4 DEF a, b
    <3> QED BY <3>1, ConcatProperties
  <2> HIDE DEF i
  <2> QED BY <1>1, <1>3, <2>5 DEF b
<1> QED BY <1>2, <1>3

\* A read of nothing gives nothing, from the pending chunk and from the others.
LEMMA NothingRead ==
  ASSUME NEW s, Right(s), NEW first, NEW n \in {0, 1}
  PROVE  FromPending(s, 0) = <<>> /\ FromChunks(s, first, n, 0) = <<>>
<1>1. s.pos \in Nat /\ s.pending \in Seq(Byte) /\ s.chunkNum \in Nat
  BY Fields DEF Right
<1>2. FromPending(s, 0) = <<>>
  <2>1. CASE ~ InPending(s)
    BY <2>1 DEF FromPending
  <2>2. CASE InPending(s)
    <3> DEFINE o == s.pos % CS
               x == s.pos - s.chunkNum * CS
    <3>1. o \in Nat /\ s.pos = Base(s.chunkNum) + o
      <4>1. s.pos \div CS = s.chunkNum
        BY <2>2 DEF InPending
      <4> QED BY <1>1, <4>1, Places
    <3>2. Base(s.chunkNum) \in Nat /\ s.chunkNum * CS = Base(s.chunkNum)
      BY <1>1, BaseFacts DEF Base
    <3> HIDE DEF o
    <3>3. x \in Nat
      BY <3>1, <3>2
    <3> HIDE DEF x
    <3>4. FromPending(s, 0) = Slice(s.pending, x + 1, x + 0)
      BY <2>2 DEF FromPending, x
    <3> QED BY <1>1, <3>3, <3>4, SliceOfNothing
  <2> QED BY <2>1, <2>2
<1>3. FromChunks(s, first, n, 0) = <<>>
  <2> DEFINE c == [next |-> first, bytes |-> <<>>]
             f == CHOOSE f : f = [k \in 0 .. n |-> IF k = 0 THEN c ELSE ChunkTurn(s.chunks, f[k - 1])]
             o == s.pos % CS
  <2>1. FromChunks(s, first, n, 0) = Slice(f[n].bytes, o + 1, o + 0)
    BY Zenon DEF FromChunks
  <2>2. f = [k \in 0 .. n |-> IF k = 0 THEN c ELSE ChunkTurn(s.chunks, f[k - 1])]
    <3>1. n \in Nat
      OBVIOUS
    <3>2. PICK run : ChunkRun(run, s.chunks, first, n)
      BY <3>1, ChunkTurns
    <3>3. \E g : g = [k \in 0 .. n |-> IF k = 0 THEN c ELSE ChunkTurn(s.chunks, g[k - 1])]
      BY <3>2, Zenon DEF ChunkRun
    <3> HIDE DEF c
    <3> QED BY <3>3, Zenon
  <2> HIDE DEF f
  <2>3. c.bytes \in Seq(Byte)
    OBVIOUS
  <2> HIDE DEF c
  <2>4. f[0] = c /\ (n = 1 => f[1] = ChunkTurn(s.chunks, f[0]))
    BY <2>2
  <2>5. s.chunks \in ChunkMaps
    BY Fields DEF Right
  <2>6. ChunkTurn(s.chunks, c).bytes \in Seq(Byte)
    BY <2>3, <2>5, TurnIsBytes
  <2>7. f[n].bytes \in Seq(Byte)
    BY <2>3, <2>4, <2>6
  <2>8. o \in Nat
    BY <1>1, Places
  <2> HIDE DEF o
  <2> QED BY <2>1, <2>7, <2>8, SliceOfNothing
<1> QED BY <1>2, <1>3

\* The number of chunks size bytes from pos on lie in.
Span(pos, size) == ((pos + size - 1) \div CS) - (pos \div CS) + 1

\* No byte lies in one chunk at most, others in one at least.
LEMMA SpanIs ==
  ASSUME NEW pos \in Nat, NEW size \in Nat
  PROVE  (size = 0 => Span(pos, size) \in {0, 1}) /\ (size # 0 => Span(pos, size) # 0)
<1> DEFINE p == pos \div CS
           o == pos % CS
<1>1. p \in Nat /\ o \in Nat /\ o < CS /\ pos = Base(p) + o /\ Base(p) \in Nat /\ CS \in Nat /\ CS > 0
  <2>1. p \in Nat /\ o \in Nat /\ o < CS /\ pos = Base(p) + o
    BY Places
  <2>2. Base(p) \in Nat
    BY <2>1, BaseFacts
  <2> QED BY <2>1, <2>2, SizeIs
<1> HIDE DEF o
<1>2. CASE size = 0 /\ o > 0
  <2> DEFINE z == o - 1
             y == pos + size - 1
  <2>1. z \in Nat /\ z < CS /\ y = Base(p) + z
    <3> HIDE DEF p
    <3> QED BY <1>1, <1>2
  <2> HIDE DEF z
  <2>2. (Base(p) + z) \div CS = p
    <3> HIDE DEF p
    <3> QED BY <1>1, <2>1, PlaceOf
  <2>3. y \div CS = p
    <3> HIDE DEF y, p
    <3> QED BY <2>1, <2>2
  <2>4. Span(pos, size) = (y \div CS) - p + 1
    BY DEF Span
  <2> HIDE DEF y, p
  <2>5. Span(pos, size) = 1
    BY <1>1, <2>3, <2>4
  <2> QED BY <1>2, <2>5
<1>3. CASE size = 0 /\ o = 0 /\ p > 0
  <2> DEFINE q == p - 1
             z == CS - 1
             y == pos + size - 1
  <2>1. q \in Nat /\ p = q + 1
    <3> HIDE DEF p
    <3> QED BY <1>1, <1>3
  <2>2. z \in Nat /\ z < CS
    BY <1>1
  <2>3. y = Base(q) + z
    <3> HIDE DEF q, p
    <3>1. Base(q + 1) = Base(q) + CS /\ Base(q) \in Nat
      BY <2>1, BaseFacts
    <3> QED BY <1>1, <1>3, <2>1, <3>1
  <2> HIDE DEF q, z
  <2>4. (Base(q) + z) \div CS = q
    BY <2>1, <2>2, PlaceOf
  <2>5. y \div CS = q
    <3> HIDE DEF y
    <3> QED BY <2>3, <2>4
  <2>6. Span(pos, size) = (y \div CS) - p + 1
    BY DEF Span
  <2> HIDE DEF y, p
  <2>7. Span(pos, size) = 0
    BY <2>1, <2>5, <2>6
  <2> QED BY <1>3, <2>7
<1>4. CASE size = 0 /\ o = 0 /\ p = 0
  <2>1. pos = 0
    <3> HIDE DEF p
    <3>1. Base(0) = 0
      BY <1>1, BaseFacts
    <3> QED BY <1>1, <1>4, <3>1
  <2>2. pos + size - 1 = -1
    BY <1>4, <2>1
  <2>3. (-1) \div CS = -1
    BY <1>1, SMT
  <2>4. Span(pos, size) = ((-1) \div CS) - p + 1
    BY <2>2 DEF Span
  <2> HIDE DEF p
  <2>5. Span(pos, size) = 0
    BY <1>4, <2>3, <2>4
  <2> QED BY <1>4, <2>5
<1>5. CASE size # 0
  <2> DEFINE y == pos + size - 1
             q == y \div CS
             r == y % CS
  <2>1. y \in Nat /\ pos <= y
    BY <1>5
  <2>2. Span(pos, size) = q - p + 1
    BY DEF Span
  <2> HIDE DEF y, p
  <2>3. q \in Nat /\ r \in Nat /\ r < CS /\ y = Base(q) + r /\ Base(q) \in Nat
    BY <2>1, Places, BaseFacts
  <2> HIDE DEF q, r
  <2>4. q < p => Base(q) + CS <= Base(p)
    BY <1>1, <2>3, BaseOrder
  <2>5. p <= q
    BY <1>1, <2>1, <2>3, <2>4
  <2>6. Span(pos, size) # 0
    BY <1>1, <2>2, <2>3, <2>5
  <2> QED BY <1>5, <2>6
<1>6. o = 0 \/ o > 0
  BY <1>1
<1>7. p = 0 \/ p > 0
  <2> HIDE DEF p
  <2> QED BY <1>1
<1> QED BY <1>2, <1>3, <1>4, <1>5, <1>6, <1>7

\* An unanswered find of the chunks ends the program, or it was asked for none.
LEMMA UnansweredIs ==
  ASSUME NEW s \in FileState, NEW n, NEW t, t = [NoReply(s) EXCEPT !.ok = (n = 0)]
  PROVE  /\ n # 0 => Ended(t)
         /\ n = 0 => SameFile(s, t) /\ t.ret = s.ret /\ t.ok = TRUE
<1>1. CASE n = 0
  <2>1. (n = 0) = TRUE
    BY <1>1
  <2>2. t = [NoReply(s) EXCEPT !.ok = TRUE]
    BY <2>1
  <2>3. t \in FileState /\ t.ok = TRUE /\ t.pos = s.pos /\ t.length = s.length /\ t.chunkNum = s.chunkNum
        /\ t.pending = s.pending /\ t.chunks = s.chunks /\ t.ret = s.ret
    BY <2>2 DEF NoReply, FileState
  <2> QED BY <1>1, <2>3 DEF SameFile
<1>2. CASE n # 0
  <2>1. (n = 0) = FALSE
    BY <1>2
  <2>2. t = [NoReply(s) EXCEPT !.ok = FALSE]
    BY <2>1
  <2>3. t.ok = FALSE /\ t.down = TRUE
    BY <2>2 DEF NoReply, FileState
  <2> QED BY <1>2, <2>3 DEF Ended
<1> QED BY <1>1, <1>2

\* What is left of a file, and a read of n bytes of it.
LEMMA SizeOfRead ==
  ASSUME NEW l \in Nat, NEW p \in Nat, p <= l, NEW n \in Nat
  PROVE  Smaller(l - p, n) \in Nat /\ p + Smaller(l - p, n) <= l
BY DEF Smaller

\* A position behind the start of the pending chunk c and in another chunk is behind all of it.
LEMMA BehindPending ==
  ASSUME NEW first \in Nat, NEW c \in Nat, first # c, NEW bf \in Nat, NEW bc \in Nat, NEW o \in Nat, NEW len \in Nat,
         NEW p \in Nat, p = bf + o, bc <= p, NEW cs \in Nat, o < cs, len <= cs,
         first < c => bf + cs <= bc, c < first => bc + cs <= bf
  PROVE  c < first /\ bc + len <= p
OBVIOUS

\* The last of size bytes from offset o of a chunk on is in the chunk.
LEMMA LastInside ==
  ASSUME NEW b \in Nat, NEW o \in Nat, NEW size \in Nat, size # 0, NEW cs \in Nat, NEW p \in Nat, p = b + o, p + size <= b + cs
  PROVE  o + size <= cs /\ p + size - 1 = b + (o + size - 1) /\ o + size - 1 \in Nat /\ o + size - 1 < cs
OBVIOUS

\* A read gives what is there, up to n bytes, or the program ends in it.
LEMMA ReadIs ==
  ASSUME NEW s, Right(s), Going(s), NEW n \in Nat, ReadsSoundly(s, n), NEW t, t = ReadBuffer(s, n)
  PROVE  ReadDone(s, t, Smaller(ContentLength(s) - s.pos, n)) \/ Ended(t)
<1> DEFINE size == Smaller(ContentLength(s) - s.pos, n)
           first == s.pos \div CS
           total == ((s.pos + size - 1) \div CS) - first + 1
           got == FromPending(s, size)
           next == IF InPending(s) THEN first + 1 ELSE first
           l == [s EXCEPT !.left = s.left - 1]
<1>1. /\ s.pos \in Nat /\ ContentLength(s) \in Nat /\ s.pos <= ContentLength(s) /\ s \in FileState
      /\ s.chunkNum \in Nat /\ s.pending \in Seq(Byte) /\ s.length \in Nat
  BY Fields, LengthIs DEF Right
<1>2. size \in Nat /\ s.pos + size <= ContentLength(s)
  BY <1>1, SizeOfRead
<1>3. t = CASE got = <<>> -> ReadChunks(s, next, total, size)
            [] got /= <<>> /\ total <= 1 -> Got(s, got)
            [] OTHER -> ReadOn(FlushPending(Got(s, got)), first + 1, total - 1, size - Len(got), got)
  BY DEF ReadBuffer
<1> HIDE DEF size
<1>4. SameFile(s, l) /\ l.ret = s.ret /\ l.ok = s.ok
  <2>1. s.left - 1 \in Int
    BY <1>1, Fields
  <2> QED BY <1>1, <2>1 DEF SameFile, FileState
<1>5. Right(l) /\ BytesOf(l) = BytesOf(s) /\ ContentLength(l) = ContentLength(s)
  BY <1>4, SameFileKeeps
<1>6. ASSUME NEW b, b = SubSeq(BytesOf(s), s.pos + 1, s.pos + size), t = Got(l, b)
      PROVE  ReadDone(s, t, size)
  <2> HIDE DEF l
  <2>1. l.pos = s.pos /\ l.pending = s.pending /\ l.chunkNum = s.chunkNum
    BY <1>4 DEF SameFile
  <2>2. ReadDone(l, t, size)
    BY <1>1, <1>2, <1>5, <1>6, <2>1, GotIs
  <2> QED BY <1>4, <1>5, <2>1, <2>2 DEF ReadDone
<1> DEFINE u == [NoReply(s) EXCEPT !.ok = (total = 0)]
<1>7. ReadChunks(s, next, total, size) = IF s.left = 0 THEN u ELSE Got(l, FromChunks(s, next, total, size))
  <2>1. [s EXCEPT !.left = @ - 1] = l
    OBVIOUS
  <2> HIDE DEF l, next, total
  <2> QED BY <2>1, Zenon DEF ReadChunks
<1> HIDE DEF l
<1>11. (size = 0 => total \in {0, 1}) /\ (size # 0 => total # 0)
  <2>1. Span(s.pos, size) = total
    BY DEF Span
  <2> HIDE DEF total
  <2> QED BY <1>1, <1>2, <2>1, SpanIs
<1> HIDE DEF next
<1>12. total # 0 => Ended(u)
  <2> HIDE DEF total
  <2> QED BY <1>1, UnansweredIs
<1>13. total = 0 => SameFile(s, u) /\ u.ret = s.ret /\ u.ok = TRUE
  <2> HIDE DEF total
  <2> QED BY <1>1, UnansweredIs
<1> HIDE DEF u
<1>8. CASE size = 0
  <2>1. total \in {0, 1}
    BY <1>8, <1>11
  <2> HIDE DEF total
  <2>2. got = <<>> /\ FromChunks(s, next, total, 0) = <<>>
    BY <1>8, <2>1, NothingRead
  <2>3. t = IF s.left = 0 THEN u ELSE Got(l, <<>>)
    <3> HIDE DEF got
    <3> QED BY <1>3, <1>7, <1>8, <2>2
  <2>4. SubSeq(BytesOf(s), s.pos + 1, s.pos + size) = <<>>
    BY <1>1, <1>8, SubSeqEmpty
  <2>5. CASE s.left # 0
    <3>1. t = Got(l, <<>>)
      BY <2>3, <2>5
    <3>2. ReadDone(s, t, size)
      BY <1>6, <2>4, <3>1
    <3> QED BY <3>2 DEF size
  <2>6. CASE s.left = 0 /\ total # 0
    <3>1. Ended(t)
      BY <1>12, <2>3, <2>6
    <3> QED BY <3>1
  <2>7. CASE s.left = 0 /\ total = 0
    <3>1. SameFile(s, t) /\ t.ret = s.ret /\ t.ok = TRUE
      BY <1>13, <2>3, <2>7
    <3>2. Right(t) /\ BytesOf(t) = BytesOf(s) /\ ContentLength(t) = ContentLength(s)
      BY <3>1, SameFileKeeps
    <3>3. s.ret \o <<>> = s.ret
      <4>1. s.ret \in Seq(Byte \cup Nat)
        BY <1>1, Fields
      <4> QED BY <4>1, ConcatEmptySeq
    <3>4. t.pos = s.pos + size /\ t.chunkNum = s.chunkNum /\ t.pending = s.pending
      BY <1>1, <1>8, <3>1 DEF SameFile
    <3>5. ReadDone(s, t, size)
      BY <2>4, <3>1, <3>2, <3>3, <3>4 DEF ReadDone, Going
    <3> QED BY <3>5 DEF size
  <2> QED BY <2>5, <2>6, <2>7
<1>9. CASE size # 0 /\ ~ InPending(s)
  <2>1. got = <<>> /\ next = first
    BY <1>9 DEF FromPending, next
  <2>2. Behind(s) /\ s.pos + size <= s.length
    <3>1. CASE s.pending = <<>>
      <4>1. ContentLength(s) = s.length
        BY <1>1, <3>1, LengthIs
      <4> QED BY <1>2, <3>1, <4>1 DEF Behind
    <3>2. CASE s.pending # <<>>
      <4> DEFINE c == s.chunkNum
                 o == s.pos % CS
      <4>1. first # c
        BY <1>9, <3>2 DEF InPending
      <4>2. /\ Base(c) <= s.pos /\ Len(s.pending) <= CS /\ Len(s.pending) \in Nat
            /\ ContentLength(s) = Bigger(s.length, Base(c) + Len(s.pending))
        <5>1. Base(c) <= s.pos /\ Len(s.pending) <= CS
          BY <3>2 DEF Right, PendingRight
        <5> QED BY <1>1, <3>2, <5>1, LengthIs, Fields
      <4>3. first \in Nat /\ o \in Nat /\ o < CS /\ s.pos = Base(first) + o
        BY <1>1, Places
      <4>4. Base(first) \in Nat /\ Base(c) \in Nat /\ CS \in Nat
        BY <1>1, <4>3, BaseFacts, SizeIs
      <4>5. /\ first < c => Base(first) + CS <= Base(c)
            /\ c < first => Base(c) + CS <= Base(first)
        BY <1>1, <4>3, BaseOrder
      <4> HIDE DEF first, o, c
      <4>6. c \in Nat
        BY <1>1 DEF c
      <4>8. c < first /\ Base(c) + Len(s.pending) <= s.pos
        BY <1>1, <4>1, <4>2, <4>3, <4>4, <4>5, <4>6, BehindPending
      <4>7. Behind(s)
        BY <4>8 DEF Behind, c, first
      <4>9. s.pos + size <= s.length
        BY <1>1, <1>2, <1>9, <4>2, <4>4, <4>8 DEF Bigger
      <4> QED BY <4>7, <4>9
    <3> QED BY <3>1, <3>2
  <2>3. size > 0
    BY <1>2, <1>9
  <2>4. ReadHere(s, size) = SubSeq(BytesOf(s), s.pos + 1, s.pos + size)
    BY <1>2, <2>2, <2>3, FromChunksIs
  <2>5. FromChunks(s, next, total, size) = ReadHere(s, size)
    BY <2>1 DEF ReadHere
  <2>6. t = IF s.left = 0 THEN u ELSE Got(l, FromChunks(s, next, total, size))
    <3> HIDE DEF got, total
    <3> QED BY <1>3, <1>7, <2>1
  <2> HIDE DEF total
  <2>7. CASE s.left # 0
    <3>1. ReadDone(s, t, size)
      BY <1>6, <2>4, <2>5, <2>6, <2>7
    <3> QED BY <3>1 DEF size
  <2>8. CASE s.left = 0
    <3>1. Ended(t)
      BY <1>9, <1>11, <1>12, <2>6, <2>8
    <3> QED BY <3>1
  <2> QED BY <2>7, <2>8
<1>10. CASE size # 0 /\ InPending(s)
  <2> DEFINE c == s.chunkNum
             o == s.pos % CS
             y == s.pos + size - 1
  <2>1. s.pending # <<>> /\ first = c
    BY <1>10 DEF InPending
  <2>2. o \in Nat /\ o < CS /\ s.pos = Base(c) + o /\ Base(c) \in Nat /\ CS \in Nat
    <3>1. o \in Nat /\ o < CS /\ s.pos = Base(first) + o
      BY <1>1, Places
    <3>2. Base(c) \in Nat
      BY <1>1, BaseFacts
    <3> QED BY <2>1, <3>1, <3>2, SizeIs
  <2>3. s.pos + size <= Base(c) + CS
    <3>1. s.pos + size <= (s.chunkNum + 1) * CS
      BY <2>1 DEF ReadsSoundly, size
    <3>2. (c + 1) * CS = Base(c) + CS
      <4>1. Base(c + 1) = Base(c) + CS
        BY <1>1, BaseFacts
      <4> QED BY <4>1 DEF Base
    <3> QED BY <3>1, <3>2
  <2> HIDE DEF o, c, first
  <2>4. o + size <= CS /\ y = Base(c) + (o + size - 1) /\ o + size - 1 \in Nat /\ o + size - 1 < CS
    BY <1>1, <1>2, <1>10, <2>2, <2>3, LastInside
  <2>5. y \div CS = c
    <3> DEFINE z == o + size - 1
    <3> HIDE DEF y
    <3>1. z \in Nat /\ z < CS /\ y = Base(c) + z /\ c \in Nat
      BY <1>1, <2>4 DEF c
    <3> HIDE DEF z
    <3> QED BY <3>1, PlaceOf
  <2>6. total = 1
    <3>1. c \in Nat
      BY <1>1 DEF c
    <3>2. total = (y \div CS) - first + 1
      OBVIOUS
    <3> HIDE DEF y
    <3> QED BY <2>1, <2>5, <3>1, <3>2
  <2>7. o + size <= Len(s.pending) /\ Len(s.pending) \in Nat
    <3> DEFINE z == o + size - 1
    <3> HIDE DEF y
    <3>1. z \in Nat /\ z < CS /\ y = Base(c) + z /\ y < ContentLength(s) /\ c \in Nat
      BY <1>1, <1>2, <2>4 DEF c, y
    <3> HIDE DEF z
    <3>2. z < Len(Piece(s, c))
      BY <3>1, PieceOf
    <3>3. Piece(s, c) = s.pending /\ Len(s.pending) \in Nat
      BY <1>1, <2>1 DEF Piece, c
    <3>4. z + 1 = o + size /\ z \in Nat
      BY <1>2, <2>2, <3>1 DEF z
    <3>5. z < Len(s.pending)
      BY <3>2, <3>3
    <3> DEFINE held == Len(s.pending)
    <3> HIDE DEF held
    <3>6. z + 1 <= held
      BY <3>3, <3>4, <3>5 DEF held
    <3> QED BY <3>3, <3>4, <3>6 DEF held
  <2>8. got = SubSeq(s.pending, o + 1, o + size)
    <3>1. s.pos - s.chunkNum * CS = o
      BY <2>2 DEF Base, c
    <3>2. got = Slice(s.pending, o + 1, o + size)
      BY <1>10, <3>1 DEF FromPending
    <3>3. Smaller(o + size, Len(s.pending)) = o + size
      BY <1>2, <2>2, <2>7 DEF Smaller
    <3> QED BY <3>2, <3>3 DEF Slice
  <2>9. got = SubSeq(BytesOf(s), s.pos + 1, s.pos + size)
    <3> DEFINE b == SubSeq(BytesOf(s), s.pos + 1, s.pos + size)
    <3>1. IsPart(got, s.pending, o, size)
      <4>1. IsPart(SubSeq(s.pending, o + 1, o + size), s.pending, o, size)
        BY <1>1, <1>2, <2>2, <2>7, PartOf
      <4> QED BY <2>8, <4>1, Zenon
    <3>2. IsPart(b, BytesOf(s), s.pos, size)
      <4>1. BytesOf(s) \in Seq(Byte) /\ Len(BytesOf(s)) = ContentLength(s)
        BY BytesAre
      <4> QED BY <1>1, <1>2, <4>1, PartOf
    <3> HIDE DEF got, b
    <3>3. ASSUME NEW i \in 1 .. size PROVE got[i] = b[i]
      <4> DEFINE x == s.pos + i - 1
                 z == o + i - 1
      <4>1. /\ x \in Nat /\ x < ContentLength(s) /\ x + 1 = s.pos + i
            /\ z \in Nat /\ z < CS /\ x = Base(c) + z /\ z + 1 = o + i /\ c \in Nat
        <5>1. c \in Nat /\ i \in Nat /\ i > 0 /\ i <= size
          BY <1>1, <1>2 DEF c
        <5> DEFINE e == Base(c)
        <5>2. e \in Nat /\ o \in Nat /\ s.pos = e + o /\ o + size <= CS
          BY <2>2, <2>4
        <5>3. s.pos \in Nat /\ s.pos + size <= ContentLength(s) /\ ContentLength(s) \in Nat /\ size \in Nat
          BY <1>1, <1>2
        <5>4. CS \in Nat
          BY SizeIs
        <5> HIDE DEF e, c
        <5>5. x \in Nat /\ x < ContentLength(s) /\ x + 1 = s.pos + i
          BY <5>1, <5>3
        <5>6. z \in Nat /\ z < CS /\ z + 1 = o + i
          BY <5>1, <5>2, <5>3, <5>4
        <5>7. x = e + z
          BY <5>1, <5>2, <5>3
        <5> QED BY <5>1, <5>5, <5>6, <5>7 DEF e
      <4> HIDE DEF x, z
      <4>2. x \div CS = c /\ x % CS = z
        BY <4>1, PlaceOf
      <4>3. BytesOf(s)[x + 1] = Piece(s, c)[z + 1]
        BY <4>1, <4>2, BytesAre
      <4>4. Piece(s, c) = s.pending
        BY <2>1 DEF Piece, c
      <4>5. got[i] = s.pending[o + i] /\ b[i] = BytesOf(s)[s.pos + i]
        BY <3>1, <3>2 DEF IsPart
      <4> QED BY <4>1, <4>3, <4>4, <4>5
    <3>4. got \in Seq(Byte) /\ b \in Seq(Byte) /\ Len(got) = size /\ Len(b) = size
      BY <3>1, <3>2 DEF IsPart
    <3>5. got = b
      BY <3>3, <3>4, SeqEqual
    <3> QED BY <3>5 DEF b
  <2>10. got # <<>>
    <3>1. Len(got) = size
      <4>1. IsPart(SubSeq(s.pending, o + 1, o + size), s.pending, o, size)
        BY <1>1, <1>2, <2>2, <2>7, PartOf
      <4>2. IsPart(got, s.pending, o, size)
        BY <2>8, <4>1, Zenon
      <4> QED BY <4>2 DEF IsPart
    <3> HIDE DEF got
    <3>2. got = <<>> => Len(got) = 0
      OBVIOUS
    <3> QED BY <1>10, <3>1, <3>2
  <2> HIDE DEF got, total
  <2>11. t = Got(s, got)
    BY <1>3, <2>6, <2>10
  <2>12. ReadDone(s, t, size)
    BY <1>1, <1>2, <2>9, <2>11, GotIs
  <2> QED BY <2>12 DEF size
<1> QED BY <1>8, <1>9, <1>10 DEF size

-----------------------------------------------------------------------------
(* gridfile_write_file *)

\* A read of a chunk at a time is sound if the position is at the start of a chunk, at the end of the file
\* or behind the pending chunk, or if there is nothing behind the pending chunk.
ReadSound(s) ==
  \/ s.pending = <<>>
  \/ s.pos % CS = 0
  \/ s.pos = ContentLength(s)
  \/ Base(s.chunkNum) + CS <= s.pos
  \/ ContentLength(s) <= Base(s.chunkNum) + CS

\* That is what ReadsSoundly asks of the read of a chunk.
LEMMA ReadSoundIs ==
  ASSUME NEW s, Right(s), ReadSound(s)
  PROVE  ReadsSoundly(s, CS)
<1> DEFINE c == s.chunkNum
           o == s.pos % CS
           p == s.pos \div CS
           m == Smaller(ContentLength(s) - s.pos, CS)
<1>1. s.pos \in Nat /\ c \in Nat /\ ContentLength(s) \in Nat /\ s.pos <= ContentLength(s)
  BY Fields, LengthIs DEF Right
<1>2. p \in Nat /\ o \in Nat /\ o < CS /\ s.pos = Base(p) + o
  BY <1>1, Places
<1>3. Base(p) \in Nat /\ Base(c) \in Nat /\ Base(c + 1) = Base(c) + CS /\ CS \in Nat
  BY <1>1, <1>2, BaseFacts, SizeIs
<1>4. SUFFICES ASSUME s.pending # <<>>, p = c PROVE s.pos + m <= Base(c) + CS
  BY <1>3 DEF ReadsSoundly, Base
<1>5. o = 0 \/ s.pos = ContentLength(s) \/ Base(c) + CS <= s.pos \/ ContentLength(s) <= Base(c) + CS
  BY <1>4 DEF ReadSound
<1> HIDE DEF c, o, p
<1> QED BY <1>1, <1>2, <1>3, <1>4, <1>5 DEF Smaller

\* A part of a sequence and the part behind it are one part.
LEMMA PartsJoin ==
  ASSUME NEW q \in Seq(Byte), NEW p \in Nat, NEW m \in Nat, NEW j \in Nat, p + m + j <= Len(q)
  PROVE  SubSeq(q, p + 1, p + m) \o SubSeq(q, p + m + 1, p + m + j) = SubSeq(q, p + 1, p + (m + j))
<1>1. Len(q) \in Nat
  BY LenProperties
<1>2. p + 1 \in 1 .. Len(q) + 1 /\ p + m \in (p + 1) - 1 .. Len(q) /\ p + m + j \in p + m .. Len(q)
  BY <1>1
<1>3. SubSeq(q, p + 1, p + m) \o SubSeq(q, p + m + 1, p + m + j) = SubSeq(q, p + 1, p + m + j)
  BY <1>2, ConcatAdjacentSubSeq
<1>4. p + m + j = p + (m + j)
  OBVIOUS
<1> QED BY <1>3, <1>4

\* Two reads, one after the other.
LEMMA ReadTwice ==
  ASSUME NEW s, Right(s), NEW f, NEW t, NEW m \in Nat, NEW j \in Nat,
         ReadDone(s, f, m), ReadDone(f, t, j), s.pos + m + j <= ContentLength(s)
  PROVE  ReadDone(s, t, m + j)
<1> DEFINE q == BytesOf(s)
           p == s.pos
           a == SubSeq(q, p + 1, p + m)
           b == SubSeq(q, p + m + 1, p + m + j)
<1>1. /\ q \in Seq(Byte) /\ Len(q) = ContentLength(s) /\ p \in Nat /\ ContentLength(s) \in Nat
      /\ s.ret \in Seq(Byte \cup Nat)
  BY BytesAre, Fields, LengthIs DEF Right
<1>2. f.pos = p + m /\ f.ret = s.ret \o a /\ BytesOf(f) = q
  BY DEF ReadDone
<1>3. t.pos = p + m + j /\ t.ret = (s.ret \o a) \o b
  BY <1>2 DEF ReadDone
<1>4. a \in Seq(Byte) /\ b \in Seq(Byte)
  <2>1. IsPart(a, q, p, m)
    BY <1>1, PartOf
  <2>2. IsPart(b, q, p + m, j)
    BY <1>1, PartOf
  <2> HIDE DEF a, b
  <2> QED BY <2>1, <2>2 DEF IsPart
<1>5. a \o b = SubSeq(q, p + 1, p + (m + j))
  BY <1>1, PartsJoin
<1> HIDE DEF a, b
<1>6. t.ret = s.ret \o (a \o b)
  <2>1. a \in Seq(Byte \cup Nat) /\ b \in Seq(Byte \cup Nat)
    BY <1>4
  <2>2. (s.ret \o a) \o b = s.ret \o (a \o b)
    <3> DEFINE T == Byte \cup Nat
               u == s.ret
    <3>1. u \in Seq(T) /\ a \in Seq(T) /\ b \in Seq(T)
      BY <1>1, <2>1
    <3> HIDE DEF T, u
    <3>2. (u \o a) \o b = u \o (a \o b)
      BY <3>1, ConcatAssociative
    <3> QED BY <3>2 DEF u
  <2> QED BY <1>3, <2>2
<1>7. t.ret = s.ret \o SubSeq(q, p + 1, p + (m + j))
  BY <1>5, <1>6
<1>8. t.pos = p + (m + j)
  BY <1>1, <1>3
<1> QED BY <1>7, <1>8 DEF ReadDone

\* Reading a chunk's worth, or what there is, leaves the position so that the next such read is sound too.
LEMMA ReadNext ==
  ASSUME NEW s, Right(s), Going(s), ReadSound(s), NEW t, t = ReadBuffer(s, CS), ~ Ended(t)
  PROVE  /\ ReadDone(s, t, Smaller(ContentLength(s) - s.pos, CS)) /\ ReadSound(t)
         /\ Len(t.ret) > Len(s.ret) <=> Smaller(ContentLength(s) - s.pos, CS) # 0
<1> DEFINE m == Smaller(ContentLength(s) - s.pos, CS)
<1>1. /\ s.pos \in Nat /\ ContentLength(s) \in Nat /\ s.pos <= ContentLength(s) /\ s.chunkNum \in Nat
      /\ s.ret \in Seq(Byte \cup Nat) /\ CS \in Nat /\ CS > 0
  BY Fields, LengthIs, SizeIs DEF Right
<1>2. m \in Nat /\ s.pos + m <= ContentLength(s) /\ m <= CS
  BY <1>1 DEF Smaller
<1>5. ReadDone(s, t, m)
  <2>1. ReadsSoundly(s, CS)
    BY ReadSoundIs
  <2> QED BY <1>1, <2>1, ReadIs
<1> HIDE DEF m
<1>4. Len(t.ret) > Len(s.ret) <=> m # 0
  <2> DEFINE b == SubSeq(BytesOf(s), s.pos + 1, s.pos + m)
  <2>1. b \in Seq(Byte) /\ Len(b) = m
    <3>1. BytesOf(s) \in Seq(Byte) /\ Len(BytesOf(s)) = ContentLength(s)
      BY BytesAre
    <3>2. IsPart(b, BytesOf(s), s.pos, m)
      BY <1>1, <1>2, <3>1, PartOf
    <3> HIDE DEF b
    <3> QED BY <3>2 DEF IsPart
  <2>2. t.ret = s.ret \o b
    BY <1>5 DEF ReadDone
  <2> HIDE DEF b
  <2>3. Len(t.ret) = Len(s.ret) + m /\ Len(s.ret) \in Nat
    <3>1. b \in Seq(Byte \cup Nat)
      BY <2>1
    <3>2. Len(s.ret \o b) = Len(s.ret) + Len(b)
      BY <1>1, <3>1, ConcatProperties
    <3> QED BY <1>1, <2>1, <2>2, <3>2
  <2> QED BY <1>2, <2>3
<1>6. ReadSound(t)
  <2> DEFINE c == s.chunkNum
             e == Base(c) + CS
  <2>1. /\ t.pos = s.pos + m /\ ContentLength(t) = ContentLength(s)
        /\ t.chunkNum = s.chunkNum /\ t.pending = s.pending
    BY <1>5 DEF ReadDone
  <2>2. e \in Nat
    <3>1. Base(c) \in Nat
      BY <1>1, BaseFacts
    <3> QED BY <1>1, <3>1
  <2> HIDE DEF e
  <2>3. CASE s.pending = <<>>
    BY <2>1, <2>3 DEF ReadSound
  <2>4. CASE e <= s.pos \/ ContentLength(s) <= e
    <3>1. e <= t.pos \/ ContentLength(t) <= e
      BY <1>1, <1>2, <2>1, <2>2, <2>4
    <3> QED BY <2>1, <3>1 DEF ReadSound, e
  <2>5. CASE s.pos = ContentLength(s)
    <3>1. t.pos = ContentLength(t)
      BY <1>1, <1>2, <2>1, <2>5
    <3> QED BY <3>1 DEF ReadSound
  <2>6. CASE s.pos % CS = 0
    <3>1. CASE m = CS
      <4> DEFINE p == s.pos \div CS
      <4>1. p \in Nat /\ s.pos = Base(p) + (s.pos % CS)
        BY <1>1, Places
      <4> HIDE DEF p
      <4>2. Base(p) \in Nat /\ Base(p + 1) = Base(p) + CS /\ p + 1 \in Nat
        BY <4>1, BaseFacts
      <4>3. s.pos = Base(p)
        BY <2>6, <4>1, <4>2
      <4>4. t.pos = Base(p + 1)
        BY <2>1, <3>1, <4>2, <4>3
      <4>5. PICK z \in Nat : z = 0
        OBVIOUS
      <4>6. (Base(p + 1) + z) % CS = z
        <5>1. z < CS
          BY <1>1, <4>5
        <5> QED BY <4>2, <4>5, <5>1, PlaceOf
      <4>7. Base(p + 1) + z = Base(p + 1)
        BY <1>1, <4>2, <4>5
      <4>8. t.pos % CS = 0
        BY <4>4, <4>5, <4>6, <4>7
      <4> QED BY <4>8 DEF ReadSound
    <3>2. CASE m # CS
      <4>1. t.pos = ContentLength(t)
        BY <1>1, <2>1, <3>2 DEF m, Smaller
      <4> QED BY <4>1 DEF ReadSound
    <3> QED BY <3>1, <3>2
  <2> QED BY <2>3, <2>4, <2>5, <2>6 DEF ReadSound, e
<1> QED BY <1>4, <1>5, <1>6 DEF m

\* After k turns of gridfile_write_file k bytes are read and it goes on, or it is at the end of the file,
\* or the program ended.
ReadSoFar(s, r, k) ==
  /\ r.going \in BOOLEAN
  /\ \/ Ended(r.file) /\ ~ r.going
     \/ \E m \in Nat : /\ ReadDone(s, r.file, m) /\ ReadSound(r.file) /\ s.pos + m <= ContentLength(s)
                       /\ r.going => m >= k
                       /\ ~ r.going => s.pos + m = ContentLength(s)

\* So it is after the next turn.
LEMMA ReadTurnIs ==
  ASSUME NEW s, Right(s), Going(s), NEW k \in Nat, NEW r, ReadSoFar(s, r, k)
  PROVE  ReadSoFar(s, ReadTurn(r), k + 1)
<1> DEFINE g == r.file
           h == ReadBuffer(g, CS)
           n == ContentLength(s)
           t == ReadTurn(r)
<1>1. n \in Nat /\ s.pos \in Nat /\ s.pos <= n
  BY Fields, LengthIs DEF Right
<1>2. CASE ~ r.going
  <2>1. t = r
    BY <1>2 DEF ReadTurn
  <2> HIDE DEF t
  <2>2. ReadSoFar(s, r, k + 1)
    BY <1>2 DEF ReadSoFar
  <2> QED BY <2>1, <2>2 DEF t
<1>3. CASE r.going
  <2> DEFINE b == h.ok /\ Len(h.ret) > Len(g.ret)
  <2>1. t = [file |-> h, going |-> b]
    BY <1>3 DEF ReadTurn
  <2>2. PICK m \in Nat : ReadDone(s, g, m) /\ ReadSound(g) /\ s.pos + m <= n /\ m >= k
    BY <1>3 DEF ReadSoFar
  <2> HIDE DEF g, h, t
  <2>3. t.file = h /\ t.going = b
    BY <2>1
  <2>4. Right(g) /\ Going(g) /\ g.pos = s.pos + m /\ ContentLength(g) = n
    BY <2>2 DEF ReadDone, Going
  <2>5. CASE Ended(h)
    <3>1. b = FALSE
      BY <2>5 DEF Ended
    <3> HIDE DEF b
    <3>2. t.going \in BOOLEAN /\ ~ t.going /\ Ended(t.file)
      BY <2>3, <2>5, <3>1
    <3> QED BY <3>2 DEF ReadSoFar, t
  <2>6. CASE ~ Ended(h)
    <3> DEFINE j == Smaller(ContentLength(g) - g.pos, CS)
    <3>1. ReadDone(g, h, j) /\ ReadSound(h) /\ (Len(h.ret) > Len(g.ret) <=> j # 0)
      BY <2>2, <2>4, <2>6, ReadNext DEF h
    <3>2. /\ j \in Nat /\ s.pos + m + j <= n /\ m + j \in Nat /\ s.pos + (m + j) <= n
          /\ j # 0 => m + j >= k + 1
          /\ j = 0 => s.pos + (m + j) = n
      <4>1. CS \in Nat /\ CS > 0
        BY SizeIs
      <4> QED BY <1>1, <2>2, <2>4, <4>1 DEF Smaller
    <3> HIDE DEF j
    <3>3. ReadDone(s, h, m + j)
      BY <2>2, <3>1, <3>2, ReadTwice DEF n
    <3>4. h.ok = TRUE
      BY <3>3 DEF ReadDone, Going
    <3>5. b \in BOOLEAN /\ (b <=> j # 0)
      BY <3>1, <3>4, Zenon
    <3> HIDE DEF b, n
    <3>6. /\ ReadDone(s, t.file, m + j) /\ ReadSound(t.file) /\ s.pos + (m + j) <= n
          /\ t.going => m + j >= k + 1
          /\ ~ t.going => s.pos + (m + j) = n
      BY <2>3, <3>1, <3>2, <3>3, <3>5
    <3> QED BY <2>3, <3>2, <3>5, <3>6 DEF ReadSoFar, t, n
  <2> QED BY <2>5, <2>6
<1>4. r.going \in BOOLEAN
  BY DEF ReadSoFar
<1> QED BY <1>2, <1>3, <1>4

\* The turns of gridfile_write_file.
ReadRun(f, c, n) == f = [k \in 0 .. n |-> IF k = 0 THEN c ELSE ReadTurn(f[k - 1])]

\* There is a sequence of turns as ReadToEnd() takes them.
LEMMA ReadTurns ==
  ASSUME NEW c, NEW n \in Nat
  PROVE  \E f : ReadRun(f, c, n)
<1> DEFINE D(f, m) == f = [k \in 0 .. m |-> IF k = 0 THEN c ELSE ReadTurn(f[k - 1])]
           S == {m \in Nat : \E f : D(f, m)}
<1>1. 0 \in S
  <2>1. D([k \in 0 .. 0 |-> c], 0)
    OBVIOUS
  <2> QED BY <2>1
<1>2. ASSUME NEW m \in Nat, m \in S PROVE m + 1 \in S
  <2>1. PICK f : D(f, m)
    BY <1>2
  <2> DEFINE g == [k \in 0 .. m + 1 |-> IF k = m + 1 THEN ReadTurn(f[m]) ELSE f[k]]
  <2>2. \A k \in 0 .. m : f[k] = IF k = 0 THEN c ELSE ReadTurn(f[k - 1])
    BY <2>1
  <2>3. ASSUME NEW k \in 0 .. m + 1 PROVE g[k] = IF k = 0 THEN c ELSE ReadTurn(g[k - 1])
    <3>1. CASE k = m + 1
      <4>1. k # 0 /\ k - 1 = m /\ m \in 0 .. m + 1 /\ m # m + 1
        BY <3>1
      <4>2. g[k] = ReadTurn(f[m]) /\ g[m] = f[m]
        BY <3>1, <4>1
      <4> QED BY <4>1, <4>2
    <3>2. CASE k # m + 1
      <4>1. k \in 0 .. m /\ g[k] = f[k]
        BY <3>2
      <4>2. k # 0 => k - 1 \in 0 .. m + 1 /\ k - 1 # m + 1 /\ g[k - 1] = f[k - 1]
        BY <4>1
      <4> QED BY <2>2, <4>1, <4>2
    <3> QED BY <3>1, <3>2
  <2>4. g = [k \in 0 .. m + 1 |-> g[k]]
    OBVIOUS
  <2> HIDE DEF g
  <2>5. D(g, m + 1)
    BY <2>3, <2>4
  <2> HIDE DEF D
  <2> QED BY <2>5
<1>3. \A m \in Nat : m \in S => m + 1 \in S
  BY <1>2
<1> HIDE DEF S
<1>4. n \in S
  BY <1>1, <1>3, InductionOn, Zenon
<1>5. PICK f : D(f, n)
  BY <1>4 DEF S
<1> QED BY <1>5 DEF ReadRun

\* Reading a chunk at a time until nothing more comes gives the file from the position to the end.
LEMMA ReadToEndIs ==
  ASSUME NEW s, Right(s), Going(s), ReadSound(s), NEW t, t = ReadToEnd(s)
  PROVE  ReadDone(s, t, ContentLength(s) - s.pos) \/ Ended(t)
<1> DEFINE n == ContentLength(s) + 1
           c == [file |-> s, going |-> TRUE]
           f == CHOOSE f : f = [k \in 0 .. n |-> IF k = 0 THEN c ELSE ReadTurn(f[k - 1])]
<1>1. ContentLength(s) \in Nat /\ n \in Nat /\ s.pos \in Nat /\ s.pos <= ContentLength(s)
  BY Fields, LengthIs DEF Right
<1>2. t = f[n].file
  BY Zenon DEF ReadToEnd
<1>3. f = [k \in 0 .. n |-> IF k = 0 THEN c ELSE ReadTurn(f[k - 1])]
  <2> HIDE DEF n, c
  <2>1. PICK run : ReadRun(run, c, n)
    BY <1>1, ReadTurns
  <2>2. \E g : g = [k \in 0 .. n |-> IF k = 0 THEN c ELSE ReadTurn(g[k - 1])]
    BY <2>1, Zenon DEF ReadRun
  <2> QED BY <2>2, Zenon
<1> HIDE DEF f, n
<1>5. ReadSoFar(s, c, 0)
  <2>1. PICK z \in Nat : z = 0
    OBVIOUS
  <2>2. ReadDone(s, s, z)
    <3>1. SubSeq(BytesOf(s), s.pos + 1, s.pos + z) = <<>>
      BY <1>1, <2>1, SubSeqEmpty
    <3>2. s.ret \o <<>> = s.ret
      <4>1. s.ret \in Seq(Byte \cup Nat)
        BY Fields DEF Right
      <4> QED BY <4>1, ConcatEmptySeq
    <3>3. s.pos = s.pos + z
      BY <1>1, <2>1
    <3> QED BY <3>1, <3>2, <3>3 DEF ReadDone
  <2>3. s.pos + z <= ContentLength(s) /\ z >= 0
    BY <1>1, <2>1
  <2>4. c.file = s /\ c.going = TRUE
    OBVIOUS
  <2> HIDE DEF c
  <2> QED BY <2>2, <2>3, <2>4 DEF ReadSoFar
<1> HIDE DEF c
<1>4. \A k \in 0 .. n : f[k] = IF k = 0 THEN c ELSE ReadTurn(f[k - 1])
  BY <1>3
<1> DEFINE S == {k \in Nat : k <= n => ReadSoFar(s, f[k], k)}
<1>6. 0 \in S
  <2>1. f[0] = c
    BY <1>1, <1>4
  <2> QED BY <1>5, <2>1
<1>7. ASSUME NEW k \in Nat, k \in S PROVE k + 1 \in S
  <2>1. SUFFICES ASSUME k + 1 <= n PROVE ReadSoFar(s, f[k + 1], k + 1)
    OBVIOUS
  <2>2. f[k + 1] = ReadTurn(f[k])
    <3>1. k + 1 \in 0 .. n /\ k + 1 # 0 /\ (k + 1) - 1 = k
      BY <1>1, <2>1
    <3> QED BY <1>4, <3>1
  <2>3. ReadSoFar(s, f[k], k)
    BY <1>1, <1>7, <2>1
  <2> QED BY <2>2, <2>3, ReadTurnIs
<1>8. \A k \in Nat : k \in S => k + 1 \in S
  BY <1>7
<1> HIDE DEF S
<1>9. n \in S
  BY <1>1, <1>6, <1>8, InductionOn, Zenon
<1>10. ReadSoFar(s, f[n], n)
  BY <1>1, <1>9 DEF S
<1> DEFINE r == f[n]
<1> HIDE DEF r
<1>11. t = r.file /\ ReadSoFar(s, r, n)
  BY <1>2, <1>10 DEF r
<1>12. ASSUME NEW m \in Nat, ReadDone(s, r.file, m), s.pos + m <= ContentLength(s), r.going => m >= n,
              ~ r.going => s.pos + m = ContentLength(s)
       PROVE  ReadDone(s, t, ContentLength(s) - s.pos)
  <2>1. ~ (m >= n)
    BY <1>1, <1>12 DEF n
  <2>2. s.pos + m = ContentLength(s)
    BY <1>12, <2>1
  <2>3. m = ContentLength(s) - s.pos
    BY <1>1, <2>2
  <2> QED BY <1>11, <1>12, <2>3
<1>13. Ended(r.file) \/ \E m \in Nat : /\ ReadDone(s, r.file, m) /\ s.pos + m <= ContentLength(s)
                                       /\ r.going => m >= n
                                       /\ ~ r.going => s.pos + m = ContentLength(s)
  BY <1>11 DEF ReadSoFar
<1> QED BY <1>11, <1>12, <1>13, Zenon

-----------------------------------------------------------------------------
(* gridfile_writer_done *)

\* A state with nothing pending is the file that the server has.
LEMMA ClosedKeeps ==
  ASSUME NEW s, Right(s), s.pending = <<>>, NEW t \in FileState, t.pending = <<>>,
         t.length = s.length, t.chunks = s.chunks, t.pos <= t.length
  PROVE  Right(t) /\ BytesOf(t) = BytesOf(s) /\ ContentLength(t) = ContentLength(s)
<1>1. s \in FileState
  BY DEF Right
<1>2. ContentLength(s) = s.length /\ ContentLength(t) = t.length
  BY <1>1, LengthIs
<1>3. Right(t)
  BY <1>2 DEF Right, PendingRight
<1>4. Alike(s, t)
  BY <1>2 DEF Alike, Piece
<1> QED BY <1>2, <1>3, <1>4, SameBytes

\* A file is finished when all of it is in the server and the entry has its length, or a request was
\* not answered.
FinishedOf(s, t) ==
  /\ t \in FileState /\ (s.down => t.down)
  /\ \/ ~ t.ok /\ t.down
     \/ /\ t.ok /\ (t.down => s.down) /\ Right(t) /\ t.pending = <<>>
        /\ BytesOf(t) = BytesOf(s) /\ ContentLength(t) = ContentLength(s)

\* gridfile_writer_done does one or the other.
LEMMA FinishedIs ==
  ASSUME NEW s, Right(s), NEW t, t = Finished(s)
  PROVE  FinishedOf(s, t)
<1> DEFINE f == FlushPending(s)
<1>1. Right(f) /\ BytesOf(f) = BytesOf(s) /\ ContentLength(f) = ContentLength(s) /\ s \in FileState
  BY FlushKeeps DEF Right
<1>2. f \in FileState /\ ((~ f.ok /\ f.down) \/ (f.ok /\ f.pending = <<>> /\ f.down = s.down))
  BY <1>1, FlushIs
<1>3. t = InsertFile(f)
  BY DEF Finished
<1> HIDE DEF f
<1>4. s.down \in BOOLEAN /\ f.down \in BOOLEAN
  BY <1>1, <1>2, Fields
<1>5. CASE ~ f.ok
  <2>1. t = f
    BY <1>3, <1>5 DEF InsertFile
  <2> QED BY <1>2, <1>5, <2>1 DEF FinishedOf
<1>6. CASE f.ok /\ f.left < 2
  <2>1. t = NoReply(f)
    BY <1>3, <1>6 DEF InsertFile
  <2>2. t \in FileState /\ t.ok = FALSE /\ t.down = TRUE
    BY <1>2, <2>1, NoReplyIs
  <2> QED BY <2>2 DEF FinishedOf
<1>7. CASE f.ok /\ ~ (f.left < 2)
  <2>1. t = [f EXCEPT !.left = f.left - 2]
    BY <1>3, <1>7 DEF InsertFile
  <2>2. f.left - 2 \in Int
    BY <1>2, Fields
  <2>3. SameFile(f, t) /\ t.ok = f.ok /\ t.down = f.down
    BY <1>2, <2>1, <2>2 DEF SameFile, FileState
  <2>4. Right(t) /\ BytesOf(t) = BytesOf(f) /\ ContentLength(t) = ContentLength(f)
    BY <1>1, <2>3, SameFileKeeps
  <2>5. t.ok /\ t.pending = <<>> /\ t.down = s.down /\ t \in FileState
    <3>1. t.pending = <<>> /\ t \in FileState
      BY <1>2, <1>7, <2>3 DEF SameFile
    <3>2. t.ok
      BY <1>7, <2>3, Zenon
    <3> QED BY <1>2, <1>7, <2>3, <3>1, <3>2
  <2>6. (s.down => t.down) /\ (t.down => s.down)
    BY <2>5, Zenon
  <2> QED BY <1>1, <2>4, <2>5, <2>6 DEF FinishedOf
<1> QED BY <1>5, <1>6, <1>7

\* A seek with nothing pending has nothing to flush.
LEMMA SeekClosed ==
  ASSUME NEW s \in FileState, s.pending = <<>>, s.ok, NEW o \in Nat
  PROVE  Seek(s, o).pending = <<>>
<1> DEFINE x == Smaller(ContentLength(s), o)
<1>1. Seek(s, o) = Moved(s, x)
  BY DEF Seek, SeekTo
<1> HIDE DEF x
<1>2. Moved(s, x) = [s EXCEPT !.pos = x, !.ret = <<x>>]
  BY DEF Moved
<1> QED BY <1>1, <1>2 DEF FileState

-----------------------------------------------------------------------------
(* What the program sees *)

\* What the program sees before it is lost is a right file, no longer than the bound; without a handle
\* there is no other than the one of the server, and who only reads sees that one too.
FileInv ==
  /\ mode \in {"none", "writer", "reader", "lost"}
  /\ mode # "lost" =>
       /\ gf \in [pos : Nat, length : Nat, chunkNum : Nat, pending : Seq(Byte)]
       /\ store \in [chunks : ChunkMaps, meta : {<<>>} \cup {<<n>> : n \in Nat}]
       /\ Right(Seen) /\ ContentLength(Seen) <= MaxLen
       /\ mode = "none" => gf = Fresh
       /\ mode = "reader" => gf.pending = <<>> /\ store.meta = <<gf.length>>

\* The length of the entry.
LEMMA StoredIs ==
  ASSUME store \in [chunks : ChunkMaps, meta : {<<>>} \cup {<<n>> : n \in Nat}]
  PROVE  /\ StoredLength \in Nat
         /\ store.meta # <<>> => store.meta = <<StoredLength>>
<1>1. CASE store.meta = <<>>
  BY <1>1 DEF StoredLength
<1>2. CASE store.meta # <<>>
  <2>1. PICK n \in Nat : store.meta = <<n>>
    BY <1>2
  <2> QED BY <1>2, <2>1 DEF StoredLength
<1> QED BY <1>1, <1>2

\* The state a call works on is what the program sees.
WorksOn(s, n) ==
  /\ Right(s) /\ BytesOf(s) = Content /\ ContentLength(s) = ContentLength(Seen) /\ ContentLength(s) <= MaxLen
  /\ s.pos = gf.pos /\ s.length = gf.length /\ s.chunkNum = gf.chunkNum /\ s.pending = gf.pending
  /\ s.chunks = store.chunks /\ s.left = n /\ s.ok = TRUE /\ s.down = FALSE /\ s.ret = <<>>

\* That holds of what a call with a handle begins with.
LEMMA WorkingIs ==
  ASSUME FileInv, mode \in {"writer", "reader"}, NEW n \in Nat
  PROVE  WorksOn(Working(n), n)
<1> DEFINE s == Working(n)
           e == Seen
<1>1. /\ gf \in [pos : Nat, length : Nat, chunkNum : Nat, pending : Seq(Byte)]
      /\ store.chunks \in ChunkMaps /\ Right(e) /\ ContentLength(e) <= MaxLen /\ mode # "lost" /\ mode # "none"
  BY DEF FileInv
<1>2. /\ s = [pos |-> gf.pos, length |-> gf.length, chunkNum |-> gf.chunkNum, pending |-> gf.pending,
              chunks |-> store.chunks, left |-> n, ok |-> TRUE, down |-> FALSE, ret |-> <<>>]
      /\ e = [pos |-> gf.pos, length |-> gf.length, chunkNum |-> gf.chunkNum, pending |-> gf.pending,
              chunks |-> store.chunks, left |-> 0, ok |-> TRUE, down |-> FALSE, ret |-> <<>>]
  BY <1>1 DEF Seen, Working
<1>3. <<>> \in Seq(Byte \cup Nat)
  OBVIOUS
<1> HIDE DEF s, e
<1>4. s \in FileState /\ e \in FileState
  BY <1>1, <1>2, <1>3 DEF FileState
<1>5. SameFile(e, s)
  BY <1>2, <1>4 DEF SameFile
<1>6. Right(s) /\ BytesOf(s) = BytesOf(e) /\ ContentLength(s) = ContentLength(e)
  BY <1>1, <1>5, SameFileKeeps
<1>7. Content = BytesOf(e)
  BY <1>1 DEF Content, e
<1>8. WorksOn(s, n)
  BY <1>1, <1>2, <1>6, <1>7 DEF WorksOn, e
<1> QED BY <1>8 DEF s

\* What a call that did not lose the file left behind.
LEMMA LeftIs ==
  ASSUME FileInv, mode \in {"writer", "reader"}, NEW t, Right(t), ContentLength(t) <= MaxLen,
         mode = "reader" => t.pending = <<>> /\ t.length = gf.length,
         NEW call, NEW value, NEW half, ~ half, Leaves(call, t, value, half)
  PROVE  /\ FileInv' /\ Content' = BytesOf(t) /\ gf'.pos = t.pos
         /\ fret' = <<call, value>> /\ down' = t.down /\ mode' = mode
<1>1. /\ store' = [store EXCEPT !.chunks = t.chunks]
      /\ gf' = [pos |-> t.pos, length |-> t.length, chunkNum |-> t.chunkNum, pending |-> t.pending]
      /\ fret' = <<call, value>> /\ down' = t.down /\ mode' = mode
  BY DEF Leaves, HandleOf
<1>2. /\ t \in FileState /\ t.pos \in Nat /\ t.length \in Nat /\ t.chunkNum \in Nat /\ t.pending \in Seq(Byte)
      /\ t.chunks \in ChunkMaps
  BY Fields DEF Right
<1>3. store \in [chunks : ChunkMaps, meta : {<<>>} \cup {<<n>> : n \in Nat}]
  BY DEF FileInv
<1>4. /\ store' \in [chunks : ChunkMaps, meta : {<<>>} \cup {<<n>> : n \in Nat}]
      /\ store'.chunks = t.chunks /\ store'.meta = store.meta
  BY <1>1, <1>2, <1>3
<1>5. /\ gf' \in [pos : Nat, length : Nat, chunkNum : Nat, pending : Seq(Byte)]
      /\ gf'.pos = t.pos /\ gf'.length = t.length /\ gf'.pending = t.pending
  BY <1>1, <1>2
<1> DEFINE e == [pos |-> t.pos, length |-> t.length, chunkNum |-> t.chunkNum, pending |-> t.pending,
                 chunks |-> t.chunks, left |-> 0, ok |-> TRUE, down |-> FALSE, ret |-> <<>>]
<1>6. Seen' = e
  BY <1>1, <1>4 DEF Seen, Working
<1>7. SameFile(t, e)
  <2>1. <<>> \in Seq(Byte \cup Nat)
    OBVIOUS
  <2>2. e \in FileState
    BY <1>2, <2>1 DEF FileState
  <2> QED BY <2>2 DEF SameFile
<1> HIDE DEF e
<1>8. Right(e) /\ BytesOf(e) = BytesOf(t) /\ ContentLength(e) = ContentLength(t)
  BY <1>7, SameFileKeeps
<1>9. Content' = BytesOf(t)
  BY <1>1, <1>6, <1>8 DEF Content
<1>10. FileInv'
  BY <1>1, <1>4, <1>5, <1>6, <1>8 DEF FileInv
<1> QED BY <1>1, <1>5, <1>9, <1>10

-----------------------------------------------------------------------------
(* The calls with a handle *)

\* A call that keeps the file and does one of the operations of the abstract file.
LEMMA CallIs ==
  ASSUME Promise!Call, down' \in BOOLEAN, mode # "lost", mode' # "lost"
  PROVE  Promise!Next
BY DEF Promise!Next

\* A call that loses the file.
LEMMA LoseIs ==
  ASSUME fret' = Nothing, down' = TRUE, mode' = "lost"
  PROVE  Promise!Next /\ FileInv'
<1>1. Content' = <<>>
  BY DEF Content
<1>2. Promise!Lose
  BY <1>1 DEF Promise!Lose, Promise!None, Nothing
<1> QED BY <1>2 DEF Promise!Next, FileInv

\* write_buffer puts a front of what it was given into the file, and says how much unless it failed.
LEMMA WriteStep ==
  ASSUME Careful, FileInv, NEW d \in Data, NEW n \in Requests, WriteCall(d, n)
  PROVE  FileInv' /\ Promise!Next
<1> DEFINE s == Working(n)
           t == WriteBuffer(s, d)
<1>1. mode = "writer" /\ gf.pos + Len(d) <= MaxLen /\ Sound(gf, d) /\ Leaves("write", t, t.ret[1], FALSE)
  BY DEF WriteCall
<1>2. n \in Nat /\ d \in Seq(Byte) /\ Len(d) \in Nat /\ MaxLen \in Nat
  BY FileAssumption
<1>3. WorksOn(s, n)
  BY <1>1, <1>2, WorkingIs
<1> HIDE DEF s, t
<1>4. /\ Right(s) /\ BytesOf(s) = Content /\ ContentLength(s) <= MaxLen /\ ContentLength(s) \in Nat
      /\ s.pos = gf.pos /\ s.chunkNum = gf.chunkNum /\ s.pending = gf.pending
      /\ s.left \in Nat /\ s.ok = TRUE /\ s.down = FALSE /\ s.pos \in Nat
  <2>1. Right(s) /\ s.left = n
    BY <1>3 DEF WorksOn
  <2>2. ContentLength(s) \in Nat /\ s.pos \in Nat
    BY <2>1, LengthIs, Fields DEF Right
  <2> QED BY <1>2, <1>3, <2>1, <2>2 DEF WorksOn
<1>5. Sound(s, d)
  BY <1>1, <1>4 DEF Sound
<1>6. FullyWritten(s, t, d) \/ PartlyWritten(s, t, d)
  BY <1>2, <1>4, <1>5, WriteIs DEF t
<1>7. \E m, told \in 0 .. Len(d) :
         /\ Written(s, t, d, m) /\ t.ret = <<told>> /\ told \in {0, m} /\ (t.down \/ told = Len(d))
  <2>1. CASE FullyWritten(s, t, d)
    <3>1. Written(s, t, d, Len(d)) /\ t.ret = <<Len(d)>>
      BY <2>1 DEF FullyWritten
    <3>2. Len(d) \in 0 .. Len(d)
      BY <1>2
    <3> QED BY <3>1, <3>2
  <2>2. CASE PartlyWritten(s, t, d)
    <3>1. PICK m \in 0 .. Len(d), told \in 0 .. Len(d) :
                 Written(s, t, d, m) /\ t.ret = <<told>> /\ told \in {0, m}
      BY <2>2 DEF PartlyWritten
    <3>2. t.down
      BY <2>2, <3>1 DEF PartlyWritten, Written
    <3> QED BY <3>1, <3>2
  <2> QED BY <1>6, <2>1, <2>2
<1>8. PICK m \in 0 .. Len(d), told \in 0 .. Len(d) :
         /\ Written(s, t, d, m) /\ t.ret = <<told>> /\ told \in {0, m} /\ (t.down \/ told = Len(d))
  BY <1>7
<1>9. /\ Right(t) /\ t.pos = s.pos + m /\ BytesOf(t) = Promise!Over(BytesOf(s), s.pos, SubSeq(d, 1, m))
      /\ ContentLength(t) = Bigger(ContentLength(s), s.pos + m)
  BY <1>8 DEF Written
<1>10. ContentLength(t) <= MaxLen
  BY <1>1, <1>2, <1>4, <1>9 DEF Bigger
<1>11. t.ret[1] = told
  BY <1>8
<1>12. /\ FileInv' /\ Content' = BytesOf(t) /\ gf'.pos = t.pos
       /\ fret' = <<"write", told>> /\ down' = t.down /\ mode' = mode
  <2>1. Leaves("write", t, told, FALSE)
    BY <1>1, <1>11
  <2>2. mode \in {"writer", "reader"} /\ mode # "reader"
    BY <1>1
  <2> QED BY <1>9, <1>10, <2>1, <2>2, LeftIs
<1>13. Promise!Write(d)
  <2>1. /\ (IF mode = "lost" THEN 0 ELSE gf.pos)' = (IF mode = "lost" THEN 0 ELSE gf.pos) + m
        /\ Content' = Promise!Over(Content, IF mode = "lost" THEN 0 ELSE gf.pos, SubSeq(d, 1, m))
    BY <1>1, <1>4, <1>9, <1>12
  <2>2. down' \/ told = Len(d)
    BY <1>8, <1>12
  <2> QED BY <1>8, <1>12, <2>1, <2>2 DEF Promise!Write
<1>14. down' \in BOOLEAN
  BY <1>9, <1>12, Fields DEF Right
<1>15. Promise!Call
  BY <1>12, <1>13 DEF Promise!Call
<1> QED BY <1>1, <1>12, <1>14, <1>15, CallIs

\* What a call reads on is read on by the abstract file.
LEMMA ReadKeeps ==
  ASSUME FileInv, mode \in {"writer", "reader"}, NEW n \in Nat, NEW s, WorksOn(s, n), NEW k \in 0 .. MaxLen + 1,
         NEW m \in Nat, m = Smaller(ContentLength(s) - s.pos, k), NEW t, ReadDone(s, t, m),
         Leaves("read", t, t.ret, ~ t.ok)
  PROVE  FileInv' /\ Promise!Next
<1>0. MaxLen \in Nat /\ k \in Nat
  BY FileAssumption
<1>1. /\ Right(s) /\ BytesOf(s) = Content /\ ContentLength(s) <= MaxLen
      /\ s.pos = gf.pos /\ s.length = gf.length /\ s.pending = gf.pending /\ s.ok = TRUE /\ s.ret = <<>>
  BY DEF WorksOn
<1>2. /\ Right(t) /\ BytesOf(t) = BytesOf(s) /\ ContentLength(t) = ContentLength(s)
      /\ t.pos = s.pos + m /\ t.ret = <<>> \o SubSeq(Content, s.pos + 1, s.pos + m)
      /\ t.pending = s.pending /\ t.ok = TRUE
  BY <1>1 DEF ReadDone
<1>3. /\ s.pos \in Nat /\ ContentLength(s) \in Nat /\ s.pos <= ContentLength(s)
      /\ Content \in Seq(Byte) /\ Len(Content) = ContentLength(s) /\ s \in FileState /\ t \in FileState
  BY <1>1, <1>2, BytesAre, LengthIs, Fields DEF Right
<1>4. t.ret = SubSeq(Content, s.pos + 1, s.pos + m)
  <2> DEFINE b == SubSeq(Content, s.pos + 1, s.pos + m)
  <2>1. s.pos + m <= Len(Content)
    BY <1>0, <1>3 DEF Smaller
  <2>2. IsPart(b, Content, s.pos, m)
    BY <1>3, <2>1, PartOf
  <2> HIDE DEF b
  <2>3. b \in Seq(Byte)
    BY <2>2 DEF IsPart
  <2>4. <<>> \o b = b
    BY <2>3, ConcatEmptySeq
  <2> QED BY <1>2, <2>4 DEF b
<1>5. mode = "reader" => t.pending = <<>> /\ t.length = gf.length
  <2>1. SUFFICES ASSUME mode = "reader" PROVE t.pending = <<>> /\ t.length = gf.length
    OBVIOUS
  <2>2. gf.pending = <<>>
    BY <2>1 DEF FileInv
  <2>3. s.pending = <<>> /\ t.pending = <<>>
    BY <1>1, <1>2, <2>2
  <2>4. ContentLength(s) = s.length /\ ContentLength(t) = t.length
    BY <1>3, <2>3, LengthIs
  <2> QED BY <1>1, <1>2, <2>3, <2>4
<1>6. /\ FileInv' /\ Content' = BytesOf(t) /\ gf'.pos = t.pos
      /\ fret' = <<"read", t.ret>> /\ down' = t.down /\ mode' = mode
  <2>1. PICK half : half = ~ t.ok
    OBVIOUS
  <2>2. ~ half /\ Leaves("read", t, t.ret, half)
    BY <1>2, <2>1
  <2> QED BY <1>1, <1>2, <1>5, <2>2, LeftIs
<1>7. Promise!Read(k)
  <2> DEFINE p == IF mode = "lost" THEN 0 ELSE gf.pos
  <2>1. p = s.pos /\ p' = p + m
    BY <1>1, <1>2, <1>6
  <2>2. Promise!Least(k, Len(Content) - p) = m /\ m \in 0 .. m
    <3> HIDE DEF p
    <3> QED BY <1>0, <1>3, <2>1 DEF Promise!Least, Smaller
  <2>3. fret' = <<"read", SubSeq(Content, p + 1, p + m)>> /\ Content' = Content
    BY <1>1, <1>2, <1>4, <1>6
  <2>4. m \in 0 .. Promise!Least(k, Len(Content) - p)
    BY <2>2
  <2> QED BY <2>1, <2>2, <2>3, <2>4 DEF Promise!Read
<1>8. down' \in BOOLEAN
  BY <1>3, <1>6, Fields
<1>9. Promise!Call
  BY <1>6, <1>7 DEF Promise!Call
<1> QED BY <1>6, <1>8, <1>9, CallIs

\* A read in which the program ended loses the file.
LEMMA ReadEnds ==
  ASSUME NEW t, Ended(t), Leaves("read", t, t.ret, ~ t.ok)
  PROVE  FileInv' /\ Promise!Next
<1>1. fret' = Nothing /\ down' = TRUE /\ mode' = "lost"
  BY DEF Leaves, Ended
<1> QED BY <1>1, LoseIs

\* read_buffer gives what is at the position.
LEMMA ReadStep ==
  ASSUME Careful, FileInv, NEW o \in 0 .. MaxLen + 1, NEW n \in Requests, ReadCall(o, n)
  PROVE  FileInv' /\ Promise!Next
<1> DEFINE s == Working(n)
           t == ReadBuffer(s, o)
           m == Smaller(ContentLength(s) - s.pos, o)
<1>1. mode \in {"writer", "reader"} /\ ReadsSoundly(gf, o) /\ Leaves("read", t, t.ret, ~ t.ok)
  BY DEF ReadCall
<1>2. n \in Nat /\ o \in Nat
  BY FileAssumption
<1>3. WorksOn(s, n)
  BY <1>1, <1>2, WorkingIs
<1> HIDE DEF s, t
<1>4. Right(s) /\ s.pos = gf.pos /\ s.length = gf.length /\ s.chunkNum = gf.chunkNum /\ s.pending = gf.pending
  BY <1>3 DEF WorksOn
<1>8. Going(s)
  BY <1>3 DEF WorksOn, Going
<1>5. ReadsSoundly(s, o)
  <2>1. ContentLength(s) = ContentLength(gf)
    BY <1>4 DEF ContentLength
  <2> QED BY <1>1, <1>4, <2>1 DEF ReadsSoundly
<1>6. ReadDone(s, t, m) \/ Ended(t)
  BY <1>2, <1>4, <1>5, <1>8, ReadIs DEF t
<1>7. m \in Nat
  <2>1. s.pos \in Nat /\ ContentLength(s) \in Nat /\ s.pos <= ContentLength(s)
    BY <1>4, LengthIs, Fields DEF Right
  <2> QED BY <1>2, <2>1 DEF Smaller
<1>9. CASE Ended(t)
  BY <1>1, <1>9, ReadEnds
<1>10. CASE ReadDone(s, t, m)
  <2> HIDE DEF m
  <2> QED BY <1>1, <1>2, <1>3, <1>7, <1>10, ReadKeeps DEF m
<1> QED BY <1>6, <1>9, <1>10

\* gridfile_write_file gives all there is from the position on.
LEMMA WriteFileStep ==
  ASSUME Careful, FileInv, NEW n \in Requests, WriteFileCall(n)
  PROVE  FileInv' /\ Promise!Next
<1> DEFINE s == Working(n)
           t == ReadToEnd(s)
           m == ContentLength(s) - s.pos
<1>1. mode \in {"writer", "reader"} /\ (gf.pos % CS = 0 \/ ReadsSoundly(gf, MaxLen)) /\ Leaves("read", t, t.ret, ~ t.ok)
  BY DEF WriteFileCall
<1>2. n \in Nat /\ MaxLen \in Nat /\ MaxLen \in 0 .. MaxLen + 1
  BY FileAssumption
<1>3. WorksOn(s, n)
  BY <1>1, <1>2, WorkingIs
<1> HIDE DEF s, t
<1>4. /\ Right(s) /\ s.pos = gf.pos /\ s.length = gf.length /\ s.chunkNum = gf.chunkNum /\ s.pending = gf.pending
      /\ ContentLength(s) <= MaxLen
  BY <1>3 DEF WorksOn
<1>5. s.pos \in Nat /\ ContentLength(s) \in Nat /\ s.pos <= ContentLength(s) /\ s.chunkNum \in Nat
  BY <1>4, LengthIs, Fields DEF Right
<1>6. ReadSound(s)
  <2> DEFINE c == s.chunkNum
             p == s.pos \div CS
             q == s.pos % CS
  <2>1. SUFFICES ASSUME s.pending # <<>>, q # 0 PROVE ReadSound(s)
    BY DEF ReadSound
  <2>2. ReadsSoundly(s, MaxLen)
    <3>1. ContentLength(s) = ContentLength(gf)
      BY <1>4 DEF ContentLength
    <3>2. ReadsSoundly(gf, MaxLen)
      BY <1>1, <1>4, <2>1
    <3> QED BY <1>4, <3>1, <3>2 DEF ReadsSoundly
  <2>3. Smaller(ContentLength(s) - s.pos, MaxLen) = m
    BY <1>2, <1>4, <1>5 DEF Smaller
  <2>4. p # c \/ s.pos + m <= Base(c) + CS
    <3>1. Base(c + 1) = Base(c) + CS
      BY <1>5, BaseFacts
    <3>2. (c + 1) * CS = Base(c) + CS
      BY <3>1 DEF Base
    <3> QED BY <2>1, <2>2, <2>3, <3>2 DEF ReadsSoundly
  <2>5. p \in Nat /\ q \in Nat /\ q < CS /\ s.pos = Base(p) + q
    BY <1>5, Places
  <2>6. /\ p < c => Base(p) + CS <= Base(c)
        /\ c < p => Base(c) + CS <= Base(p)
    BY <1>5, <2>5, BaseOrder
  <2>7. Base(p) \in Nat /\ Base(c) \in Nat /\ CS \in Nat
    BY <1>5, <2>5, BaseFacts, SizeIs
  <2>8. Base(c) <= s.pos
    BY <1>4, <2>1 DEF Right, PendingRight
  <2> HIDE DEF p, q, c
  <2>9. CASE s.pos + m <= Base(c) + CS
    <3>1. ContentLength(s) <= Base(c) + CS
      BY <1>5, <2>7, <2>9
    <3> QED BY <3>1 DEF ReadSound, c
  <2>10. CASE p # c
    <3>1. c < p
      BY <1>5, <2>5, <2>6, <2>7, <2>8, <2>10 DEF c
    <3>2. Base(c) + CS <= s.pos
      BY <1>5, <2>5, <2>6, <2>7, <3>1
    <3> QED BY <3>2 DEF ReadSound, c
  <2> QED BY <2>4, <2>9, <2>10
<1>9. Going(s)
  BY <1>3 DEF WorksOn, Going
<1>7. ReadDone(s, t, m) \/ Ended(t)
  BY <1>4, <1>6, <1>9, ReadToEndIs DEF t
<1>8. m \in Nat /\ m = Smaller(ContentLength(s) - s.pos, MaxLen)
  BY <1>2, <1>4, <1>5 DEF Smaller
<1> HIDE DEF m
<1>10. CASE Ended(t)
  BY <1>1, <1>10, ReadEnds
<1>11. CASE ReadDone(s, t, m)
  BY <1>1, <1>2, <1>3, <1>8, <1>11, ReadKeeps
<1> QED BY <1>7, <1>10, <1>11

\* A seek moves the position, or leaves it when the pending chunk could not be flushed.
LEMMA SeekStep ==
  ASSUME FileInv, NEW o \in 0 .. MaxLen + 1, NEW n \in Requests, SeekCall(o, n)
  PROVE  FileInv' /\ Promise!Next
<1> DEFINE s == Working(n)
           t == Seek(s, o)
<1>1. mode \in {"writer", "reader"} /\ Leaves("seek", t, t.ret[1], FALSE)
  BY DEF SeekCall
<1>2. n \in Nat /\ o \in Nat /\ MaxLen \in Nat
  BY FileAssumption
<1>3. WorksOn(s, n)
  BY <1>1, <1>2, WorkingIs
<1> HIDE DEF s
<1>4. /\ Right(s) /\ BytesOf(s) = Content /\ ContentLength(s) <= MaxLen
      /\ s.pos = gf.pos /\ s.length = gf.length /\ s.pending = gf.pending /\ s.down = FALSE /\ s.ok = TRUE
  BY <1>3 DEF WorksOn
<1>5. /\ Right(t) /\ BytesOf(t) = BytesOf(s) /\ ContentLength(t) = ContentLength(s)
      /\ SeekDone(s, t, o) \/ SeekFailed(s, t)
  BY <1>2, <1>4, SeekIs
<1>6. t.ret[1] = t.pos /\ (t.pos = Smaller(ContentLength(s), o) \/ (t.down /\ t.pos = s.pos))
  <2> HIDE DEF t
  <2>1. CASE SeekDone(s, t, o)
    BY <2>1 DEF SeekDone
  <2>2. CASE SeekFailed(s, t)
    BY <2>2 DEF SeekFailed
  <2> QED BY <1>5, <2>1, <2>2
<1>7. s \in FileState /\ t \in FileState
  BY <1>4, <1>5 DEF Right
<1>8. mode = "reader" => t.pending = <<>> /\ t.length = gf.length
  <2>1. SUFFICES ASSUME mode = "reader" PROVE t.pending = <<>> /\ t.length = gf.length
    OBVIOUS
  <2>2. gf.pending = <<>>
    BY <2>1 DEF FileInv
  <2>3. s.pending = <<>>
    BY <1>4, <2>2
  <2>4. t.pending = <<>>
    BY <1>2, <1>4, <1>7, <2>3, SeekClosed
  <2> HIDE DEF t
  <2>5. ContentLength(s) = s.length /\ ContentLength(t) = t.length
    BY <1>7, <2>3, <2>4, LengthIs
  <2> QED BY <1>4, <1>5, <2>4, <2>5
<1> HIDE DEF t
<1>9. /\ FileInv' /\ Content' = BytesOf(t) /\ gf'.pos = t.pos
      /\ fret' = <<"seek", t.pos>> /\ down' = t.down /\ mode' = mode
  <2>1. Leaves("seek", t, t.pos, FALSE)
    BY <1>1, <1>6
  <2>2. ContentLength(t) <= MaxLen
    BY <1>4, <1>5
  <2> QED BY <1>1, <1>5, <1>8, <2>1, <2>2, LeftIs
<1>10. Promise!Seek(o)
  <2> DEFINE p == IF mode = "lost" THEN 0 ELSE gf.pos
  <2>1. p = s.pos /\ p' = t.pos
    BY <1>1, <1>4, <1>9
  <2>2. Promise!Least(o, Len(Content)) = Smaller(ContentLength(s), o)
    <3>1. ContentLength(s) \in Nat /\ Len(Content) = ContentLength(s)
      BY <1>4, <1>7, LengthIs, BytesAre
    <3> QED BY <1>2, <3>1 DEF Promise!Least, Smaller
  <2>3. p' = Promise!Least(o, Len(Content)) \/ (down' /\ p' = p)
    BY <1>6, <1>9, <2>1, <2>2
  <2>4. fret' = <<"seek", p'>> /\ Content' = Content
    BY <1>4, <1>5, <1>9, <2>1
  <2> QED BY <2>3, <2>4 DEF Promise!Seek
<1>11. down' \in BOOLEAN
  BY <1>7, <1>9, Fields
<1>12. Promise!Call
  BY <1>9, <1>10 DEF Promise!Call
<1> QED BY <1>1, <1>9, <1>11, <1>12, CallIs

\* What a cut file keeps is its front.
LEMMA TruncateKeeps ==
  ASSUME FileInv, mode = "writer", NEW n \in Nat, NEW s, WorksOn(s, n), NEW o \in 0 .. MaxLen + 1,
         NEW t, t \in FileState, t.down \/ Truncated(s, t, o),
         Leaves("truncate", t, t.ret[1], t.down)
  PROVE  FileInv' /\ Promise!Next
<1>1. t.down \in BOOLEAN
  BY Fields
<1>2. CASE t.down
  <2>1. fret' = Nothing /\ down' = TRUE /\ mode' = "lost"
    BY <1>1, <1>2 DEF Leaves
  <2> QED BY <2>1, LoseIs
<1>3. CASE ~ t.down
  <2>1. Truncated(s, t, o)
    BY <1>3
  <2>2. /\ Right(s) /\ BytesOf(s) = Content /\ ContentLength(s) <= MaxLen /\ s.pos = gf.pos
    BY DEF WorksOn
  <2>3. /\ Right(t) /\ t.pos = Smaller(o, ContentLength(s)) /\ t.ret = <<t.pos>>
        /\ ContentLength(t) = t.pos /\ BytesOf(t) = SubSeq(BytesOf(s), 1, t.pos)
    BY <2>1 DEF Truncated
  <2>4. /\ ContentLength(s) \in Nat /\ Len(Content) = ContentLength(s) /\ o \in Nat /\ MaxLen \in Nat
    <3>1. ContentLength(s) \in Nat /\ Len(Content) = ContentLength(s)
      BY <2>2, LengthIs, BytesAre DEF Right
    <3> QED BY <3>1, FileAssumption
  <2>5. ContentLength(t) <= MaxLen /\ t.pos = Promise!Least(o, Len(Content))
    BY <2>2, <2>3, <2>4 DEF Smaller, Promise!Least
  <2>6. /\ FileInv' /\ Content' = BytesOf(t) /\ gf'.pos = t.pos
        /\ fret' = <<"truncate", t.pos>> /\ down' = t.down /\ mode' = mode
    <3>1. Leaves("truncate", t, t.pos, t.down)
      BY <2>3
    <3>2. ContentLength(t) <= MaxLen /\ Right(t)
      BY <2>3, <2>5
    <3>3. mode \in {"writer", "reader"} /\ (mode = "reader" => t.pending = <<>> /\ t.length = gf.length)
      OBVIOUS
    <3> QED BY <1>3, <3>1, <3>2, <3>3, LeftIs
  <2>7. Promise!Truncate(o)
    <3> DEFINE p == IF mode = "lost" THEN 0 ELSE gf.pos
    <3>1. p' = t.pos
      BY <2>6
    <3>2. fret' = <<"truncate", p'>> /\ p' = Promise!Least(o, Len(Content)) /\ Content' = SubSeq(Content, 1, p')
      BY <2>2, <2>3, <2>5, <2>6, <3>1
    <3> QED BY <3>2 DEF Promise!Truncate
  <2>8. Promise!Call
    BY <2>6, <2>7 DEF Promise!Call
  <2> QED BY <1>1, <2>6, <2>8, CallIs
<1> QED BY <1>2, <1>3

\* An expanded file has zeros behind what it had.
LEMMA ExpandKeeps ==
  ASSUME FileInv, mode = "writer", NEW n \in Nat, NEW s, WorksOn(s, n), NEW k \in 0 .. MaxLen + 1,
         ContentLength(s) + k <= MaxLen, NEW t, t.down = TRUE \/ Expanded(s, t, k),
         Leaves("expand", t, t.ret[1], t.down)
  PROVE  FileInv' /\ Promise!Next
<1>1. CASE t.down = TRUE
  <2>1. fret' = Nothing /\ down' = TRUE /\ mode' = "lost"
    BY <1>1 DEF Leaves
  <2> QED BY <2>1, LoseIs
<1>2. CASE t.down # TRUE
  <2>1. Expanded(s, t, k)
    BY <1>2
  <2>2. Right(s) /\ BytesOf(s) = Content /\ s.pos = gf.pos /\ s.down = FALSE
    BY DEF WorksOn
  <2>3. /\ Right(t) /\ t.pos = ContentLength(s) + k /\ t.ret = <<t.pos>> /\ ContentLength(t) = t.pos
        /\ BytesOf(t) = BytesOf(s) \o Zeros(k)
    BY <2>1 DEF Expanded
  <2>4. t.down \in BOOLEAN /\ ~ t.down
    <3>1. t.down \in BOOLEAN
      BY <2>3, Fields DEF Right
    <3> QED BY <1>2, <3>1
  <2>5. Len(Content) = ContentLength(s)
    BY <2>2, BytesAre
  <2>6. /\ FileInv' /\ Content' = BytesOf(t) /\ gf'.pos = t.pos
        /\ fret' = <<"expand", t.pos>> /\ down' = t.down /\ mode' = mode
    <3>1. Leaves("expand", t, t.pos, t.down)
      BY <2>3
    <3>2. ContentLength(t) <= MaxLen
      BY <2>3
    <3> QED BY <2>3, <2>4, <3>1, <3>2, LeftIs
  <2>7. Promise!Expand(k)
    <3> DEFINE p == IF mode = "lost" THEN 0 ELSE gf.pos
    <3>1. p' = t.pos
      BY <2>6
    <3>2. fret' = <<"expand", p'>> /\ p' = Len(Content) + k /\ Content' = Content \o [i \in 1 .. k |-> Zero]
      BY <2>2, <2>3, <2>5, <2>6, <3>1 DEF Zeros
    <3> QED BY <3>2 DEF Promise!Expand
  <2>8. Promise!Call
    BY <2>6, <2>7 DEF Promise!Call
  <2> QED BY <2>4, <2>6, <2>8, CallIs
<1> QED BY <1>1, <1>2

\* gridfile_truncate cuts the file, or loses it.
LEMMA TruncateStep ==
  ASSUME Careful, FileInv, NEW o \in 0 .. MaxLen + 1, NEW n \in Requests, TruncateCall(o, n)
  PROVE  FileInv' /\ Promise!Next
<1> DEFINE s == Working(n)
           t == Truncate(s, o)
<1>1. mode = "writer" /\ CutSoundly(gf, o) /\ Leaves("truncate", t, t.ret[1], t.down)
  BY DEF TruncateCall
<1>2. n \in Nat /\ o \in Nat
  BY FileAssumption
<1>3. WorksOn(s, n)
  BY <1>1, <1>2, WorkingIs
<1> HIDE DEF s
<1>4. Right(s) /\ s.ok /\ s.left \in Nat /\ s.chunkNum = gf.chunkNum /\ s.pending = gf.pending
  BY <1>2, <1>3 DEF WorksOn
<1>5. CutSoundly(s, o)
  BY <1>1, <1>4 DEF CutSoundly
<1>6. t \in FileState /\ (t.down \/ Truncated(s, t, o))
  BY <1>2, <1>4, <1>5, TruncateIs
<1> HIDE DEF t
<1> QED BY <1>1, <1>2, <1>3, <1>6, TruncateKeeps

\* gridfile_expand puts zeros behind the file, or loses it.
LEMMA ExpandStep ==
  ASSUME Careful, FileInv, NEW k \in 0 .. MaxLen + 1, NEW n \in Requests, ExpandCall(k, n)
  PROVE  FileInv' /\ Promise!Next
<1> DEFINE s == Working(n)
           t == Expand(s, k)
<1>1. mode = "writer" /\ ContentLength(gf) + k <= MaxLen /\ Leaves("expand", t, t.ret[1], t.down)
  BY DEF ExpandCall
<1>2. n \in Nat /\ k \in Nat
  BY FileAssumption
<1>3. WorksOn(s, n)
  BY <1>1, <1>2, WorkingIs
<1> HIDE DEF s
<1>4. /\ Right(s) /\ s.ok /\ s.left \in Nat
      /\ s.length = gf.length /\ s.chunkNum = gf.chunkNum /\ s.pending = gf.pending
  BY <1>2, <1>3 DEF WorksOn
<1>5. ContentLength(s) + k <= MaxLen
  BY <1>1, <1>4 DEF ContentLength
<1>6. t.down = TRUE \/ Expanded(s, t, k)
  BY <1>2, <1>4, ExpandIs
<1> HIDE DEF t
<1> QED BY <1>1, <1>2, <1>3, <1>5, <1>6, ExpandKeeps

\* gridfile_set_size does one or the other.
LEMMA SetSizeStep ==
  ASSUME Careful, FileInv, NEW o \in 0 .. MaxLen + 1, NEW n \in Requests, SetSizeCall(o, n)
  PROVE  FileInv' /\ Promise!Next
<1> DEFINE s == Working(n)
           t == SetSize(s, o)
           call == IF o <= ContentLength(gf) THEN "truncate" ELSE "expand"
<1>1. mode = "writer" /\ o <= MaxLen /\ CutSoundly(gf, o) /\ Leaves(call, t, t.ret[1], t.down)
  BY DEF SetSizeCall
<1>2. n \in Nat /\ o \in Nat /\ MaxLen \in Nat
  BY FileAssumption
<1>3. WorksOn(s, n)
  BY <1>1, <1>2, WorkingIs
<1> HIDE DEF s
<1>4. /\ Right(s) /\ s.ok /\ s.left \in Nat /\ ContentLength(s) \in Nat
      /\ s.length = gf.length /\ s.chunkNum = gf.chunkNum /\ s.pending = gf.pending
  <2>1. Right(s)
    BY <1>3 DEF WorksOn
  <2>2. ContentLength(s) \in Nat
    BY <2>1, LengthIs DEF Right
  <2> QED BY <1>2, <1>3, <2>1, <2>2 DEF WorksOn
<1>5. ContentLength(s) = ContentLength(gf)
  BY <1>4 DEF ContentLength
<1>6. CASE o <= ContentLength(s)
  <2>1. t = Truncate(s, o) /\ call = "truncate"
    BY <1>5, <1>6 DEF SetSize
  <2>2. CutSoundly(s, o)
    BY <1>1, <1>4 DEF CutSoundly
  <2> HIDE DEF t, call
  <2>3. t \in FileState /\ (t.down \/ Truncated(s, t, o))
    BY <1>2, <1>4, <2>1, <2>2, TruncateIs
  <2> QED BY <1>1, <1>2, <1>3, <2>1, <2>3, TruncateKeeps
<1>7. CASE ~ (o <= ContentLength(s))
  <2> DEFINE k == o - ContentLength(s)
  <2>1. t = Expand(s, k) /\ call = "expand"
    BY <1>5, <1>7 DEF SetSize
  <2>2. k \in Nat /\ k \in 0 .. MaxLen + 1 /\ ContentLength(s) + k <= MaxLen
    BY <1>1, <1>2, <1>4, <1>7
  <2> HIDE DEF t, call, k
  <2>3. t.down = TRUE \/ Expanded(s, t, k)
    BY <1>4, <2>1, <2>2, ExpandIs
  <2> QED BY <1>1, <1>2, <1>3, <2>1, <2>2, <2>3, ExpandKeeps
<1> QED BY <1>6, <1>7

-----------------------------------------------------------------------------
(* The calls that make and end a handle, and the specification *)

\* At its start and with nothing pending the file is the one of the server, with a handle and without.
AtStart(t) ==
  /\ store' \in [chunks : ChunkMaps, meta : {<<>>} \cup {<<n>> : n \in Nat}]
  /\ store'.chunks = t.chunks /\ StoredLength' = t.length
  /\ \/ mode' = "none" /\ gf' = Fresh
     \/ /\ mode' \in {"writer", "reader"} /\ gf' = [Fresh EXCEPT !.length = t.length]
        /\ mode' = "reader" => store'.meta # <<>>

\* The file is right then, and its bytes are those of t.
LEMMA AtStartIs ==
  ASSUME NEW t, Right(t), t.pending = <<>>, ContentLength(t) <= MaxLen, AtStart(t)
  PROVE  FileInv' /\ Content' = BytesOf(t) /\ gf'.pos = 0 /\ mode' # "lost"
<1> DEFINE e == Seen'
<1>1. t.length \in Nat /\ t.chunks \in ChunkMaps
  BY Fields DEF Right
<1> DEFINE l == IF mode' = "none" THEN 0 ELSE t.length
<1>2. /\ gf' = [pos |-> 0, length |-> l, chunkNum |-> 0, pending |-> <<>>]
      /\ l \in Nat /\ (mode' # "none" => l = t.length) /\ (mode' = "none" => gf' = Fresh)
      /\ mode' \in {"none", "writer", "reader"}
  BY <1>1 DEF AtStart, Fresh
<1> HIDE DEF l
<1>3. /\ store' \in [chunks : ChunkMaps, meta : {<<>>} \cup {<<n>> : n \in Nat}]
      /\ store'.chunks = t.chunks /\ StoredLength' = t.length
      /\ mode' = "reader" => store'.meta # <<>>
  BY <1>2 DEF AtStart
<1> HIDE DEF e
<1>5. e \in FileState /\ e.pending = <<>> /\ e.length = t.length /\ e.chunks = t.chunks /\ e.pos = 0
  <2> DEFINE w == Working(0)'
  <2>1. w = [pos |-> 0, length |-> l, chunkNum |-> 0, pending |-> <<>>,
             chunks |-> t.chunks, left |-> 0, ok |-> TRUE, down |-> FALSE, ret |-> <<>>]
    BY <1>2, <1>3 DEF Working
  <2>2. e = [w EXCEPT !.length = IF mode' = "none" THEN t.length ELSE @]
    BY <1>3 DEF Seen, e
  <2>3. <<>> \in Seq(Byte \cup Nat) /\ <<>> \in Seq(Byte)
    OBVIOUS
  <2> HIDE DEF w
  <2>4. w \in FileState /\ w.pending = <<>> /\ w.chunks = t.chunks /\ w.pos = 0 /\ w.length = l
    BY <1>1, <1>2, <2>1, <2>3 DEF FileState
  <2>5. e = [w EXCEPT !.length = t.length]
    BY <1>2, <2>2, <2>4
  <2> QED BY <1>1, <2>4, <2>5 DEF FileState
<1>6. Right(e) /\ BytesOf(e) = BytesOf(t) /\ ContentLength(e) = ContentLength(t)
  <2>1. e.pos <= e.length
    BY <1>1, <1>5
  <2> QED BY <1>5, <2>1, ClosedKeeps
<1>7. Content' = BytesOf(t)
  BY <1>2, <1>6 DEF Content, e
<1>8. gf' \in [pos : Nat, length : Nat, chunkNum : Nat, pending : Seq(Byte)]
  <2>1. <<>> \in Seq(Byte)
    OBVIOUS
  <2> QED BY <1>2, <2>1
<1>9. mode' = "reader" => gf'.pending = <<>> /\ store'.meta = <<gf'.length>>
  <2>1. store'.meta # <<>> => store'.meta = <<StoredLength'>>
    <3>1. CASE store'.meta = <<>>
      BY <3>1
    <3>2. CASE store'.meta # <<>>
      <4>1. PICK n \in Nat : store'.meta = <<n>>
        BY <1>3, <3>2
      <4> QED BY <3>2, <4>1 DEF StoredLength
    <3> QED BY <3>1, <3>2
  <2> QED BY <1>2, <1>3, <2>1
<1>10. FileInv'
  BY <1>2, <1>3, <1>6, <1>8, <1>9 DEF FileInv, e
<1> QED BY <1>2, <1>7, <1>10

\* What the program sees without a handle.
SeenClosed(e) ==
  /\ Right(e) /\ e.pending = <<>> /\ ContentLength(e) <= MaxLen /\ BytesOf(e) = Content
  /\ e.length = StoredLength /\ e.chunks = store.chunks /\ e.pos = 0

\* That holds of what the program sees.
LEMMA SeenClosedIs ==
  ASSUME FileInv, mode = "none"
  PROVE  SeenClosed(Seen)
<1>1. Right(Seen) /\ ContentLength(Seen) <= MaxLen /\ gf = Fresh
  BY DEF FileInv
<1>2. Content = BytesOf(Seen)
  BY DEF Content
<1>3. Seen.pending = <<>> /\ Seen.length = StoredLength /\ Seen.chunks = store.chunks /\ Seen.pos = 0
  BY <1>1 DEF Seen, Working, Fresh
<1> QED BY <1>1, <1>2, <1>3 DEF SeenClosed

\* Closed and opened again the file is what it was, at its start.
LEMMA ReopenIs ==
  ASSUME mode # "lost", AtStart(Seen), Right(Seen), Seen.pending = <<>>, ContentLength(Seen) <= MaxLen,
         fret' = Nothing, down' = FALSE
  PROVE  FileInv' /\ Promise!Next
<1>1. FileInv' /\ Content' = BytesOf(Seen) /\ gf'.pos = 0 /\ mode' # "lost"
  BY AtStartIs
<1>2. Content = BytesOf(Seen)
  BY DEF Content
<1>3. Promise!Reopen
  <2> DEFINE p == IF mode = "lost" THEN 0 ELSE gf.pos
  <2>1. p' = 0
    BY <1>1
  <2> QED BY <1>1, <1>2, <2>1 DEF Promise!Reopen, Promise!None, Nothing
<1>4. Promise!Call
  BY <1>3 DEF Promise!Call
<1> QED BY <1>1, <1>4, CallIs

\* A handle is made, and the one of a reader destroyed: the file is as it was.
LEMMA OpenStep ==
  ASSUME FileInv, NEW m \in {"writer", "reader"}, Open(m)
  PROVE  FileInv' /\ Promise!Next
<1>1. /\ mode = "none" /\ (m = "reader" => store.meta # <<>>) /\ gf' = [Fresh EXCEPT !.length = StoredLength]
      /\ mode' = m /\ fret' = Nothing /\ down' = FALSE /\ store' = store
  BY DEF Open
<1>2. SeenClosed(Seen)
  BY <1>1, SeenClosedIs
<1>3. store \in [chunks : ChunkMaps, meta : {<<>>} \cup {<<n>> : n \in Nat}]
  BY <1>1 DEF FileInv
<1>4. StoredLength' = StoredLength
  BY <1>1 DEF StoredLength
<1>5. AtStart(Seen)
  BY <1>1, <1>2, <1>3, <1>4 DEF AtStart, SeenClosed
<1> QED BY <1>1, <1>2, <1>5, ReopenIs DEF SeenClosed

\* A handle that was only read with is destroyed: the file is as it was.
LEMMA CloseStep ==
  ASSUME FileInv, CloseReader
  PROVE  FileInv' /\ Promise!Next
<1>1. mode = "reader" /\ gf' = Fresh /\ mode' = "none" /\ fret' = Nothing /\ down' = FALSE /\ store' = store
  BY DEF CloseReader
<1>2. /\ store \in [chunks : ChunkMaps, meta : {<<>>} \cup {<<n>> : n \in Nat}]
      /\ Right(Seen) /\ ContentLength(Seen) <= MaxLen /\ gf.pending = <<>> /\ store.meta = <<gf.length>>
  BY <1>1 DEF FileInv
<1>3. Seen.pending = <<>> /\ Seen.length = gf.length /\ Seen.chunks = store.chunks
  BY <1>1, <1>2 DEF Seen, Working
<1>4. StoredLength' = gf.length
  BY <1>1, <1>2 DEF StoredLength
<1>5. AtStart(Seen)
  BY <1>1, <1>2, <1>3, <1>4 DEF AtStart
<1> QED BY <1>1, <1>2, <1>3, <1>5, ReopenIs

\* writer_done leaves the file in the server, or loses it.
LEMMA DoneStep ==
  ASSUME FileInv, NEW n \in Requests, DoneCall(n)
  PROVE  FileInv' /\ Promise!Next
<1> DEFINE s == Working(n)
           t == Finished(s)
<1>1. /\ mode = "writer" /\ store' = [chunks |-> t.chunks, meta |-> IF t.ok THEN <<t.length>> ELSE store.meta]
      /\ gf' = (IF t.ok THEN Fresh ELSE HandleOf(t)) /\ mode' = (IF t.ok THEN "none" ELSE "lost")
      /\ down' = t.down /\ fret' = Nothing
  BY DEF DoneCall
<1>2. n \in Nat
  BY FileAssumption
<1>3. WorksOn(s, n)
  BY <1>1, <1>2, WorkingIs
<1> HIDE DEF s
<1>4. Right(s) /\ BytesOf(s) = Content /\ ContentLength(s) <= MaxLen /\ s.down = FALSE
  BY <1>3 DEF WorksOn
<1>5. FinishedOf(s, t)
  BY <1>4, FinishedIs
<1> HIDE DEF t
<1>6. CASE ~ t.ok
  <2>1. t.down /\ t.down \in BOOLEAN
    BY <1>5, <1>6, Fields DEF FinishedOf
  <2>2. fret' = Nothing /\ down' = TRUE /\ mode' = "lost"
    BY <1>1, <1>6, <2>1
  <2> QED BY <2>2, LoseIs
<1>7. CASE t.ok
  <2>1. /\ (t.down => s.down) /\ Right(t) /\ t.pending = <<>> /\ BytesOf(t) = BytesOf(s)
        /\ ContentLength(t) = ContentLength(s) /\ t \in FileState
    BY <1>5, <1>7 DEF FinishedOf
  <2>2. t.length \in Nat /\ t.chunks \in ChunkMaps /\ t.down \in BOOLEAN
    BY <2>1, Fields
  <2>3. store' = [chunks |-> t.chunks, meta |-> <<t.length>>] /\ gf' = Fresh /\ mode' = "none"
    BY <1>1, <1>7
  <2>4. AtStart(t)
    BY <2>2, <2>3 DEF AtStart, StoredLength
  <2>5. FileInv' /\ Content' = BytesOf(t) /\ gf'.pos = 0 /\ mode' # "lost"
    BY <1>4, <2>1, <2>4, AtStartIs
  <2>6. Promise!Reopen
    <3> DEFINE p == IF mode = "lost" THEN 0 ELSE gf.pos
    <3>1. p' = 0
      BY <2>5
    <3> QED BY <1>1, <1>4, <2>1, <2>5, <3>1 DEF Promise!Reopen, Promise!None, Nothing
  <2>7. Promise!Call
    BY <2>6 DEF Promise!Call
  <2>8. down' \in BOOLEAN
    BY <1>1, <2>2
  <2> QED BY <1>1, <2>5, <2>7, <2>8, CallIs
<1> QED BY <1>6, <1>7

\* What gridfs_store_buffer works on is what the program sees.
Storing(s, n) ==
  /\ Right(s) /\ BytesOf(s) = Content /\ ContentLength(s) <= MaxLen /\ s.pos = 0 /\ s.pending = <<>>
  /\ s.left = n /\ s.ok = TRUE /\ s.down = FALSE

\* That holds of what gridfs_store_buffer begins with.
LEMMA StoringIs ==
  ASSUME FileInv, mode = "none", NEW n \in Nat, NEW s, s = [Working(n) EXCEPT !.length = StoredLength]
  PROVE  Storing(s, n)
<1> DEFINE e == Seen
           w == Working(n)
<1>1. SeenClosed(e)
  BY SeenClosedIs
<1>2. /\ store \in [chunks : ChunkMaps, meta : {<<>>} \cup {<<k>> : k \in Nat}] /\ gf = Fresh
  BY DEF FileInv
<1>3. StoredLength \in Nat /\ store.chunks \in ChunkMaps
  BY <1>2, StoredIs
<1>4. w = [pos |-> 0, length |-> 0, chunkNum |-> 0, pending |-> <<>>, chunks |-> store.chunks,
           left |-> n, ok |-> TRUE, down |-> FALSE, ret |-> <<>>]
  BY <1>2 DEF Working, Fresh
<1>5. <<>> \in Seq(Byte \cup Nat) /\ <<>> \in Seq(Byte)
  OBVIOUS
<1> HIDE DEF e, w
<1>6. w \in FileState /\ w.pos = 0 /\ w.pending = <<>> /\ w.chunks = store.chunks
      /\ w.left = n /\ w.ok = TRUE /\ w.down = FALSE
  BY <1>3, <1>4, <1>5 DEF FileState
<1>7. s = [w EXCEPT !.length = StoredLength]
  BY DEF w
<1>8. s \in FileState /\ s.pos = 0 /\ s.pending = <<>> /\ s.chunks = store.chunks
      /\ s.left = n /\ s.ok = TRUE /\ s.down = FALSE /\ s.length = StoredLength
  BY <1>3, <1>6, <1>7 DEF FileState
<1>9. /\ Right(e) /\ e.pending = <<>> /\ e.length = StoredLength /\ e.chunks = store.chunks
      /\ BytesOf(e) = Content /\ ContentLength(e) <= MaxLen
  BY <1>1 DEF SeenClosed
<1>10. s.pos <= s.length
  BY <1>3, <1>8
<1>11. Right(s) /\ BytesOf(s) = BytesOf(e) /\ ContentLength(s) = ContentLength(e)
  BY <1>8, <1>9, <1>10, ClosedKeeps
<1> QED BY <1>8, <1>9, <1>11 DEF Storing

\* gridfs_store_buffer leaves the whole buffer over the front of the file in the server, or loses the file.
LEMMA StoreStep ==
  ASSUME FileInv, NEW d \in Data, NEW n \in Requests, StoreCall(d, n)
  PROVE  FileInv' /\ Promise!Next
<1> DEFINE w == [Working(n) EXCEPT !.length = StoredLength]
           s == WriteBuffer(w, d)
           u == [s EXCEPT !.ok = TRUE]
           t == Finished(u)
<1>1. /\ mode = "none" /\ Len(d) <= MaxLen
      /\ store' = [chunks |-> t.chunks, meta |-> IF t.ok THEN <<t.length>> ELSE store.meta]
      /\ mode' = (IF t.down THEN "lost" ELSE "none") /\ gf' = Fresh /\ down' = t.down
      /\ fret' = (IF t.down THEN Nothing ELSE <<"store", Len(d)>>)
  BY DEF StoreCall
<1>2. n \in Nat /\ d \in Seq(Byte) /\ Len(d) \in Nat /\ MaxLen \in Nat
  BY FileAssumption
<1> HIDE DEF w
<1>3. Storing(w, n)
  BY <1>1, <1>2, StoringIs DEF w
<1>4. /\ Right(w) /\ BytesOf(w) = Content /\ ContentLength(w) <= MaxLen /\ w.pos = 0 /\ w.pending = <<>>
      /\ w.left \in Nat /\ w.ok = TRUE /\ w.down = FALSE
  BY <1>2, <1>3 DEF Storing
<1>5. Sound(w, d)
  BY <1>4 DEF Sound
<1>6. FullyWritten(w, s, d) \/ PartlyWritten(w, s, d)
  BY <1>2, <1>4, <1>5, WriteIs
<1> HIDE DEF s
<1>7. /\ Right(s) /\ s \in FileState
      /\ \/ Written(w, s, d, Len(d)) /\ s.down = FALSE
         \/ s.down = TRUE
  <2>1. CASE FullyWritten(w, s, d)
    <3>1. Written(w, s, d, Len(d)) /\ s.ok
      BY <2>1 DEF FullyWritten
    <3>2. Right(s) /\ ~ s.down
      BY <1>4, <3>1 DEF Written
    <3>3. s \in FileState
      BY <3>2 DEF Right
    <3>4. s.down = FALSE
      BY <3>2, <3>3, Fields
    <3> QED BY <3>1, <3>2, <3>3, <3>4
  <2>2. CASE PartlyWritten(w, s, d)
    <3>1. Right(s) /\ s.down
      BY <2>2 DEF PartlyWritten, Written
    <3>2. s \in FileState
      BY <3>1 DEF Right
    <3>3. s.down = TRUE
      BY <3>1, <3>2, Fields
    <3> QED BY <3>1, <3>2, <3>3
  <2> QED BY <1>6, <2>1, <2>2
<1>8. SameFile(s, u) /\ u.down = s.down
  BY <1>7 DEF SameFile, FileState
<1> HIDE DEF u
<1>9. Right(u) /\ BytesOf(u) = BytesOf(s) /\ ContentLength(u) = ContentLength(s)
  BY <1>7, <1>8, SameFileKeeps
<1>10. FinishedOf(u, t)
  BY <1>9, FinishedIs
<1> HIDE DEF t
<1>11. t \in FileState /\ t.down \in BOOLEAN
  BY <1>10, Fields DEF FinishedOf
<1>12. CASE t.down
  <2>1. fret' = Nothing /\ down' = TRUE /\ mode' = "lost"
    BY <1>1, <1>11, <1>12
  <2> QED BY <2>1, LoseIs
<1>13. CASE ~ t.down
  <2>1. /\ t.ok /\ Right(t) /\ t.pending = <<>> /\ BytesOf(t) = BytesOf(u)
        /\ ContentLength(t) = ContentLength(u) /\ ~ u.down
    BY <1>10, <1>13 DEF FinishedOf
  <2>2. Written(w, s, d, Len(d))
    BY <1>7, <1>8, <2>1
  <2>3. /\ BytesOf(s) = Promise!Over(BytesOf(w), w.pos, SubSeq(d, 1, Len(d)))
        /\ ContentLength(s) = Bigger(ContentLength(w), w.pos + Len(d))
    BY <2>2 DEF Written
  <2>4. SubSeq(d, 1, Len(d)) = d
    BY <1>2, WholeSeq
  <2>5. BytesOf(t) = Promise!Over(Content, 0, d)
    BY <1>4, <1>9, <2>1, <2>3, <2>4
  <2>6. ContentLength(t) <= MaxLen
    <3>1. ContentLength(w) \in Nat
      BY <1>4, LengthIs DEF Right
    <3> QED BY <1>1, <1>2, <1>4, <1>9, <2>1, <2>3, <3>1 DEF Bigger
  <2>7. t.length \in Nat /\ t.chunks \in ChunkMaps
    BY <1>11, Fields
  <2>8. store' = [chunks |-> t.chunks, meta |-> <<t.length>>] /\ gf' = Fresh /\ mode' = "none"
    BY <1>1, <1>13, <2>1
  <2>9. AtStart(t)
    BY <2>7, <2>8 DEF AtStart, StoredLength
  <2>10. FileInv' /\ Content' = BytesOf(t) /\ gf'.pos = 0 /\ mode' # "lost"
    BY <2>1, <2>6, <2>9, AtStartIs
  <2>11. Promise!Store(d)
    <3> DEFINE p == IF mode = "lost" THEN 0 ELSE gf.pos
    <3>1. p' = 0
      BY <2>10
    <3>2. fret' = <<"store", Len(d)>> /\ Content' = Promise!Over(Content, 0, d)
      BY <1>1, <1>13, <2>5, <2>10
    <3> QED BY <3>1, <3>2 DEF Promise!Store
  <2>12. Promise!Call
    <3>1. fret' = <<"store", Len(d)>>
      BY <1>1, <1>13
    <3> QED BY <2>11, <3>1 DEF Promise!Call
  <2>13. down' \in BOOLEAN
    BY <1>1, <1>11
  <2> QED BY <1>1, <2>10, <2>12, <2>13, CallIs
<1> QED BY <1>12, <1>13

\* A file of nothing.
Empty == [pos |-> 0, length |-> 0, chunkNum |-> 0, pending |-> <<>>, chunks |-> NoChunks,
          left |-> 0, ok |-> TRUE, down |-> FALSE, ret |-> <<>>]

\* The file of nothing is right, and has no bytes.
LEMMA EmptyIs ==
  /\ Right(Empty) /\ Empty.pending = <<>> /\ ContentLength(Empty) = 0 /\ BytesOf(Empty) = <<>>
  /\ Empty.chunks = NoChunks /\ Empty.length = 0 /\ NoChunks \in ChunkMaps
<1>1. NoChunks \in ChunkMaps /\ DOMAIN NoChunks = {}
  <2>1. NoChunks \in [{} -> Seq(Byte)] /\ DOMAIN NoChunks = {}
    BY DEF NoChunks
  <2>2. {} \in SUBSET Nat
    OBVIOUS
  <2> QED BY <2>1, <2>2 DEF ChunkMaps
<1>2. /\ Empty.pending = <<>> /\ Empty.chunks = NoChunks /\ Empty.length = 0 /\ Empty.pos = 0
  BY DEF Empty
<1>3. Empty \in FileState
  <2>1. <<>> \in Seq(Byte \cup Nat) /\ <<>> \in Seq(Byte)
    OBVIOUS
  <2> QED BY <1>1, <2>1 DEF Empty, FileState
<1>4. Whole(NoChunks, 0)
  <2>1. \A i \in Nat : ~ (Base(i) < 0)
    <3>1. TAKE i \in Nat
    <3>2. Base(i) \in Nat
      BY BaseFacts
    <3> QED BY <3>2
  <2>2. {i \in Nat : Base(i) < 0} = {}
    BY <2>1
  <2> QED BY <1>1, <2>2 DEF Whole
<1>5. ContentLength(Empty) = 0
  BY <1>2, <1>3, LengthIs
<1>6. Right(Empty)
  BY <1>2, <1>3, <1>4, <1>5 DEF Right, PendingRight
<1>7. BytesOf(Empty) = <<>>
  <2>1. BytesOf(Empty) \in Seq(Byte) /\ Len(BytesOf(Empty)) = 0
    BY <1>5, <1>6, BytesAre
  <2> QED BY <2>1, EmptySeq
<1> QED BY <1>1, <1>2, <1>5, <1>6, <1>7

\* Where nothing changes in the server the program sees what it saw.
LEMMA UnchangedIs ==
  ASSUME FileInv, mode = "none", store' = store, gf' = Fresh, mode' = mode
  PROVE  FileInv' /\ Content' = Content /\ gf'.pos = 0 /\ mode' # "lost"
<1>1. SeenClosed(Seen)
  BY SeenClosedIs
<1> DEFINE e == Seen
<1>2. /\ Right(e) /\ e.pending = <<>> /\ ContentLength(e) <= MaxLen /\ BytesOf(e) = Content
      /\ e.length = StoredLength /\ e.chunks = store.chunks
  BY <1>1 DEF SeenClosed
<1>3. store \in [chunks : ChunkMaps, meta : {<<>>} \cup {<<n>> : n \in Nat}]
  BY DEF FileInv
<1>4. StoredLength' = StoredLength
  BY DEF StoredLength
<1> HIDE DEF e
<1>5. AtStart(e)
  BY <1>2, <1>3, <1>4 DEF AtStart
<1> QED BY <1>2, <1>5, AtStartIs

\* A removed file is the file of nothing, and a remove that fails removes it or leaves it.
LEMMA RemoveStep ==
  ASSUME FileInv, NEW n \in Requests, RemoveFilename(n)
  PROVE  FileInv' /\ Promise!Next
<1> DEFINE told == IF store.meta /= <<>> /\ n > 2 THEN 0 ELSE -1
           needed == IF store.meta = <<>> THEN 1 ELSE 3
           p == IF mode = "lost" THEN 0 ELSE gf.pos
<1>1. /\ mode = "none" /\ gf' = Fresh /\ mode' = mode
      /\ store' = IF n > 1 THEN [chunks |-> NoChunks, meta |-> <<>>] ELSE store
      /\ fret' = <<"remove", told>> /\ down' = (n < needed)
  BY DEF RemoveFilename
<1>2. n \in Nat
  BY FileAssumption
<1>3. n > 1 => FileInv' /\ Content' = <<>> /\ gf'.pos = 0 /\ mode' # "lost"
  <2>1. SUFFICES ASSUME n > 1 PROVE FileInv' /\ Content' = <<>> /\ gf'.pos = 0 /\ mode' # "lost"
    OBVIOUS
  <2>2. store' = [chunks |-> NoChunks, meta |-> <<>>]
    BY <1>1, <2>1
  <2>3. AtStart(Empty)
    <3>1. store' \in [chunks : ChunkMaps, meta : {<<>>} \cup {<<i>> : i \in Nat}]
      BY <2>2, EmptyIs
    <3>2. store'.chunks = Empty.chunks /\ StoredLength' = Empty.length
      BY <2>2, EmptyIs DEF StoredLength
    <3> QED BY <1>1, <3>1, <3>2 DEF AtStart
  <2>4. ContentLength(Empty) <= MaxLen
    BY EmptyIs, FileAssumption
  <2>5. FileInv' /\ Content' = BytesOf(Empty) /\ gf'.pos = 0 /\ mode' # "lost"
    BY <2>3, <2>4, EmptyIs, AtStartIs
  <2> QED BY <2>5, EmptyIs
<1>4. ~ (n > 1) => FileInv' /\ Content' = Content /\ gf'.pos = 0 /\ mode' # "lost"
  <2>1. SUFFICES ASSUME ~ (n > 1) PROVE FileInv' /\ Content' = Content /\ gf'.pos = 0 /\ mode' # "lost"
    OBVIOUS
  <2>2. store' = store
    BY <1>1, <2>1
  <2> QED BY <1>1, <2>2, UnchangedIs
<1>5. store.meta = <<>> => Content = <<>>
  <2>1. SUFFICES ASSUME store.meta = <<>> PROVE Content = <<>>
    OBVIOUS
  <2>2. SeenClosed(Seen)
    BY <1>1, SeenClosedIs
  <2> DEFINE e == Seen
  <2>3. Right(e) /\ e.pending = <<>> /\ BytesOf(e) = Content /\ e.length = 0
    BY <2>1, <2>2 DEF SeenClosed, StoredLength
  <2> HIDE DEF e
  <2>4. ContentLength(e) = 0
    BY <2>3, LengthIs DEF Right
  <2>5. BytesOf(e) \in Seq(Byte) /\ Len(BytesOf(e)) = 0
    BY <2>3, <2>4, BytesAre
  <2> QED BY <2>3, <2>5, EmptySeq
<1>6. ASSUME store.meta # <<>> /\ n > 2 PROVE Promise!Remove
  <2>1. n > 1 /\ fret' = <<"remove", 0>>
    BY <1>1, <1>2, <1>6
  <2>2. p' = 0
    BY <1>3, <2>1
  <2> QED BY <1>3, <2>1, <2>2 DEF Promise!Remove
<1>7. ASSUME ~ (store.meta # <<>> /\ n > 2) PROVE Promise!Remove
  <2>1. fret' = <<"remove", -1>>
    BY <1>1, <1>7
  <2>2. down' \/ Content = <<>>
    <3>1. CASE store.meta = <<>>
      BY <1>5, <3>1
    <3>2. CASE store.meta # <<>>
      <4>1. n < needed
        BY <1>2, <1>7, <3>2
      <4> HIDE DEF needed
      <4> QED BY <1>1, <4>1
    <3> QED BY <3>1, <3>2
  <2>3. Content' \in {<<>>, Content} /\ gf'.pos = 0 /\ mode' # "lost"
    BY <1>3, <1>4
  <2>4. p' = 0
    BY <2>3
  <2> QED BY <2>1, <2>2, <2>3, <2>4 DEF Promise!Remove
<1>8. Promise!Remove
  BY <1>6, <1>7
<1>9. Promise!Call
  BY <1>8 DEF Promise!Call
<1>10. down' \in BOOLEAN
  <2> HIDE DEF needed
  <2> QED BY <1>1
<1>11. FileInv' /\ mode' # "lost"
  BY <1>3, <1>4
<1> QED BY <1>1, <1>9, <1>10, <1>11, CallIs

\* At first there is no file, and the program sees one of nothing.
LEMMA FileStart ==
  ASSUME FileInit
  PROVE  FileInv /\ Promise!Init
<1> DEFINE e == Seen
           w == Working(0)
<1>1. store = [chunks |-> NoChunks, meta |-> <<>>] /\ gf = Fresh /\ mode = "none" /\ fret = Nothing /\ down = FALSE
  BY DEF FileInit
<1>2. w = Empty /\ StoredLength = 0 /\ gf.pos = 0
  BY <1>1 DEF Working, Fresh, Empty, StoredLength
<1>3. e = [Empty EXCEPT !.length = IF mode = "none" THEN 0 ELSE @]
  BY <1>2 DEF Seen
<1> HIDE DEF e, w
<1>4. e = [Empty EXCEPT !.length = 0]
  BY <1>1, <1>3
<1>5. Empty \in FileState
  BY EmptyIs DEF Right
<1>6. e \in FileState /\ e.pending = <<>> /\ e.length = Empty.length /\ e.chunks = Empty.chunks /\ e.pos = 0
  BY <1>4, <1>5, EmptyIs DEF FileState, Empty
<1>7. Right(e) /\ BytesOf(e) = <<>> /\ ContentLength(e) = 0
  <2>1. e.pos <= e.length
    BY <1>6, EmptyIs
  <2> QED BY <1>6, <2>1, EmptyIs, ClosedKeeps
<1>8. Content = <<>>
  BY <1>1, <1>7 DEF Content, e
<1>9. /\ store \in [chunks : ChunkMaps, meta : {<<>>} \cup {<<n>> : n \in Nat}]
      /\ gf \in [pos : Nat, length : Nat, chunkNum : Nat, pending : Seq(Byte)]
  <2>1. <<>> \in Seq(Byte)
    OBVIOUS
  <2> QED BY <1>1, <2>1, EmptyIs DEF Fresh
<1>10. FileInv
  BY <1>1, <1>7, <1>9, FileAssumption DEF FileInv, e
<1>11. Promise!Init
  BY <1>1, <1>2, <1>8 DEF Promise!Init, Promise!None, Nothing
<1> QED BY <1>10, <1>11

\* A caller that is careful keeps the file right, and each of its calls does what the abstract file does.
LEMMA FileStep ==
  ASSUME Careful, FileInv, FileNext
  PROVE  FileInv' /\ Promise!Next
<1>1. ASSUME NEW d \in Data, NEW n \in Requests, WriteCall(d, n) \/ StoreCall(d, n)
      PROVE  FileInv' /\ Promise!Next
  BY <1>1, WriteStep, StoreStep
<1>2. ASSUME NEW o \in 0 .. MaxLen + 1, NEW n \in Requests,
             ReadCall(o, n) \/ SeekCall(o, n) \/ TruncateCall(o, n) \/ SetSizeCall(o, n) \/ ExpandCall(o, n)
      PROVE  FileInv' /\ Promise!Next
  <2>1. CASE ReadCall(o, n)
    BY <2>1, ReadStep
  <2>2. CASE SeekCall(o, n)
    BY <2>2, SeekStep
  <2>3. CASE TruncateCall(o, n)
    BY <2>3, TruncateStep
  <2>4. CASE SetSizeCall(o, n)
    BY <2>4, SetSizeStep
  <2>5. CASE ExpandCall(o, n)
    BY <2>5, ExpandStep
  <2> QED BY <1>2, <2>1, <2>2, <2>3, <2>4, <2>5
<1>3. ASSUME NEW m \in {"writer", "reader"}, Open(m) PROVE FileInv' /\ Promise!Next
  BY <1>3, OpenStep
<1>4. ASSUME NEW n \in Requests, DoneCall(n) \/ WriteFileCall(n) \/ RemoveFilename(n)
      PROVE  FileInv' /\ Promise!Next
  BY <1>4, DoneStep, WriteFileStep, RemoveStep
<1>5. CASE CloseReader
  BY <1>5, CloseStep
<1> QED BY <1>1, <1>2, <1>3, <1>4, <1>5 DEF FileNext

\* Where nothing changes the file stays right, and the abstract file as it is.
LEMMA FileStutter ==
  ASSUME UNCHANGED filevars
  PROVE  (FileInv => FileInv') /\ UNCHANGED Promise!bytevars
<1>1. store' = store /\ gf' = gf /\ mode' = mode /\ fret' = fret /\ down' = down
  BY DEF filevars
<1>2. StoredLength' = StoredLength
  BY <1>1 DEF StoredLength
<1>3. Seen' = Seen
  BY <1>1, <1>2 DEF Seen, Working
<1>4. Content' = Content
  BY <1>1, <1>3 DEF Content
<1>5. FileInv => FileInv'
  BY <1>1, <1>3 DEF FileInv
<1>6. UNCHANGED Promise!bytevars
  BY <1>1, <1>4 DEF Promise!bytevars
<1> QED BY <1>5, <1>6

\* As long as the caller is careful, what the program sees is a right file: the chunks in the server
\* are all of it and as long as they have to be, and the pending chunk is one of its chunks.
THEOREM RightFile ==
  ASSUME Careful
  PROVE  FileSpec => []FileInv
<1>1. FileInit => FileInv
  BY FileStart
<1>2. FileInv /\ [FileNext]_filevars => FileInv'
  BY FileStep, FileStutter
<1> QED BY <1>1, <1>2, PTL DEF FileSpec

\* The number of chunks of a file is what gridfile_get_numchunks() says.
LEMMA ChunksCounted ==
  ASSUME NEW l \in Nat
  PROVE  {i \in Nat : Base(i) < l} = 0 .. NumChunks(l) - 1
<1> DEFINE q == (l + CS - 1) \div CS
           r == (l + CS - 1) % CS
<1>1. CS \in Nat /\ CS > 0
  BY SizeIs
<1>2. l + CS - 1 \in Nat
  BY <1>1
<1>3. q \in Nat /\ r \in Nat /\ r < CS /\ l + CS - 1 = Base(q) + r
  BY <1>2, Places
<1>4. NumChunks(l) = q
  BY DEF NumChunks
<1> HIDE DEF q, r
<1>5. Base(q) \in Nat
  BY <1>3, BaseFacts
<1>6. ASSUME NEW i \in Nat PROVE Base(i) < l <=> i < q
  <2>1. /\ i < q => Base(i) + CS <= Base(q)
        /\ q < i => Base(q) + CS <= Base(i)
    BY <1>3, BaseOrder
  <2>2. Base(i) \in Nat
    BY BaseFacts
  <2>3. i < q \/ q = i \/ q < i
    BY <1>3
  <2> QED BY <1>1, <1>3, <1>5, <2>1, <2>2, <2>3
<1> QED BY <1>3, <1>4, <1>6

\* Each closed file is whole in the server, as many chunks as the length in its entry gives, each full but
\* for the last (gridfile_write_buffer, gridfile_truncate, gridfile_writer_done).
THEOREM ChunksStayWhole ==
  ASSUME Careful
  PROVE  FileSpec => []WholeChunks
<1>1. FileInv => WholeChunks
  <2>1. SUFFICES ASSUME FileInv, mode = "none", store.meta # <<>>
                 PROVE  /\ DOMAIN store.chunks = 0 .. NumChunks(store.meta[1]) - 1
                        /\ \A i \in DOMAIN store.chunks :
                             Len(store.chunks[i]) = Smaller(CS, store.meta[1] - i * CS)
    BY DEF WholeChunks
  <2>2. SeenClosed(Seen)
    BY <2>1, SeenClosedIs
  <2> DEFINE l == StoredLength
  <2>3. l \in Nat /\ store.meta[1] = l
    <3>1. store \in [chunks : ChunkMaps, meta : {<<>>} \cup {<<n>> : n \in Nat}]
      BY <2>1 DEF FileInv
    <3> QED BY <2>1, <3>1, StoredIs DEF StoredLength
  <2> HIDE DEF l
  <2>4. Whole(store.chunks, l)
    BY <2>2 DEF SeenClosed, Right, l
  <2>5. DOMAIN store.chunks = 0 .. NumChunks(l) - 1
    BY <2>3, <2>4, ChunksCounted DEF Whole
  <2>6. \A i \in DOMAIN store.chunks : Len(store.chunks[i]) = Smaller(CS, l - i * CS)
    BY <2>4 DEF Whole, Base
  <2> QED BY <2>3, <2>5, <2>6
<1> QED BY <1>1, RightFile, PTL

\* As long as the caller is careful, and until the file is lost to it, the chunks, the pending chunk and
\* the requests that fail are not seen: what the program has is a file of bytes with a position.
THEOREM GridFileIsBytes ==
  ASSUME Careful
  PROVE  FileSpec => FileIsBytes
<1>1. FileInit => Promise!Init
  BY FileStart
<1>2. FileInv /\ [FileNext]_filevars => [Promise!Next]_(Promise!bytevars)
  BY FileStep, FileStutter
<1> QED BY <1>1, <1>2, RightFile, PTL DEF FileSpec, FileIsBytes, Promise!ByteSpec
==============================================================================
