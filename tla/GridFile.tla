------------------------------ MODULE GridFile ------------------------------
(***************************************************************************)
(* A GridFS file, gridfs.c: bytes kept as chunks in the server, a handle   *)
(* with one pending chunk in memory, and calls that read, write, seek,     *)
(* truncate and expand.  One handle; the calls of one client run one after *)
(* the other.  In a call the server answers the first `left` requests and  *)
(* none after them.                                                        *)
(*                                                                         *)
(* The functions work on a record s: the handle, the chunks, the requests  *)
(* left, what was returned, and ok, the return code of the step before.    *)
(***************************************************************************)
EXTENDS Integers, Sequences

CONSTANTS CS,        \* DEFAULT_CHUNK_SIZE
          Byte,      \* what a file consists of
          Data,      \* what a caller may write
          Zero,      \* the byte of expand
          Garbage,   \* a byte of pending_data nobody wrote
          MaxLen,    \* bound: the longest file
          Requests,  \* bound: numbers of requests the server answers in a call
          Careful    \* the caller avoids the calls the code gets wrong, see Sound

ASSUME FileAssumption ==
  /\ CS \in Nat \ {0} /\ MaxLen \in Nat /\ Requests \subseteq Nat /\ Careful \in BOOLEAN
  /\ Zero \in Byte /\ Garbage \in Byte /\ Data \subseteq Seq(Byte)

VARIABLES store,  \* the server: [chunks, meta], meta = <<>> or <<length>>
          gf,     \* the handle: [pos, length, chunkNum, pending]
          mode,   \* "none", "writer", "reader", or "lost" after a failure
          fret,   \* what the last call returned
          down    \* a request of the last call was not answered

filevars == <<store, gf, mode, fret, down>>

Bigger(a, b) == IF a < b THEN b ELSE a
Smaller(a, b) == IF a < b THEN a ELSE b
Slice(q, from, to) == SubSeq(q, from, Smaller(to, Len(q)))

Nothing == <<"", <<>>>>
NoChunks == [i \in {} |-> <<>>]
Fresh == [pos |-> 0, length |-> 0, chunkNum |-> 0, pending |-> <<>>]

FileInit == /\ store = [chunks |-> NoChunks, meta |-> <<>>]
            /\ gf = Fresh /\ mode = "none" /\ fret = Nothing /\ down = FALSE

\* The state a call works on.
Working(n) == [pos |-> gf.pos, length |-> gf.length, chunkNum |-> gf.chunkNum,
               pending |-> gf.pending, chunks |-> store.chunks,
               left |-> n, ok |-> TRUE, down |-> FALSE, ret |-> <<>>]

HandleOf(s) == [pos |-> s.pos, length |-> s.length, chunkNum |-> s.chunkNum,
                pending |-> s.pending]

NoReply(s) == [s EXCEPT !.ok = FALSE, !.down = TRUE]
WithChunk(chunks, i, bytes) == [j \in DOMAIN chunks \cup {i} |-> IF j = i THEN bytes ELSE chunks[j]]

ContentLength(s) ==
  Bigger(s.length, IF s.pending = <<>> THEN 0 ELSE s.chunkNum * CS + Len(s.pending))

FlushPending(s) ==
  CASE s.pending = <<>> -> [s EXCEPT !.ok = TRUE]
    [] s.pending /= <<>> /\ s.left = 0 -> NoReply(s)
    [] OTHER -> [s EXCEPT !.ok = TRUE, !.left = @ - 1,
                          !.chunks = WithChunk(@, s.chunkNum, s.pending),
                          !.length = Bigger(@, s.chunkNum * CS + Len(s.pending)),
                          !.chunkNum = @ + 1,
                          !.pending = <<>>]

LoadPending(s) ==
  CASE s.left = 0 -> NoReply(s)
    [] s.left /= 0 /\ s.pos \div CS \notin DOMAIN s.chunks -> [s EXCEPT !.ok = FALSE, !.left = @ - 1]
    [] OTHER -> [s EXCEPT !.ok = TRUE, !.left = @ - 1,
                          !.chunkNum = s.pos \div CS,
                          !.pending = s.chunks[s.pos \div CS]]

\* memcpy() of d into pending_data at offset at
Merged(old, at, d) == [i \in 1..Bigger(Len(old), at + Len(d)) |->
                         IF i \in at + 1..at + Len(d) THEN d[i - at]
                         ELSE IF i <= Len(old) THEN old[i] ELSE Garbage]

(***************************************************************************)
(* gridfile_write_buffer                                                   *)
(***************************************************************************)
Failed(s, told) == [s EXCEPT !.ret = <<told>>, !.ok = FALSE]

\* The chunk of the position is loaded unless there is a pending chunk.
LoadedFor(s, needed) == IF s.pending = <<>> /\ needed THEN LoadPending(s) ELSE [s EXCEPT !.ok = TRUE]

\* From the middle of a chunk: fill it up, and flush it when it is full.
FilledUp(s, d) ==
  [s EXCEPT !.pending = Merged(@, s.pos % CS, d), !.pos = @ + Len(d)]

WriteHead(s, d) ==
  IF ~s.ok THEN s
  ELSE IF (s.pos % CS) + Len(d) >= CS THEN FlushPending(FilledUp(s, d)) ELSE FilledUp(s, d)

\* Whole chunks go to the server at once, past the pending chunk.
WriteFull(s, d, k) ==
  [s EXCEPT !.chunks = [i \in DOMAIN @ \cup s.chunkNum..s.chunkNum + k - 1 |->
                          IF i \in s.chunkNum..s.chunkNum + k - 1
                          THEN SubSeq(d, ((i - s.chunkNum) * CS) + 1, (i - s.chunkNum + 1) * CS)
                          ELSE @[i]],
            !.chunkNum = @ + k, !.pos = @ + k * CS, !.left = @ - k,
            !.length = IF k = 0 THEN @ ELSE Bigger(@, s.pos + k * CS),
            !.ok = (k = Len(d) \div CS), !.down = @ \/ k < Len(d) \div CS]

\* The rest becomes pending, over the chunk that is there if that is longer.
WriteTailBlind(s, d) ==
  IF d = <<>> THEN s ELSE [s EXCEPT !.pending = Merged(@, 0, d), !.pos = @ + Len(d)]
WriteTail(s, d) ==
  IF d = <<>> THEN s
  ELSE LET t == LoadedFor(s, s.pos + Len(d) < s.length)
       IN IF t.ok THEN [t EXCEPT !.pending = Merged(@, 0, d), !.pos = @ + Len(d)] ELSE t

HeadLen(s, d) == IF s.pos % CS = 0 THEN 0 ELSE Smaller(Len(d), CS - (s.pos % CS))

WriteRest(s, d, all) ==
  LET k == Smaller(Len(d) \div CS, s.left)
      t == WriteFull(s, d, k)
      rest == SubSeq(d, (k * CS) + 1, Len(d))
      u == IF t.ok THEN WriteTail(t, rest) ELSE t
  IN IF u.ok THEN [u EXCEPT !.ret = <<all>>] ELSE Failed(u, all - Len(rest))

WriteBuffer(s0, d) ==
  LET s == [s0 EXCEPT !.chunkNum = s0.pos \div CS]
      n == HeadLen(s, d)
      t == IF s.pos % CS = 0 THEN s ELSE WriteHead(LoadedFor(s, TRUE), SubSeq(d, 1, n))
  IN IF t.ok THEN WriteRest(t, SubSeq(d, n + 1, Len(d)), Len(d)) ELSE Failed(t, 0)

(***************************************************************************)
(* gridfile_read_buffer                                                    *)
(***************************************************************************)
InPending(s) == s.pending /= <<>> /\ s.pos \div CS = s.chunkNum

\* gridfile_read_from_pending_buffer
FromPending(s, size) ==
  IF InPending(s)
  THEN Slice(s.pending, (s.pos - s.chunkNum * CS) + 1, (s.pos - s.chunkNum * CS) + size)
  ELSE <<>>

\* gridfile_get_chunks: a turn takes the next chunk there is, if there is one.
ChunkTurn(chunks, r) ==
  LET more == {i \in DOMAIN chunks : i >= r.next}
      i == CHOOSE i \in more : \A j \in more : i <= j
  IN IF more = {} THEN r ELSE [next |-> i + 1, bytes |-> r.bytes \o chunks[i]]

\* gridfile_load_from_chunks: n of the chunks from first on, in order, without
\* what lies before the position in the first.
FromChunks(s, first, n, size) ==
  LET read[k \in 0..n] == IF k = 0 THEN [next |-> first, bytes |-> <<>>]
                          ELSE ChunkTurn(s.chunks, read[k - 1])
  IN Slice(read[n].bytes, (s.pos % CS) + 1, (s.pos % CS) + size)

Got(s, bytes) == [s EXCEPT !.ret = @ \o bytes, !.pos = @ + Len(bytes)]

\* A find that is not answered gives no cursor.  The chunks are taken from it all
\* the same, which ends the program; only where none is wanted it is not used.
ReadChunks(s, first, n, size) ==
  IF s.left = 0 THEN [NoReply(s) EXCEPT !.ok = (n = 0)]
  ELSE Got([s EXCEPT !.left = @ - 1], FromChunks(s, first, n, size))

\* After the pending chunk has been read to its end it is flushed, and the
\* chunks behind it are asked for.  The position, which has moved over what came
\* from the pending chunk, is moved by realSize, which counts it again.
ReadOn(s, first, n, size, got) ==
  IF s.ok THEN [ReadChunks(s, first, n, size) EXCEPT !.pos = @ + Len(got)] ELSE [s EXCEPT !.ok = TRUE]

\* The result is not ok if the program ended in it.
ReadBuffer(s, n) ==
  LET size == Smaller(ContentLength(s) - s.pos, n)
      first == s.pos \div CS
      total == ((s.pos + size - 1) \div CS) - first + 1
      got == FromPending(s, size)
  IN CASE got = <<>> -> ReadChunks(s, IF InPending(s) THEN first + 1 ELSE first, total, size)
       [] got /= <<>> /\ total <= 1 -> Got(s, got)
       [] OTHER -> ReadOn(FlushPending(Got(s, got)), first + 1, total - 1, size - Len(got), got)

\* gridfile_write_file: a chunk at a time, until nothing more is read.
ReadTurn(r) ==
  LET t == ReadBuffer(r.file, CS)
  IN IF r.going THEN [file |-> t, going |-> t.ok /\ Len(t.ret) > Len(r.file.ret)] ELSE r

ReadToEnd(s) ==
  LET turns == ContentLength(s) + 1
      read[k \in 0..turns] == IF k = 0 THEN [file |-> s, going |-> TRUE] ELSE ReadTurn(read[k - 1])
  IN read[turns].file

(***************************************************************************)
(* gridfile_seek, gridfile_truncate, gridfile_expand                       *)
(***************************************************************************)
Outside(s, o) == o >= (s.chunkNum + 1) * CS \/ o < s.chunkNum * CS

Moved(s, o) == IF s.ok THEN [s EXCEPT !.pos = o, !.ret = <<o>>] ELSE [s EXCEPT !.ret = <<s.pos>>]

SeekTo(s, o) == Moved(IF s.pending /= <<>> /\ Outside(s, o) THEN FlushPending(s) ELSE s, o)
Seek(s, offset) == SeekTo(s, Smaller(ContentLength(s), offset))

\* gridfile_remove_chunks
RemoveChunks(s, from) ==
  IF s.left = 0 THEN NoReply(s)
  ELSE [s EXCEPT !.left = @ - 1, !.chunks = [i \in {j \in DOMAIN @ : j < from} |-> @[i]]]

\* The chunk the new end lies in is cut and flushed.
CutChunk(s) ==
  IF s.pos % CS = 0 \/ ~s.ok THEN s
  ELSE LET t == LoadedFor(s, TRUE)
       IN IF t.ok THEN FlushPending([t EXCEPT !.pending = SubSeq(@, 1, s.pos % CS)]) ELSE t

\* The new length is set when all that went before succeeded.
Shortened(s, n) == [s EXCEPT !.length = IF s.ok THEN n ELSE @, !.ret = <<IF s.ok THEN n ELSE s.length>>]

CutAtNext(s, n) == IF s.ok THEN RemoveChunks(s, (n \div CS) + 1) ELSE s
CutAt(s, n) == IF s.ok THEN RemoveChunks(s, (n + CS - 1) \div CS) ELSE s

Truncate(s, n) ==
  CASE n > ContentLength(s) -> Seek(s, ContentLength(s))
    [] n \in 1..ContentLength(s) -> Shortened(CutAt(CutChunk(Seek(s, n)), n), n)
    [] OTHER -> LET t == Shortened(RemoveChunks(s, 0), 0)
                IN [t EXCEPT !.pos = IF t.ok THEN 0 ELSE @]

\* Zeros are written up to the end of a chunk at a time, until not all are.
ExpandTurn(r, size) ==
  LET n == Smaller(CS - (r.cur % CS), size - r.cur)
      t == WriteBuffer(r.file, [i \in 1..n |-> Zero])
  IN IF ~r.going \/ r.cur >= size THEN r
     ELSE IF t.ret = <<n>> THEN [file |-> t, cur |-> r.cur + n, going |-> TRUE]
     ELSE [r EXCEPT !.file = t, !.going = FALSE]

Expand(s, n) ==
  LET end == ContentLength(s)
      turn[k \in 0..n] ==
        IF k = 0 THEN [file |-> [Seek(s, end) EXCEPT !.ok = TRUE], cur |-> end, going |-> TRUE]
        ELSE ExpandTurn(turn[k - 1], end + n)
  IN [turn[n].file EXCEPT !.ret = <<turn[n].cur>>]

\* gridfile_set_size
SetSize(s, n) == IF n <= ContentLength(s) THEN Truncate(s, n) ELSE Expand(s, n - ContentLength(s))

(***************************************************************************)
(* gridfile_writer_done and gridfs_insert_file: flush, the server's md5,   *)
(* the entry of the files collection.                                      *)
(***************************************************************************)
InsertFile(s) == IF ~s.ok THEN s ELSE IF s.left < 2 THEN NoReply(s) ELSE [s EXCEPT !.left = @ - 2]
Finished(s) == InsertFile(FlushPending(s))

(***************************************************************************)
(* The calls of the program.                                               *)
(***************************************************************************)
\* The pending chunk is the one of the position and is not written past, it does
\* not start where the file is cut, and no read begins in it and ends behind it:
\* see the README for what goes wrong else.
Sound(s, d) == s.pending = <<>> \/ (s.pos \div CS = s.chunkNum /\ (s.pos % CS = 0 => Len(d) < CS))
ReadsSoundly(s, n) ==
  s.pending = <<>> \/ s.pos \div CS /= s.chunkNum
    \/ s.pos + Smaller(ContentLength(s) - s.pos, n) <= (s.chunkNum + 1) * CS
CutSoundly(s, n) == s.pending = <<>> \/ (n /= s.chunkNum * CS /\ n > 0)

\* The length in the file's entry
StoredLength == IF store.meta = <<>> THEN 0 ELSE store.meta[1]

\* What a call left behind; a call that failed half way loses the file, and so
\* does one in which the program ended.
Leaves(call, s, value, half) ==
  /\ store' = [store EXCEPT !.chunks = s.chunks]
  /\ gf' = HandleOf(s)
  /\ fret' = IF half THEN Nothing ELSE <<call, value>>
  /\ down' = s.down
  /\ mode' = IF half THEN "lost" ELSE mode

WriteCall(d, n) ==
  /\ mode = "writer"
  /\ gf.pos + Len(d) <= MaxLen
  /\ Careful => Sound(gf, d)
  /\ \E s \in {WriteBuffer(Working(n), d)} : Leaves("write", s, s.ret[1], FALSE)

ReadCall(size, n) ==
  /\ mode \in {"writer", "reader"}
  /\ Careful => ReadsSoundly(gf, size)
  /\ \E s \in {ReadBuffer(Working(n), size)} : Leaves("read", s, s.ret, ~s.ok)

WriteFileCall(n) ==
  /\ mode \in {"writer", "reader"}
  /\ Careful => gf.pos % CS = 0 \/ ReadsSoundly(gf, MaxLen)
  /\ \E s \in {ReadToEnd(Working(n))} : Leaves("read", s, s.ret, ~s.ok)

SeekCall(o, n) ==
  /\ mode \in {"writer", "reader"}
  /\ \E s \in {Seek(Working(n), o)} : Leaves("seek", s, s.ret[1], FALSE)

TruncateCall(o, n) ==
  /\ mode = "writer"
  /\ Careful => CutSoundly(gf, o)
  /\ \E s \in {Truncate(Working(n), o)} : Leaves("truncate", s, s.ret[1], s.down)

ExpandCall(k, n) ==
  /\ mode = "writer"
  /\ ContentLength(gf) + k <= MaxLen
  /\ \E s \in {Expand(Working(n), k)} : Leaves("expand", s, s.ret[1], s.down)

SetSizeCall(o, n) ==
  /\ mode = "writer"
  /\ o <= MaxLen
  /\ Careful => CutSoundly(gf, o)
  /\ \E s \in {SetSize(Working(n), o)} :
       Leaves(IF o <= ContentLength(gf) THEN "truncate" ELSE "expand", s, s.ret[1], s.down)

\* gridfs_find_filename and gridfile_writer_init or gridfile_init
Open(m) ==
  /\ mode = "none"
  /\ m = "reader" => store.meta /= <<>>
  /\ gf' = [Fresh EXCEPT !.length = StoredLength]
  /\ mode' = m /\ fret' = Nothing /\ down' = FALSE
  /\ UNCHANGED store

DoneCall(n) ==
  /\ mode = "writer"
  /\ \E s \in {Finished(Working(n))} :
       /\ store' = [chunks |-> s.chunks, meta |-> IF s.ok THEN <<s.length>> ELSE store.meta]
       /\ gf' = IF s.ok THEN Fresh ELSE HandleOf(s)
       /\ mode' = IF s.ok THEN "none" ELSE "lost"
       /\ down' = s.down /\ fret' = Nothing

\* gridfile_destroy of a file that was only read
CloseReader ==
  /\ mode = "reader"
  /\ gf' = Fresh /\ mode' = "none" /\ fret' = Nothing /\ down' = FALSE
  /\ UNCHANGED store

\* gridfs_store_buffer, and gridfs_store_file, which gives the same bytes in
\* pieces of a chunk.  What writer_done returns is thrown away: with the last
\* chunk or the entry lost the call still says MONGO_OK.
StoreCall(d, n) ==
  /\ mode = "none" /\ Len(d) <= MaxLen
  /\ \E s \in {WriteBuffer([Working(n) EXCEPT !.length = StoredLength], d)} :
     \E t \in {Finished([s EXCEPT !.ok = TRUE])} :
       /\ store' = [chunks |-> t.chunks, meta |-> IF t.ok THEN <<t.length>> ELSE store.meta]
       /\ mode' = IF t.down THEN "lost" ELSE "none"
       /\ gf' = Fresh /\ down' = t.down
       /\ fret' = IF t.down THEN Nothing ELSE <<"store", Len(d)>>

\* gridfs_remove_filename: the entry is looked for, it is removed, and then the
\* chunks; whether the entry was removed is not asked.  Chunks that stay behind
\* belong to no file: their id is not given again.
RemoveFilename(n) ==
  /\ mode = "none"
  /\ store' = IF n > 1 THEN [chunks |-> NoChunks, meta |-> <<>>] ELSE store
  /\ fret' = <<"remove", IF store.meta /= <<>> /\ n > 2 THEN 0 ELSE -1>>
  /\ down' = (n < IF store.meta = <<>> THEN 1 ELSE 3)
  /\ gf' = Fresh /\ UNCHANGED mode

FileNext ==
  \/ \E d \in Data, n \in Requests : WriteCall(d, n) \/ StoreCall(d, n)
  \/ \E o \in 0..MaxLen + 1, n \in Requests :
       ReadCall(o, n) \/ SeekCall(o, n) \/ TruncateCall(o, n) \/ SetSizeCall(o, n) \/ (o > 0 /\ ExpandCall(o, n))
  \/ \E m \in {"writer", "reader"} : Open(m)
  \/ \E n \in Requests : DoneCall(n) \/ WriteFileCall(n) \/ RemoveFilename(n)
  \/ CloseReader

FileSpec == FileInit /\ [][FileNext]_filevars

(***************************************************************************)
(* What the program sees.                                                  *)
(***************************************************************************)
\* Without a handle the file is what the server has.
Seen == [Working(0) EXCEPT !.length = IF mode = "none" THEN StoredLength ELSE @]

ByteAt(s, i) ==
  LET c == i \div CS
      bytes == IF s.pending /= <<>> /\ c = s.chunkNum THEN s.pending
               ELSE IF c \in DOMAIN s.chunks THEN s.chunks[c] ELSE <<>>
  IN IF i % CS < Len(bytes) THEN bytes[(i % CS) + 1] ELSE Garbage

BytesOf(s) == [i \in 1..ContentLength(s) |-> ByteAt(s, i - 1)]

Content == IF mode = "lost" THEN <<>> ELSE BytesOf(Seen)

Promise == INSTANCE ByteFile WITH
  content <- Content, pos <- IF mode = "lost" THEN 0 ELSE gf.pos,
  ret <- fret, lost <- mode = "lost"

\* For a careful caller, and until the file is lost to it, the chunks, the pending
\* chunk and the requests that fail are not seen: it has a file of bytes with a
\* position (gridfile_write_buffer and the rest).
FileIsBytes == Promise!ByteSpec

\* gridfile_get_numchunks
NumChunks(length) == (length + CS - 1) \div CS

\* In the server a closed file is full chunks and a last one, as many as
\* gridfile_get_numchunks() computes from the length of its entry.
WholeChunks ==
  mode = "none" /\ store.meta /= <<>> =>
    /\ DOMAIN store.chunks = 0..NumChunks(store.meta[1]) - 1
    /\ \A i \in DOMAIN store.chunks :
         Len(store.chunks[i]) = Smaller(CS, store.meta[1] - i * CS)
=============================================================================
