------------------------------ MODULE ByteFile ------------------------------
(***************************************************************************)
(* What the file functions of gridfs.c promise: a file of bytes with a     *)
(* position, as fopen(3) gives one.  A call that fails may have done part  *)
(* of its work, but says so, and what it did is a front of what it was     *)
(* asked.  After a failed truncate, expand or writer_done, and after a     *)
(* read in which the program ended, nothing is promised any more: the file *)
(* is lost to the program.                                                 *)
(***************************************************************************)
EXTENDS Integers, Sequences

CONSTANTS Data,    \* what a caller may write: sequences of bytes
          Zero,    \* the byte a file is expanded with
          MaxLen   \* bound: a file grows no longer

VARIABLES content,  \* the bytes of the file
          pos,      \* where the next byte is read or written
          ret,      \* the last call and what it returned
          down,     \* the server did not answer the last call
          lost      \* a call failed half way

None == <<"", <<>>>>

bytevars == <<content, pos, ret, down, lost>>

Least(a, b) == IF a < b THEN a ELSE b
Most(a, b) == IF a < b THEN b ELSE a

\* old with d written over it from offset at on
Over(old, at, d) == [i \in 1..Most(Len(old), at + Len(d)) |->
                       IF i \in at + 1..at + Len(d) THEN d[i - at] ELSE old[i]]

Init == content = <<>> /\ pos = 0 /\ ret = None /\ ~down /\ ~lost

\* n bytes are in the file, told is what the caller is told: all of them, but
\* after a failure perhaps none.
Write(d) ==
  \E n, told \in 0..Len(d) :
    /\ pos' = pos + n
    /\ ret' = <<"write", told>>
    /\ told \in {0, n}
    /\ down' \/ told = Len(d)
    /\ content' = Over(content, pos, SubSeq(d, 1, n))

Read(n) ==
  \E m \in 0..Least(n, Len(content) - pos) :
    /\ pos' = pos + m
    /\ down' \/ m = Least(n, Len(content) - pos)
    /\ ret' = <<"read", SubSeq(content, pos + 1, pos + m)>>
    /\ content' = content

Seek(o) ==
  /\ ret' = <<"seek", pos'>>
  /\ pos' = Least(o, Len(content)) \/ (down' /\ pos' = pos)
  /\ content' = content

\* Longer than the file, it only moves to the end.
Truncate(n) ==
  /\ ret' = <<"truncate", pos'>>
  /\ pos' = Least(n, Len(content))
  /\ content' = SubSeq(content, 1, pos')

Expand(n) ==
  /\ ret' = <<"expand", pos'>>
  /\ pos' = Len(content) + n
  /\ content' = content \o [i \in 1..n |-> Zero]

\* The file is closed and opened again, at its start.
Reopen == ret' = None /\ pos' = 0 /\ content' = content

\* A whole buffer is stored over the front of what is there.
Store(d) == ret' = <<"store", Len(d)>> /\ pos' = 0 /\ content' = Over(content, 0, d)

\* A remove that fails has removed the file or not; there may have been none.
Remove ==
  /\ pos' = 0
  /\ \/ ret' = <<"remove", 0>> /\ content' = <<>>
     \/ ret' = <<"remove", -1>> /\ content' \in {<<>>, content} /\ (down' \/ content = <<>>)

Lose == ret' = None /\ down' /\ lost' /\ pos' = 0 /\ content' = <<>>

Call ==
  \/ ret'[1] \in {"write", "store"} /\ \E d \in Data : Write(d) \/ Store(d)
  \/ ret'[1] \in {"read", "seek", "truncate", "expand"} /\
       \E n \in 0..MaxLen + 1 : Read(n) \/ Seek(n) \/ Truncate(n) \/ Expand(n)
  \/ Reopen \/ Remove

Next == (Call /\ down' \in BOOLEAN /\ lost' = lost) \/ Lose

ByteSpec == Init /\ [][Next]_bytevars
=============================================================================
