------------------------------- MODULE Words --------------------------------
(***************************************************************************)
(* 32-bit unsigned words for sha1.cpp and md5.c.  A word is the pair of    *)
(* its 16-bit halves, high half first, so that every sum the digests take  *)
(* stays within TLC's integers.  The C operators are not code of the       *)
(* repository: the definitions are external.                               *)
(***************************************************************************)
LOCAL INSTANCE Integers
LOCAL INSTANCE Sequences
LOCAL INSTANCE SequencesExt
LOCAL INSTANCE Bitwise

Half == 0 .. 65535
Word == Half \X Half

Both(x, y)   == <<x[1] & y[1], x[2] & y[2]>>
Either(x, y) == <<x[1] | y[1], x[2] | y[2]>>
Odd(x, y)    == <<x[1] ^^ y[1], x[2] ^^ y[2]>>
Neither(x)   == <<65535 - x[1], 65535 - x[2]>>

\* Addition wraps at 2^32.
Plus(x, y) ==
  LET low == x[2] + y[2]
  IN  <<(x[1] + y[1] + low \div 65536) % 65536, low % 65536>>

SumOf(words) == FoldLeft(Plus, <<0, 0>>, words)

\* x <<< n, for n in 1 .. 31.
RotateLeft(n, x) ==
  LET w == IF n >= 16 THEN <<x[2], x[1]>> ELSE x
      k == n % 16
      Moved(a, b) == ((a * 2^k) % 65536) + b \div 2^(16 - k)
  IN  <<Moved(w[1], w[2]), Moved(w[2], w[1])>>

\* Four octets, and the word they make with the highest octet first or last.
BigEndian(o)       == <<o[1] * 256 + o[2], o[3] * 256 + o[4]>>
LittleEndian(o)    == <<o[4] * 256 + o[3], o[2] * 256 + o[1]>>
BigOctets(w)       == <<w[1] \div 256, w[1] % 256, w[2] \div 256, w[2] % 256>>
LittleOctets(w)    == Reverse(BigOctets(w))

Zeros(n) == [i \in 1 .. n |-> 0]

\* The t-th group of four octets of a block, counted from 0.
Group(block, t) == SubSeq(block, 4 * t + 1, 4 * t + 4)
=============================================================================
