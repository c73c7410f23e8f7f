-------------------------------- MODULE Md5 ---------------------------------
(***************************************************************************)
(* md5.c, the digest the driver takes of passwords and the server of       *)
(* files.  As in Sha1, the state is kept as the blocks processed, of which *)
(* abcd is the fold.                                                       *)
(***************************************************************************)
EXTENDS Naturals, Sequences, SequencesExt, Words

CONSTANTS
  Data5,      \* the octets appended, in order
  Chunks5,    \* how many one call of mongo_md5_append may bring
  CountLimit  \* 2^32, where count[0] wraps: a multiple of 512

ASSUME Md5Assumption ==
  /\ Data5 \in Seq(0 .. 255) /\ Chunks5 \subseteq Nat \ {0}
  /\ CountLimit \in Nat \ {0} /\ CountLimit % 512 = 0

VARIABLES
  done5,      \* the blocks given to mongo_md5_process
  buf5,       \* buf, of which the first (count[0] >> 3) & 63 octets are waiting
  count5,     \* count[0] and count[1]
  taken5,     \* history: how many octets of Data5 were appended
  finished5   \* mongo_md5_finish was called

md5Vars == <<done5, buf5, count5, taken5, finished5>>

T == <<
  <<\hD76A, \hA478>>, <<\hE8C7, \hB756>>, <<\h2420, \h70DB>>, <<\hC1BD, \hCEEE>>,
  <<\hF57C, \h0FAF>>, <<\h4787, \hC62A>>, <<\hA830, \h4613>>, <<\hFD46, \h9501>>,
  <<\h6980, \h98D8>>, <<\h8B44, \hF7AF>>, <<\hFFFF, \h5BB1>>, <<\h895C, \hD7BE>>,
  <<\h6B90, \h1122>>, <<\hFD98, \h7193>>, <<\hA679, \h438E>>, <<\h49B4, \h0821>>,
  <<\hF61E, \h2562>>, <<\hC040, \hB340>>, <<\h265E, \h5A51>>, <<\hE9B6, \hC7AA>>,
  <<\hD62F, \h105D>>, <<\h0244, \h1453>>, <<\hD8A1, \hE681>>, <<\hE7D3, \hFBC8>>,
  <<\h21E1, \hCDE6>>, <<\hC337, \h07D6>>, <<\hF4D5, \h0D87>>, <<\h455A, \h14ED>>,
  <<\hA9E3, \hE905>>, <<\hFCEF, \hA3F8>>, <<\h676F, \h02D9>>, <<\h8D2A, \h4C8A>>,
  <<\hFFFA, \h3942>>, <<\h8771, \hF681>>, <<\h6D9D, \h6122>>, <<\hFDE5, \h380C>>,
  <<\hA4BE, \hEA44>>, <<\h4BDE, \hCFA9>>, <<\hF6BB, \h4B60>>, <<\hBEBF, \hBC70>>,
  <<\h289B, \h7EC6>>, <<\hEAA1, \h27FA>>, <<\hD4EF, \h3085>>, <<\h0488, \h1D05>>,
  <<\hD9D4, \hD039>>, <<\hE6DB, \h99E5>>, <<\h1FA2, \h7CF8>>, <<\hC4AC, \h5665>>,
  <<\hF429, \h2244>>, <<\h432A, \hFF97>>, <<\hAB94, \h23A7>>, <<\hFC93, \hA039>>,
  <<\h655B, \h59C3>>, <<\h8F0C, \hCC92>>, <<\hFFEF, \hF47D>>, <<\h8584, \h5DD1>>,
  <<\h6FA8, \h7E4F>>, <<\hFE2C, \hE6E0>>, <<\hA301, \h4314>>, <<\h4E08, \h11A1>>,
  <<\hF753, \h7E82>>, <<\hBD3A, \hF235>>, <<\h2AD7, \hD2BB>>, <<\hEB86, \hD391>> >>

Shifts == << <<7, 12, 17, 22>>, <<5, 9, 14, 20>>, <<4, 11, 16, 23>>, <<6, 10, 15, 21>> >>

InitialAbcd == << <<\h6745, \h2301>>, <<\hEFCD, \hAB89>>, <<\h98BA, \hDCFE>>, <<\h1032, \h5476>> >>

\* F, G, H and I of the four rounds, and the word of the block the i-th operation takes.
MixedBy(round, x, y, z) ==
  CASE round = 1 -> Either(Both(x, y), Both(Neither(x), z))
    [] round = 2 -> Either(Both(x, z), Both(y, Neither(z)))
    [] round = 3 -> Odd(Odd(x, y), z)
    [] OTHER     -> Odd(y, Either(x, Neither(z)))

WordOf(round, i) == CASE round = 1 -> i [] round = 2 -> ((5 * i) + 1) % 16 [] round = 3 -> ((3 * i) + 5) % 16 [] OTHER -> (7 * i) % 16

\* The registers turn by one place from one operation to the next.
mongo_md5_process(abcd, block) ==
  LET set[i \in 0 .. 64, r \in Seq(Word)] ==
        LET round == i \div 16 + 1
            t == SumOf(<<r[1], MixedBy(round, r[2], r[3], r[4]),
                         LittleEndian(Group(block, WordOf(round, i))), T[i + 1]>>)
        IN  IF i = 64 THEN r
            ELSE set[i + 1, <<r[4], Plus(RotateLeft(Shifts[round][(i % 4) + 1], t), r[2]), r[2], r[3]>>]
  IN  [j \in 1 .. 4 |-> Plus(abcd[j], set[0, abcd][j])]

Digest5 == LET abcd == FoldLeft(mongo_md5_process, InitialAbcd, done5)
           IN  FlattenSeq([j \in 1 .. 4 |-> LittleOctets(abcd[j])])

Md5Init == done5 = <<>> /\ buf5 = <<>> /\ count5 = <<0, 0>> /\ taken5 = 0 /\ finished5 = FALSE

\* mongo_md5_append: the initial partial block, the full blocks, the rest.
mongo_md5_append(s, p) ==
  LET bits == 8 * Len(p)
      low == (s.count[1] + bits) % CountLimit
      offset == (s.count[1] \div 8) % 64
      copy == IF offset + Len(p) > 64 THEN 64 - offset ELSE Len(p)
      first == SubSeq(s.buf, 1, offset) \o SubSeq(p, 1, copy)
      left == IF offset = 0 THEN p ELSE SubSeq(p, copy + 1, Len(p))
      full == [k \in 1 .. Len(left) \div 64 |-> SubSeq(left, 64 * k - 63, 64 * k)]
      rest == SubSeq(left, 64 * Len(full) + 1, Len(left))
      count == <<low, (s.count[2] + bits \div CountLimit + (IF low < bits % CountLimit THEN 1 ELSE 0)) % CountLimit>>
  IN  IF p = <<>> THEN s
      ELSE IF offset # 0 /\ Len(first) < 64 THEN [s EXCEPT !.buf = first, !.count = count]
      ELSE [done |-> s.done \o (IF offset = 0 THEN <<>> ELSE <<first>>) \o full,
            buf |-> rest, count |-> count]

Md5State == [done |-> done5, buf |-> buf5, count |-> count5]
Becomes(s) == done5' = s.done /\ buf5' = s.buf /\ count5' = s.count

Append5 == \E n \in Chunks5 :
  /\ ~finished5 /\ taken5 + n <= Len(Data5)
  /\ Becomes(mongo_md5_append(Md5State, SubSeq(Data5, taken5 + 1, taken5 + n)))
  /\ taken5' = taken5 + n /\ UNCHANGED finished5

LengthOctets5 == [i \in 1 .. 8 |-> (count5[(i - 1) \div 4 + 1] \div 256^((i - 1) % 4)) % 256]

\* Padding of 1 to 64 octets, then the length saved before it.
mongo_md5_finish ==
  /\ ~finished5 /\ finished5' = TRUE
  /\ LET used == (count5[1] \div 8) % 64
         pad == <<128>> \o Zeros((119 - used) % 64)
     IN  Becomes(mongo_md5_append(mongo_md5_append(Md5State, pad), LengthOctets5))
  /\ UNCHANGED taken5

Md5Next == Append5 \/ mongo_md5_finish

-----------------------------------------------------------------------------

(* Whatever the calls, the blocks and what waits are the octets appended; the *)
(* last blocks are those of RFC 1321: a one bit, zeros, the length in bits.   *)
Md5BlocksRight ==
  LET fed == SubSeq(Data5, 1, taken5)
      zeros == CHOOSE k \in 0 .. 63 : (taken5 + 9 + k) % 64 = 0
      bits == 8 * taken5
      length == [i \in 1 .. 8 |-> IF i <= 4 THEN ((bits % CountLimit) \div 256^(i - 1)) % 256
                                  ELSE ((bits \div CountLimit) \div 256^(i - 5)) % 256]
  IN  /\ \A i \in DOMAIN done5 : Len(done5[i]) = 64
      /\ FlattenSeq(done5) \o buf5 = IF finished5 THEN Append(fed, 128) \o Zeros(zeros) \o length ELSE fed
=============================================================================
