-------------------------------- MODULE Sha1 --------------------------------
(***************************************************************************)
(* sha1.cpp: the SHA1 object.  What a block does to the five words of H is *)
(* ProcessMessageBlock; the object itself is kept as the blocks it has     *)
(* processed, of which H is the fold, because what goes wrong in such code *)
(* is which octets end up in which block.                                  *)
(***************************************************************************)
EXTENDS Naturals, Sequences, SequencesExt, Base64, Words

CONSTANTS
  Text,        \* the octets fed to the object, in order
  LowLimit,    \* 2^32, where Length_Low wraps: a multiple of 8
  HighLimit,   \* 2^32, where Length_High wraps
  KnownAccepts \* external: [number of octets of Text -> base64 of their SHA-1]

ASSUME Sha1Assumption ==
  /\ Text \in Seq(0 .. 255)
  /\ LowLimit \in Nat \ {0} /\ LowLimit % 8 = 0
  /\ HighLimit \in Nat \ {0}

VARIABLES
  processed,     \* the blocks given to ProcessMessageBlock since Reset
  messageBlock,  \* Message_Block, the first Message_Block_Index octets
  lengthLow, lengthHigh,
  computed, corrupted,
  fed,           \* history: the octets of Text offered since Reset
  given          \* the last call of Result returned true

shaVars == <<processed, messageBlock, lengthLow, lengthHigh, computed, corrupted, fed, given>>

InitialH == << <<\h6745, \h2301>>, <<\hEFCD, \hAB89>>, <<\h98BA, \hDCFE>>,
               <<\h1032, \h5476>>, <<\hC3D2, \hE1F0>> >>

K == << <<\h5A82, \h7999>>, <<\h6ED9, \hEBA1>>, <<\h8F1B, \hBCDC>>, <<\hCA62, \hC1D6>> >>

\* The eighty words a block is stretched to.
Schedule(block) ==
  LET stretch[t \in 17 .. 81, w \in Seq(Word)] ==
        IF t > 80 THEN w
        ELSE stretch[t + 1, Append(w, RotateLeft(1, Odd(Odd(w[t - 3], w[t - 8]), Odd(w[t - 14], w[t - 16]))))]
  IN  stretch[17, [t \in 1 .. 16 |-> BigEndian(Group(block, t - 1))]]

\* What rounds 0-19, 20-39, 40-59 and 60-79 mix of B, C and D.
Mixed(quarter, b, c, d) ==
  CASE quarter = 1 -> Either(Both(b, c), Both(Neither(b), d))
    [] quarter = 3 -> Either(Either(Both(b, c), Both(b, d)), Both(c, d))
    [] OTHER       -> Odd(Odd(b, c), d)

ProcessMessageBlock(h, block) ==
  LET w == Schedule(block)
      round[t \in 1 .. 81, x \in Seq(Word)] ==
        LET q == (t - 1) \div 20 + 1
        IN  IF t > 80 THEN x
            ELSE round[t + 1, <<SumOf(<<RotateLeft(5, x[1]), Mixed(q, x[2], x[3], x[4]), x[5], w[t], K[q]>>),
                                x[1], RotateLeft(30, x[2]), x[3], x[4]>>]
  IN  [i \in 1 .. 5 |-> Plus(h[i], round[1, h][i])]

Digest == FoldLeft(ProcessMessageBlock, InitialH, processed)

\* parse_str of the handshake: the digest of the key and MAGIC_KEY, highest octet first, in base64.
Accept == base64_encode(FlattenSeq([i \in 1 .. 5 |-> BigOctets(Digest[i])]))

ShaInit ==
  /\ processed = <<>> /\ messageBlock = <<>>
  /\ lengthLow = 0 /\ lengthHigh = 0
  /\ computed = FALSE /\ corrupted = FALSE
  /\ fed = <<>> /\ given = FALSE

Reset ==
  /\ processed' = <<>> /\ messageBlock' = <<>>
  /\ lengthLow' = 0 /\ lengthHigh' = 0
  /\ computed' = FALSE /\ corrupted' = FALSE
  /\ fed' = <<>> /\ given' = FALSE

\* Input() of one octet; of more, and the operators <<, one octet after another.
Input ==
  /\ Len(fed) < Len(Text)
  /\ given' = FALSE
  /\ IF computed \/ corrupted
       THEN corrupted' = TRUE /\ UNCHANGED <<processed, messageBlock, lengthLow, lengthHigh, computed, fed>>
       ELSE LET octet == Text[Len(fed) + 1]
                block == Append(messageBlock, octet)
                wraps == lengthLow + 8 = LowLimit
            IN  /\ fed' = Append(fed, octet)
                /\ lengthLow' = (lengthLow + 8) % LowLimit
                /\ lengthHigh' = IF wraps THEN (lengthHigh + 1) % HighLimit ELSE lengthHigh
                /\ corrupted' = (wraps /\ lengthHigh' = 0)
                /\ IF Len(block) = 64
                     THEN processed' = Append(processed, block) /\ messageBlock' = <<>>
                     ELSE messageBlock' = block /\ UNCHANGED processed
                /\ UNCHANGED computed

LengthField == LET Octets(v) == [i \in 1 .. 4 |-> (v \div 256^(4 - i)) % 256]
               IN  Octets(lengthHigh) \o Octets(lengthLow)

\* The blocks when the index is compared one too far: the marker no longer fits before the length.
PadLate ==
  IF Len(messageBlock) > 56
    THEN << Append(messageBlock, 128) \o Zeros(63 - Len(messageBlock)), Zeros(56) \o LengthField >>
    ELSE << SubSeq(Append(messageBlock, 128) \o Zeros(56), 1, 56) \o LengthField >>

\* PadMessage: the blocks it processes, one or two as the index allows.
PadMessage ==
  IF Len(messageBlock) > 55
    THEN << Append(messageBlock, 128) \o Zeros(63 - Len(messageBlock)), Zeros(56) \o LengthField >>
    ELSE << Append(messageBlock, 128) \o Zeros(55 - Len(messageBlock)) \o LengthField >>

Result ==
  /\ given' = ~corrupted
  /\ IF corrupted \/ computed
       THEN UNCHANGED <<processed, messageBlock, computed>>
       ELSE processed' = processed \o PadMessage /\ messageBlock' = <<>> /\ computed' = TRUE
  /\ UNCHANGED <<lengthLow, lengthHigh, corrupted, fed>>

ShaNext == Reset \/ Input \/ Result

-----------------------------------------------------------------------------

(* FIPS 180: a message is followed by a one bit, as few zeros as make whole blocks, and its length. *)
Padded(m) ==
  LET zeros == CHOOSE k \in 0 .. 63 : (Len(m) + 1 + k + 8) % 64 = 0
      bits == 8 * Len(m)
      length == [i \in 1 .. 8 |-> IF i <= 4 THEN ((bits \div LowLimit) \div 256^(4 - i)) % 256
                                  ELSE ((bits % LowLimit) \div 256^(8 - i)) % 256]
  IN  Append(m, 128) \o Zeros(zeros) \o length

(* While a message is fed, the blocks and the rest are its octets; a digest is *)
(* given only of the padded message, and never once the object is corrupted,   *)
(* by an octet after the result or by a message too long for its length field. *)
BlocksRight ==
  /\ \A i \in DOMAIN processed : Len(processed[i]) = 64
  /\ ~computed /\ ~corrupted => FlattenSeq(processed) \o messageBlock = fed
  /\ computed => FlattenSeq(processed) = Padded(fed)
  /\ given => computed /\ ~corrupted
  /\ ~computed /\ 8 * Len(fed) >= LowLimit * HighLimit => corrupted

(* The digest and its base64 are the ones published for the same octets. *)
AcceptRight ==
  computed /\ given /\ Len(fed) \in DOMAIN KnownAccepts => Accept = KnownAccepts[Len(fed)]
=============================================================================
