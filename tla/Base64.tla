------------------------------- MODULE Base64 -------------------------------
(***************************************************************************)
(* base64.cpp.  A character is its index in base64_chars, 0 to 63; Equals  *)
(* is '=' and Foreign any character of neither kind.                       *)
(***************************************************************************)
EXTENDS Naturals, Sequences, SequencesExt

Equals  == 64
Foreign == 65

\* Three octets as four indices, and back.
ToFour(o)  == <<o[1] \div 4, ((o[1] % 4) * 16) + (o[2] \div 16), ((o[2] % 16) * 4) + (o[3] \div 64), o[3] % 64>>
ToThree(c) == <<((c[1] * 4) + ((c[2] \div 16) % 4)) % 256,
                ((c[2] % 16) * 16) + ((c[3] \div 4) % 16),
                (((c[3] % 4) * 64) + c[4]) % 256>>

Chunk(s, n, k) == SubSeq(s, n * (k - 1) + 1, n * k)

base64_encode(octets) ==
  LET whole == Len(octets) \div 3
      i == Len(octets) % 3
      rest == SubSeq(octets, 3 * whole + 1, Len(octets)) \o <<0, 0, 0>>
      Tail4 == SubSeq(ToFour(SubSeq(rest, 1, 3)), 1, i + 1) \o [j \in 1 .. 3 - i |-> Equals]
  IN  FlattenSeq([k \in 1 .. whole |-> ToFour(Chunk(octets, 3, k))]) \o (IF i = 0 THEN <<>> ELSE Tail4)

\* The characters up to the first that is not of base64_chars; what stands for the
\* missing ones of the last four is find() of a NUL, npos cut to an unsigned char.
base64_decode(chars) ==
  LET stop == {k \in DOMAIN chars : chars[k] >= Equals}
      n == IF stop = {} THEN Len(chars) ELSE (CHOOSE k \in stop : \A l \in stop : k <= l) - 1
      whole == n \div 4
      i == n % 4
      rest == SubSeq(chars, 4 * whole + 1, n) \o <<255, 255, 255>>
      Octets == SubSeq(ToThree(SubSeq(rest, 1, 4)), 1, i - 1)
  IN  FlattenSeq([k \in 1 .. whole |-> ToThree(Chunk(chars, 4, k))]) \o (IF i = 0 THEN <<>> ELSE Octets)

-----------------------------------------------------------------------------

(* RFC 4648: bit b of the octets is bit b of the characters, which zeros and = complete. *)
Bit(value, width, b) == (value \div 2^(width - 1 - b)) % 2

EncodesBits(octets) ==
  LET code == base64_encode(octets)
      used == (8 * Len(octets) + 5) \div 6
  IN  /\ Len(code) % 4 = 0 /\ Len(code) - used \in 0 .. 2
      /\ \A k \in 1 .. Len(code) : code[k] < 64 <=> k <= used
      /\ \A b \in 0 .. 6 * used - 1 :
           Bit(code[b \div 6 + 1], 6, b % 6) =
             IF b < 8 * Len(octets) THEN Bit(octets[b \div 8 + 1], 8, b % 8) ELSE 0

(* What was encoded is decoded again, also when a foreign character follows it. *)
RoundTrips(octets) ==
  /\ base64_decode(base64_encode(octets)) = octets
  /\ base64_decode(base64_encode(octets) \o <<Foreign, 0>>) = octets
=============================================================================
