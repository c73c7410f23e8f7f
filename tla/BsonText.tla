------------------------------ MODULE BsonText ------------------------------
(***************************************************************************)
(* The checks the driver makes of texts before it sends them: encoding.c   *)
(* for the strings and field names of a document, mongo_validate_ns for    *)
(* the name of a collection, and the digits of an object id.  A text is a  *)
(* sequence of octets, without the 0 that ends it in C.                    *)
(***************************************************************************)
EXTENDS Integers, Sequences, SequencesExt, FiniteSets

CONSTANT MaxName  \* the longest namespace, 128 in the code

Dot == 46
Dollar == 36

(***************************************************************************)
(* encoding.c                                                              *)
(***************************************************************************)
\* trailingBytesForUTF8, by the ranges of the table
TrailingBytes(c) ==
  CASE c < 192 -> 0 [] c \in 192..223 -> 1 [] c \in 224..239 -> 2
    [] c \in 240..247 -> 3 [] c \in 248..251 -> 4 [] OTHER -> 5

\* What the second octet must be, by the first.
SecondOctet(c) == CASE c = 224 -> 160..191 [] c = 240 -> 144..191 [] c = 244 -> 0..143 [] OTHER -> 128..191

IsLegalUTF8(s) ==
  /\ Len(s) \in 1..4
  /\ \A i \in 3..Len(s) : s[i] \in 128..191
  /\ Len(s) > 1 => s[2] \in SecondOctet(s[1])
  /\ s[1] \notin 128..193 /\ s[1] <= 244

\* bson_string_is_db_ref: $ref, $id, $db, the first also with more behind it
IsDbRef(s) ==
  IF Len(s) >= 4 THEN SubSeq(s, 2, 4) = <<114, 101, 102>>
  ELSE Len(s) = 3 /\ SubSeq(s, 2, 3) \in {<<105, 100>>, <<100, 98>>}

\* bson_validate_string: what is put into b->err.  It stops at the first
\* sequence that is no UTF-8.
Flags(s, field) ==
  LET end(i) == i + TrailingBytes(s[i])
      dot(i) == IF field /\ s[i] = Dot THEN {"has dot"} ELSE {}
      from[i \in 1..Len(s) + 1] ==
        IF i > Len(s) THEN {}
        ELSE dot(i) \cup IF end(i) <= Len(s) /\ IsLegalUTF8(SubSeq(s, i, end(i)))
                         THEN from[end(i) + 1] ELSE {"not utf8"}
  IN from[1] \cup IF field /\ s /= <<>> /\ s[1] = Dollar /\ ~IsDbRef(s) THEN {"init dollar"} ELSE {}

CheckString(s) == Flags(s, FALSE)
CheckFieldName(s) == Flags(s, TRUE)

(***************************************************************************)
(* mongo_validate_ns                                                       *)
(***************************************************************************)
ForbiddenInDb == {32, Dollar, 47, 92}   \* ' ', '$', '/', '\'

ValidNs(ns) ==
  LET dots == {i \in DOMAIN ns : ns[i] = Dot}
      first == CHOOSE i \in dots : \A j \in dots : i <= j
      coll == SubSeq(ns, first + 1, Len(ns))
  IN /\ dots /= {}
     /\ first > 1 /\ coll /= <<>> /\ coll[1] /= Dot
     /\ \A i \in 1..first - 1 : ns[i] \notin ForbiddenInDb
     /\ \A i \in DOMAIN coll : coll[i] /= Dollar /\ (i > 1 => ~(coll[i - 1] = Dot /\ coll[i] = Dot))
     /\ Len(ns) <= MaxName
     /\ Last(coll) /= Dot

(***************************************************************************)
(* Object ids: two hex digits for an octet.                                *)
(***************************************************************************)
HexByte(c) ==
  CASE c \in 48..57 -> c - 48 [] c \in 65..70 -> c - 55 [] c \in 97..102 -> c - 87 [] OTHER -> 0

HexDigit(n) == IF n < 10 THEN 48 + n ELSE 87 + n

OidFromString(str) == [i \in 1..Len(str) \div 2 |-> (HexByte(str[(2 * i) - 1]) * 16) + HexByte(str[2 * i])]
OidToString(oid) == [i \in 1..2 * Len(oid) |->
  HexDigit(IF i % 2 = 1 THEN oid[(i + 1) \div 2] \div 16 ELSE oid[i \div 2] % 16)]

(***************************************************************************)
(* What the checks are to tell apart.                                      *)
(***************************************************************************)
\* The UTF-8 encoding of the number v, and the number that bits spell.
Encoding(v) ==
  CASE v < 128 -> <<v>>
    [] v \in 128..2047 -> <<192 + (v \div 64), 128 + (v % 64)>>
    [] v \in 2048..65535 -> <<224 + (v \div 4096), 128 + ((v \div 64) % 64), 128 + (v % 64)>>
    [] OTHER -> <<240 + (v \div 262144), 128 + ((v \div 4096) % 64), 128 + ((v \div 64) % 64), 128 + (v % 64)>>
Spelt(s) ==
  CASE Len(s) = 1 -> s[1]
    [] Len(s) = 2 -> ((s[1] % 32) * 64) + (s[2] % 64)
    [] Len(s) = 3 -> ((s[1] % 16) * 4096) + ((s[2] % 64) * 64) + (s[3] % 64)
    [] OTHER -> ((s[1] % 8) * 262144) + ((s[2] % 64) * 4096) + ((s[3] % 64) * 64) + (s[4] % 64)

\* s is a row of encodings of numbers up to 10FFFF (surrogates among them).
IsText(s) ==
  LET from[i \in 1..Len(s) + 1] ==
        i > Len(s) \/ \E n \in 1..4 :
          /\ i + n - 1 <= Len(s)
          /\ LET v == Spelt(SubSeq(s, i, i + n - 1)) IN v <= 1114111 /\ SubSeq(s, i, i + n - 1) = Encoding(v)
          /\ from[i + n]
  IN from[1]

\* encoding.c takes exactly the texts, but for this: after F4 it lets an octet
\* below 80 pass as the second of four.
Utf8Right(s) ==
  LET passes == "not utf8" \notin CheckString(s)
      hidden == \E i \in 1..Len(s) - 1 : s[i] = 244 /\ s[i + 1] < 128
  IN /\ IsText(s) => passes
     /\ passes => IsText(s) \/ hidden

\* A namespace is "db.collection" with neither of them empty, without dots at
\* the ends of the collection or next to each other, and without '$'.
NsRight(ns) ==
  ValidNs(ns) <=>
    /\ Len(ns) <= MaxName
    /\ \E k \in 2..Len(ns) - 1 :
         /\ ns[k] = Dot /\ ns[k + 1] /= Dot /\ Last(ns) /= Dot
         /\ \A i \in 1..k - 1 : ns[i] \notin ForbiddenInDb \cup {Dot}
         /\ \A i \in k + 1..Len(ns) : ns[i] /= Dollar /\ (i < Len(ns) => <<ns[i], ns[i + 1]>> /= <<Dot, Dot>>)

OidRight(oid) == OidFromString(OidToString(oid)) = oid
=============================================================================
