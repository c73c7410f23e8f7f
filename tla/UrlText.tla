------------------------------ MODULE UrlText -------------------------------
(***************************************************************************)
(* HttpClient.cpp: UrlEncode, UrlDecode and ParseParams.  A text is a      *)
(* sequence of octets.  The variables are what is encoded, here and in     *)
(* base64: any texts, which nothing changes.                               *)
(***************************************************************************)
EXTENDS Naturals, Sequences, SequencesExt, Base64

VARIABLES someOctets, somePairs

\* '0' .. '9', 'a' .. 'z', 'A' .. 'Z'
Plain(c) == c \in 48 .. 57 \/ c \in 97 .. 122 \/ c \in 65 .. 90

Hex2Char(n) == IF n < 10 THEN 48 + n ELSE 65 + n - 10
Char2Hex(c) == IF c < 65 THEN (c - 48) % 256 ELSE (c - 65 + 10) % 256

UrlEncode(data) ==
  FlattenSeq([i \in DOMAIN data |->
    CASE Plain(data[i]) -> <<data[i]>>
      [] data[i] = 32   -> <<43>>
      [] OTHER          -> <<37, Hex2Char(data[i] \div 16), Hex2Char(data[i] % 16)>>])

\* UrlDecode when the second digit is expected one place too far.
UrlDecodeShort(data) ==
  LET decode[i \in 1 .. Len(data) + 1] ==
        IF i > Len(data) THEN <<>>
        ELSE IF Plain(data[i]) THEN <<data[i]>> \o decode[i + 1]
        ELSE IF data[i] = 43 THEN <<32>> \o decode[i + 1]
        ELSE IF data[i] # 37 THEN decode[i + 1]
        ELSE IF i + 2 >= Len(data) THEN <<>>
        ELSE <<((Char2Hex(data[i + 1]) % 16) * 16 + Char2Hex(data[i + 2])) % 256>> \o decode[i + 3]
  IN  decode[1]

\* Characters that are not encoded, '+' or '%' are passed over.
UrlDecode(data) ==
  LET decode[i \in 1 .. Len(data) + 1] ==
        IF i > Len(data) THEN <<>>
        ELSE IF Plain(data[i]) THEN <<data[i]>> \o decode[i + 1]
        ELSE IF data[i] = 43 THEN <<32>> \o decode[i + 1]
        ELSE IF data[i] # 37 THEN decode[i + 1]
        ELSE IF i + 2 > Len(data) THEN <<>>
        ELSE <<((Char2Hex(data[i + 1]) % 16) * 16 + Char2Hex(data[i + 2])) % 256>> \o decode[i + 3]
  IN  decode[1]

\* Where the first separator at i or behind it stands, one past the end if there is none.
Find(data, sep, i) ==
  LET found == {j \in i .. Len(data) : data[j] = sep} IN IF found = {} THEN Len(data) + 1 ELSE Min(found)

\* The pieces of a text between separators of one octet: each is looked for behind the last.
Pieces(data, sep) ==
  LET stop[k \in 0 .. Len(data) + 1] == IF k = 0 THEN 0 ELSE Find(data, sep, stop[k - 1] + 1)
      n == Min({k \in 1 .. Len(data) + 1 : stop[k] > Len(data)})
  IN  [k \in 1 .. n |-> SubSeq(data, stop[k - 1] + 1, stop[k] - 1)]

\* Name and value of a piece; a piece without the separator is a name without value.
Param(piece, eq) ==
  LET n == SelectInSeq(piece, LAMBDA c : c = eq)
  IN  IF n = 0 THEN <<piece, <<>>>> ELSE <<SubSeq(piece, 1, n - 1), SubSeq(piece, n + 1, Len(piece))>>

\* The map of a query.  The last piece is cut at '=' whatever the separator is,
\* and is not a parameter when nothing follows the last separator.
ParseParams(data, sep, eq) ==
  LET pieces == Pieces(data, sep)
      params == [k \in DOMAIN pieces |-> Param(pieces[k], IF k = Len(pieces) THEN 61 ELSE eq)]
      kept == IF Last(pieces) = <<>> THEN Front(params) ELSE params
  IN  [name \in {p[1] : p \in ToSet(kept)} |->
         kept[SelectLastInSeq(kept, LAMBDA p : p[1] = name)][2]]

-----------------------------------------------------------------------------

(* A text encoded and decoded is the text. *)
UrlRoundTrip(data) == UrlDecode(UrlEncode(data)) = data

(* A query written from pairs, names and values encoded, is read back as the map *)
(* of the pairs, the last of a name winning, for the separators '&' and '='.     *)
QueryRoundTrip(pairs) ==
  LET Written(p) == UrlEncode(p[1]) \o <<61>> \o UrlEncode(p[2])
      query == FlattenSeq([i \in DOMAIN pairs |-> (IF i = 1 THEN <<>> ELSE <<38>>) \o Written(pairs[i])])
      read == ParseParams(query, 38, 61)
  IN  {<<UrlDecode(n), UrlDecode(read[n])>> : n \in DOMAIN read} =
        {pairs[i] : i \in {k \in DOMAIN pairs : \A l \in DOMAIN pairs : l > k => pairs[l][1] # pairs[k][1]}}

\* Whatever is encoded.
EncInit ==
  /\ someOctets \in Seq(0 .. 255)
  /\ somePairs \in Seq(Seq(0 .. 255) \X Seq(0 .. 255))
EncSpec == EncInit /\ [][FALSE]_<<someOctets, somePairs>>

(* What base64.cpp and the URL functions of HttpClient.cpp encode, they decode; *)
(* the base64 is that of RFC 4648.                                               *)
TextsReadBack ==
  /\ EncodesBits(someOctets) /\ RoundTrips(someOctets)
  /\ UrlRoundTrip(someOctets) /\ QueryRoundTrip(somePairs)
=============================================================================
