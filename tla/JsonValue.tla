------------------------------ MODULE JsonValue ------------------------------
(***************************************************************************)
(* json_value.cpp: Value.  A value is a record of its type, of its comments *)
(* and of what the union holds: num (a double in tenths), bool, str, items  *)
(* (an array: a map from the indices written) or members.                  *)
(*                                                                         *)
(* A printable character of a text is the string of that character; any    *)
(* other byte is its escape or its two hexadecimal digits, as in "C3".     *)
(***************************************************************************)
EXTENDS Integers, Sequences, SequencesExt, FiniteSets, FiniteSetsExt, Functions

CONSTANTS MaxInt, MaxUInt, MaxInt64, MaxUInt64     \* one less than powers of two

Printable == " !\"#$%&'()*+,-./0123456789:;<=>?@ABCDEFGHIJKLMNOPQRSTUVWXYZ[\\]^_ abcdefghijklmnopqrstuvwxyz{|}~"
Nth(s, i) == SubSeq(s, i, i)
HexDigits == "0123456789ABCDEF"
HexOf(n) == Nth(HexDigits, n + 1)

Byte == [b \in 0 .. 255 |->
           IF b \in 32 .. 126 \ {96} THEN Nth(Printable, b - 31)
           ELSE CASE b = 9 -> "\t" [] b = 10 -> "\n" [] b = 12 -> "\f" [] b = 13 -> "\r"
                  [] OTHER -> HexOf(b \div 16) \o HexOf(b % 16)]
NUL == Byte[0]
Backspace == Byte[8]

Code == [c \in {Byte[b] : b \in 0 .. 255} |-> CHOOSE b \in 0 .. 255 : Byte[b] = c]
Chars(s) == [i \in 1 .. Len(s) |-> Nth(s, i)]

Digits == {Byte[b] : b \in 48 .. 57}
Blank == {" ", "\t", "\n", "\r"}
isControlCharacter(c) == Code[c] \in 1 .. 31

\* What a C string keeps of a text.
CString(t) == LET n == SelectInSeq(t, LAMBDA c : c = NUL) IN IF n = 0 THEN t ELSE SubSeq(t, 1, n - 1)

\* strcmp(s, t) < 0
Less(s, t) ==
  \/ Len(s) < Len(t) /\ SubSeq(t, 1, Len(s)) = s
  \/ \E i \in DOMAIN s \cap DOMAIN t :
       Code[s[i]] < Code[t[i]] /\ \A j \in 1 .. i - 1 : s[j] = t[j]

uintToString(n) ==
  LET text[k \in 0 .. n] == (IF k < 10 THEN <<>> ELSE text[k \div 10]) \o <<Byte[48 + (k % 10)]>> IN text[n]

codePointToUTF8(cp) ==
  LET Tail6(k) == 128 + ((cp \div 64^k) % 64)
      octets == IF cp < 128 THEN <<cp>>
                ELSE IF cp < 2048 THEN <<192 + (cp \div 64), Tail6(0)>>
                ELSE IF cp < 65536 THEN <<224 + (cp \div 4096), Tail6(1), Tail6(0)>>
                ELSE IF cp <= 1114111 THEN <<240 + (cp \div 262144), Tail6(2), Tail6(1), Tail6(0)>>
                ELSE <<>>
  IN  [i \in DOMAIN octets |-> Byte[octets[i]]]

-----------------------------------------------------------------------------
(* Values *)

ValueType == <<"null", "int", "uint", "real", "string", "bool", "array", "object">>
TypeRank(v) == CHOOSE i \in DOMAIN ValueType : ValueType[i] = v.type

Null == [type |-> "null", comments |-> <<>>]
Number(t, n) == [type |-> t, num |-> n, comments |-> <<>>]
Text(s) == [type |-> "string", str |-> CString(s), comments |-> <<>>]
NoText == <<"no string">>            \* value_.string_ of Value( stringValue ), which is 0
Truth(b) == [type |-> "bool", bool |-> b, comments |-> <<>>]
Array(f) == [type |-> "array", items |-> f, comments |-> <<>>]
Object(f) == [type |-> "object", members |-> f, comments |-> <<>>]

\* operator=: a copy is swapped in, without its comments.
Assign(v, w) == [w EXCEPT !.comments = v.comments]
setComment(v, placement, t) == [v EXCEPT !.comments = (placement :> t) @@ @]
hasComment(v, placement) == placement \in DOMAIN v.comments

isArray(v) == v.type \in {"null", "array"}
isObject(v) == v.type \in {"null", "object"}

Contents(v) == IF v.type = "array" THEN v.items ELSE v.members
Before(v, j, k) == IF v.type = "array" THEN j < k ELSE Less(j, k)
Keys(v) == SetToSortSeq(DOMAIN Contents(v), LAMBDA j, k : Before(v, j, k))

sizeOfMap(v) == IF v.type \in {"array", "object"} THEN Cardinality(DOMAIN Contents(v)) ELSE 0     \* mutant of size
size(v) ==
  CASE v.type = "array" -> IF v.items = <<>> THEN 0 ELSE Max(DOMAIN v.items) + 1
    [] v.type = "object" -> Cardinality(DOMAIN v.members)
    [] OTHER -> 0

Has(v, k) == v.type # "null" /\ k \in DOMAIN Contents(v)

\* operator[] of a const value: Value::null for what is not there.
Find(v, k) == IF Has(v, k) THEN Contents(v)[k] ELSE Null
getMemberNames(v) == IF v.type = "null" THEN <<>> ELSE Keys(v)

\* operator[] of a value that may change: the element is made, and no other.
Made(f, k) == [j \in DOMAIN f \cup {k} |-> IF j \in DOMAIN f THEN f[j] ELSE Null]
AtIndex(v, i) == [(IF v.type = "null" THEN Assign(v, Array(<<>>)) ELSE v) EXCEPT !.items = Made(@, i)]
resolveReference(v, name) ==
  [(IF v.type = "null" THEN Assign(v, Object(<<>>)) ELSE v) EXCEPT !.members = Made(@, CString(name))]
clear(v) ==
  CASE v.type = "array" -> [v EXCEPT !.items = <<>>]
    [] v.type = "object" -> [v EXCEPT !.members = <<>>]
    [] OTHER -> v
resize(v, n) ==
  LET a == IF v.type = "null" THEN Assign(v, Array(<<>>)) ELSE v
  IN  IF n = 0 THEN clear(a)
      ELSE IF n > size(a) THEN AtIndex(a, n - 1)
      ELSE [a EXCEPT !.items = Restrict(@, {i \in DOMAIN @ : i < n})]

\* The conversions: the set of what the call may return, none if it throws.
Truncated(tenths) == IF tenths < 0 THEN -((-tenths) \div 10) ELSE tenths \div 10
Within(n, lo, hi) == IF n \in lo .. hi THEN {n} ELSE {}
Scalar(v) == CASE v.type = "null" -> 0 [] v.type = "bool" -> (IF v.bool THEN 1 ELSE 0) [] OTHER -> v.num
Numeric(v) == v.type \in {"null", "int", "uint", "real", "bool"}
asInt(v) ==
  IF ~Numeric(v) THEN {}
  ELSE IF v.type = "real"
    THEN IF v.num \in 10 * (-MaxInt - 1) .. 10 * MaxInt THEN {Truncated(v.num)} ELSE {}
  ELSE Within(Scalar(v), -MaxInt - 1, MaxInt)
asUInt(v) ==
  IF ~Numeric(v) THEN {}
  ELSE IF v.type = "real" THEN IF v.num \in 0 .. 10 * MaxUInt THEN {Truncated(v.num)} ELSE {}
  ELSE Within(Scalar(v), 0, MaxUInt)
\* Reals go through Int() and UInt(): outside their range the result is not defined.
asInt64(v) ==
  IF ~Numeric(v) THEN {}
  ELSE IF v.type = "real"
    THEN IF v.num \notin 10 * (-MaxInt64 - 1) .. 10 * MaxInt64 THEN {}
         ELSE IF Truncated(v.num) \in -MaxInt - 1 .. MaxInt THEN {Truncated(v.num)} ELSE -MaxInt - 1 .. MaxInt
  ELSE Within(Scalar(v), -MaxInt64 - 1, MaxInt64)
asUInt64(v) ==
  IF ~Numeric(v) THEN {}
  ELSE IF v.type = "real"
    THEN IF v.num \notin 0 .. 10 * MaxUInt64 THEN {}
         ELSE IF Truncated(v.num) \in 0 .. MaxUInt THEN {Truncated(v.num)} ELSE 0 .. MaxUInt
  ELSE Within(Scalar(v), 0, MaxUInt64)
asDouble(v) == IF ~Numeric(v) THEN {} ELSE IF v.type = "real" THEN {v.num} ELSE {10 * Scalar(v)}
asBool(v) ==
  CASE Numeric(v) -> Scalar(v) # 0
    [] v.type = "string" -> v.str \notin {NoText, <<>>}
    [] OTHER -> Contents(v) # <<>>

isConvertibleTo(v, other) ==
  CASE v.type = "null" -> TRUE
    [] v.type \in {"string", "array", "object"} -> other = v.type \/ (other = "null" /\ ~asBool(v))
    [] OTHER ->
         CASE other = "null" -> Scalar(v) = 0
           [] other = "int" -> \/ v.type \in {"int", "bool"}
                               \/ v.type = "uint" /\ v.num <= MaxInt
                               \/ v.type = "real" /\ v.num \in 10 * (-MaxInt - 1) .. 10 * MaxInt
           [] other = "uint" -> \/ v.type \in {"uint", "bool"}
                                \/ v.type = "int" /\ v.num >= 0
                                \/ v.type = "real" /\ v.num \in 0 .. 10 * MaxUInt
           [] OTHER -> other \in {"real", "string", "bool"}
================================================================================
