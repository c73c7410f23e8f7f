------------------------------ MODULE JsonReader ------------------------------
(***************************************************************************)
(* json_reader.cpp: Reader.  Its methods are operators from a reader to a  *)
(* reader: a record of the members, of the last token and of the Boolean   *)
(* that the method returns (ok).  nodes_ is the path argument: the indices *)
(* and names from root to the value being read.                            *)
(***************************************************************************)
EXTENDS JsonTree

all == [allowComments |-> TRUE, strictRoot |-> FALSE]
strictMode == [allowComments |-> FALSE, strictRoot |-> TRUE]

NewReader(document, features, collectComments) ==
  [doc |-> document, features |-> features, collect |-> collectComments /\ features.allowComments,
   cur |-> 0, root |-> Null, token |-> [type |-> "none", start |-> 0, end |-> 0], ok |-> TRUE,
   lastEnd |-> 0, last |-> <<>>, before |-> <<>>, errors |-> <<>>]

Update(r, path, new) == [r EXCEPT !.root = WithValueAt(@, path, new)]
Put(r, path, v) == [Update(r, path, Assign(ValueAt(r.root, path), v)) EXCEPT !.ok = TRUE]

Min2(a, b) == IF a < b THEN a ELSE b
Peek(r) == IF r.cur < Len(r.doc) THEN r.doc[r.cur + 1] ELSE NUL
Ahead(r, c) == r.cur < Len(r.doc) /\ r.doc[r.cur + 1] = c
\* The first place from cur on whose character is not in the set.
PastAll(r, set) == LET n == SelectInSeq(SubSeq(r.doc, r.cur + 1, Len(r.doc)), LAMBDA c : c \notin set)
                   IN  IF n = 0 THEN Len(r.doc) ELSE r.cur + n - 1
skipSpaces(r) == [r EXCEPT !.cur = PastAll(r, Blank)]
Slice(r, a, b) == SubSeq(r.doc, a + 1, b)
containsNewLine(r, a, b) == \E c \in {"\n", "\r"} : Contains(Slice(r, a, b), c)

match(r, pattern) ==
  LET found == r.cur + Len(pattern) <= Len(r.doc) /\ Slice(r, r.cur, r.cur + Len(pattern)) = pattern
  IN  [r EXCEPT !.cur = IF found THEN @ + Len(pattern) ELSE @, !.ok = found]

readString(r) ==
  LET end == Len(r.doc)
      scan[i \in 0 .. end] ==
        IF i = end THEN [at |-> end, closed |-> FALSE]
        ELSE IF r.doc[i + 1] = "\\" THEN scan[Min2(i + 2, end)]
        ELSE IF r.doc[i + 1] = "\"" THEN [at |-> i + 1, closed |-> TRUE]
        ELSE scan[i + 1]
  IN  [r EXCEPT !.cur = scan[r.cur].at, !.ok = scan[r.cur].closed]

readCStyleCommentOverlap(r) ==     \* mutant of readCStyleComment
  LET ends == {i \in r.cur + 1 .. Len(r.doc) : r.doc[i - 1] = "*" /\ r.doc[i] = "/"}
  IN  [r EXCEPT !.cur = IF ends = {} THEN Len(r.doc) ELSE Min(ends), !.ok = ends # {}]
readCStyleComment(r) ==
  LET ends == {i \in r.cur + 2 .. Len(r.doc) : r.doc[i - 1] = "*" /\ r.doc[i] = "/"}
  IN  [r EXCEPT !.cur = IF ends = {} THEN Len(r.doc) ELSE Min(ends), !.ok = ends # {}]
readCppStyleComment(r) ==
  LET ends == {i \in r.cur + 1 .. Len(r.doc) : r.doc[i] \in {"\n", "\r"}}
  IN  [r EXCEPT !.cur = IF ends = {} THEN Len(r.doc) ELSE Min(ends), !.ok = TRUE]

addComment(r, text, placement) ==
  IF placement = "commentAfterOnSameLine"
    THEN Update(r, r.last, setComment(ValueAt(r.root, r.last), placement, text))
    ELSE [r EXCEPT !.before = IF @ = <<>> THEN text ELSE @ \o <<"\n">> \o text]
\* r has read the slash; then the whole comment was read, past.
Commented(r, begin, past) ==
  IF ~past.ok \/ ~r.collect THEN past
  ELSE LET text == Slice(r, begin, past.cur)
           sameLine == /\ r.lastEnd # 0 /\ ~containsNewLine(r, r.lastEnd, begin)
                       /\ Peek(r) # "*" \/ ~containsNewLine(r, begin, past.cur)
       IN  addComment(past, text, IF sameLine THEN "commentAfterOnSameLine" ELSE "commentBefore")
Next1(r) == [r EXCEPT !.cur = Min2(@ + 1, Len(r.doc)), !.ok = TRUE]
readComment(r) ==
  Commented(r, r.cur - 1, CASE Peek(r) = "*" -> readCStyleComment(Next1(r))
                            [] Peek(r) = "/" -> readCppStyleComment(Next1(r))
                            [] OTHER -> [Next1(r) EXCEPT !.ok = FALSE])

\* r has read the first character, c.
ReadRest(r, c) ==
  CASE c = "\"" -> readString(r)
    [] c = "/" -> readComment(r)
    [] c \in Digits \cup {"-"} -> [r EXCEPT !.cur = PastAll(r, Digits \cup {".", "e", "E", "+", "-"})]
    [] c = "t" -> match(r, <<"r", "u", "e">>)
    [] c = "f" -> match(r, <<"a", "l", "s", "e">>)
    [] c = "n" -> match(r, <<"u", "l", "l">>)
    [] OTHER -> r
TokenType(c, ok) ==
  CASE c \in {"{", "}", "[", "]", ",", ":"} -> c
    [] c = NUL -> "end"
    [] ~ok -> "error"
    [] c = "\"" -> "string"
    [] c = "/" -> "comment"
    [] c \in Digits \cup {"-"} -> "number"
    [] c = "t" -> "true" [] c = "f" -> "false" [] c = "n" -> "null"
    [] OTHER -> "error"
Tokened(r, c, start) == [r EXCEPT !.token = [type |-> TokenType(c, r.ok), start |-> start, end |-> r.cur], !.ok = TRUE]
TokenAt(r) == Tokened(ReadRest(Next1(r), Peek(r)), Peek(r), r.cur)
readToken(r) == TokenAt(skipSpaces(r))

RECURSIVE PastComments(_)
PastComments(r) == IF r.token.type = "comment" THEN PastComments(readToken(r)) ELSE r
skipComments(r) == PastComments(readToken(r))
skipCommentTokens(r) == IF r.features.allowComments THEN skipComments(r) ELSE readToken(r)

addError(r, message) == [r EXCEPT !.errors = Append(@, [what |-> message, token |-> r.token]), !.ok = FALSE]
RECURSIVE SkipUntil(_, _)
SkipUntil(r, until) == IF r.token.type \in {until, "end"} THEN r ELSE SkipUntil(readToken(r), until)
recoverFromError(r, until) == [SkipUntil(readToken(r), until) EXCEPT !.errors = r.errors, !.ok = FALSE]
addErrorAndRecover(r, message, until) == recoverFromError(addError(r, message), until)

\* The four hexadecimal digits after i; -1 if they are not there.
HexValue(c) == IF c \in Digits THEN Code[c] - 48 ELSE IF c \in {"a", "b", "c", "d", "e", "f"} THEN Code[c] - 87 ELSE Code[c] - 55
HexChars == Digits \cup {"a", "b", "c", "d", "e", "f", "A", "B", "C", "D", "E", "F"}
decodeUnicodeEscapeSequence(t, i) ==
  IF i + 4 > Len(t) \/ \E k \in 1 .. 4 : i + k \in DOMAIN t /\ t[i + k] \notin HexChars THEN -1
  ELSE (4096 * HexValue(t[i + 1])) + (256 * HexValue(t[i + 2])) + (16 * HexValue(t[i + 3])) + HexValue(t[i + 4])
\* [at, cp]: the code point after "\u" and where it ends; cp is -1 for an error.
decodeUnicodeCodePoint(t, i) ==
  LET high == decodeUnicodeEscapeSequence(t, i)
      low == IF i + 10 <= Len(t) /\ t[i + 5] = "\\" /\ t[i + 6] = "u" THEN decodeUnicodeEscapeSequence(t, i + 6) ELSE -1
  IN  IF high \notin 55296 .. 56319 THEN [at |-> i + 4, cp |-> high]
      ELSE [at |-> i + 10, cp |-> IF low = -1 THEN -1 ELSE 65536 + (1024 * (high % 1024)) + (low % 1024)]

Escaped == ("\"" :> "\"") @@ ("/" :> "/") @@ ("\\" :> "\\") @@ ("b" :> Backspace) @@ ("f" :> "\f") @@ ("n" :> "\n")
           @@ ("r" :> "\r") @@ ("t" :> "\t")
Bad == <<"bad">>
\* What the next character or escape of t is and where it ends.
DecodeEscape(t, u) ==
  CASE Len(t) = 1 -> [at |-> 1, out |-> Bad]
    [] t[2] \in DOMAIN Escaped -> [at |-> 2, out |-> <<Escaped[t[2]]>>]
    [] t[2] = "u" /\ u.cp # -1 -> [at |-> u.at, out |-> codePointToUTF8(u.cp)]
    [] OTHER -> [at |-> 2, out |-> Bad]
DecodeNext(t) == IF t[1] # "\\" THEN [at |-> 1, out |-> <<t[1]>>] ELSE DecodeEscape(t, decodeUnicodeCodePoint(t, 2))
\* The text of a string token without its quotes, or Bad.
RECURSIVE Decode(_)
AndThen(t, first) ==
  LET rest == Decode(SubSeq(t, first.at + 1, Len(t))) IN IF Bad \in {first.out, rest} THEN Bad ELSE first.out \o rest
Decode(t) == IF t = <<>> \/ Head(t) = "\"" THEN <<>> ELSE AndThen(t, DecodeNext(t))
decodeString(r) == Decode(Slice(r, r.token.start + 1, r.token.end - 1))

\* sscanf("%lf"): the longest number the text starts with, in tenths.
DigitsFrom(t, i) == LET n == SelectInSeq(SubSeq(t, i, Len(t)), LAMBDA c : c \notin Digits)
                    IN  IF n = 0 THEN SubSeq(t, i, Len(t)) ELSE SubSeq(t, i, i + n - 2)
RECURSIVE Decimal(_)
Decimal(t) == IF t = <<>> THEN 0 ELSE (10 * Decimal(Front(t))) + Code[Last(t)] - 48
ScanDouble(t) ==
  LET Signed(i) == i \in DOMAIN t /\ t[i] \in {"-", "+"}
      Past(i) == IF Signed(i) THEN i + 1 ELSE i
      whole == DigitsFrom(t, Past(1))
      dot == Past(1) + Len(whole)
      frac == IF dot \in DOMAIN t /\ t[dot] = "." THEN DigitsFrom(t, dot + 1) ELSE <<>>
      e == IF dot \in DOMAIN t /\ t[dot] = "." THEN dot + 1 + Len(frac) ELSE dot
      exp == IF e \in DOMAIN t /\ t[e] \in {"e", "E"} THEN DigitsFrom(t, Past(e + 1)) ELSE <<>>
      tenths == (10 * Decimal(whole)) + (IF frac = <<>> THEN 0 ELSE Code[frac[1]] - 48)
      shifted == IF Signed(e + 1) /\ exp # <<>> /\ t[e + 1] = "-" THEN tenths \div 10^Decimal(exp) ELSE tenths * 10^Decimal(exp)
  IN  [ok |-> whole \o frac # <<>>, tenths |-> IF t[1] = "-" THEN -shifted ELSE shifted]
decodeDouble(r, path) ==
  LET d == ScanDouble(Slice(r, r.token.start, r.token.end))
  IN  IF d.ok THEN Put(r, path, Number("real", d.tenths)) ELSE addError(r, "not a number")

TooBig == -1
\* The digits' value in an unsigned 64-bit integer, or TooBig.
Accumulated(digits, limit) ==
  LET value[i \in 0 .. Len(digits)] ==
        IF i = 0 THEN 0
        ELSE LET v == value[i - 1]
                 d == Code[digits[i]] - 48
             IN  IF v = TooBig \/ (v >= limit \div 10 /\ (i # Len(digits) \/ d > limit % 10)) THEN TooBig
                 ELSE ((10 * v) + d) % (MaxUInt64 + 1)
  IN  value[Len(digits)]
Integer(negative, n) ==
  CASE negative -> Number("int", IF n <= MaxInt64 + 1 THEN -n ELSE MaxUInt64 + 1 - n)
    [] n \in 0 .. MaxInt -> Number("int", n)
    [] OTHER -> Number("uint", n)
decodeNumber(r, path) ==
  LET t == Slice(r, r.token.start, r.token.end)
      negative == t[1] = "-"
      digits == IF negative THEN Tail(t) ELSE t
      n == Accumulated(digits, IF negative THEN MaxInt64 + 1 ELSE MaxUInt64)
  IN  IF (\E i \in DOMAIN digits : digits[i] \notin Digits) \/ n = TooBig THEN decodeDouble(r, path)
      ELSE Put(r, path, Integer(negative, n))

\* A method that reads on is split where it reads: each operator takes what the one before has read.
RECURSIVE readValue(_, _), readMembers(_, _, _), readItems(_, _, _)
\* After a comment, any token but "}" is taken for the comma.
MemberEnd(r, path, name, commented) ==
  CASE r.token.type = "}" -> r
    [] r.token.type # "}" /\ (commented \/ r.token.type = ",") -> readMembers(r, path, name)
    [] OTHER -> addErrorAndRecover(r, "Missing ',' or '}' in object declaration", "}")
MemberComma(r, path, name) == MemberEnd(PastComments(r), path, name, r.token.type = "comment")
MemberValue(r, path, name) == IF r.ok THEN MemberComma(readToken(r), path, name) ELSE recoverFromError(r, "}")
MemberColon(r, path, name) ==
  IF r.token.type # ":" THEN addErrorAndRecover(r, "Missing ':' after object member name", "}")
  ELSE MemberValue(readValue(Update(r, path, resolveReference(ValueAt(r.root, path), name)), Append(path, CString(name))), path, name)
MemberName(r, path, previous, name) ==
  CASE r.token.type = "}" /\ previous = <<>> -> r
    [] r.token.type # "string" -> addErrorAndRecover(r, "Missing '}' or object member name", "}")
    [] r.token.type = "string" /\ name = Bad -> recoverFromError(addError(r, "Bad string"), "}")
    [] OTHER -> MemberColon(readToken(r), path, name)
StringToken(r) == IF r.token.type = "string" THEN decodeString(r) ELSE Bad
Member(r, path, previous) == MemberName(r, path, previous, StringToken(r))
readMembers(r, path, previous) == Member(skipComments(r), path, previous)
readObject(r, path) == readMembers(Put(r, path, Object(<<>>)), path, <<>>)

ItemEnd(r, path, index) ==
  CASE r.token.type = "]" -> r
    [] r.token.type = "," -> readItems(r, path, index + 1)
    [] OTHER -> addErrorAndRecover(r, "Missing ',' or ']' in array declaration", "]")
ItemValue(r, path, index) == IF r.ok THEN ItemEnd(skipComments(r), path, index) ELSE recoverFromError(r, "]")
readItems(r, path, index) ==
  ItemValue(readValue(Update(r, path, AtIndex(ValueAt(r.root, path), index)), Append(path, index)), path, index)
ArrayStart(r, path) == IF Ahead(r, "]") THEN readToken(r) ELSE readItems(r, path, 0)
readArray(r, path) == ArrayStart(skipSpaces(Put(r, path, Array(<<>>))), path)

TakeComments(r, path) ==
  IF r.collect /\ r.before # <<>>
    THEN [Update(r, path, setComment(ValueAt(r.root, path), "commentBefore", r.before)) EXCEPT !.before = <<>>] ELSE r
\* r has read the first token of the value.
ReadByType(r, path) ==
  CASE r.token.type = "{" -> readObject(r, path)
    [] r.token.type = "[" -> readArray(r, path)
    [] r.token.type = "number" -> decodeNumber(r, path)
    [] r.token.type = "string" ->
         LET text == decodeString(r) IN IF text = Bad THEN addError(r, "Bad string") ELSE Put(r, path, Text(text))
    [] r.token.type \in {"true", "false"} -> Put(r, path, Truth(r.token.type = "true"))
    [] r.token.type = "null" -> Put(r, path, Null)
    [] OTHER -> addError(r, "Syntax error: value, object or array expected.")
\* What readValue() notes of a value for the comments that follow it.
Noting(r, path, isValue) == IF r.collect /\ isValue THEN [r EXCEPT !.lastEnd = r.cur, !.last = path] ELSE r
ValueFrom(r, path) == Noting(ReadByType(r, path), path, r.token.type \in {"{", "[", "number", "string", "true", "false", "null"})
readValue(r, path) == ValueFrom(TakeComments(skipCommentTokens(r), path), path)

AfterRoot(r, ok) ==
  LET w == IF r.collect /\ r.before # <<>> THEN [r EXCEPT !.root = setComment(@, "commentAfter", r.before)] ELSE r
  IN  IF r.features.strictRoot /\ ~isArray(r.root) /\ ~isObject(r.root)
        THEN addError([w EXCEPT !.token = [type |-> "error", start |-> 0, end |-> Len(r.doc)]], "must be an array or an object")
        ELSE [w EXCEPT !.ok = ok]
Root(r) == AfterRoot(skipCommentTokens(r), r.ok)
parse(document, features, collectComments) == Root(readValue(NewReader(document, features, collectComments), <<>>))
================================================================================
