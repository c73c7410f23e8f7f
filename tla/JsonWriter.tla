------------------------------ MODULE JsonWriter ------------------------------
(***************************************************************************)
(* json_writer.cpp: FastWriter, StyledWriter and StyledStreamWriter.  The  *)
(* last two differ in when they start a line and in the indentation, the   *)
(* record style.  A styled writer is the record w of its members.          *)
(***************************************************************************)
EXTENDS JsonValue

CONSTANT RightMargin      \* rightMargin_

SignedText(n) == IF n < 0 THEN <<"-">> \o uintToString(-n) ELSE uintToString(n)
\* "%#.16g" leaves zeros to the right; one digit behind the last other one is kept.
doubleToString(tenths) ==
  LET n == IF tenths < 0 THEN -tenths ELSE tenths
      behind == IF n % 10 = 0 THEN <<"0">> ELSE uintToString(n % 10) \o <<"0">>
  IN  (IF tenths < 0 THEN <<"-">> ELSE <<>>) \o uintToString(n \div 10) \o <<".">> \o behind

Escape == ("\"" :> "\"") @@ ("\\" :> "\\") @@ (Backspace :> "b") @@ ("\f" :> "f") @@ ("\n" :> "n")
          @@ ("\r" :> "r") @@ ("\t" :> "t")
valueToQuotedString(s) ==
  LET Quoted(c) == IF c \in DOMAIN Escape THEN <<"\\", Escape[c]>>
                   ELSE IF isControlCharacter(c) THEN <<"\\", "u", "0", "0", HexOf(Code[c] \div 16), HexOf(Code[c] % 16)>>
                   ELSE <<c>>
  IN  <<"\"">> \o FlattenSeq([i \in DOMAIN s |-> Quoted(s[i])]) \o <<"\"">>

ScalarText(v) ==
  CASE v.type = "null" -> Chars("null")
    [] v.type \in {"int", "uint"} -> SignedText(v.num)
    [] v.type = "real" -> doubleToString(v.num)
    [] v.type = "string" -> valueToQuotedString(v.str)
    [] v.type = "bool" -> Chars(IF v.bool THEN "true" ELSE "false")

\* a, b, c with a text between each two.
Joined(texts, between) ==
  FlattenSeq([i \in DOMAIN texts |-> IF i = 1 THEN texts[i] ELSE between \o texts[i]])

RECURSIVE fastValue(_, _)
fastValue(v, yaml) ==
  CASE v.type = "array" ->
         <<"[">> \o Joined([i \in 1 .. size(v) |-> fastValue(Find(v, i - 1), yaml)], <<",">>) \o <<"]">>
    [] v.type = "object" ->
         LET names == getMemberNames(v)
             Member(n) == valueToQuotedString(n) \o (IF yaml THEN <<":", " ">> ELSE <<":">>) \o fastValue(Find(v, n), yaml)
         IN  <<"{">> \o Joined([i \in DOMAIN names |-> Member(names[i])], <<",">>) \o <<"}">>
    [] OTHER -> ScalarText(v)
FastWrite(v, yaml) == fastValue(v, yaml) \o <<"\n">>

------------------------------------------------------------------------------
Emit(w, text) == [w EXCEPT !.doc = @ \o text]
writeIndentStyled(w) ==
  IF w.doc # <<>> /\ Last(w.doc) = " " THEN w
  ELSE Emit(w, (IF w.doc # <<>> /\ Last(w.doc) # "\n" THEN <<"\n">> ELSE <<>>) \o w.indent)
writeIndentStream(w) == Emit(w, <<"\n">> \o w.indent)
writeIndent(w) == IF w.style.stream THEN writeIndentStream(w) ELSE writeIndentStyled(w)
writeWithIndent(w, text) == Emit(writeIndent(w), text)
indent(w) == [w EXCEPT !.indent = @ \o w.style.unit]
unindent(w) == [w EXCEPT !.indent = SubSeq(@, 1, Len(@) - Len(w.style.unit))]

\* Every end of line becomes "\n".
normalizeEOL(t) ==
  FlattenSeq([i \in DOMAIN t |-> IF t[i] = "\n" /\ i > 1 /\ t[i - 1] = "\r" THEN <<>>
                                 ELSE IF t[i] = "\r" THEN <<"\n">> ELSE <<t[i]>>])
Comment(v, placement) == normalizeEOL(v.comments[placement])
writeCommentBeforeValue(w, v) ==
  IF hasComment(v, "commentBefore") THEN Emit(w, Comment(v, "commentBefore") \o <<"\n">>) ELSE w
writeCommentAfterValueOnSameLine(w, v) ==
  Emit(w, (IF hasComment(v, "commentAfterOnSameLine") THEN <<" ">> \o Comment(v, "commentAfterOnSameLine") ELSE <<>>)
          \o (IF hasComment(v, "commentAfter") THEN <<"\n">> \o Comment(v, "commentAfter") \o <<"\n">> ELSE <<>>))

\* childValues_ of an array that may fit on one line: its elements, which are scalars or empty.
ChildText(v) == CASE v.type = "array" -> <<"[", "]">> [] v.type = "object" -> <<"{", "}">> [] OTHER -> ScalarText(v)
Lines(v, children) == [multi |-> 4 + ((size(v) - 1) * 2) + Len(FlattenSeq(children)) >= RightMargin, children |-> children]
isMultineArray(v) ==
  IF size(v) * 3 >= RightMargin \/ \E i \in 1 .. size(v) : size(Find(v, i - 1)) > 0
    THEN [multi |-> TRUE, children |-> <<>>]
    ELSE Lines(v, [i \in 1 .. size(v) |-> ChildText(Find(v, i - 1))])

\* The end of an element or member: a comma but for the last, then its comments.
writeEndCommentFirst(w, v, last) ==     \* mutant of writeEnd
  LET c == writeCommentAfterValueOnSameLine(w, v) IN IF last THEN c ELSE Emit(c, <<",">>)
writeEnd(w, v, last) == writeCommentAfterValueOnSameLine(IF last THEN w ELSE Emit(w, <<",">>), v)

RECURSIVE writeValue(_, _), writeMembers(_, _, _), writeElements(_, _, _, _)
writeMemberName(w, name) == writeWithIndent(w, valueToQuotedString(name) \o <<" ", ":", " ">>)
writeMember(w, child, name, last) ==
  writeEnd(writeValue(writeMemberName(writeCommentBeforeValue(w, child), name), child), child, last)
writeMembers(w, v, names) ==
  IF names = <<>> THEN w
  ELSE writeMembers(writeMember(w, Find(v, Head(names)), Head(names), Len(names) = 1), v, Tail(names))
writeElement(w, child, text) == IF text # <<>> THEN Emit(w, text) ELSE writeValue(w, child)
writeElements(w, v, children, index) ==
  IF index = size(v) THEN w
  ELSE LET child == Find(v, index)
           text == IF children = <<>> THEN <<>> ELSE children[index + 1]
           started == writeIndent(writeCommentBeforeValue(w, child))
       IN  writeElements(writeEnd(writeElement(started, child, text), child, index + 1 = size(v)), v, children, index + 1)
MultiLine(w, v, children) ==
  writeWithIndent(unindent(writeElements(indent(writeWithIndent(w, <<"[">>)), v, children, 0)), <<"]">>)
ArrayLines(w, v, lines) ==
  IF lines.multi THEN MultiLine(w, v, lines.children) ELSE Emit(w, <<"[", " ">> \o Joined(lines.children, <<",", " ">>) \o <<" ", "]">>)
writeArrayValue(w, v) == IF size(v) = 0 THEN Emit(w, <<"[", "]">>) ELSE ArrayLines(w, v, isMultineArray(v))
writeValue(w, v) ==
  CASE v.type = "array" -> writeArrayValue(w, v)
    [] v.type = "object" ->
         IF v.members = <<>> THEN Emit(w, <<"{", "}">>)
         ELSE writeWithIndent(unindent(writeMembers(indent(writeWithIndent(w, <<"{">>)), v, getMemberNames(v))), <<"}">>)
    [] OTHER -> Emit(w, ScalarText(v))

Write(v, style) ==
  LET w == [doc |-> <<>>, indent |-> <<>>, style |-> style]
  IN  writeCommentAfterValueOnSameLine(writeValue(writeCommentBeforeValue(w, v), v), v).doc \o <<"\n">>
StyledWrite(v) == Write(v, [stream |-> FALSE, unit |-> <<" ", " ", " ">>])
StyledStreamWrite(v) == Write(v, [stream |-> TRUE, unit |-> <<"\t">>])
================================================================================
