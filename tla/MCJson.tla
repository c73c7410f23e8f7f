-------------------------------- MODULE MCJson --------------------------------
(***************************************************************************)
(* src/common/json for TLC.  As in MCHelpers one part moves in each         *)
(* behaviour; integers have 4 and 8 bits instead of 32 and 64.             *)
(***************************************************************************)
EXTENDS JsonGrammar, JsonWriter, JsonArray, JsonOwnership

VARIABLES part, value, other, third

MCElements == {Null, Number("int", 1)}

MCLexemes == [k \in {"{", "}", "[", "]", ",", ":", "string", "scalar", "comment", "bad"} |->
  CASE k = "string" -> {Chars("\"a\"")}
    [] k = "scalar" -> {Chars("1"), Chars("null")}
    [] k = "comment" -> {Chars("/**/"), Chars("//\n")}
    [] k = "bad" -> {Chars("\"\\q\""), Chars("/*/"), Chars("tru"), Chars("-+")}
    [] OTHER -> {Chars(k)}]

List1(s) == Array([i \in 0 .. Len(s) - 1 |-> s[i + 1]])
Noted(v, placement) == setComment(v, placement, IF placement = "commentBefore" THEN Chars("//b\r\n") ELSE Chars("/*s*/"))

MCScalars == {Null, Truth(TRUE), Truth(FALSE), Text(<<>>), Text(Chars("a")), Text(<<"\"", "\\", "\n", Byte[1], "/", Byte[195], Backspace>>)}
  \cup {Number("int", n) : n \in {-128, -9, -1, 0, 1, 7, 8, 127}} \cup {Number("uint", n) : n \in {0, 7, 9, 250, 255}}
  \cup {Number("real", n) : n \in {-81, -15, 0, 10, 15, 79, 81, 155, 165, 1270, 1275, 2555}}
MCLeaves == {Null, Number("uint", 255), Text(Chars("a")), Array(<<>>), Object(<<>>), Array(2 :> Truth(TRUE)),
             Noted(Number("real", -15), "commentBefore"), Noted(Number("int", 1), "commentAfterOnSameLine"),
             setComment(Truth(FALSE), "commentAfterOnSameLine", Chars("//l\n")), setComment(Truth(TRUE), "commentAfterOnSameLine", Chars("//l")),
             Noted(List1(<<Null>>), "commentBefore")}
MCNames == {<<"a">>, <<"\"", "b">>}
Nested(leaves) == {List1(s) : s \in BoundedSeq(leaves, 2)} \cup {Object(f) : f \in UNION {[n -> leaves] : n \in SUBSET MCNames}}
MCInner == {List1(<<Null, Noted(Number("int", 1), "commentBefore")>>), Object(<<"a">> :> Noted(List1(<<Array(<<>>), Null>>), "commentAfterOnSameLine")),
            List1([i \in 1 .. 7 |-> Number("int", i)]), List1([i \in 1 .. 3 |-> Noted(Number("uint", 250), "commentAfterOnSameLine")])}
MCTrees == MCScalars \cup Nested(MCLeaves) \cup Nested(MCInner)
           \cup {setComment(Noted(v, "commentBefore"), "commentAfter", Chars("//z")) : v \in MCInner}

MCOrdered == {Null, Truth(FALSE), Truth(TRUE), Number("int", -1), Number("int", 1), Number("uint", 1), Number("real", 15), [Text(<<>>) EXCEPT !.str = NoText],
              Text(<<>>), Text(<<"a">>), Text(<<"a", "a">>), Text(<<"b">>), Array(<<>>), List1(<<Null>>), Array(1 :> Null), List1(<<Null, Null>>),
              List1(<<Truth(TRUE), Null>>), Object(<<>>), Object(<<"a">> :> Null), Object(<<"b">> :> Null), Object(<<"a">> :> List1(<<Null>>)),
              Object(<<"a">> :> Array(1 :> Null))}

MCSteps == {[kind |-> "index", index |-> 0], [kind |-> "index", index |-> 12], [kind |-> "key", key |-> <<"a">>], [kind |-> "key", key |-> <<"b", "0">>]}
PathText(steps) ==
  FlattenSeq([i \in DOMAIN steps |-> IF steps[i].kind = "index" THEN <<"[">> \o uintToString(steps[i].index) \o <<"]">> ELSE <<".">> \o steps[i].key])

Init ==
  /\ part \in {"Grammar", "Array", "Ownership", "Order", "Tree", "Path", "Number"}
  /\ GrammarInit /\ ArrayInit /\ OwnInit
  /\ value \in CASE part = "Tree" -> MCTrees [] part = "Order" -> MCOrdered [] part = "Path" -> {Null, List1(<<Truth(TRUE), Null>>), Object(<<"a">> :> Null)}
                 [] part = "Number" -> {Number("real", 10 * n) : n \in MaxUInt64 + 1 .. MaxUInt64 + 45} [] OTHER -> {Null}
  /\ other \in IF part = "Order" THEN MCOrdered ELSE IF part = "Path" THEN BoundedSeq(MCSteps, 3) ELSE {Null}
  /\ third \in IF part = "Order" THEN MCOrdered ELSE {Null}

Next ==
  /\ \/ part = "Grammar" /\ GrammarNext /\ UNCHANGED <<arrayVars, ownVars>>
     \/ part = "Array" /\ ArrayNext /\ UNCHANGED <<grammarVars, ownVars>>
     \/ part = "Ownership" /\ OwnNext /\ UNCHANGED <<grammarVars, arrayVars>>
  /\ UNCHANGED <<part, value, other, third>>

Spec == Init /\ [][Next]_<<part, value, other, third, grammarVars, arrayVars, ownVars>>

\* What a value is after it was written and read: numbers have the type their size gives, holes are null.
RECURSIVE ReadAs(_)
ReadAs(v) ==
  CASE v.type \in {"int", "uint"} -> Number(IF v.num <= MaxInt THEN "int" ELSE "uint", v.num)
    [] v.type = "array" -> List1([i \in 1 .. size(v) |-> ReadAs(Find(v, i - 1))])
    [] v.type = "object" -> Object([n \in DOMAIN v.members |-> ReadAs(v.members[n])])
    [] OTHER -> v

\* What the three writers of json_writer.cpp write, with whatever comments and on however many
\* lines, Reader reads back as the same value: no comment swallows what follows it.
WritersReadBack ==
  part = "Tree" =>
    \A d \in {FastWrite(value, TRUE), FastWrite(value, FALSE), StyledWrite(value), StyledStreamWrite(value)} :
      \E r \in {parse(d, all, TRUE)} : r.ok /\ r.errors = <<>> /\ Equal(r.root, ReadAs(value))

\* The number a value stands for, without its fraction.
Whole(v) == Truncated(CHOOSE n \in asDouble(v) : TRUE)

\* json_value.cpp's operators are one total order with its equality, also for sparse arrays.  Where
\* isConvertibleTo() promises an integer, asInt64() and asUInt64() give the number; asInt() and asUInt()
\* give it where it fits in 32 bits and throw for the wider integer that isConvertibleTo() lets through.
\* What a conversion gives is the number, whichever is called.
ValuesOrdered ==
  /\ part = "Order" =>
       /\ Cardinality({d \in {-1, 0, 1} : compare(value, other) = d}) = 1
       /\ compare(value, other) = -compare(other, value)
       /\ Equal(value, other) <=> compare(value, other) = 0
       /\ Smaller(value, other) /\ Smaller(other, third) => Smaller(value, third)
  /\ part = "Tree" =>
       /\ isConvertibleTo(value, "null") /\ value.type # "null" => ~asBool(value)
       /\ isConvertibleTo(value, "int") => LET n == Whole(value) IN
            asInt64(value) = {n} /\ asInt(value) = Within(n, -MaxInt - 1, MaxInt) /\ (value.type # "int" => asInt(value) # {})
       /\ isConvertibleTo(value, "uint") => LET n == Whole(value) IN
            asUInt64(value) = {n} /\ asUInt(value) = Within(n, 0, MaxUInt) /\ (value.type \notin {"int", "uint"} => asUInt(value) # {})
       /\ \A n \in asInt(value) : asInt64(value) = {n} /\ (n >= 0 => n \in asUInt64(value))
       /\ \A n \in asUInt(value) : asUInt64(value) = {n}

\* A path text leads where its steps say: make() creates that node, in a value that has no other
\* type on the way, resolve() finds it again, and what else was in the value stays.
PathsLead ==
  part = "Path" =>
    LET args == makePath(PathText(other), <<>>)
        made == make(value, args)
        steps == [i \in DOMAIN other |-> Step(other[i])]
        marked == WithValueAt(made.root, steps, Truth(FALSE))
    IN  /\ args = other
        /\ made.ok => /\ resolve(marked, args) = [ok |-> TRUE, node |-> Truth(FALSE)]
                      /\ \A k \in IF value.type = "null" THEN {} ELSE DOMAIN Contents(value) :
                           steps # <<>> /\ steps[1] # k => Find(marked, k) = Find(value, k)

\* json_reader.cpp:565-567 of decodeNumber(): "If the number is larger than the maximum supported
\* value of an integer then we decode the number as a double."
LargeIsDouble == part = "Number" => parse(uintToString(value.num \div 10), all, TRUE).root = value

\* json_reader.cpp against the grammar, json_writer.cpp against json_reader.cpp, and json_value.cpp's
\* operators and paths: the properties above.
JsonRight == (part = "Grammar" => ReaderFollowsGrammar) /\ WritersReadBack /\ ValuesOrdered /\ PathsLead
================================================================================
