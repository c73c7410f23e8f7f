-------------------------------- MODULE Bson --------------------------------
(***************************************************************************)
(* A document of bson.c: bson_init, the append functions, objects opened   *)
(* and finished, bson_finish; and the iterator that reads it.  The octets  *)
(* are those of the code; what is written behind the end of the allocated  *)
(* memory is in `data` too, see Fits.                                      *)
(***************************************************************************)
EXTENDS BsonText

CONSTANTS Names,        \* field names
          Plain,        \* the name given where the name makes no difference of its own
          Fixed,        \* <<type, octets>> of the types with a fixed width
          Strings,      \* texts
          Embedded,     \* finished documents, for append_bson and code_w_scope
          InitialSize,  \* initialBufferSize, 128 in the code
          StackRoom,    \* entries of bson.stack, 32 in the code
          MaxAppends    \* bound: appends and objects

VARIABLES b,     \* the bson: [data, size, finished, err, stack, room, exited]
          want,  \* what was appended: the fields of the document and of the objects open
          used   \* appends so far

bsonvars == <<b, want, used>>

EOO == 0
OBJECT == 3
BINDATA == 5
REGEX == 11
CODEWSCOPE == 15
LOCAL TypeSize == [t \in {6, 10, 127, 255} |-> 0] @@ (8 :> 1) @@ (16 :> 4) @@ [t \in {1, 9, 17, 18} |-> 8] @@ (7 :> 12)

\* Little endian; no number of the model needs the upper half.
Int32(n) == <<n % 256, n \div 256, 0, 0>>
IntAt(d, i) == IF i + 1 > Len(d) THEN 0 ELSE d[i] + 256 * d[i + 1]

(***************************************************************************)
(* The iterator.  i is the place of the type of an element.                *)
(***************************************************************************)
\* strlen(): the place of the 0, or the end if there is none.
StrEnd(d, i) == LET zeros == {j \in i..Len(d) : d[j] = 0}
                IN IF zeros = {} THEN Len(d) + 1 ELSE CHOOSE j \in zeros : \A k \in zeros : j <= k
KeyAt(d, i) == SubSeq(d, i + 1, StrEnd(d, i + 1) - 1)
ValueAt(d, i) == StrEnd(d, i + 1) + 1

\* the widths of bson_iterator_next
ValueSize(d, type, v) ==
  CASE type \in DOMAIN TypeSize -> TypeSize[type]
    [] type \in {2, 13, 14} -> 4 + IntAt(d, v)
    [] type = BINDATA -> 5 + IntAt(d, v)
    [] type = REGEX -> StrEnd(d, StrEnd(d, v) + 1) + 1 - v
    [] OTHER -> IntAt(d, v)

IteratorNext(d, i) == ValueAt(d, i) + ValueSize(d, d[i], ValueAt(d, i))

\* bson_iterator_string, _bin_data, _regex, _code and the like: the value that
\* is v in the octets.
Read(d, type, v, n) ==
  CASE type \in {2, 13, 14} -> SubSeq(d, v + 4, v + n - 2)
    [] type = BINDATA -> SubSeq(d, v + (IF d[v + 4] = 2 THEN 9 ELSE 5), v + n - 1)
    [] type = CODEWSCOPE -> SubSeq(d, v + 8, v + n - 1)
    [] OTHER -> SubSeq(d, v, v + n - 1)

\* The fields of the document that starts at `at`, those of the objects in it
\* as fields: bson_iterator_init or _subiterator, then _next to the end.
RECURSIVE FieldsFrom(_, _)
Fields(d, at) == FieldsFrom(d, at + 4)
FieldsFrom(d, i) ==
  IF i > Len(d) \/ d[i] = EOO THEN <<>>
  ELSE <<[type |-> d[i], key |-> KeyAt(d, i),
          value |-> IF d[i] \in {3, 4} THEN Fields(d, ValueAt(d, i))
                    ELSE Read(d, d[i], ValueAt(d, i), ValueSize(d, d[i], ValueAt(d, i)))]>>
       \o FieldsFrom(d, IteratorNext(d, i))

\* bson_find: the type of the first field with that name
RECURSIVE FindFrom(_, _, _)
FindFrom(d, i, name) ==
  IF i > Len(d) \/ d[i] = EOO THEN EOO
  ELSE IF KeyAt(d, i) = name THEN d[i] ELSE FindFrom(d, IteratorNext(d, i), name)
BsonFind(d, name) == FindFrom(d, 5, name)

(***************************************************************************)
(* Building.  The functions give the bson after them; ok is what they      *)
(* return, for the caller.                                                 *)
(***************************************************************************)
BsonInit ==
  /\ b = [data |-> Int32(0), size |-> InitialSize, finished |-> FALSE, err |-> {},
          stack |-> <<>>, room |-> 0, exited |-> FALSE, ok |-> TRUE, misused |-> FALSE]
  /\ want = << <<>> >>
  /\ used = 0

Flagged(s, flags) == [s EXCEPT !.err = @ \cup flags, !.ok = FALSE]
Puts(s, octets) == [s EXCEPT !.data = @ \o octets, !.ok = TRUE]

\* bson_ensure_space: half as much again when it does not fit
EnsureSpace(s, n) ==
  [s EXCEPT !.ok = TRUE, !.size = IF Len(s.data) + n <= @ THEN @ ELSE (3 * (@ + n)) \div 2]

\* bson_append_estart: the type and the name, and room for n octets behind them
EstartWithoutEnd(s, type, name, n) ==
  CASE s.finished -> Flagged(s, {"already finished"})
    [] ~s.finished /\ "not utf8" \in CheckFieldName(name) -> Flagged(EnsureSpace(s, Len(name) + 1 + n), CheckFieldName(name))
    [] OTHER -> [Puts(EnsureSpace(s, Len(name) + 1 + n), <<type>> \o name \o <<0>>) EXCEPT !.err = @ \cup CheckFieldName(name)]
Estart(s, type, name, n) ==
  CASE s.finished -> Flagged(s, {"already finished"})
    [] ~s.finished /\ "not utf8" \in CheckFieldName(name) -> Flagged(EnsureSpace(s, Len(name) + 2 + n), CheckFieldName(name))
    [] OTHER -> [Puts(EnsureSpace(s, Len(name) + 2 + n), <<type>> \o name \o <<0>>) EXCEPT !.err = @ \cup CheckFieldName(name)]

\* estart and the octets of the value
Value(s, type, name, octets) ==
  LET t == Estart(s, type, name, Len(octets)) IN IF t.ok THEN Puts(t, octets) ELSE t

\* bson_append_string_base
StringValue(s, type, name, text) ==
  IF CheckString(text) /= {} THEN Flagged(s, CheckString(text))
  ELSE Value(s, type, name, Int32(Len(text) + 1) \o text \o <<0>>)

\* bson_append_binary; the old subtype 2 has its length twice
BinaryValue(s, name, subtype, octets) ==
  Value(s, BINDATA, name,
        IF subtype = 2 THEN Int32(Len(octets) + 4) \o <<2>> \o Int32(Len(octets)) \o octets
        ELSE Int32(Len(octets)) \o <<subtype>> \o octets)

\* bson_append_regex: the pattern is looked at after the name is written
RegexValue(s, name, pattern, opts) ==
  LET t == Estart(s, REGEX, name, Len(pattern) + Len(opts) + 2)
  IN IF t.ok /\ CheckString(pattern) /= {} THEN Flagged(t, CheckString(pattern))
     ELSE IF t.ok THEN Puts(t, pattern \o <<0>> \o opts \o <<0>>) ELSE t

\* bson_append_code_w_scope_n; no look at the code
CodeValue(s, name, code, scope) ==
  Value(s, CODEWSCOPE, name,
        Int32(9 + Len(code) + Len(scope)) \o Int32(Len(code) + 1) \o code \o <<0>> \o scope)

\* bson_append_start_object, _array: 5 octets are asked for, 4 written, one
\* left for the end; _bson_append_grow_stack: none, then StackRoom, then twice.
Start(s, type, name) ==
  LET t == Estart(s, type, name, 5)
  IN IF ~t.ok THEN t
     ELSE [Puts(t, Int32(0)) EXCEPT
             !.room = IF Len(s.stack) < @ THEN @ ELSE IF @ = 0 THEN StackRoom ELSE 2 * @,
             !.stack = Append(@, Len(t.data) + 1)]

\* the size of a document, into its first four octets
Sized(d, at) == [i \in DOMAIN d |-> IF i \in at..at + 3 THEN Int32(Len(d) - at + 1)[i - at + 1] ELSE d[i]]

FinishObject(s) ==
  IF s.stack = <<>> THEN [s EXCEPT !.err = {"not in subobject"}, !.ok = FALSE, !.misused = TRUE]
  ELSE [Puts(EnsureSpace(s, 1), <<0>>) EXCEPT !.data = Sized(@, Last(s.stack)), !.stack = Front(@)]

\* bson_finish.  With an object open bson_fatal_msg() ends the program.
Finish(s) ==
  CASE "not utf8" \in s.err -> [s EXCEPT !.ok = FALSE]
    [] "not utf8" \notin s.err /\ s.finished -> [s EXCEPT !.ok = TRUE]
    [] "not utf8" \notin s.err /\ ~s.finished /\ s.stack /= <<>> -> [s EXCEPT !.exited = TRUE]
    [] OTHER -> [Puts(EnsureSpace(s, 1), <<0>>) EXCEPT !.data = Sized(@, 1), !.finished = TRUE]

\* bson_append_element of the element at i of document d: as it is, or with a
\* new name; then what estart returns is not looked at.  No call of it asks
\* whether the bson is finished.
Element(s, d, i) ==
  [Puts(EnsureSpace(s, IteratorNext(d, i) - i), SubSeq(d, i, IteratorNext(d, i) - 1)) EXCEPT !.misused = @ \/ s.finished]
Renamed(s, d, i, name) ==
  [Puts(Estart(s, d[i], name, IteratorNext(d, i) - ValueAt(d, i)), SubSeq(d, ValueAt(d, i), IteratorNext(d, i) - 1))
     EXCEPT !.misused = @ \/ s.finished]

(***************************************************************************)
(* The calls of the program, and what it wants the document to be.         *)
(***************************************************************************)
LOCAL Adds(field) == want' = [want EXCEPT ![Len(want)] = Append(@, field)]

Appends(s, type, name, value) ==
  /\ ~b.exited /\ used < MaxAppends
  /\ b' = s /\ used' = used + 1
  /\ IF s.ok THEN Adds([type |-> type, key |-> name, value |-> value]) ELSE UNCHANGED want

AppendFixed(name, v) == Appends(Value(b, v[1], name, v[2]), v[1], name, v[2])
AppendString(name, type, text) == Appends(StringValue(b, type, name, text), type, name, text)
AppendBinary(name, subtype, octets) == Appends(BinaryValue(b, name, subtype, octets), BINDATA, name, octets)
AppendRegex(name, text) == Appends(RegexValue(b, name, text, <<105>>), REGEX, name, text \o <<0, 105, 0>>)
AppendCodeWScope(name, text, d) == Appends(CodeValue(b, name, text, d), CODEWSCOPE, name, text \o <<0>> \o d)
AppendBson(name, d) == Appends(Value(b, OBJECT, name, d), OBJECT, name, Fields(d, 1))

\* the first element of d
AppendElement(d) ==
  Appends(Element(b, d, 5), Fields(d, 1)[1].type, Fields(d, 1)[1].key, Fields(d, 1)[1].value)
AppendElementAs(d, name) ==
  Appends(Renamed(b, d, 5, name), Fields(d, 1)[1].type, name, Fields(d, 1)[1].value)

StartObject(name, type) ==
  /\ ~b.exited /\ used < MaxAppends
  /\ \E s \in {Start(b, type, name)} :
       /\ b' = s /\ used' = used + 1
       /\ want' = IF s.ok THEN Append(Append(Front(want), Append(Last(want), [type |-> type, key |-> name, value |-> <<>>])), <<>>)
                  ELSE want

\* the object open last becomes the value of the field it was opened as
CloseObject ==
  /\ ~b.exited
  /\ b' = FinishObject(b) /\ UNCHANGED used
  /\ want' = IF b.stack = <<>> THEN want
             ELSE LET outer == want[Len(want) - 1]
                  IN [i \in 1..Len(want) - 1 |->
                        IF i < Len(want) - 1 THEN want[i] ELSE [outer EXCEPT ![Len(outer)].value = Last(want)]]

FinishDocument == ~b.exited /\ b' = Finish(b) /\ UNCHANGED <<want, used>>

BsonNext ==
  \/ \E name \in Names :
       \/ \E v \in Fixed : AppendFixed(name, v)
       \/ \E type \in {3, 4} : StartObject(name, type)
       \/ \E d \in Embedded : Fields(d, 1) /= <<>> /\ AppendElementAs(d, name)
  \/ \E text \in Strings :
       \/ AppendString(Plain, 13, text)
       \/ \E subtype \in {0, 2} : AppendBinary(Plain, subtype, text)
       \/ AppendRegex(Plain, text)
       \/ \E d \in Embedded : AppendCodeWScope(Plain, text, d)
  \/ \E d \in Embedded : AppendBson(Plain, d) \/ (Fields(d, 1) /= <<>> /\ AppendElement(d))
  \/ CloseObject \/ FinishDocument

(***************************************************************************)
(* What is sent.                                                           *)
(***************************************************************************)
\* mongo_bson_valid for a write; mongo_cursor_bson_valid is the same for a query
\* without the flags of the names.
BsonValid(s) == s.finished /\ s.err \cap {"not utf8", "has dot", "init dollar"} = {}
CursorBsonValid(s) == s.finished /\ "not utf8" \notin s.err

\* The names the program gave, those of the objects it opened among them.
RECURSIVE Keys(_)
Keys(fields) == UNION {{fields[k].key} \cup (IF fields[k].type \in {3, 4} THEN Keys(fields[k].value) ELSE {}) : k \in DOMAIN fields}

\* The octets never pass the memory that was asked for (bson_ensure_space).
Fits == ~b.misused => Len(b.data) <= b.size /\ Len(b.stack) <= b.room

\* A finished document that mongo_find or a write sends reads back as the
\* fields appended, each text in it is one, its size is the number of its
\* octets, and in a write no name has a dot or starts with '$'.
SentRight ==
  ~b.misused /\ CursorBsonValid(b) =>
    /\ Fields(b.data, 1) = want[1] /\ Len(want) = 1
    /\ IntAt(b.data, 1) = Len(b.data)
    /\ \A k \in Names : BsonFind(b.data, k) = LET at == SelectInSeq(want[1], LAMBDA f : f.key = k)
                                          IN IF at = 0 THEN EOO ELSE want[1][at].type
    /\ BsonValid(b) => \A key \in Keys(want[1]) : CheckFieldName(key) = {}

BsonRight == Fits /\ SentRight
=============================================================================
