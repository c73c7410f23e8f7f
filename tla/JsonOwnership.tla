----------------------------- MODULE JsonOwnership -----------------------------
(***************************************************************************)
(* json_value.cpp: who owns the characters of a string value and of a      *)
(* member name.  A value remembers it in allocated_, a name in index_.     *)
(***************************************************************************)
EXTENDS FiniteSets

CONSTANTS Values, Objects, Blocks     \* Blocks bounds what malloc() has out at a time

ASSUME OwnershipAssumption == Values \cap Objects = {} /\ {"none", "static", "caller"} \cap Blocks = {}

VARIABLES
  vals,    \* Values: [type, string, allocated]; type is "string", another one, or "dead"
  names,   \* Objects, of at most one member: the CZString of its name, [cstr, index]
  heap,    \* the blocks that are allocated
  misfreed \* free() was given something else

ownVars == <<vals, names, heap, misfreed>>

NoName == [cstr |-> "none", index |-> "none"]
Dead == [type |-> "dead", string |-> "none", allocated |-> FALSE]

OwnInit ==
  /\ vals = [v \in Values |-> Dead] /\ names = [o \in Objects |-> NoName]
  /\ heap = {} /\ misfreed = FALSE

\* free() of the pointers of a sequence of at most one, after the blocks of made were allocated.
Heap(made, freed) ==
  /\ heap' = (heap \cup made) \ freed
  /\ misfreed' = (misfreed \/ ~(freed \subseteq heap \cup made))
Released(v) == IF v.type = "string" /\ v.allocated /\ v.string # "none" THEN {v.string} ELSE {}

ConstructText(v) ==
  /\ vals[v] = Dead
  /\ \E b \in Blocks \ heap :
       vals' = [vals EXCEPT ![v] = [type |-> "string", string |-> b, allocated |-> TRUE]] /\ Heap({b}, {})
  /\ UNCHANGED names
ConstructStatic(v) ==
  /\ vals[v] = Dead
  /\ vals' = [vals EXCEPT ![v] = [type |-> "string", string |-> "static", allocated |-> FALSE]]
  /\ UNCHANGED <<names, heap, misfreed>>
ConstructType(v) ==
  /\ vals[v] = Dead
  /\ \E t \in {"string", "other"} : vals' = [vals EXCEPT ![v] = [type |-> t, string |-> "none", allocated |-> FALSE]]
  /\ UNCHANGED <<names, heap, misfreed>>
\* The constructors from a number or a Boolean leave allocated_ as it was in memory.
ConstructScalar(v) ==
  /\ vals[v] = Dead
  /\ \E any \in BOOLEAN : vals' = [vals EXCEPT ![v] = [type |-> "other", string |-> "none", allocated |-> any]]
  /\ UNCHANGED <<names, heap, misfreed>>

\* What Value( other ) may be, with the blocks it allocated.
Copies(w) ==
  IF w.type = "string" /\ w.string # "none"
    THEN {[value |-> [w EXCEPT !.string = b, !.allocated = TRUE], made |-> {b}] : b \in Blocks \ heap}
    ELSE {[value |-> [w EXCEPT !.allocated = any], made |-> {}] : any \in BOOLEAN}
Copy(v, w) ==
  /\ vals[v] = Dead /\ vals[w] # Dead
  /\ \E c \in Copies(vals[w]) : vals' = [vals EXCEPT ![v] = c.value] /\ Heap(c.made, {})
  /\ UNCHANGED names

SwappedKeepsFlag(v, w) == <<[w EXCEPT !.allocated = v.allocated], [v EXCEPT !.allocated = w.allocated]>>   \* mutant of Swapped
Swapped(v, w) == <<w, v>>
Swap(v, w) ==
  /\ v # w /\ Dead \notin {vals[v], vals[w]}
  /\ LET pair == Swapped(vals[v], vals[w]) IN vals' = [vals EXCEPT ![v] = pair[1], ![w] = pair[2]]
  /\ UNCHANGED <<names, heap, misfreed>>
\* operator=: a copy of w, swapped with v, is destroyed with what was in v.
AssignTo(v, w) ==
  /\ Dead \notin {vals[v], vals[w]}
  /\ \E c \in Copies(vals[w]) :
       LET pair == Swapped(vals[v], c.value)
       IN  vals' = [vals EXCEPT ![v] = pair[1]] /\ Heap(c.made, Released(pair[2]))
  /\ UNCHANGED names
Destroy(v) ==
  /\ vals[v] # Dead
  /\ vals' = [vals EXCEPT ![v] = Dead] /\ Heap({}, Released(vals[v]))
  /\ UNCHANGED names

\* CZString( other ): the text is copied unless the name was given as a StaticString.
KeyCopies(k) ==
  IF k.index = "noDuplication" THEN {[key |-> k, made |-> {}]}
  ELSE {[key |-> [cstr |-> b, index |-> "duplicate"], made |-> {b}] : b \in Blocks \ heap}
KeyReleased(k) == IF k.index = "duplicate" THEN {k.cstr} ELSE {}

\* resolveReference(): the key of the call, its copy in defaultValue, and the copy of that in the map.
InsertName(o, isStatic) ==
  LET actualKey == IF isStatic THEN [cstr |-> "static", index |-> "noDuplication"]
                   ELSE [cstr |-> "caller", index |-> "duplicateOnCopy"]
  IN  /\ names[o] = NoName
      /\ \E d \in KeyCopies(actualKey) : \E m \in KeyCopies(d.key) :
           /\ d.made # {} => m.made # d.made
           /\ names' = [names EXCEPT ![o] = m.key]
           /\ Heap(d.made \cup m.made, KeyReleased(d.key) \cup KeyReleased(actualKey))
      /\ UNCHANGED vals
CopyObject(o, p) ==
  /\ names[o] = NoName /\ names[p] # NoName
  /\ \E c \in KeyCopies(names[p]) : names' = [names EXCEPT ![o] = c.key] /\ Heap(c.made, {})
  /\ UNCHANGED vals
EraseName(o) ==
  /\ names[o] # NoName
  /\ names' = [names EXCEPT ![o] = NoName] /\ Heap({}, KeyReleased(names[o]))
  /\ UNCHANGED vals

OwnNext ==
  \/ \E v \in Values : ConstructText(v) \/ ConstructStatic(v) \/ ConstructType(v) \/ ConstructScalar(v) \/ Destroy(v)
  \/ \E v, w \in Values : Copy(v, w) \/ Swap(v, w) \/ AssignTo(v, w)
  \/ \E o \in Objects : InsertName(o, TRUE) \/ InsertName(o, FALSE) \/ EraseName(o)
  \/ \E o, p \in Objects : CopyObject(o, p)

OwnSpec == OwnInit /\ [][OwnNext]_ownVars

\* Strings and names do not share characters: every block has one owner, whatever was copied,
\* swapped or assigned, nothing else is freed, and no name points into its caller's buffer.
OwnedOnce ==
  LET owned(x) == IF x \in Values THEN Released(vals[x]) ELSE KeyReleased(names[x])
  IN  /\ ~misfreed
      /\ heap = UNION {owned(x) : x \in Values \cup Objects}
      /\ \A x, y \in Values \cup Objects : x # y => owned(x) \cap owned(y) = {}
      /\ \A o \in Objects : names[o].cstr # "caller"
================================================================================
