----------------------------- MODULE JsonProofs -----------------------------
(***************************************************************************)
(* JSON values, for any values, objects, blocks and elements: every block  *)
(* of a string or a member name has one owner, nothing else is freed, and  *)
(* nothing is lost; an array is the list of module JsonList.               *)
(***************************************************************************)
EXTENDS JsonOwnership, JsonArray, SequenceTheorems, Induction

(* JsonOwnership: the owners of the texts, json_value.cpp *)

Owners == Values \cup Objects

\* What each value and each name would free.
Owned == [x \in Owners |-> IF x \in Values THEN Released(vals[x]) ELSE KeyReleased(names[x])]

Texts == [type : {"string", "other", "dead"}, string : Blocks \cup {"none", "static"}, allocated : BOOLEAN]
NameKeys == [cstr : Blocks \cup {"none", "static"}, index : {"none", "duplicate", "noDuplication"}]

OwnType ==
  /\ vals \in [Values -> Texts]
  /\ names \in [Objects -> NameKeys]
  /\ misfreed \in BOOLEAN

OwnInv == OwnType /\ OwnedOnce

-----------------------------------------------------------------------------
(* Owners *)

\* What an owner owns, before and after.
LEMMA OwnedOf ==
  /\ \A v \in Values : Owned[v] = Released(vals[v]) /\ Owned'[v] = Released(vals'[v])
  /\ \A o \in Objects : Owned[o] = KeyReleased(names[o]) /\ Owned'[o] = KeyReleased(names'[o])
  /\ \A x \in Owners : x \in Values \/ x \in Objects
<1>1. \A x \in Owners : Owned[x] = IF x \in Values THEN Released(vals[x]) ELSE KeyReleased(names[x])
  BY DEF Owned
<1>2. \A x \in Owners : Owned'[x] = IF x \in Values THEN Released(vals'[x]) ELSE KeyReleased(names'[x])
  BY DEF Owned, Owners, Released, KeyReleased
<1>. QED
  BY <1>1, <1>2, OwnershipAssumption DEF Owners

\* OwnedOnce, said with the function of what each owns.
LEMMA OwnedFacts ==
  /\ OwnedOnce <=> /\ ~misfreed
                   /\ heap = UNION {Owned[x] : x \in Owners}
                   /\ \A x, y \in Owners : x # y => Owned[x] \cap Owned[y] = {}
                   /\ \A o \in Objects : names[o].cstr # "caller"
  /\ OwnedOnce' <=> /\ ~misfreed'
                    /\ heap' = UNION {Owned'[x] : x \in Owners}
                    /\ \A x, y \in Owners : x # y => Owned'[x] \cap Owned'[y] = {}
                    /\ \A o \in Objects : names'[o].cstr # "caller"
<1>1. \A x \in Owners : Owned[x] = IF x \in Values THEN Released(vals[x]) ELSE KeyReleased(names[x])
  BY DEF Owned
<1>2. \A x \in Owners :
        Owned'[x] = (IF x \in Values THEN Released(vals[x]) ELSE KeyReleased(names[x]))'
  BY DEF Owned, Owners
<1>3. OwnedOnce <=> /\ ~misfreed
                    /\ heap = UNION {Owned[x] : x \in Owners}
                    /\ \A x, y \in Owners : x # y => Owned[x] \cap Owned[y] = {}
                    /\ \A o \in Objects : names[o].cstr # "caller"
  BY <1>1 DEF OwnedOnce, Owners
<1>4. OwnedOnce' <=> /\ ~misfreed'
                     /\ heap' = UNION {Owned'[x] : x \in Owners}
                     /\ \A x, y \in Owners : x # y => Owned'[x] \cap Owned'[y] = {}
                     /\ \A o \in Objects : names'[o].cstr # "caller"
  BY <1>2 DEF OwnedOnce, Owners
<1>. QED
  BY <1>3, <1>4

\* One of the owners gets new blocks for those it had, which are freed with others that were
\* allocated meanwhile.
LEMMA Moves ==
  ASSUME OwnedOnce, NEW x \in Owners, NEW got, NEW extra,
         Owned'[x] = got, \A y \in Owners : y # x => Owned'[y] = Owned[y],
         got \cap heap = {}, extra \cap heap = {}, got \cap extra = {},
         Heap(got \cup extra, Owned[x] \cup extra),
         \A o \in Objects : names'[o].cstr # "caller"
  PROVE  OwnedOnce'
<1>. DEFINE f == Owned
            g == Owned'
<1>1. /\ heap = UNION {f[y] : y \in Owners}
      /\ \A y, z \in Owners : y # z => f[y] \cap f[z] = {}
      /\ ~misfreed
  BY OwnedFacts
<1>2. g[x] = got /\ \A y \in Owners : y # x => g[y] = f[y]
  OBVIOUS
<1>3. /\ heap' = (heap \cup (got \cup extra)) \ (f[x] \cup extra)
      /\ misfreed' = (misfreed \/ ~(f[x] \cup extra \subseteq heap \cup (got \cup extra)))
  BY DEF Heap
<1>. HIDE DEF f, g
<1>4. \A y \in Owners : f[y] \subseteq heap
  BY <1>1
<1>5. ASSUME NEW b \in heap, b \notin f[x] PROVE b \in UNION {g[y] : y \in Owners}
  <2>1. PICK y \in Owners : b \in f[y]
    BY <1>1, <1>5
  <2>. QED
    BY <1>2, <1>5, <2>1
<1>6. ASSUME NEW b \in UNION {g[y] : y \in Owners}, b \notin got
      PROVE  b \in heap /\ b \notin f[x] /\ b \notin extra
  <2>1. PICK y \in Owners : b \in g[y]
    BY <1>6
  <2>2. y # x /\ b \in f[y]
    BY <1>2, <1>6, <2>1
  <2>3. f[y] \cap f[x] = {} /\ b \in heap
    BY <1>1, <1>4, <2>2
  <2>. QED
    BY <2>2, <2>3
<1>7. ASSUME NEW b \in got PROVE b \notin f[x] /\ b \notin extra /\ b \in UNION {g[y] : y \in Owners}
  BY <1>2, <1>4, <1>7
<1>8. (heap \cup (got \cup extra)) \ (f[x] \cup extra) = UNION {g[y] : y \in Owners}
  BY <1>5, <1>6, <1>7
<1>9. ASSUME NEW y \in Owners, NEW z \in Owners, y # z PROVE g[y] \cap g[z] = {}
  BY <1>1, <1>2, <1>4, <1>9
<1>10. /\ ~misfreed' /\ heap' = UNION {g[y] : y \in Owners}
       /\ \A y, z \in Owners : y # z => g[y] \cap g[z] = {}
  BY <1>1, <1>3, <1>4, <1>8, <1>9
<1>. QED
  BY <1>10, OwnedFacts DEF g

\* A value gets another content: what it owned is freed, what it owns was allocated.
LEMMA ValueMoves ==
  ASSUME OwnInv, NEW v \in Values, NEW w \in Texts, vals' = [vals EXCEPT ![v] = w], UNCHANGED names,
         Released(w) \cap heap = {}, Heap(Released(w), Released(vals[v]))
  PROVE  OwnInv'
<1>1. OwnType'
  BY DEF OwnInv, OwnType, Heap
<1>2. vals'[v] = w /\ \A u \in Values : u # v => vals'[u] = vals[u]
  BY DEF OwnInv, OwnType
<1>3. Owned[v] = Released(vals[v]) /\ Owned'[v] = Released(w)
  BY <1>2, OwnedOf
<1>4. ASSUME NEW x \in Owners, x # v PROVE Owned'[x] = Owned[x]
  BY <1>2, <1>4, OwnedOf
<1>5. \A o \in Objects : names'[o].cstr # "caller"
  BY DEF OwnInv, OwnedOnce
<1>6. Heap(Released(w) \cup {}, Owned[v] \cup {})
  BY <1>3 DEF Heap
<1>7. OwnedOnce'
  BY <1>3, <1>4, <1>5, <1>6, Moves DEF OwnInv, Owners
<1>. QED
  BY <1>1, <1>7 DEF OwnInv

\* The same where nothing is allocated or freed.
LEMMA ValueStays ==
  ASSUME OwnInv, NEW v \in Values, NEW w \in Texts, vals' = [vals EXCEPT ![v] = w],
         UNCHANGED <<names, heap, misfreed>>, Released(w) = {}, Released(vals[v]) = {}
  PROVE  OwnInv'
<1>1. misfreed = FALSE
  BY DEF OwnInv, OwnType, OwnedOnce
<1>2. heap' = (heap \cup Released(w)) \ Released(vals[v])
  OBVIOUS
<1>3. misfreed' = (misfreed \/ ~(Released(vals[v]) \subseteq heap \cup Released(w)))
  BY <1>1
<1>4. Released(w) \cap heap = {}
  OBVIOUS
<1>. QED
  BY <1>2, <1>3, <1>4, ValueMoves DEF Heap

\* An object gets another name; blocks of keys on the way are freed again.
LEMMA NameMoves ==
  ASSUME OwnInv, NEW o \in Objects, NEW k \in NameKeys, names' = [names EXCEPT ![o] = k], UNCHANGED vals,
         NEW extra, KeyReleased(k) \cap heap = {}, extra \cap heap = {}, KeyReleased(k) \cap extra = {},
         Heap(KeyReleased(k) \cup extra, KeyReleased(names[o]) \cup extra)
  PROVE  OwnInv'
<1>1. OwnType'
  BY DEF OwnInv, OwnType, Heap
<1>2. names'[o] = k /\ \A p \in Objects : p # o => names'[p] = names[p]
  BY DEF OwnInv, OwnType
<1>3. Owned[o] = KeyReleased(names[o]) /\ Owned'[o] = KeyReleased(k)
  BY <1>2, OwnedOf
<1>4. ASSUME NEW x \in Owners, x # o PROVE Owned'[x] = Owned[x]
  BY <1>2, <1>4, OwnedOf
<1>5. \A p \in Objects : names'[p].cstr # "caller"
  BY <1>1, OwnershipAssumption DEF OwnType, NameKeys
<1>6. Heap(KeyReleased(k) \cup extra, Owned[o] \cup extra)
  BY <1>3
<1>7. OwnedOnce'
  BY <1>3, <1>4, <1>5, <1>6, Moves DEF OwnInv, Owners
<1>. QED
  BY <1>1, <1>7 DEF OwnInv

\* A copy of a value owns what was allocated for it.
LEMMA CopyOwns ==
  ASSUME NEW w \in Texts, NEW c \in Copies(w)
  PROVE  c.value \in Texts /\ Released(c.value) = c.made /\ c.made \cap heap = {}
<1>1. CASE w.type = "string" /\ w.string # "none"
  <2>1. PICK b \in Blocks \ heap : c = [value |-> [w EXCEPT !.string = b, !.allocated = TRUE], made |-> {b}]
    BY <1>1 DEF Copies
  <2>2. [w EXCEPT !.string = b, !.allocated = TRUE] \in Texts
    BY DEF Texts
  <2>3. b # "none"
    BY OwnershipAssumption
  <2>4. Released([w EXCEPT !.string = b, !.allocated = TRUE]) = {b}
    BY <1>1, <2>3 DEF Released, Texts
  <2>. QED
    BY <2>1, <2>2, <2>4
<1>2. CASE ~(w.type = "string" /\ w.string # "none")
  <2>1. PICK any \in BOOLEAN : c = [value |-> [w EXCEPT !.allocated = any], made |-> {}]
    BY <1>2 DEF Copies
  <2>2. [w EXCEPT !.allocated = any] \in Texts
    BY DEF Texts
  <2>3. Released([w EXCEPT !.allocated = any]) = {}
    BY <1>2 DEF Released, Texts
  <2>. QED
    BY <2>1, <2>2, <2>3
<1>. QED
  BY <1>1, <1>2

\* A copy of a name owns what was allocated for it, and never points to the caller.
LEMMA KeyCopyOwns ==
  ASSUME NEW k, k.index = "noDuplication" => k \in NameKeys, NEW c \in KeyCopies(k)
  PROVE  c.key \in NameKeys /\ KeyReleased(c.key) = c.made /\ c.made \cap heap = {}
<1>1. CASE k.index = "noDuplication"
  BY <1>1 DEF KeyCopies, KeyReleased
<1>2. CASE k.index # "noDuplication"
  BY <1>2 DEF KeyCopies, KeyReleased, NameKeys
<1>. QED
  BY <1>1, <1>2

-----------------------------------------------------------------------------
(* Operations *)

\* The invariant holds at the beginning.
LEMMA OwnInvInit == OwnInit => OwnInv
<1>. SUFFICES ASSUME OwnInit PROVE OwnInv
  OBVIOUS
<1>1. OwnType
  BY DEF OwnInit, OwnType, Texts, NameKeys, Dead, NoName
<1>2. \A x \in Owners : Owned[x] = {}
  BY DEF OwnInit, Owned, Owners, Released, KeyReleased, Dead, NoName
<1>3. \A o \in Objects : names[o].cstr # "caller"
  BY DEF OwnInit, NoName
<1>4. ~misfreed /\ heap = {}
  BY DEF OwnInit
<1>5. OwnedOnce
  BY <1>2, <1>3, <1>4, OwnedFacts
<1>. QED
  BY <1>1, <1>5 DEF OwnInv

\* The constructors of Value.
LEMMA Constructors ==
  ASSUME OwnInv, NEW v \in Values,
         ConstructText(v) \/ ConstructStatic(v) \/ ConstructType(v) \/ ConstructScalar(v)
  PROVE  OwnInv'
<1>1. vals[v] = Dead => Released(vals[v]) = {}
  BY DEF Released, Dead
<1>2. CASE ConstructText(v)
  <2>1. PICK b \in Blocks \ heap :
          vals' = [vals EXCEPT ![v] = [type |-> "string", string |-> b, allocated |-> TRUE]] /\ Heap({b}, {})
    BY <1>2 DEF ConstructText
  <2>. DEFINE w == [type |-> "string", string |-> b, allocated |-> TRUE]
  <2>2. w \in Texts
    BY DEF Texts
  <2>3. Released(w) = {b}
    BY OwnershipAssumption DEF Released
  <2>4. vals' = [vals EXCEPT ![v] = w] /\ UNCHANGED names /\ Heap(Released(w), Released(vals[v]))
    BY <1>1, <1>2, <2>1, <2>3 DEF ConstructText
  <2>. HIDE DEF w
  <2>. QED
    BY <2>2, <2>3, <2>4, ValueMoves
<1>3. ASSUME NEW w \in Texts, Released(w) = {}, vals[v] = Dead, vals' = [vals EXCEPT ![v] = w],
             UNCHANGED <<names, heap, misfreed>>
      PROVE  OwnInv'
  BY <1>1, <1>3, ValueStays
<1>4. CASE ConstructStatic(v)
  <2>. DEFINE w == [type |-> "string", string |-> "static", allocated |-> FALSE]
  <2>1. w \in Texts /\ Released(w) = {}
    BY DEF Texts, Released
  <2>. QED
    BY <1>3, <1>4, <2>1 DEF ConstructStatic
<1>5. CASE ConstructType(v)
  <2>1. PICK t \in {"string", "other"} :
          vals' = [vals EXCEPT ![v] = [type |-> t, string |-> "none", allocated |-> FALSE]]
    BY <1>5 DEF ConstructType
  <2>. DEFINE w == [type |-> t, string |-> "none", allocated |-> FALSE]
  <2>2. w \in Texts /\ Released(w) = {}
    BY DEF Texts, Released
  <2>. QED
    BY <1>3, <1>5, <2>1, <2>2 DEF ConstructType
<1>6. CASE ConstructScalar(v)
  <2>1. PICK any \in BOOLEAN :
          vals' = [vals EXCEPT ![v] = [type |-> "other", string |-> "none", allocated |-> any]]
    BY <1>6 DEF ConstructScalar
  <2>. DEFINE w == [type |-> "other", string |-> "none", allocated |-> any]
  <2>2. w \in Texts /\ Released(w) = {}
    BY DEF Texts, Released
  <2>. QED
    BY <1>3, <1>6, <2>1, <2>2 DEF ConstructScalar
<1>. QED
  BY <1>2, <1>4, <1>5, <1>6

\* Value( other ): the copy has blocks of its own.
LEMMA CopyKeeps ==
  ASSUME OwnInv, NEW v \in Values, NEW w \in Values, Copy(v, w)
  PROVE  OwnInv'
<1>1. PICK c \in Copies(vals[w]) : vals' = [vals EXCEPT ![v] = c.value] /\ Heap(c.made, {})
  BY DEF Copy
<1>2. c.value \in Texts /\ Released(c.value) = c.made /\ c.made \cap heap = {}
  BY <1>1, CopyOwns DEF OwnInv, OwnType
<1>3. Released(vals[v]) = {} /\ UNCHANGED names
  BY DEF Copy, Released, Dead
<1>. QED
  BY <1>1, <1>2, <1>3, ValueMoves

\* operator=: the value has the blocks of the copy, and the copy is destroyed with those it had.
LEMMA AssignKeeps ==
  ASSUME OwnInv, NEW v \in Values, NEW w \in Values, AssignTo(v, w)
  PROVE  OwnInv'
<1>1. PICK c \in Copies(vals[w]) :
        vals' = [vals EXCEPT ![v] = c.value] /\ Heap(c.made, Released(vals[v]))
  BY DEF AssignTo, Swapped
<1>2. c.value \in Texts /\ Released(c.value) = c.made /\ c.made \cap heap = {}
  BY <1>1, CopyOwns DEF OwnInv, OwnType
<1>. QED
  BY <1>1, <1>2, ValueMoves DEF AssignTo

\* The destructor.
LEMMA DestroyKeeps ==
  ASSUME OwnInv, NEW v \in Values, Destroy(v)
  PROVE  OwnInv'
<1>1. Dead \in Texts /\ Released(Dead) = {}
  BY DEF Dead, Texts, Released
<1>. QED
  BY <1>1, ValueMoves DEF Destroy

\* swap(): the blocks change their owners with what says that they are owned.
LEMMA SwapKeeps ==
  ASSUME OwnInv, NEW v \in Values, NEW w \in Values, Swap(v, w)
  PROVE  OwnInv'
<1>1. v # w /\ vals' = [vals EXCEPT ![v] = vals[w], ![w] = vals[v]] /\ UNCHANGED <<names, heap, misfreed>>
  BY DEF Swap, Swapped
<1>2. /\ vals' \in [Values -> Texts] /\ vals'[v] = vals[w] /\ vals'[w] = vals[v]
      /\ \A u \in Values : u # v /\ u # w => vals'[u] = vals[u]
  BY <1>1 DEF OwnInv, OwnType
<1>3. OwnType'
  BY <1>1, <1>2 DEF OwnInv, OwnType
<1>4. Owned'[v] = Owned[w] /\ Owned'[w] = Owned[v]
  BY <1>2, OwnedOf
<1>5. ASSUME NEW x \in Owners, x # v, x # w PROVE Owned'[x] = Owned[x]
  BY <1>1, <1>2, <1>5, OwnedOf
<1>. DEFINE f == Owned
            g == Owned'
<1>6. /\ g[v] = f[w] /\ g[w] = f[v] /\ \A x \in Owners : x # v /\ x # w => g[x] = f[x]
      /\ heap = UNION {f[x] : x \in Owners} /\ v \in Owners /\ w \in Owners
      /\ \A x, y \in Owners : x # y => f[x] \cap f[y] = {}
  BY <1>4, <1>5, OwnedFacts DEF OwnInv, Owners
<1>. HIDE DEF f, g
<1>7. UNION {g[x] : x \in Owners} = UNION {f[x] : x \in Owners}
  BY <1>6
<1>8. \A x, y \in Owners : x # y => g[x] \cap g[y] = {}
  BY <1>6
<1>9. ~misfreed' /\ \A o \in Objects : names'[o].cstr # "caller"
  BY <1>1 DEF OwnInv, OwnedOnce
<1>. QED
  BY <1>1, <1>3, <1>6, <1>7, <1>8, <1>9, OwnedFacts DEF OwnInv, f, g

\* resolveReference(): the map's key has a block of its own, and those on the way are freed.
LEMMA InsertKeeps ==
  ASSUME OwnInv, NEW o \in Objects, NEW isStatic \in BOOLEAN, InsertName(o, isStatic)
  PROVE  OwnInv'
<1>. DEFINE actualKey == IF isStatic THEN [cstr |-> "static", index |-> "noDuplication"]
                         ELSE [cstr |-> "caller", index |-> "duplicateOnCopy"]
<1>1. PICK d \in KeyCopies(actualKey) : \E m \in KeyCopies(d.key) :
        /\ d.made # {} => m.made # d.made
        /\ names' = [names EXCEPT ![o] = m.key]
        /\ Heap(d.made \cup m.made, KeyReleased(d.key) \cup KeyReleased(actualKey))
  BY DEF InsertName
<1>2. PICK m \in KeyCopies(d.key) :
        /\ d.made # {} => m.made # d.made
        /\ names' = [names EXCEPT ![o] = m.key]
        /\ Heap(d.made \cup m.made, KeyReleased(d.key) \cup KeyReleased(actualKey))
  BY <1>1
<1>3. (actualKey.index = "noDuplication" => actualKey \in NameKeys) /\ KeyReleased(actualKey) = {}
  BY DEF NameKeys, KeyReleased
<1>4. d.made = {} \/ \E b : d.made = {b}
  BY DEF KeyCopies
<1>5. m.made = {} \/ \E b : m.made = {b}
  BY DEF KeyCopies
<1>6. names[o] = NoName /\ UNCHANGED vals /\ KeyReleased(names[o]) = {}
  BY DEF InsertName, KeyReleased, NoName
<1>. HIDE DEF actualKey
<1>7. d.key \in NameKeys /\ KeyReleased(d.key) = d.made /\ d.made \cap heap = {}
  BY <1>3, KeyCopyOwns
<1>8. m.key \in NameKeys /\ KeyReleased(m.key) = m.made /\ m.made \cap heap = {}
  BY <1>7, KeyCopyOwns
<1>9. d.made \cap m.made = {}
  BY <1>2, <1>4, <1>5
<1>10. Heap(KeyReleased(m.key) \cup d.made, KeyReleased(names[o]) \cup d.made)
  <2>1. d.made \cup m.made = KeyReleased(m.key) \cup d.made
    BY <1>8
  <2>2. KeyReleased(d.key) \cup KeyReleased(actualKey) = KeyReleased(names[o]) \cup d.made
    BY <1>3, <1>6, <1>7
  <2>. QED
    BY <1>2, <2>1, <2>2
<1>. DEFINE k == m.key
            extra == d.made
<1>11. /\ k \in NameKeys /\ names' = [names EXCEPT ![o] = k] /\ UNCHANGED vals
       /\ KeyReleased(k) \cap heap = {} /\ extra \cap heap = {} /\ KeyReleased(k) \cap extra = {}
       /\ Heap(KeyReleased(k) \cup extra, KeyReleased(names[o]) \cup extra)
  BY <1>2, <1>6, <1>7, <1>8, <1>9, <1>10
<1>. HIDE DEF k, extra
<1>. QED
  BY <1>11, NameMoves

\* A copy of an object copies its name.
LEMMA CopyObjectKeeps ==
  ASSUME OwnInv, NEW o \in Objects, NEW p \in Objects, CopyObject(o, p)
  PROVE  OwnInv'
<1>1. PICK c \in KeyCopies(names[p]) : names' = [names EXCEPT ![o] = c.key] /\ Heap(c.made, {})
  BY DEF CopyObject
<1>2. c.key \in NameKeys /\ KeyReleased(c.key) = c.made /\ c.made \cap heap = {}
  BY KeyCopyOwns DEF OwnInv, OwnType
<1>3. KeyReleased(names[o]) = {} /\ UNCHANGED vals
  BY DEF CopyObject, KeyReleased, NoName
<1>4. Heap(KeyReleased(c.key) \cup {}, KeyReleased(names[o]) \cup {})
  BY <1>1, <1>2, <1>3 DEF Heap
<1>. QED
  BY <1>1, <1>2, <1>3, <1>4, NameMoves

\* A member is removed, with its name.
LEMMA EraseKeeps ==
  ASSUME OwnInv, NEW o \in Objects, EraseName(o)
  PROVE  OwnInv'
<1>1. NoName \in NameKeys /\ KeyReleased(NoName) = {}
  BY DEF NoName, NameKeys, KeyReleased
<1>2. Heap(KeyReleased(NoName) \cup {}, KeyReleased(names[o]) \cup {})
  BY <1>1 DEF EraseName, Heap
<1>. QED
  BY <1>1, <1>2, NameMoves DEF EraseName

\* Every operation keeps the invariant.
LEMMA OwnInvNext == OwnInv /\ [OwnNext]_ownVars => OwnInv'
<1>. SUFFICES ASSUME OwnInv, [OwnNext]_ownVars PROVE OwnInv'
  OBVIOUS
<1>1. CASE UNCHANGED ownVars
  <2>1. vals' = vals /\ names' = names /\ heap' = heap /\ misfreed' = misfreed
    BY <1>1 DEF ownVars
  <2>2. Owned' = Owned
    BY <2>1 DEF Owned, Owners, Released, KeyReleased
  <2>3. OwnedOnce'
    BY <2>1, <2>2, OwnedFacts DEF OwnInv
  <2>. QED
    BY <2>1, <2>3 DEF OwnInv, OwnType
<1>2. CASE \E v \in Values : ConstructText(v) \/ ConstructStatic(v) \/ ConstructType(v)
                             \/ ConstructScalar(v) \/ Destroy(v)
  BY <1>2, Constructors, DestroyKeeps
<1>3. CASE \E v, w \in Values : Copy(v, w) \/ Swap(v, w) \/ AssignTo(v, w)
  BY <1>3, CopyKeeps, SwapKeeps, AssignKeeps
<1>4. CASE \E o \in Objects : InsertName(o, TRUE) \/ InsertName(o, FALSE) \/ EraseName(o)
  BY <1>4, InsertKeeps, EraseKeeps
<1>5. CASE \E o, p \in Objects : CopyObject(o, p)
  BY <1>5, CopyObjectKeeps
<1>. QED
  BY <1>1, <1>2, <1>3, <1>4, <1>5 DEF OwnNext

\* json_value.cpp: which blocks are allocated, and who will free them.
THEOREM OwnInvariance == OwnSpec => []OwnInv
<1>. QED
  BY OwnInvInit, OwnInvNext, PTL DEF OwnSpec

\* Every block of a string or a name has one owner, whatever was copied, swapped or assigned, so
\* nothing is freed twice or lost, nothing else is freed, and no name points into its caller's
\* buffer (allocated_ of Value, index_ of CZString).
THEOREM BlocksAreOwnedOnce == OwnSpec => []OwnedOnce
<1>1. OwnInv => OwnedOnce
  BY DEF OwnInv
<1>. QED
  BY <1>1, OwnInvariance, PTL

-----------------------------------------------------------------------------
(* JsonArray: a value used as an array, json_value.cpp *)

Item == Elements \cup {Null}
Index == 0 .. MaxLength - 1

\* The value is null or an array of a map from some of the indices.
ArrayOf(f) == \E D \in SUBSET Index : f \in [D -> Item]
ArrayInv == node = Null \/ \E f : ArrayOf(f) /\ node = Array(f)

\* One more than the last index.
Top(f) == IF f = <<>> THEN 0 ELSE Max(DOMAIN f) + 1

View(v) == [i \in 1 .. size(v) |-> Find(v, i - 1)]

\* An array is not null, and its size and elements are those of its map.
LEMMA Fields ==
  ASSUME NEW f
  PROVE  /\ Array(f).type = "array" /\ Array(f).items = f /\ Array(f) # Null
         /\ size(Array(f)) = Top(f)
         /\ \A k : Find(Array(f), k) = IF k \in DOMAIN f THEN f[k] ELSE Null
BY DEF Array, Null, size, Top, Find, Has, Contents

\* The size and the elements of null.
LEMMA NullFields == Null.type = "null" /\ size(Null) = 0 /\ (\A k : Find(Null, k) = Null)
BY DEF Null, size, Find, Has

\* The size is above every index, and the last index is there.
LEMMA TopIs ==
  ASSUME NEW f, ArrayOf(f)
  PROVE  /\ Top(f) \in 0 .. MaxLength
         /\ \A i \in DOMAIN f : i < Top(f)
         /\ Top(f) # 0 => Top(f) - 1 \in DOMAIN f
         /\ DOMAIN f \subseteq Index
<1>1. PICK D \in SUBSET Index : f \in [D -> Item]
  BY DEF ArrayOf
<1>2. DOMAIN f = D /\ MaxLength \in Nat
  BY <1>1, ArrayAssumption
<1>3. CASE D = {}
  <2>1. f \in [1 .. 0 -> Item]
    BY <1>1, <1>3
  <2>2. f \in Seq(Item) /\ Len(f) = 0
    BY <2>1
  <2>3. f = <<>>
    BY <2>2, EmptySeq
  <2> QED BY <1>2, <1>3, <2>3 DEF Top
<1>4. CASE D # {}
  <2>1. f # <<>>
    <3>1. DOMAIN <<>> = {}
      OBVIOUS
    <3> QED BY <1>2, <1>4, <3>1
  <2>2. PICK m \in D : \A n \in D : n <= m
    <3>1. D \subseteq Nat /\ \A n \in D : n <= MaxLength
      BY <1>2 DEF Index
    <3> QED BY <1>2, <1>4, <3>1, GreatestOf, Zenon
  <2>3. Max(D) \in D /\ \A n \in D : n <= Max(D)
    <3>1. \E x \in D : \A y \in D : x >= y
      BY <2>2 DEF Index
    <3>2. Max(D) \in D /\ \A y \in D : Max(D) >= y
      BY <3>1 DEF Max
    <3> QED BY <3>2 DEF Index
  <2>4. Top(f) = Max(D) + 1
    BY <1>2, <2>1 DEF Top
  <2>5. Max(D) \in 0 .. MaxLength - 1 /\ \A n \in D : n \in Int /\ n <= Max(D)
    <3>1. \A n \in D : n \in 0 .. MaxLength - 1
      BY <1>1 DEF Index
    <3> QED BY <2>3, <3>1
  <2>6. Top(f) \in 0 .. MaxLength /\ Top(f) - 1 = Max(D) /\ \A n \in D : n < Top(f)
    BY <1>2, <2>4, <2>5
  <2> QED BY <1>2, <2>3, <2>6
<1> QED BY <1>3, <1>4

MapOf(v) == IF v = Null THEN <<>> ELSE v.items

\* The map of the value, and the list it is.
LEMMA ArrayValue ==
  ASSUME ArrayInv
  PROVE  /\ ArrayOf(MapOf(node)) /\ size(node) = Top(MapOf(node)) /\ View(node) = View(Array(MapOf(node)))
         /\ (IF node.type = "null" THEN Assign(node, Array(<<>>)) ELSE node) = Array(MapOf(node))
<1> DEFINE f == MapOf(node)
           a == IF node.type = "null" THEN Assign(node, Array(<<>>)) ELSE node
<1>1. ArrayOf(f) /\ a = Array(f) /\ size(node) = size(Array(f)) /\ \A k : Find(node, k) = Find(Array(f), k)
  <2>1. CASE node = Null
    <3>1. f = <<>> /\ DOMAIN f = {}
      BY <2>1 DEF MapOf
    <3>2. a = Array(<<>>)
      BY <2>1 DEF Assign, Array, Null
    <3>3. f \in [{} -> Item]
      <4>1. f \in Seq(Item)
        BY <3>1
      <4> QED BY <3>1, <4>1
    <3>4. ArrayOf(f)
      BY <3>3 DEF ArrayOf
    <3> QED BY <2>1, <3>1, <3>2, <3>4, Fields, NullFields DEF Top
  <2>2. CASE \E g : ArrayOf(g) /\ node = Array(g)
    <3>1. PICK g : ArrayOf(g) /\ node = Array(g)
      BY <2>2
    <3>2. node # Null /\ node.type = "array" /\ node.items = g
      BY <3>1, Fields
    <3> QED BY <3>1, <3>2 DEF MapOf
  <2> QED BY <2>1, <2>2 DEF ArrayInv
<1>2. View(node) = View(Array(f))
  BY <1>1 DEF View
<1> QED BY <1>1, <1>2, Fields

\* operator[] of an element.
LEMMA AtIndexIs ==
  ASSUME ArrayInv, NEW i \in Index
  PROVE  /\ AtIndex(node, i) = Array(Made(MapOf(node), i))
         /\ ArrayOf(MapOf(node)) /\ ArrayOf(Made(MapOf(node), i))
         /\ View(node) = View(Array(MapOf(node)))
<1> DEFINE f == MapOf(node)
           a == IF node.type = "null" THEN Assign(node, Array(<<>>)) ELSE node
<1>1. ArrayOf(f) /\ a = Array(f) /\ View(node) = View(Array(f))
  BY ArrayValue
<1>2. \E D \in SUBSET Index : f \in [D -> Item]
  BY <1>1 DEF ArrayOf
<1> HIDE DEF f
<1>3. AtIndex(node, i) = [Array(f) EXCEPT !.items = Made(@, i)]
  BY <1>1 DEF AtIndex
<1>4. AtIndex(node, i) = Array(Made(f, i))
  BY <1>3 DEF Array
<1>5. ArrayOf(Made(f, i))
  BY <1>2 DEF ArrayOf, Made, Item
<1> QED BY <1>1, <1>4, <1>5 DEF f

\* Only one number is one more than the last index.
LEMMA TopOf ==
  ASSUME NEW f, ArrayOf(f), NEW n \in Nat, \A i \in DOMAIN f : i < n, n # 0 => n - 1 \in DOMAIN f
  PROVE  Top(f) = n
<1>1. Top(f) \in Nat /\ (\A i \in DOMAIN f : i < Top(f)) /\ (Top(f) # 0 => Top(f) - 1 \in DOMAIN f)
  BY TopIs, ArrayAssumption
<1>2. \A i \in DOMAIN f : i \in Int
  BY TopIs DEF Index
<1> HIDE DEF Top
<1> QED BY <1>1, <1>2

\* The list of an array.
LEMMA ViewIs ==
  ASSUME NEW f, ArrayOf(f)
  PROVE  /\ View(Array(f)) = [i \in 1 .. Top(f) |-> IF i - 1 \in DOMAIN f THEN f[i - 1] ELSE Null]
         /\ View(Array(f)) \in Seq(Item) /\ Len(View(Array(f))) = Top(f)
<1>1. View(Array(f)) = [i \in 1 .. Top(f) |-> IF i - 1 \in DOMAIN f THEN f[i - 1] ELSE Null]
  BY Fields DEF View
<1>2. Top(f) \in Nat
  BY TopIs, ArrayAssumption
<1>3. \A k \in DOMAIN f : f[k] \in Item
  BY DEF ArrayOf
<1>4. View(Array(f)) \in [1 .. Top(f) -> Item]
  BY <1>1, <1>3 DEF Item
<1> QED BY <1>1, <1>2, <1>4

\* A list filled up with nulls.
GrownTo(l, n) == [i \in 1 .. (IF n > Len(l) THEN n ELSE Len(l)) |-> IF i <= Len(l) THEN l[i] ELSE Null]

\* With one element more the list is filled up to it.
LEMMA MadeView ==
  ASSUME NEW f, ArrayOf(f), NEW i \in Index, ArrayOf(Made(f, i))
  PROVE  View(Array(Made(f, i))) = GrownTo(View(Array(f)), i + 1)
<1> DEFINE g == Made(f, i)
           l == View(Array(f))
           m == IF i + 1 > Top(f) THEN i + 1 ELSE Top(f)
<1>1. Top(f) \in Nat /\ i \in Nat /\ (\A k \in DOMAIN f : k < Top(f)) /\ (Top(f) # 0 => Top(f) - 1 \in DOMAIN f)
      /\ \A k \in DOMAIN f : k \in Int
  BY TopIs, ArrayAssumption DEF Index
<1>2. DOMAIN g = DOMAIN f \cup {i} /\ \A k \in DOMAIN g : g[k] = IF k \in DOMAIN f THEN f[k] ELSE Null
  BY DEF Made
<1> HIDE DEF g
<1>3. Top(g) = m
  <2>1. m \in Nat /\ (\A k \in DOMAIN g : k < m) /\ (m # 0 => m - 1 \in DOMAIN g)
    BY <1>1, <1>2
  <2> HIDE DEF m
  <2> QED BY <2>1, TopOf DEF g
<1>4. /\ l = [k \in 1 .. Top(f) |-> IF k - 1 \in DOMAIN f THEN f[k - 1] ELSE Null] /\ Len(l) = Top(f)
      /\ View(Array(g)) = [k \in 1 .. m |-> IF k - 1 \in DOMAIN g THEN g[k - 1] ELSE Null]
  BY <1>3, ViewIs DEF g
<1> HIDE DEF l
<1>5. ASSUME NEW k \in 1 .. m
      PROVE  (IF k - 1 \in DOMAIN g THEN g[k - 1] ELSE Null) = IF k <= Top(f) THEN l[k] ELSE Null
  <2>1. k <= Top(f) => k \in 1 .. Top(f) /\ l[k] = IF k - 1 \in DOMAIN f THEN f[k - 1] ELSE Null
    BY <1>1, <1>4
  <2>2. k - 1 \in DOMAIN f => k <= Top(f)
    BY <1>1
  <2> QED BY <1>2, <2>1, <2>2
<1>6. GrownTo(l, i + 1) = [k \in 1 .. m |-> IF k <= Top(f) THEN l[k] ELSE Null]
  <2>1. Len(l) = Top(f)
    BY <1>4
  <2>2. (IF i + 1 > Len(l) THEN i + 1 ELSE Len(l)) = m
    BY <2>1
  <2> HIDE DEF m
  <2> QED BY <2>1, <2>2 DEF GrownTo
<1> HIDE DEF m
<1> QED BY <1>4, <1>5, <1>6 DEF g, l

\* With an element written the list has it in its place.
LEMMA WrittenView ==
  ASSUME NEW g, ArrayOf(g), NEW i \in DOMAIN g, NEW v \in Item
  PROVE  /\ ArrayOf([g EXCEPT ![i] = v])
         /\ View(Array([g EXCEPT ![i] = v])) = [View(Array(g)) EXCEPT ![i + 1] = v]
<1> DEFINE h == [g EXCEPT ![i] = v]
<1>1. DOMAIN h = DOMAIN g /\ (\A k \in DOMAIN g : h[k] = IF k = i THEN v ELSE g[k]) /\ ArrayOf(h)
  BY DEF ArrayOf
<1> HIDE DEF h
<1>2. Top(g) \in Nat /\ (\A k \in DOMAIN g : k < Top(g)) /\ (Top(g) # 0 => Top(g) - 1 \in DOMAIN g)
      /\ \A k \in DOMAIN g : k \in Int /\ k >= 0
  BY TopIs, ArrayAssumption DEF Index
<1>3. Top(h) = Top(g)
  BY <1>1, <1>2, TopOf
<1>4. /\ View(Array(g)) = [k \in 1 .. Top(g) |-> IF k - 1 \in DOMAIN g THEN g[k - 1] ELSE Null]
      /\ View(Array(h)) = [k \in 1 .. Top(g) |-> IF k - 1 \in DOMAIN g THEN h[k - 1] ELSE Null]
  BY <1>1, <1>3, ViewIs
<1>5. i + 1 \in 1 .. Top(g) /\ (i + 1) - 1 = i
  BY <1>2
<1>6. ASSUME NEW k \in 1 .. Top(g)
      PROVE  (IF k - 1 \in DOMAIN g THEN h[k - 1] ELSE Null)
               = IF k = i + 1 THEN v ELSE IF k - 1 \in DOMAIN g THEN g[k - 1] ELSE Null
  BY <1>1, <1>2, <1>5
<1>7. [View(Array(g)) EXCEPT ![i + 1] = v]
        = [k \in 1 .. Top(g) |-> IF k = i + 1 THEN v ELSE IF k - 1 \in DOMAIN g THEN g[k - 1] ELSE Null]
  BY <1>4, <1>5
<1>8. View(Array(h)) = [View(Array(g)) EXCEPT ![i + 1] = v]
  BY <1>4, <1>6, <1>7
<1> QED BY <1>1, <1>8 DEF h

\* With the elements from n on erased the list is cut, if the one before n is there.
LEMMA CutView ==
  ASSUME NEW f, ArrayOf(f), NEW n \in 1 .. Top(f)
  PROVE  LET g == Restrict(f, {i \in DOMAIN f : i < n})
         IN  /\ ArrayOf(g)
             /\ Top(g) = n => View(Array(g)) = SubSeq(View(Array(f)), 1, n)
<1> DEFINE g == Restrict(f, {i \in DOMAIN f : i < n})
           l == View(Array(f))
<1>1. DOMAIN g = {i \in DOMAIN f : i < n} /\ (\A k \in DOMAIN g : g[k] = f[k]) /\ ArrayOf(g)
  BY DEF ArrayOf, Restrict
<1> HIDE DEF g
<1>2. Top(f) \in Nat /\ \A k \in DOMAIN f : k \in Int /\ k < Top(f)
  BY TopIs, ArrayAssumption DEF Index
<1>3. ASSUME Top(g) = n PROVE View(Array(g)) = SubSeq(l, 1, n)
  <2>1. /\ l = [k \in 1 .. Top(f) |-> IF k - 1 \in DOMAIN f THEN f[k - 1] ELSE Null] /\ Len(l) = Top(f) /\ l \in Seq(Item)
        /\ View(Array(g)) = [k \in 1 .. n |-> IF k - 1 \in DOMAIN g THEN g[k - 1] ELSE Null]
        /\ View(Array(g)) \in Seq(Item) /\ Len(View(Array(g))) = n
    BY <1>1, <1>3, ViewIs
  <2> DEFINE c == View(Array(g))
  <2> HIDE DEF l, c
  <2>2. SubSeq(l, 1, n) \in Seq(Item) /\ Len(SubSeq(l, 1, n)) = n /\ \A k \in 1 .. n : SubSeq(l, 1, n)[k] = l[k]
    BY <1>2, <2>1
  <2>3. \A k \in 1 .. n : l[k] = c[k]
    <3>1. ASSUME NEW k \in 1 .. n PROVE l[k] = c[k]
      <4>1. k \in 1 .. Top(f) /\ k - 1 < n
        BY <1>2
      <4> QED BY <1>1, <2>1, <3>1, <4>1 DEF c
    <3> QED BY <3>1
  <2>4. c = SubSeq(l, 1, n)
    BY <2>1, <2>2, <2>3, SeqEqual DEF c
  <2> QED BY <2>4 DEF c
<1> QED BY <1>1, <1>3 DEF g, l

-----------------------------------------------------------------------------
(* The calls *)

ListSteps == List!LNext \/ View(node)' = View(node)

\* The list after operator[] of an element.
LEMMA AfterAtIndex ==
  ASSUME ArrayInv, NEW i \in Index
  PROVE  /\ ArrayOf(Made(MapOf(node), i)) /\ AtIndex(node, i) = Array(Made(MapOf(node), i))
         /\ View(AtIndex(node, i)) = List!Grown(i + 1)
<1>1. /\ AtIndex(node, i) = Array(Made(MapOf(node), i))
      /\ ArrayOf(MapOf(node)) /\ ArrayOf(Made(MapOf(node), i)) /\ View(node) = View(Array(MapOf(node)))
  BY AtIndexIs
<1>2. View(AtIndex(node, i)) = GrownTo(View(node), i + 1)
  BY <1>1, MadeView
<1>3. List!Grown(i + 1) = GrownTo(View(node), i + 1)
  BY DEF List!Grown, GrownTo, View
<1> QED BY <1>1, <1>2, <1>3

\* operator[] alone fills the list up to the index.
LEMMA TouchIndexStep ==
  ASSUME ArrayInv, NEW i \in Index, TouchIndex(i)
  PROVE  ArrayInv' /\ ListSteps
<1>1. node' = Array(Made(MapOf(node), i)) /\ ArrayOf(Made(MapOf(node), i)) /\ View(node)' = List!Grown(i + 1)
  BY AfterAtIndex DEF TouchIndex, View
<1>2. ArrayInv'
  BY <1>1 DEF ArrayInv
<1>3. List!Touch(i)
  BY <1>1 DEF List!Touch, View
<1> QED BY <1>2, <1>3 DEF ListSteps, List!LNext, Index

\* An assignment to an element sets it in the list.
LEMMA SetIndexStep ==
  ASSUME ArrayInv, NEW i \in Index, NEW v \in Elements, SetIndex(i, v)
  PROVE  ArrayInv' /\ ListSteps
<1> DEFINE g == Made(MapOf(node), i)
           a == AtIndex(node, i)
<1>1. ArrayOf(g) /\ a = Array(g) /\ View(a) = List!Grown(i + 1)
  BY AfterAtIndex
<1>2. i \in DOMAIN g
  BY DEF Made
<1>3. g[i] \in Item
  BY <1>1, <1>2 DEF ArrayOf
<1> HIDE DEF g, a
<1>4. Assign(g[i], v) = v
  <2>1. g[i].comments = <<>>
    <3>1. CASE g[i] = Null
      BY <3>1 DEF Null
    <3>2. CASE g[i] \in Elements
      BY <3>2, ArrayAssumption
    <3> QED BY <1>3, <3>1, <3>2 DEF Item
  <2> QED BY <2>1, ArrayAssumption DEF Assign
<1>5. node' = [a EXCEPT !.items[i] = Assign(@, v)]
  BY DEF SetIndex, a
<1>6. node' = Array([g EXCEPT ![i] = v])
  BY <1>1, <1>4, <1>5 DEF Array
<1>7. ArrayOf([g EXCEPT ![i] = v]) /\ View(node') = [View(Array(g)) EXCEPT ![i + 1] = v]
  BY <1>1, <1>2, <1>6, WrittenView DEF Item
<1>8. ArrayInv'
  BY <1>6, <1>7 DEF ArrayInv
<1>9. List!Set(i, v)
  BY <1>1, <1>7 DEF List!Set, View
<1> QED BY <1>8, <1>9 DEF ListSteps, List!LNext, Index

\* The list of a cleared array.
LEMMA Cleared ==
  ASSUME NEW f
  PROVE  /\ clear(Array(f)) = Array(<<>>) /\ ArrayOf(<<>>)
         /\ node' = Array(<<>>) => List!Resize(0)
<1>1. clear(Array(f)) = Array(<<>>)
  BY Fields DEF clear, Array
<1>2. ArrayOf(<<>>)
  <2>1. <<>> \in [{} -> Item]
    <3>1. <<>> \in Seq(Item) /\ DOMAIN <<>> = {}
      OBVIOUS
    <3> QED BY <3>1
  <2> QED BY <2>1 DEF ArrayOf
<1>3. ASSUME node' = Array(<<>>) PROVE List!Resize(0)
  <2>1. Top(<<>>) = 0
    BY DEF Top
  <2>2. View(node') \in Seq(Item) /\ Len(View(node')) = 0
    BY <1>2, <1>3, <2>1, ViewIs
  <2>3. View(node') = <<>>
    BY <2>2, EmptySeq
  <2>4. SubSeq(List!Grown(0), 1, 0) = <<>>
    BY SubSeqEmpty
  <2> QED BY <2>3, <2>4 DEF List!Resize, View
<1> QED BY <1>1, <1>2, <1>3

\* clear() empties the list.
LEMMA ClearStep ==
  ASSUME ArrayInv, node' = clear(node)
  PROVE  ArrayInv' /\ ListSteps
<1>1. CASE node = Null
  <2>1. node' = node
    BY <1>1, NullFields DEF clear
  <2> QED BY <1>1, <2>1 DEF ArrayInv, ListSteps, View
<1>2. CASE \E f : ArrayOf(f) /\ node = Array(f)
  <2>1. PICK f : ArrayOf(f) /\ node = Array(f)
    BY <1>2
  <2>2. node' = Array(<<>>) /\ ArrayOf(<<>>) /\ List!Resize(0)
    BY <2>1, Cleared
  <2>3. 0 \in 0 .. MaxLength
    BY ArrayAssumption
  <2> QED BY <2>2, <2>3 DEF ArrayInv, ListSteps, List!LNext
<1> QED BY <1>1, <1>2 DEF ArrayInv

\* resize() cuts the list or fills it up, unless its assert fails.
LEMMA ResizeStep ==
  ASSUME ArrayInv, NEW n \in 0 .. MaxLength, Resize(n)
  PROVE  ArrayInv' /\ ListSteps
<1> DEFINE f == MapOf(node)
           a == IF node.type = "null" THEN Assign(node, Array(<<>>)) ELSE node
<1>1. ArrayOf(f) /\ a = Array(f) /\ size(node) = Top(f) /\ View(node) = View(Array(f))
  BY ArrayValue
<1>2. Top(f) \in 0 .. MaxLength /\ MaxLength \in Nat
  BY <1>1, TopIs, ArrayAssumption
<1>3. resize(node, n) = IF n = 0 THEN clear(Array(f)) ELSE IF n > Top(f) THEN AtIndex(Array(f), n - 1)
                        ELSE Array(Restrict(f, {i \in DOMAIN f : i < n}))
  <2>1. [Array(f) EXCEPT !.items = Restrict(@, {i \in DOMAIN @ : i < n})] = Array(Restrict(f, {i \in DOMAIN f : i < n}))
    BY DEF Array
  <2> QED BY <1>1, <2>1, Fields DEF resize
<1>4. \/ node' = node
      \/ node' = resize(node, n) /\ (n \in 1 .. Top(f) => size(resize(node, n)) = n)
  BY <1>1 DEF Resize
<1>5. CASE node' = node
  BY <1>5 DEF ArrayInv, ListSteps, View
<1>6. CASE node' = resize(node, n) /\ n = 0
  <2>1. List!Resize(0) /\ node' = Array(<<>>) /\ ArrayOf(<<>>)
    BY <1>3, <1>6, Cleared
  <2> QED BY <1>2, <2>1 DEF ArrayInv, ListSteps, List!LNext
<1>7. CASE node' = resize(node, n) /\ n > Top(f)
  <2>1. n - 1 \in Index /\ n # 0 /\ (n - 1) + 1 = n
    BY <1>2, <1>7 DEF Index
  <2>2. node' = AtIndex(Array(f), n - 1) /\ AtIndex(Array(f), n - 1) = AtIndex(node, n - 1)
    <3>1. AtIndex(Array(f), n - 1) = AtIndex(node, n - 1)
      BY <1>1, Fields DEF AtIndex
    <3> QED BY <1>3, <1>7, <2>1, <3>1
  <2>3. ArrayInv' /\ View(node') = List!Grown(n)
    <3>1. /\ ArrayOf(Made(MapOf(node), n - 1)) /\ AtIndex(node, n - 1) = Array(Made(MapOf(node), n - 1))
          /\ View(AtIndex(node, n - 1)) = List!Grown((n - 1) + 1)
      BY <2>1, AfterAtIndex
    <3> QED BY <2>1, <2>2, <3>1 DEF ArrayInv
  <2>4. List!Grown(n) \in Seq(Item) /\ Len(List!Grown(n)) = n
    <3>1. List!Grown(n) = GrownTo(View(node), n)
      BY DEF List!Grown, GrownTo, View
    <3>2. View(node) \in Seq(Item) /\ Len(View(node)) = Top(f)
      BY <1>1, ViewIs
    <3>3. GrownTo(View(node), n) = [i \in 1 .. n |-> IF i <= Top(f) THEN View(node)[i] ELSE Null]
      BY <1>2, <1>7, <3>2 DEF GrownTo
    <3>4. \A i \in 1 .. n : (IF i <= Top(f) THEN View(node)[i] ELSE Null) \in Item
      BY <1>2, <3>2 DEF Item
    <3>5. GrownTo(View(node), n) \in [1 .. n -> Item]
      BY <3>3, <3>4
    <3> QED BY <1>2, <3>1, <3>3, <3>5
  <2>5. List!Resize(n)
    <3>1. SubSeq(List!Grown(n), 1, n) = List!Grown(n)
      BY <2>4, SubSeqFull
    <3> QED BY <2>3, <3>1 DEF List!Resize, View
  <2> QED BY <2>3, <2>5 DEF ListSteps, List!LNext
<1>8. CASE /\ node' = resize(node, n) /\ (n \in 1 .. Top(f) => size(resize(node, n)) = n)
           /\ n # 0 /\ ~(n > Top(f))
  <2> DEFINE g == Restrict(f, {i \in DOMAIN f : i < n})
  <2>1. n \in 1 .. Top(f) /\ node' = Array(g) /\ size(Array(g)) = n
    BY <1>2, <1>3, <1>8
  <2>2. ArrayOf(g) /\ Top(g) = n /\ View(Array(g)) = SubSeq(View(Array(f)), 1, n)
    BY <1>1, <2>1, CutView, Fields
  <2> HIDE DEF g
  <2>3. List!Grown(n) = View(node)
    <3>1. List!Grown(n) = GrownTo(View(node), n)
      BY DEF List!Grown, GrownTo, View
    <3>2. View(node) \in Seq(Item) /\ Len(View(node)) = Top(f)
      BY <1>1, ViewIs
    <3>3. GrownTo(View(node), n) = View(node)
      BY <1>2, <2>1, <3>2 DEF GrownTo
    <3> QED BY <3>1, <3>3
  <2>4. List!Resize(n)
    BY <1>1, <2>1, <2>2, <2>3 DEF List!Resize, View
  <2> QED BY <2>1, <2>2, <2>4 DEF ArrayInv, ListSteps, List!LNext
<1> QED BY <1>2, <1>4, <1>5, <1>6, <1>7, <1>8

\* Whatever the calls on a value, its elements and its size are those of the list value.h describes.
THEOREM ArrayImplementsList == ArraySpec => ArrayIsList
<1>1. ArrayInit => ArrayInv /\ List!LInit
  <2>1. SUFFICES ASSUME node = Null PROVE ArrayInv /\ List!LInit
    BY DEF ArrayInit
  <2>2. [i \in 1 .. size(node) |-> Find(node, i - 1)] = <<>>
    <3>1. size(node) = 0
      BY <2>1, NullFields
    <3> QED BY <3>1
  <2> QED BY <2>1, <2>2 DEF ArrayInv, List!LInit
<1>2. ArrayInv /\ [ArrayNext]_arrayVars => ArrayInv' /\ ListSteps
  <2>1. SUFFICES ASSUME ArrayInv, [ArrayNext]_arrayVars PROVE ArrayInv' /\ ListSteps
    OBVIOUS
  <2>2. ASSUME NEW i \in 0 .. MaxLength - 1, TouchIndex(i) PROVE ArrayInv' /\ ListSteps
    BY <2>1, <2>2, TouchIndexStep DEF Index
  <2>3. ASSUME NEW i \in 0 .. MaxLength - 1, NEW v \in Elements, SetIndex(i, v) PROVE ArrayInv' /\ ListSteps
    BY <2>1, <2>3, SetIndexStep DEF Index
  <2>4. ASSUME NEW v \in Elements, append(v) PROVE ArrayInv' /\ ListSteps
    <3>1. size(node) \in 0 .. MaxLength
      BY <2>1, ArrayValue, TopIs
    <3>2. size(node) \in 0 .. MaxLength - 1
      BY <2>4, <3>1, ArrayAssumption DEF append
    <3> QED BY <2>1, <2>4, <3>2, SetIndexStep DEF append, Index
  <2>5. ASSUME NEW n \in 0 .. MaxLength, Resize(n) PROVE ArrayInv' /\ ListSteps
    BY <2>1, <2>5, ResizeStep
  <2>6. CASE Clear
    BY <2>1, <2>6, ClearStep DEF Clear
  <2>7. CASE UNCHANGED arrayVars
    BY <2>1, <2>7 DEF arrayVars, ArrayInv, ListSteps, View
  <2> QED BY <2>1, <2>2, <2>3, <2>4, <2>5, <2>6, <2>7 DEF ArrayNext
<1>3. ListSteps => [List!LNext]_([i \in 1 .. size(node) |-> Find(node, i - 1)])
  BY DEF ListSteps, View
<1> QED BY <1>1, <1>2, <1>3, PTL DEF ArraySpec, ArrayIsList, List!LSpec
=============================================================================
