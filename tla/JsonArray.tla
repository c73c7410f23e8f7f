------------------------------- MODULE JsonArray -------------------------------
(***************************************************************************)
(* One value used as an array: the calls of json_value.cpp that change it, *)
(* in any order.                                                           *)
(***************************************************************************)
EXTENDS JsonValue

CONSTANTS
  Elements,     \* what is put into it; comments are not, an assignment leaves those that are there
  MaxLength     \* bounds the indices

ASSUME ArrayAssumption ==
  MaxLength \in Nat /\ \A v \in Elements : "comments" \in DOMAIN v /\ v = [v EXCEPT !.comments = <<>>]

VARIABLES
  node,     \* the value
  aborted   \* an assert of the code has failed

arrayVars == <<node, aborted>>

ArrayInit == node = Null /\ aborted = FALSE

\* node[ i ]; with no assignment, the element stays in the array.
TouchIndex(i) == ~aborted /\ node' = AtIndex(node, i) /\ UNCHANGED aborted
SetIndex(i, v) ==
  /\ ~aborted
  /\ LET a == AtIndex(node, i) IN node' = [a EXCEPT !.items[i] = Assign(@, v)]
  /\ UNCHANGED aborted
append(v) == size(node) < MaxLength /\ SetIndex(size(node), v)
\* size() == newSize is asserted where elements were erased.
Resize(n) ==
  /\ ~aborted
  /\ LET a == resize(node, n)
     IN  IF n \in 1 .. size(node) /\ size(a) # n THEN aborted' = TRUE /\ UNCHANGED node
         ELSE node' = a /\ UNCHANGED aborted
Clear == ~aborted /\ node' = clear(node) /\ UNCHANGED aborted

ArrayNext ==
  \/ \E i \in 0 .. MaxLength - 1 : TouchIndex(i) \/ \E v \in Elements : SetIndex(i, v)
  \/ \E v \in Elements : append(v)
  \/ \E n \in 0 .. MaxLength : Resize(n)
  \/ Clear

ArraySpec == ArrayInit /\ [][ArrayNext]_arrayVars

List == INSTANCE JsonList WITH None <- Null, list <- [i \in 1 .. size(node) |-> Find(node, i - 1)]

\* An array is the list that value.h describes, whatever the order of calls, as long as no assert fails.
ArrayIsList == List!LSpec
================================================================================
