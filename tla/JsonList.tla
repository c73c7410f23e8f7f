------------------------------- MODULE JsonList -------------------------------
(***************************************************************************)
(* What value.h promises of an array: a list, read and written by index,   *)
(* in which nulls fill whatever lies before an index that is written.      *)
(***************************************************************************)
EXTENDS Naturals, Sequences

CONSTANTS Elements, None, MaxLength     \* MaxLength bounds the indices

VARIABLE list

Grown(n) == [i \in 1 .. (IF n > Len(list) THEN n ELSE Len(list)) |-> IF i <= Len(list) THEN list[i] ELSE None]

LInit == list = <<>>
Touch(i) == list' = Grown(i + 1)
Set(i, v) == list' = [Grown(i + 1) EXCEPT ![i + 1] = v]
Push(v) == list' = Append(list, v)
Resize(n) == list' = SubSeq(Grown(n), 1, n)

LNext ==
  \/ \E i \in 0 .. MaxLength - 1 : Touch(i) \/ \E v \in Elements : Set(i, v)
  \/ \E v \in Elements : Push(v)
  \/ \E n \in 0 .. MaxLength : Resize(n)
LSpec == LInit /\ [][LNext]_list
================================================================================
