------------------------------ MODULE JsonTree ------------------------------
(***************************************************************************)
(* json_value.cpp and currentValue() of json_reader.cpp: what goes down    *)
(* into a value, to a node, to compare it, or along a Path.                *)
(***************************************************************************)
EXTENDS JsonValue

\* The value at a path, and a value with another one at a path.
RECURSIVE ValueAt(_, _), WithValueAt(_, _, _)
ValueAt(v, path) == IF path = <<>> THEN v ELSE ValueAt(Contents(v)[Head(path)], Tail(path))
WithValueAt(v, path, new) ==
  IF path = <<>> THEN new
  ELSE LET child == WithValueAt(Contents(v)[Head(path)], Tail(path), new)
       IN  IF v.type = "array" THEN [v EXCEPT !.items[Head(path)] = child] ELSE [v EXCEPT !.members[Head(path)] = child]

RECURSIVE Equal(_, _), Smaller(_, _)
Equal(v, w) ==
  /\ v.type = w.type
  /\ CASE v.type \in {"int", "uint", "real"} -> v.num = w.num
       [] v.type = "bool" -> v.bool = w.bool
       [] v.type = "string" -> v.str = w.str
       [] v.type \in {"array", "object"} ->
            /\ DOMAIN Contents(v) = DOMAIN Contents(w)
            /\ \A k \in DOMAIN Contents(v) : Equal(Contents(v)[k], Contents(w)[k])
       [] OTHER -> TRUE

\* operator<, the maps of two containers of one size being compared as std::map does.
Smaller(v, w) ==
  IF v.type # w.type THEN TypeRank(v) < TypeRank(w)
  ELSE CASE v.type \in {"int", "uint", "real"} -> v.num < w.num
         [] v.type = "bool" -> ~v.bool /\ w.bool
         [] v.type = "string" -> IF NoText \in {v.str, w.str} THEN v.str = NoText /\ w.str # NoText ELSE Less(v.str, w.str)
         [] v.type \in {"array", "object"} ->
              LET a == Keys(v)
                  b == Keys(w)
                  Same(i) == /\ a[i] = b[i]
                             /\ ~Smaller(Contents(v)[a[i]], Contents(w)[b[i]])
                             /\ ~Smaller(Contents(w)[b[i]], Contents(v)[a[i]])
                  First == CHOOSE i \in DOMAIN a : ~Same(i) /\ \A j \in 1 .. i - 1 : Same(j)
              IN  IF Len(a) # Len(b) THEN Len(a) < Len(b)
                  ELSE /\ \E i \in DOMAIN a : ~Same(i)
                       /\ IF a[First] # b[First] THEN Before(v, a[First], b[First])
                          ELSE Smaller(Contents(v)[a[First]], Contents(w)[b[First]])
         [] OTHER -> FALSE
compare(v, w) == IF Smaller(v, w) THEN -1 ELSE IF Smaller(w, v) THEN 1 ELSE 0

-----------------------------------------------------------------------------
(* Path, a text such as .a.b[2] that leads to a node *)

\* The arguments of a path text: indices and names, the first of in for each "%".
\* "[%" does not pass the "%", which is then taken for the "]".
Name(t) == LET n == SelectInSeq(t, LAMBDA c : c \in {"[", "."}) IN IF n = 0 THEN t ELSE SubSeq(t, 1, n - 1)
Figures(t) == LET n == SelectInSeq(t, LAMBDA c : c \notin Digits) IN IF n = 0 THEN t ELSE SubSeq(t, 1, n - 1)
Drop(t, n) == SubSeq(t, n + 1, Len(t))
Given(in, kind) == IF in # <<>> /\ in[1].kind = kind THEN <<in[1]>> ELSE <<>>
RECURSIVE Decimals(_), makePath(_, _)
Decimals(t) == IF t = <<>> THEN 0 ELSE (10 * Decimals(Front(t))) + Code[Last(t)] - 48
makePath(t, in) ==
  IF t = <<>> THEN <<>>
  ELSE CASE t[1] = "[" /\ Len(t) > 1 /\ t[2] = "%" -> Given(in, "index") \o makePath(Drop(t, 2), in)
         [] t[1] = "[" -> LET n == Figures(Tail(t))
                          IN  <<[kind |-> "index", index |-> Decimals(n)]>> \o makePath(Drop(t, IF Len(n) + 2 > Len(t) THEN Len(t) ELSE Len(n) + 2), in)
         [] t[1] = "%" -> Given(in, "key") \o makePath(Tail(t), in)
         [] t[1] = "." -> makePath(Tail(t), in)
         [] OTHER -> <<[kind |-> "key", key |-> CString(Name(t))]>> \o makePath(Drop(t, Len(Name(t))), in)

Step(a) == IF a.kind = "index" THEN a.index ELSE a.key
\* [ok, node]; ok is FALSE if an assert fails, on a node of another type.
RECURSIVE resolve(_, _), make(_, _)
resolve(node, args) ==
  IF args = <<>> THEN [ok |-> TRUE, node |-> node]
  ELSE IF node.type \notin {"null", IF args[1].kind = "index" THEN "array" ELSE "object"} THEN [ok |-> FALSE, node |-> Null]
  ELSE resolve(Find(node, Step(args[1])), Tail(args))
\* [ok, root]: root with the nodes of the path made.
make(node, args) ==
  IF args = <<>> THEN [ok |-> TRUE, root |-> node]
  ELSE LET a == args[1]
           fits == node.type \in {"null", IF a.kind = "index" THEN "array" ELSE "object"}
           with == IF a.kind = "index" THEN AtIndex(node, a.index) ELSE resolveReference(node, a.key)
           below == make(Contents(with)[Step(a)], Tail(args))
       IN  IF ~fits THEN [ok |-> FALSE, root |-> node]
           ELSE [ok |-> below.ok, root |-> WithValueAt(with, <<Step(a)>>, below.root)]
================================================================================
