---------------------------- MODULE MongoCursor ----------------------------
(***************************************************************************)
(* A result of CMongodbConnection::mongodbFind: mongo_find, fetchRow by    *)
(* mongo_cursor_next and mongo_cursor_get_more, mongo_cursor_destroy.  The *)
(* server hands the rows out in batches and keeps a cursor while there may *)
(* be more.  The connection can break between two requests.                *)
(***************************************************************************)
EXTENDS Integers, Sequences

CONSTANTS MaxRows,   \* bound: rows that match the query
          Limits,    \* the limits of a find: 0 is none; the wrapper's INT_MAX is more
                      \* than there are rows
          MaxFetch   \* bound: calls of fetchRow

ASSUME CursorAssumption == MaxRows \in Nat /\ Limits \subseteq Nat /\ MaxFetch \in Nat

VARIABLES rows,     \* how many rows match
          cursor,   \* the mongo_cursor; "none" before, "null" for NULL
          live,     \* the server keeps the cursor
          up,       \* the connection holds
          fetched,  \* the rows fetchRow gave, by their number, 0 for false
          memory    \* "sound", or what was done to memory given back

cursorvars == <<rows, cursor, live, up, fetched, memory>>

CursorInit ==
  /\ rows \in 0..MaxRows
  /\ cursor = [is |-> "none"] /\ live = FALSE /\ up = TRUE
  /\ fetched = <<>> /\ memory = "sound"

\* What may still be sent: up to the limit.
Wanted(limit) == IF limit = 0 \/ limit > rows THEN rows ELSE limit

(***************************************************************************)
(* The server.  A batch is the next n rows; a cursor is kept if there are  *)
(* more, and may be kept if there are not.                                 *)
(***************************************************************************)
Batch(from, n, limit) ==
  /\ from + n <= Wanted(limit)
  /\ n = 0 => from = Wanted(limit)
  /\ \E keeps \in BOOLEAN :
       /\ from + n < Wanted(limit) => keeps
       /\ limit /= 0 /\ from + n = limit => ~keeps
       /\ live' = keeps

\* mongo_cursor_op_query: the reply is one document with $err, or rows.
Find(limit) ==
  /\ cursor.is = "none"
  /\ \/ ~up /\ cursor' = [is |-> "null"] /\ UNCHANGED live
     \/ up /\ cursor' = [is |-> "null"] /\ UNCHANGED live
     \/ up /\ \E n \in 0..Wanted(limit) :
          /\ Batch(0, n, limit)
          /\ cursor' = [is |-> "open", limit |-> limit, from |-> 0, num |-> n, id |-> live',
                        seen |-> n, at |-> 0, reply |-> "held"]
  /\ UNCHANGED <<rows, up, fetched, memory>>

(***************************************************************************)
(* fetchRow.  cursor: rows from+1..from+num are in the reply, at of them   *)
(* were given; at = 0 is current.data = NULL.                              *)
(***************************************************************************)
Gives(row) == fetched' = Append(fetched, row)

Exhausted == (cursor.limit > 0 /\ cursor.seen >= cursor.limit) \/ ~cursor.id

\* The next of the reply; the first one is always taken.
NextOfReply ==
  /\ cursor.num > 0 /\ cursor.at < cursor.num
  /\ cursor' = [cursor EXCEPT !.at = @ + 1]
  /\ Gives(cursor.from + cursor.at + 1)
  /\ UNCHANGED <<live, memory>>

AtEnd == cursor.at = cursor.num

\* Nothing more: the limit was reached, or the server keeps no cursor.
NoMore == AtEnd /\ Exhausted /\ Gives(0) /\ UNCHANGED <<cursor, live, memory>>

\* mongo_cursor_get_more.  An empty batch ends the fetch, although the server
\* may keep the cursor.
MoreForgets ==
  /\ AtEnd /\ ~Exhausted /\ up
  /\ \E n \in 0..Wanted(cursor.limit) - cursor.seen :
       /\ Batch(cursor.seen, n, cursor.limit)
       /\ cursor' = [cursor EXCEPT !.num = n, !.id = live', !.seen = @ + n,
                                   !.at = IF n = 0 THEN 0 ELSE 1]
       /\ Gives(IF n = 0 THEN 0 ELSE cursor.from + 1)
  /\ UNCHANGED memory

More ==
  /\ AtEnd /\ ~Exhausted /\ up
  /\ \E n \in 0..Wanted(cursor.limit) - cursor.seen :
       /\ Batch(cursor.seen, n, cursor.limit)
       /\ cursor' = [cursor EXCEPT !.from = cursor.seen, !.num = n, !.id = live',
                                   !.seen = @ + n, !.at = IF n = 0 THEN 0 ELSE 1]
       /\ Gives(IF n = 0 THEN 0 ELSE cursor.seen + 1)
  /\ UNCHANGED memory

\* The reply is freed before the request is sent.  When that fails the cursor is
\* destroyed, with the reply freed once more; when the answer fails the cursor
\* is left with the freed reply.
MoreFails ==
  /\ AtEnd /\ ~Exhausted /\ ~up
  /\ \/ cursor' = [cursor EXCEPT !.is = "freed", !.reply = "freed"] /\ memory' = "reply freed twice"
     \/ cursor' = [cursor EXCEPT !.reply = "freed"] /\ UNCHANGED memory
  /\ Gives(0)
  /\ UNCHANGED live

FetchRow ==
  /\ cursor.is = "open" /\ cursor.reply = "held" /\ Len(fetched) < MaxFetch
  /\ NextOfReply \/ NoMore \/ More \/ MoreFails
  /\ UNCHANGED <<rows, up>>

\* fetchRow after a failed get_more reads what was freed.
FetchFreed ==
  /\ cursor.is \in {"open", "freed"} /\ cursor.reply = "freed" /\ Len(fetched) < MaxFetch
  /\ memory' = "freed reply read"
  /\ Gives(0)
  /\ UNCHANGED <<rows, cursor, live, up>>

\* ~CCursorResultBase: a live cursor is killed in the server.
Destroy ==
  /\ cursor.is \in {"open", "freed"}
  /\ cursor' = [is |-> "destroyed"]
  /\ live' = (live /\ ~(cursor.is = "open" /\ cursor.reply = "held" /\ cursor.id /\ up))
  /\ memory' = IF cursor.reply = "held" THEN memory ELSE "freed twice"
  /\ UNCHANGED <<rows, up, fetched>>

BreakOff == up /\ up' = FALSE /\ UNCHANGED <<rows, cursor, live, fetched, memory>>

CursorNext == (\E limit \in Limits : Find(limit)) \/ FetchRow \/ FetchFreed \/ Destroy \/ BreakOff

CursorSpec == CursorInit /\ [][CursorNext]_cursorvars

(***************************************************************************)
(* What a result promises.                                                 *)
(***************************************************************************)
\* fetchRow gives the rows of the result in their order, each once, up to the
\* limit; it says false only after the last or after the connection broke; a
\* destroyed result leaves no cursor in a server that could be told; and memory
\* is in order as long as the connection is.
RowsRight ==
  LET given == {k \in DOMAIN fetched : fetched[k] /= 0}
  IN /\ \A k \in given : fetched[k] = k
     /\ cursor.is = "open" =>
          /\ Len(fetched) <= Wanted(cursor.limit) \/ 0 \in {fetched[k] : k \in DOMAIN fetched}
          /\ up /\ (\E k \in DOMAIN fetched : fetched[k] = 0) => given = 1..Wanted(cursor.limit)
     /\ up => memory = "sound"
     /\ cursor.is = "destroyed" /\ up => ~live
=============================================================================
