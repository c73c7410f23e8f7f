---------------------------- MODULE MongoClient ----------------------------
(***************************************************************************)
(* CMongodbConnection (mongodb_wrapper.cpp) over the driver of mongo.c and *)
(* env.c: a program makes one call after the other; a call writes a        *)
(* message, for a write it asks getlasterror, reads one reply, and after   *)
(* an error pings, reconnects and tries once more.  The server takes the   *)
(* messages of each connection in their order, also those of a connection  *)
(* the client has given up.  A connection can break at any moment, losing  *)
(* any tail of what is under way in either direction.                      *)
(***************************************************************************)
EXTENDS Integers, Sequences

CONSTANTS Writes,     \* calls that change the collection: insert, delete, update
          Reads,      \* calls that ask: find, count
          MaxCalls,   \* bound: calls of the program
          MaxConns,   \* bound: connections made
          MaxBreaks   \* bound: connections that break

ASSUME ClientAssumption ==
  Writes \cap Reads = {} /\ MaxCalls \in Nat /\ MaxConns \in Nat /\ MaxBreaks \in Nat

VARIABLES cl,      \* the mongo object and where the call is:
                   \* [pc, sock, connected, tries, asked]; sock 0: none
          conns,   \* what was connected: [in, out, broken, err]
          calls,   \* [kind, valid, applied, again, result] of each call
          breaks   \* connections broken so far

mongovars == <<cl, conns, calls, breaks>>

Now == Len(calls)
Conn == conns[cl.sock]
Dead == cl.sock /= 0 => Conn.broken
NewConn == [in |-> <<>>, out |-> <<>>, broken |-> FALSE, err |-> FALSE]

\* connect() was called and succeeded, or failed.
ClientInit ==
  /\ \E up \in BOOLEAN :
       /\ conns = IF up THEN <<NewConn>> ELSE <<>>
       /\ cl = [pc |-> "idle", sock |-> Len(conns), connected |-> up, tries |-> 0, asked |-> <<>>]
  /\ calls = <<>> /\ breaks = 0

(***************************************************************************)
(* The wire.                                                               *)
(***************************************************************************)
Message(is) == <<Now, is, cl.tries>>

\* mongo_env_write_socket: on a broken connection the kernel still takes the
\* message, or send() fails, with EPIPE, which clears connected, or without.
\* Without a connection sock is 0, which is no socket.
Send(m, taken, connected) ==
  \/ /\ taken /\ cl.sock /= 0
     /\ connected = cl.connected
     /\ conns' = IF Conn.broken THEN conns ELSE [conns EXCEPT ![cl.sock].in = Append(@, m)]
  \/ /\ ~taken
     /\ Dead
     /\ connected \in {cl.connected, cl.connected /\ cl.sock = 0}
     /\ UNCHANGED conns

\* mongo_read_response: the reply that comes next, whatever it answers.
Receive(err) ==
  /\ cl.sock /= 0 /\ Conn.out /= <<>>
  /\ err = Head(Conn.out).err
  /\ conns' = [conns EXCEPT ![cl.sock].out = Tail(@)]

\* mutant of the next: the end of the stream is not seen as an error
ReceiveFailsNever == FALSE /\ UNCHANGED conns
\* recv() gives 0 or -1; connected stays as it is.
ReceiveFails == cl.sock /= 0 /\ Conn.broken /\ Conn.out = <<>> /\ UNCHANGED conns

(***************************************************************************)
(* A call.                                                                 *)
(***************************************************************************)
At(pc) == cl.pc = pc
Goes(pc, connected) == cl' = [cl EXCEPT !.pc = pc, !.connected = connected]
Waits(pc, m, connected) == cl' = [cl EXCEPT !.pc = pc, !.asked = m, !.connected = connected]

Returned(value) == calls' = [calls EXCEPT ![Now].result = value]
Returns(value) == Returned(value) /\ Goes("idle", cl.connected) /\ UNCHANGED breaks

\* Nothing that cannot be sent is: mongo_validate_ns, mongo_bson_valid and
\* mongo_cursor_bson_valid.
Begin(kind, valid) ==
  /\ At("idle") /\ Now < MaxCalls
  /\ calls' = Append(calls, [kind |-> kind, valid |-> valid, applied |-> 0, again |-> FALSE, result |-> "none"])
  /\ cl' = [cl EXCEPT !.pc = "try", !.tries = 1]
  /\ UNCHANGED <<conns, breaks>>

\* The first try that fails is followed by a look at the connection, the second
\* is the result.
Errs(connected) ==
  IF cl.tries = 1 THEN Goes("check", connected) /\ UNCHANGED calls
  ELSE Goes("idle", connected) /\ Returned("false")

TryInvalid == At("try") /\ ~calls[Now].valid /\ Errs(cl.connected) /\ UNCHANGED <<conns, breaks>>

\* mongo_insert, mongo_remove, mongo_update: the message of a write has no
\* reply, so getlasterror is asked after it (the write concern of mongo_init).
WriteUnasked ==
  /\ At("try") /\ calls[Now].valid /\ calls[Now].kind \in Writes
  /\ \E taken, connected \in BOOLEAN :
       /\ Send(Message("write"), taken, connected)
       /\ IF taken THEN Goes("idle", connected) /\ Returned("true") ELSE Errs(connected)
  /\ UNCHANGED breaks

Write ==
  /\ At("try") /\ calls[Now].valid /\ calls[Now].kind \in Writes
  /\ \E taken, connected \in BOOLEAN :
       /\ Send(Message("write"), taken, connected)
       /\ IF taken THEN Goes("ask", connected) /\ UNCHANGED calls ELSE Errs(connected)
  /\ UNCHANGED breaks

Asking(m) ==
  /\ \E taken, connected \in BOOLEAN :
       /\ Send(m, taken, connected)
       /\ IF taken THEN Waits("wait", m, connected) /\ UNCHANGED calls ELSE Errs(connected)
  /\ UNCHANGED breaks

\* mongo_check_last_error
AskLastError == At("ask") /\ Asking(Message("ask"))

\* mongo_cursor_op_query, for mongo_find, and for mongo_count by mongo_run_command
Query == At("try") /\ calls[Now].valid /\ calls[Now].kind \in Reads /\ Asking(Message("query"))

Answered ==
  /\ At("wait")
  /\ \E err \in BOOLEAN :
       /\ Receive(err)
       /\ IF err THEN Errs(cl.connected) ELSE Goes("idle", cl.connected) /\ Returned("true")
  /\ UNCHANGED breaks

Unanswered == At("wait") /\ ReceiveFails /\ Errs(cl.connected) /\ UNCHANGED breaks

(***************************************************************************)
(* After an error: mongo_check_connection, mongo_reconnect.                *)
(***************************************************************************)
Lost == Goes("reconnect", cl.connected)

CheckUnconnected == At("check") /\ ~cl.connected /\ Lost /\ UNCHANGED <<conns, calls, breaks>>

Ping ==
  /\ At("check") /\ cl.connected
  /\ \E taken, connected \in BOOLEAN :
       /\ Send(Message("ping"), taken, connected)
       /\ IF taken THEN Waits("pong", Message("ping"), connected) ELSE Goes("reconnect", connected)
  /\ UNCHANGED <<calls, breaks>>

\* The connection is good, so the error stands.
Pong == At("pong") /\ (\E err \in BOOLEAN : Receive(err)) /\ Returns("false")
NoPong == At("pong") /\ ReceiveFails /\ Lost /\ UNCHANGED <<calls, breaks>>

\* mongo_disconnect closes the socket if connected; what was sent may still
\* arrive, all of it or a front.
Closed(n) ==
  IF cl.sock = 0 THEN conns
  ELSE [conns EXCEPT ![cl.sock].broken = TRUE, ![cl.sock].out = <<>>,
                     ![cl.sock].in = IF Conn.broken THEN @ ELSE SubSeq(@, 1, n)]
Left == IF cl.sock = 0 THEN 0 ELSE Len(Conn.in)

Reconnect ==
  /\ At("reconnect") /\ Len(conns) < MaxConns
  /\ \E n \in 0..Left : conns' = Append(Closed(n), NewConn)
  /\ cl' = [cl EXCEPT !.pc = "try", !.tries = 2, !.sock = Len(conns) + 1, !.connected = TRUE]
  /\ calls' = [calls EXCEPT ![Now].again = TRUE]
  /\ UNCHANGED breaks

ReconnectFails ==
  /\ At("reconnect")
  /\ \E n \in 0..Left : conns' = Closed(n)
  /\ cl' = [cl EXCEPT !.pc = "idle", !.sock = 0, !.connected = FALSE]
  /\ calls' = [calls EXCEPT ![Now].again = TRUE, ![Now].result = "false"]
  /\ UNCHANGED breaks

\* connect() once more, by mongo_client, after it failed
Connect ==
  /\ At("idle") /\ cl.sock = 0 /\ Len(conns) < MaxConns /\ Now < MaxCalls
  /\ conns' = Append(conns, NewConn)
  /\ cl' = [cl EXCEPT !.sock = Len(conns) + 1, !.connected = TRUE]
  /\ UNCHANGED <<calls, breaks>>

(***************************************************************************)
(* The server and the network.                                             *)
(***************************************************************************)
\* A write is applied or refused; a query is answered or fails.
Serve(c) ==
  /\ conns[c].in /= <<>>
  /\ LET m == Head(conns[c].in)
         rest == [conns EXCEPT ![c].in = Tail(@)]
         reply(err) == [rest EXCEPT ![c].out = IF conns[c].broken THEN @ ELSE Append(@, [to |-> m, err |-> err])]
     IN \/ /\ m[2] = "write"
           /\ conns' = [rest EXCEPT ![c].err = FALSE]
           /\ calls' = [calls EXCEPT ![m[1]].applied = @ + 1]
        \/ m[2] = "write" /\ conns' = [rest EXCEPT ![c].err = TRUE] /\ UNCHANGED calls
        \/ m[2] = "ask" /\ conns' = reply(conns[c].err) /\ UNCHANGED calls
        \/ m[2] \in {"query", "ping"} /\ conns' = reply(FALSE) /\ UNCHANGED calls
        \/ m[2] = "query" /\ conns' = reply(TRUE) /\ UNCHANGED calls
  /\ UNCHANGED <<cl, breaks>>

Break(c) ==
  /\ breaks < MaxBreaks /\ ~conns[c].broken
  /\ \E i \in 0..Len(conns[c].in), o \in 0..Len(conns[c].out) :
       conns' = [conns EXCEPT ![c].broken = TRUE, ![c].in = SubSeq(@, 1, i), ![c].out = SubSeq(@, 1, o)]
  /\ breaks' = breaks + 1
  /\ UNCHANGED <<cl, calls>>

CallStep ==
  \/ TryInvalid \/ Write \/ AskLastError \/ Query \/ Answered \/ Unanswered
  \/ CheckUnconnected \/ Ping \/ Pong \/ NoPong \/ Reconnect \/ ReconnectFails

ClientNext ==
  \/ CallStep \/ Connect
  \/ \E kind \in Writes \cup Reads, valid \in BOOLEAN : Begin(kind, valid)
  \/ \E c \in DOMAIN conns : Serve(c) \/ Break(c)

\* The program runs, and the server answers on a connection that holds.  recv()
\* has no timeout: that a broken connection is noticed is part of the network.
ClientFair == WF_mongovars(CallStep) /\ WF_mongovars(\E c \in DOMAIN conns : ~conns[c].broken /\ Serve(c))

ClientSpec == ClientInit /\ [][ClientNext]_mongovars

(***************************************************************************)
(* What the calls promise.                                                 *)
(***************************************************************************)
OnTheWay(i) == \E c \in DOMAIN conns : \E k \in DOMAIN conns[c].in :
                 conns[c].in[k][1] = i /\ conns[c].in[k][2] = "write"

\* A write that returned true was applied (mongodbInsert, Delete, Update).
Acknowledged == \A i \in DOMAIN calls :
  calls[i].result = "true" /\ calls[i].kind \in Writes => calls[i].applied >= 1

\* A write that returned false without giving up its connection was not applied
\* and never will be; no other write is applied after its call has returned.
Settled == \A i \in DOMAIN calls :
  calls[i].result /= "none" /\ ~calls[i].again =>
    /\ ~OnTheWay(i)
    /\ calls[i].result = "false" => calls[i].applied = 0

\* The retry may apply a write a second time, never a third, and only it may.
AtMostTwice == \A i \in DOMAIN calls : calls[i].applied <= IF calls[i].again THEN 2 ELSE 1

\* mongo_read_response does not look at responseTo: the reply it takes is that
\* to the last request all the same.
InStep == At("wait") \/ At("pong") => cl.sock /= 0 /\ (Conn.out /= <<>> => Conn.out[1].to = cl.asked)

\* mongodbInsert, mongodbDelete, mongodbUpdate, mongodbFind and mongodbCount:
\* what they return is what happened to the message, and each reply is taken
\* for the request it answers, whatever breaks when.
CallsRight == Acknowledged /\ Settled /\ AtMostTwice /\ InStep

\* Every call ends, with the connection or without it.
CallsEnd == []<>At("idle")
=============================================================================
