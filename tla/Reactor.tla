------------------------------ MODULE Reactor ------------------------------
(***************************************************************************)
(* One server process: Network_Interface (the epoll loop, the handler      *)
(* table, the broadcast set, the deferred closes) with its                 *)
(* Websocket_Handlers (read and write buffer, upgrade, frames).  The       *)
(* process has one thread; what interleaves with it, between any two of    *)
(* its system calls and any two frames, are the steps of the clients and   *)
(* of the kernel in module Sockets.                                        *)
(*                                                                         *)
(* pc says where epoll_loop() stands:                                      *)
(*   "wait"    in epoll_wait                                               *)
(*   "event"   at the head of the loop over the events                     *)
(*   "accept"  in the accept loop                                          *)
(*   "read"    in the read loop of the connection cur                      *)
(*   "drive"   in drive_io() of cur                                        *)
(*   "flush"   in flush_writes() of cur                                    *)
(***************************************************************************)
EXTENDS Sockets

CONSTANTS
  ReadChunk,      \* READ_CHUNK
  MaxEvents,      \* MAX_EPOLL_EVENTS_PER_WAIT
  MaxHandshake,   \* WS_MAX_HANDSHAKE_BYTES
  MaxRead,        \* WS_MAX_READ_BUFFER
  MaxWrite        \* WS_MAX_WRITE_BUFFER

\* The 101 response, of at most some 200 bytes, fits in an empty write buffer.
ASSUME ReactorAssumption ==
  /\ {ReadChunk, MaxEvents, MaxHandshake, MaxRead, MaxWrite} \subseteq Nat \ {0}
  /\ Size["switch"] <= MaxWrite

VARIABLES
  pc, cur,
  batch,           \* epoll_events_buf_[i .. nfds-1]: the events not looked at yet
  interest,        \* the event mask epoll holds for each descriptor
  handlers,        \* the descriptors in websocket_handler_map_ (listenfd_ apart)
  status,          \* status_ of each handler
  read_buf,        \* read_buf_
  write_buf,       \* write_buf_
  ws_clients,      \* ws_clients_
  pending_closes,  \* pending_closes_ (sorted and made unique before its use: a set)
  log,             \* history: the text frames handled, in order
  joined,          \* history: Len(log) when the client was registered
  lost             \* history: the clients for which append_outgoing dropped a frame

table   == <<interest, handlers, status, read_buf, write_buf, ws_clients>>
history == <<log, joined, lost>>
vars    == <<sockets, pc, cur, batch, table, pending_closes, history>>

AllFds == Fds \cup {ListenFd}

\* queue_close(); mutant: the descriptor is not put in the queue.
QueueCloseNever(fd) == pending_closes' = pending_closes
QueueClose(fd) == pending_closes' = pending_closes \cup {fd}

Event == [fd : AllFds, conn : Clients \cup {NoClient}, mask : SUBSET {"IN", "OUT", "HUP"}]

ReactorInit ==
  /\ pc = "wait"
  /\ cur = ListenFd
  /\ batch = {}
  /\ interest = [fd \in Fds |-> {}]
  /\ handlers = {}
  /\ status = [fd \in Fds |-> "UNCONNECT"]
  /\ read_buf = [fd \in Fds |-> <<>>]
  /\ write_buf = [fd \in Fds |-> <<>>]
  /\ ws_clients = {}
  /\ pending_closes = {}
  /\ log = <<>>
  /\ joined = [c \in Clients |-> 0]
  /\ lost = {}

Init == SocketsInit /\ ReactorInit

-----------------------------------------------------------------------------
(* epoll_wait and the loop over its events *)

MaskOf(fd) ==
  {m \in {"IN", "OUT", "HUP"} :
     \/ m = "IN"  /\ "IN"  \in interest[fd] /\ Readable(conn[fd])
     \/ m = "OUT" /\ "OUT" \in interest[fd] /\ Writable(conn[fd])
     \/ m = "HUP" /\ rst[conn[fd]]}

Ready ==
  {[fd |-> fd, conn |-> conn[fd], mask |-> MaskOf(fd)] :
     fd \in {h \in handlers : MaskOf(h) # {}}}
  \cup (IF backlog = <<>> THEN {} ELSE {[fd |-> ListenFd, conn |-> NoClient, mask |-> {"IN"}]})

\* epoll_wait blocks (EPOLL_WAIT_MS is -1) until something is ready, and
\* reports at most MaxEvents of it.
EpollWait ==
  /\ pc = "wait"
  /\ Ready # {}
  /\ \E B \in SUBSET Ready :
       /\ Cardinality(B) = Lesser(MaxEvents, Cardinality(Ready))
       /\ batch' = B
  /\ pc' = "event"
  /\ UNCHANGED <<sockets, cur, table, pending_closes, history>>

\* The loop goes on with e.  The array has epoll's order, which nothing fixes.
TakeEvent(e) == pc = "event" /\ e \in batch /\ batch' = batch \ {e}

\* The event leads to `next` for its handler, or to nothing if that is gone.
Enter(e, next) ==
  /\ TakeEvent(e)
  /\ pc' = IF e.fd \in handlers THEN next ELSE pc
  /\ cur' = IF e.fd \in handlers THEN e.fd ELSE cur
  /\ UNCHANGED <<sockets, table, pending_closes, history>>

ListenEvent(e) ==
  /\ e.fd = ListenFd
  /\ TakeEvent(e)
  /\ pc' = "accept"
  /\ UNCHANGED <<sockets, cur, table, pending_closes, history>>

\* EPOLLERR or EPOLLHUP: nothing is read or written any more.
HangupEvent(e) ==
  /\ e.fd # ListenFd
  /\ "HUP" \in e.mask
  /\ TakeEvent(e)
  /\ QueueClose(e.fd)
  /\ UNCHANGED <<sockets, pc, cur, table, history>>

InEvent(e) ==
  /\ e.fd # ListenFd
  /\ "HUP" \notin e.mask
  /\ "IN" \in e.mask
  /\ Enter(e, "read")

\* EPOLLOUT counts only when the same event does not say EPOLLIN.
OutEvent(e) ==
  /\ e.fd # ListenFd
  /\ e.mask = {"OUT"}
  /\ Enter(e, "flush")

\* The handlers process_close_queue() ends; mutant: it stops after the first.
ClosingFirst == {fd \in pending_closes : \A other \in pending_closes : fd <= other}
Closing == pending_closes \cap handlers

\* Each is unregistered; mutant: it is not.
UnregisterNever(S) == ws_clients' = ws_clients
Unregister(S) == ws_clients' = ws_clients \ S

\* process_close_queue(): unregister, take out of epoll, close, delete.
ProcessCloseQueue ==
  LET gone == Closing
      Without(f, v) == [fd \in Fds |-> IF fd \in gone THEN v ELSE f[fd]] IN
  /\ SysClose(gone)
  /\ handlers' = handlers \ gone
  /\ Unregister(gone)
  /\ pending_closes' = {}
  /\ interest' = Without(interest, {})
  /\ status' = Without(status, "UNCONNECT")
  /\ read_buf' = Without(read_buf, <<>>)
  /\ write_buf' = Without(write_buf, <<>>)

\* Mutant: the queue is processed after every event.
EndBatchEarly ==
  /\ pc = "event"
  /\ ProcessCloseQueue
  /\ pc' = IF batch = {} THEN "wait" ELSE "event"
  /\ cur' = ListenFd
  /\ UNCHANGED <<batch, history>>

\* After the last event of the batch the connections to be closed are, and the
\* process waits again.
EndBatch ==
  /\ pc = "event"
  /\ batch = {}
  /\ ProcessCloseQueue
  /\ pc' = "wait"
  /\ cur' = ListenFd
  /\ UNCHANGED <<batch, history>>

-----------------------------------------------------------------------------
(* The accept loop *)

\* accept() returns a connection: ctl_event(fd, true) watches it for input
\* and gives it a new handler.
AcceptOne ==
  /\ pc = "accept"
  /\ \E fd \in Fds :
       /\ SysAccept(fd)
       /\ handlers' = handlers \cup {fd}
       /\ interest' = [interest EXCEPT ![fd] = {"IN"}]
       /\ status' = [status EXCEPT ![fd] = "UNCONNECT"]
       /\ read_buf' = [read_buf EXCEPT ![fd] = <<>>]
       /\ write_buf' = [write_buf EXCEPT ![fd] = <<>>]
  /\ UNCHANGED <<pc, cur, batch, ws_clients, pending_closes, history>>

\* Mutant: the accept loop ends on EAGAIN only.
AcceptNoneEagain ==
  /\ pc = "accept"
  /\ backlog = <<>>
  /\ pc' = "event"
  /\ UNCHANGED <<sockets, cur, batch, table, pending_closes, history>>

\* EAGAIN, or EMFILE: the connection stays in the backlog.
AcceptNone ==
  /\ pc = "accept"
  /\ \/ backlog = <<>>
     \/ FreeFds = {}
  /\ pc' = "event"
  /\ UNCHANGED <<sockets, cur, batch, table, pending_closes, history>>

-----------------------------------------------------------------------------
(* The read loop *)

Chunk == Lesser(ReadChunk, Len(toServer[conn[cur]]))

\* read() returns data and append_read() has room for it.
ReadData ==
  /\ pc = "read"
  /\ toServer[conn[cur]] # <<>>
  /\ Len(read_buf[cur]) + Chunk <= MaxRead
  /\ read_buf' = [read_buf EXCEPT ![cur] = @ \o SubSeq(toServer[conn[cur]], 1, Chunk)]
  /\ SysRead(conn[cur], Chunk)
  /\ UNCHANGED <<pc, cur, batch, interest, handlers, status, write_buf, ws_clients, pending_closes, history>>

\* append_read() refuses the chunk, which is lost, and the connection ends.
ReadOverflow ==
  /\ pc = "read"
  /\ toServer[conn[cur]] # <<>>
  /\ Len(read_buf[cur]) + Chunk > MaxRead
  /\ SysRead(conn[cur], Chunk)
  /\ QueueClose(cur)
  /\ pc' = "event"
  /\ UNCHANGED <<cur, batch, table, history>>

\* read() returns 0 or an error: queue_close() and no drive_io(), whatever
\* the loop has read before.
ReadEnd ==
  /\ pc = "read"
  /\ toServer[conn[cur]] = <<>>
  /\ fin[conn[cur]] \/ rst[conn[cur]]
  /\ QueueClose(cur)
  /\ pc' = "event"
  /\ UNCHANGED <<sockets, cur, batch, table, history>>

\* EAGAIN: everything there was is in read_buf; drive_io() looks at it.
ReadAgain ==
  /\ pc = "read"
  /\ ~Readable(conn[cur])
  /\ pc' = "drive"
  /\ UNCHANGED <<sockets, cur, batch, table, pending_closes, history>>
-----------------------------------------------------------------------------
(* append_outgoing(): output for a set S of handlers *)

\* Mutant: the limit is compared with what is there already.
FitsBefore(fd, m) == Len(write_buf[fd]) <= MaxWrite
Fits(fd, m) == Len(write_buf[fd]) + Size[m.kind] <= MaxWrite

\* Mutants: m replaces what is there; m goes to the front; m is cut at the limit.
AppendedOver(S, m) == [fd \in Fds |-> IF fd \in S /\ Fits(fd, m) THEN Cells(m) ELSE write_buf[fd]]
AppendedFront(S, m) ==
  [fd \in Fds |-> IF fd \in S /\ Fits(fd, m) THEN Cells(m) \o write_buf[fd] ELSE write_buf[fd]]
AppendedPart(S, m) ==
  [fd \in Fds |-> IF fd \in S
                  THEN write_buf[fd] \o SubSeq(Cells(m), 1, Lesser(Size[m.kind], MaxWrite - Len(write_buf[fd])))
                  ELSE write_buf[fd]]

\* The write buffers after m was appended for every handler of S: one whose
\* limit m would exceed gets nothing of it, and is to be closed.
Appended(S, m) ==
  [fd \in Fds |-> IF fd \in S /\ Fits(fd, m) THEN write_buf[fd] \o Cells(m) ELSE write_buf[fd]]

\* Mutant: it is not closed.
RefusedSilently(S, m) == {}
Refused(S, m) == {fd \in S : ~Fits(fd, m)}

\* update_handler_events(): output is watched while there is some to send.
\* Mutant: input is not watched meanwhile.
EventsForEither(buf) == IF buf = <<>> THEN {"IN"} ELSE {"OUT"}
EventsFor(buf) == IF buf = <<>> THEN {"IN"} ELSE {"IN", "OUT"}

\* queue_send() always refreshes the mask; the broadcast does so, once at its
\* end, for the buffers that were empty before.  Mutant: only queue_send() does.
RefreshedEcho(S, m) == {cur} \ Refused(S, m)
Refreshed(S, m) == {fd \in S : fd = cur \/ write_buf[fd] = <<>>} \ Refused(S, m)

\* queue_send() of m to the handler cur, followed by broadcast_ws_binary() of
\* m to the set S.
Output(m, S) ==
  LET T == {cur} \cup S IN
  /\ write_buf' = Appended(T, m)
  /\ interest' = [fd \in Fds |-> IF fd \in Refreshed(T, m) THEN EventsFor(Appended(T, m)[fd])
                                                     ELSE interest[fd]]
  /\ pending_closes' = pending_closes \cup Refused(T, m)
  /\ lost' = lost \cup {conn[fd] : fd \in {t \in T : ~Fits(t, m)}}

-----------------------------------------------------------------------------
(* drive_io() *)

\* The message at the head of a buffer, and whether all of it is there.
First(buf) == buf[1].msg
Whole(buf) == buf # <<>> /\ Len(buf) >= Size[First(buf).kind]
\* Mutant: what follows the message is thrown away with it.
RestNone(buf) == <<>>
Rest(buf) == SubSeq(buf, Size[First(buf).kind] + 1, Len(buf))

Driving(st) == pc = "drive" /\ status[cur] = st

Consume == read_buf' = [read_buf EXCEPT ![cur] = Rest(@)]

\* The size check comes before the search for the end of the request.
HandshakeTooLong ==
  /\ Driving("UNCONNECT")
  /\ Len(read_buf[cur]) > MaxHandshake
  /\ QueueClose(cur)
  /\ pc' = "event"
  /\ UNCHANGED <<sockets, cur, batch, table, history>>

HandshakeIncomplete ==
  /\ Driving("UNCONNECT")
  /\ Len(read_buf[cur]) <= MaxHandshake
  /\ ~Whole(read_buf[cur])
  /\ pc' = "event"
  /\ UNCHANGED <<sockets, cur, batch, table, pending_closes, history>>

HandshakeWhole(k) ==
  /\ Driving("UNCONNECT")
  /\ Len(read_buf[cur]) <= MaxHandshake
  /\ Whole(read_buf[cur])
  /\ First(read_buf[cur]).kind = k
  /\ Consume

\* fetch_http_info() does not accept the request line.
HandshakeRejected ==
  /\ HandshakeWhole("badHello")
  /\ QueueClose(cur)
  /\ pc' = "event"
  /\ UNCHANGED <<sockets, cur, batch, interest, handlers, status, write_buf, ws_clients, history>>

Switch(c) == [kind |-> "switch", from |-> c, no |-> 0]

\* Mutant: drive_io() ends after the handshake.
HandshakeDoneReturns ==
  /\ HandshakeWhole("hello")
  /\ status' = [status EXCEPT ![cur] = "HANDSHARKED"]
  /\ Output(Switch(conn[cur]), {})
  /\ ws_clients' = ws_clients \cup {cur}
  /\ joined' = [joined EXCEPT ![conn[cur]] = Len(log)]
  /\ pc' = "event"
  /\ UNCHANGED <<sockets, cur, batch, handlers, log>>

\* The 101 is queued, not sent, when the handler joins the broadcast set.
HandshakeDone ==
  /\ HandshakeWhole("hello")
  /\ status' = [status EXCEPT ![cur] = "HANDSHARKED"]
  /\ Output(Switch(conn[cur]), {})
  /\ ws_clients' = ws_clients \cup {cur}
  /\ joined' = [joined EXCEPT ![conn[cur]] = Len(log)]
  /\ UNCHANGED <<sockets, pc, cur, batch, handlers, log>>

\* WS_PARSE_NEED_MORE ends drive_io().
FrameIncomplete ==
  /\ Driving("HANDSHARKED")
  /\ ~Whole(read_buf[cur])
  /\ read_buf[cur] # <<>> => First(read_buf[cur]).kind # "broken"
  /\ pc' = "event"
  /\ UNCHANGED <<sockets, cur, batch, table, pending_closes, history>>

\* WS_PARSE_ERROR, which the header alone gives.
FrameBroken ==
  /\ Driving("HANDSHARKED")
  /\ read_buf[cur] # <<>>
  /\ First(read_buf[cur]).kind = "broken"
  /\ QueueClose(cur)
  /\ pc' = "event"
  /\ UNCHANGED <<sockets, cur, batch, table, history>>

FrameOf(S) ==
  /\ Driving("HANDSHARKED")
  /\ Whole(read_buf[cur])
  /\ First(read_buf[cur]).kind \in S
  /\ Consume

\* Mutant: only the echo.
FrameTextEcho ==
  /\ FrameOf(Texts)
  /\ Output(First(read_buf[cur]), {})
  /\ log' = Append(log, First(read_buf[cur]))
  /\ UNCHANGED <<sockets, pc, cur, batch, handlers, status, ws_clients, joined>>

\* A text frame is echoed to its sender and broadcast to all the others.
FrameText ==
  /\ FrameOf(Texts)
  /\ Output(First(read_buf[cur]), ws_clients)
  /\ log' = Append(log, First(read_buf[cur]))
  /\ UNCHANGED <<sockets, pc, cur, batch, handlers, status, ws_clients, joined>>

FramePing ==
  /\ FrameOf({"ping"})
  /\ Output([First(read_buf[cur]) EXCEPT !.kind = "pong"], {})
  /\ UNCHANGED <<sockets, pc, cur, batch, handlers, status, ws_clients, log, joined>>

\* The loop over the frames goes on after a Close frame.
FrameClose ==
  /\ FrameOf({"close"})
  /\ QueueClose(cur)
  /\ UNCHANGED <<sockets, pc, cur, batch, interest, handlers, status, write_buf, ws_clients, history>>

\* Binary, continuation and pong frames have no effect.
FrameIgnored ==
  /\ FrameOf({"other"})
  /\ UNCHANGED <<sockets, pc, cur, batch, interest, handlers, status, write_buf, ws_clients,
                 pending_closes, history>>

-----------------------------------------------------------------------------
(* flush_writes() and the refresh of the mask after it *)

Refresh == interest' = [interest EXCEPT ![cur] = EventsFor(write_buf[cur])]

\* send() takes what the socket buffer has space for.
SendSome ==
  LET n == Lesser(SendSpace(conn[cur]), Len(write_buf[cur])) IN
  /\ pc = "flush"
  /\ n > 0
  /\ ~rst[conn[cur]]
  /\ SysSend(conn[cur], SubSeq(write_buf[cur], 1, n))
  /\ write_buf' = [write_buf EXCEPT ![cur] = SubSeq(@, n + 1, Len(@))]
  /\ UNCHANGED <<pc, cur, batch, interest, handlers, status, read_buf, ws_clients,
                 pending_closes, history>>

\* Nothing is left, or EAGAIN.
SendStop ==
  /\ pc = "flush"
  /\ \/ write_buf[cur] = <<>>
     \/ ~Writable(conn[cur])
  /\ Refresh
  /\ pc' = "event"
  /\ UNCHANGED <<sockets, cur, batch, handlers, status, read_buf, write_buf, ws_clients,
                 pending_closes, history>>

\* ECONNRESET or EPIPE.
SendError ==
  /\ pc = "flush"
  /\ write_buf[cur] # <<>>
  /\ rst[conn[cur]]
  /\ QueueClose(cur)
  /\ Refresh
  /\ pc' = "event"
  /\ UNCHANGED <<sockets, cur, batch, handlers, status, read_buf, write_buf, ws_clients, history>>

-----------------------------------------------------------------------------
Dispatch == \E e \in batch : ListenEvent(e) \/ HangupEvent(e) \/ InEvent(e) \/ OutEvent(e)

ServerStep ==
  \/ EpollWait \/ Dispatch \/ EndBatch
  \/ AcceptOne \/ AcceptNone
  \/ ReadData \/ ReadOverflow \/ ReadEnd \/ ReadAgain
  \/ HandshakeTooLong \/ HandshakeIncomplete \/ HandshakeRejected \/ HandshakeDone
  \/ FrameIncomplete \/ FrameBroken \/ FrameText \/ FramePing \/ FrameClose \/ FrameIgnored
  \/ SendSome \/ SendStop \/ SendError

\* What the world does meanwhile.
Outside(A) == A /\ UNCHANGED <<pc, cur, batch, table, pending_closes, history>>
WorldStep == \E c \in Clients : Outside(ClientStep(c))

Next == WorldStep \/ ServerStep

Spec == Init /\ [][Next]_vars

-----------------------------------------------------------------------------
(* Invariants *)

ServerTypeOK ==
  /\ pc \in {"wait", "event", "accept", "read", "drive", "flush"}
  /\ cur \in AllFds
  /\ batch \in SUBSET Event
  /\ interest \in [Fds -> SUBSET {"IN", "OUT"}]
  /\ handlers \in SUBSET Fds
  /\ status \in [Fds -> {"UNCONNECT", "HANDSHARKED"}]
  /\ read_buf \in [Fds -> Seq(Cell)]
  /\ write_buf \in [Fds -> Seq(Cell)]
  /\ ws_clients \in SUBSET Fds
  /\ pending_closes \in SUBSET Fds
  /\ log \in Seq(Message)
  /\ joined \in [Clients -> Nat]
  /\ lost \in SUBSET Clients

\* Types, and the limits of the read and the write buffer of every handler.
TypeOK ==
  /\ SocketsTypeOK
  /\ ServerTypeOK
  /\ \A fd \in Fds : Len(read_buf[fd]) <= MaxRead /\ Len(write_buf[fd]) <= MaxWrite

\* The handler table, epoll's set and the process's descriptors are the same
\* thing: a connection is in all of them or in none, no descriptor stands for
\* two clients, and what is to be closed or is being served is still there
\* (ctl_event and process_close_queue keep them together by hand).
Descriptors ==
  /\ handlers = {fd \in Fds : conn[fd] # NoClient}
  /\ \A fd \in Fds : fd \in handlers <=> "IN" \in interest[fd]
  /\ \A f, g \in handlers : conn[f] = conn[g] => f = g
  /\ \A c \in Clients : peer[c] = "open" <=> \E fd \in handlers : conn[fd] = c
  /\ pending_closes \subseteq handlers
  /\ pc \in {"read", "drive", "flush"} => cur \in handlers

\* No event of a batch is stale: until it is handled its descriptor stands for
\* the connection epoll reported, although accept() takes the lowest free
\* descriptor in the middle of the batch.  A connection is served at most once
\* per batch.  This is what process_close_queue() is deferred for.
FreshEvents ==
  /\ \A e \in batch : e.fd # ListenFd => e.fd \in handlers /\ conn[e.fd] = e.conn
  /\ \A e, f \in batch : e.fd = f.fd => e = f
  /\ pc \in {"read", "drive", "flush"} => \A e \in batch : e.fd # cur

\* The broadcast set is the set of upgraded connections of the process: nobody
\* joins before the upgrade, and nobody stays in it after the close.
Registered == ws_clients = {fd \in handlers : status[fd] = "HANDSHARKED"}

\* No wakeup is lost and none is spurious: epoll watches a connection for
\* output exactly while its write buffer holds something, but for the buffer
\* being flushed, whose mask is refreshed after the loop.  The broadcast
\* refreshes only masks of buffers that were empty and relies on the rest.
WriteInterest ==
  \A fd \in handlers :
    /\ write_buf[fd] # <<>> => "OUT" \in interest[fd]
    /\ "OUT" \in interest[fd] => write_buf[fd] # <<>> \/ (pc = "flush" /\ cur = fd)

\* A connection for which a frame was dropped is closed at the end of the batch
\* in which it was: no client with a gap in its stream survives it.
Doomed == \A fd \in handlers : conn[fd] \in lost => fd \in pending_closes
=============================================================================
