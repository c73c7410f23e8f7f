--------------------------- MODULE DeliveryProofs ---------------------------
(***************************************************************************)
(* The reactor and what it delivers, for any number of clients,            *)
(* descriptors and messages and any limits of its buffers: the tables of   *)
(* the server agree with the ones of the kernel, each client's stream is   *)
(* whole frames and only grows, and the room of ChatRoom is what the       *)
(* reactor implements step by step.                                        *)
(***************************************************************************)
EXTENDS Delivery, SequenceTheorems, TLAPS

-----------------------------------------------------------------------------
(* Messages, cells and pieces of buffers *)

\* A message is cut into as many cells as its size says.
LEMMA CellsType ==
  ASSUME NEW m \in Message
  PROVE  /\ Size[m.kind] \in Nat \ {0}
         /\ Cells(m) \in Seq(Cell)
         /\ Len(Cells(m)) = Size[m.kind]
<1>1. Size[m.kind] \in Nat \ {0}
  BY SocketsAssumption DEF Message
<1>2. \A i \in 1..Size[m.kind] : [msg |-> m, part |-> i] \in Cell
  BY <1>1 DEF Cell
<1>3. Cells(m) \in Seq(Cell) /\ Len(Cells(m)) = Size[m.kind]
  BY <1>1, <1>2, IsASeq DEF Cells
<1> QED  BY <1>1, <1>3

\* A sequence cut in two.
LEMMA PieceType ==
  ASSUME NEW S, NEW s \in Seq(S), NEW n \in Nat, n <= Len(s)
  PROVE  /\ SubSeq(s, 1, n) \in Seq(S) /\ Len(SubSeq(s, 1, n)) = n
         /\ SubSeq(s, n + 1, Len(s)) \in Seq(S) /\ Len(SubSeq(s, n + 1, Len(s))) = Len(s) - n
<1>1. Len(s) \in Nat /\ \A i \in 1..Len(s) : s[i] \in S
  BY ElementOfSeq, LenProperties
<1>2. SubSeq(s, 1, n) \in Seq(S) /\ Len(SubSeq(s, 1, n)) = n
  BY <1>1, SubSeqProperties
<1>3. SubSeq(s, n + 1, Len(s)) \in Seq(S) /\ Len(SubSeq(s, n + 1, Len(s))) = Len(s) - n
  BY <1>1, SubSeqProperties
<1> QED  BY <1>2, <1>3

\* The message at the front of a buffer is one.
LEMMA FirstType ==
  ASSUME NEW buf \in Seq(Cell), buf # <<>>
  PROVE  First(buf) \in Message
<1>1. Len(buf) \in Nat /\ Len(buf) # 0
  BY LenProperties, EmptySeq
<1>2. buf[1] \in Cell
  BY <1>1, ElementOfSeq
<1> QED  BY <1>2 DEF First, Cell

\* What is left behind a whole message is no longer than the buffer was.
LEMMA RestType ==
  ASSUME NEW buf \in Seq(Cell), Whole(buf)
  PROVE  Rest(buf) \in Seq(Cell) /\ Len(Rest(buf)) <= Len(buf)
<1>1. First(buf) \in Message
  BY FirstType DEF Whole
<1>2. Size[First(buf).kind] \in Nat /\ Size[First(buf).kind] <= Len(buf)
  BY <1>1, CellsType DEF Whole
<1>3. Len(buf) \in Nat
  BY LenProperties
<1> QED  BY <1>2, <1>3, PieceType DEF Rest

\* What the server answers with is a message.
LEMMA ReplyType ==
  /\ \A c \in Clients : Switch(c) \in Message
  /\ \A m \in Message : [m EXCEPT !.kind = "pong"] \in Message
BY DEF Switch, Message, Kinds, Replies

-----------------------------------------------------------------------------
(* The inductive invariant *)

\* The backlog holds each waiting client once, and nobody who was ever served:
\* what accept() returns is new to the handler table.
Waiting ==
  /\ \A i \in 1..Len(backlog) : peer[backlog[i]] = "queued"
  /\ \A i, j \in 1..Len(backlog) : backlog[i] = backlog[j] => i = j
  /\ \A c \in lost : peer[c] \in {"open", "closed"}

\* All of it but the types, which are proved apart.
OtherInv == Waiting /\ Descriptors /\ FreshEvents /\ Registered /\ WriteInterest /\ Doomed

\* The inductive invariant: the invariants of Reactor, which need each other,
\* and Waiting.
IInv == /\ TypeOK /\ Waiting /\ Descriptors /\ FreshEvents /\ Registered /\ WriteInterest /\ Doomed

\* The process starts with every part of it true.
THEOREM InitIInv == Init => IInv
<1> SUFFICES ASSUME Init PROVE IInv
  OBVIOUS
<1> USE SocketsAssumption, ReactorAssumption DEF Init, SocketsInit, ReactorInit
<1>1. TypeOK
  <2>1. SocketsTypeOK
    BY EmptySeq DEF SocketsTypeOK
  <2>2. ServerTypeOK
    BY EmptySeq DEF ServerTypeOK, AllFds
  <2>3. \A fd \in Fds : Len(read_buf[fd]) <= MaxRead /\ Len(write_buf[fd]) <= MaxWrite
    BY EmptySeq
  <2> QED  BY <2>1, <2>2, <2>3 DEF TypeOK
<1>2. Waiting
  BY DEF Waiting
<1>3. Descriptors /\ FreshEvents /\ Registered /\ WriteInterest /\ Doomed
  BY DEF Descriptors, FreshEvents, Registered, WriteInterest, Doomed
<1> QED  BY <1>1, <1>2, <1>3 DEF IInv

-----------------------------------------------------------------------------
(* The steps of the clients *)

\* Types, over a step of a client or of the network.
LEMMA ClientType ==
  ASSUME TypeOK, NEW c \in Clients, Outside(ClientStep(c))
  PROVE  TypeOK'
<1> USE DEF TypeOK, SocketsTypeOK, Connected
<1> SUFFICES SocketsTypeOK'
  BY DEF Outside, table, history, ServerTypeOK
<1>1. CASE Connect(c)
  BY <1>1, AppendProperties DEF Connect
<1>2. ASSUME NEW k \in May[c] \cap Kinds, Send(c, k)
      PROVE  SocketsTypeOK'
  <2> DEFINE n == IF k = "other" THEN 0 ELSE Len(sent[c]) + 1
             m == [kind |-> k, from |-> c, no |-> n]
  <2>1. n \in Nat
    BY LenProperties
  <2>2. Cells(m) \in Seq(Cell)
    BY <2>1, CellsType DEF Message
  <2>3. Append(sent[c], k) \in Seq(Kinds)
    BY AppendProperties
  <2> QED  BY <1>2, <2>2, <2>3 DEF Send
<1>3. CASE Arrive(c)
  BY <1>3, AppendProperties, HeadTailProperties DEF Arrive
<1>4. CASE Shutdown(c)
  BY <1>4, EmptySeq DEF Shutdown
<1>5. CASE Reset(c)
  BY <1>5, EmptySeq, SocketsAssumption DEF Reset
<1>6. CASE Receive(c)
  BY <1>6, SocketsAssumption DEF Receive
<1> QED  BY <1>1, <1>2, <1>3, <1>4, <1>5, <1>6 DEF Outside, ClientStep

\* A step of a client or of the network touches nothing of the server; only a queued connection is new.
LEMMA ClientInv ==
  ASSUME IInv, NEW c \in Clients, Outside(ClientStep(c))
  PROVE  IInv'
<1> USE DEF IInv
<1>1. TypeOK'
  BY ClientType
<1>2. /\ UNCHANGED <<pc, cur, batch, interest, handlers, status, read_buf, write_buf,
                     ws_clients, pending_closes, log, joined, lost>>
      /\ UNCHANGED conn
  BY DEF Outside, table, history, ClientStep, Connect, Send, Arrive, Shutdown, Reset, Receive
<1>3. \/ UNCHANGED <<peer, backlog>>
      \/ peer[c] = "idle" /\ backlog' = Append(backlog, c)
         /\ peer' = [peer EXCEPT ![c] = "queued"]
  BY DEF Outside, ClientStep, Connect, Send, Arrive, Shutdown, Reset, Receive
<1>4. Waiting'
  <2>1. CASE UNCHANGED <<peer, backlog>>
    BY <1>2, <2>1 DEF Waiting
  <2>2. CASE /\ peer[c] = "idle" /\ backlog' = Append(backlog, c)
             /\ peer' = [peer EXCEPT ![c] = "queued"]
    <3>1. /\ Len(backlog) \in Nat
          /\ Len(backlog') = Len(backlog) + 1
          /\ \A i \in 1..Len(backlog) : backlog'[i] = backlog[i] /\ backlog[i] \in Clients
          /\ backlog'[Len(backlog) + 1] = c
      BY <2>2, AppendProperties, LenProperties, ElementOfSeq DEF TypeOK, SocketsTypeOK
    <3>2. \A i \in 1..Len(backlog) : backlog[i] # c
      BY <2>2 DEF Waiting
    <3>3. peer \in [Clients -> {"idle", "queued", "open", "closed"}]
      BY DEF TypeOK, SocketsTypeOK
    <3>4. \A i \in 1..Len(backlog') : i \in 1..Len(backlog) \/ i = Len(backlog) + 1
      BY <3>1
    <3>5. \A i \in 1..Len(backlog') : peer'[backlog'[i]] = "queued"
      BY <2>2, <3>1, <3>2, <3>3, <3>4 DEF Waiting
    <3>6. \A i, j \in 1..Len(backlog') : backlog'[i] = backlog'[j] => i = j
      BY <3>1, <3>2, <3>4 DEF Waiting
    <3>7. \A d \in lost' : peer'[d] \in {"open", "closed"}
      BY <1>2, <2>2, <3>3 DEF Waiting, TypeOK, ServerTypeOK
    <3> QED  BY <3>5, <3>6, <3>7 DEF Waiting
  <2> QED  BY <1>3, <2>1, <2>2
<1>5. Descriptors'
  BY <1>2, <1>3 DEF Descriptors, TypeOK, SocketsTypeOK
<1>6. FreshEvents' /\ Registered' /\ WriteInterest' /\ Doomed'
  BY <1>2 DEF FreshEvents, Registered, WriteInterest, Doomed
<1> QED  BY <1>1, <1>4, <1>5, <1>6

-----------------------------------------------------------------------------
(* The steps of the server: types *)

\* What epoll_wait() reports are events.
LEMMA EventType ==
  ASSUME TypeOK, Descriptors
  PROVE  Ready \subseteq Event
<1>1. \A fd \in handlers : conn[fd] \in Clients /\ fd \in AllFds /\ MaskOf(fd) \in SUBSET {"IN", "OUT", "HUP"}
  BY DEF TypeOK, SocketsTypeOK, ServerTypeOK, Descriptors, AllFds, MaskOf
<1>2. ListenFd \in AllFds /\ {"IN"} \in SUBSET {"IN", "OUT", "HUP"}
  BY DEF AllFds
<1> QED  BY <1>1, <1>2 DEF Ready, Event

\* The connection that is being served.
LEMMA Served ==
  ASSUME TypeOK, Descriptors, pc \in {"read", "drive", "flush"}
  PROVE  cur \in Fds /\ cur \in handlers /\ conn[cur] \in Clients
BY DEF TypeOK, SocketsTypeOK, ServerTypeOK, Descriptors

\* What output writes keeps its type and the limit of the write buffers.
OutputTypeOK ==
  /\ write_buf \in [Fds -> Seq(Cell)]
  /\ \A fd \in Fds : Len(write_buf[fd]) <= MaxWrite
  /\ interest \in [Fds -> SUBSET {"IN", "OUT"}]
  /\ pending_closes \in SUBSET Fds
  /\ lost \in SUBSET Clients

\* broadcast_ws_binary(): append_outgoing() keeps every write buffer within its limit.
LEMMA OutputType ==
  ASSUME TypeOK, Descriptors, cur \in handlers,
         NEW m \in Message, NEW S \in SUBSET handlers, Output(m, S)
  PROVE  OutputTypeOK'
<1> DEFINE T == {cur} \cup S
<1>1. T \subseteq Fds /\ \A fd \in T : conn[fd] \in Clients
  BY DEF TypeOK, SocketsTypeOK, ServerTypeOK, Descriptors
<1>2. ASSUME NEW fd \in Fds
      PROVE  Appended(T, m)[fd] \in Seq(Cell) /\ Len(Appended(T, m)[fd]) <= MaxWrite
  <2>1. write_buf[fd] \in Seq(Cell) /\ Len(write_buf[fd]) <= MaxWrite
    BY DEF TypeOK, ServerTypeOK
  <2>2. CASE fd \in T /\ Fits(fd, m)
    <3>1. Appended(T, m)[fd] = write_buf[fd] \o Cells(m)
      BY <2>2 DEF Appended
    <3>2. Cells(m) \in Seq(Cell) /\ Len(Cells(m)) = Size[m.kind]
      BY CellsType
    <3>3. /\ write_buf[fd] \o Cells(m) \in Seq(Cell)
          /\ Len(write_buf[fd] \o Cells(m)) = Len(write_buf[fd]) + Size[m.kind]
      BY <2>1, <3>2, ConcatProperties
    <3> QED  BY <2>2, <3>1, <3>3 DEF Fits
  <2> QED  BY <2>1, <2>2 DEF Appended
<1>3. write_buf' = Appended(T, m)
  BY DEF Output
<1>4. write_buf' \in [Fds -> Seq(Cell)] /\ \A fd \in Fds : Len(write_buf'[fd]) <= MaxWrite
  BY <1>2, <1>3 DEF Appended
<1>5. interest' \in [Fds -> SUBSET {"IN", "OUT"}]
  BY DEF Output, EventsFor, TypeOK, ServerTypeOK
<1>6. pending_closes' \in SUBSET Fds /\ lost' \in SUBSET Clients
  BY <1>1 DEF Output, Refused, TypeOK, ServerTypeOK
<1> QED  BY <1>4, <1>5, <1>6 DEF OutputTypeOK

\* What drive_io() finds when it consumes the message at the head of read_buf.
LEMMA ConsumeType ==
  ASSUME TypeOK, Descriptors, pc = "drive", Whole(read_buf[cur]), Consume
  PROVE  /\ cur \in Fds /\ cur \in handlers /\ conn[cur] \in Clients
         /\ First(read_buf[cur]) \in Message
         /\ read_buf' \in [Fds -> Seq(Cell)]
         /\ \A fd \in Fds : Len(read_buf'[fd]) <= MaxRead
<1>1. cur \in Fds /\ cur \in handlers /\ conn[cur] \in Clients
  BY Served
<1>2. read_buf \in [Fds -> Seq(Cell)] /\ \A fd \in Fds : Len(read_buf[fd]) <= MaxRead
  BY DEF TypeOK, ServerTypeOK
<1>3. First(read_buf[cur]) \in Message
  BY <1>1, <1>2, FirstType DEF Whole
<1>4. Rest(read_buf[cur]) \in Seq(Cell) /\ Len(Rest(read_buf[cur])) <= Len(read_buf[cur])
  BY <1>1, <1>2, RestType
<1>5. Len(read_buf[cur]) \in Nat /\ Len(Rest(read_buf[cur])) \in Nat
  BY <1>1, <1>2, <1>4, LenProperties
<1> QED  BY <1>1, <1>2, <1>3, <1>4, <1>5, ReactorAssumption DEF Consume

\* The frames and the handshake that drive_io() answers keep the types.
LEMMA DriveType ==
  ASSUME TypeOK, Descriptors, Registered, HandshakeDone \/ FrameText \/ FramePing
  PROVE  OutputTypeOK'
<1>1. pc = "drive" /\ Whole(read_buf[cur]) /\ Consume
  BY DEF HandshakeDone, HandshakeWhole, FrameText, FramePing, FrameOf, Driving
<1>2. cur \in handlers /\ conn[cur] \in Clients /\ First(read_buf[cur]) \in Message
  BY <1>1, ConsumeType
<1>3. CASE HandshakeDone
  BY <1>2, <1>3, ReplyType, OutputType DEF HandshakeDone
<1>4. CASE FrameText
  BY <1>2, <1>4, OutputType DEF FrameText, Registered
<1>5. CASE FramePing
  BY <1>2, <1>5, ReplyType, OutputType DEF FramePing
<1> QED  BY <1>3, <1>4, <1>5

\* The lesser of two numbers.
LEMMA LesserType ==
  ASSUME NEW a \in Nat, NEW b \in Nat
  PROVE  Lesser(a, b) \in Nat /\ Lesser(a, b) <= a /\ Lesser(a, b) <= b
BY DEF Lesser

\* flush_writes(): what is sent leaves the buffer, and what the kernel holds stays within its window.
LEMMA SendType ==
  ASSUME TypeOK, Descriptors, SendSome
  PROVE  /\ cur \in Fds /\ conn[cur] \in Clients
         /\ unread' \in [Clients -> 0..SendWindow]
         /\ got' \in [Clients -> Seq(Cell)]
         /\ write_buf' \in [Fds -> Seq(Cell)]
         /\ \A fd \in Fds : Len(write_buf'[fd]) <= MaxWrite
<1> DEFINE n == Lesser(SendSpace(conn[cur]), Len(write_buf[cur]))
           front == SubSeq(write_buf[cur], 1, n)
           rest == SubSeq(write_buf[cur], n + 1, Len(write_buf[cur]))
<1>1. cur \in Fds /\ conn[cur] \in Clients
  BY Served DEF SendSome
<1>2. /\ unread \in [Clients -> 0..SendWindow]
      /\ got \in [Clients -> Seq(Cell)]
      /\ write_buf \in [Fds -> Seq(Cell)]
      /\ \A fd \in Fds : Len(write_buf[fd]) <= MaxWrite
      /\ SendWindow \in Nat /\ MaxWrite \in Nat
  BY SocketsAssumption, ReactorAssumption DEF TypeOK, SocketsTypeOK, ServerTypeOK
<1>3. /\ SendSpace(conn[cur]) \in Nat
      /\ unread[conn[cur]] + SendSpace(conn[cur]) = SendWindow
  BY <1>1, <1>2 DEF SendSpace
<1>4. Len(write_buf[cur]) \in Nat
  BY <1>1, <1>2, LenProperties
<1>5. n \in Nat /\ n <= SendSpace(conn[cur]) /\ n <= Len(write_buf[cur])
  BY <1>3, <1>4, LesserType
<1> HIDE DEF n
<1>6. /\ front \in Seq(Cell) /\ Len(front) = n
      /\ rest \in Seq(Cell) /\ Len(rest) = Len(write_buf[cur]) - n
  BY <1>1, <1>2, <1>5, PieceType
<1>7. got[conn[cur]] \o front \in Seq(Cell)
  BY <1>1, <1>2, <1>6, ConcatProperties
<1>8. /\ got' = [got EXCEPT ![conn[cur]] = @ \o front]
      /\ unread' = [unread EXCEPT ![conn[cur]] = @ + Len(front)]
      /\ write_buf' = [write_buf EXCEPT ![cur] = rest]
  BY DEF SendSome, SysSend, n
<1>9. unread[conn[cur]] + Len(front) \in 0..SendWindow
  BY <1>1, <1>2, <1>3, <1>5, <1>6
<1>10. Len(rest) <= MaxWrite
  BY <1>1, <1>2, <1>4, <1>5, <1>6
<1> HIDE DEF front, rest
<1> QED  BY <1>1, <1>2, <1>6, <1>7, <1>8, <1>9, <1>10

\* Types, over a step of the server.
LEMMA ServerType ==
  ASSUME TypeOK, Descriptors, FreshEvents, Registered, ServerStep
  PROVE  TypeOK'
<1>a. ASSUME pc = "drive", Whole(read_buf[cur]), Consume
      PROVE  /\ cur \in Fds /\ conn[cur] \in Clients
             /\ First(read_buf[cur]) \in Message
             /\ read_buf' \in [Fds -> Seq(Cell)]
             /\ \A fd \in Fds : Len(read_buf'[fd]) <= MaxRead
  BY <1>a, ConsumeType
<1>b. HandshakeDone \/ FrameText \/ FramePing => OutputTypeOK'
  BY DriveType
<1>c. SendSome => /\ cur \in Fds /\ conn[cur] \in Clients
                  /\ unread' \in [Clients -> 0..SendWindow]
                  /\ got' \in [Clients -> Seq(Cell)]
                  /\ write_buf' \in [Fds -> Seq(Cell)]
                  /\ \A fd \in Fds : Len(write_buf'[fd]) <= MaxWrite
  BY SendType
<1> USE DEF TypeOK, SocketsTypeOK, ServerTypeOK, table, history, sockets, QueueClose
<1>1. CASE EpollWait
  BY <1>1, EventType DEF EpollWait
<1>2. ASSUME NEW e \in batch, ListenEvent(e)
      PROVE  TypeOK'
  BY <1>2 DEF ListenEvent, TakeEvent
<1>3. ASSUME NEW e \in batch, HangupEvent(e)
      PROVE  TypeOK'
  BY <1>3 DEF HangupEvent, TakeEvent, FreshEvents
<1>4. ASSUME NEW e \in batch, InEvent(e) \/ OutEvent(e)
      PROVE  TypeOK'
  BY <1>4 DEF InEvent, OutEvent, Enter, TakeEvent, AllFds
<1>5. CASE EndBatch
  <2>1. <<>> \in Seq(Cell) /\ Len(<<>>) = 0 /\ MaxRead \in Nat /\ MaxWrite \in Nat
    BY EmptySeq, ReactorAssumption
  <2>2. SocketsTypeOK'
    BY <1>5, <2>1, SocketsAssumption DEF EndBatch, ProcessCloseQueue, SysClose
  <2>3. /\ read_buf' \in [Fds -> Seq(Cell)] /\ write_buf' \in [Fds -> Seq(Cell)]
        /\ \A fd \in Fds : Len(read_buf'[fd]) <= MaxRead /\ Len(write_buf'[fd]) <= MaxWrite
    BY <1>5, <2>1 DEF EndBatch, ProcessCloseQueue
  <2>4. interest' \in [Fds -> SUBSET {"IN", "OUT"}] /\ status' \in [Fds -> {"UNCONNECT", "HANDSHARKED"}]
    BY <1>5 DEF EndBatch, ProcessCloseQueue
  <2> QED  BY <1>5, <2>2, <2>3, <2>4 DEF EndBatch, ProcessCloseQueue, Unregister, AllFds
<1>6. CASE AcceptOne
  <2>1. <<>> \in Seq(Cell) /\ Len(<<>>) = 0 /\ MaxRead \in Nat /\ MaxWrite \in Nat
    BY EmptySeq, ReactorAssumption
  <2>2. PICK fd \in Fds :
          /\ SysAccept(fd)
          /\ handlers' = handlers \cup {fd}
          /\ interest' = [interest EXCEPT ![fd] = {"IN"}]
          /\ status' = [status EXCEPT ![fd] = "UNCONNECT"]
          /\ read_buf' = [read_buf EXCEPT ![fd] = <<>>]
          /\ write_buf' = [write_buf EXCEPT ![fd] = <<>>]
    BY <1>6 DEF AcceptOne
  <2>3. Head(backlog) \in Clients /\ Tail(backlog) \in Seq(Clients)
    BY <2>2, HeadTailProperties DEF SysAccept
  <2>4. SocketsTypeOK'
    BY <2>2, <2>3 DEF SysAccept
  <2>5. interest' \in [Fds -> SUBSET {"IN", "OUT"}]
    BY <2>2
  <2>6. /\ read_buf' \in [Fds -> Seq(Cell)] /\ write_buf' \in [Fds -> Seq(Cell)]
        /\ \A f \in Fds : Len(read_buf'[f]) <= MaxRead /\ Len(write_buf'[f]) <= MaxWrite
    BY <2>1, <2>2
  <2> QED  BY <1>6, <2>2, <2>4, <2>5, <2>6 DEF AcceptOne
<1>7. CASE AcceptNone
  BY <1>7 DEF AcceptNone
<1>8. CASE ReadData \/ ReadOverflow
  <2>1. cur \in Fds /\ conn[cur] \in Clients
    BY <1>8, Served DEF ReadData, ReadOverflow
  <2>2. Chunk \in Nat /\ Chunk <= Len(toServer[conn[cur]])
    BY <2>1, LenProperties, ReactorAssumption DEF Chunk, Lesser
  <2>3. /\ SubSeq(toServer[conn[cur]], 1, Chunk) \in Seq(Cell)
        /\ Len(SubSeq(toServer[conn[cur]], 1, Chunk)) = Chunk
        /\ SubSeq(toServer[conn[cur]], Chunk + 1, Len(toServer[conn[cur]])) \in Seq(Cell)
    BY <2>1, <2>2, PieceType
  <2>4. /\ read_buf[cur] \o SubSeq(toServer[conn[cur]], 1, Chunk) \in Seq(Cell)
        /\ Len(read_buf[cur] \o SubSeq(toServer[conn[cur]], 1, Chunk)) = Len(read_buf[cur]) + Chunk
    BY <2>1, <2>3, ConcatProperties
  <2>5. CASE ReadData
    BY <2>1, <2>3, <2>4, <2>5 DEF ReadData, SysRead
  <2>6. CASE ReadOverflow
    BY <2>1, <2>3, <2>6 DEF ReadOverflow, SysRead
  <2> QED  BY <1>8, <2>5, <2>6
<1>9. CASE ReadEnd \/ ReadAgain
  BY <1>9, Served DEF ReadEnd, ReadAgain
<1>10. CASE HandshakeTooLong \/ HandshakeIncomplete \/ FrameIncomplete \/ FrameBroken
  BY <1>10, Served DEF HandshakeTooLong, HandshakeIncomplete, FrameIncomplete, FrameBroken, Driving
<1>11. CASE HandshakeRejected \/ FrameClose \/ FrameIgnored
  BY <1>11, <1>a DEF HandshakeRejected, FrameClose, FrameIgnored, HandshakeWhole, FrameOf, Driving
<1>12. CASE HandshakeDone
  BY <1>12, <1>a, <1>b, LenProperties DEF HandshakeDone, HandshakeWhole, Driving, OutputTypeOK
<1>13. CASE FrameText
  BY <1>13, <1>a, <1>b, AppendProperties DEF FrameText, FrameOf, Driving, OutputTypeOK
<1>14. CASE FramePing
  BY <1>14, <1>a, <1>b DEF FramePing, FrameOf, Driving, OutputTypeOK
<1>15. CASE SendSome
  BY <1>15, <1>c DEF SendSome, SysSend
<1>16. CASE SendStop \/ SendError
  <2>1. cur \in Fds
    BY <1>16, Served DEF SendStop, SendError
  <2>2. EventsFor(write_buf[cur]) \in SUBSET {"IN", "OUT"}
    BY DEF EventsFor
  <2>3. interest' = [interest EXCEPT ![cur] = EventsFor(write_buf[cur])]
    BY <1>16 DEF SendStop, SendError, Refresh
  <2>4. interest' \in [Fds -> SUBSET {"IN", "OUT"}]
    BY <2>2, <2>3
  <2> QED  BY <1>16, <2>1, <2>4 DEF SendStop, SendError
<1> QED
  BY <1>1, <1>2, <1>3, <1>4, <1>5, <1>6, <1>7, <1>8, <1>9, <1>10, <1>11, <1>12,
     <1>13, <1>14, <1>15, <1>16 DEF ServerStep, Dispatch

-----------------------------------------------------------------------------
(* The steps of the server: the invariants one by one *)

\* The steps that leave the descriptors, the table and the histories alone.
Aside ==
  /\ pc # "flush"
  /\ UNCHANGED <<backlog, peer, conn, handlers, status, interest, write_buf, ws_clients, log, joined, lost>>

\* The steps of the server by what they touch: those that close, accept, answer or send, and the rest.
LEMMA ServerSplit ==
  ASSUME ServerStep
  PROVE  \/ EndBatch \/ AcceptOne
         \/ HandshakeDone \/ FrameText \/ FramePing
         \/ SendSome \/ SendStop \/ SendError
         \/ Aside /\ EpollWait
         \/ Aside /\ UNCHANGED pending_closes /\ \E e \in batch : ListenEvent(e) \/ InEvent(e) \/ OutEvent(e)
         \/ Aside /\ \E e \in batch : HangupEvent(e)
         \/ Aside /\ UNCHANGED <<batch, pending_closes>> /\ pc' = "event"
         \/ Aside /\ UNCHANGED <<batch, pending_closes, cur>> /\ pc' \in {"drive", pc} /\ pc \in {"read", "drive"}
         \/ Aside /\ UNCHANGED batch /\ QueueClose(cur) /\ UNCHANGED cur
            /\ pc \in {"read", "drive"} /\ pc' \in {"event", pc}
<1> USE DEF Aside, table, history, sockets
<1>1. CASE EpollWait
  BY <1>1 DEF EpollWait
<1>2. CASE Dispatch
  BY <1>2 DEF Dispatch, ListenEvent, InEvent, OutEvent, HangupEvent, Enter, TakeEvent
<1>3. CASE AcceptNone \/ HandshakeIncomplete \/ FrameIncomplete
  BY <1>3 DEF AcceptNone, HandshakeIncomplete, FrameIncomplete, Driving
<1>4. CASE ReadData \/ ReadAgain \/ FrameIgnored
  BY <1>4 DEF ReadData, SysRead, ReadAgain, FrameIgnored, FrameOf, Driving
<1>5. CASE \/ ReadOverflow \/ ReadEnd \/ HandshakeTooLong
           \/ HandshakeRejected \/ FrameBroken \/ FrameClose
  BY <1>5 DEF ReadOverflow, SysRead, ReadEnd, HandshakeTooLong, HandshakeRejected, HandshakeWhole,
              FrameBroken, FrameClose, FrameOf, Driving
<1> QED  BY <1>1, <1>2, <1>3, <1>4, <1>5 DEF ServerStep

\* epoll_wait(): every event it reports is of a handler that exists.
LEMMA WaitInv ==
  ASSUME IInv, Aside, EpollWait
  PROVE  OtherInv'
<1> USE DEF IInv, OtherInv
<1>1. Waiting' /\ Descriptors' /\ Registered' /\ WriteInterest' /\ Doomed'
  BY DEF EpollWait, Aside, Waiting, Descriptors, Registered, WriteInterest, Doomed
<1>2. FreshEvents'
  <2>1. batch' \subseteq Ready /\ pc' = "event" /\ UNCHANGED <<handlers, conn>>
    BY DEF EpollWait, Aside
  <2>2. \A e \in Ready : e.fd # ListenFd => e.fd \in handlers /\ conn[e.fd] = e.conn
    BY DEF Ready
  <2>3. \A e, f \in Ready : e.fd = f.fd => e = f
    <3>1. \A e \in Ready :
            IF e.fd \in handlers
            THEN e = [fd |-> e.fd, conn |-> conn[e.fd], mask |-> MaskOf(e.fd)]
            ELSE e = [fd |-> ListenFd, conn |-> NoClient, mask |-> {"IN"}]
      BY SocketsAssumption DEF Ready, TypeOK, ServerTypeOK
    <3> QED  BY <3>1
  <2> QED  BY <2>1, <2>2, <2>3 DEF FreshEvents
<1> QED  BY <1>1, <1>2

\* The loop goes on with an event of a handler or of the listening socket.
LEMMA EventInv ==
  ASSUME IInv, Aside, UNCHANGED pending_closes,
         NEW e \in batch, ListenEvent(e) \/ InEvent(e) \/ OutEvent(e)
  PROVE  OtherInv'
<1> USE DEF IInv, OtherInv
<1>1. /\ pc = "event" /\ batch' = batch \ {e}
      /\ \/ pc' \in {"event", "accept"}
         \/ pc' \in {"read", "flush"} /\ e.fd \in handlers /\ cur' = e.fd
  BY DEF ListenEvent, InEvent, OutEvent, Enter, TakeEvent
<1>2. Waiting' /\ Descriptors' /\ Registered' /\ WriteInterest' /\ Doomed'
  BY <1>1 DEF Aside, Waiting, Descriptors, Registered, WriteInterest, Doomed
<1>3. FreshEvents'
  BY <1>1 DEF Aside, FreshEvents
<1> QED  BY <1>2, <1>3

\* A hangup only queues a close.
LEMMA HangupInv ==
  ASSUME IInv, Aside, NEW e \in batch, HangupEvent(e)
  PROVE  OtherInv'
<1> USE DEF IInv, OtherInv, HangupEvent, TakeEvent, QueueClose, Aside
<1>1. e.fd \in handlers
  BY DEF FreshEvents
<1>2. Waiting' /\ Registered' /\ WriteInterest' /\ Doomed'
  BY DEF Waiting, Registered, WriteInterest, Doomed
<1>3. Descriptors' /\ FreshEvents'
  BY <1>1 DEF Descriptors, FreshEvents
<1> QED  BY <1>2, <1>3

\* Reading and frames without an answer change nothing but the close queue.
LEMMA ServeInv ==
  ASSUME IInv, Aside, UNCHANGED batch,
         \/ UNCHANGED pending_closes /\ pc' = "event"
         \/ UNCHANGED <<pending_closes, cur>> /\ pc' \in {"drive", pc} /\ pc \in {"read", "drive"}
         \/ QueueClose(cur) /\ UNCHANGED cur /\ pc \in {"read", "drive"} /\ pc' \in {"event", pc}
  PROVE  OtherInv'
<1> USE DEF IInv, OtherInv, QueueClose, Aside
<1>1. Waiting' /\ Registered' /\ WriteInterest' /\ Doomed'
  BY DEF Waiting, Registered, WriteInterest, Doomed
<1>2. Descriptors' /\ FreshEvents'
  BY DEF Descriptors, FreshEvents
<1> QED  BY <1>1, <1>2

\* accept() returns a descriptor that no handler, event or queued close is about.
LEMMA AcceptInv ==
  ASSUME IInv, AcceptOne
  PROVE  OtherInv'
<1> USE DEF IInv, OtherInv
<1> DEFINE c == Head(backlog)
<1>1. PICK fd \in Fds :
        /\ SysAccept(fd)
        /\ handlers' = handlers \cup {fd}
        /\ interest' = [interest EXCEPT ![fd] = {"IN"}]
        /\ status' = [status EXCEPT ![fd] = "UNCONNECT"]
        /\ write_buf' = [write_buf EXCEPT ![fd] = <<>>]
  BY DEF AcceptOne
<1>2. /\ pc = "accept" /\ UNCHANGED <<pc, batch, ws_clients, pending_closes, lost>>
      /\ conn[fd] = NoClient /\ conn' = [conn EXCEPT ![fd] = c]
      /\ peer' = [peer EXCEPT ![c] = "open"]
      /\ backlog' = Tail(backlog) /\ backlog # <<>>
  BY <1>1 DEF AcceptOne, SysAccept, FreeFds, history
<1>3. /\ Len(backlog) \in Nat /\ Len(backlog) > 0 /\ Len(Tail(backlog)) = Len(backlog) - 1
      /\ c \in Clients /\ c = backlog[1]
      /\ \A i \in 1..Len(Tail(backlog)) : Tail(backlog)[i] = backlog[i + 1]
  BY <1>2, HeadTailProperties, LenProperties, EmptySeq DEF TypeOK, SocketsTypeOK
<1>4. peer[c] = "queued"
  BY <1>3 DEF Waiting
<1>5. fd \notin handlers
  BY <1>2 DEF Descriptors
<1>6. Waiting'
  <2>1. \A i \in 1..Len(Tail(backlog)) : i + 1 \in 1..Len(backlog) /\ i + 1 # 1
    BY <1>3
  <2>2. \A i \in 1..Len(Tail(backlog)) : Tail(backlog)[i] # c /\ peer[Tail(backlog)[i]] = "queued"
    BY <1>3, <2>1 DEF Waiting
  <2>3. \A i, j \in 1..Len(Tail(backlog)) : Tail(backlog)[i] = Tail(backlog)[j] => i = j
    BY <1>3, <2>1 DEF Waiting
  <2>4. \A d \in Clients : d # c => peer'[d] = peer[d]
    BY <1>2 DEF TypeOK, SocketsTypeOK
  <2>5. \A i \in 1..Len(Tail(backlog)) : Tail(backlog)[i] \in Clients
    BY <1>3, <2>1, ElementOfSeq DEF TypeOK, SocketsTypeOK
  <2>6. \A d \in lost : d # c
    BY <1>4 DEF Waiting
  <2>7. \A d \in lost' : peer'[d] \in {"open", "closed"}
    BY <1>2, <2>4, <2>6 DEF Waiting, TypeOK, ServerTypeOK
  <2> QED  BY <1>2, <2>2, <2>3, <2>4, <2>5, <2>7 DEF Waiting
<1>7. Descriptors'
  <2>1. \A g \in handlers : conn[g] # c
    BY <1>3, <1>4 DEF Descriptors
  <2>a. conn'[fd] = c /\ \A g \in Fds : g # fd => conn'[g] = conn[g]
    BY <1>2 DEF TypeOK, SocketsTypeOK
  <2>b. handlers \subseteq Fds /\ \A f, g \in handlers : conn[f] = conn[g] => f = g
    BY DEF Descriptors
  <2>2. handlers' = {f \in Fds : conn'[f] # NoClient}
    <3>1. c # NoClient
      BY <1>3, SocketsAssumption
    <3> QED  BY <1>1, <2>a, <3>1 DEF Descriptors
  <2>3. \A f \in Fds : f \in handlers' <=> "IN" \in interest'[f]
    BY <1>1 DEF Descriptors, TypeOK, ServerTypeOK
  <2>4. \A f, g \in handlers' : conn'[f] = conn'[g] => f = g
    BY <1>1, <1>5, <2>1, <2>a, <2>b
  <2>5. \A d \in Clients : peer'[d] = "open" <=> \E f \in handlers' : conn'[f] = d
    <3>1. \A d \in Clients : peer'[d] = "open" <=> d = c \/ peer[d] = "open"
      BY <1>2, <1>3 DEF TypeOK, SocketsTypeOK
    <3>2. \A d \in Clients : (\E f \in handlers' : conn'[f] = d) <=> d = c \/ \E f \in handlers : conn[f] = d
      BY <1>1, <1>5, <2>a, <2>b
    <3> QED  BY <3>1, <3>2 DEF Descriptors
  <2> QED  BY <1>1, <1>2, <2>2, <2>3, <2>4, <2>5 DEF Descriptors
<1>8. FreshEvents' /\ Registered' /\ WriteInterest'
  <2>1. \A g \in handlers : /\ g \in Fds /\ g # fd /\ conn'[g] = conn[g] /\ status'[g] = status[g]
                            /\ interest'[g] = interest[g] /\ write_buf'[g] = write_buf[g]
    BY <1>1, <1>2, <1>5 DEF TypeOK, SocketsTypeOK, ServerTypeOK
  <2>2. interest'[fd] = {"IN"} /\ write_buf'[fd] = <<>> /\ status'[fd] = "UNCONNECT"
    BY <1>1 DEF TypeOK, ServerTypeOK
  <2>3. FreshEvents'
    BY <1>1, <1>2, <2>1 DEF FreshEvents
  <2>4. Registered'
    BY <1>1, <1>2, <1>5, <2>1, <2>2 DEF Registered
  <2>5. WriteInterest'
    BY <1>1, <1>2, <2>1, <2>2 DEF WriteInterest
  <2> QED  BY <2>3, <2>4, <2>5
<1>9. Doomed'
  <2>1. c \notin lost
    BY <1>4 DEF Waiting
  <2>2. conn'[fd] = c /\ \A g \in handlers : conn'[g] = conn[g]
    BY <1>2, <1>5 DEF TypeOK, SocketsTypeOK, ServerTypeOK
  <2>3. lost' = lost /\ pending_closes' = pending_closes /\ handlers' = handlers \cup {fd}
    BY <1>1, <1>2
  <2>4. \A g \in handlers : conn[g] \in lost => g \in pending_closes
    BY DEF Doomed
  <2> HIDE DEF IInv, OtherInv, c
  <2> QED  BY <2>1, <2>2, <2>3, <2>4 DEF Doomed
<1> QED  BY <1>6, <1>7, <1>8, <1>9

\* process_close_queue() takes what it closes out of every table at once, and no event is left.
LEMMA EndBatchInv ==
  ASSUME IInv, EndBatch
  PROVE  OtherInv'
<1> USE DEF IInv, OtherInv
<1> DEFINE gone == pending_closes
           ended == {conn[fd] : fd \in gone}
<1>1. gone \subseteq handlers /\ handlers \subseteq Fds /\ \A fd \in handlers : conn[fd] \in Clients
  BY DEF Descriptors, TypeOK, SocketsTypeOK, ServerTypeOK
<1>2. /\ pc' = "wait" /\ batch' = {} /\ pending_closes' = {} /\ UNCHANGED <<backlog, lost>>
      /\ handlers' = handlers \ gone
      /\ ws_clients' = ws_clients \ gone
      /\ conn' = [fd \in Fds |-> IF fd \in gone THEN NoClient ELSE conn[fd]]
      /\ peer' = [d \in Clients |-> IF d \in ended THEN "closed" ELSE peer[d]]
      /\ interest' = [fd \in Fds |-> IF fd \in gone THEN {} ELSE interest[fd]]
      /\ status' = [fd \in Fds |-> IF fd \in gone THEN "UNCONNECT" ELSE status[fd]]
      /\ write_buf' = [fd \in Fds |-> IF fd \in gone THEN <<>> ELSE write_buf[fd]]
  <2>1. Closing = gone /\ {conn[fd] : fd \in Closing} \ {NoClient} = ended
    BY <1>1, SocketsAssumption DEF Closing
  <2> HIDE DEF gone, ended
  <2> QED  BY <2>1 DEF EndBatch, ProcessCloseQueue, SysClose, Unregister, history, gone
<1>3. ended \subseteq Clients /\ \A d \in ended : peer[d] = "open"
  BY <1>1 DEF Descriptors
<1> HIDE DEF gone
<1>4. Waiting'
  <2>1. \A i \in 1..Len(backlog) : backlog[i] \in Clients /\ backlog[i] \notin ended
    BY <1>3, ElementOfSeq DEF Waiting, TypeOK, SocketsTypeOK
  <2> QED  BY <1>2, <2>1 DEF Waiting, TypeOK, ServerTypeOK
<1>5. Descriptors'
  <2>1. handlers' = {fd \in Fds : conn'[fd] # NoClient}
    BY <1>1, <1>2 DEF Descriptors
  <2>2. \A fd \in Fds : fd \in handlers' <=> "IN" \in interest'[fd]
    BY <1>1, <1>2 DEF Descriptors
  <2>3. \A f, g \in handlers' : conn'[f] = conn'[g] => f = g
    BY <1>1, <1>2 DEF Descriptors
  <2>4. \A fd \in handlers' : conn'[fd] = conn[fd] /\ conn[fd] \notin ended
    BY <1>1, <1>2 DEF Descriptors
  <2>5. \A d \in Clients : peer'[d] = "open" <=> \E fd \in handlers' : conn'[fd] = d
    BY <1>1, <1>2, <1>3, <2>4 DEF Descriptors
  <2> QED  BY <1>2, <2>1, <2>2, <2>3, <2>5 DEF Descriptors
<1>6. FreshEvents' /\ Registered' /\ WriteInterest'
  BY <1>1, <1>2 DEF FreshEvents, Registered, WriteInterest, EndBatch
<1>7. Doomed'
  BY <1>1, <1>2 DEF Doomed, gone
<1> QED  BY <1>4, <1>5, <1>6, <1>7

\* Output keeps the masks in step with the buffers, and queues for closing what
\* it has dropped a frame for.
LEMMA OutputInv ==
  ASSUME IInv, pc = "drive", NEW m \in Message, NEW S \in SUBSET handlers, Output(m, S),
         UNCHANGED <<pc, cur, handlers, conn, peer, backlog>>
  PROVE  WriteInterest' /\ Doomed' /\ Waiting' /\ Descriptors'
<1> USE DEF IInv
<1> DEFINE T == {cur} \cup S
<1>1. /\ cur \in handlers /\ T \subseteq handlers /\ handlers \subseteq Fds
      /\ \A fd \in handlers : conn[fd] \in Clients
  <2>1. cur \in handlers
    BY DEF Descriptors
  <2>2. handlers \subseteq Fds /\ \A fd \in handlers : conn[fd] \in Clients
    BY DEF Descriptors, TypeOK, SocketsTypeOK, ServerTypeOK
  <2> QED  BY <2>1, <2>2
<1>2. /\ write_buf' = Appended(T, m)
      /\ pending_closes' = pending_closes \cup {fd \in T : ~Fits(fd, m)}
      /\ lost' = lost \cup {conn[fd] : fd \in {t \in T : ~Fits(t, m)}}
  BY DEF Output, Refused
<1>3. \A fd \in T : Fits(fd, m) => write_buf'[fd] # <<>>
  <2>1. ASSUME NEW fd \in T, Fits(fd, m)
        PROVE  write_buf[fd] \o Cells(m) # <<>>
    <3>1. write_buf[fd] \in Seq(Cell)
      BY <1>1 DEF TypeOK, ServerTypeOK
    <3>2. Len(write_buf[fd] \o Cells(m)) = Len(write_buf[fd]) + Size[m.kind]
      BY <3>1, CellsType, ConcatProperties
    <3>3. Len(write_buf[fd]) \in Nat /\ Size[m.kind] \in Nat \ {0}
      BY <3>1, CellsType, LenProperties
    <3> QED  BY <3>2, <3>3, EmptySeq
  <2> QED  BY <1>1, <1>2, <2>1 DEF Appended
<1>4. \A fd \in Fds : ~(fd \in T /\ Fits(fd, m)) => write_buf'[fd] = write_buf[fd]
  BY <1>2 DEF Appended
<1>5. \A fd \in Fds :
        interest'[fd] = IF fd \in T /\ Fits(fd, m) /\ (fd = cur \/ write_buf[fd] = <<>>)
                        THEN EventsFor(write_buf'[fd]) ELSE interest[fd]
  BY <1>2 DEF Output, Refreshed, Refused
<1> HIDE DEF T
<1>6. WriteInterest'
  <2>1. ASSUME NEW fd \in handlers
        PROVE  (write_buf'[fd] # <<>> => "OUT" \in interest'[fd])
               /\ ("OUT" \in interest'[fd] => write_buf'[fd] # <<>>)
    <3>1. fd \in Fds
      BY <1>1
    <3>2. write_buf[fd] # <<>> <=> "OUT" \in interest[fd]
      BY DEF WriteInterest
    <3>3. CASE fd \in T /\ Fits(fd, m)
      BY <1>3, <1>5, <3>1, <3>2, <3>3 DEF EventsFor
    <3>4. CASE ~(fd \in T /\ Fits(fd, m))
      BY <1>4, <1>5, <3>1, <3>2, <3>4
    <3> QED  BY <3>3, <3>4
  <2> QED  BY <2>1 DEF WriteInterest
<1>7. Doomed'
  BY <1>1, <1>2 DEF Doomed, Descriptors
<1>8. Waiting'
  BY <1>1, <1>2 DEF Waiting, Descriptors
<1>9. Descriptors'
  <2>1. \A fd \in Fds : "IN" \in interest'[fd] <=> "IN" \in interest[fd]
    BY <1>1, <1>5 DEF EventsFor, Descriptors
  <2>2. pending_closes' \subseteq handlers
    BY <1>1, <1>2 DEF Descriptors
  <2> QED  BY <1>1, <2>1, <2>2 DEF Descriptors
<1> QED  BY <1>6, <1>7, <1>8, <1>9

\* What drive_io() answers is watched for output, and who misses a frame is queued for closing.
LEMMA DriveInv ==
  ASSUME IInv, HandshakeDone \/ FrameText \/ FramePing
  PROVE  OtherInv'
<1> USE DEF IInv
<1>1. pc = "drive" /\ Whole(read_buf[cur]) /\ Consume
  BY DEF HandshakeDone, HandshakeWhole, FrameText, FramePing, FrameOf, Driving
<1>2. cur \in handlers /\ cur \in Fds /\ conn[cur] \in Clients /\ First(read_buf[cur]) \in Message
  BY <1>1, ConsumeType
<1>3. UNCHANGED <<pc, cur, batch, handlers, conn, peer, backlog>>
  BY DEF HandshakeDone, FrameText, FramePing, sockets
<1>4. WriteInterest' /\ Doomed' /\ Waiting' /\ Descriptors'
  <2>1. CASE HandshakeDone
    BY <1>1, <1>2, <1>3, <2>1, ReplyType, OutputInv DEF HandshakeDone
  <2>2. CASE FrameText
    BY <1>1, <1>2, <1>3, <2>2, OutputInv DEF FrameText, Registered
  <2>3. CASE FramePing
    BY <1>1, <1>2, <1>3, <2>3, ReplyType, OutputInv DEF FramePing
  <2> QED  BY <2>1, <2>2, <2>3
<1>5. FreshEvents'
  BY <1>3 DEF FreshEvents
<1>6. Registered'
  <2>1. CASE HandshakeDone
    BY <1>2, <1>3, <2>1 DEF HandshakeDone, Registered, TypeOK, ServerTypeOK, Descriptors
  <2>2. CASE FrameText \/ FramePing
    BY <1>3, <2>2 DEF FrameText, FramePing, Registered
  <2> QED  BY <2>1, <2>2
<1> QED  BY <1>4, <1>5, <1>6 DEF OtherInv

\* flush_writes() stops watching for output exactly when the buffer is empty.
LEMMA FlushInv ==
  ASSUME IInv, SendSome \/ SendStop \/ SendError
  PROVE  OtherInv'
<1> USE DEF IInv
<1>1. pc = "flush" /\ cur \in handlers /\ cur \in Fds
  BY Served DEF SendSome, SendStop, SendError
<1>2. /\ UNCHANGED <<cur, batch, handlers, conn, peer, backlog, status, ws_clients, lost>>
      /\ \A fd \in Fds \ {cur} : write_buf'[fd] = write_buf[fd] /\ interest'[fd] = interest[fd]
      /\ pending_closes' \in {pending_closes, pending_closes \cup {cur}}
  BY DEF SendSome, SysSend, SendStop, SendError, Refresh, QueueClose, sockets, history,
         TypeOK, ServerTypeOK
<1>3. \/ pc' = "flush" /\ interest' = interest /\ write_buf[cur] # <<>>
      \/ pc' = "event" /\ write_buf' = write_buf /\ interest'[cur] = EventsFor(write_buf[cur])
  <2>1. CASE SendSome
    <3>1. SendSpace(conn[cur]) \in Nat /\ Len(write_buf[cur]) \in Nat
      BY <1>1, Served, SocketsAssumption, LenProperties
      DEF SendSpace, Descriptors, TypeOK, SocketsTypeOK, ServerTypeOK
    <3>2. Lesser(SendSpace(conn[cur]), Len(write_buf[cur])) > 0
      BY <2>1 DEF SendSome
    <3>3. Len(write_buf[cur]) > 0
      BY <3>1, <3>2 DEF Lesser
    <3>4. write_buf[cur] # <<>>
      BY <3>3, Len(<<>>) = 0
    <3> QED  BY <2>1, <3>4 DEF SendSome
  <2>2. CASE SendStop \/ SendError
    BY <1>1, <2>2 DEF SendStop, SendError, Refresh, TypeOK, ServerTypeOK
  <2> QED  BY <2>1, <2>2
<1>4. Waiting' /\ FreshEvents' /\ Registered' /\ Doomed'
  BY <1>1, <1>2, <1>3 DEF Waiting, FreshEvents, Registered, Doomed
<1>5. Descriptors'
  <2>1. \A fd \in Fds : "IN" \in interest'[fd] <=> "IN" \in interest[fd]
    BY <1>1, <1>2, <1>3 DEF EventsFor, Descriptors
  <2> QED  BY <1>1, <1>2, <2>1 DEF Descriptors
<1>6. WriteInterest'
  <2>1. \A fd \in handlers : fd \in Fds
    BY DEF Descriptors
  <2>2. CASE pc' = "flush" /\ interest' = interest /\ write_buf[cur] # <<>>
    <3>1. "OUT" \in interest[cur]
      BY <1>1, <2>2 DEF WriteInterest
    <3> QED  BY <1>1, <1>2, <2>1, <2>2, <3>1 DEF WriteInterest
  <2>3. CASE pc' = "event" /\ write_buf' = write_buf /\ interest'[cur] = EventsFor(write_buf[cur])
    BY <1>1, <1>2, <2>1, <2>3 DEF WriteInterest, EventsFor
  <2> QED  BY <1>3, <2>2, <2>3
<1> QED  BY <1>4, <1>5, <1>6 DEF OtherInv

-----------------------------------------------------------------------------
(* The induction *)

\* Every step of the server preserves the invariant.
LEMMA ServerInv ==
  ASSUME IInv, ServerStep
  PROVE  IInv'
<1>1. TypeOK'
  BY ServerType DEF IInv
<1>2. OtherInv'
  <2>1. CASE EndBatch
    BY <2>1, EndBatchInv
  <2>2. CASE AcceptOne
    BY <2>2, AcceptInv
  <2>3. CASE HandshakeDone \/ FrameText \/ FramePing
    BY <2>3, DriveInv
  <2>4. CASE SendSome \/ SendStop \/ SendError
    BY <2>4, FlushInv
  <2>5. CASE Aside /\ EpollWait
    BY <2>5, WaitInv
  <2>6. CASE Aside /\ UNCHANGED pending_closes
             /\ \E e \in batch : ListenEvent(e) \/ InEvent(e) \/ OutEvent(e)
    BY <2>6, EventInv
  <2>7. CASE Aside /\ \E e \in batch : HangupEvent(e)
    BY <2>7, HangupInv
  <2>8. CASE Aside /\ UNCHANGED batch
             /\ \/ UNCHANGED pending_closes /\ pc' = "event"
                \/ UNCHANGED <<pending_closes, cur>> /\ pc' \in {"drive", pc} /\ pc \in {"read", "drive"}
                \/ QueueClose(cur) /\ UNCHANGED cur /\ pc \in {"read", "drive"} /\ pc' \in {"event", pc}
    BY <2>8, ServeInv
  <2> QED  BY <2>1, <2>2, <2>3, <2>4, <2>5, <2>6, <2>7, <2>8, ServerSplit
<1> QED  BY <1>1, <1>2 DEF IInv, OtherInv

\* A step that changes nothing.
LEMMA StutterInv ==
  ASSUME IInv, UNCHANGED vars
  PROVE  IInv'
<1>1. TypeOK' /\ Waiting' /\ Descriptors'
  BY DEF vars, sockets, table, history, IInv, TypeOK, SocketsTypeOK, ServerTypeOK,
         Waiting, Descriptors
<1>2. FreshEvents' /\ Registered' /\ WriteInterest' /\ Doomed'
  BY DEF vars, sockets, table, history, IInv, FreshEvents, Registered, WriteInterest, Doomed
<1> QED  BY <1>1, <1>2 DEF IInv

\* Whatever the clients and the server do, in whatever order, preserves IInv.
THEOREM NextIInv == IInv /\ [Next]_vars => IInv'
<1>1. ASSUME IInv, WorldStep PROVE IInv'
  BY <1>1, ClientInv DEF WorldStep
<1>2. ASSUME IInv, ServerStep PROVE IInv'
  BY <1>2, ServerInv
<1>3. ASSUME IInv, UNCHANGED vars PROVE IInv'
  BY <1>3, StutterInv
<1> QED  BY <1>1, <1>2, <1>3 DEF Next

\* Every reachable state of the server satisfies the inductive invariant.
THEOREM Invariance == Spec => []IInv
BY InitIInv, NextIInv, PTL DEF Spec

\* Every variable keeps its type, and no read or write buffer ever exceeds its
\* limit (append_read, append_outgoing), whatever the clients send.
THEOREM TypeCorrect == Spec => []TypeOK
<1>1. IInv => TypeOK
  BY DEF IInv
<1> QED  BY Invariance, <1>1, PTL

\* The handler table, the epoll set and the open descriptors agree at every
\* step, for any number of clients and descriptors, reused ones included
\* (ctl_event, process_close_queue).
THEOREM DescriptorsAgree == Spec => []Descriptors
<1>1. IInv => Descriptors
  BY DEF IInv
<1> QED  BY Invariance, <1>1, PTL

\* No event of a batch is ever applied to another connection than the one it
\* was reported for (epoll_loop with the deferred closes).
THEOREM EventsAreFresh == Spec => []FreshEvents
<1>1. IInv => FreshEvents
  BY DEF IInv
<1> QED  BY Invariance, <1>1, PTL

\* The broadcast set is exactly the set of upgraded, open connections
\* (register_ws_client, unregister_ws_client).
THEOREM BroadcastSet == Spec => []Registered
<1>1. IInv => Registered
  BY DEF IInv
<1> QED  BY Invariance, <1>1, PTL

\* Output that waits is always watched for, and nothing else is
\* (update_handler_events, broadcast_ws_binary, queue_send).
THEOREM NoLostWakeup == Spec => []WriteInterest
<1>1. IInv => WriteInterest
  BY DEF IInv
<1> QED  BY Invariance, <1>1, PTL

\* A client that has missed a frame is always on its way out
\* (append_outgoing and its callers).
THEOREM GapsAreDoomed == Spec => []Doomed
<1>1. IInv => Doomed
  BY DEF IInv
<1> QED  BY Invariance, <1>1, PTL

-----------------------------------------------------------------------------
(* The stream of a client *)

\* A descriptor is found by the client behind it.
LEMMA Unique ==
  ASSUME NEW H, NEW f, NEW fd \in H, \A g, h \in H : f[g] = f[h] => g = h
  PROVE  (CHOOSE g \in H : f[g] = f[fd]) = fd
OBVIOUS

\* The stream of a client that is served, and of one that is not.
LEMMA StreamOf ==
  ASSUME Descriptors, TypeOK
  PROVE  /\ \A fd \in handlers :
              /\ fd \in Fds /\ conn[fd] \in Clients /\ peer[conn[fd]] = "open"
              /\ Stream(conn[fd]) = got[conn[fd]] \o write_buf[fd]
         /\ \A c \in Clients : peer[c] # "open" => Stream(c) = got[c]
<1>1. ASSUME NEW fd \in handlers
      PROVE  /\ fd \in Fds /\ conn[fd] \in Clients /\ peer[conn[fd]] = "open"
             /\ Stream(conn[fd]) = got[conn[fd]] \o write_buf[fd]
  <2>1. fd \in Fds /\ conn[fd] \in Clients
    BY DEF Descriptors, TypeOK, SocketsTypeOK
  <2>2. peer[conn[fd]] = "open"
    BY <2>1 DEF Descriptors
  <2>3. FdOf(conn[fd]) = fd
    BY Unique DEF FdOf, Descriptors
  <2>. QED
    BY <2>1, <2>2, <2>3 DEF Stream
<1>. QED
  BY <1>1 DEF Stream

\* The same after a step.
LEMMA StreamOfNext ==
  ASSUME Descriptors', TypeOK', NEW c \in Clients
  PROVE  /\ \A fd \in handlers' : conn'[fd] = c =>
              fd \in Fds /\ peer'[c] = "open" /\ Stream(c)' = got'[c] \o write_buf'[fd]
         /\ peer'[c] # "open" => Stream(c)' = got'[c]
<1>1. ASSUME NEW fd \in handlers', conn'[fd] = c
      PROVE  fd \in Fds /\ peer'[c] = "open" /\ Stream(c)' = got'[c] \o write_buf'[fd]
  <2>1. fd \in Fds
    BY DEF Descriptors
  <2>2. peer'[c] = "open"
    BY <1>1 DEF Descriptors
  <2>3. (CHOOSE g \in handlers' : conn'[g] = conn'[fd]) = fd
    BY Unique DEF Descriptors
  <2>4. FdOf(c)' = fd
    BY <1>1, <2>3 DEF FdOf
  <2>. QED
    BY <2>1, <2>2, <2>4 DEF Stream
<1>. QED
  BY <1>1 DEF Stream

\* Cells put together in two ways.
LEMMA Regroup ==
  ASSUME NEW s \in Seq(Cell), NEW t \in Seq(Cell), NEW u \in Seq(Cell)
  PROVE  (s \o t) \o u = s \o (t \o u)
BY ConcatAssociative

\* Streams are sequences of cells.
LEMMA StreamType ==
  ASSUME Descriptors, TypeOK, NEW c \in Clients
  PROVE  Stream(c) \in Seq(Cell) /\ got[c] \in Seq(Cell)
<1>1. got[c] \in Seq(Cell)
  BY DEF TypeOK, SocketsTypeOK
<1>2. CASE peer[c] = "open"
  <2>1. PICK fd \in handlers : conn[fd] = c
    BY <1>2 DEF Descriptors
  <2>2. fd \in Fds /\ Stream(c) = got[c] \o write_buf[fd]
    BY <2>1, StreamOf
  <2>3. write_buf[fd] \in Seq(Cell)
    BY <2>2 DEF TypeOK, ServerTypeOK
  <2>. QED
    BY <1>1, <2>2, <2>3, ConcatProperties
<1>3. CASE peer[c] # "open"
  BY <1>1, <1>3 DEF Stream
<1>. QED
  BY <1>1, <1>2, <1>3

\* A client that is served has a descriptor.
LEMMA OpenHasFd ==
  ASSUME Descriptors, NEW c \in Clients, peer[c] = "open"
  PROVE  \E fd \in handlers : conn[fd] = c
BY DEF Descriptors

-----------------------------------------------------------------------------
(* What a step does to the streams *)

\* Most steps leave them alone.
LEMMA SameStreams ==
  ASSUME IInv, IInv', UNCHANGED <<handlers, conn, got, write_buf>>,
         NEW c \in Clients
  PROVE  Stream(c)' = Stream(c)
<1>1. Descriptors /\ TypeOK /\ Descriptors' /\ TypeOK'
  BY DEF IInv
<1>2. CASE peer[c] = "open"
  <2>1. PICK fd \in handlers : conn[fd] = c
    BY <1>1, <1>2, OpenHasFd
  <2>. QED
    BY <1>1, <2>1, StreamOf, StreamOfNext
<1>3. CASE peer[c] # "open"
  <2>1. peer'[c] # "open"
    BY <1>1, <1>3 DEF Descriptors
  <2>. QED
    BY <1>1, <1>3, <2>1, StreamOf, StreamOfNext
<1>. QED
  BY <1>2, <1>3

\* Output puts the cells of m at the end of the streams it is for, but for those m does not fit in.
LEMMA OutputStreams ==
  ASSUME IInv, IInv', NEW m \in Message, NEW S \in SUBSET handlers, cur \in handlers,
         Output(m, S), UNCHANGED <<handlers, conn, got>>,
         NEW c \in Clients
  PROVE  Stream(c)' = IF \E fd \in {cur} \cup S : conn[fd] = c /\ Fits(fd, m)
                      THEN Stream(c) \o Cells(m) ELSE Stream(c)
<1>1. Descriptors /\ TypeOK /\ Descriptors' /\ TypeOK'
  BY DEF IInv
<1> DEFINE T == {cur} \cup S
<1>2. T \subseteq handlers /\ \A f, g \in handlers : conn[f] = conn[g] => f = g
  BY <1>1 DEF Descriptors
<1>3. write_buf' = Appended(T, m)
  BY DEF Output
<1> HIDE DEF T
<1>4. CASE peer[c] = "open"
  <2>1. PICK fd \in handlers : conn[fd] = c
    BY <1>1, <1>4, OpenHasFd
  <2>2. /\ fd \in Fds /\ Stream(c) = got[c] \o write_buf[fd]
        /\ Stream(c)' = got[c] \o write_buf'[fd]
    BY <1>1, <2>1, StreamOf, StreamOfNext
  <2>3. (\E g \in T : conn[g] = c /\ Fits(g, m)) <=> fd \in T /\ Fits(fd, m)
    BY <1>2, <2>1
  <2>4. write_buf'[fd] = IF fd \in T /\ Fits(fd, m) THEN write_buf[fd] \o Cells(m) ELSE write_buf[fd]
    BY <1>3, <2>2 DEF Appended
  <2>5. (got[c] \o write_buf[fd]) \o Cells(m) = got[c] \o (write_buf[fd] \o Cells(m))
    <3>1. got[c] \in Seq(Cell) /\ write_buf[fd] \in Seq(Cell) /\ Cells(m) \in Seq(Cell)
      BY <1>1, <2>2, CellsType DEF TypeOK, SocketsTypeOK, ServerTypeOK
    <3>. QED
      BY <3>1, Regroup, Zenon
  <2>. QED
    BY <2>2, <2>3, <2>4, <2>5 DEF T
<1>5. CASE peer[c] # "open"
  <2>1. \A fd \in T : conn[fd] # c
    BY <1>1, <1>2, <1>5 DEF Descriptors
  <2>2. peer'[c] # "open"
    BY <1>1, <1>5 DEF Descriptors
  <2>. QED
    BY <1>1, <1>5, <2>1, <2>2, StreamOf, StreamOfNext DEF T
<1>. QED
  BY <1>4, <1>5

\* What send() takes moves from the write buffer to the kernel: the stream is the same.
LEMMA SendStreams ==
  ASSUME IInv, IInv', SendSome
  PROVE  LET n == Lesser(SendSpace(conn[cur]), Len(write_buf[cur])) IN
         /\ cur \in handlers /\ n \in Nat \ {0} /\ n <= Len(write_buf[cur])
         /\ got' = [got EXCEPT ![conn[cur]] = @ \o SubSeq(write_buf[cur], 1, n)]
         /\ \A c \in Clients : Stream(c)' = Stream(c)
<1> DEFINE n == Lesser(SendSpace(conn[cur]), Len(write_buf[cur]))
           buf == write_buf[cur]
           d == conn[cur]
<1>1. Descriptors /\ TypeOK /\ Descriptors' /\ TypeOK'
  BY DEF IInv
<1>2. cur \in handlers /\ cur \in Fds /\ d \in Clients
  BY <1>1, Served DEF SendSome
<1>3. write_buf \in [Fds -> Seq(Cell)] /\ got \in [Clients -> Seq(Cell)] /\ unread[d] \in 0..SendWindow
  BY <1>1, <1>2 DEF TypeOK, SocketsTypeOK, ServerTypeOK
<1>4. n \in Nat \ {0} /\ n <= Len(buf)
  <2>1. SendSpace(d) \in Nat /\ Len(buf) \in Nat
    BY <1>2, <1>3, LenProperties, SocketsAssumption DEF SendSpace
  <2>2. n > 0
    BY DEF SendSome
  <2>3. n \in Nat /\ n <= Len(buf)
    BY <2>1, LesserType
  <2>. QED
    BY <2>2, <2>3
<1> HIDE DEF n
<1>5. /\ got' = [got EXCEPT ![d] = @ \o SubSeq(buf, 1, n)]
      /\ write_buf' = [write_buf EXCEPT ![cur] = SubSeq(buf, n + 1, Len(buf))]
      /\ UNCHANGED <<handlers, conn, peer>>
  BY DEF SendSome, SysSend, n
<1>6. SubSeq(buf, 1, n) \o SubSeq(buf, n + 1, Len(buf)) = buf
  <2>1. buf \in Seq(Cell) /\ Len(buf) \in Nat
    BY <1>2, <1>3, LenProperties
  <2>2. 1 \in 1..Len(buf) + 1 /\ n \in 1 - 1..Len(buf) /\ Len(buf) \in n..Len(buf)
    BY <1>4, <2>1
  <2>3. SubSeq(buf, 1, n) \o SubSeq(buf, n + 1, Len(buf)) = SubSeq(buf, 1, Len(buf))
    BY <2>1, <2>2, ConcatAdjacentSubSeq
  <2>. QED
    BY <2>1, <2>3, SubSeqFull
<1>7. ASSUME NEW c \in Clients PROVE Stream(c)' = Stream(c)
  <2>1. CASE c = d
    <3>1. Stream(c) = got[c] \o buf
      BY <1>1, <1>2, <2>1, StreamOf
    <3>2. Stream(c)' = got'[c] \o write_buf'[cur]
      BY <1>1, <1>2, <1>5, <2>1, StreamOfNext
    <3>3. got'[c] = got[c] \o SubSeq(buf, 1, n) /\ write_buf'[cur] = SubSeq(buf, n + 1, Len(buf))
      BY <1>2, <1>3, <1>5, <2>1
    <3>4. (got[c] \o SubSeq(buf, 1, n)) \o SubSeq(buf, n + 1, Len(buf))
            = got[c] \o (SubSeq(buf, 1, n) \o SubSeq(buf, n + 1, Len(buf)))
      <4>1. SubSeq(buf, 1, n) \in Seq(Cell) /\ SubSeq(buf, n + 1, Len(buf)) \in Seq(Cell)
        BY <1>2, <1>3, <1>4, PieceType
      <4>2. got[c] \in Seq(Cell)
        BY <1>3
      <4>. QED
        BY <4>1, <4>2, Regroup, Zenon
    <3>. QED
      BY <1>6, <3>1, <3>2, <3>3, <3>4
  <2>2. CASE c # d /\ peer[c] = "open"
    <3>1. PICK fd \in handlers : conn[fd] = c
      BY <1>1, <2>2, OpenHasFd
    <3>2. fd # cur /\ fd \in Fds
      BY <1>1, <2>2, <3>1, StreamOf
    <3>3. got'[c] = got[c] /\ write_buf'[fd] = write_buf[fd]
      BY <1>2, <1>3, <1>5, <2>2, <3>2
    <3>4. Stream(c) = got[c] \o write_buf[fd]
      BY <1>1, <3>1, StreamOf
    <3>5. Stream(c)' = got'[c] \o write_buf'[fd]
      BY <1>1, <1>5, <3>1, StreamOfNext
    <3>. QED
      BY <3>3, <3>4, <3>5
  <2>3. CASE c # d /\ peer[c] # "open"
    <3>1. got'[c] = got[c] /\ peer'[c] # "open"
      BY <1>3, <1>5, <2>3
    <3>. QED
      BY <1>1, <2>3, <3>1, StreamOf, StreamOfNext
  <2>. QED
    BY <2>1, <2>2, <2>3
<1>. QED
  BY <1>2, <1>4, <1>5, <1>7 DEF n

\* The close queue takes from the clients it ends what the kernel did not get.
LEMMA EndStreams ==
  ASSUME IInv, IInv', EndBatch
  PROVE  /\ pending_closes \subseteq handlers /\ handlers' = handlers \ pending_closes
         /\ ws_clients' = ws_clients \ pending_closes /\ UNCHANGED <<got, lost>>
         /\ \A fd \in handlers' : conn'[fd] = conn[fd] /\ status'[fd] = status[fd]
                                  /\ read_buf'[fd] = read_buf[fd] /\ write_buf'[fd] = write_buf[fd]
         /\ \A c \in Clients :
              /\ peer'[c] = IF \E fd \in pending_closes : conn[fd] = c THEN "closed" ELSE peer[c]
              /\ Stream(c)' = IF \E fd \in pending_closes : conn[fd] = c THEN got[c] ELSE Stream(c)
<1>1. Descriptors /\ TypeOK /\ Descriptors' /\ TypeOK'
  BY DEF IInv
<1>2. /\ pending_closes \subseteq handlers /\ handlers \subseteq Fds
      /\ \A fd \in handlers : conn[fd] \in Clients
      /\ \A f, g \in handlers : conn[f] = conn[g] => f = g
  <2>1. pending_closes \subseteq handlers /\ \A f, g \in handlers : conn[f] = conn[g] => f = g
    BY <1>1 DEF Descriptors
  <2>2. handlers \subseteq Fds /\ \A fd \in handlers : conn[fd] \in Clients
    BY <1>1, StreamOf
  <2>. QED
    BY <2>1, <2>2
<1>3. Closing = pending_closes /\ {conn[fd] : fd \in Closing} \ {NoClient} = {conn[fd] : fd \in pending_closes}
  <2>1. Closing = pending_closes
    BY <1>2 DEF Closing
  <2>2. \A fd \in pending_closes : conn[fd] # NoClient
    BY <1>2, SocketsAssumption
  <2>. QED
    BY <2>1, <2>2
<1>4. /\ handlers' = handlers \ pending_closes
      /\ ws_clients' = ws_clients \ pending_closes /\ UNCHANGED <<got, lost>>
      /\ conn' = [fd \in Fds |-> IF fd \in pending_closes THEN NoClient ELSE conn[fd]]
      /\ peer' = [c \in Clients |-> IF c \in {conn[fd] : fd \in pending_closes} THEN "closed" ELSE peer[c]]
      /\ status' = [fd \in Fds |-> IF fd \in pending_closes THEN "UNCONNECT" ELSE status[fd]]
      /\ read_buf' = [fd \in Fds |-> IF fd \in pending_closes THEN <<>> ELSE read_buf[fd]]
      /\ write_buf' = [fd \in Fds |-> IF fd \in pending_closes THEN <<>> ELSE write_buf[fd]]
  BY <1>3 DEF EndBatch, ProcessCloseQueue, SysClose, Unregister, history
<1>5. \A fd \in handlers' : conn'[fd] = conn[fd] /\ status'[fd] = status[fd]
                            /\ read_buf'[fd] = read_buf[fd] /\ write_buf'[fd] = write_buf[fd]
  BY <1>2, <1>4
<1>6. ASSUME NEW c \in Clients
      PROVE  /\ peer'[c] = IF \E fd \in pending_closes : conn[fd] = c THEN "closed" ELSE peer[c]
             /\ Stream(c)' = IF \E fd \in pending_closes : conn[fd] = c THEN got[c] ELSE Stream(c)
  <2>1. peer'[c] = IF \E fd \in pending_closes : conn[fd] = c THEN "closed" ELSE peer[c]
    BY <1>4
  <2>2. CASE \E fd \in pending_closes : conn[fd] = c
    <3>1. peer'[c] # "open"
      BY <2>1, <2>2
    <3>. QED
      BY <1>1, <1>4, <2>1, <2>2, <3>1, StreamOfNext
  <2>3. CASE ~(\E fd \in pending_closes : conn[fd] = c) /\ peer[c] = "open"
    <3>1. PICK fd \in handlers : conn[fd] = c
      BY <1>1, <2>3, OpenHasFd
    <3>2. fd \in handlers' /\ conn'[fd] = c /\ write_buf'[fd] = write_buf[fd]
      BY <1>4, <1>5, <2>3, <3>1
    <3>3. Stream(c) = got[c] \o write_buf[fd]
      BY <1>1, <3>1, StreamOf
    <3>4. Stream(c)' = got'[c] \o write_buf'[fd]
      BY <1>1, <3>2, StreamOfNext
    <3>. QED
      BY <1>4, <2>1, <2>3, <3>2, <3>3, <3>4
  <2>4. CASE ~(\E fd \in pending_closes : conn[fd] = c) /\ peer[c] # "open"
    <3>1. peer'[c] # "open"
      BY <2>1, <2>4
    <3>. QED
      BY <1>1, <1>4, <2>1, <2>4, <3>1, StreamOf, StreamOfNext
  <2>. QED
    BY <2>2, <2>3, <2>4
<1>. QED
  BY <1>2, <1>4, <1>5, <1>6

\* What accept() changes.
LEMMA AcceptFacts ==
  ASSUME IInv, AcceptOne
  PROVE  \E fd \in Fds, c \in Clients :
           /\ fd \notin handlers /\ handlers' = handlers \cup {fd}
           /\ peer[c] = "queued" /\ c \notin lost
           /\ conn' = [conn EXCEPT ![fd] = c] /\ peer' = [peer EXCEPT ![c] = "open"]
           /\ status' = [status EXCEPT ![fd] = "UNCONNECT"]
           /\ read_buf' = [read_buf EXCEPT ![fd] = <<>>]
           /\ write_buf' = [write_buf EXCEPT ![fd] = <<>>]
           /\ UNCHANGED <<got, ws_clients, lost, writing, toServer, sent, log, joined>>
<1>1. PICK fd \in Fds :
        /\ SysAccept(fd)
        /\ handlers' = handlers \cup {fd}
        /\ status' = [status EXCEPT ![fd] = "UNCONNECT"]
        /\ read_buf' = [read_buf EXCEPT ![fd] = <<>>]
        /\ write_buf' = [write_buf EXCEPT ![fd] = <<>>]
  BY DEF AcceptOne
<1>2. backlog \in Seq(Clients) /\ backlog # <<>>
  BY <1>1 DEF SysAccept, IInv, TypeOK, SocketsTypeOK
<1>3. PICK c \in Clients : c = Head(backlog) /\ c = backlog[1] /\ 1 \in 1..Len(backlog)
  <2>1. Head(backlog) \in Clients /\ Len(backlog) \in Nat \ {0}
    BY <1>2, HeadTailProperties, EmptySeq
  <2>. QED
    BY <1>2, <2>1
<1>4. peer[c] = "queued" /\ c \notin lost
  BY <1>3 DEF IInv, Waiting
<1>5. fd \notin handlers
  BY <1>1 DEF SysAccept, FreeFds, IInv, Descriptors
<1>6. /\ conn' = [conn EXCEPT ![fd] = c] /\ peer' = [peer EXCEPT ![c] = "open"]
      /\ UNCHANGED <<got, ws_clients, lost, writing, toServer, sent, log, joined>>
  BY <1>1, <1>3 DEF AcceptOne, SysAccept, history
<1>. QED
  BY <1>1, <1>4, <1>5, <1>6

-----------------------------------------------------------------------------
(* What clients write *)

\* The messages c may send, numbered up to its bound unless the server ignores them.
FromClient(c) ==
  {m \in Message : /\ m.from = c /\ m.kind \in Requests \cup Frames
                   /\ m.kind \in Texts \cup {"ping"} => m.no \in 1..MaxSends[c]}

CellFrom(c) == {x \in Cell : x.msg \in FromClient(c)}

\* What a client has written, and what the server has read of it, is its own.
Authentic ==
  /\ \A c \in Clients : writing[c] \in Seq(CellFrom(c)) /\ toServer[c] \in Seq(CellFrom(c))
  /\ \A fd \in handlers : read_buf[fd] \in Seq(CellFrom(conn[fd]))

\* Before its upgrade a client has got nothing, nothing waits for it and nothing was dropped.
Quiet ==
  /\ \A c \in Clients : peer[c] \in {"idle", "queued"} => got[c] = <<>>
  /\ \A fd \in handlers : status[fd] = "UNCONNECT" =>
       got[conn[fd]] = <<>> /\ write_buf[fd] = <<>> /\ conn[fd] \notin lost

\* An upgraded client has got something, or something waits for it.
Greeted == \A fd \in ws_clients : Stream(conn[fd]) # <<>>

\* The inductive invariant of the streams.
StreamInv == IInv /\ Authentic /\ Quiet /\ Greeted /\ WellFramed

-----------------------------------------------------------------------------
(* Authentic *)

\* What is put in a stream, cut off it or moved within it stays of its kind.
LEMMA CellsFrom ==
  ASSUME NEW c \in Clients, NEW m \in FromClient(c)
  PROVE  Cells(m) \in Seq(CellFrom(c))
<1>1. m \in Message
  BY DEF FromClient
<1>2. Size[m.kind] \in Nat \ {0}
  BY <1>1, CellsType
<1>3. \A i \in 1..Size[m.kind] : [msg |-> m, part |-> i] \in CellFrom(c)
  BY <1>1, <1>2 DEF CellFrom, Cell
<1>. QED
  BY <1>2, <1>3, IsASeq DEF Cells

\* The steps of the clients.
LEMMA AuthenticClient ==
  ASSUME StreamInv, NEW c \in Clients, Outside(ClientStep(c))
  PROVE  Authentic'
<1>1. Authentic /\ TypeOK
  BY DEF StreamInv, IInv
<1>2. UNCHANGED <<handlers, conn, read_buf>>
  BY DEF Outside, table, ClientStep, Connect, Send, Arrive, Shutdown, Reset, Receive
<1>3. <<>> \in Seq(CellFrom(c))
  BY EmptySeq
<1>4. /\ writing \in [Clients -> Seq(Cell)] /\ toServer \in [Clients -> Seq(Cell)]
      /\ sent \in [Clients -> Seq(Kinds)]
  BY <1>1 DEF TypeOK, SocketsTypeOK
<1>5. /\ writing[c] \in Seq(CellFrom(c)) /\ toServer[c] \in Seq(CellFrom(c))
  BY <1>1 DEF Authentic
<1>6. /\ writing'[c] \in Seq(CellFrom(c)) /\ toServer'[c] \in Seq(CellFrom(c))
      /\ \A d \in Clients \ {c} : writing'[d] = writing[d] /\ toServer'[d] = toServer[d]
  <2>1. CASE Connect(c) \/ Receive(c)
    BY <1>5, <2>1 DEF Connect, Receive
  <2>2. ASSUME NEW k \in May[c] \cap Kinds, Send(c, k)
        PROVE  /\ writing'[c] \in Seq(CellFrom(c)) /\ toServer'[c] \in Seq(CellFrom(c))
               /\ \A d \in Clients \ {c} : writing'[d] = writing[d] /\ toServer'[d] = toServer[d]
    <3> DEFINE n == IF k = "other" THEN 0 ELSE Len(sent[c]) + 1
               m == [kind |-> k, from |-> c, no |-> n]
    <3>1. k \in Requests \cup Frames /\ k \in Kinds
      <4>1. May[c] \subseteq Requests \cup Frames \cup {"fin", "rst"}
        BY SocketsAssumption
      <4>2. "fin" \notin Kinds /\ "rst" \notin Kinds
        BY DEF Kinds, Requests, Frames, Replies, Texts
      <4>. QED
        BY <4>1, <4>2
    <3>2. Len(sent[c]) \in Nat
      BY <1>4, LenProperties
    <3>3. n \in Nat /\ n <= MaxSends[c] /\ (k # "other" => n \in 1..MaxSends[c])
      BY <2>2, <3>2, SocketsAssumption DEF Send
    <3>4. writing' = [writing EXCEPT ![c] = Cells(m)] /\ toServer' = toServer
      BY <2>2 DEF Send
    <3>5. m \in FromClient(c)
      BY <3>1, <3>3 DEF FromClient, Message, Texts
    <3>6. Cells(m) \in Seq(CellFrom(c))
      BY <3>5, CellsFrom
    <3>. QED
      BY <1>4, <1>5, <3>4, <3>6
  <2>3. CASE Arrive(c)
    <3>1. /\ writing[c] # <<>>
          /\ toServer' = [toServer EXCEPT ![c] = Append(@, Head(writing[c]))]
          /\ writing' = [writing EXCEPT ![c] = Tail(@)]
      BY <2>3 DEF Arrive
    <3>2. Head(writing[c]) \in CellFrom(c) /\ Tail(writing[c]) \in Seq(CellFrom(c))
      BY <1>5, <3>1, HeadTailProperties
    <3>3. Append(toServer[c], Head(writing[c])) \in Seq(CellFrom(c))
      BY <1>5, <3>2, AppendProperties
    <3>. QED
      BY <1>4, <3>1, <3>2, <3>3
  <2>4. CASE Shutdown(c) \/ Reset(c)
    BY <1>3, <1>4, <1>5, <2>4 DEF Shutdown, Reset
  <2>. QED
    BY <2>1, <2>2, <2>3, <2>4 DEF Outside, ClientStep
<1>. QED
  BY <1>1, <1>2, <1>6 DEF Authentic

\* The steps of the server.
LEMMA AuthenticServer ==
  ASSUME StreamInv, ServerStep
  PROVE  Authentic'
<1>1. Authentic /\ TypeOK /\ Descriptors /\ IInv
  BY DEF StreamInv, IInv
<1>2. CASE UNCHANGED <<writing, toServer, handlers, conn, read_buf>>
  BY <1>1, <1>2 DEF Authentic
<1>3. CASE EndBatch
  <2>1. IInv'
    BY <1>1, <1>3, ServerInv
  <2>2. /\ handlers' \subseteq handlers
        /\ \A fd \in handlers' : conn'[fd] = conn[fd] /\ read_buf'[fd] = read_buf[fd]
    BY <1>1, <1>3, <2>1, EndStreams
  <2>3. \A c \in Clients : writing'[c] \in {writing[c], <<>>} /\ toServer'[c] \in {toServer[c], <<>>}
    BY <1>3 DEF EndBatch, ProcessCloseQueue, SysClose
  <2>4. \A c \in Clients : <<>> \in Seq(CellFrom(c))
    BY EmptySeq
  <2>. QED
    BY <1>1, <2>2, <2>3, <2>4 DEF Authentic
<1>4. CASE AcceptOne
  <2>1. PICK fd \in Fds, c \in Clients :
          /\ fd \notin handlers /\ handlers' = handlers \cup {fd}
          /\ conn' = [conn EXCEPT ![fd] = c] /\ read_buf' = [read_buf EXCEPT ![fd] = <<>>]
          /\ UNCHANGED <<writing, toServer>>
    BY <1>1, <1>4, AcceptFacts
  <2>2. conn'[fd] = c /\ read_buf'[fd] = <<>>
    BY <1>1, <2>1 DEF TypeOK, SocketsTypeOK, ServerTypeOK
  <2>3. \A g \in handlers : conn'[g] = conn[g] /\ read_buf'[g] = read_buf[g]
    BY <1>1, <2>1 DEF TypeOK, SocketsTypeOK, ServerTypeOK
  <2>4. <<>> \in Seq(CellFrom(c))
    BY EmptySeq
  <2>. QED
    BY <1>1, <2>1, <2>2, <2>3, <2>4 DEF Authentic
<1>5. CASE ReadData \/ ReadOverflow
  <2> DEFINE c == conn[cur]
             front == SubSeq(toServer[c], 1, Chunk)
             rest == SubSeq(toServer[c], Chunk + 1, Len(toServer[c]))
  <2>1. cur \in Fds /\ cur \in handlers /\ c \in Clients
    BY <1>1, <1>5, Served DEF ReadData, ReadOverflow
  <2>2. toServer[c] \in Seq(CellFrom(c)) /\ read_buf[cur] \in Seq(CellFrom(c))
    BY <1>1, <2>1 DEF Authentic
  <2>3. Chunk \in Nat /\ Chunk <= Len(toServer[c])
    <3>1. Len(toServer[c]) \in Nat /\ ReadChunk \in Nat
      BY <2>2, LenProperties, ReactorAssumption
    <3>. QED
      BY <3>1, LesserType DEF Chunk
  <2>4. front \in Seq(CellFrom(c)) /\ rest \in Seq(CellFrom(c))
    BY <2>2, <2>3, PieceType
  <2>5. read_buf[cur] \o front \in Seq(CellFrom(c))
    BY <2>2, <2>4, ConcatProperties
  <2>6. /\ toServer' = [toServer EXCEPT ![c] = rest]
        /\ \/ read_buf' = [read_buf EXCEPT ![cur] = @ \o front]
           \/ read_buf' = read_buf
        /\ UNCHANGED <<writing, handlers, conn>>
    BY <1>5 DEF ReadData, ReadOverflow, SysRead, table
  <2> HIDE DEF front, rest, c
  <2>7. \A d \in Clients : toServer'[d] = IF d = c THEN rest ELSE toServer[d]
    BY <1>1, <2>6 DEF TypeOK, SocketsTypeOK
  <2>8. \A fd \in handlers : read_buf'[fd] = read_buf[fd] \/ (fd = cur /\ read_buf'[fd] = read_buf[cur] \o front)
    BY <1>1, <2>1, <2>6 DEF TypeOK, ServerTypeOK
  <2>9. \A d \in Clients : toServer'[d] \in Seq(CellFrom(d))
    BY <1>1, <2>4, <2>7 DEF Authentic
  <2>10. \A fd \in handlers : read_buf'[fd] \in Seq(CellFrom(conn[fd]))
    BY <1>1, <2>5, <2>8 DEF Authentic, c
  <2>. QED
    BY <1>1, <2>6, <2>9, <2>10 DEF Authentic
<1>6. CASE /\ pc = "drive" /\ Whole(read_buf[cur]) /\ Consume
           /\ UNCHANGED <<writing, toServer, handlers, conn>>
  <2>1. cur \in handlers /\ cur \in Fds /\ conn[cur] \in Clients /\ First(read_buf[cur]) \in Message
    BY <1>1, <1>6, ConsumeType
  <2>2. read_buf[cur] \in Seq(CellFrom(conn[cur]))
    BY <1>1, <2>1 DEF Authentic
  <2>3. Rest(read_buf[cur]) \in Seq(CellFrom(conn[cur]))
    <3>1. Size[First(read_buf[cur]).kind] \in Nat
      BY <2>1, CellsType
    <3>2. Size[First(read_buf[cur]).kind] <= Len(read_buf[cur]) /\ Len(read_buf[cur]) \in Nat
      BY <1>6, <2>2, <3>1, LenProperties DEF Whole
    <3>. QED
      BY <2>2, <3>1, <3>2, PieceType DEF Rest
  <2>4. \A fd \in handlers : read_buf'[fd] = IF fd = cur THEN Rest(read_buf[cur]) ELSE read_buf[fd]
    BY <1>1, <1>6, <2>1 DEF Consume, TypeOK, ServerTypeOK
  <2>. QED
    BY <1>1, <1>6, <2>3, <2>4 DEF Authentic
<1>7. \/ UNCHANGED <<writing, toServer, handlers, conn, read_buf>>
      \/ EndBatch \/ AcceptOne \/ ReadData \/ ReadOverflow
      \/ /\ pc = "drive" /\ Whole(read_buf[cur]) /\ Consume
         /\ UNCHANGED <<writing, toServer, handlers, conn>>
  <2> USE DEF sockets, table
  <2>1. CASE EpollWait \/ AcceptNone \/ ReadEnd \/ ReadAgain \/ HandshakeTooLong \/ HandshakeIncomplete
             \/ FrameIncomplete \/ FrameBroken
    BY <2>1 DEF EpollWait, AcceptNone, ReadEnd, ReadAgain, HandshakeTooLong, HandshakeIncomplete,
                FrameIncomplete, FrameBroken
  <2>2. CASE Dispatch
    BY <2>2 DEF Dispatch, ListenEvent, HangupEvent, InEvent, OutEvent, Enter
  <2>3. CASE HandshakeRejected \/ HandshakeDone
    BY <2>3 DEF HandshakeRejected, HandshakeDone, HandshakeWhole, Driving
  <2>4. CASE FrameText \/ FramePing \/ FrameClose \/ FrameIgnored
    BY <2>4 DEF FrameText, FramePing, FrameClose, FrameIgnored, FrameOf, Driving
  <2>5. CASE SendSome \/ SendStop \/ SendError
    BY <2>5 DEF SendSome, SysSend, SendStop, SendError
  <2>. QED
    BY <2>1, <2>2, <2>3, <2>4, <2>5 DEF ServerStep
<1>. QED
  BY <1>2, <1>3, <1>4, <1>5, <1>6, <1>7

-----------------------------------------------------------------------------
(* Whole frames *)

\* A stream of whole frames for c, of which the last may be cut; and one that is not cut.
Framed(c, s) ==
  /\ s # <<>> => s[1] = Cells(Switch(c))[1]
  /\ \A i \in 2..Len(s) :
       IF s[i].part = 1
       THEN s[i].msg.kind # "switch" /\ s[i-1].part = Size[s[i-1].msg.kind]
       ELSE s[i].msg = s[i-1].msg /\ s[i].part = s[i-1].part + 1
Ended(s) == s # <<>> => Last(s).part = Size[Last(s).msg.kind]

\* WellFramed, client by client, before and after a step.
LEMMA FramedStreams ==
  /\ WellFramed <=> \A c \in Clients : Framed(c, Stream(c)) /\ (peer[c] = "open" => Ended(Stream(c)))
  /\ WellFramed' <=> \A c \in Clients : Framed(c, Stream(c)') /\ (peer'[c] = "open" => Ended(Stream(c)'))
BY DEF WellFramed, Framed, Ended

\* The cells of a message, one by one.
LEMMA CellAt ==
  ASSUME NEW m \in Message
  PROVE  /\ Len(Cells(m)) \in Nat \ {0} /\ Len(Cells(m)) = Size[m.kind]
         /\ \A i \in 1..Len(Cells(m)) : Cells(m)[i] = [msg |-> m, part |-> i]
BY CellsType DEF Cells

\* The upgrade response is a stream of whole frames.
LEMMA FramedSwitch ==
  ASSUME NEW c \in Clients
  PROVE  Framed(c, Cells(Switch(c))) /\ Ended(Cells(Switch(c)))
<1> DEFINE s == Cells(Switch(c))
<1>1. Switch(c) \in Message
  BY ReplyType
<1>2. /\ Len(s) \in Nat \ {0} /\ Len(s) = Size[Switch(c).kind]
      /\ \A i \in 1..Len(s) : s[i] = [msg |-> Switch(c), part |-> i]
  BY <1>1, CellAt
<1> HIDE DEF s
<1>3. Ended(s)
  <2>1. Len(s) \in 1..Len(s)
    BY <1>2
  <2>2. s[Len(s)] = [msg |-> Switch(c), part |-> Len(s)]
    BY <1>2, <2>1
  <2>3. s[Len(s)].msg = Switch(c) /\ s[Len(s)].part = Len(s)
    BY <2>2
  <2>. QED
    BY <1>2, <2>3 DEF Ended, Last
<1>4. ASSUME NEW i \in 2..Len(s)
      PROVE  s[i].part # 1 /\ s[i].msg = s[i-1].msg /\ s[i].part = s[i-1].part + 1
  <2>1. i \in 1..Len(s) /\ i - 1 \in 1..Len(s) /\ i # 1 /\ i = (i - 1) + 1
    BY <1>2
  <2>2. s[i] = [msg |-> Switch(c), part |-> i] /\ s[i-1] = [msg |-> Switch(c), part |-> i - 1]
    BY <1>2, <2>1
  <2>. QED
    BY <2>1, <2>2
<1>. QED
  BY <1>3, <1>4 DEF Framed, s

\* The front of two sequences of cells.
LEMMA FrontOfConcat ==
  ASSUME NEW s \in Seq(Cell), NEW t \in Seq(Cell)
  PROVE  SubSeq(s \o t, 1, Len(s)) = s
<1>1. Len(s) \in Nat /\ Len(t) \in Nat
  BY LenProperties
<1>2. s \o t \in Seq(Cell) /\ Len(s \o t) = Len(s) + Len(t)
      /\ \A i \in 1..Len(s) + Len(t) : (s \o t)[i] = IF i <= Len(s) THEN s[i] ELSE t[i - Len(s)]
  BY ConcatProperties
<1>3. \A i \in 1..Len(s) : (s \o t)[i] = s[i]
  BY <1>1, <1>2
<1>. QED
  BY <1>1, <1>2, <1>3

\* Two sequences of cells, one after the other.
LEMMA Joined ==
  ASSUME NEW s \in Seq(Cell), NEW t \in Seq(Cell)
  PROVE  \E u \in Seq(Cell) :
           /\ u = s \o t /\ Len(u) = Len(s) + Len(t)
           /\ \A i \in 1..Len(s) + Len(t) : u[i] = IF i <= Len(s) THEN s[i] ELSE t[i - Len(s)]
<1>1. /\ s \o t \in Seq(Cell) /\ Len(s \o t) = Len(s) + Len(t)
      /\ \A i \in 1..Len(s) + Len(t) : (s \o t)[i] = IF i <= Len(s) THEN s[i] ELSE t[i - Len(s)]
  BY ConcatProperties
<1>. QED
  BY <1>1, Zenon

\* A message put after whole frames.
LEMMA FramedAppend ==
  ASSUME NEW c \in Clients, NEW s \in Seq(Cell), s # <<>>, Framed(c, s), Ended(s),
         NEW m \in Message, m.kind # "switch"
  PROVE  Framed(c, s \o Cells(m)) /\ Ended(s \o Cells(m))
<1>1. PICK t \in Seq(Cell) : t = Cells(m) /\ Len(t) \in Nat \ {0} /\ Len(t) = Size[m.kind]
                             /\ \A i \in 1..Len(t) : t[i] = [msg |-> m, part |-> i]
  BY CellAt, CellsType
<1>2. Len(s) \in Nat \ {0}
  BY EmptySeq
<1>3. PICK u \in Seq(Cell) :
        /\ u = s \o t /\ Len(u) = Len(s) + Len(t)
        /\ \A i \in 1..Len(s) + Len(t) : u[i] = IF i <= Len(s) THEN s[i] ELSE t[i - Len(s)]
  BY Joined
<1>4. u[1] = s[1] /\ u # <<>>
  <2>1. Len(u) # 0 /\ 1 \in 1..Len(s) + Len(t) /\ 1 <= Len(s)
    BY <1>1, <1>2, <1>3
  <2>. QED
    BY <1>3, <2>1, EmptySeq
<1>5. Ended(u)
  <2>1. Len(u) \in 1..Len(s) + Len(t) /\ ~(Len(u) <= Len(s)) /\ Len(u) - Len(s) = Len(t) /\ Len(t) \in 1..Len(t)
    BY <1>1, <1>2, <1>3
  <2>2. u[Len(u)] = t[Len(t)]
    BY <1>3, <2>1
  <2>3. t[Len(t)].part = Size[t[Len(t)].msg.kind]
    <3>1. t[Len(t)] = [msg |-> m, part |-> Len(t)]
      BY <1>1, <2>1
    <3>2. t[Len(t)].msg = m /\ t[Len(t)].part = Len(t)
      BY <3>1
    <3>. QED
      BY <1>1, <3>2
  <2>. QED
    BY <2>2, <2>3 DEF Ended, Last
<1>6. ASSUME NEW i \in 2..Len(u)
      PROVE  IF u[i].part = 1
             THEN u[i].msg.kind # "switch" /\ u[i-1].part = Size[u[i-1].msg.kind]
             ELSE u[i].msg = u[i-1].msg /\ u[i].part = u[i-1].part + 1
  <2>1. i \in 1..Len(s) + Len(t) /\ i - 1 \in 1..Len(s) + Len(t)
    BY <1>1, <1>2, <1>3
  <2>2. CASE i <= Len(s)
    <3>1. i \in 2..Len(s) /\ i - 1 <= Len(s)
      BY <1>2, <2>2
    <3>2. u[i] = s[i] /\ u[i-1] = s[i-1]
      BY <1>3, <2>1, <2>2, <3>1
    <3>. QED
      BY <3>1, <3>2 DEF Framed
  <2>3. CASE i = Len(s) + 1
    <3>1. ~(i <= Len(s)) /\ i - 1 = Len(s) /\ i - Len(s) = 1 /\ 1 \in 1..Len(t)
      BY <1>1, <1>2, <2>3
    <3>2. u[i] = t[1] /\ u[i-1] = s[Len(s)]
      BY <1>3, <2>1, <3>1
    <3>3. t[1] = [msg |-> m, part |-> 1]
      BY <1>1, <3>1
    <3>. QED
      BY <3>2, <3>3 DEF Ended, Last
  <2>4. CASE i > Len(s) + 1
    <3>1. /\ ~(i <= Len(s)) /\ ~(i - 1 <= Len(s)) /\ i - Len(s) \in 1..Len(t)
          /\ (i - 1) - Len(s) \in 1..Len(t) /\ i - Len(s) # 1 /\ i - Len(s) = ((i - 1) - Len(s)) + 1
      BY <1>1, <1>2, <2>1, <2>4
    <3>2. u[i] = t[i - Len(s)] /\ u[i-1] = t[(i - 1) - Len(s)]
      BY <1>3, <2>1, <3>1
    <3>3. /\ t[i - Len(s)] = [msg |-> m, part |-> i - Len(s)]
          /\ t[(i - 1) - Len(s)] = [msg |-> m, part |-> (i - 1) - Len(s)]
      BY <1>1, <3>1
    <3>. QED
      BY <3>1, <3>2, <3>3
  <2>. QED
    BY <1>2, <2>1, <2>2, <2>3, <2>4
<1>7. Framed(c, u)
  BY <1>4, <1>6 DEF Framed
<1>. QED
  BY <1>1, <1>3, <1>5, <1>7

\* The first part of a stream of whole frames.
LEMMA FramedPrefix ==
  ASSUME NEW c \in Clients, NEW s \in Seq(Cell), NEW t \in Seq(Cell), Framed(c, s \o t)
  PROVE  Framed(c, s)
<1>1. Len(s) \in Nat /\ Len(t) \in Nat
  BY LenProperties
<1>2. PICK u \in Seq(Cell) :
        /\ u = s \o t /\ Len(u) = Len(s) + Len(t)
        /\ \A i \in 1..Len(s) + Len(t) : u[i] = IF i <= Len(s) THEN s[i] ELSE t[i - Len(s)]
  BY Joined
<1>3. \A i \in 1..Len(s) : u[i] = s[i]
  BY <1>1, <1>2
<1>4. Framed(c, u)
  BY <1>2
<1>5. s # <<>> => s[1] = Cells(Switch(c))[1]
  <2>. SUFFICES ASSUME s # <<>> PROVE s[1] = Cells(Switch(c))[1]
    OBVIOUS
  <2>1. Len(s) \in Nat \ {0}
    BY EmptySeq
  <2>2. Len(u) # 0 /\ 1 \in 1..Len(s)
    BY <1>1, <1>2, <2>1
  <2>3. u # <<>>
    BY <2>2, EmptySeq
  <2>. QED
    BY <1>2, <1>3, <1>4, <2>2, <2>3 DEF Framed
<1>6. ASSUME NEW i \in 2..Len(s)
      PROVE  IF s[i].part = 1
             THEN s[i].msg.kind # "switch" /\ s[i-1].part = Size[s[i-1].msg.kind]
             ELSE s[i].msg = s[i-1].msg /\ s[i].part = s[i-1].part + 1
  <2>1. i \in 2..Len(u) /\ i \in 1..Len(s) /\ i - 1 \in 1..Len(s)
    BY <1>1, <1>2
  <2>2. u[i] = s[i] /\ u[i-1] = s[i-1]
    BY <1>3, <2>1
  <2>. QED
    BY <1>4, <2>1, <2>2 DEF Framed
<1>. QED
  BY <1>5, <1>6 DEF Framed

-----------------------------------------------------------------------------
(* The invariant of the streams *)

\* Greeted after a step, client by client.
LEMMA GreetedNext ==
  ASSUME \A fd \in ws_clients' : conn'[fd] \in Clients,
         ASSUME NEW c \in Clients, NEW fd \in ws_clients', conn'[fd] = c PROVE Stream(c)' # <<>>
  PROVE  Greeted'
<1>1. \A c \in Clients : \A fd \in ws_clients' : conn'[fd] = c => Stream(c)' # <<>>
  OBVIOUS
<1>. QED
  BY <1>1 DEF Greeted, Stream, FdOf

\* The steps that leave the streams, the status and the broadcast set alone.
LEMMA StreamsKept ==
  ASSUME StreamInv, IInv', UNCHANGED <<handlers, conn, got, write_buf, ws_clients, status, lost>>,
         \A c \in Clients : /\ peer'[c] = "open" => peer[c] = "open"
                            /\ peer'[c] \in {"idle", "queued"} => peer[c] \in {"idle", "queued"}
  PROVE  Quiet' /\ Greeted' /\ WellFramed'
<1>1. IInv /\ Quiet /\ Greeted /\ WellFramed
  BY DEF StreamInv
<1>2. \A c \in Clients : Stream(c)' = Stream(c)
  BY <1>1, SameStreams
<1>3. Quiet'
  BY <1>1 DEF Quiet
<1>4. Greeted'
  <2>1. \A fd \in ws_clients : conn[fd] \in Clients
    BY <1>1, StreamOf DEF IInv, Registered
  <2>2. ASSUME NEW c \in Clients, NEW fd \in ws_clients', conn'[fd] = c PROVE Stream(c)' # <<>>
    <3>1. fd \in ws_clients /\ conn[fd] = c
      BY <2>2
    <3>2. Stream(c) # <<>>
      BY <1>1, <3>1 DEF Greeted
    <3>. QED
      BY <1>2, <3>2
  <2>. QED
    BY <2>1, <2>2, GreetedNext
<1>5. WellFramed'
  BY <1>1, <1>2, FramedStreams
<1>. QED
  BY <1>3, <1>4, <1>5

\* The first cell of what is read is the client's own.
LEMMA FirstFrom ==
  ASSUME NEW c \in Clients, NEW buf \in Seq(CellFrom(c)), buf # <<>>
  PROVE  First(buf) \in FromClient(c)
<1>1. Len(buf) \in Nat \ {0} /\ \A i \in 1..Len(buf) : buf[i] \in CellFrom(c)
  BY EmptySeq, ElementOfSeq
<1>2. 1 \in 1..Len(buf)
  BY <1>1
<1>. QED
  BY <1>1, <1>2 DEF First, CellFrom

\* The upgrade: the 101 for one client.
Upgrade ==
  /\ status[cur] = "UNCONNECT" /\ status' = [status EXCEPT ![cur] = "HANDSHARKED"]
  /\ ws_clients' = ws_clients \cup {cur}
  /\ Output(Switch(conn[cur]), {})

\* A frame of an upgraded client, which m answers to those of S and to the client.
Reply(m, S) ==
  /\ cur \in ws_clients /\ m.from = conn[cur]
  /\ \/ m \in Numbered(Texts) /\ S = ws_clients
     \/ m \in Numbered({"pong"}) /\ S = {}
  /\ UNCHANGED <<status, ws_clients>>
  /\ Output(m, S)

\* What drive_io() does when it has something to say.
LEMMA DriveSays ==
  ASSUME StreamInv, HandshakeDone \/ FrameText \/ FramePing
  PROVE  /\ cur \in handlers /\ UNCHANGED <<handlers, conn, got, peer>>
         /\ Upgrade \/ \E m \in Message, S \in SUBSET ws_clients : Reply(m, S)
<1>1. IInv /\ TypeOK /\ Descriptors /\ Registered /\ Authentic
  BY DEF StreamInv, IInv
<1>2. pc = "drive" /\ Whole(read_buf[cur]) /\ Consume
  BY DEF HandshakeDone, HandshakeWhole, FrameText, FramePing, FrameOf, Driving
<1>3. cur \in handlers /\ cur \in Fds /\ conn[cur] \in Clients
  BY <1>1, <1>2, ConsumeType
<1>4. UNCHANGED <<handlers, conn, got, peer>>
  BY DEF HandshakeDone, FrameText, FramePing, sockets
<1>5. PICK u \in FromClient(conn[cur]) : u = First(read_buf[cur])
  <2>1. read_buf[cur] \in Seq(CellFrom(conn[cur])) /\ read_buf[cur] # <<>>
    BY <1>1, <1>2, <1>3 DEF Authentic, Whole
  <2>. QED
    BY <1>3, <2>1, FirstFrom
<1>6. /\ u \in Message /\ u.from = conn[cur]
      /\ u.kind \in Texts \cup {"ping"} => u.no \in 1..MaxSends[conn[cur]]
  BY <1>5 DEF FromClient
<1>7. CASE HandshakeDone
  BY <1>3, <1>4, <1>7 DEF HandshakeDone, HandshakeWhole, Driving, Upgrade
<1>8. CASE FrameText
  <2>1. cur \in ws_clients /\ u.kind \in Texts
    BY <1>1, <1>3, <1>5, <1>8 DEF FrameText, FrameOf, Driving, Registered
  <2>2. u \in Numbered(Texts)
    <3>1. u \in [kind : Texts, from : {conn[cur]}, no : 1..MaxSends[conn[cur]]]
      BY <1>6, <2>1 DEF Message
    <3>. QED
      BY <1>3, <3>1 DEF Numbered
  <2>3. Output(u, ws_clients) /\ UNCHANGED <<status, ws_clients>>
    BY <1>5, <1>8 DEF FrameText
  <2>4. Reply(u, ws_clients)
    BY <1>6, <2>1, <2>2, <2>3 DEF Reply
  <2>. QED
    BY <1>3, <1>4, <1>6, <2>4
<1>9. CASE FramePing
  <2> DEFINE v == [u EXCEPT !.kind = "pong"]
  <2>1. cur \in ws_clients /\ u.kind = "ping"
    BY <1>1, <1>3, <1>5, <1>9 DEF FramePing, FrameOf, Driving, Registered
  <2>2. v \in [kind : {"pong"}, from : {conn[cur]}, no : 1..MaxSends[conn[cur]]] /\ v \in Message
    BY <1>6, <2>1, ReplyType DEF Message
  <2>3. v \in Numbered({"pong"}) /\ v.from = conn[cur]
    BY <1>3, <1>6, <2>2 DEF Numbered
  <2>4. Output(v, {}) /\ UNCHANGED <<status, ws_clients>>
    BY <1>5, <1>9 DEF FramePing
  <2>5. Reply(v, {})
    BY <2>1, <2>3, <2>4 DEF Reply
  <2>. QED
    BY <1>3, <1>4, <2>2, <2>5
<1>. QED
  BY <1>7, <1>8, <1>9

\* The upgrade puts the 101 in an empty stream.
LEMMA UpgradeStreams ==
  ASSUME StreamInv, IInv', cur \in handlers, UNCHANGED <<handlers, conn, got, peer>>, Upgrade
  PROVE  /\ conn[cur] \in Clients /\ Stream(conn[cur]) = <<>> /\ conn[cur] \notin lost
         /\ \A c \in Clients : Stream(c)' = IF c = conn[cur] THEN Cells(Switch(c)) ELSE Stream(c)
         /\ UNCHANGED lost
<1>1. IInv /\ TypeOK /\ Descriptors /\ Quiet
  BY DEF StreamInv, IInv
<1>2. cur \in Fds /\ conn[cur] \in Clients
  BY <1>1, StreamOf
<1>3. /\ got[conn[cur]] = <<>> /\ write_buf[cur] = <<>> /\ conn[cur] \notin lost
      /\ Stream(conn[cur]) = <<>>
  <2>1. got[conn[cur]] = <<>> /\ write_buf[cur] = <<>> /\ conn[cur] \notin lost
    BY <1>1 DEF Quiet, Upgrade
  <2>2. <<>> \o <<>> = <<>>
    BY ConcatEmptySeq, EmptySeq
  <2>3. Stream(conn[cur]) = got[conn[cur]] \o write_buf[cur]
    BY <1>1, StreamOf
  <2>. QED
    BY <2>1, <2>2, <2>3
<1>4. Switch(conn[cur]) \in Message /\ Output(Switch(conn[cur]), {})
  BY <1>2, ReplyType DEF Upgrade
<1>5. Fits(cur, Switch(conn[cur]))
  <2>1. Len(write_buf[cur]) = 0 /\ Switch(conn[cur]).kind = "switch"
    BY <1>3, EmptySeq DEF Switch
  <2>2. Size["switch"] \in Nat
    BY SocketsAssumption DEF Kinds, Replies
  <2>. QED
    BY <2>1, <2>2, ReactorAssumption DEF Fits
<1>6. ASSUME NEW c \in Clients
      PROVE  Stream(c)' = IF c = conn[cur] THEN Cells(Switch(c)) ELSE Stream(c)
  <2>1. Stream(c)' = IF \E fd \in {cur} \cup {} : conn[fd] = c /\ Fits(fd, Switch(conn[cur]))
                     THEN Stream(c) \o Cells(Switch(conn[cur])) ELSE Stream(c)
    BY <1>1, <1>4, OutputStreams
  <2>2. CASE c = conn[cur]
    <3>1. Cells(Switch(c)) \in Seq(Cell)
      BY ReplyType, CellsType
    <3>2. <<>> \o Cells(Switch(c)) = Cells(Switch(c))
      BY <3>1, ConcatEmptySeq
    <3>. QED
      BY <1>3, <1>5, <2>1, <2>2, <3>2
  <2>. QED
    BY <2>1, <2>2
<1>7. UNCHANGED lost
  BY <1>4, <1>5 DEF Output
<1>. QED
  BY <1>2, <1>3, <1>6, <1>7

\* The upgrade response is the first frame of a stream.
LEMMA UpgradeInv ==
  ASSUME StreamInv, IInv', cur \in handlers, UNCHANGED <<handlers, conn, got, peer>>, Upgrade
  PROVE  Quiet' /\ Greeted' /\ WellFramed'
<1>1. IInv /\ TypeOK /\ Descriptors /\ Registered /\ Quiet /\ Greeted /\ WellFramed /\ IInv' /\ TypeOK'
  BY DEF StreamInv, IInv
<1>2. /\ conn[cur] \in Clients /\ UNCHANGED lost
      /\ \A c \in Clients : Stream(c)' = IF c = conn[cur] THEN Cells(Switch(c)) ELSE Stream(c)
  BY UpgradeStreams
<1>3. Quiet'
  <2>1. \A fd \in handlers : status'[fd] = "UNCONNECT" =>
          fd # cur /\ status[fd] = "UNCONNECT" /\ write_buf'[fd] = write_buf[fd]
    <3>1. status' = [status EXCEPT ![cur] = "HANDSHARKED"] /\ write_buf' = Appended({cur}, Switch(conn[cur]))
      BY DEF Upgrade, Output
    <3>. QED
      BY <1>1, <3>1 DEF TypeOK, ServerTypeOK, Appended, Descriptors
  <2>. QED
    BY <1>1, <1>2, <2>1 DEF Quiet
<1>4. \A c \in Clients : Cells(Switch(c)) # <<>>
  <2>1. \A c \in Clients : Len(Cells(Switch(c))) # 0
    BY ReplyType, CellAt
  <2>. QED
    BY <2>1, EmptySeq
<1>5. Greeted'
  <2>1. ws_clients' = ws_clients \cup {cur}
    BY DEF Upgrade
  <2>2. \A fd \in ws_clients' : conn'[fd] \in Clients
    BY <1>1, <1>2, <2>1, StreamOf DEF Registered
  <2>3. ASSUME NEW c \in Clients, NEW fd \in ws_clients', conn'[fd] = c PROVE Stream(c)' # <<>>
    <3>1. CASE c = conn[cur]
      BY <1>2, <1>4, <3>1
    <3>2. CASE c # conn[cur]
      <4>1. fd \in ws_clients /\ conn[fd] = c
        BY <2>1, <2>3, <3>2
      <4>2. Stream(c) # <<>>
        BY <1>1, <4>1 DEF Greeted
      <4>. QED
        BY <1>2, <3>2, <4>2
    <3>. QED
      BY <3>1, <3>2
  <2>. QED
    BY <2>2, <2>3, GreetedNext
<1>6. WellFramed'
  BY <1>1, <1>2, FramedStreams, FramedSwitch
<1>. QED
  BY <1>3, <1>5, <1>6

\* A reply is put at the end of streams that are not empty.
LEMMA ReplyInv ==
  ASSUME StreamInv, IInv', cur \in handlers, UNCHANGED <<handlers, conn, got, peer>>,
         NEW m \in Message, NEW S \in SUBSET ws_clients, Reply(m, S)
  PROVE  Quiet' /\ Greeted' /\ WellFramed'
<1>1. IInv /\ TypeOK /\ Descriptors /\ Registered /\ Quiet /\ Greeted /\ WellFramed
  BY DEF StreamInv, IInv
<1>2. /\ S \in SUBSET handlers /\ Output(m, S) /\ UNCHANGED <<status, ws_clients>>
      /\ {cur} \cup S \subseteq ws_clients /\ m.kind # "switch"
  BY <1>1 DEF Reply, Registered, Numbered, Texts
<1>3. \A c \in Clients :
        Stream(c)' = IF \E fd \in {cur} \cup S : conn[fd] = c /\ Fits(fd, m)
                     THEN Stream(c) \o Cells(m) ELSE Stream(c)
  BY <1>1, <1>2, OutputStreams
<1>4. \A fd \in ws_clients : conn[fd] \in Clients /\ peer[conn[fd]] = "open"
  BY <1>1, StreamOf DEF Registered
<1>5. Quiet'
  <2>1. write_buf' = Appended({cur} \cup S, m)
        /\ lost' = lost \cup {conn[fd] : fd \in {t \in {cur} \cup S : ~Fits(t, m)}}
    BY <1>2 DEF Output
  <2>2. ASSUME NEW fd \in handlers, status[fd] = "UNCONNECT"
        PROVE  write_buf'[fd] = write_buf[fd] /\ (conn[fd] \notin lost => conn[fd] \notin lost')
    <3>1. fd \notin {cur} \cup S
      BY <1>1, <1>2, <2>2 DEF Registered
    <3>2. \A g \in {cur} \cup S : conn[g] # conn[fd]
      BY <1>1, <1>2, <3>1 DEF Descriptors, Registered
    <3>. QED
      BY <1>1, <2>1, <3>1, <3>2 DEF Appended, Descriptors
  <2>. QED
    BY <1>1, <1>2, <2>2 DEF Quiet
<1>6. ASSUME NEW c \in Clients, NEW fd \in {cur} \cup S, conn[fd] = c
      PROVE  /\ Stream(c) \o Cells(m) # <<>>
             /\ Framed(c, Stream(c) \o Cells(m)) /\ Ended(Stream(c) \o Cells(m))
  <2>1. Stream(c) \in Seq(Cell) /\ Stream(c) # <<>> /\ Framed(c, Stream(c)) /\ Ended(Stream(c))
    BY <1>1, <1>2, <1>4, <1>6, StreamType, FramedStreams DEF Greeted
  <2>2. Cells(m) \in Seq(Cell)
    BY CellsType
  <2>3. Stream(c) \o Cells(m) # <<>>
    <3>1. Len(Stream(c) \o Cells(m)) = Len(Stream(c)) + Len(Cells(m))
      BY <2>1, <2>2, ConcatProperties
    <3>2. Len(Stream(c)) \in Nat \ {0} /\ Len(Cells(m)) \in Nat
      BY <2>1, <2>2, EmptySeq, LenProperties
    <3>. QED
      BY <3>1, <3>2, EmptySeq
  <2>. QED
    BY <1>2, <2>1, <2>3, FramedAppend
<1>7. Greeted'
  <2>1. \A fd \in ws_clients' : conn'[fd] \in Clients
    BY <1>2, <1>4
  <2>2. ASSUME NEW c \in Clients, NEW fd \in ws_clients', conn'[fd] = c PROVE Stream(c)' # <<>>
    <3>1. fd \in ws_clients /\ conn[fd] = c
      BY <1>2, <2>2
    <3>2. Stream(c) # <<>>
      BY <1>1, <3>1 DEF Greeted
    <3>. QED
      BY <1>3, <1>6, <3>2
  <2>. QED
    BY <2>1, <2>2, GreetedNext
<1>8. WellFramed'
  <2>1. ASSUME NEW c \in Clients
        PROVE  Framed(c, Stream(c)') /\ (peer'[c] = "open" => Ended(Stream(c)'))
    <3>1. Framed(c, Stream(c)) /\ (peer'[c] = "open" => Ended(Stream(c)))
      BY <1>1, FramedStreams
    <3>. QED
      BY <1>3, <1>6, <3>1
  <2>. QED
    BY <2>1, FramedStreams
<1>. QED
  BY <1>5, <1>7, <1>8

\* accept() begins with empty streams; the others stay.
LEMMA AcceptStreams ==
  ASSUME IInv, Quiet, IInv', AcceptOne
  PROVE  /\ \A c \in Clients : Stream(c)' = Stream(c)
         /\ Quiet'
         /\ \A fd \in ws_clients : conn'[fd] = conn[fd]
<1>1. TypeOK /\ Descriptors /\ TypeOK' /\ Descriptors' /\ Registered
  BY DEF IInv
<1>2. PICK fd \in Fds, d \in Clients :
        /\ fd \notin handlers /\ handlers' = handlers \cup {fd}
        /\ peer[d] = "queued" /\ d \notin lost
        /\ conn' = [conn EXCEPT ![fd] = d] /\ peer' = [peer EXCEPT ![d] = "open"]
        /\ status' = [status EXCEPT ![fd] = "UNCONNECT"]
        /\ write_buf' = [write_buf EXCEPT ![fd] = <<>>]
        /\ UNCHANGED <<got, ws_clients, lost>>
  BY AcceptFacts
<1>3. conn'[fd] = d /\ status'[fd] = "UNCONNECT" /\ write_buf'[fd] = <<>> /\ peer'[d] = "open"
  BY <1>1, <1>2 DEF TypeOK, SocketsTypeOK, ServerTypeOK
<1>4. \A g \in handlers : conn'[g] = conn[g] /\ status'[g] = status[g] /\ write_buf'[g] = write_buf[g]
  BY <1>1, <1>2 DEF TypeOK, SocketsTypeOK, ServerTypeOK
<1>5. got[d] = <<>>
  BY <1>2 DEF Quiet
<1>6. ASSUME NEW c \in Clients PROVE Stream(c)' = Stream(c)
  <2>1. CASE c = d
    <3>1. Stream(c) = got[c]
      BY <1>1, <1>2, <2>1, StreamOf
    <3>2. Stream(c)' = got'[c] \o write_buf'[fd]
      BY <1>1, <1>2, <1>3, <2>1, StreamOfNext
    <3>3. <<>> \o <<>> = <<>>
      BY ConcatEmptySeq, EmptySeq
    <3>. QED
      BY <1>2, <1>3, <1>5, <2>1, <3>1, <3>2, <3>3
  <2>2. CASE c # d /\ peer[c] = "open"
    <3>1. PICK g \in handlers : conn[g] = c
      BY <1>1, <2>2, OpenHasFd
    <3>2. Stream(c) = got[c] \o write_buf[g]
      BY <1>1, <3>1, StreamOf
    <3>3. g \in handlers' /\ conn'[g] = c
      BY <1>2, <1>4, <3>1
    <3>4. Stream(c)' = got'[c] \o write_buf'[g]
      BY <1>1, <3>3, StreamOfNext
    <3>. QED
      BY <1>2, <1>4, <3>1, <3>2, <3>4
  <2>3. CASE c # d /\ peer[c] # "open"
    <3>1. peer'[c] # "open"
      BY <1>1, <1>2, <2>3 DEF TypeOK, SocketsTypeOK
    <3>2. Stream(c) = got[c]
      BY <1>1, <2>3, StreamOf
    <3>3. Stream(c)' = got'[c]
      BY <1>1, <3>1, StreamOfNext
    <3>. QED
      BY <1>2, <3>2, <3>3
  <2>. QED
    BY <2>1, <2>2, <2>3
<1>7. Quiet'
  <2>1. \A c \in Clients : peer'[c] \in {"idle", "queued"} => got'[c] = <<>>
    BY <1>1, <1>2 DEF Quiet, TypeOK, SocketsTypeOK
  <2>2. \A g \in handlers' : status'[g] = "UNCONNECT" =>
          got'[conn'[g]] = <<>> /\ write_buf'[g] = <<>> /\ conn'[g] \notin lost'
    BY <1>2, <1>3, <1>4, <1>5 DEF Quiet
  <2>. QED
    BY <2>1, <2>2 DEF Quiet
<1>8. \A g \in ws_clients : conn'[g] = conn[g]
  BY <1>1, <1>4 DEF Registered
<1>. QED
  BY <1>6, <1>7, <1>8

\* A connection that is accepted starts with an empty stream.
LEMMA AcceptStreamInv ==
  ASSUME StreamInv, IInv', AcceptOne
  PROVE  Quiet' /\ Greeted' /\ WellFramed'
<1>1. IInv /\ TypeOK /\ Descriptors /\ Registered /\ Quiet /\ Greeted /\ WellFramed
  BY DEF StreamInv, IInv
<1>2. /\ \A c \in Clients : Stream(c)' = Stream(c)
      /\ Quiet'
      /\ \A fd \in ws_clients : conn'[fd] = conn[fd]
  BY <1>1, AcceptStreams
<1>3. ws_clients' = ws_clients
  BY <1>1, AcceptFacts
<1>4. Greeted'
  <2>1. \A fd \in ws_clients' : conn'[fd] \in Clients
    BY <1>1, <1>2, <1>3, StreamOf DEF Registered
  <2>2. ASSUME NEW c \in Clients, NEW fd \in ws_clients', conn'[fd] = c PROVE Stream(c)' # <<>>
    <3>1. fd \in ws_clients /\ conn[fd] = c
      BY <1>2, <1>3, <2>2
    <3>2. Stream(c) # <<>>
      BY <1>1, <3>1 DEF Greeted
    <3>. QED
      BY <1>2, <3>2
  <2>. QED
    BY <2>1, <2>2, GreetedNext
<1>5. WellFramed'
  <2>1. ASSUME NEW c \in Clients, peer'[c] = "open" PROVE Ended(Stream(c))
    <3>1. CASE peer[c] = "open"
      BY <1>1, <3>1, FramedStreams
    <3>2. CASE peer[c] # "open"
      <4>1. peer[c] = "queued"
        BY <1>1, <2>1, <3>2, AcceptFacts DEF TypeOK, SocketsTypeOK
      <4>2. Stream(c) = <<>>
        BY <1>1, <4>1, StreamOf DEF Quiet
      <4>. QED
        BY <4>2 DEF Ended
    <3>. QED
      BY <3>1, <3>2
  <2>. QED
    BY <1>1, <1>2, <2>1, FramedStreams
<1>. QED
  BY <1>2, <1>4, <1>5

\* send() serves an upgraded client.
LEMMA SendServes ==
  ASSUME StreamInv, SendSome
  PROVE  cur \in ws_clients
<1>1. IInv /\ TypeOK /\ Descriptors /\ Registered /\ Quiet
  BY DEF StreamInv, IInv
<1>2. cur \in handlers /\ cur \in Fds /\ conn[cur] \in Clients
  BY <1>1, Served DEF SendSome
<1>3. write_buf[cur] # <<>>
  <2>1. unread[conn[cur]] \in 0..SendWindow /\ SendWindow \in Nat
    BY <1>1, <1>2, SocketsAssumption DEF TypeOK, SocketsTypeOK
  <2>2. SendSpace(conn[cur]) \in Nat
    BY <2>1 DEF SendSpace
  <2>3. Lesser(SendSpace(conn[cur]), Len(write_buf[cur])) > 0
    BY DEF SendSome
  <2>4. Len(<<>>) = 0
    BY EmptySeq
  <2>. QED
    BY <2>2, <2>3, <2>4 DEF Lesser
<1>4. status[cur] # "UNCONNECT"
  BY <1>1, <1>2, <1>3 DEF Quiet
<1>. QED
  BY <1>1, <1>2, <1>4 DEF Registered, TypeOK, ServerTypeOK

\* send() moves what it takes within the stream.
LEMMA SendStreamInv ==
  ASSUME StreamInv, IInv', SendSome
  PROVE  Quiet' /\ Greeted' /\ WellFramed'
<1>1. IInv /\ TypeOK /\ Descriptors /\ Registered /\ Quiet /\ Greeted /\ WellFramed
  BY DEF StreamInv, IInv
<1>2. cur \in ws_clients /\ cur \in handlers /\ conn[cur] \in Clients /\ peer[conn[cur]] = "open"
  BY <1>1, SendServes, StreamOf DEF Registered
<1>3. \A c \in Clients : Stream(c)' = Stream(c)
  BY <1>1, SendStreams
<1>4. UNCHANGED <<handlers, conn, peer, status, ws_clients, lost>>
  BY DEF SendSome, SysSend, history
<1>5. /\ \A c \in Clients \ {conn[cur]} : got'[c] = got[c]
      /\ \A fd \in handlers \ {cur} : write_buf'[fd] = write_buf[fd]
  BY <1>1 DEF SendSome, SysSend, TypeOK, SocketsTypeOK, ServerTypeOK
<1>6. Quiet'
  <2>1. \A c \in Clients : peer'[c] \in {"idle", "queued"} => got'[c] = <<>>
    BY <1>1, <1>2, <1>4, <1>5 DEF Quiet
  <2>2. ASSUME NEW fd \in handlers, status[fd] = "UNCONNECT"
        PROVE  got'[conn[fd]] = <<>> /\ write_buf'[fd] = <<>> /\ conn[fd] \notin lost
    <3>1. fd # cur
      BY <1>1, <1>2, <2>2 DEF Registered
    <3>2. conn[fd] \in Clients \ {conn[cur]}
      BY <1>1, <1>2, <3>1, StreamOf DEF Descriptors
    <3>. QED
      BY <1>1, <1>5, <2>2, <3>1, <3>2 DEF Quiet
  <2>. QED
    BY <1>4, <2>1, <2>2 DEF Quiet
<1>7. Greeted'
  <2>1. \A fd \in ws_clients' : conn'[fd] \in Clients
    BY <1>1, <1>4, StreamOf DEF Registered
  <2>2. ASSUME NEW c \in Clients, NEW fd \in ws_clients', conn'[fd] = c PROVE Stream(c)' # <<>>
    <3>1. fd \in ws_clients /\ conn[fd] = c
      BY <1>4, <2>2
    <3>2. Stream(c) # <<>>
      BY <1>1, <3>1 DEF Greeted
    <3>. QED
      BY <1>3, <3>2
  <2>. QED
    BY <2>1, <2>2, GreetedNext
<1>8. WellFramed'
  BY <1>1, <1>3, <1>4, FramedStreams
<1>. QED
  BY <1>6, <1>7, <1>8

\* The close queue cuts streams; those left are as they were.
LEMMA EndStreamInv ==
  ASSUME StreamInv, IInv', EndBatch
  PROVE  Quiet' /\ Greeted' /\ WellFramed'
<1>1. IInv /\ TypeOK /\ Descriptors /\ Registered /\ Quiet /\ Greeted /\ WellFramed
  BY DEF StreamInv, IInv
<1>2. /\ pending_closes \subseteq handlers /\ handlers' = handlers \ pending_closes
      /\ ws_clients' = ws_clients \ pending_closes /\ UNCHANGED <<got, lost>>
      /\ \A fd \in handlers' : conn'[fd] = conn[fd] /\ status'[fd] = status[fd]
                               /\ read_buf'[fd] = read_buf[fd] /\ write_buf'[fd] = write_buf[fd]
      /\ \A c \in Clients :
           /\ peer'[c] = IF \E fd \in pending_closes : conn[fd] = c THEN "closed" ELSE peer[c]
           /\ Stream(c)' = IF \E fd \in pending_closes : conn[fd] = c THEN got[c] ELSE Stream(c)
  BY <1>1, EndStreams
<1>3. Quiet'
  <2>1. \A c \in Clients : peer'[c] \in {"idle", "queued"} => got'[c] = <<>>
    BY <1>1, <1>2 DEF Quiet
  <2>2. \A fd \in handlers' : status'[fd] = "UNCONNECT" =>
          got'[conn'[fd]] = <<>> /\ write_buf'[fd] = <<>> /\ conn'[fd] \notin lost'
    BY <1>1, <1>2 DEF Quiet
  <2>. QED
    BY <2>1, <2>2 DEF Quiet
<1>4. Greeted'
  <2>1. \A fd \in ws_clients' : fd \in handlers' /\ conn'[fd] = conn[fd] /\ conn[fd] \in Clients
    BY <1>1, <1>2, StreamOf DEF Registered
  <2>2. ASSUME NEW c \in Clients, NEW fd \in ws_clients', conn'[fd] = c PROVE Stream(c)' # <<>>
    <3>1. fd \in ws_clients /\ conn[fd] = c /\ fd \in handlers /\ fd \notin pending_closes
      BY <1>2, <2>1, <2>2
    <3>2. Stream(c) # <<>>
      BY <1>1, <3>1 DEF Greeted
    <3>3. ~\E g \in pending_closes : conn[g] = c
      BY <1>1, <1>2, <3>1 DEF Descriptors
    <3>. QED
      BY <1>2, <3>2, <3>3
  <2>. QED
    BY <2>1, <2>2, GreetedNext
<1>5. WellFramed'
  <2>1. ASSUME NEW c \in Clients
        PROVE  Framed(c, Stream(c)') /\ (peer'[c] = "open" => Ended(Stream(c)'))
    <3>1. Framed(c, Stream(c)) /\ (peer[c] = "open" => Ended(Stream(c)))
      BY <1>1, FramedStreams
    <3>2. CASE \E g \in pending_closes : conn[g] = c
      <4>1. PICK g \in pending_closes : conn[g] = c
        BY <3>2
      <4>2. g \in Fds /\ Stream(c) = got[c] \o write_buf[g]
        BY <1>1, <1>2, <4>1, StreamOf
      <4>3. got[c] \in Seq(Cell) /\ write_buf[g] \in Seq(Cell)
        BY <1>1, <4>2 DEF TypeOK, SocketsTypeOK, ServerTypeOK
      <4>4. Framed(c, got[c])
        BY <3>1, <4>2, <4>3, FramedPrefix
      <4>. QED
        BY <1>2, <3>2, <4>4
    <3>3. CASE ~\E g \in pending_closes : conn[g] = c
      BY <1>2, <3>1, <3>3
    <3>. QED
      BY <3>2, <3>3
  <2>. QED
    BY <2>1, FramedStreams
<1>. QED
  BY <1>3, <1>4, <1>5

\* The other steps of the server change nothing of all this.
LEMMA StreamSplit ==
  ASSUME ServerStep
  PROVE  \/ EndBatch \/ AcceptOne \/ SendSome
         \/ HandshakeDone \/ FrameText \/ FramePing
         \/ UNCHANGED <<handlers, conn, got, write_buf, ws_clients, status, lost, peer>>
<1> USE DEF table, history, sockets
<1>1. CASE EpollWait \/ AcceptNone \/ ReadEnd \/ ReadAgain
  BY <1>1 DEF EpollWait, AcceptNone, ReadEnd, ReadAgain
<1>2. CASE Dispatch
  BY <1>2 DEF Dispatch, ListenEvent, HangupEvent, InEvent, OutEvent, Enter
<1>3. CASE ReadData \/ ReadOverflow
  BY <1>3 DEF ReadData, ReadOverflow, SysRead
<1>4. CASE HandshakeTooLong \/ HandshakeIncomplete \/ HandshakeRejected
  BY <1>4 DEF HandshakeTooLong, HandshakeIncomplete, HandshakeRejected
<1>5. CASE FrameIncomplete \/ FrameBroken \/ FrameClose \/ FrameIgnored
  BY <1>5 DEF FrameIncomplete, FrameBroken, FrameClose, FrameIgnored
<1>6. CASE SendStop \/ SendError
  BY <1>6 DEF SendStop, SendError
<1>. QED
  BY <1>1, <1>2, <1>3, <1>4, <1>5, <1>6 DEF ServerStep

\* The steps of the clients.
LEMMA ClientStreams ==
  ASSUME IInv, NEW c \in Clients, Outside(ClientStep(c))
  PROVE  /\ UNCHANGED <<handlers, conn, got, write_buf, ws_clients, status, lost>>
         /\ \A d \in Clients : \/ peer'[d] = peer[d]
                               \/ peer[d] = "idle" /\ peer'[d] = "queued"
<1>1. UNCHANGED <<handlers, conn, got, write_buf, ws_clients, status, lost>>
  BY DEF Outside, table, history, ClientStep, Connect, Send, Arrive, Shutdown, Reset, Receive
<1>2. CASE Connect(c)
  BY <1>1, <1>2 DEF Connect, IInv, TypeOK, SocketsTypeOK
<1>3. CASE UNCHANGED peer
  BY <1>1, <1>3
<1>4. Connect(c) \/ UNCHANGED peer
  BY DEF Outside, ClientStep, Send, Arrive, Shutdown, Reset, Receive
<1>. QED
  BY <1>2, <1>3, <1>4

\* The invariant of the streams holds at the start and after every step.
THEOREM InitStreamInv == Init => StreamInv
<1>. SUFFICES ASSUME Init PROVE StreamInv
  OBVIOUS
<1>1. IInv
  BY InitIInv
<1>2. handlers = {} /\ ws_clients = {} /\ \A c \in Clients : got[c] = <<>> /\ peer[c] = "idle"
  BY DEF Init, SocketsInit, ReactorInit
<1>3. \A c \in Clients : writing[c] = <<>> /\ toServer[c] = <<>>
  BY DEF Init, SocketsInit
<1>4. \A c \in Clients : <<>> \in Seq(CellFrom(c))
  BY EmptySeq
<1>5. Authentic /\ Quiet /\ Greeted
  BY <1>2, <1>3, <1>4 DEF Authentic, Quiet, Greeted
<1>6. WellFramed
  <2>1. \A c \in Clients : Stream(c) = <<>> /\ Len(<<>>) = 0
    BY <1>2, EmptySeq DEF Stream
  <2>. QED
    BY <1>2, <2>1 DEF WellFramed
<1>. QED
  BY <1>1, <1>5, <1>6 DEF StreamInv

\* Every step of the server and of the world preserves the invariant of the streams.
THEOREM NextStreamInv == StreamInv /\ [Next]_vars => StreamInv'
<1>. SUFFICES ASSUME StreamInv, [Next]_vars PROVE StreamInv'
  OBVIOUS
<1>1. IInv /\ IInv'
  BY NextIInv DEF StreamInv
<1>2. ASSUME NEW c \in Clients, Outside(ClientStep(c)) PROVE StreamInv'
  <2>1. Authentic'
    BY <1>2, AuthenticClient
  <2>2. Quiet' /\ Greeted' /\ WellFramed'
    BY <1>1, <1>2, ClientStreams, StreamsKept
  <2>. QED
    BY <1>1, <2>1, <2>2 DEF StreamInv
<1>3. CASE ServerStep
  <2>1. Authentic'
    BY <1>3, AuthenticServer
  <2>2. Quiet' /\ Greeted' /\ WellFramed'
    <3>1. CASE EndBatch
      BY <1>1, <3>1, EndStreamInv
    <3>2. CASE AcceptOne
      BY <1>1, <3>2, AcceptStreamInv
    <3>3. CASE SendSome
      BY <1>1, <3>3, SendStreamInv
    <3>4. CASE HandshakeDone \/ FrameText \/ FramePing
      BY <1>1, <3>4, DriveSays, UpgradeInv, ReplyInv
    <3>5. CASE UNCHANGED <<handlers, conn, got, write_buf, ws_clients, status, lost, peer>>
      BY <1>1, <3>5, StreamsKept
    <3>. QED
      BY <1>3, <3>1, <3>2, <3>3, <3>4, <3>5, StreamSplit
  <2>. QED
    BY <1>1, <2>1, <2>2 DEF StreamInv
<1>4. CASE UNCHANGED vars
  <2>1. Authentic'
    BY <1>4 DEF vars, sockets, table, StreamInv, Authentic
  <2>2. UNCHANGED <<handlers, conn, got, write_buf, ws_clients, status, lost, peer>>
    BY <1>4 DEF vars, sockets, table, history
  <2>3. Quiet' /\ Greeted' /\ WellFramed'
    BY <1>1, <2>2, StreamsKept
  <2>. QED
    BY <1>1, <2>1, <2>3 DEF StreamInv
<1>. QED
  BY <1>2, <1>3, <1>4 DEF Next, WorldStep

\* The invariant of the streams holds of every behaviour of the reactor.
THEOREM StreamInvariance == Spec => []StreamInv
BY InitStreamInv, NextStreamInv, PTL DEF Spec

\* Every client's stream is made of whole frames that begin with the one upgrade
\* response (append_outgoing, flush_writes, broadcast_ws_binary).
THEOREM WholeFrames == Spec => []WellFramed
<1>1. StreamInv => WellFramed
  BY DEF StreamInv
<1>. QED
  BY StreamInvariance, <1>1, PTL

-----------------------------------------------------------------------------
(* Streams only grow *)

\* A sequence is a first part of itself.
LEMMA PrefixOfSelf ==
  ASSUME NEW s \in Seq(Cell)
  PROVE  IsPrefix(s, s)
BY LenProperties DEF IsPrefix

\* A sequence is a first part of what it was extended to.
LEMMA PrefixOfConcat ==
  ASSUME NEW s \in Seq(Cell), NEW t \in Seq(Cell)
  PROVE  IsPrefix(s, s \o t)
<1>1. Len(s) \in Nat /\ Len(t) \in Nat
  BY LenProperties
<1>2. s \o t \in Seq(Cell) /\ Len(s \o t) = Len(s) + Len(t)
      /\ \A i \in 1..Len(s) : (s \o t)[i] = s[i]
  <2>1. s \o t \in Seq(Cell) /\ Len(s \o t) = Len(s) + Len(t)
        /\ \A i \in 1..Len(s) + Len(t) : (s \o t)[i] = IF i <= Len(s) THEN s[i] ELSE t[i - Len(s)]
    BY ConcatProperties
  <2>2. \A i \in 1..Len(s) : i \in 1..Len(s) + Len(t) /\ i <= Len(s)
    BY <1>1
  <2>. QED
    BY <2>1, <2>2
<1>. QED
  BY <1>1, <1>2 DEF IsPrefix

\* One step: a stream that is cut, by a close only, keeps all the kernel has of it.
LEMMA StepGrows ==
  ASSUME StreamInv, [Next]_vars, NEW c \in Clients
  PROVE  IF peer'[c] = "closed" THEN IsPrefix(got[c], Stream(c)') ELSE IsPrefix(Stream(c), Stream(c)')
<1>1. IInv /\ IInv' /\ TypeOK /\ Descriptors /\ Registered /\ Quiet
  BY NextIInv DEF StreamInv, IInv
<1>2. /\ Stream(c) \in Seq(Cell) /\ IsPrefix(Stream(c), Stream(c)) /\ got[c] \in Seq(Cell)
      /\ IsPrefix(got[c], Stream(c))
  <2>1. Stream(c) \in Seq(Cell) /\ got[c] \in Seq(Cell)
    BY <1>1, StreamType
  <2>2. CASE peer[c] = "open"
    <3>1. PICK fd \in handlers : conn[fd] = c
      BY <1>1, <2>2, OpenHasFd
    <3>2. fd \in Fds /\ Stream(c) = got[c] \o write_buf[fd]
      BY <1>1, <3>1, StreamOf
    <3>3. write_buf[fd] \in Seq(Cell)
      BY <1>1, <3>2 DEF TypeOK, ServerTypeOK
    <3>. QED
      BY <2>1, <3>2, <3>3, PrefixOfConcat, PrefixOfSelf
  <2>3. CASE peer[c] # "open"
    BY <1>1, <2>1, <2>3, StreamOf, PrefixOfSelf
  <2>. QED
    BY <2>1, <2>2, <2>3, PrefixOfSelf
<1>3. CASE Stream(c)' = Stream(c)
  BY <1>2, <1>3
<1>4. CASE \E d \in Clients : Outside(ClientStep(d))
  BY <1>1, <1>3, <1>4, ClientStreams, SameStreams
<1>5. CASE UNCHANGED <<handlers, conn, got, write_buf, ws_clients, status, lost, peer>>
  BY <1>1, <1>3, <1>5, SameStreams
<1>6. CASE AcceptOne
  BY <1>1, <1>3, <1>6, AcceptStreams
<1>7. CASE SendSome
  BY <1>1, <1>3, <1>7, SendStreams
<1>8. CASE EndBatch
  <2>1. /\ peer'[c] = IF \E fd \in pending_closes : conn[fd] = c THEN "closed" ELSE peer[c]
        /\ Stream(c)' = IF \E fd \in pending_closes : conn[fd] = c THEN got[c] ELSE Stream(c)
    BY <1>1, <1>8, EndStreams
  <2>. QED
    BY <1>2, <2>1, PrefixOfSelf
<1>9. CASE HandshakeDone \/ FrameText \/ FramePing
  <2>1. /\ cur \in handlers /\ UNCHANGED <<handlers, conn, got, peer>>
        /\ Upgrade \/ \E m \in Message, S \in SUBSET ws_clients : Reply(m, S)
    BY <1>9, DriveSays
  <2>2. PICK m \in Message, S \in SUBSET handlers : Output(m, S)
    BY <1>1, <2>1, ReplyType, StreamOf DEF Upgrade, Reply, Registered
  <2>3. Stream(c)' = Stream(c) \/ Stream(c)' = Stream(c) \o Cells(m)
    BY <1>1, <2>1, <2>2, OutputStreams
  <2>4. IsPrefix(Stream(c), Stream(c) \o Cells(m))
    BY <1>2, CellsType, PrefixOfConcat
  <2>5. CASE peer'[c] = "closed"
    <3>1. ~\E fd \in {cur} \cup S : conn[fd] = c
      BY <1>1, <2>1, <2>5 DEF Descriptors
    <3>2. Stream(c)' = Stream(c)
      BY <1>1, <2>1, <2>2, <3>1, OutputStreams
    <3>. QED
      BY <1>3, <3>2
  <2>. QED
    BY <1>2, <2>3, <2>4, <2>5
<1>10. CASE UNCHANGED vars
  BY <1>5, <1>10 DEF vars, sockets, table, history
<1>. QED
  BY <1>4, <1>5, <1>6, <1>7, <1>8, <1>9, <1>10, StreamSplit DEF Next, WorldStep

\* What the kernel took is never taken back, and nothing is put before or within
\* what a stream holds (append_outgoing, flush_writes, process_close_queue).
THEOREM StreamsGrow == Spec => StreamsOnlyGrow
<1>1. StreamInv /\ [Next]_vars
      => [\A c \in Clients : IF peer'[c] = "closed" THEN IsPrefix(got[c], Stream(c)')
                                                   ELSE IsPrefix(Stream(c), Stream(c)')]_vars
  BY StepGrows
<1>. QED
  BY <1>1, StreamInvariance, PTL DEF Spec, StreamsOnlyGrow

-----------------------------------------------------------------------------
(* The room *)

Members == {conn[fd] : fd \in ws_clients}
Feed    == [c \in Clients |-> Stream(c)]
Passed  == [c \in Clients |-> Len(got[c])]

\* The steps of the room in terms of the reactor's state.
LEMMA RoomStarts ==
  ASSUME Members = {}, Feed = [c \in Clients |-> <<>>], Passed = [c \in Clients |-> 0], lost = {}
  PROVE  Room!RoomInit
BY DEF Room!RoomInit, Members, Feed, Passed

\* A step that adds a member and its welcome is one of the room.
LEMMA RoomJoin ==
  ASSUME NEW p \in Clients, p \notin Members \cup lost, Feed[p] = <<>>,
         Members' = Members \cup {p}, Feed' = [Feed EXCEPT ![p] = Cells(Switch(p))],
         Passed' = Passed, lost' = lost
  PROVE  Room!RoomNext
<1>1. Room!Join(p)
  BY DEF Room!Join, Members, Feed, Passed
<1>. QED
  BY <1>1 DEF Room!RoomNext

\* u is told to everybody, or to u.from alone, but for those in left.
LEMMA RoomTell ==
  ASSUME NEW u \in Numbered(Texts) \cup Numbered({"pong"}), u.from \in Members,
         NEW S, S = IF u \in Numbered(Texts) THEN Members ELSE {u.from},
         NEW left \in SUBSET S,
         Feed' = [p \in Clients |-> IF p \in S \ left THEN Feed[p] \o Cells(u) ELSE Feed[p]],
         Members' = Members, Passed' = Passed, lost' = lost \cup left
  PROVE  Room!RoomNext
<1>1. Room!Tell(S, u)
  BY DEF Room!Tell, Members, Feed, Passed
<1>2. CASE u \in Numbered(Texts)
  <2>1. Room!Say(u)
    BY <1>1, <1>2 DEF Room!Say, Members
  <2>. QED
    BY <1>2, <2>1 DEF Room!RoomNext
<1>3. CASE u \notin Numbered(Texts)
  <2>1. Room!Answer(u)
    BY <1>1, <1>3 DEF Room!Answer, Members
  <2>. QED
    BY <1>3, <2>1 DEF Room!RoomNext
<1>. QED
  BY <1>2, <1>3

\* A step that passes on some of the feed of a member is one of the room.
LEMMA RoomPass ==
  ASSUME NEW p \in Clients, p \in Members, NEW n \in 1..Len(Feed[p]),
         Passed[p] + n <= Len(Feed[p]), Passed' = [Passed EXCEPT ![p] = @ + n],
         Members' = Members, Feed' = Feed, lost' = lost
  PROVE  Room!RoomNext
<1>1. Room!Pass(p, n)
  BY DEF Room!Pass, Members, Feed, Passed
<1>. QED
  BY <1>1 DEF Room!RoomNext, Feed

\* A step in which members leave, all marked ones among them, is one of the room.
LEMMA RoomLeave ==
  ASSUME NEW S \in SUBSET Members, lost \cap Members \subseteq S, Members' = Members \ S,
         Feed' = [p \in Clients |-> IF p \in S THEN SubSeq(Feed[p], 1, Passed[p]) ELSE Feed[p]],
         Passed' = Passed, lost' = lost
  PROVE  Room!RoomNext
<1>1. Room!Leave(S)
  BY DEF Room!Leave, Members, Feed, Passed
<1>. QED
  BY <1>1 DEF Room!RoomNext, Members

\* A step that leaves members, feeds, what was passed and marks is a stutter of the room.
LEMMA RoomStays ==
  ASSUME Members' = Members, Feed' = Feed, Passed' = Passed, lost' = lost
  PROVE  UNCHANGED Room!room
BY DEF Room!room, Members, Feed, Passed

\* Each step of the reactor is one of them.
LEMMA SameRoom ==
  ASSUME \A c \in Clients : Stream(c)' = Stream(c), UNCHANGED <<got, ws_clients, lost>>,
         \A fd \in ws_clients : conn'[fd] = conn[fd]
  PROVE  UNCHANGED Room!room
<1>1. Members' = Members
  BY DEF Members
<1>2. Feed' = Feed
  BY DEF Feed
<1>3. Passed' = Passed
  BY DEF Passed
<1>. QED
  BY <1>1, <1>2, <1>3, RoomStays

\* The upgrade is a join.
LEMMA UpgradeJoins ==
  ASSUME StreamInv, IInv', cur \in handlers, UNCHANGED <<handlers, conn, got, peer>>, Upgrade
  PROVE  Room!RoomNext
<1>1. TypeOK /\ Descriptors /\ Registered
  BY DEF StreamInv, IInv
<1>2. /\ conn[cur] \in Clients /\ Stream(conn[cur]) = <<>> /\ conn[cur] \notin lost
      /\ \A c \in Clients : Stream(c)' = IF c = conn[cur] THEN Cells(Switch(c)) ELSE Stream(c)
      /\ UNCHANGED lost
  BY UpgradeStreams
<1>3. conn[cur] \notin Members \cup lost
  <2>1. cur \notin ws_clients /\ \A fd \in ws_clients : fd \in handlers
    BY <1>1 DEF Upgrade, Registered
  <2>. QED
    BY <1>1, <1>2, <2>1 DEF Members, Descriptors
<1>4. Members' = Members \cup {conn[cur]}
  BY DEF Upgrade, Members
<1>5. Feed[conn[cur]] = <<>> /\ Feed' = [Feed EXCEPT ![conn[cur]] = Cells(Switch(conn[cur]))]
  BY <1>2 DEF Feed
<1>6. Passed' = Passed
  BY DEF Passed
<1>. QED
  BY <1>2, <1>3, <1>4, <1>5, <1>6, RoomJoin

\* An answer is told: a text to all members, a pong to its client, and who misses it is marked.
LEMMA ReplyTells ==
  ASSUME StreamInv, IInv', cur \in handlers, UNCHANGED <<handlers, conn, got, peer>>,
         NEW m \in Message, NEW S \in SUBSET ws_clients, Reply(m, S)
  PROVE  Room!RoomNext
<1> DEFINE T == {cur} \cup S
           told == {conn[fd] : fd \in T}
           left == {conn[fd] : fd \in {t \in T : ~Fits(t, m)}}
<1>1. IInv /\ Descriptors /\ Registered
  BY DEF StreamInv, IInv
<1>2. /\ T \subseteq ws_clients /\ T \subseteq handlers /\ Output(m, S)
      /\ m.from = conn[cur] /\ cur \in ws_clients /\ UNCHANGED ws_clients
  BY <1>1 DEF Reply, Registered
<1>3. \A c \in Clients : Stream(c)' = IF \E fd \in T : conn[fd] = c /\ Fits(fd, m)
                                      THEN Stream(c) \o Cells(m) ELSE Stream(c)
  BY <1>1, <1>2, OutputStreams DEF Registered
<1>4. \A c \in Clients : (\E fd \in T : conn[fd] = c /\ Fits(fd, m)) <=> c \in told \ left
  BY <1>1, <1>2 DEF Descriptors
<1>5. /\ m \in Numbered(Texts) \cup Numbered({"pong"})
      /\ told = IF m \in Numbered(Texts) THEN Members ELSE {m.from}
  <2>1. CASE m \in Numbered(Texts) /\ S = ws_clients
    BY <1>2, <2>1 DEF Members
  <2>2. CASE m \in Numbered({"pong"}) /\ S = {}
    <3>1. m.kind = "pong"
      BY <2>2 DEF Numbered
    <3>2. m \notin Numbered(Texts)
      BY <3>1 DEF Numbered, Texts
    <3>3. told = {m.from}
      BY <1>2, <2>2
    <3>. QED
      BY <2>2, <3>2, <3>3
  <2>. QED
    BY <2>1, <2>2 DEF Reply
<1>6. left \subseteq told
  OBVIOUS
<1>7. m.from \in Members /\ Members' = Members
  BY <1>2 DEF Members
<1>8. Feed' = [p \in Clients |-> IF p \in told \ left THEN Feed[p] \o Cells(m) ELSE Feed[p]]
  <2> HIDE DEF told, left
  <2>. QED
    BY <1>3, <1>4 DEF Feed
<1>9. Passed' = Passed
  BY DEF Passed
<1>10. lost' = lost \cup left
  BY <1>2 DEF Output
<1> HIDE DEF T, told, left
<1>. QED
  BY <1>5, <1>6, <1>7, <1>8, <1>9, <1>10, RoomTell

\* send() passes on some of a feed.
LEMMA SendPasses ==
  ASSUME StreamInv, IInv', SendSome
  PROVE  Room!RoomNext
<1>1. IInv /\ TypeOK /\ Descriptors
  BY DEF StreamInv, IInv
<1>2. PICK n \in Nat \ {0} :
        /\ n <= Len(write_buf[cur])
        /\ got' = [got EXCEPT ![conn[cur]] = @ \o SubSeq(write_buf[cur], 1, n)]
  BY <1>1, SendStreams
<1>3. cur \in handlers /\ cur \in ws_clients /\ \A c \in Clients : Stream(c)' = Stream(c)
  BY <1>1, SendStreams, SendServes
<1>4. PICK p \in Clients : p = conn[cur]
  BY <1>1, <1>3, StreamOf
<1>5. /\ cur \in Fds /\ Stream(p) = got[p] \o write_buf[cur]
      /\ got \in [Clients -> Seq(Cell)] /\ write_buf[cur] \in Seq(Cell)
  BY <1>1, <1>3, <1>4, StreamOf DEF TypeOK, SocketsTypeOK, ServerTypeOK
<1>6. Len(got[p]) \in Nat /\ Len(write_buf[cur]) \in Nat
  BY <1>5, LenProperties
<1>7. Len(Stream(p)) = Len(got[p]) + Len(write_buf[cur])
  BY <1>5, ConcatProperties
<1>8. n \in 1..Len(Feed[p]) /\ Passed[p] + n <= Len(Feed[p])
  <2>1. Feed[p] = Stream(p) /\ Passed[p] = Len(got[p])
    BY DEF Feed, Passed
  <2>2. n \in 1..Len(Stream(p)) /\ Len(got[p]) + n <= Len(Stream(p))
    <3>1. \A a, b \in Nat : n <= b => n \in 1..a + b /\ a + n <= a + b
      OBVIOUS
    <3>2. n <= Len(write_buf[cur])
      BY <1>2
    <3>. QED
      BY <1>6, <1>7, <3>1, <3>2, Zenon
  <2>. QED
    BY <2>1, <2>2, Zenon
<1>9. Passed' = [Passed EXCEPT ![p] = @ + n]
  <2>1. SubSeq(write_buf[cur], 1, n) \in Seq(Cell) /\ Len(SubSeq(write_buf[cur], 1, n)) = n
    BY <1>2, <1>5, PieceType
  <2>2. Len(got[p] \o SubSeq(write_buf[cur], 1, n)) = Len(got[p]) + n
    BY <1>5, <2>1, ConcatProperties
  <2>3. \A c \in Clients : Len(got'[c]) = IF c = p THEN Len(got[c]) + n ELSE Len(got[c])
    BY <1>2, <1>4, <1>5, <2>2
  <2>. QED
    BY <2>3 DEF Passed
<1>10. Members' = Members /\ lost' = lost
  BY DEF SendSome, SysSend, history, Members
<1>11. Feed' = Feed
  BY <1>3 DEF Feed
<1>12. p \in Members
  BY <1>3, <1>4 DEF Members
<1>. QED
  BY <1>8, <1>9, <1>10, <1>11, <1>12, RoomPass

\* The members among the connections that are closed leave, and all marked ones are among them.
LEMMA EndLeaves ==
  ASSUME StreamInv, IInv', EndBatch
  PROVE  Room!RoomNext
<1> DEFINE S == {conn[fd] : fd \in pending_closes \cap ws_clients}
<1>1. IInv /\ TypeOK /\ Descriptors /\ Registered /\ Quiet /\ Doomed
  BY DEF StreamInv, IInv
<1>2. /\ pending_closes \subseteq handlers /\ handlers' = handlers \ pending_closes
      /\ ws_clients' = ws_clients \ pending_closes /\ UNCHANGED <<got, lost>>
      /\ \A fd \in handlers' : conn'[fd] = conn[fd]
      /\ \A c \in Clients :
           Stream(c)' = IF \E fd \in pending_closes : conn[fd] = c THEN got[c] ELSE Stream(c)
  BY <1>1, EndStreams
<1>3. ws_clients \subseteq handlers /\ \A f, g \in handlers : conn[f] = conn[g] => f = g
  BY <1>1 DEF Registered, Descriptors
<1>4. S \subseteq Members /\ lost \cap Members \subseteq S
  BY <1>1, <1>3 DEF Members, Doomed
<1>5. Members' = Members \ S
  <2>1. \A fd \in ws_clients' : fd \in handlers' /\ conn'[fd] = conn[fd]
    BY <1>2, <1>3
  <2>2. \A fd \in ws_clients : conn[fd] \in S <=> fd \in pending_closes
    BY <1>2, <1>3
  <2>3. Members' = {conn[fd] : fd \in ws_clients \ pending_closes}
    BY <1>2, <2>1 DEF Members
  <2> HIDE DEF S
  <2>. QED
    BY <2>2, <2>3 DEF Members
<1>6. ASSUME NEW c \in Clients
      PROVE  Stream(c)' = IF c \in S THEN SubSeq(Stream(c), 1, Len(got[c])) ELSE Stream(c)
  <2>1. CASE \E fd \in pending_closes : conn[fd] = c
    <3>1. PICK fd \in pending_closes : conn[fd] = c
      BY <2>1
    <3>2. fd \in handlers /\ fd \in Fds /\ Stream(c) = got[c] \o write_buf[fd]
      BY <1>1, <1>2, <3>1, StreamOf
    <3>3. got[c] \in Seq(Cell) /\ write_buf[fd] \in Seq(Cell)
      BY <1>1, <3>2 DEF TypeOK, SocketsTypeOK, ServerTypeOK
    <3>4. CASE fd \in ws_clients
      <4>1. SubSeq(got[c] \o write_buf[fd], 1, Len(got[c])) = got[c]
        BY <3>3, FrontOfConcat
      <4>2. c \in S
        BY <3>1, <3>4
      <4>. QED
        BY <1>2, <2>1, <3>2, <4>1, <4>2
    <3>5. CASE fd \notin ws_clients
      <4>1. status[fd] = "UNCONNECT"
        BY <1>1, <3>2, <3>5 DEF Registered, TypeOK, ServerTypeOK
      <4>2. got[c] = <<>> /\ write_buf[fd] = <<>>
        BY <1>1, <3>1, <3>2, <4>1 DEF Quiet
      <4>3. <<>> \o <<>> = <<>>
        BY ConcatEmptySeq, EmptySeq
      <4>4. c \notin S
        BY <1>3, <3>1, <3>2, <3>5
      <4>. QED
        BY <1>2, <2>1, <3>2, <4>2, <4>3, <4>4
    <3>. QED
      BY <3>4, <3>5
  <2>2. CASE ~\E fd \in pending_closes : conn[fd] = c
    <3>1. c \notin S
      BY <2>2
    <3>. QED
      BY <1>2, <2>2, <3>1
  <2>. QED
    BY <2>1, <2>2
<1>7. Feed' = [p \in Clients |-> IF p \in S THEN SubSeq(Feed[p], 1, Passed[p]) ELSE Feed[p]]
  <2> HIDE DEF S
  <2>. QED
    BY <1>6 DEF Feed, Passed
<1>8. Passed' = Passed /\ lost' = lost
  BY <1>2 DEF Passed
<1> HIDE DEF S
<1>. QED
  BY <1>4, <1>5, <1>7, <1>8, RoomLeave

\* The reactor starts as the room does, and each of its steps is a step of the
\* room or changes nothing in it.
THEOREM RoomInitially == Init => Room!RoomInit
<1>. SUFFICES ASSUME Init PROVE Room!RoomInit
  OBVIOUS
<1>1. ws_clients = {} /\ lost = {} /\ \A c \in Clients : Stream(c) = <<>> /\ got[c] = <<>>
  BY DEF Init, SocketsInit, ReactorInit, Stream
<1>2. Members = {}
  BY <1>1 DEF Members
<1>3. Feed = [c \in Clients |-> <<>>] /\ Passed = [c \in Clients |-> 0]
  BY <1>1, EmptySeq DEF Feed, Passed
<1>. QED
  BY <1>1, <1>2, <1>3, RoomStarts

\* Each step of the reactor is a step of the room or changes nothing in it.
THEOREM RoomSteps == StreamInv /\ [Next]_vars => [Room!RoomNext]_Room!room
<1>. SUFFICES ASSUME StreamInv, [Next]_vars PROVE Room!RoomNext \/ UNCHANGED Room!room
  BY Zenon
<1>1. IInv /\ IInv' /\ Quiet
  BY NextIInv DEF StreamInv
<1>2. CASE UNCHANGED <<handlers, conn, got, write_buf, ws_clients, lost>>
  BY <1>1, <1>2, SameStreams, SameRoom
<1>3. CASE \E c \in Clients : Outside(ClientStep(c))
  BY <1>1, <1>2, <1>3, ClientStreams
<1>4. CASE AcceptOne
  BY <1>1, <1>4, AcceptStreams, AcceptFacts, SameRoom
<1>5. CASE SendSome
  BY <1>1, <1>5, SendPasses
<1>6. CASE EndBatch
  BY <1>1, <1>6, EndLeaves
<1>7. CASE HandshakeDone \/ FrameText \/ FramePing
  BY <1>1, <1>7, DriveSays, UpgradeJoins, ReplyTells
<1>8. CASE UNCHANGED vars
  BY <1>2, <1>8 DEF vars, sockets, table, history
<1>. QED
  BY <1>2, <1>3, <1>4, <1>5, <1>6, <1>7, <1>8, StreamSplit DEF Next, WorldStep

\* For any clients, descriptors and limits the reactor implements the room: one
\* feed per member that only grows, every text told to all members in one step,
\* nobody passed over unmarked, and no marked member left behind (Network_Interface
\* with its Websocket_Handlers).
THEOREM ReactorImplementsRoom == Spec => ImplementsRoom
<1>1. StreamInv /\ [Next]_vars => [Room!RoomNext]_Room!room
  BY RoomSteps
<1>. QED
  BY <1>1, RoomInitially, StreamInvariance, PTL DEF Spec, ImplementsRoom, Room!RoomSpec
=============================================================================
