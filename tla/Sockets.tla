------------------------------ MODULE Sockets ------------------------------
(***************************************************************************)
(* What the reactor in src/src/websocket_master asks of the kernel and of  *)
(* the clients behind it: a listening socket with a backlog, one byte      *)
(* stream in each direction per connection, FIN and RST, and file          *)
(* descriptors that accept() takes lowest first and close() gives back.    *)
(* None of it is code of the repository: every definition here is external *)
(* and follows the system calls network_interface.cpp and                  *)
(* websocket_handler.cpp make.                                             *)
(*                                                                         *)
(* Data is abstracted to cells.  A message (an HTTP upgrade request, a     *)
(* frame) is cut into Size[kind] cells that travel one by one, so reads    *)
(* and writes end in the middle of a message exactly as byte counts do in  *)
(* the program; every buffer limit of the program is a number of cells.    *)
(***************************************************************************)
EXTENDS Naturals, Sequences, FiniteSets

CONSTANTS
  Clients,        \* the clients; each connects at most once
  NoClient,       \* "this descriptor is not a connection"
  Fds,            \* descriptors left for connections under RLIMIT_NOFILE
  ListenFd,       \* the listening socket
  May,            \* May[c]: the kinds of message c may send, and how it may end
  Size,           \* cells per message, by kind
  MaxSends,       \* bound: MaxSends[c] numbered messages of c
  RecvWindow,     \* cells the server's socket receive buffer holds
  SendWindow,     \* cells the server's socket send buffer holds
  ListenBacklog   \* LISTEN_BACKLOG

Requests == {"hello", "badHello"}
Texts    == {"text", "long"}
Frames   == Texts \cup {"ping", "close", "other", "broken"}
Replies  == {"switch", "pong"}
Kinds    == Requests \cup Frames \cup Replies

ASSUME SocketsAssumption ==
  /\ NoClient \notin Clients
  /\ Fds \subseteq Nat
  /\ ListenFd \in Nat \ Fds
  /\ May \in [Clients -> SUBSET (Requests \cup Frames \cup {"fin", "rst"})]
  /\ Size \in [Kinds -> Nat \ {0}]
  /\ MaxSends \in [Clients -> Nat]
  /\ {RecvWindow, SendWindow, ListenBacklog} \subseteq Nat \ {0}

VARIABLES
  backlog,    \* connections established and not accepted yet, oldest first
  peer,       \* peer[c]: where the connection of c stands
  writing,    \* writing[c]: the cells of its current message c has yet to write
  toServer,   \* toServer[c]: received by the server's kernel, not read yet
  fin,        \* fin[c]: c has shut down its sending side
  rst,        \* rst[c]: the connection was reset
  unread,     \* unread[c]: cells sent to c that c has not taken yet
  got,        \* got[c]: history, every cell the kernel took from the server for c
  sent,       \* sent[c]: history, the kinds of the numbered messages of c
  conn        \* conn[fd]: the client behind the descriptor

sockets == <<backlog, peer, writing, toServer, fin, rst, unread, got, sent, conn>>

Message == [kind : Kinds, from : Clients, no : Nat]
Cell    == [msg : Message, part : Nat]

\* The cells a message is cut into.
Cells(m) == [i \in 1..Size[m.kind] |-> [msg |-> m, part |-> i]]

Lesser(a, b) == IF a <= b THEN a ELSE b

SocketsTypeOK ==
  /\ backlog  \in Seq(Clients)
  /\ peer     \in [Clients -> {"idle", "queued", "open", "closed"}]
  /\ writing  \in [Clients -> Seq(Cell)]
  /\ toServer \in [Clients -> Seq(Cell)]
  /\ fin      \in [Clients -> BOOLEAN]
  /\ rst      \in [Clients -> BOOLEAN]
  /\ unread   \in [Clients -> 0..SendWindow]
  /\ got      \in [Clients -> Seq(Cell)]
  /\ sent     \in [Clients -> Seq(Kinds)]
  /\ conn     \in [Fds -> Clients \cup {NoClient}]

SocketsInit ==
  /\ backlog  = <<>>
  /\ peer     = [c \in Clients |-> "idle"]
  /\ writing  = [c \in Clients |-> <<>>]
  /\ toServer = [c \in Clients |-> <<>>]
  /\ fin      = [c \in Clients |-> FALSE]
  /\ rst      = [c \in Clients |-> FALSE]
  /\ unread   = [c \in Clients |-> 0]
  /\ got      = [c \in Clients |-> <<>>]
  /\ sent     = [c \in Clients |-> <<>>]
  /\ conn     = [fd \in Fds |-> NoClient]

-----------------------------------------------------------------------------
(* The clients *)

Connected(c) == peer[c] \in {"queued", "open"} /\ ~rst[c]

\* connect(): the kernel completes the TCP handshake, accept() comes later.
Connect(c) ==
  /\ peer[c] = "idle"
  /\ Len(backlog) < ListenBacklog
  /\ backlog' = Append(backlog, c)
  /\ peer' = [peer EXCEPT ![c] = "queued"]
  /\ UNCHANGED <<writing, toServer, fin, rst, unread, got, sent, conn>>

\* A client opens with an upgrade request and sends frames after it, without
\* waiting for the 101.  Frames the server ignores are not numbered, so that
\* a client may send them for ever.
Send(c, k) ==
  LET n == IF k = "other" THEN 0 ELSE Len(sent[c]) + 1 IN
  /\ Connected(c)
  /\ ~fin[c]
  /\ writing[c] = <<>>
  /\ k \in Requests <=> sent[c] = <<>>
  /\ n <= MaxSends[c]
  /\ writing' = [writing EXCEPT ![c] = Cells([kind |-> k, from |-> c, no |-> n])]
  /\ sent' = [sent EXCEPT ![c] = IF k = "other" THEN @ ELSE Append(@, k)]
  /\ UNCHANGED <<backlog, peer, toServer, fin, rst, unread, got, conn>>

\* The next cell of the message reaches the server's kernel.
Arrive(c) ==
  /\ Connected(c)
  /\ writing[c] # <<>>
  /\ Len(toServer[c]) < RecvWindow
  /\ toServer' = [toServer EXCEPT ![c] = Append(@, Head(writing[c]))]
  /\ writing' = [writing EXCEPT ![c] = Tail(@)]
  /\ UNCHANGED <<backlog, peer, fin, rst, unread, got, sent, conn>>

\* FIN, perhaps in the middle of a message; the client still reads.
Shutdown(c) ==
  /\ Connected(c)
  /\ ~fin[c]
  /\ "fin" \in May[c]
  /\ fin' = [fin EXCEPT ![c] = TRUE]
  /\ writing' = [writing EXCEPT ![c] = <<>>]
  /\ UNCHANGED <<backlog, peer, toServer, rst, unread, got, sent, conn>>

\* RST: what the server's kernel holds for the server can still be read.
Reset(c) ==
  /\ Connected(c)
  /\ "rst" \in May[c]
  /\ rst' = [rst EXCEPT ![c] = TRUE]
  /\ writing' = [writing EXCEPT ![c] = <<>>]
  /\ unread' = [unread EXCEPT ![c] = 0]
  /\ UNCHANGED <<backlog, peer, toServer, fin, got, sent, conn>>

\* The client takes one cell, which reopens the send window.
Receive(c) ==
  /\ Connected(c)
  /\ unread[c] > 0
  /\ unread' = [unread EXCEPT ![c] = @ - 1]
  /\ UNCHANGED <<backlog, peer, writing, toServer, fin, rst, got, sent, conn>>

ClientStep(c) ==
  \/ Connect(c)
  \/ \E k \in May[c] \cap Kinds : Send(c, k)
  \/ Arrive(c)
  \/ Shutdown(c)
  \/ Reset(c)
  \/ Receive(c)

-----------------------------------------------------------------------------
(* The system calls of the server *)

FreeFds == {fd \in Fds : conn[fd] = NoClient}

\* Readable and writable as epoll reports them.
Readable(c) == toServer[c] # <<>> \/ fin[c] \/ rst[c]
SendSpace(c) == SendWindow - unread[c]
Writable(c) == SendSpace(c) > 0 \/ rst[c]

\* accept() with a connection waiting and a descriptor free.
SysAccept(fd) ==
  /\ backlog # <<>>
  /\ fd \in FreeFds
  /\ \A other \in FreeFds : fd <= other
  /\ conn' = [conn EXCEPT ![fd] = Head(backlog)]
  /\ peer' = [peer EXCEPT ![Head(backlog)] = "open"]
  /\ backlog' = Tail(backlog)
  /\ UNCHANGED <<writing, toServer, fin, rst, unread, got, sent>>

\* read() takes the first n cells.
SysRead(c, n) ==
  /\ toServer' = [toServer EXCEPT ![c] = SubSeq(@, n + 1, Len(@))]
  /\ UNCHANGED <<backlog, peer, writing, fin, rst, unread, got, sent, conn>>

\* send() takes the cells of s.
SysSend(c, s) ==
  /\ got' = [got EXCEPT ![c] = @ \o s]
  /\ unread' = [unread EXCEPT ![c] = @ + Len(s)]
  /\ UNCHANGED <<backlog, peer, writing, toServer, fin, rst, sent, conn>>

\* close() of a set of descriptors.
SysClose(S) ==
  LET gone == {conn[fd] : fd \in S} \ {NoClient}
      Emptied(q) == [c \in Clients |-> IF c \in gone THEN <<>> ELSE q[c]] IN
  /\ conn' = [fd \in Fds |-> IF fd \in S THEN NoClient ELSE conn[fd]]
  /\ peer' = [c \in Clients |-> IF c \in gone THEN "closed" ELSE peer[c]]
  /\ writing' = Emptied(writing)
  /\ toServer' = Emptied(toServer)
  /\ unread' = [c \in Clients |-> IF c \in gone THEN 0 ELSE unread[c]]
  /\ UNCHANGED <<backlog, fin, rst, got, sent>>
=============================================================================
