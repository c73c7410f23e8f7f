------------------------------ MODULE Delivery ------------------------------
(***************************************************************************)
(* What the reactor delivers: the stream of each client, as it left the    *)
(* process and as it still stands in the write buffer, seen as frames; the *)
(* room it implements; and what must eventually happen when the process is *)
(* scheduled.                                                              *)
(***************************************************************************)
EXTENDS Reactor, SequencesExt

FdOf(c) == CHOOSE fd \in handlers : conn[fd] = c

\* Everything put in the stream of c and not thrown away.
Stream(c) == IF peer[c] = "open" THEN got[c] \o write_buf[FdOf(c)] ELSE got[c]

\* Where messages begin in a sequence of cells: all, the texts, and those c is told of what it sent.
Heads(s) == {i \in DOMAIN s : s[i].part = 1}
TextsIn(s) == {i \in Heads(s) : s[i].msg.kind \in Texts}
OwnIn(c, s) == {i \in Heads(s) : s[i].msg.from = c /\ s[i].msg.kind # "switch"}

Heard(s, m) == \E i \in TextsIn(s) : s[i].msg = m

\* What a text and a ping are answered with.
Answerable == Texts \cup {"ping"}
AnswerTo(k) == IF k = "ping" THEN "pong" ELSE k

\* Message k of c needs no answer, or has got one in s.
Answered(c, k, s) == sent[c][k] \in Answerable => \E i \in OwnIn(c, s) : s[i].msg.no = k

-----------------------------------------------------------------------------
(* Invariants of the streams *)

\* The stream of a client is a sequence of whole frames, never interleaved with
\* each other, whatever partial sends, broadcasts and refused frames did; only
\* the end of a connection cuts the last one.  The upgrade response is the
\* first of them and does not come again.
WellFramed ==
  \A c \in Clients :
    LET s == Stream(c) IN
    /\ s # <<>> => s[1] = Cells(Switch(c))[1]
    /\ \A i \in 2..Len(s) :
         IF s[i].part = 1
         THEN s[i].msg.kind # "switch" /\ s[i-1].part = Size[s[i-1].msg.kind]
         ELSE s[i].msg = s[i-1].msg /\ s[i].part = s[i-1].part + 1
    /\ peer[c] = "open" /\ s # <<>> => Last(s).part = Size[Last(s).msg.kind]

\* The texts in s are among those handled after the first n, and in the order of their handling.
InLogOrder(s, n) ==
  /\ \A i \in TextsIn(s) : \E k \in n + 1..Len(log) : log[k] = s[i].msg
  /\ \A i, j \in TextsIn(s) : \A k, l \in DOMAIN log :
       log[k] = s[i].msg /\ log[l] = s[j].msg /\ i < j => k < l

\* s leaves out no text handled after the first n and before one that is in it.
NoGaps(s, n) == \A k, l \in n + 1..Len(log) : k < l /\ Heard(s, log[l]) => Heard(s, log[k])

\* A text is handled once, and all clients see the texts in one order, that of their handling: the
\* stream of a registered client holds exactly those handled since it registered; that of a client
\* that is gone, a first part of them.  Only where a frame had to be dropped are there gaps, and the
\* order still holds.
OneOrder ==
  /\ \A k, l \in DOMAIN log : log[k] = log[l] => k = l
  /\ \A c \in Clients :
       /\ InLogOrder(Stream(c), joined[c])
       /\ c \notin lost => NoGaps(Stream(c), joined[c])
       /\ c \notin lost /\ (\E fd \in ws_clients : conn[fd] = c)
            => \A k \in joined[c] + 1..Len(log) : Heard(Stream(c), log[k])

\* A client's texts and pings are answered in the order in which it sent them, each with its own kind
\* of answer and once, however its bytes were cut into reads; and none is left out before one that was
\* answered, unless a frame had to be dropped.
AnswersInOrder ==
  \A c \in Clients :
    LET s == Stream(c) IN
    /\ \A i \in OwnIn(c, s) :
         /\ s[i].msg.no \in 1..Len(sent[c]) /\ sent[c][s[i].msg.no] \in Answerable
         /\ s[i].msg.kind = AnswerTo(sent[c][s[i].msg.no])
    /\ \A i, j \in OwnIn(c, s) : i < j => s[i].msg.no < s[j].msg.no
    /\ c \notin lost => \A j \in OwnIn(c, s) : \A k \in 1..s[j].msg.no : Answered(c, k, s)

\* Nothing the kernel took is ever taken back, reordered or cut, and what is
\* added to a stream comes after all that was in it; only a close shortens the
\* stream, to what the kernel has.
StreamsOnlyGrow ==
  [][\A c \in Clients : IF peer'[c] = "closed" THEN IsPrefix(got[c], Stream(c)')
                                                ELSE IsPrefix(Stream(c), Stream(c)')]_vars

-----------------------------------------------------------------------------
(* The room *)

Numbered(kinds) == UNION {[kind : kinds, from : {c}, no : 1..MaxSends[c]] : c \in Clients}

Room == INSTANCE ChatRoom WITH
  People  <- Clients,
  Public  <- Numbered(Texts),
  Private <- Numbered({"pong"}),
  Welcome <- Switch,
  Pieces  <- Cells,
  members <- {conn[fd] : fd \in ws_clients},
  feed    <- [c \in Clients |-> Stream(c)],
  passed  <- [c \in Clients |-> Len(got[c])],
  marked  <- lost

\* The reactor implements the room: every step of the server and of the world
\* is a step of the room or changes nothing in it.
ImplementsRoom == Room!RoomSpec

-----------------------------------------------------------------------------
(* Progress *)

\* The process runs whenever it can: its one thread never blocks but in
\* epoll_wait, with nothing to report.
ServerFairness == WF_vars(ServerStep)

\* What a client has begun to write arrives, and a client takes what it is sent.
ClientFairness == \A c \in Clients : WF_vars(Outside(Arrive(c))) /\ WF_vars(Outside(Receive(c)))

FairSpec == Spec /\ ServerFairness /\ ClientFairness

Open(c) == peer[c] = "open"

\* A client that ends its stream or resets the connection is let go.
FinishedIsClosed == \A c \in Clients : Open(c) /\ (fin[c] \/ rst[c]) ~> ~Open(c)

\* A client for which a frame was dropped, or that was queued for closing for
\* any other reason, does not stay.
DoomedIsClosed == \A fd \in Fds : fd \in pending_closes ~> fd \notin handlers

\* What is in a write buffer leaves it or the connection ends: no wakeup for
\* output gets lost between the buffer, the mask and the kernel.
OutputDrains == \A fd \in Fds : write_buf[fd] # <<>> ~> write_buf[fd] = <<>>

\* A text that an upgraded client has written is said to the room, or the
\* connection ends.
TextIsSaid ==
  \A c \in Clients : \A i \in 1..MaxSends[c] :
    Len(sent[c]) >= i /\ sent[c][i] \in Texts
      ~> (\E j \in DOMAIN log : log[j].from = c /\ log[j].no = i) \/ ~Connected(c) \/ fin[c]

-----------------------------------------------------------------------------
(* What the README says, and the code does not do *)

\* src/README.md:105, "Ping: answered with Pong": while the client of a Pong in
\* a write buffer takes what it is sent and its connection lasts, the Pong
\* leaves.  epoll_loop() flushes on EPOLLOUT only when the same event does not
\* say EPOLLIN, so a client that keeps sending is never answered.
PongIsSent ==
  \A c \in Clients : \A i \in 1..MaxSends[c] :
    (\E fd \in handlers : conn[fd] = c /\ \E x \in Range(write_buf[fd]) : x.msg.kind = "pong" /\ x.msg.no = i)
      ~> (\E x \in Range(got[c]) : x.msg.kind = "pong" /\ x.msg.no = i) \/ ~Open(c)

\* src/README.md:104, "text frames are echoed to the sender and broadcast to the
\* other clients": a client's FIN does not take back the text it sent before.
\* When read() returns 0 the loop closes the connection without drive_io(), and
\* the frames read just before are thrown away.
TextBeforeFinIsSaid ==
  [][\A fd \in handlers \ handlers' :
       status[fd] = "HANDSHARKED" /\ ~rst[conn[fd]] /\ conn[fd] \notin lost /\ Whole(read_buf[fd])
         => First(read_buf[fd]).kind \notin Texts]_vars
=============================================================================
