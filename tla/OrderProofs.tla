----------------------------- MODULE OrderProofs -----------------------------
(***************************************************************************)
(* The order of what the server delivers, for any number of clients,       *)
(* descriptors and messages and any limits of its buffers: all clients see *)
(* the texts in the order of their handling, and each client is answered   *)
(* in the order in which it sent.                                          *)
(***************************************************************************)
EXTENDS DeliveryProofs

-----------------------------------------------------------------------------
(* What a client has sent, on its way to drive_io() *)

\* The messages that carry a number: all but those the server ignores.
Counted(s) == {i \in Heads(s) : s[i].msg.kind # "other"}

\* Every message that begins in s goes on until it is complete or s ends, and the next begins behind it.
InFrames(s) ==
  /\ s # <<>> => 1 \in Heads(s)
  /\ \A i \in Heads(s) : \A d \in 0..Size[s[i].msg.kind] :
       i + d <= Len(s) => IF d < Size[s[i].msg.kind] THEN s[i + d] = [msg |-> s[i].msg, part |-> d + 1]
                                                     ELSE i + d \in Heads(s)

\* The last one is complete.
EndsWhole(s) == \A i \in Heads(s) : i + Size[s[i].msg.kind] <= Len(s) + 1

\* The cells of c the server has not handled: read, received, and not written yet.
Input(c) == IF peer[c] = "open" THEN read_buf[FdOf(c)] \o (toServer[c] \o writing[c])
                                ELSE toServer[c] \o writing[c]

\* drive_io() may still look at what c has sent.
Attended(c) ==
  \/ peer[c] \in {"idle", "queued"}
  \/ \E fd \in handlers :
       /\ conn[fd] = c
       /\ fd \notin pending_closes \/ (cur = fd /\ pc \in {"read", "drive"}) \/ \E e \in batch : e.fd = fd

\* The numbers of c that were answered in s, and those of its texts that were handled.
OwnNos(c, s) == {s[i].msg.no : i \in OwnIn(c, s)}
Said(c) == {log[k].no : k \in {l \in DOMAIN log : log[l].from = c}}

\* The first n messages of c are answered, need no answer, or are in s.
Due(c, s, own, n) ==
  \A k \in 1..n : sent[c][k] \in Answerable => k \in own \/ \E j \in Counted(s) : s[j].msg.no = k

\* What is in s of c: whole messages, those it sent and in that order, all of them after those that were
\* handled, and with none missing between, unless a frame for c was dropped.
Incoming(c, s, own, said) ==
  /\ InFrames(s)
  /\ \A i \in Counted(s) : s[i].msg.no \in 1..Len(sent[c]) /\ sent[c][s[i].msg.no] = s[i].msg.kind
  /\ \A i, j \in Counted(s) : i < j => s[i].msg.no < s[j].msg.no
  /\ \A n \in own \cup said : \A i \in Counted(s) : n < s[i].msg.no
  /\ c \notin lost => \A i \in Counted(s) : Due(c, s, own, s[i].msg.no)
  /\ ~fin[c] /\ ~rst[c] => EndsWhole(s) /\ (c \notin lost => Due(c, s, own, Len(sent[c])))

-----------------------------------------------------------------------------
(* The inductive invariant *)

\* OneOrder, of one client.
Told(c, v) ==
  /\ joined[c] <= Len(log)
  /\ InLogOrder(v, joined[c])
  /\ c \notin lost => NoGaps(v, joined[c])
  /\ c \notin lost /\ c \in Members => \A k \in joined[c] + 1..Len(log) : Heard(v, log[k])

\* AnswersInOrder, of one client.
Replied(c, v) ==
  /\ \A i \in OwnIn(c, v) :
       /\ v[i].msg.no \in 1..Len(sent[c]) /\ sent[c][v[i].msg.no] \in Answerable
       /\ v[i].msg.kind = AnswerTo(sent[c][v[i].msg.no])
  /\ \A i, j \in OwnIn(c, v) : i < j => v[i].msg.no < v[j].msg.no
  /\ c \notin lost => \A j \in OwnIn(c, v) : \A k \in 1..v[j].msg.no : Answered(c, k, v)

\* A client sees the texts in order, is answered in order, and what it sent and the server has yet to
\* handle goes on where that ends.
ClientRight(c) ==
  \E s, v \in Seq(Cell), own, said \in SUBSET Nat :
    /\ v = Stream(c) /\ own = OwnNos(c, v) /\ said = Said(c)
    /\ Told(c, v) /\ Replied(c, v)
    /\ Attended(c) => s = Input(c) /\ Incoming(c, s, own, said)

\* Nothing is left to close when the process waits.
Idle == pc = "wait" => pending_closes = {}

\* A text is handled once, and was sent.
LogOnce == \A k, l \in DOMAIN log : log[k] = log[l] => k = l
LogKnown == \A k \in DOMAIN log : log[k].no \in 1..Len(sent[log[k].from])

\* With the invariant of the streams.
OrderInv == StreamInv /\ Idle /\ LogOnce /\ LogKnown /\ \A c \in Clients : ClientRight(c)

-----------------------------------------------------------------------------
(* Heads *)

\* A message put behind a sequence of cells begins once, there.
Extended(u, s, m) ==
  /\ u = s \o Cells(m) /\ Len(s) \in Nat /\ Len(u) = Len(s) + Size[m.kind]
  /\ \A i \in Heads(s) : i \in 1..Len(s) /\ i \in Heads(u) /\ u[i] = s[i]
  /\ \A i \in Heads(u) : i \in Heads(s) \/ i = Len(s) + 1
  /\ Len(s) + 1 \in Heads(u) /\ u[Len(s) + 1].msg = m
  /\ \A i \in 1..Len(s) : u[i] = s[i]
  /\ \A d \in 0..Size[m.kind] - 1 : u[Len(s) + 1 + d] = [msg |-> m, part |-> d + 1]

\* Every sequence of cells can be extended by a message.
LEMMA HeadsAppend ==
  ASSUME NEW s \in Seq(Cell), NEW m \in Message
  PROVE  \E u \in Seq(Cell) : Extended(u, s, m)
<1>1. PICK t \in Seq(Cell) : t = Cells(m) /\ Len(t) \in Nat \ {0} /\ Len(t) = Size[m.kind]
                             /\ \A i \in 1..Len(t) : t[i] = [msg |-> m, part |-> i]
  BY CellAt, CellsType
<1>2. Len(s) \in Nat /\ DOMAIN s = 1..Len(s)
  BY LenProperties
<1>3. PICK u \in Seq(Cell) :
        /\ u = s \o t /\ Len(u) = Len(s) + Len(t)
        /\ \A i \in 1..Len(s) + Len(t) : u[i] = IF i <= Len(s) THEN s[i] ELSE t[i - Len(s)]
  BY Joined
<1>4. DOMAIN u = 1..Len(s) + Len(t)
  BY <1>3, LenProperties
<1>5. \A i \in 1..Len(s) : i \in 1..Len(s) + Len(t) /\ u[i] = s[i]
  BY <1>1, <1>2, <1>3
<1>6. \A d \in 0..Size[m.kind] - 1 :
        Len(s) + 1 + d \in 1..Len(s) + Len(t) /\ u[Len(s) + 1 + d] = [msg |-> m, part |-> d + 1]
  <2>. TAKE d \in 0..Size[m.kind] - 1
  <2>1. /\ Len(s) + 1 + d \in 1..Len(s) + Len(t) /\ ~(Len(s) + 1 + d <= Len(s))
        /\ (Len(s) + 1 + d) - Len(s) = d + 1 /\ d + 1 \in 1..Len(t)
    BY <1>1, <1>2
  <2>2. u[Len(s) + 1 + d] = t[d + 1]
    BY <1>3, <2>1
  <2>. QED
    BY <1>1, <2>1, <2>2
<1>7. /\ Len(s) + 1 \in 1..Len(s) + Len(t) /\ u[Len(s) + 1] = [msg |-> m, part |-> 1]
  <2>1. 0 \in 0..Size[m.kind] - 1 /\ Len(s) + 1 + 0 = Len(s) + 1 /\ 0 + 1 = 1
    BY <1>1, <1>2
  <2>. QED
    BY <1>6, <2>1
<1>8. \A i \in Heads(s) : i \in 1..Len(s) /\ i \in Heads(u) /\ u[i] = s[i]
  BY <1>2, <1>4, <1>5 DEF Heads
<1>9. \A i \in Heads(u) : i \in Heads(s) \/ i = Len(s) + 1
  <2>. TAKE i \in Heads(u)
  <2>1. i \in 1..Len(s) + Len(t) /\ u[i].part = 1
    BY <1>4 DEF Heads
  <2>2. CASE i \in 1..Len(s)
    BY <1>2, <1>5, <2>1, <2>2 DEF Heads
  <2>3. CASE i \notin 1..Len(s)
    <3>1. i - Len(s) - 1 \in 0..Size[m.kind] - 1 /\ Len(s) + 1 + (i - Len(s) - 1) = i
      BY <1>1, <1>2, <2>1, <2>3
    <3>2. u[i] = [msg |-> m, part |-> (i - Len(s) - 1) + 1]
      BY <1>6, <3>1
    <3>3. (i - Len(s) - 1) + 1 = 1
      BY <2>1, <3>2
    <3>. QED
      BY <1>2, <2>1, <3>3
  <2>. QED
    BY <2>2, <2>3
<1>10. Len(s) + 1 \in Heads(u) /\ u[Len(s) + 1].msg = m
  BY <1>4, <1>7 DEF Heads
<1>. QED
  BY <1>1, <1>2, <1>3, <1>5, <1>6, <1>8, <1>9, <1>10 DEF Extended

\* The first part of a sequence of cells.
LEMMA HeadsFront ==
  ASSUME NEW s \in Seq(Cell), NEW t \in Seq(Cell)
  PROVE  /\ Len(s) \in Nat /\ s \o t \in Seq(Cell)
         /\ Len(s \o t) \in Nat /\ Len(s) <= Len(s \o t)
         /\ \A i \in 1..Len(s) : (s \o t)[i] = s[i]
         /\ \A i \in Heads(s) : i \in 1..Len(s) /\ i \in Heads(s \o t)
         /\ \A i \in Heads(s \o t) : i \in 1..Len(s \o t) /\ (i <= Len(s) => i \in Heads(s))
<1>1. Len(s) \in Nat /\ Len(t) \in Nat /\ DOMAIN s = 1..Len(s)
  BY LenProperties
<1>2. PICK u \in Seq(Cell) :
        /\ u = s \o t /\ Len(u) = Len(s) + Len(t)
        /\ \A i \in 1..Len(s) + Len(t) : u[i] = IF i <= Len(s) THEN s[i] ELSE t[i - Len(s)]
  BY Joined
<1>3. DOMAIN u = 1..Len(s) + Len(t)
  BY <1>2, LenProperties
<1>4. \A i \in 1..Len(s) : i \in 1..Len(s) + Len(t) /\ u[i] = s[i]
  BY <1>1, <1>2
<1>5. \A i \in Heads(s) : i \in 1..Len(s) /\ i \in Heads(u)
  BY <1>1, <1>3, <1>4 DEF Heads
<1>6. \A i \in Heads(u) : i \in 1..Len(u) /\ (i <= Len(s) => i \in Heads(s))
  BY <1>1, <1>2, <1>3, <1>4 DEF Heads
<1>. QED
  BY <1>1, <1>2, <1>4, <1>5, <1>6

\* The numbers in a stream that m is added to.
LEMMA OwnAppend ==
  ASSUME NEW c, NEW s \in Seq(Cell), NEW m \in Message
  PROVE  OwnNos(c, s \o Cells(m)) = IF m.from = c /\ m.kind # "switch" THEN OwnNos(c, s) \cup {m.no}
                                                                       ELSE OwnNos(c, s)
<1>1. PICK u \in Seq(Cell) : Extended(u, s, m)
  BY HeadsAppend
<1>2. \A i \in OwnIn(c, s) : i \in OwnIn(c, u) /\ u[i] = s[i]
  BY <1>1 DEF OwnIn, Extended
<1>3. \A i \in OwnIn(c, u) : i \in OwnIn(c, s) \/ (i = Len(s) + 1 /\ m.from = c /\ m.kind # "switch")
  BY <1>1 DEF OwnIn, Extended
<1>4. m.from = c /\ m.kind # "switch" => Len(s) + 1 \in OwnIn(c, u)
  BY <1>1 DEF OwnIn, Extended
<1>5. u = s \o Cells(m) /\ u[Len(s) + 1].msg = m
  BY <1>1 DEF Extended
<1>6. OwnNos(c, u) = IF m.from = c /\ m.kind # "switch" THEN OwnNos(c, s) \cup {m.no} ELSE OwnNos(c, s)
  BY <1>2, <1>3, <1>4, <1>5 DEF OwnNos
<1>. QED
  BY <1>5, <1>6

-----------------------------------------------------------------------------
(* The order of the texts *)

\* What of OneOrder depends on: the log, when the client joined, whether it is in the room.
LEMMA ToldSame ==
  ASSUME NEW c, NEW v, Told(c, v), UNCHANGED log, joined'[c] = joined[c],
         c \in lost => c \in lost', c \in Members' /\ c \notin lost' => c \in Members
  PROVE  Told(c, v)'
BY DEF Told, InLogOrder, NoGaps

\* The first part of what a client was told is what it is left with when it goes.
LEMMA ToldCut ==
  ASSUME NEW c \in Clients, NEW v \in Seq(Cell), NEW w \in Seq(Cell), Told(c, v \o w), LogOnce, TypeOK,
         UNCHANGED log, joined'[c] = joined[c], c \in lost => c \in lost', c \notin Members'
  PROVE  Told(c, v)'
<1>1. Len(log) \in Nat /\ DOMAIN log = 1..Len(log)
  BY LenProperties DEF TypeOK, ServerTypeOK
<1>. DEFINE u == v \o w
<1>2. /\ Len(v) \in Nat /\ \A i \in TextsIn(v) : i \in 1..Len(v) /\ i \in TextsIn(u) /\ u[i] = v[i]
      /\ \A i \in TextsIn(u) : i \in Nat /\ (i <= Len(v) => i \in TextsIn(v) /\ u[i] = v[i])
  BY HeadsFront DEF TextsIn
<1>. HIDE DEF u
<1>3. Told(c, u)
  BY DEF u
<1>4. InLogOrder(v, joined[c])
  BY <1>2, <1>3 DEF Told, InLogOrder
<1>5. ASSUME c \notin lost, NEW k \in joined[c] + 1..Len(log), NEW l \in joined[c] + 1..Len(log),
             k < l, Heard(v, log[l])
      PROVE  Heard(v, log[k])
  <2>1. PICK j \in TextsIn(v) : v[j].msg = log[l]
    BY <1>5 DEF Heard
  <2>2. j \in TextsIn(u) /\ u[j].msg = log[l] /\ j \in 1..Len(v)
    BY <1>2, <2>1
  <2>3. PICK i \in TextsIn(u) : u[i].msg = log[k]
    BY <1>3, <1>5, <2>2 DEF Told, NoGaps, Heard
  <2>4. k \in DOMAIN log /\ l \in DOMAIN log
    <3>1. joined[c] \in Nat
      BY DEF TypeOK, ServerTypeOK
    <3>. QED
      BY <1>1, <1>5, <3>1
  <2>5. i < j
    <3>1. ~(j < i)
      <4>1. j < i => l < k
        BY <1>3, <2>2, <2>3, <2>4 DEF Told, InLogOrder
      <4>. QED
        BY <1>1, <1>5, <2>4, <4>1
    <3>2. i # j
      <4>1. i = j => k = l
        BY <2>2, <2>3, <2>4 DEF LogOnce
      <4>. QED
        BY <1>1, <1>5, <2>4, <4>1
    <3>3. i \in Nat /\ j \in Nat
      BY <1>2, <2>2, <2>3
    <3>. QED
      BY <3>1, <3>2, <3>3
  <2>6. i \in TextsIn(v) /\ v[i].msg = log[k]
    BY <1>2, <2>2, <2>3, <2>5
  <2>. QED
    BY <2>6 DEF Heard
<1>6. c \notin lost => NoGaps(v, joined[c])
  BY <1>5 DEF NoGaps
<1>. QED
  BY <1>3, <1>4, <1>6 DEF Told, InLogOrder, NoGaps

\* An answer that is no text changes nothing of this.
LEMMA ToldOther ==
  ASSUME NEW c, NEW v \in Seq(Cell), NEW m \in Message, m.kind \notin Texts, Told(c, v),
         UNCHANGED log, joined'[c] = joined[c],
         c \in lost => c \in lost', c \in Members' /\ c \notin lost' => c \in Members
  PROVE  Told(c, v \o Cells(m))'
<1>1. PICK u \in Seq(Cell) : Extended(u, v, m)
  BY HeadsAppend
<1>2. TextsIn(u) = TextsIn(v) /\ \A i \in TextsIn(v) : u[i] = v[i]
  BY <1>1 DEF Extended, TextsIn
<1>3. Told(c, u)
  BY <1>2 DEF Told, InLogOrder, NoGaps, Heard
<1>4. Told(c, u)'
  BY <1>3, ToldSame
<1>5. u = v \o Cells(m)
  BY <1>1 DEF Extended
<1>. QED
  BY <1>4, <1>5

\* Who is just upgraded has been told nothing, and nothing has been said since.
LEMMA ToldFirst ==
  ASSUME NEW c \in Clients, TypeOK, UNCHANGED log, joined'[c] = Len(log)
  PROVE  Told(c, Cells(Switch(c)))'
<1>1. Len(log) \in Nat
  BY LenProperties DEF TypeOK, ServerTypeOK
<1>2. Switch(c) \in Message /\ Switch(c).kind = "switch"
  BY ReplyType DEF Switch
<1>3. TextsIn(Cells(Switch(c))) = {}
  <2>1. \A i \in DOMAIN Cells(Switch(c)) : Cells(Switch(c))[i].msg = Switch(c)
    BY DEF Cells
  <2>. QED
    BY <1>2, <2>1 DEF TextsIn, Heads, Texts
<1>4. Len(log) + 1..Len(log) = {}
  BY <1>1
<1>. QED
  BY <1>1, <1>3, <1>4 DEF Told, InLogOrder, NoGaps

\* A text is put at the end of the log and of the streams of those in the room, but for those that are
\* lost with it.
LEMMA ToldText ==
  ASSUME NEW c \in Clients, NEW v \in Seq(Cell), NEW m \in Message, m.kind \in Texts,
         Told(c, v), LogOnce, TypeOK,
         \A k \in DOMAIN log : log[k] # m,
         log' = Append(log, m), joined'[c] = joined[c],
         c \in lost => c \in lost', c \in Members' => c \in Members,
         NEW w, \/ w = v \o Cells(m) /\ (c \notin lost' => c \in Members)
                \/ w = v /\ (c \in Members' => c \in lost')
  PROVE  Told(c, w)'
<1>. DEFINE n == Len(log)
<1>1. log \in Seq(Message) /\ n \in Nat /\ DOMAIN log = 1..n /\ joined[c] \in Nat
  BY LenProperties DEF TypeOK, ServerTypeOK
<1>2. /\ Len(log') = n + 1 /\ DOMAIN log' = 1..n + 1
      /\ log'[n + 1] = m /\ \A k \in 1..n : log'[k] = log[k]
  BY <1>1, AppendProperties
<1>3. \A k \in 1..n + 1 : k \in 1..n \/ k = n + 1
  BY <1>1
<1>. HIDE DEF n
<1>4. \A k \in DOMAIN log' : \A x \in {log[l] : l \in 1..n} : log'[k] = x => k \in 1..n /\ log[k] = x
  BY <1>1, <1>2, <1>3
<1>5. /\ joined'[c] \in Nat /\ joined'[c] = joined[c] /\ joined[c] <= n
      /\ \A k \in joined[c] + 1..n + 1 : k \in joined[c] + 1..n \/ k = n + 1
      /\ \A k \in joined[c] + 1..n : k \in joined[c] + 1..n + 1 /\ k \in 1..n
      /\ n + 1 \in joined[c] + 1..n + 1
      /\ \A k \in joined[c] + 1..n + 1 : ~(n + 1 < k)
      /\ \A k \in 1..n : k < n + 1
      /\ joined[c] <= n + 1
  <2>1. joined[c] <= n
    BY DEF Told, n
  <2>. QED
    BY <1>1, <2>1
<1>6. /\ \A i \in TextsIn(v) : \E k \in joined[c] + 1..n : log[k] = v[i].msg
      /\ \A i, j \in TextsIn(v) : \A k, l \in 1..n : log[k] = v[i].msg /\ log[l] = v[j].msg /\ i < j => k < l
      /\ c \notin lost => \A k, l \in joined[c] + 1..n : k < l /\ Heard(v, log[l]) => Heard(v, log[k])
      /\ c \notin lost /\ c \in Members => \A k \in joined[c] + 1..n : Heard(v, log[k])
  BY <1>1 DEF Told, InLogOrder, NoGaps, n
<1>7. CASE w = v /\ (c \in Members' => c \in lost')
  <2>1. ~Heard(v, m)
    BY <1>1, <1>5, <1>6 DEF Heard
  <2>2. \A i \in TextsIn(w) : \E k \in joined[c] + 1..n + 1 : log'[k] = w[i].msg
    <3>. TAKE i \in TextsIn(w)
    <3>1. PICK k \in joined[c] + 1..n : log[k] = v[i].msg
      BY <1>6, <1>7
    <3>2. k \in joined[c] + 1..n + 1 /\ k \in 1..n
      BY <1>5
    <3>. QED
      BY <1>2, <1>7, <3>1, <3>2
  <2>3. ASSUME NEW i \in TextsIn(w), NEW j \in TextsIn(w), NEW k \in DOMAIN log', NEW l \in DOMAIN log',
               log'[k] = w[i].msg, log'[l] = w[j].msg, i < j
        PROVE  k < l
    <3>1. Heard(v, log'[k]) /\ Heard(v, log'[l])
      BY <1>7, <2>3 DEF Heard
    <3>2. k \in 1..n /\ l \in 1..n
      BY <1>2, <1>3, <2>1, <2>3, <3>1
    <3>. QED
      BY <1>2, <1>6, <1>7, <2>3, <3>2
  <2>4. ASSUME c \notin lost', NEW k \in joined[c] + 1..n + 1, NEW l \in joined[c] + 1..n + 1,
               k < l, Heard(w, log'[l])
        PROVE  Heard(w, log'[k])
    <3>1. l \in joined[c] + 1..n
      BY <1>2, <1>5, <1>7, <2>1, <2>4
    <3>2. k \in joined[c] + 1..n
      BY <1>5, <2>4, <3>1
    <3>. QED
      BY <1>2, <1>5, <1>6, <1>7, <2>4, <3>1, <3>2
  <2>. QED
    BY <1>2, <1>5, <1>7, <2>2, <2>3, <2>4 DEF Told, InLogOrder, NoGaps
<1>8. CASE w = v \o Cells(m) /\ (c \notin lost' => c \in Members)
  <2>1. PICK u \in Seq(Cell) : Extended(u, v, m)
    BY HeadsAppend
  <2>2. w = u
    BY <1>8, <2>1 DEF Extended
  <2>3. /\ \A i \in TextsIn(v) : i \in TextsIn(w) /\ i < Len(v) + 1 /\ w[i] = v[i]
        /\ \A i \in TextsIn(w) : i \in TextsIn(v) \/ i = Len(v) + 1
        /\ Len(v) + 1 \in TextsIn(w) /\ w[Len(v) + 1].msg = m
    <3>1. Len(v) \in Nat /\ \A i \in Heads(v) : i \in 1..Len(v)
      BY <2>1 DEF Extended
    <3>2. \A i \in Heads(v) : i < Len(v) + 1
      BY <3>1
    <3>3. /\ \A i \in TextsIn(v) : i \in TextsIn(u) /\ u[i] = v[i]
          /\ \A i \in TextsIn(u) : i \in TextsIn(v) \/ i = Len(v) + 1
          /\ Len(v) + 1 \in TextsIn(u) /\ u[Len(v) + 1].msg = m
      BY <2>1 DEF Extended, TextsIn
    <3>. QED
      BY <2>2, <3>2, <3>3 DEF TextsIn
  <2>4. \A i \in TextsIn(w) : \E k \in joined[c] + 1..n + 1 : log'[k] = w[i].msg
    <3>. TAKE i \in TextsIn(w)
    <3>1. CASE i \in TextsIn(v)
      <4>1. PICK k \in joined[c] + 1..n : log[k] = v[i].msg
        BY <1>6, <3>1
      <4>2. k \in joined[c] + 1..n + 1 /\ k \in 1..n
        BY <1>5
      <4>. QED
        BY <1>2, <2>3, <3>1, <4>1, <4>2
    <3>2. CASE i = Len(v) + 1
      BY <1>2, <1>5, <2>3, <3>2
    <3>. QED
      BY <2>3, <3>1, <3>2
  <2>5. ASSUME NEW i \in TextsIn(v), NEW k \in DOMAIN log', log'[k] = v[i].msg
        PROVE  k \in 1..n /\ log[k] = v[i].msg
    <3>1. PICK l \in joined[c] + 1..n : log[l] = v[i].msg
      BY <1>6
    <3>. QED
      BY <1>4, <1>5, <2>5, <3>1
  <2>6. ASSUME NEW k \in DOMAIN log', log'[k] = m
        PROVE  k = n + 1
    BY <1>1, <1>2, <1>3, <2>6
  <2>7. ASSUME NEW i \in TextsIn(w), NEW j \in TextsIn(w), NEW k \in DOMAIN log', NEW l \in DOMAIN log',
               log'[k] = w[i].msg, log'[l] = w[j].msg, i < j
        PROVE  k < l
    <3>1. i \in TextsIn(v)
      <4>1. i # Len(v) + 1
        <5>1. j <= Len(v) + 1 /\ Len(v) \in Nat
          <6>1. Len(v) \in Nat /\ \A h \in TextsIn(v) : h \in Nat
            BY <2>1 DEF Extended, TextsIn
          <6>. QED
            BY <2>3, <6>1
        <5>2. j \in Nat
          BY <2>1, <2>3 DEF Extended, TextsIn
        <5>. QED
          BY <2>7, <5>1, <5>2
      <4>. QED
        BY <2>3, <4>1
    <3>2. k \in 1..n /\ log[k] = v[i].msg
      BY <2>3, <2>5, <2>7, <3>1
    <3>3. CASE j \in TextsIn(v)
      <4>1. l \in 1..n /\ log[l] = v[j].msg
        BY <2>3, <2>5, <2>7, <3>3
      <4>. QED
        BY <1>6, <2>7, <3>1, <3>2, <3>3, <4>1
    <3>4. CASE j = Len(v) + 1
      <4>1. l = n + 1
        BY <2>3, <2>6, <2>7, <3>4
      <4>. QED
        BY <1>5, <3>2, <4>1
    <3>. QED
      BY <2>3, <3>3, <3>4
  <2>8. ASSUME c \notin lost', NEW k \in joined[c] + 1..n + 1
        PROVE  Heard(w, log'[k])
    <3>1. CASE k \in joined[c] + 1..n
      <4>1. Heard(v, log[k])
        BY <1>6, <1>8, <2>8, <3>1
      <4>2. log'[k] = log[k]
        BY <1>2, <1>5, <3>1
      <4>. QED
        BY <2>3, <4>1, <4>2 DEF Heard
    <3>2. CASE k = n + 1
      BY <1>2, <2>3, <3>2 DEF Heard
    <3>. QED
      BY <1>5, <3>1, <3>2
  <2>. QED
    BY <1>2, <1>5, <2>4, <2>7, <2>8 DEF Told, InLogOrder, NoGaps
<1>. QED
  BY <1>7, <1>8

-----------------------------------------------------------------------------
(* The order of the answers *)

\* What c has sent is kept.
SentKept(c) ==
  /\ Len(sent[c]) <= Len(sent'[c])
  /\ \A k \in 1..Len(sent[c]) : k \in 1..Len(sent'[c]) /\ sent'[c][k] = sent[c][k]

\* The type of what c has sent.
LEMMA SentLen ==
  ASSUME TypeOK, NEW c \in Clients
  PROVE  sent[c] \in Seq(Kinds) /\ Len(sent[c]) \in Nat
BY LenProperties DEF TypeOK, SocketsTypeOK

\* What of AnswersInOrder depends on.
LEMMA RepliedSame ==
  ASSUME NEW c \in Clients, NEW v, Replied(c, v), TypeOK, SentKept(c), c \in lost => c \in lost'
  PROVE  Replied(c, v)'
<1>1. Len(sent[c]) \in Nat
  BY SentLen
<1>2. \A j \in OwnIn(c, v) : \A k \in 1..v[j].msg.no : k \in 1..Len(sent[c])
  <2>1. \A j \in OwnIn(c, v) : v[j].msg.no \in 1..Len(sent[c])
    BY DEF Replied
  <2>. QED
    BY <1>1, <2>1
<1>3. \A k \in 1..Len(sent[c]) : k \in 1..Len(sent'[c]) /\ sent'[c][k] = sent[c][k]
  BY DEF SentKept
<1>. QED
  BY <1>2, <1>3 DEF Replied, Answered

\* The first part of a stream.
LEMMA RepliedCut ==
  ASSUME NEW c \in Clients, NEW v \in Seq(Cell), NEW w \in Seq(Cell), Replied(c, v \o w), TypeOK,
         UNCHANGED sent, c \in lost => c \in lost'
  PROVE  Replied(c, v)'
<1>. DEFINE u == v \o w
<1>1. /\ Len(v) \in Nat /\ \A i \in OwnIn(c, v) : i \in 1..Len(v) /\ i \in OwnIn(c, u) /\ u[i] = v[i]
      /\ \A i \in OwnIn(c, u) : i \in Nat /\ (i <= Len(v) => i \in OwnIn(c, v) /\ u[i] = v[i])
  BY HeadsFront DEF OwnIn
<1>. HIDE DEF u
<1>2. Replied(c, u) /\ Len(sent[c]) \in Nat
  BY SentLen DEF u
<1>3. ASSUME c \notin lost', NEW j \in OwnIn(c, v), NEW k \in 1..v[j].msg.no, sent[c][k] \in Answerable
      PROVE  \E i \in OwnIn(c, v) : v[i].msg.no = k
  <2>1. j \in OwnIn(c, u) /\ u[j] = v[j] /\ j \in 1..Len(v)
    BY <1>1
  <2>2. PICK i \in OwnIn(c, u) : u[i].msg.no = k
    BY <1>2, <1>3, <2>1 DEF Replied, Answered
  <2>3. u[j].msg.no \in 1..Len(sent[c])
    BY <1>2, <2>1 DEF Replied
  <2>4. k <= u[j].msg.no /\ k \in Nat /\ u[j].msg.no \in Nat
    BY <1>2, <1>3, <2>1, <2>3
  <2>5. ~(j < i)
    <3>1. j < i => u[j].msg.no < u[i].msg.no
      BY <1>2, <2>1 DEF Replied
    <3>. QED
      BY <2>2, <2>4, <3>1
  <2>6. i <= Len(v)
    <3>1. i \in Nat
      BY <1>1
    <3>. QED
      BY <1>1, <2>1, <2>5, <3>1
  <2>. QED
    BY <1>1, <2>2, <2>6
<1>. QED
  BY <1>1, <1>2, <1>3 DEF Replied, Answered

\* A message for c that is no answer to it.
LEMMA RepliedOther ==
  ASSUME NEW c \in Clients, NEW v \in Seq(Cell), NEW m \in Message, m.from # c \/ m.kind = "switch",
         Replied(c, v), TypeOK, UNCHANGED sent, c \in lost => c \in lost'
  PROVE  Replied(c, v \o Cells(m))'
<1>1. PICK u \in Seq(Cell) : Extended(u, v, m)
  BY HeadsAppend
<1>2. OwnIn(c, u) = OwnIn(c, v) /\ \A i \in OwnIn(c, v) : u[i] = v[i]
  BY <1>1 DEF Extended, OwnIn
<1>3. Replied(c, u)
  BY <1>2 DEF Replied, Answered
<1>4. u = v \o Cells(m) /\ SentKept(c)
  BY <1>1, SentLen DEF Extended, SentKept
<1>5. Replied(c, u)'
  BY <1>3, <1>4, RepliedSame
<1>. QED
  BY <1>4, <1>5

\* An answer to the next message of c that needs one.
LEMMA RepliedMine ==
  ASSUME NEW c \in Clients, NEW v \in Seq(Cell), NEW m \in Message, m.from = c, m.kind # "switch",
         Replied(c, v), TypeOK, UNCHANGED sent, c \in lost => c \in lost',
         m.no \in 1..Len(sent[c]), sent[c][m.no] \in Answerable, m.kind = AnswerTo(sent[c][m.no]),
         \A n \in OwnNos(c, v) : n < m.no,
         c \notin lost' => \A k \in 1..m.no : sent[c][k] \in Answerable => k \in OwnNos(c, v) \/ k = m.no
  PROVE  Replied(c, v \o Cells(m))'
<1>1. PICK u \in Seq(Cell) : Extended(u, v, m)
  BY HeadsAppend
<1>2. u = v \o Cells(m) /\ Len(v) \in Nat
  BY <1>1 DEF Extended
<1>3. /\ \A i \in OwnIn(c, v) : i \in 1..Len(v) /\ i \in OwnIn(c, u) /\ u[i] = v[i]
      /\ \A i \in OwnIn(c, u) : i \in OwnIn(c, v) \/ i = Len(v) + 1
      /\ Len(v) + 1 \in OwnIn(c, u) /\ u[Len(v) + 1].msg = m
  BY <1>1 DEF Extended, OwnIn
<1>4. ASSUME NEW i \in OwnIn(c, u)
      PROVE  /\ u[i].msg.no \in 1..Len(sent[c]) /\ sent[c][u[i].msg.no] \in Answerable
             /\ u[i].msg.kind = AnswerTo(sent[c][u[i].msg.no])
  <2>1. CASE i \in OwnIn(c, v)
    BY <1>3, <2>1 DEF Replied
  <2>2. CASE i = Len(v) + 1
    BY <1>3, <2>2
  <2>. QED
    BY <1>3, <2>1, <2>2
<1>5. ASSUME NEW i \in OwnIn(c, u), NEW j \in OwnIn(c, u), i < j
      PROVE  u[i].msg.no < u[j].msg.no
  <2>1. i \in OwnIn(c, v)
    <3>1. i \in Nat /\ j \in Nat /\ j <= Len(v) + 1
      <4>1. \A h \in 1..Len(v) : h \in Nat /\ h <= Len(v) + 1
        BY <1>2
      <4>2. Len(v) + 1 \in Nat /\ Len(v) + 1 <= Len(v) + 1
        BY <1>2
      <4>. QED
        BY <1>3, <4>1, <4>2
    <3>2. i # Len(v) + 1
      BY <1>2, <1>5, <3>1
    <3>. QED
      BY <1>3, <3>2
  <2>2. CASE j \in OwnIn(c, v)
    BY <1>3, <1>5, <2>1, <2>2 DEF Replied
  <2>3. CASE j = Len(v) + 1
    BY <1>3, <2>1, <2>3 DEF OwnNos
  <2>. QED
    BY <1>3, <2>2, <2>3
<1>6. ASSUME c \notin lost', NEW j \in OwnIn(c, u), NEW k \in 1..u[j].msg.no, sent[c][k] \in Answerable
      PROVE  \E i \in OwnIn(c, u) : u[i].msg.no = k
  <2>1. CASE j \in OwnIn(c, v)
    <3>1. \E i \in OwnIn(c, v) : v[i].msg.no = k
      BY <1>3, <1>6, <2>1 DEF Replied, Answered
    <3>. QED
      BY <1>3, <3>1
  <2>2. CASE j = Len(v) + 1
    <3>1. k \in OwnNos(c, v) \/ k = m.no
      BY <1>3, <1>6, <2>2
    <3>. QED
      BY <1>3, <3>1 DEF OwnNos
  <2>. QED
    BY <1>3, <2>1, <2>2
<1>7. Replied(c, u)'
  BY <1>4, <1>5, <1>6 DEF Replied, Answered
<1>. QED
  BY <1>2, <1>7

-----------------------------------------------------------------------------
(* What is sent and taken *)

\* What Incoming depends on.
LEMMA IncomingSame ==
  ASSUME NEW c, NEW s, NEW own, NEW said, Incoming(c, s, own, said),
         sent'[c] = sent[c], c \in lost => c \in lost', fin[c] => fin'[c], rst[c] => rst'[c]
  PROVE  Incoming(c, s, own, said)'
BY DEF Incoming, Due

\* A message is written behind the others.
LEMMA IncomingSend ==
  ASSUME NEW c \in Clients, NEW s \in Seq(Cell), NEW own, NEW said, Incoming(c, s, own, said), TypeOK,
         own \cup said \subseteq 1..Len(sent[c]), ~fin[c], ~rst[c],
         NEW k \in Kinds, NEW m \in Message, m.kind = k,
         IF k = "other" THEN sent'[c] = sent[c]
                        ELSE sent'[c] = Append(sent[c], k) /\ m.no = Len(sent[c]) + 1,
         UNCHANGED lost
  PROVE  Incoming(c, s \o Cells(m), own, said)'
<1>1. sent[c] \in Seq(Kinds) /\ Len(sent[c]) \in Nat /\ Size[k] \in Nat \ {0}
  BY SentLen, SocketsAssumption
<1>2. PICK u \in Seq(Cell) : Extended(u, s, m)
  BY HeadsAppend
<1>. DEFINE n == Len(s) + 1
            N == Len(sent[c])
<1>3. /\ u = s \o Cells(m) /\ Len(s) \in Nat /\ n \in Nat \ {0} /\ Len(u) = Len(s) + Size[k]
      /\ \A i \in Heads(s) : i \in 1..Len(s) /\ i \in Heads(u) /\ u[i] = s[i]
      /\ \A i \in Heads(u) : i \in Heads(s) \/ i = n
      /\ n \in Heads(u) /\ u[n].msg = m
      /\ \A i \in 1..Len(s) : u[i] = s[i]
      /\ \A d \in 0..Size[k] - 1 : u[n + d] = [msg |-> m, part |-> d + 1]
  <2>1. Len(s) \in Nat
    BY <1>2 DEF Extended
  <2>2. n \in Nat \ {0}
    BY <2>1
  <2>. QED
    BY <1>2, <2>1, <2>2 DEF Extended
<1>4. \A i \in Heads(s) : Size[s[i].msg.kind] \in Nat \ {0} /\ i + Size[s[i].msg.kind] <= n
  <2>1. \A i \in Heads(s) : s[i].msg.kind \in Kinds
    <3>1. \A i \in 1..Len(s) : s[i] \in Cell
      BY ElementOfSeq
    <3>. QED
      BY <1>3, <3>1 DEF Cell, Message
  <2>. QED
    BY <2>1, SocketsAssumption DEF Incoming, EndsWhole
<1>5. ASSUME u # <<>> PROVE 1 \in Heads(u)
  <2>1. CASE s = <<>>
    <3>1. n = 1
      BY <2>1, EmptySeq
    <3>. QED
      BY <1>3, <3>1
  <2>2. CASE s # <<>>
    BY <1>3, <2>2 DEF Incoming, InFrames
  <2>. QED
    BY <2>1, <2>2
<1>6. ASSUME NEW i \in Heads(u), NEW d \in 0..Size[u[i].msg.kind], i + d <= Len(u)
      PROVE  IF d < Size[u[i].msg.kind] THEN u[i + d] = [msg |-> u[i].msg, part |-> d + 1]
                                        ELSE i + d \in Heads(u)
  <2>1. CASE i \in Heads(s)
    <3>1. u[i] = s[i] /\ i \in 1..Len(s) /\ d \in 0..Size[s[i].msg.kind]
      BY <1>3, <2>1
    <3>2. d \in Nat /\ Size[s[i].msg.kind] \in Nat /\ i + Size[s[i].msg.kind] <= n
      BY <1>4, <2>1, <3>1
    <3>3. CASE i + d <= Len(s)
      <4>1. IF d < Size[s[i].msg.kind] THEN s[i + d] = [msg |-> s[i].msg, part |-> d + 1]
                                       ELSE i + d \in Heads(s)
        BY <2>1, <3>1, <3>3 DEF Incoming, InFrames
      <4>2. i + d \in 1..Len(s)
        BY <1>3, <3>1, <3>2, <3>3
      <4>. QED
        BY <1>3, <3>1, <4>1, <4>2
    <3>4. CASE ~(i + d <= Len(s))
      <4>1. PICK z \in Nat : z = Size[s[i].msg.kind]
        BY <3>2
      <4>2. d \in 0..z /\ i + z <= Len(s) + 1 /\ i \in Nat /\ Len(s) \in Nat
        BY <1>3, <3>1, <3>2, <4>1
      <4>3. ~(d < z) /\ i + d = Len(s) + 1
        BY <3>4, <4>2
      <4>. QED
        BY <1>3, <3>1, <4>1, <4>3
    <3>. QED
      BY <3>3, <3>4
  <2>2. CASE i = n
    <3>1. u[i].msg = m /\ d \in 0..Size[k] /\ n + d <= Len(s) + Size[k]
      BY <1>3, <1>6, <2>2
    <3>2. d \in 0..Size[k] - 1
      BY <1>1, <1>3, <3>1
    <3>3. d < Size[k] /\ u[n + d] = [msg |-> m, part |-> d + 1]
      BY <1>1, <1>3, <3>2
    <3>. QED
      BY <2>2, <3>1, <3>3
  <2>. QED
    BY <1>3, <2>1, <2>2
<1>7. InFrames(u)
  BY <1>5, <1>6 DEF InFrames
<1>8. EndsWhole(u)
  <2>1. \A a, b, x \in Nat : a <= b + 1 => a <= (b + x) + 1
    OBVIOUS
  <2>2. ASSUME NEW i \in Heads(s) PROVE i + Size[s[i].msg.kind] <= (Len(s) + Size[k]) + 1
    <3>1. i + Size[s[i].msg.kind] \in Nat /\ i + Size[s[i].msg.kind] <= Len(s) + 1
      BY <1>3, <1>4
    <3>. QED
      BY <1>1, <1>3, <2>1, <3>1
  <2>3. n + Size[k] <= (Len(s) + Size[k]) + 1
    BY <1>1, <1>3
  <2>. QED
    BY <1>3, <2>2, <2>3 DEF EndsWhole
<1>9. /\ N <= Len(sent'[c]) /\ \A j \in 1..N : j \in 1..Len(sent'[c]) /\ sent'[c][j] = sent[c][j]
      /\ k # "other" => m.no = N + 1 /\ Len(sent'[c]) = N + 1 /\ sent'[c][N + 1] = k
  <2>1. CASE k = "other"
    BY <1>1, <2>1
  <2>2. CASE k # "other"
    BY <1>1, <2>2, AppendProperties
  <2>. QED
    BY <2>1, <2>2
<1>. HIDE DEF n, N
<1>10. /\ \A i \in Counted(s) : i \in 1..Len(s) /\ i \in Counted(u) /\ u[i] = s[i] /\ s[i].msg.no \in 1..N
       /\ \A i \in Counted(u) : i \in Counted(s) \/ (i = n /\ k # "other")
       /\ k # "other" => n \in Counted(u)
  <2>1. \A i \in Counted(s) : s[i].msg.no \in 1..N
    BY DEF Incoming, N
  <2>. QED
    BY <1>3, <2>1 DEF Counted
<1>11. N \in Nat /\ \A x \in 1..N : x < N + 1 /\ \A y \in 1..x : y \in 1..N
  BY <1>1 DEF N
<1>12. ASSUME NEW i \in Counted(u)
       PROVE  u[i].msg.no \in 1..Len(sent'[c]) /\ sent'[c][u[i].msg.no] = u[i].msg.kind
  <2>1. CASE i \in Counted(s)
    BY <1>9, <1>10, <2>1 DEF Incoming, N
  <2>2. CASE i = n /\ k # "other"
    <3>1. N + 1 \in 1..N + 1
      BY <1>11
    <3>. QED
      BY <1>3, <1>9, <2>2, <3>1
  <2>. QED
    BY <1>10, <2>1, <2>2
<1>13. ASSUME NEW i \in Counted(u), NEW j \in Counted(u), i < j
       PROVE  u[i].msg.no < u[j].msg.no
  <2>1. i \in Counted(s)
    <3>1. \A a, b \in Nat : \A y \in 1..b : a = b + 1 /\ a < y => FALSE
      OBVIOUS
    <3>2. i = n => ~(i < j)
      <4>1. j \in 1..Len(s) \/ j = n
        BY <1>10
      <4>2. Len(s) \in Nat /\ n = Len(s) + 1
        BY <1>3 DEF n
      <4>. QED
        BY <4>1, <4>2
    <3>. QED
      BY <1>10, <1>13, <3>2
  <2>2. CASE j \in Counted(s)
    BY <1>10, <1>13, <2>1, <2>2 DEF Incoming
  <2>3. CASE j = n /\ k # "other"
    <3>1. u[j].msg.no = N + 1 /\ u[i].msg.no \in 1..N
      BY <1>3, <1>9, <1>10, <2>1, <2>3
    <3>. QED
      BY <1>11, <3>1
  <2>. QED
    BY <1>10, <2>2, <2>3
<1>14. ASSUME NEW x \in own \cup said, NEW i \in Counted(u)
       PROVE  x < u[i].msg.no
  <2>1. CASE i \in Counted(s)
    BY <1>10, <2>1 DEF Incoming
  <2>2. CASE i = n /\ k # "other"
    <3>1. x \in 1..N /\ u[i].msg.no = N + 1
      BY <1>3, <1>9, <2>2 DEF N
    <3>. QED
      BY <1>11, <3>1
  <2>. QED
    BY <1>10, <2>1, <2>2
<1>15. ASSUME c \notin lost, NEW x \in 1..Len(sent'[c]), sent'[c][x] \in Answerable
       PROVE  x \in own \/ \E j \in Counted(u) : u[j].msg.no = x
  <2>1. CASE x \in 1..N
    <3>1. x \in own \/ \E j \in Counted(s) : s[j].msg.no = x
      BY <1>9, <1>15, <2>1 DEF Incoming, Due, N
    <3>. QED
      BY <1>10, <3>1
  <2>2. CASE x \notin 1..N
    <3>1. k # "other"
      BY <2>2, <1>15 DEF N
    <3>2. x = N + 1
      BY <1>9, <1>11, <1>15, <2>2, <3>1
    <3>. QED
      BY <1>3, <1>9, <1>10, <3>1, <3>2
  <2>. QED
    BY <2>1, <2>2
<1>16. \A i \in Counted(u) : \A x \in 1..u[i].msg.no : x \in 1..Len(sent'[c])
  <2>1. Len(sent'[c]) \in Nat
    <3>1. CASE k = "other"
      BY <1>1, <3>1
    <3>2. CASE k # "other"
      BY <1>9, <1>11, <3>2
    <3>. QED
      BY <3>1, <3>2
  <2>. QED
    BY <1>12, <2>1
<1>17. Incoming(c, u, own, said)'
  BY <1>7, <1>8, <1>12, <1>13, <1>14, <1>15, <1>16 DEF Incoming, Due
<1>. QED
  BY <1>3, <1>17

\* The end of what is written is thrown away, by a client that will not write again.
LEMMA IncomingCut ==
  ASSUME NEW c \in Clients, NEW s \in Seq(Cell), NEW t \in Seq(Cell), NEW own, NEW said,
         Incoming(c, s \o t, own, said), TypeOK, UNCHANGED <<sent, lost>>, fin'[c] \/ rst'[c]
  PROVE  Incoming(c, s, own, said)'
<1>. DEFINE u == s \o t
<1>1. /\ Len(s) \in Nat /\ Len(u) \in Nat /\ Len(s) <= Len(u)
      /\ \A i \in 1..Len(s) : u[i] = s[i]
      /\ \A i \in Heads(s) : i \in 1..Len(s) /\ i \in Heads(u)
      /\ \A i \in Heads(u) : i \in 1..Len(u) /\ (i <= Len(s) => i \in Heads(s))
  BY HeadsFront
<1>. HIDE DEF u
<1>2. Incoming(c, u, own, said)
  BY DEF u
<1>3. /\ \A i \in Counted(s) : i \in 1..Len(s) /\ i \in Counted(u) /\ u[i] = s[i]
      /\ \A i \in Counted(u) : i \in 1..Len(u) /\ (i <= Len(s) => i \in Counted(s) /\ u[i] = s[i])
  BY <1>1 DEF Counted
<1>4. InFrames(s)
  <2>1. ASSUME s # <<>> PROVE 1 \in Heads(s)
    <3>1. Len(s) \in Nat \ {0}
      BY <2>1, EmptySeq
    <3>2. u # <<>>
      BY <1>1, <3>1, EmptySeq
    <3>. QED
      BY <1>1, <1>2, <3>1, <3>2 DEF Incoming, InFrames
  <2>2. ASSUME NEW i \in Heads(s), NEW d \in 0..Size[s[i].msg.kind], i + d <= Len(s)
        PROVE  IF d < Size[s[i].msg.kind] THEN s[i + d] = [msg |-> s[i].msg, part |-> d + 1]
                                          ELSE i + d \in Heads(s)
    <3>1. i \in Heads(u) /\ u[i] = s[i] /\ i + d <= Len(u) /\ i + d \in 1..Len(s)
      <4>1. i \in 1..Len(s) /\ Size[s[i].msg.kind] \in Nat
        <5>1. i \in 1..Len(s) /\ s[i] \in Cell
          BY <1>1, ElementOfSeq
        <5>. QED
          BY <5>1, SocketsAssumption DEF Cell, Message
      <4>. QED
        BY <1>1, <2>2, <4>1
    <3>2. IF d < Size[u[i].msg.kind] THEN u[i + d] = [msg |-> u[i].msg, part |-> d + 1]
                                     ELSE i + d \in Heads(u)
      BY <1>2, <2>2, <3>1 DEF Incoming, InFrames
    <3>. QED
      BY <1>1, <2>2, <3>1, <3>2
  <2>. QED
    BY <2>1, <2>2 DEF InFrames
<1>5. ASSUME c \notin lost, NEW i \in Counted(s), NEW k \in 1..s[i].msg.no, sent[c][k] \in Answerable
      PROVE  k \in own \/ \E j \in Counted(s) : s[j].msg.no = k
  <2>1. CASE k \in own
    BY <2>1
  <2>2. CASE k \notin own
    <3>1. i \in Counted(u) /\ u[i] = s[i] /\ i \in 1..Len(s)
      BY <1>3
    <3>2. PICK j \in Counted(u) : u[j].msg.no = k
      BY <1>2, <1>5, <2>2, <3>1 DEF Incoming, Due
    <3>3. u[i].msg.no \in Nat
      <4>1. u[i].msg.no \in 1..Len(sent[c]) /\ Len(sent[c]) \in Nat
        BY <1>2, <3>1, SentLen DEF Incoming
      <4>. QED
        BY <4>1
    <3>4. ~(i < j)
      <4>1. i < j => u[i].msg.no < u[j].msg.no
        BY <1>2, <3>1 DEF Incoming
      <4>2. k <= u[i].msg.no /\ k \in Nat
        BY <3>1, <3>3
      <4>. QED
        BY <3>2, <3>3, <4>1, <4>2
    <3>5. j <= Len(s)
      BY <1>1, <1>3, <3>1, <3>4
    <3>. QED
      BY <1>3, <3>2, <3>5
  <2>. QED
    BY <2>1, <2>2
<1>. QED
  BY <1>2, <1>3, <1>4, <1>5 DEF Incoming, Due

\* t is s without the message u at its head.
Consumed(t, s, u) ==
  LET n == Size[u.kind] IN
  /\ n \in Nat \ {0} /\ Len(t) \in Nat /\ Len(s) = n + Len(t)
  /\ \A i \in 1..Len(t) : t[i] = s[n + i]
  /\ 1 \in Heads(s) /\ s[1].msg = u
  /\ \A i \in Heads(t) : i \in 1..Len(t) /\ n + i \in Heads(s)
  /\ \A i \in Heads(s) : i # 1 => \E j \in Heads(t) : i = n + j

\* What drive_io() leaves of what c has sent.
LEMMA ConsumedRest ==
  ASSUME NEW buf \in Seq(Cell), NEW X \in Seq(Cell), Whole(buf), InFrames(buf \o X)
  PROVE  /\ Rest(buf) \o X \in Seq(Cell)
         /\ Consumed(Rest(buf) \o X, buf \o X, First(buf))
<1>. DEFINE u == First(buf)
            s == buf \o X
            t == Rest(buf) \o X
<1>1. PICK n \in Nat \ {0} : n = Size[u.kind] /\ n <= Len(buf)
  BY FirstType, CellsType DEF Whole
<1>2. Len(buf) \in Nat /\ Len(X) \in Nat
  BY LenProperties
<1>3. PICK r \in Seq(Cell) : /\ r = Rest(buf) /\ Len(r) = Len(buf) - n
                             /\ \A i \in 1..Len(r) : r[i] = buf[n + i]
  <2>1. \A i \in 1..Len(buf) : buf[i] \in Cell
    BY ElementOfSeq
  <2>2. \A i \in n + 1..Len(buf) : buf[i] \in Cell
    BY <1>1, <1>2, <2>1
  <2>3. /\ SubSeq(buf, n + 1, Len(buf)) \in Seq(Cell)
        /\ Len(SubSeq(buf, n + 1, Len(buf))) = Len(buf) - n
    BY <1>1, PieceType
  <2>4. \A i \in 1..Len(buf) - n : SubSeq(buf, n + 1, Len(buf))[i] = buf[n + i]
    <3>. TAKE i \in 1..Len(buf) - n
    <3>1. i \in 1..(Len(buf) - (n + 1)) + 1 /\ (n + 1) + i - 1 = n + i
      BY <1>1, <1>2
    <3>2. PICK m \in Int : m = n + 1
      BY <1>1
    <3>3. Len(buf) \in Int /\ \A h \in m..Len(buf) : buf[h] \in Cell
      BY <1>2, <2>2, <3>2
    <3>4. \A h \in 1..Len(buf) - m + 1 : SubSeq(buf, m, Len(buf))[h] = buf[m + h - 1]
      BY <3>3, SubSeqProperties
    <3>. QED
      BY <3>1, <3>2, <3>4
  <2>. QED
    BY <1>1, <2>3, <2>4 DEF Rest
<1>4. /\ s \in Seq(Cell) /\ Len(s) = Len(buf) + Len(X)
      /\ \A i \in 1..Len(buf) + Len(X) : s[i] = IF i <= Len(buf) THEN buf[i] ELSE X[i - Len(buf)]
  BY Joined
<1>5. /\ t \in Seq(Cell) /\ Len(t) = Len(r) + Len(X)
      /\ \A i \in 1..Len(r) + Len(X) : t[i] = IF i <= Len(r) THEN r[i] ELSE X[i - Len(r)]
  <2>1. PICK w \in Seq(Cell) :
          /\ w = r \o X /\ Len(w) = Len(r) + Len(X)
          /\ \A i \in 1..Len(r) + Len(X) : w[i] = IF i <= Len(r) THEN r[i] ELSE X[i - Len(r)]
    BY Joined
  <2>2. w = t
    BY <1>3, <2>1
  <2>. QED
    BY <2>1, <2>2
<1>6. InFrames(s)
  OBVIOUS
<1>. HIDE DEF s, t
<1>7. Len(t) \in Nat /\ Len(s) = n + Len(t) /\ DOMAIN t = 1..Len(t) /\ DOMAIN s = 1..Len(s)
  <2>1. Len(t) \in Nat /\ DOMAIN t = 1..Len(t) /\ DOMAIN s = 1..Len(s)
    BY <1>4, <1>5, LenProperties
  <2>2. Len(s) = n + Len(t)
    BY <1>1, <1>2, <1>3, <1>4, <1>5
  <2>. QED
    BY <2>1, <2>2
<1>8. ASSUME NEW i \in 1..Len(t) PROVE t[i] = s[n + i] /\ n + i \in 1..Len(s) /\ n + i # 1
  <2>1. n + i \in 1..Len(s) /\ n + i # 1 /\ i \in 1..Len(r) + Len(X)
    <3>1. i \in 1..Len(t) /\ n \in Nat \ {0} /\ Len(t) \in Nat /\ Len(t) = Len(r) + Len(X)
      BY <1>5, <1>7
    <3>2. n + i \in 1..n + Len(t) /\ n + i # 1
      BY <3>1
    <3>. QED
      BY <1>7, <3>1, <3>2
  <2>2. CASE i <= Len(r)
    <3>1. i \in 1..Len(r) /\ n + i <= Len(buf)
      BY <1>1, <1>2, <1>3, <2>2
    <3>. QED
      BY <1>3, <1>4, <1>5, <1>7, <2>1, <2>2, <3>1
  <2>3. CASE ~(i <= Len(r))
    <3>1. i - Len(r) = (n + i) - Len(buf) /\ ~(n + i <= Len(buf))
      BY <1>1, <1>2, <1>3, <2>3
    <3>. QED
      BY <1>4, <1>5, <1>7, <2>1, <2>3, <3>1
  <2>. QED
    BY <2>2, <2>3
<1>9. 1 \in Heads(s) /\ s[1].msg = u
  <2>1. s # <<>> /\ 1 <= Len(buf) /\ 1 \in 1..Len(buf) + Len(X)
    BY <1>1, <1>2, <1>4, EmptySeq
  <2>2. s[1] = buf[1]
    BY <1>4, <2>1
  <2>. QED
    BY <1>6, <2>1, <2>2 DEF InFrames, First
<1>10. ASSUME NEW i \in Heads(s), i # 1 PROVE \E j \in Heads(t) : i = n + j
  <2>1. i \in 1..n + Len(t) /\ s[i].part = 1
    BY <1>7 DEF Heads
  <2>2. ~(i <= n)
    <3>1. SUFFICES ASSUME i <= n PROVE FALSE
      OBVIOUS
    <3>2. i - 1 \in 0..Size[s[1].msg.kind] /\ i - 1 < Size[s[1].msg.kind] /\ 1 + (i - 1) = i
      BY <1>1, <1>9, <2>1, <3>1
    <3>3. 1 + (i - 1) <= Len(s)
      BY <1>7, <2>1, <3>2
    <3>4. s[1 + (i - 1)] = [msg |-> s[1].msg, part |-> (i - 1) + 1]
      BY <1>6, <1>9, <3>2, <3>3 DEF InFrames
    <3>5. s[i].part = (i - 1) + 1
      BY <3>2, <3>4
    <3>. QED
      BY <1>10, <2>1, <3>5
  <2>3. i - n \in 1..Len(t) /\ n + (i - n) = i
    BY <1>1, <1>7, <2>1, <2>2
  <2>4. t[i - n].part = 1
    BY <1>8, <2>1, <2>3
  <2>5. i - n \in Heads(t)
    BY <1>7, <2>3, <2>4 DEF Heads
  <2>. QED
    BY <2>3, <2>5
<1>11. ASSUME NEW i \in Heads(t) PROVE i \in 1..Len(t) /\ n + i \in Heads(s)
  BY <1>7, <1>8 DEF Heads
<1>12. Consumed(t, s, u)
  BY <1>1, <1>7, <1>8, <1>9, <1>10, <1>11 DEF Consumed
<1>. QED
  BY <1>5, <1>12 DEF s, t

\* The message at the head is handled: answered, said, or neither when that is not called for.
LEMMA IncomingConsume ==
  ASSUME NEW c, NEW s, NEW t \in Seq(Cell), NEW u, NEW own, NEW said,
         Incoming(c, s, own, said), Consumed(t, s, u),
         NEW own2, NEW said2, own \subseteq own2, own2 \cup said2 \subseteq own \cup said \cup {u.no},
         u.kind = "other" => own2 \cup said2 \subseteq own \cup said,
         sent'[c] = sent[c], fin'[c] = fin[c], rst'[c] = rst[c],
         c \notin lost' => c \notin lost /\ (u.kind \in Answerable => u.no \in own2)
  PROVE  Incoming(c, t, own2, said2)'
<1>1. PICK n \in Nat \ {0} : n = Size[u.kind]
  BY DEF Consumed
<1>2. /\ Len(t) \in Nat /\ Len(s) = n + Len(t)
      /\ \A i \in 1..Len(t) : t[i] = s[n + i]
      /\ 1 \in Heads(s) /\ s[1].msg = u
      /\ \A i \in Heads(t) : i \in 1..Len(t) /\ n + i \in Heads(s) /\ t[i] = s[n + i]
      /\ \A i \in Heads(s) : i # 1 => \E j \in Heads(t) : i = n + j
  BY <1>1 DEF Consumed
<1>3. \A i \in Heads(t) : Size[t[i].msg.kind] \in Nat
  <2>1. \A i \in 1..Len(t) : t[i].msg.kind \in Kinds
    <3>1. \A i \in 1..Len(t) : t[i] \in Cell
      BY ElementOfSeq
    <3>. QED
      BY <3>1 DEF Cell, Message
  <2>. QED
    BY <1>2, <2>1, SocketsAssumption
<1>4. /\ \A i \in Counted(t) : i \in 1..Len(t) /\ n + i \in Counted(s) /\ t[i] = s[n + i]
      /\ \A i \in Counted(s) : i = 1 \/ \E j \in Counted(t) : i = n + j
      /\ u.kind # "other" => 1 \in Counted(s)
  <2>1. \A i \in Counted(t) : i \in 1..Len(t) /\ n + i \in Counted(s) /\ t[i] = s[n + i]
    BY <1>2 DEF Counted
  <2>2. ASSUME NEW i \in Counted(s), i # 1 PROVE \E j \in Counted(t) : i = n + j
    <3>1. PICK j \in Heads(t) : i = n + j
      BY <1>2, <2>2 DEF Counted
    <3>2. t[j] = s[i]
      BY <1>2, <3>1
    <3>. QED
      BY <2>2, <3>1, <3>2 DEF Counted
  <2>3. u.kind # "other" => 1 \in Counted(s)
    BY <1>2 DEF Counted
  <2>. QED
    BY <2>1, <2>2, <2>3
<1>5. InFrames(t)
  <2>1. ASSUME t # <<>> PROVE 1 \in Heads(t)
    <3>1. 1 + n <= Len(s) /\ n \in 0..n /\ ~(n < n) /\ 1 + n # 1
      <4>1. Len(t) # 0
        BY <2>1, EmptySeq
      <4>. QED
        BY <1>2, <4>1
    <3>2. 1 + n \in Heads(s)
      BY <1>1, <1>2, <3>1 DEF Incoming, InFrames
    <3>3. PICK j \in Heads(t) : 1 + n = n + j
      BY <1>2, <3>1, <3>2
    <3>4. j = 1
      BY <1>2, <3>3
    <3>. QED
      BY <3>4
  <2>2. ASSUME NEW i \in Heads(t), NEW d \in 0..Size[t[i].msg.kind], i + d <= Len(t)
        PROVE  IF d < Size[t[i].msg.kind] THEN t[i + d] = [msg |-> t[i].msg, part |-> d + 1]
                                          ELSE i + d \in Heads(t)
    <3>1. i \in 1..Len(t) /\ n + i \in Heads(s) /\ t[i] = s[n + i] /\ d \in Nat
      BY <1>2, <1>3
    <3>2. /\ (n + i) + d = n + (i + d) /\ n + (i + d) <= Len(s) /\ n + (i + d) # 1
          /\ i + d \in 1..Len(t)
      BY <1>2, <2>2, <3>1
    <3>3. IF d < Size[t[i].msg.kind] THEN s[n + (i + d)] = [msg |-> t[i].msg, part |-> d + 1]
                                     ELSE n + (i + d) \in Heads(s)
      BY <3>1, <3>2 DEF Incoming, InFrames
    <3>4. CASE d < Size[t[i].msg.kind]
      BY <1>2, <3>2, <3>3, <3>4
    <3>5. CASE ~(d < Size[t[i].msg.kind])
      <4>1. PICK j \in Heads(t) : n + (i + d) = n + j
        BY <1>2, <3>2, <3>3, <3>5
      <4>2. j = i + d
        BY <1>2, <3>2, <4>1
      <4>. QED
        BY <3>5, <4>2
    <3>. QED
      BY <3>4, <3>5
  <2>. QED
    BY <2>1, <2>2 DEF InFrames
<1>6. EndsWhole(s) => EndsWhole(t)
  <2>1. ASSUME EndsWhole(s), NEW i \in Heads(t) PROVE i + Size[t[i].msg.kind] <= Len(t) + 1
    <3>1. (n + i) + Size[t[i].msg.kind] <= (n + Len(t)) + 1
      BY <1>2, <2>1 DEF EndsWhole
    <3>2. PICK z \in Nat : z = Size[t[i].msg.kind]
      BY <1>3
    <3>. QED
      BY <1>2, <3>1, <3>2
  <2>. QED
    BY <2>1 DEF EndsWhole
<1>7. \A i \in Counted(t) : t[i].msg.no \in 1..Len(sent[c]) /\ sent[c][t[i].msg.no] = t[i].msg.kind
  BY <1>4 DEF Incoming
<1>8. ASSUME NEW i \in Counted(t), NEW j \in Counted(t), i < j PROVE t[i].msg.no < t[j].msg.no
  <2>1. n + i < n + j
    BY <1>2, <1>4, <1>8
  <2>. QED
    BY <1>4, <2>1 DEF Incoming
<1>9. ASSUME NEW k \in own2 \cup said2, NEW i \in Counted(t) PROVE k < t[i].msg.no
  <2>1. CASE k \in own \cup said
    BY <1>4, <2>1 DEF Incoming
  <2>2. CASE k \notin own \cup said
    <3>1. k = u.no /\ 1 \in Counted(s)
      BY <1>4, <2>2
    <3>2. 1 < n + i
      BY <1>2, <1>4
    <3>. QED
      BY <1>2, <1>4, <3>1, <3>2 DEF Incoming
  <2>. QED
    BY <2>1, <2>2
<1>10. ASSUME c \notin lost', NEW m, Due(c, s, own, m) PROVE Due(c, t, own2, m)'
  <2>1. ASSUME NEW k \in 1..m, sent[c][k] \in Answerable
        PROVE  k \in own2 \/ \E j \in Counted(t) : t[j].msg.no = k
    <3>1. k \in own \/ \E j \in Counted(s) : s[j].msg.no = k
      BY <1>10, <2>1 DEF Due
    <3>2. ASSUME NEW j \in Counted(s), s[j].msg.no = k
          PROVE  k \in own2 \/ \E i \in Counted(t) : t[i].msg.no = k
      <4>1. CASE j = 1
        <5>1. k = u.no /\ sent[c][k] = u.kind
          BY <1>2, <3>2, <4>1 DEF Incoming
        <5>. QED
          BY <1>10, <2>1, <5>1
      <4>2. CASE j # 1
        BY <1>4, <3>2, <4>2
      <4>. QED
        BY <4>1, <4>2
    <3>. QED
      BY <3>1, <3>2
  <2>. QED
    BY <2>1 DEF Due
<1>11. c \notin lost' => \A i \in Counted(t) : Due(c, t, own2, t[i].msg.no)'
  BY <1>4, <1>10 DEF Incoming
<1>12. ~fin'[c] /\ ~rst'[c] => EndsWhole(t) /\ (c \notin lost' => Due(c, t, own2, Len(sent[c]))')
  BY <1>6, <1>10 DEF Incoming
<1>. QED
  BY <1>5, <1>7, <1>8, <1>9, <1>11, <1>12 DEF Incoming, Due

-----------------------------------------------------------------------------
(* Where the cells of a client stand *)

\* What the server has of c and not handled, for a client that is served and for one that is not.
LEMMA InputOf ==
  ASSUME Descriptors, TypeOK
  PROVE  /\ \A fd \in handlers :
              Input(conn[fd]) = read_buf[fd] \o (toServer[conn[fd]] \o writing[conn[fd]])
         /\ \A c \in Clients : peer[c] # "open" => Input(c) = toServer[c] \o writing[c]
<1>1. ASSUME NEW fd \in handlers
      PROVE  Input(conn[fd]) = read_buf[fd] \o (toServer[conn[fd]] \o writing[conn[fd]])
  <2>1. peer[conn[fd]] = "open"
    BY StreamOf
  <2>2. FdOf(conn[fd]) = fd
    BY Unique DEF FdOf, Descriptors
  <2>. QED
    BY <2>1, <2>2 DEF Input
<1>. QED
  BY <1>1 DEF Input

\* The same after a step.
LEMMA InputOfNext ==
  ASSUME Descriptors', TypeOK', NEW c \in Clients
  PROVE  /\ \A fd \in handlers' : conn'[fd] = c =>
              Input(c)' = read_buf'[fd] \o (toServer'[c] \o writing'[c])
         /\ peer'[c] # "open" => Input(c)' = toServer'[c] \o writing'[c]
<1>1. ASSUME NEW fd \in handlers', conn'[fd] = c
      PROVE  Input(c)' = read_buf'[fd] \o (toServer'[c] \o writing'[c])
  <2>1. peer'[c] = "open"
    BY <1>1, StreamOfNext
  <2>2. (CHOOSE g \in handlers' : conn'[g] = conn'[fd]) = fd
    BY Unique DEF Descriptors
  <2>3. FdOf(c)' = fd
    BY <1>1, <2>2 DEF FdOf
  <2>. QED
    BY <2>1, <2>3 DEF Input
<1>. QED
  BY <1>1 DEF Input

\* A step that leaves the descriptors and the cells of a client where they are.
LEMMA SameInput ==
  ASSUME IInv, IInv', NEW c \in Clients, peer'[c] = "open" <=> peer[c] = "open",
         \A fd \in handlers : conn[fd] = c => fd \in handlers' /\ conn'[fd] = c /\ read_buf'[fd] = read_buf[fd],
         toServer'[c] \o writing'[c] = toServer[c] \o writing[c]
  PROVE  Input(c)' = Input(c)
<1>1. Descriptors /\ TypeOK /\ Descriptors' /\ TypeOK'
  BY DEF IInv
<1>2. CASE peer[c] = "open"
  <2>1. PICK fd \in handlers : conn[fd] = c
    BY <1>1, <1>2, OpenHasFd
  <2>2. Input(c) = read_buf[fd] \o (toServer[c] \o writing[c])
    BY <1>1, <2>1, InputOf
  <2>3. Input(c)' = read_buf'[fd] \o (toServer'[c] \o writing'[c])
    BY <1>1, <2>1, InputOfNext
  <2>. QED
    BY <2>1, <2>2, <2>3
<1>3. CASE peer[c] # "open"
  <2>1. Input(c) = toServer[c] \o writing[c]
    BY <1>1, <1>3, InputOf
  <2>2. Input(c)' = toServer'[c] \o writing'[c]
    BY <1>1, <1>3, InputOfNext
  <2>. QED
    BY <2>1, <2>2
<1>. QED
  BY <1>2, <1>3

\* What the server has of c before what c has yet to write, in a step that leaves it alone.
LEMMA InputEnds ==
  ASSUME IInv, IInv', NEW c \in Clients, peer'[c] = "open" <=> peer[c] = "open",
         UNCHANGED <<handlers, conn, read_buf>>, toServer'[c] = toServer[c]
  PROVE  \E q \in Seq(Cell) : Input(c) = q \o writing[c] /\ Input(c)' = q \o writing'[c]
<1>1. Descriptors /\ TypeOK /\ Descriptors' /\ TypeOK'
  BY DEF IInv
<1>2. toServer[c] \in Seq(Cell) /\ writing[c] \in Seq(Cell) /\ writing'[c] \in Seq(Cell)
  BY <1>1 DEF TypeOK, SocketsTypeOK
<1>3. CASE peer[c] = "open"
  <2>1. PICK fd \in handlers : conn[fd] = c
    BY <1>1, <1>3, OpenHasFd
  <2>2. Input(c) = read_buf[fd] \o (toServer[c] \o writing[c])
    BY <1>1, <2>1, InputOf
  <2>3. Input(c)' = read_buf[fd] \o (toServer[c] \o writing'[c])
    BY <1>1, <2>1, InputOfNext
  <2>4. read_buf[fd] \in Seq(Cell)
    BY <1>1 DEF TypeOK, ServerTypeOK, Descriptors
  <2>5. /\ read_buf[fd] \o toServer[c] \in Seq(Cell)
        /\ (read_buf[fd] \o toServer[c]) \o writing[c] = read_buf[fd] \o (toServer[c] \o writing[c])
        /\ (read_buf[fd] \o toServer[c]) \o writing'[c] = read_buf[fd] \o (toServer[c] \o writing'[c])
    BY <1>2, <2>4, Regroup, ConcatProperties
  <2>. QED
    BY <2>2, <2>3, <2>5
<1>4. CASE peer[c] # "open"
  <2>1. Input(c) = toServer[c] \o writing[c] /\ Input(c)' = toServer[c] \o writing'[c]
    BY <1>1, <1>4, InputOf, InputOfNext
  <2>. QED
    BY <1>2, <2>1
<1>. QED
  BY <1>3, <1>4

\* Between epoll_wait() and the end of the batch the queue of closes only grows, and what is served is
\* what was, or what an event was about.
LEMMA BatchGoesOn ==
  ASSUME ServerStep, ~EndBatch, ~EpollWait
  PROVE  /\ batch' \subseteq batch /\ pending_closes \subseteq pending_closes'
         /\ pc # "wait" /\ pc' # "wait"
         /\ pc' \in {"read", "drive"} => \/ cur' = cur /\ pc \in {"read", "drive"}
                                         \/ \E e \in batch : e.fd = cur'
<1>1. CASE Dispatch
  BY <1>1 DEF Dispatch, ListenEvent, HangupEvent, InEvent, OutEvent, Enter, TakeEvent, QueueClose
<1>2. CASE AcceptOne \/ AcceptNone \/ ReadEnd \/ ReadAgain
  BY <1>2 DEF AcceptOne, AcceptNone, ReadEnd, ReadAgain, QueueClose
<1>3. CASE ReadData \/ ReadOverflow
  BY <1>3 DEF ReadData, ReadOverflow, QueueClose
<1>4. CASE HandshakeTooLong \/ HandshakeIncomplete \/ HandshakeRejected \/ HandshakeDone
  BY <1>4 DEF HandshakeTooLong, HandshakeIncomplete, HandshakeRejected, HandshakeDone, HandshakeWhole,
              Driving, QueueClose, Output
<1>5. CASE FrameIncomplete \/ FrameBroken \/ FrameText \/ FramePing \/ FrameClose \/ FrameIgnored
  BY <1>5 DEF FrameIncomplete, FrameBroken, FrameText, FramePing, FrameClose, FrameIgnored, FrameOf,
              Driving, QueueClose, Output
<1>6. CASE SendSome \/ SendStop \/ SendError
  BY <1>6 DEF SendSome, SendStop, SendError, QueueClose
<1>. QED
  BY <1>1, <1>2, <1>3, <1>4, <1>5, <1>6 DEF ServerStep

\* The server looks again at no client it has given up.
LEMMA AttendedBefore ==
  ASSUME StreamInv, IInv', Idle, [Next]_vars, NEW c \in Clients, Attended(c)'
  PROVE  Attended(c)
<1>1. IInv /\ TypeOK /\ Descriptors /\ FreshEvents /\ Descriptors'
  BY DEF StreamInv, IInv
<1>2. CASE UNCHANGED <<handlers, conn>> /\ batch' \subseteq batch /\ pending_closes \subseteq pending_closes'
           /\ (peer'[c] = peer[c] \/ peer[c] = "idle")
           /\ (pc' \in {"read", "drive"} =>
                 \/ cur' = cur /\ pc \in {"read", "drive"}
                 \/ \E e \in batch : e.fd = cur')
  BY <1>2 DEF Attended
<1>3. CASE EndBatch
  <2>1. /\ handlers' = handlers \ pending_closes /\ \A fd \in handlers' : conn'[fd] = conn[fd]
        /\ peer'[c] \in {peer[c], "closed"}
    BY <1>1, <1>3, EndStreams
  <2>. QED
    BY <2>1 DEF Attended
<1>4. CASE AcceptOne
  <2>1. PICK fd \in Fds, d \in Clients :
          /\ fd \notin handlers /\ handlers' = handlers \cup {fd}
          /\ peer[d] = "queued"
          /\ conn' = [conn EXCEPT ![fd] = d] /\ peer' = [peer EXCEPT ![d] = "open"]
    BY <1>1, <1>4, AcceptFacts
  <2>2. UNCHANGED <<pc, cur, batch, pending_closes>>
    BY <1>4 DEF AcceptOne
  <2>3. CASE c = d
    BY <2>1, <2>3 DEF Attended
  <2>4. CASE c # d
    <3>1. peer'[c] = peer[c] /\ \A g \in handlers' : conn'[g] = c => g \in handlers /\ conn[g] = c
      BY <1>1, <2>1, <2>4 DEF TypeOK, SocketsTypeOK
    <3>. QED
      BY <2>2, <3>1 DEF Attended
  <2>. QED
    BY <2>3, <2>4
<1>5. CASE EpollWait
  <2>1. pending_closes = {} /\ UNCHANGED <<handlers, conn, peer>>
    BY <1>5 DEF EpollWait, Idle, sockets, table
  <2>. QED
    BY <2>1 DEF Attended
<1>6. ASSUME NEW d \in Clients, Outside(ClientStep(d)) PROVE Attended(c)
  <2>1. UNCHANGED <<handlers, conn, pc, cur, batch, pending_closes>>
    BY <1>1, <1>6, ClientStreams DEF Outside
  <2>2. peer'[c] = peer[c] \/ peer[c] = "idle"
    BY <1>1, <1>6, ClientStreams
  <2>. QED
    BY <1>2, <2>1, <2>2
<1>7. CASE UNCHANGED vars
  BY <1>2, <1>7 DEF vars, sockets, table
<1>8. ASSUME ServerStep, ~EndBatch, ~AcceptOne, ~EpollWait PROVE Attended(c)
  <2>1. UNCHANGED <<handlers, conn, peer>>
    BY <1>8, StreamSplit, DriveSays DEF SendSome, SysSend
  <2>2. /\ batch' \subseteq batch /\ pending_closes \subseteq pending_closes'
        /\ pc' \in {"read", "drive"} => \/ cur' = cur /\ pc \in {"read", "drive"}
                                        \/ \E e \in batch : e.fd = cur'
    BY <1>8, BatchGoesOn
  <2>. QED
    BY <1>2, <2>1, <2>2
<1>. QED
  BY <1>3, <1>4, <1>5, <1>6, <1>7, <1>8 DEF Next, WorldStep

\* What the server has yet to see of c, and the client c: a step that changes nothing of them.
LEMMA RightSame ==
  ASSUME OrderInv, IInv', [Next]_vars, NEW c \in Clients, Stream(c)' = Stream(c), UNCHANGED log,
         joined'[c] = joined[c], sent'[c] = sent[c],
         c \in lost => c \in lost', fin[c] => fin'[c], rst[c] => rst'[c],
         c \in Members' /\ c \notin lost' => c \in Members,
         Attended(c)' => Input(c)' = Input(c)
  PROVE  ClientRight(c)'
<1>1. StreamInv /\ TypeOK /\ Idle
  BY DEF OrderInv, StreamInv, IInv
<1>2. PICK s \in Seq(Cell), v \in Seq(Cell), own \in SUBSET Nat, said \in SUBSET Nat :
        /\ v = Stream(c) /\ own = OwnNos(c, v) /\ said = Said(c)
        /\ Told(c, v) /\ Replied(c, v)
        /\ Attended(c) => s = Input(c) /\ Incoming(c, s, own, said)
  BY DEF OrderInv, ClientRight
<1>3. Told(c, v)'
  BY <1>2, ToldSame
<1>4. Replied(c, v)'
  <2>1. SentKept(c)
    BY <1>1, SentLen DEF SentKept
  <2>. QED
    BY <1>1, <1>2, <2>1, RepliedSame
<1>5. ASSUME Attended(c)' PROVE s = Input(c)' /\ Incoming(c, s, own, said)'
  <2>1. Attended(c)
    BY <1>1, <1>5, AttendedBefore
  <2>2. Incoming(c, s, own, said)
    BY <1>2, <2>1
  <2>3. Incoming(c, s, own, said)'
    BY <2>2, IncomingSame
  <2>. QED
    BY <1>2, <1>5, <2>1, <2>3
<1>6. v = Stream(c)' /\ own = OwnNos(c, v)' /\ said = Said(c)'
  BY <1>2 DEF OwnNos, OwnIn, Heads, Said
<1>. QED
  BY <1>2, <1>3, <1>4, <1>5, <1>6 DEF ClientRight

-----------------------------------------------------------------------------
(* The steps of the clients *)

\* A message is written.
LEMMA SendRight ==
  ASSUME OrderInv, IInv', NEW c \in Clients, NEW k \in May[c] \cap Kinds, Outside(Send(c, k))
  PROVE  ClientRight(c)'
<1>1. StreamInv /\ IInv /\ TypeOK /\ LogKnown /\ Idle
  BY DEF OrderInv, StreamInv, IInv
<1>2. /\ ~fin[c] /\ ~rst[c] /\ writing[c] = <<>>
      /\ UNCHANGED <<backlog, peer, toServer, fin, rst, unread, got, conn>>
      /\ UNCHANGED <<handlers, read_buf, write_buf, ws_clients, log, joined, lost>>
  BY DEF Outside, Send, Connected, table, history
<1>3. [Next]_vars
  BY DEF Next, WorldStep, ClientStep, Outside
<1>4. PICK s \in Seq(Cell), v \in Seq(Cell), own \in SUBSET Nat, said \in SUBSET Nat :
        /\ v = Stream(c) /\ own = OwnNos(c, v) /\ said = Said(c)
        /\ Told(c, v) /\ Replied(c, v)
        /\ Attended(c) => s = Input(c) /\ Incoming(c, s, own, said)
  BY DEF OrderInv, ClientRight
<1>. DEFINE N == Len(sent[c])
<1>5. sent[c] \in Seq(Kinds) /\ N \in Nat
  BY <1>1, SentLen
<1>6. PICK m \in Message : /\ m = [kind |-> k, from |-> c, no |-> IF k = "other" THEN 0 ELSE N + 1]
                           /\ m.kind = k /\ (k # "other" => m.no = N + 1)
  <2>1. PICK n \in Nat : n = IF k = "other" THEN 0 ELSE N + 1
    BY <1>5
  <2>2. [kind |-> k, from |-> c, no |-> n] \in Message
    BY DEF Message
  <2>3. WITNESS [kind |-> k, from |-> c, no |-> n] \in Message
  <2>. QED
    BY <2>1
<1>7. /\ IF k = "other" THEN sent'[c] = sent[c] ELSE sent'[c] = Append(sent[c], k) /\ m.no = N + 1
      /\ writing'[c] = Cells(m)
  BY <1>1, <1>6 DEF Outside, Send, TypeOK, SocketsTypeOK
<1>8. SentKept(c)
  <2>1. CASE k = "other"
    BY <1>5, <1>7, <2>1 DEF SentKept
  <2>2. CASE k # "other"
    BY <1>5, <1>7, <2>2, AppendProperties DEF SentKept
  <2>. QED
    BY <2>1, <2>2
<1>9. Stream(c)' = Stream(c)
  BY <1>1, <1>2, SameStreams
<1>10. Told(c, v)'
  BY <1>2, <1>4, ToldSame DEF Members
<1>11. Replied(c, v)'
  BY <1>1, <1>2, <1>4, <1>8, RepliedSame
<1>12. own \cup said \subseteq 1..N
  <2>1. own \subseteq 1..N
    BY <1>4 DEF OwnNos, Replied
  <2>2. said \subseteq 1..N
    BY <1>1, <1>4 DEF LogKnown, Said
  <2>. QED
    BY <2>1, <2>2
<1>13. ASSUME Attended(c)'
       PROVE  s \o Cells(m) \in Seq(Cell) /\ s \o Cells(m) = Input(c)' /\ Incoming(c, s \o Cells(m), own, said)'
  <2>1. Attended(c)
    BY <1>1, <1>3, <1>13, AttendedBefore
  <2>2. PICK q \in Seq(Cell) : Input(c) = q \o writing[c] /\ Input(c)' = q \o writing'[c]
    BY <1>1, <1>2, InputEnds
  <2>3. q \o <<>> = q
    BY ConcatEmptySeq
  <2>4. s = q /\ Input(c)' = s \o Cells(m)
    BY <1>2, <1>4, <1>7, <2>1, <2>2, <2>3
  <2>5. Incoming(c, s \o Cells(m), own, said)'
    BY <1>1, <1>2, <1>4, <1>6, <1>7, <1>12, <2>1, IncomingSend
  <2>6. s \o Cells(m) \in Seq(Cell)
    BY <1>6, CellsType, ConcatProperties
  <2>. QED
    BY <2>4, <2>5, <2>6
<1>14. v = Stream(c)' /\ own = OwnNos(c, v)' /\ said = Said(c)'
  BY <1>2, <1>4, <1>9 DEF OwnNos, OwnIn, Heads, Said
<1>. QED
  BY <1>4, <1>10, <1>11, <1>13, <1>14 DEF ClientRight

\* The client ends its stream or the connection, perhaps within a message.
LEMMA CutRight ==
  ASSUME OrderInv, IInv', NEW c \in Clients, Outside(Shutdown(c)) \/ Outside(Reset(c))
  PROVE  ClientRight(c)'
<1>1. StreamInv /\ IInv /\ TypeOK /\ Idle
  BY DEF OrderInv, StreamInv, IInv
<1>2. /\ UNCHANGED <<backlog, peer, toServer, got, conn, sent>>
      /\ UNCHANGED <<handlers, read_buf, write_buf, ws_clients, log, joined, lost>>
  BY DEF Outside, Shutdown, Reset, table, history
<1>3. writing'[c] = <<>> /\ (fin'[c] \/ rst'[c])
  BY <1>1 DEF Outside, Shutdown, Reset, TypeOK, SocketsTypeOK
<1>4. [Next]_vars
  BY DEF Next, WorldStep, ClientStep, Outside
<1>5. PICK s \in Seq(Cell), v \in Seq(Cell), own \in SUBSET Nat, said \in SUBSET Nat :
        /\ v = Stream(c) /\ own = OwnNos(c, v) /\ said = Said(c)
        /\ Told(c, v) /\ Replied(c, v)
        /\ Attended(c) => s = Input(c) /\ Incoming(c, s, own, said)
  BY DEF OrderInv, ClientRight
<1>6. Stream(c)' = Stream(c)
  BY <1>1, <1>2, SameStreams
<1>7. Told(c, v)'
  BY <1>2, <1>5, ToldSame DEF Members
<1>8. Replied(c, v)'
  <2>1. SentKept(c)
    BY <1>1, <1>2, SentLen DEF SentKept
  <2>. QED
    BY <1>1, <1>2, <1>5, <2>1, RepliedSame
<1>9. PICK q \in Seq(Cell) : Input(c) = q \o writing[c] /\ Input(c)' = q \o writing'[c]
  BY <1>1, <1>2, InputEnds
<1>10. ASSUME Attended(c)' PROVE q = Input(c)' /\ Incoming(c, q, own, said)'
  <2>1. Attended(c)
    BY <1>1, <1>4, <1>10, AttendedBefore
  <2>2. q \o <<>> = q /\ writing[c] \in Seq(Cell)
    BY <1>1, ConcatEmptySeq DEF TypeOK, SocketsTypeOK
  <2>3. Incoming(c, q \o writing[c], own, said)
    BY <1>5, <1>9, <2>1
  <2>4. Incoming(c, q, own, said)'
    BY <1>1, <1>2, <1>3, <2>2, <2>3, IncomingCut
  <2>. QED
    BY <1>3, <1>9, <2>2, <2>4
<1>11. v = Stream(c)' /\ own = OwnNos(c, v)' /\ said = Said(c)'
  BY <1>2, <1>5, <1>6 DEF OwnNos, OwnIn, Heads, Said
<1>. QED
  BY <1>5, <1>7, <1>8, <1>10, <1>11 DEF ClientRight

\* What arrives only moves on.
LEMMA ArriveInput ==
  ASSUME TypeOK, NEW c \in Clients, Arrive(c)
  PROVE  toServer'[c] \o writing'[c] = toServer[c] \o writing[c]
<1>1. toServer[c] \in Seq(Cell) /\ writing[c] \in Seq(Cell) /\ writing[c] # <<>>
  BY DEF TypeOK, SocketsTypeOK, Arrive
<1>2. PICK x \in Cell, r \in Seq(Cell) : x = Head(writing[c]) /\ r = Tail(writing[c])
  BY <1>1, HeadTailProperties
<1>3. toServer'[c] = Append(toServer[c], x) /\ writing'[c] = r
  BY <1>2 DEF Arrive, TypeOK, SocketsTypeOK
<1>4. <<x>> \in Seq(Cell) /\ Append(toServer[c], x) = toServer[c] \o <<x>>
  <2>1. Append(toServer[c], x) = toServer[c] \o <<x>>
    BY <1>1, AppendIsConcat
  <2>2. <<x>> \in Seq(Cell)
    OBVIOUS
  <2>. QED
    BY <2>1, <2>2
<1>5. writing[c] = <<x>> \o r
  BY <1>1, <1>2
<1>6. (toServer[c] \o <<x>>) \o r = toServer[c] \o (<<x>> \o r)
  BY <1>1, <1>4, Regroup
<1>. QED
  BY <1>3, <1>4, <1>5, <1>6

\* The clients' steps.
LEMMA ClientRightNext ==
  ASSUME OrderInv, IInv', NEW d \in Clients, Outside(ClientStep(d)), NEW c \in Clients
  PROVE  ClientRight(c)'
<1>1. StreamInv /\ IInv /\ TypeOK
  BY DEF OrderInv, StreamInv, IInv
<1>2. UNCHANGED <<conn, got, handlers, read_buf, write_buf, ws_clients, log, joined, lost>>
  BY DEF Outside, ClientStep, Connect, Send, Arrive, Shutdown, Reset, Receive, table, history
<1>3. [Next]_vars
  BY DEF Next, WorldStep
<1>4. Stream(c)' = Stream(c) /\ Members' = Members
  BY <1>1, <1>2, SameStreams DEF Members
<1>5. peer'[c] = "open" <=> peer[c] = "open"
  BY <1>1, ClientStreams
<1>6. ASSUME toServer'[c] \o writing'[c] = toServer[c] \o writing[c],
             sent'[c] = sent[c], fin'[c] = fin[c], rst'[c] = rst[c]
      PROVE  ClientRight(c)'
  <2>1. Input(c)' = Input(c)
    BY <1>1, <1>2, <1>5, <1>6, SameInput
  <2>. QED
    BY <1>2, <1>3, <1>4, <1>6, <2>1, RightSame
<1>7. CASE c # d
  BY <1>1, <1>6, <1>7 DEF Outside, ClientStep, Connect, Send, Arrive, Shutdown, Reset, Receive,
                          TypeOK, SocketsTypeOK
<1>8. CASE c = d
  <2>1. CASE Connect(c) \/ Receive(c)
    BY <1>6, <2>1 DEF Connect, Receive
  <2>2. CASE Arrive(c)
    BY <1>1, <1>6, <2>2, ArriveInput DEF Arrive
  <2>3. ASSUME NEW k \in May[c] \cap Kinds, Send(c, k) PROVE ClientRight(c)'
    BY <1>8, <2>3, SendRight DEF Outside
  <2>4. CASE Shutdown(c) \/ Reset(c)
    BY <1>8, <2>4, CutRight DEF Outside
  <2>. QED
    BY <1>8, <2>1, <2>2, <2>3, <2>4 DEF Outside, ClientStep
<1>. QED
  BY <1>7, <1>8

-----------------------------------------------------------------------------
(* The steps of the server that handle no message *)

\* The close queue: who is left is as before, who is closed keeps what the kernel took.
LEMMA EndRight ==
  ASSUME OrderInv, IInv', EndBatch, NEW c \in Clients
  PROVE  ClientRight(c)'
<1>1. StreamInv /\ IInv /\ TypeOK /\ Descriptors /\ Registered /\ LogOnce /\ Descriptors'
  BY DEF OrderInv, StreamInv, IInv
<1>2. [Next]_vars
  BY DEF Next, ServerStep
<1>3. /\ pending_closes \subseteq handlers /\ handlers' = handlers \ pending_closes
      /\ ws_clients' = ws_clients \ pending_closes /\ UNCHANGED <<got, lost>>
      /\ \A fd \in handlers' : conn'[fd] = conn[fd] /\ read_buf'[fd] = read_buf[fd]
      /\ peer'[c] = IF \E fd \in pending_closes : conn[fd] = c THEN "closed" ELSE peer[c]
      /\ Stream(c)' = IF \E fd \in pending_closes : conn[fd] = c THEN got[c] ELSE Stream(c)
  BY <1>1, EndStreams
<1>4. UNCHANGED <<log, joined, sent, fin, rst>>
  BY DEF EndBatch, ProcessCloseQueue, SysClose, history
<1>5. Members' \subseteq Members
  <2>1. ws_clients' \subseteq ws_clients /\ ws_clients' \subseteq handlers'
    BY <1>1, <1>3 DEF Registered
  <2>. QED
    BY <1>3, <2>1 DEF Members
<1>6. CASE ~\E fd \in pending_closes : conn[fd] = c
  <2>1. Stream(c)' = Stream(c)
    BY <1>3, <1>6
  <2>2. toServer'[c] = toServer[c] /\ writing'[c] = writing[c]
    <3>1. c \notin {conn[fd] : fd \in Closing} \ {NoClient}
      BY <1>6 DEF Closing
    <3>. QED
      BY <3>1 DEF EndBatch, ProcessCloseQueue, SysClose
  <2>3. \A fd \in handlers : conn[fd] = c => fd \in handlers' /\ conn'[fd] = c /\ read_buf'[fd] = read_buf[fd]
    BY <1>3, <1>6
  <2>4. Input(c)' = Input(c)
    BY <1>1, <1>3, <1>6, <2>2, <2>3, SameInput
  <2>. QED
    BY <1>2, <1>3, <1>4, <1>5, <2>1, <2>4, RightSame
<1>7. CASE \E fd \in pending_closes : conn[fd] = c
  <2>1. PICK fd \in pending_closes : conn[fd] = c
    BY <1>7
  <2>2. PICK v \in Seq(Cell), own \in SUBSET Nat, said \in SUBSET Nat :
          /\ v = Stream(c) /\ own = OwnNos(c, v) /\ said = Said(c)
          /\ Told(c, v) /\ Replied(c, v)
    BY DEF OrderInv, ClientRight
  <2>3. fd \in Fds /\ fd \in handlers /\ v = got[c] \o write_buf[fd]
    BY <1>1, <1>3, <2>1, <2>2, StreamOf
  <2>4. PICK g \in Seq(Cell) : g = got[c]
    BY <1>1 DEF TypeOK, SocketsTypeOK
  <2>5. write_buf[fd] \in Seq(Cell)
    BY <1>1, <2>3 DEF TypeOK, ServerTypeOK
  <2>6. c \notin Members'
    <3>1. \A h \in ws_clients' : h \in handlers /\ h # fd /\ conn'[h] = conn[h]
      BY <1>1, <1>3, <2>1 DEF Registered
    <3>. QED
      BY <1>1, <2>1, <2>3, <3>1 DEF Descriptors, Members
  <2>7. Told(c, g)'
    BY <1>1, <1>3, <1>4, <2>2, <2>3, <2>4, <2>5, <2>6, ToldCut
  <2>8. Replied(c, g)'
    BY <1>1, <1>3, <1>4, <2>2, <2>3, <2>4, <2>5, RepliedCut
  <2>9. g = Stream(c)'
    BY <1>3, <1>7, <2>4
  <2>10. ~Attended(c)'
    <3>1. peer'[c] = "closed"
      BY <1>3, <1>7
    <3>2. ~\E h \in handlers' : conn'[h] = c
      BY <1>1, <3>1 DEF Descriptors
    <3>. QED
      BY <3>1, <3>2 DEF Attended
  <2>11. OwnNos(c, g)' \in SUBSET Nat /\ Said(c)' \in SUBSET Nat
    <3>1. OwnNos(c, g)' = OwnNos(c, g) /\ Said(c)' = said
      BY <1>4, <2>2 DEF OwnNos, OwnIn, Heads, Said
    <3>2. \A i \in OwnIn(c, g) : g[i].msg.no \in Nat
      <4>1. \A i \in OwnIn(c, g) : i \in 1..Len(g)
        BY LenProperties DEF OwnIn, Heads
      <4>2. \A i \in 1..Len(g) : g[i] \in Cell
        BY ElementOfSeq
      <4>. QED
        BY <4>1, <4>2 DEF Cell, Message
    <3>. QED
      BY <3>1, <3>2 DEF OwnNos
  <2>. QED
    BY <2>7, <2>8, <2>9, <2>10, <2>11 DEF ClientRight
<1>. QED
  BY <1>6, <1>7

\* accept(): what has been sent meanwhile stays where it is.
LEMMA AcceptRight ==
  ASSUME OrderInv, IInv', AcceptOne, NEW c \in Clients
  PROVE  ClientRight(c)'
<1>1. StreamInv /\ IInv /\ TypeOK /\ Descriptors /\ Descriptors' /\ TypeOK' /\ Quiet
  BY DEF OrderInv, StreamInv, IInv
<1>2. [Next]_vars
  BY DEF Next, ServerStep
<1>3. Stream(c)' = Stream(c) /\ Members' = Members
  BY <1>1, AcceptStreams, AcceptFacts DEF Members
<1>4. UNCHANGED <<fin, rst>>
  BY DEF AcceptOne, SysAccept
<1>5. PICK fd \in Fds, d \in Clients :
        /\ fd \notin handlers /\ handlers' = handlers \cup {fd}
        /\ peer[d] = "queued"
        /\ conn' = [conn EXCEPT ![fd] = d] /\ peer' = [peer EXCEPT ![d] = "open"]
        /\ read_buf' = [read_buf EXCEPT ![fd] = <<>>]
        /\ UNCHANGED <<lost, writing, toServer, sent, log, joined>>
  BY <1>1, AcceptFacts
<1>6. /\ conn'[fd] = d /\ read_buf'[fd] = <<>> /\ fd \in handlers'
      /\ \A g \in handlers : g \in handlers' /\ conn'[g] = conn[g] /\ read_buf'[g] = read_buf[g]
  BY <1>1, <1>5 DEF TypeOK, SocketsTypeOK, ServerTypeOK
<1>7. Input(c)' = Input(c)
  <2>1. CASE c = d
    <3>1. Input(c) = toServer[c] \o writing[c]
      BY <1>1, <1>5, <2>1, InputOf
    <3>2. Input(c)' = read_buf'[fd] \o (toServer'[c] \o writing'[c])
      BY <1>1, <1>6, <2>1, InputOfNext
    <3>3. <<>> \o (toServer[c] \o writing[c]) = toServer[c] \o writing[c]
      <4>1. toServer[c] \o writing[c] \in Seq(Cell)
        BY <1>1, ConcatProperties DEF TypeOK, SocketsTypeOK
      <4>. QED
        BY <4>1, ConcatEmptySeq
    <3>. QED
      BY <1>5, <1>6, <3>1, <3>2, <3>3
  <2>2. CASE c # d
    <3>1. peer'[c] = peer[c]
      BY <1>1, <1>5, <2>2 DEF TypeOK, SocketsTypeOK
    <3>. QED
      BY <1>1, <1>5, <1>6, <3>1, SameInput
  <2>. QED
    BY <2>1, <2>2
<1>. QED
  BY <1>2, <1>3, <1>4, <1>5, <1>7, RightSame

\* read(): what is read moves from the socket to the read buffer.
LEMMA ReadInput ==
  ASSUME IInv, IInv', ReadData, NEW c \in Clients
  PROVE  Input(c)' = Input(c)
<1>1. TypeOK /\ Descriptors /\ Descriptors' /\ TypeOK'
  BY DEF IInv
<1>. DEFINE d == conn[cur]
            q == toServer[d]
            n == Chunk
<1>2. cur \in Fds /\ cur \in handlers /\ d \in Clients
  BY <1>1, Served DEF ReadData
<1>3. q \in Seq(Cell) /\ read_buf[cur] \in Seq(Cell) /\ writing[d] \in Seq(Cell) /\ Len(q) \in Nat
  BY <1>1, <1>2, LenProperties DEF TypeOK, SocketsTypeOK, ServerTypeOK
<1>4. n \in Nat /\ n <= Len(q)
  <2>1. ReadChunk \in Nat
    BY ReactorAssumption
  <2>. QED
    BY <1>3, <2>1, LesserType DEF Chunk
<1>5. /\ read_buf' = [read_buf EXCEPT ![cur] = @ \o SubSeq(q, 1, n)]
      /\ toServer' = [toServer EXCEPT ![d] = SubSeq(q, n + 1, Len(q))]
      /\ UNCHANGED <<handlers, conn, peer, writing>>
  BY DEF ReadData, SysRead
<1>. HIDE DEF n
<1>6. SubSeq(q, 1, n) \o SubSeq(q, n + 1, Len(q)) = q
  <2>1. 1 \in 1..Len(q) + 1 /\ n \in 1 - 1..Len(q) /\ Len(q) \in n..Len(q)
    BY <1>3, <1>4
  <2>2. SubSeq(q, 1, n) \o SubSeq(q, n + 1, Len(q)) = SubSeq(q, 1, Len(q))
    BY <1>3, <2>1, ConcatAdjacentSubSeq
  <2>. QED
    BY <1>3, <2>2, SubSeqFull
<1>7. PICK a \in Seq(Cell), b \in Seq(Cell) : a = SubSeq(q, 1, n) /\ b = SubSeq(q, n + 1, Len(q)) /\ a \o b = q
  BY <1>3, <1>4, <1>6, PieceType
<1>8. CASE c = d
  <2>1. Input(c) = read_buf[cur] \o (q \o writing[c])
    BY <1>1, <1>2, <1>8, InputOf
  <2>2. Input(c)' = (read_buf[cur] \o a) \o (b \o writing[c])
    <3>1. Input(c)' = read_buf'[cur] \o (toServer'[c] \o writing'[c])
      BY <1>1, <1>2, <1>5, <1>8, InputOfNext
    <3>2. read_buf'[cur] = read_buf[cur] \o a /\ toServer'[c] = b
      BY <1>1, <1>2, <1>5, <1>7, <1>8 DEF TypeOK, SocketsTypeOK, ServerTypeOK
    <3>. QED
      BY <1>5, <3>1, <3>2
  <2>3. PICK e \in Seq(Cell) : e = b \o writing[c]
    BY <1>3, <1>7, <1>8, ConcatProperties
  <2>4. (read_buf[cur] \o a) \o e = read_buf[cur] \o (a \o e)
    <3>1. read_buf[cur] \in Seq(Cell)
      BY <1>3
    <3>. QED
      BY <3>1, Regroup
  <2>5. a \o (b \o writing[c]) = (a \o b) \o writing[c]
    <3>1. writing[c] \in Seq(Cell)
      BY <1>3, <1>8
    <3>. QED
      BY <3>1, Regroup
  <2>. QED
    BY <1>7, <2>1, <2>2, <2>3, <2>4, <2>5
<1>9. CASE c # d
  <2>1. \A fd \in handlers : conn[fd] = c => fd # cur /\ read_buf'[fd] = read_buf[fd]
    BY <1>1, <1>5, <1>9 DEF TypeOK, ServerTypeOK
  <2>2. toServer'[c] = toServer[c]
    BY <1>1, <1>5, <1>9 DEF TypeOK, SocketsTypeOK
  <2>. QED
    BY <1>1, <1>5, <2>1, <2>2, SameInput
<1>. QED
  BY <1>8, <1>9

\* The steps that change nothing of what a client is told, nor of what the server still sees of it.
LEMMA AsideRight ==
  ASSUME OrderInv, IInv', ServerStep, NEW c \in Clients,
         UNCHANGED <<handlers, conn, got, write_buf, ws_clients, lost, peer>>,
         UNCHANGED <<log, joined, sent, fin, rst>>,
         Attended(c)' => Input(c)' = Input(c)
  PROVE  ClientRight(c)'
<1>1. IInv
  BY DEF OrderInv, StreamInv
<1>2. [Next]_vars
  BY DEF Next
<1>3. Stream(c)' = Stream(c) /\ Members' = Members
  BY <1>1, SameStreams DEF Members
<1>. QED
  BY <1>2, <1>3, RightSame

\* send(): what it takes stays in the stream.
LEMMA SendSomeRight ==
  ASSUME OrderInv, IInv', SendSome, NEW c \in Clients
  PROVE  ClientRight(c)'
<1>1. IInv /\ StreamInv
  BY DEF OrderInv, StreamInv
<1>2. [Next]_vars
  BY DEF Next, ServerStep
<1>3. Stream(c)' = Stream(c)
  BY <1>1, SendStreams
<1>4. /\ UNCHANGED <<handlers, conn, read_buf, peer, toServer, writing, sent, fin, rst>>
      /\ UNCHANGED <<ws_clients, log, joined, lost>>
  BY DEF SendSome, SysSend, history
<1>5. Input(c)' = Input(c)
  BY <1>1, <1>4, SameInput
<1>6. Members' = Members
  BY <1>4 DEF Members
<1>. QED
  BY <1>2, <1>3, <1>4, <1>5, <1>6, RightSame

\* The server has given up cur: it does not look at what cur sends any more.
LEMMA GivenUp ==
  ASSUME IInv, NEW c, c = conn[cur], pc \in {"read", "drive", "flush"}, pc' = "event", QueueClose(cur),
         UNCHANGED <<handlers, conn, peer, batch>>
  PROVE  ~Attended(c)'
<1>1. TypeOK /\ Descriptors /\ FreshEvents
  BY DEF IInv
<1>2. /\ cur \in handlers /\ conn[cur] \in Clients /\ peer[conn[cur]] = "open"
      /\ \A e \in batch : e.fd # cur
      /\ \A fd \in handlers : conn[fd] = conn[cur] => fd = cur
  BY <1>1, Served, StreamOf DEF FreshEvents, Descriptors
<1>3. peer'[c] = "open" /\ \A fd \in handlers' : conn'[fd] = c => fd = cur
  BY <1>2
<1>4. cur \in pending_closes' /\ pc' \notin {"read", "drive"} /\ \A e \in batch' : e.fd # cur
  BY <1>2 DEF QueueClose
<1>. QED
  BY <1>2, <1>3, <1>4 DEF Attended

\* The steps that handle no message and leave the streams as they are.
LEMMA IdleRight ==
  ASSUME OrderInv, IInv', NEW c \in Clients,
         \/ EpollWait \/ Dispatch \/ AcceptNone
         \/ ReadData \/ ReadOverflow \/ ReadEnd \/ ReadAgain
         \/ HandshakeTooLong \/ HandshakeIncomplete \/ FrameIncomplete \/ FrameBroken
         \/ SendStop \/ SendError
  PROVE  ClientRight(c)'
<1>1. IInv /\ TypeOK /\ Descriptors
  BY DEF OrderInv, StreamInv, IInv
<1>2. ServerStep
  BY DEF ServerStep
<1>3. CASE UNCHANGED <<sockets, handlers, read_buf, write_buf, ws_clients, history>>
  <2>1. Input(c)' = Input(c)
    BY <1>1, <1>3, SameInput DEF sockets
  <2>. QED
    BY <1>2, <1>3, <2>1, AsideRight DEF sockets, history
<1>4. CASE ReadData
  <2>1. Input(c)' = Input(c)
    BY <1>1, <1>4, ReadInput
  <2>. QED
    BY <1>2, <1>4, <2>1, AsideRight DEF ReadData, SysRead, history
<1>5. CASE ReadOverflow
  <2>1. /\ UNCHANGED <<handlers, conn, peer, batch, read_buf, writing>>
        /\ pc = "read" /\ pc' = "event" /\ QueueClose(cur)
        /\ \E n : toServer' = [toServer EXCEPT ![conn[cur]] = n]
    BY <1>5 DEF ReadOverflow, SysRead, table
  <2>2. CASE c = conn[cur]
    <3>1. ~Attended(c)'
      BY <1>1, <2>1, <2>2, GivenUp
    <3>. QED
      BY <1>2, <1>5, <3>1, AsideRight DEF ReadOverflow, SysRead, table, history
  <2>3. CASE c # conn[cur]
    <3>1. toServer'[c] = toServer[c]
      BY <1>1, <2>1, <2>3 DEF TypeOK, SocketsTypeOK
    <3>2. Input(c)' = Input(c)
      BY <1>1, <2>1, <3>1, SameInput
    <3>. QED
      BY <1>2, <1>5, <3>2, AsideRight DEF ReadOverflow, SysRead, table, history
  <2>. QED
    BY <2>2, <2>3
<1>6. CASE \/ EpollWait \/ Dispatch \/ AcceptNone \/ ReadEnd \/ ReadAgain
           \/ HandshakeTooLong \/ HandshakeIncomplete \/ FrameIncomplete \/ FrameBroken
           \/ SendStop \/ SendError
  <2>1. CASE Dispatch
    BY <1>3, <2>1 DEF Dispatch, ListenEvent, HangupEvent, InEvent, OutEvent, Enter, table
  <2>2. CASE EpollWait \/ AcceptNone \/ ReadEnd \/ ReadAgain
    BY <1>3, <2>2 DEF EpollWait, AcceptNone, ReadEnd, ReadAgain, table
  <2>3. CASE HandshakeTooLong \/ HandshakeIncomplete \/ FrameIncomplete \/ FrameBroken
    BY <1>3, <2>3 DEF HandshakeTooLong, HandshakeIncomplete, FrameIncomplete, FrameBroken, table
  <2>4. CASE SendStop \/ SendError
    BY <1>3, <2>4 DEF SendStop, SendError
  <2>. QED
    BY <1>6, <2>1, <2>2, <2>3, <2>4
<1>. QED
  BY <1>4, <1>5, <1>6

-----------------------------------------------------------------------------
(* The steps of drive_io() that handle a message *)

\* The message u at the head of the buffer of cur is handled.
Handling(u) ==
  /\ pc = "drive" /\ Whole(read_buf[cur]) /\ u = First(read_buf[cur]) /\ Consume
  /\ UNCHANGED <<sockets, handlers>>

\* The numbers of a client's answers and texts.
LEMMA NosType ==
  /\ \A c : \A s \in Seq(Cell) : OwnNos(c, s) \in SUBSET Nat
  /\ TypeOK => \A c : Said(c) \in SUBSET Nat
<1>1. ASSUME NEW c, NEW s \in Seq(Cell) PROVE OwnNos(c, s) \in SUBSET Nat
  <2>1. \A i \in OwnIn(c, s) : i \in 1..Len(s)
    BY LenProperties DEF OwnIn, Heads
  <2>2. \A i \in 1..Len(s) : s[i] \in Cell
    BY ElementOfSeq
  <2>. QED
    BY <2>1, <2>2 DEF OwnNos, Cell, Message
<1>2. ASSUME TypeOK, NEW c PROVE Said(c) \in SUBSET Nat
  <2>1. \A k \in DOMAIN log : log[k] \in Message
    <3>1. log \in Seq(Message) /\ DOMAIN log = 1..Len(log)
      BY <1>2, LenProperties DEF TypeOK, ServerTypeOK
    <3>. QED
      BY <3>1, ElementOfSeq
  <2>. QED
    BY <2>1 DEF Said, Message
<1>. QED
  BY <1>1, <1>2

\* Nothing is said in a step that leaves the log.
LEMMA SaidKept ==
  ASSUME TypeOK, UNCHANGED log, NEW c
  PROVE  \E said \in SUBSET Nat : said = Said(c) /\ said = Said(c)'
<1>1. Said(c)' = Said(c)
  BY DEF Said
<1>2. Said(c) \in SUBSET Nat
  BY NosType
<1>. QED
  BY <1>1, <1>2

\* What the server has of its client before and after.
LEMMA HeadTaken ==
  ASSUME OrderInv, IInv', NEW c \in Clients, c = conn[cur], NEW u, Handling(u)
  PROVE  /\ u \in Message /\ Input(c) \in Seq(Cell) /\ Input(c)' \in Seq(Cell)
         /\ Consumed(Input(c)', Input(c), u)
         /\ Incoming(c, Input(c), OwnNos(c, Stream(c)), Said(c))
<1>1. IInv /\ TypeOK /\ Descriptors /\ Descriptors' /\ TypeOK'
  BY DEF OrderInv, StreamInv, IInv
<1>2. /\ pc = "drive" /\ Whole(read_buf[cur]) /\ u = First(read_buf[cur]) /\ Consume
      /\ UNCHANGED <<handlers, conn, peer, toServer, writing>>
  BY DEF Handling, sockets
<1>3. cur \in Fds /\ cur \in handlers /\ u \in Message
  BY <1>1, <1>2, ConsumeType
<1>4. Attended(c)
  BY <1>2, <1>3 DEF Attended
<1>5. Incoming(c, Input(c), OwnNos(c, Stream(c)), Said(c))
  BY <1>4 DEF OrderInv, ClientRight
<1>6. PICK buf \in Seq(Cell), X \in Seq(Cell) : buf = read_buf[cur] /\ X = toServer[c] \o writing[c]
  <2>1. read_buf[cur] \in Seq(Cell) /\ toServer[c] \in Seq(Cell) /\ writing[c] \in Seq(Cell)
    BY <1>1, <1>3 DEF TypeOK, SocketsTypeOK, ServerTypeOK
  <2>. QED
    BY <2>1, ConcatProperties
<1>7. Input(c) = buf \o X
  BY <1>1, <1>3, <1>6, InputOf
<1>8. Input(c)' = Rest(buf) \o X
  <2>1. read_buf'[cur] = Rest(buf)
    BY <1>1, <1>2, <1>3, <1>6 DEF Consume, TypeOK, ServerTypeOK
  <2>2. Input(c)' = read_buf'[cur] \o (toServer'[c] \o writing'[c])
    BY <1>1, <1>2, <1>3, InputOfNext
  <2>. QED
    BY <1>2, <1>6, <2>1, <2>2
<1>9. buf \o X \in Seq(Cell) /\ Whole(buf) /\ First(buf) = u /\ InFrames(buf \o X)
  BY <1>2, <1>5, <1>6, <1>7, ConcatProperties DEF Incoming
<1>10. Rest(buf) \o X \in Seq(Cell) /\ Consumed(Rest(buf) \o X, buf \o X, u)
  BY <1>9, ConsumedRest
<1>. QED
  BY <1>3, <1>5, <1>7, <1>8, <1>9, <1>10

\* It is the next of those its client sent and the server has not handled.
LEMMA HeadNext ==
  ASSUME OrderInv, IInv', NEW c \in Clients, c = conn[cur], NEW u, Handling(u), u.kind # "other"
  PROVE  /\ u.no \in 1..Len(sent[c]) /\ sent[c][u.no] = u.kind
         /\ \A n \in OwnNos(c, Stream(c)) \cup Said(c) : n < u.no
         /\ c \notin lost => \A k \in 1..u.no : sent[c][k] \in Answerable =>
                               k \in OwnNos(c, Stream(c)) \/ k = u.no
<1>1. TypeOK
  BY DEF OrderInv, StreamInv, IInv
<1>2. PICK s, t, own, said :
        /\ s = Input(c) /\ t = Input(c)' /\ own = OwnNos(c, Stream(c)) /\ said = Said(c)
        /\ Consumed(t, s, u) /\ Incoming(c, s, own, said)
  BY HeadTaken
<1>3. 1 \in Counted(s) /\ s[1].msg = u
  BY <1>2 DEF Consumed, Counted
<1>4. u.no \in 1..Len(sent[c]) /\ sent[c][u.no] = u.kind /\ u.no \in Nat
  <2>1. Len(sent[c]) \in Nat
    BY <1>1, SentLen
  <2>. QED
    BY <1>2, <1>3, <2>1 DEF Incoming
<1>5. \A n \in own \cup said : n < u.no
  BY <1>2, <1>3 DEF Incoming
<1>6. ASSUME c \notin lost, NEW k \in 1..u.no, sent[c][k] \in Answerable
      PROVE  k \in own \/ k = u.no
  <2>1. k \in own \/ \E j \in Counted(s) : s[j].msg.no = k
    BY <1>2, <1>3, <1>6 DEF Incoming, Due
  <2>2. ASSUME NEW j \in Counted(s), s[j].msg.no = k PROVE k = u.no
    <3>1. CASE j = 1
      BY <1>3, <2>2, <3>1
    <3>2. CASE j # 1
      <4>1. 1 < j
        <5>1. PICK h \in Heads(t) : j = Size[u.kind] + h /\ h \in 1..Len(t)
          BY <1>2, <3>2 DEF Consumed, Counted
        <5>2. Size[u.kind] \in Nat \ {0} /\ Len(t) \in Nat
          BY <1>2 DEF Consumed
        <5>. QED
          BY <5>1, <5>2
      <4>2. u.no < k
        BY <1>2, <1>3, <2>2, <4>1 DEF Incoming
      <4>. QED
        BY <1>4, <1>6, <4>2
    <3>. QED
      BY <3>1, <3>2
  <2>. QED
    BY <2>1, <2>2
<1>. QED
  BY <1>2, <1>4, <1>5, <1>6

\* The client of the message, after it was handled.
LEMMA HandledRight ==
  ASSUME OrderInv, IInv', NEW c \in Clients, c = conn[cur], NEW u, Handling(u),
         NEW w \in Seq(Cell), w = Stream(c)', Told(c, w)', Replied(c, w)',
         NEW said2 \in SUBSET Nat, said2 = Said(c)',
         OwnNos(c, Stream(c)) \subseteq OwnNos(c, w),
         OwnNos(c, w) \cup said2 \subseteq OwnNos(c, Stream(c)) \cup Said(c) \cup {u.no},
         u.kind = "other" => OwnNos(c, w) \cup said2 \subseteq OwnNos(c, Stream(c)) \cup Said(c),
         c \notin lost' => c \notin lost /\ (u.kind \in Answerable => u.no \in OwnNos(c, w))
  PROVE  ClientRight(c)'
<1>1. PICK s, t, own, said :
        /\ s \in Seq(Cell) /\ t \in Seq(Cell)
        /\ s = Input(c) /\ t = Input(c)' /\ own = OwnNos(c, Stream(c)) /\ said = Said(c)
        /\ Consumed(t, s, u) /\ Incoming(c, s, own, said)
  BY HeadTaken
<1>2. PICK own2 \in SUBSET Nat : own2 = OwnNos(c, w)
  BY NosType
<1>3. UNCHANGED <<sent, fin, rst>>
  BY DEF Handling, sockets
<1>4. Incoming(c, t, own2, said2)'
  BY <1>1, <1>2, <1>3, IncomingConsume
<1>5. OwnNos(c, w)' = own2
  BY <1>2 DEF OwnNos, OwnIn, Heads
<1>. QED
  BY <1>1, <1>4, <1>5 DEF ClientRight

\* The input of another client.
LEMMA OtherInput ==
  ASSUME IInv, IInv', NEW u, Handling(u), NEW c \in Clients, c # conn[cur]
  PROVE  Input(c)' = Input(c)
<1>1. UNCHANGED <<handlers, conn, peer, toServer, writing>>
  BY DEF Handling, sockets
<1>2. \A fd \in handlers : conn[fd] = c => read_buf'[fd] = read_buf[fd]
  BY DEF Handling, Consume, IInv, TypeOK, ServerTypeOK, Descriptors
<1>. QED
  BY <1>1, <1>2, SameInput

\* A message that is not answered: a request that is rejected, a Close, a frame without effect.
LEMMA DropRight ==
  ASSUME OrderInv, IInv', HandshakeRejected \/ FrameClose \/ FrameIgnored, NEW c \in Clients
  PROVE  ClientRight(c)'
<1>1. IInv /\ IInv' /\ TypeOK /\ StreamInv
  BY DEF OrderInv, StreamInv, IInv
<1>2. /\ ServerStep
      /\ UNCHANGED <<sockets, handlers, status, write_buf, ws_clients, history>>
  BY DEF ServerStep, HandshakeRejected, FrameClose, FrameIgnored
<1>3. /\ UNCHANGED <<handlers, conn, got, write_buf, ws_clients, lost, peer>>
      /\ UNCHANGED <<log, joined, sent, fin, rst>>
  BY <1>2 DEF sockets, history
<1>4. Stream(c)' = Stream(c) /\ Members' = Members
  BY <1>1, <1>3, SameStreams DEF Members
<1>5. PICK u : Handling(u) /\ u.kind \notin Answerable
  BY <1>2 DEF HandshakeRejected, HandshakeWhole, FrameClose, FrameIgnored, FrameOf, Driving, Handling,
              Answerable, Texts
<1>6. CASE c = conn[cur]
  <2>1. PICK v \in Seq(Cell) : v = Stream(c) /\ Told(c, v) /\ Replied(c, v)
    BY DEF OrderInv, ClientRight
  <2>2. Told(c, v)'
    BY <1>3, <1>4, <2>1, ToldSame
  <2>3. Replied(c, v)'
    <3>1. SentKept(c)
      BY <1>1, <1>3, SentLen DEF SentKept
    <3>. QED
      BY <1>1, <1>3, <2>1, <3>1, RepliedSame
  <2>4. PICK said \in SUBSET Nat : said = Said(c) /\ said = Said(c)'
    BY <1>1, <1>3, SaidKept
  <2>. QED
    BY <1>3, <1>4, <1>5, <1>6, <2>1, <2>2, <2>3, <2>4, HandledRight
<1>7. CASE c # conn[cur]
  <2>1. Input(c)' = Input(c)
    BY <1>1, <1>5, <1>7, OtherInput
  <2>. QED
    BY <1>2, <1>3, <2>1, AsideRight
<1>. QED
  BY <1>6, <1>7

\* The upgrade: nothing has been said to the client, and nothing is missing.
LEMMA UpgradeRight ==
  ASSUME OrderInv, IInv', HandshakeDone, NEW c \in Clients
  PROVE  ClientRight(c)'
<1>1. IInv /\ TypeOK /\ StreamInv
  BY DEF OrderInv, StreamInv, IInv
<1>2. PICK u : Handling(u) /\ u.kind = "hello"
  BY DEF HandshakeDone, HandshakeWhole, Driving, Handling
<1>3. /\ cur \in handlers /\ UNCHANGED <<handlers, conn, got, peer>> /\ Upgrade
      /\ UNCHANGED <<log, sent, fin, rst>> /\ joined' = [joined EXCEPT ![conn[cur]] = Len(log)]
      /\ ws_clients' = ws_clients \cup {cur}
      /\ ServerStep
  <2>1. cur \in handlers /\ UNCHANGED <<handlers, conn, got, peer>>
    BY <1>1, DriveSays
  <2>2. status[cur] = "UNCONNECT"
    BY DEF HandshakeDone, HandshakeWhole, Driving
  <2>. QED
    BY <2>1, <2>2 DEF HandshakeDone, Upgrade, ServerStep, sockets
<1>4. /\ conn[cur] \in Clients /\ Stream(conn[cur]) = <<>> /\ conn[cur] \notin lost
      /\ Stream(c)' = IF c = conn[cur] THEN Cells(Switch(c)) ELSE Stream(c)
      /\ UNCHANGED lost
  BY <1>1, <1>3, UpgradeStreams
<1>5. CASE c = conn[cur]
  <2>1. PICK w \in Seq(Cell) : w = Cells(Switch(c)) /\ w = <<>> \o Cells(Switch(c))
    BY ReplyType, CellsType, ConcatEmptySeq
  <2>2. joined'[c] = Len(log)
    BY <1>1, <1>3, <1>5 DEF TypeOK, ServerTypeOK
  <2>3. Told(c, w)'
    <3>1. Told(c, Cells(Switch(c)))'
      BY <1>1, <1>3, <2>2, ToldFirst
    <3>. QED
      BY <2>1, <3>1
  <2>4. Switch(c) \in Message /\ Switch(c).kind = "switch"
    BY ReplyType DEF Switch
  <2>5. PICK e \in Seq(Cell) : e = <<>> /\ Stream(c) = e
    BY <1>4, <1>5, EmptySeq
  <2>6. Replied(c, e)
    BY <2>5 DEF OrderInv, ClientRight
  <2>7. Replied(c, w)'
    <3>1. Replied(c, e \o Cells(Switch(c)))'
      BY <1>1, <1>3, <1>4, <2>4, <2>6, RepliedOther
    <3>. QED
      BY <2>1, <2>5, <3>1
  <2>8. OwnNos(c, w) = OwnNos(c, Stream(c))
    <3>1. OwnNos(c, e \o Cells(Switch(c))) = OwnNos(c, e)
      BY <2>4, OwnAppend
    <3>. QED
      BY <2>1, <2>5, <3>1
  <2>9. PICK said \in SUBSET Nat : said = Said(c) /\ said = Said(c)'
    BY <1>1, <1>3, SaidKept
  <2>10. u.kind # "other" /\ u.kind \notin Answerable
    BY <1>2 DEF Answerable, Texts
  <2>11. w = Stream(c)'
    BY <1>4, <1>5, <2>1
  <2>. QED
    BY <1>2, <1>4, <1>5, <2>3, <2>7, <2>8, <2>9, <2>10, <2>11, HandledRight
<1>6. CASE c # conn[cur]
  <2>1. Input(c)' = Input(c)
    BY <1>1, <1>2, <1>6, OtherInput
  <2>2. c \in Members' => c \in Members
    BY <1>3, <1>6 DEF Members
  <2>3. joined'[c] = joined[c]
    BY <1>1, <1>3, <1>6 DEF TypeOK, ServerTypeOK
  <2>4. [Next]_vars
    BY <1>3 DEF Next
  <2>. QED
    BY <1>3, <1>4, <1>6, <2>1, <2>2, <2>3, <2>4, RightSame
<1>. QED
  BY <1>5, <1>6

\* What an answer m from the client d changes for the client c: nothing, or its stream ends with m.
Reaches(m, S, c) == \E fd \in {cur} \cup S : conn[fd] = c /\ Fits(fd, m)

\* Its stream is extended if it is reached, the room stays, and who is not reached is marked.
LEMMA AnswerReaches ==
  ASSUME StreamInv, IInv', cur \in ws_clients, NEW m \in Message, NEW S \in SUBSET ws_clients,
         Output(m, S), UNCHANGED <<handlers, conn, got, ws_clients>>, NEW c \in Clients
  PROVE  /\ Stream(c)' = IF Reaches(m, S, c) THEN Stream(c) \o Cells(m) ELSE Stream(c)
         /\ Members' = Members
         /\ c \in lost => c \in lost'
         /\ Reaches(m, S, c) => c \in Members /\ (c \notin lost => c \notin lost')
         /\ ~Reaches(m, S, c) /\ (\E fd \in {cur} \cup S : conn[fd] = c) => c \in lost'
         /\ ~(\E fd \in {cur} \cup S : conn[fd] = c) => ~Reaches(m, S, c) /\ (c \notin lost => c \notin lost')
<1>1. IInv /\ Descriptors /\ Registered
  BY DEF StreamInv, IInv
<1>2. cur \in handlers /\ S \in SUBSET handlers /\ {cur} \cup S \subseteq ws_clients
      /\ \A f, g \in {cur} \cup S : conn[f] = conn[g] => f = g
  BY <1>1 DEF Registered, Descriptors
<1>3. Stream(c)' = IF Reaches(m, S, c) THEN Stream(c) \o Cells(m) ELSE Stream(c)
  BY <1>1, <1>2, OutputStreams DEF Reaches
<1>4. lost' = lost \cup {conn[fd] : fd \in {t \in {cur} \cup S : ~Fits(t, m)}}
  BY DEF Output
<1>5. Members' = Members
  BY DEF Members
<1>6. Reaches(m, S, c) => c \in Members /\ (c \notin lost => c \notin lost')
  BY <1>2, <1>4 DEF Reaches, Members
<1>7. ~Reaches(m, S, c) /\ (\E fd \in {cur} \cup S : conn[fd] = c) => c \in lost'
  BY <1>4 DEF Reaches
<1>8. ~(\E fd \in {cur} \cup S : conn[fd] = c) => ~Reaches(m, S, c) /\ (c \notin lost => c \notin lost')
  BY <1>4 DEF Reaches
<1>. QED
  BY <1>3, <1>4, <1>5, <1>6, <1>7, <1>8

\* The answer m to the message u of the client d is put at the end of the streams it reaches; d, whom it
\* is for, gets it or is lost with it.  What the log and the texts need is shown for each kind apart.
LEMMA AnswerRight ==
  ASSUME OrderInv, IInv', ServerStep, cur \in ws_clients, NEW u, Handling(u), u.kind \in Answerable,
         NEW m \in Message, m.from = conn[cur], m.no = u.no, m.kind = AnswerTo(u.kind),
         NEW S \in SUBSET ws_clients, Output(m, S),
         UNCHANGED <<handlers, conn, got, ws_clients, joined>>, NEW c \in Clients,
         NEW w \in Seq(Cell), w = Stream(c)', Told(c, w)',
         Said(c)' \subseteq Said(c) \cup {u.no}, c # conn[cur] => Said(c)' = Said(c)
  PROVE  ClientRight(c)'
<1>1. IInv /\ TypeOK /\ StreamInv /\ Descriptors /\ Idle
  BY DEF OrderInv, StreamInv, IInv
<1>2. UNCHANGED <<sent, fin, rst>>
  BY DEF Handling, sockets
<1>3. /\ Stream(c)' = IF Reaches(m, S, c) THEN Stream(c) \o Cells(m) ELSE Stream(c)
      /\ c \in lost => c \in lost'
      /\ c \notin lost' => c \notin lost
      /\ Reaches(m, S, c) => (c \notin lost => c \notin lost')
      /\ ~Reaches(m, S, c) /\ c = conn[cur] => c \in lost'
  BY <1>1, AnswerReaches
<1>4. PICK s \in Seq(Cell), v \in Seq(Cell), own \in SUBSET Nat, said \in SUBSET Nat :
        /\ v = Stream(c) /\ own = OwnNos(c, v) /\ said = Said(c)
        /\ Told(c, v) /\ Replied(c, v)
        /\ Attended(c) => s = Input(c) /\ Incoming(c, s, own, said)
  BY DEF OrderInv, ClientRight
<1>5. PICK said2 \in SUBSET Nat : said2 = Said(c)'
  <2>1. Said(c) \in SUBSET Nat /\ u.no \in Nat
    BY <1>4 DEF Message
  <2>. QED
    BY <2>1
<1>6. m.kind # "switch" /\ u.kind # "other"
  BY DEF Answerable, AnswerTo, Texts
<1>7. SentKept(c)
  BY <1>1, <1>2, SentLen DEF SentKept
<1>8. CASE c = conn[cur]
  <2>1. /\ u.no \in 1..Len(sent[c]) /\ sent[c][u.no] = u.kind
        /\ \A n \in own \cup said : n < u.no
        /\ c \notin lost => \A k \in 1..u.no : sent[c][k] \in Answerable => k \in own \/ k = u.no
    BY <1>4, <1>6, <1>8, HeadNext
  <2>2. CASE Reaches(m, S, c)
    <3>1. w = v \o Cells(m)
      BY <1>3, <1>4, <2>2
    <3>2. Replied(c, w)'
      BY <1>1, <1>2, <1>3, <1>4, <1>6, <1>8, <2>1, <3>1, RepliedMine
    <3>3. OwnNos(c, w) = own \cup {u.no}
      <4>1. OwnNos(c, v \o Cells(m)) = IF m.from = c /\ m.kind # "switch" THEN OwnNos(c, v) \cup {m.no}
                                                                          ELSE OwnNos(c, v)
        BY OwnAppend
      <4>. QED
        BY <1>4, <1>6, <1>8, <3>1, <4>1
    <3>. QED
      BY <1>3, <1>4, <1>5, <1>6, <1>8, <3>2, <3>3, HandledRight
  <2>3. CASE ~Reaches(m, S, c)
    <3>1. w = v /\ c \in lost'
      BY <1>3, <1>4, <1>8, <2>3
    <3>2. Replied(c, v)'
      BY <1>1, <1>3, <1>4, <1>7, RepliedSame
    <3>. QED
      BY <1>4, <1>5, <1>6, <1>8, <3>1, <3>2, HandledRight
  <2>. QED
    BY <2>2, <2>3
<1>9. CASE c # conn[cur]
  <2>1. Input(c)' = Input(c)
    BY <1>1, <1>9, OtherInput
  <2>2. ASSUME Attended(c)' PROVE s = Input(c)' /\ Incoming(c, s, own, said)'
    <3>1. Attended(c)
      BY <1>1, <2>2, AttendedBefore DEF Next
    <3>2. Incoming(c, s, own, said)'
      BY <1>2, <1>3, <1>4, <3>1, IncomingSame
    <3>. QED
      BY <1>4, <2>1, <3>1, <3>2
  <2>3. Replied(c, w)' /\ OwnNos(c, w) = own
    <3>1. CASE Reaches(m, S, c)
      <4>1. w = v \o Cells(m) /\ m.from # c
        BY <1>3, <1>4, <1>9, <3>1
      <4>2. Replied(c, v \o Cells(m))'
        BY <1>1, <1>2, <1>3, <1>4, <4>1, RepliedOther
      <4>3. OwnNos(c, v \o Cells(m)) = own
        BY <1>4, <4>1, OwnAppend
      <4>. QED
        BY <4>1, <4>2, <4>3
    <3>2. CASE ~Reaches(m, S, c)
      BY <1>1, <1>3, <1>4, <1>7, <3>2, RepliedSame
    <3>. QED
      BY <3>1, <3>2
  <2>4. OwnNos(c, w)' = own /\ said = Said(c)'
    BY <1>4, <1>9, <2>3 DEF OwnNos, OwnIn, Heads
  <2>. QED
    BY <2>2, <2>3, <2>4 DEF ClientRight
<1>. QED
  BY <1>8, <1>9

\* The numbers of the texts said when another is.
LEMMA SaidAppend ==
  ASSUME TypeOK, NEW m \in Message, log' = Append(log, m), NEW c
  PROVE  Said(c)' = IF m.from = c THEN Said(c) \cup {m.no} ELSE Said(c)
<1>. DEFINE n == Len(log)
<1>1. log \in Seq(Message) /\ n \in Nat /\ DOMAIN log = 1..n
  BY LenProperties DEF TypeOK, ServerTypeOK
<1>2. /\ DOMAIN log' = 1..n + 1 /\ log'[n + 1] = m /\ \A k \in 1..n : log'[k] = log[k]
  BY <1>1, AppendProperties
<1>3. 1..n + 1 = 1..n \cup {n + 1}
  BY <1>1
<1>. HIDE DEF n
<1>4. {l \in DOMAIN log' : log'[l].from = c} =
        {l \in DOMAIN log : log[l].from = c} \cup (IF m.from = c THEN {n + 1} ELSE {})
  BY <1>1, <1>2, <1>3
<1>. QED
  BY <1>1, <1>2, <1>4 DEF Said

\* What drive_io() knows of a frame it answers.
LEMMA AnswerFacts ==
  ASSUME OrderInv, IInv', NEW k, k \in Texts \cup {"ping"},
         FrameOf({k}), UNCHANGED <<sockets, handlers>>
  PROVE  \E u \in Message : /\ Handling(u) /\ u = First(read_buf[cur]) /\ u.kind = k
                            /\ cur \in ws_clients /\ conn[cur] \in Clients /\ u.from = conn[cur]
                            /\ u.no \in 1..Len(sent[conn[cur]])
                            /\ \A n \in Said(conn[cur]) : n < u.no
<1>1. IInv /\ TypeOK /\ Descriptors /\ Registered /\ Authentic
  BY DEF OrderInv, StreamInv, IInv
<1>2. pc = "drive" /\ Whole(read_buf[cur]) /\ Consume /\ status[cur] = "HANDSHARKED"
      /\ First(read_buf[cur]).kind = k
  BY DEF FrameOf, Driving
<1>3. cur \in handlers /\ conn[cur] \in Clients
  BY <1>1, <1>2, ConsumeType
<1>4. PICK u \in FromClient(conn[cur]) : u = First(read_buf[cur])
  <2>1. read_buf[cur] \in Seq(CellFrom(conn[cur])) /\ read_buf[cur] # <<>>
    BY <1>1, <1>2, <1>3 DEF Authentic, Whole
  <2>. QED
    BY <1>3, <2>1, FirstFrom
<1>5. Handling(u) /\ u \in Message /\ u.from = conn[cur] /\ u.kind = k /\ u.kind # "other"
  BY <1>2, <1>4 DEF Handling, FromClient, Texts
<1>6. /\ u.no \in 1..Len(sent[conn[cur]])
      /\ \A n \in Said(conn[cur]) : n < u.no
  BY <1>3, <1>5, HeadNext
<1>. QED
  BY <1>1, <1>2, <1>3, <1>4, <1>5, <1>6 DEF Registered

\* A text that is handled is new, and of those its client sent.
LEMMA TextIsNew ==
  ASSUME OrderInv, IInv', FrameText
  PROVE  \E u \in Message : /\ u.kind \in Texts /\ Handling(u)
                            /\ cur \in ws_clients /\ conn[cur] \in Clients /\ u.from = conn[cur]
                            /\ u.no \in 1..Len(sent[conn[cur]])
                            /\ Output(u, ws_clients) /\ log' = Append(log, u)
                            /\ \A k \in DOMAIN log : log[k] # u
<1>1. PICK u \in Message : /\ Handling(u) /\ u = First(read_buf[cur]) /\ u.kind \in Texts
                           /\ cur \in ws_clients /\ conn[cur] \in Clients /\ u.from = conn[cur]
                           /\ u.no \in 1..Len(sent[conn[cur]])
                           /\ \A n \in Said(conn[cur]) : n < u.no
  <2>1. PICK k \in Texts : FrameOf({k})
    BY DEF FrameText, FrameOf
  <2>2. UNCHANGED <<sockets, handlers>>
    BY DEF FrameText
  <2>. QED
    BY <2>1, <2>2, AnswerFacts
<1>2. \A k \in DOMAIN log : log[k] # u
  <2>1. u.no \in Nat /\ ~(u.no < u.no)
    BY DEF Message
  <2>. QED
    BY <1>1, <2>1 DEF Said
<1>3. Output(u, ws_clients) /\ log' = Append(log, u)
  BY <1>1 DEF FrameText
<1>. QED
  BY <1>1, <1>2, <1>3

\* A text: all in the room are told it, or lost.
LEMMA TextRight ==
  ASSUME OrderInv, IInv', FrameText, NEW c \in Clients
  PROVE  ClientRight(c)'
<1>1. IInv /\ TypeOK /\ StreamInv /\ LogOnce
  BY DEF OrderInv, StreamInv, IInv
<1>2. PICK u \in Message : /\ u.kind \in Texts /\ Handling(u)
                           /\ cur \in ws_clients /\ conn[cur] \in Clients /\ u.from = conn[cur]
                           /\ Output(u, ws_clients) /\ log' = Append(log, u)
                           /\ \A k \in DOMAIN log : log[k] # u
  BY TextIsNew
<1>3. UNCHANGED <<handlers, conn, got, ws_clients, joined>> /\ ServerStep
  BY DEF FrameText, ServerStep, sockets
<1>4. /\ Stream(c)' = IF Reaches(u, ws_clients, c) THEN Stream(c) \o Cells(u) ELSE Stream(c)
      /\ Members' = Members
      /\ c \in lost => c \in lost'
      /\ Reaches(u, ws_clients, c) => c \in Members
      /\ ~Reaches(u, ws_clients, c) /\ (\E fd \in {cur} \cup ws_clients : conn[fd] = c) => c \in lost'
  BY <1>1, <1>2, <1>3, AnswerReaches
<1>5. PICK v \in Seq(Cell) : v = Stream(c) /\ Told(c, v)
  BY DEF OrderInv, ClientRight
<1>6. PICK w \in Seq(Cell) : /\ w = Stream(c)'
                             /\ \/ w = v \o Cells(u) /\ c \in Members
                                \/ w = v /\ (c \in Members' => c \in lost')
  <2>1. CASE Reaches(u, ws_clients, c)
    <3>1. v \o Cells(u) \in Seq(Cell)
      BY CellsType, ConcatProperties
    <3>. QED
      BY <1>4, <1>5, <2>1, <3>1
  <2>2. CASE ~Reaches(u, ws_clients, c)
    <3>1. c \in Members => c \in lost'
      BY <1>4, <2>2 DEF Members
    <3>. QED
      BY <1>4, <1>5, <2>2, <3>1
  <2>. QED
    BY <2>1, <2>2
<1>7. Told(c, w)'
  BY <1>1, <1>2, <1>3, <1>4, <1>5, <1>6, ToldText
<1>8. Said(c)' = IF u.from = c THEN Said(c) \cup {u.no} ELSE Said(c)
  BY <1>1, <1>2, SaidAppend
<1>9. u.kind \in Answerable /\ u.kind = AnswerTo(u.kind)
  BY <1>2 DEF Answerable, AnswerTo, Texts
<1>. QED
  BY <1>2, <1>3, <1>6, <1>7, <1>8, <1>9, AnswerRight

\* A ping: its client gets a pong, or is lost.
LEMMA PingRight ==
  ASSUME OrderInv, IInv', FramePing, NEW c \in Clients
  PROVE  ClientRight(c)'
<1>1. IInv /\ TypeOK /\ StreamInv
  BY DEF OrderInv, StreamInv, IInv
<1>2. UNCHANGED <<handlers, conn, got, ws_clients, joined, log, sockets>> /\ ServerStep
  BY DEF FramePing, ServerStep, sockets
<1>3. PICK u \in Message : /\ Handling(u) /\ u = First(read_buf[cur]) /\ u.kind = "ping"
                           /\ cur \in ws_clients /\ conn[cur] \in Clients /\ u.from = conn[cur]
  BY <1>2, AnswerFacts DEF FramePing
<1>4. PICK m \in Message : /\ m = [u EXCEPT !.kind = "pong"]
                           /\ m.kind = "pong" /\ m.from = conn[cur] /\ m.no = u.no
  <2>1. [u EXCEPT !.kind = "pong"] \in Message
    BY ReplyType
  <2>. QED
    BY <1>3, <2>1 DEF Message
<1>5. Output(m, {}) /\ {} \in SUBSET ws_clients
  BY <1>3, <1>4 DEF FramePing
<1>6. /\ Stream(c)' = IF Reaches(m, {}, c) THEN Stream(c) \o Cells(m) ELSE Stream(c)
      /\ Members' = Members
      /\ c \in lost => c \in lost'
  BY <1>1, <1>2, <1>3, <1>5, AnswerReaches
<1>7. PICK v \in Seq(Cell) : v = Stream(c) /\ Told(c, v)
  BY DEF OrderInv, ClientRight
<1>8. PICK w \in Seq(Cell) : w = Stream(c)' /\ (w = v \o Cells(m) \/ w = v)
  <2>1. v \o Cells(m) \in Seq(Cell)
    BY CellsType, ConcatProperties
  <2>. QED
    BY <1>6, <1>7, <2>1
<1>9. Told(c, w)'
  <2>1. CASE w = v \o Cells(m)
    <3>1. Told(c, v \o Cells(m))'
      BY <1>2, <1>4, <1>6, <1>7, ToldOther DEF Texts
    <3>. QED
      BY <2>1, <3>1
  <2>2. CASE w = v
    BY <1>2, <1>6, <1>7, <2>2, ToldSame
  <2>. QED
    BY <1>8, <2>1, <2>2
<1>10. Said(c)' = Said(c)
  BY <1>2 DEF Said
<1>11. u.kind \in Answerable /\ m.kind = AnswerTo(u.kind)
  BY <1>3, <1>4 DEF Answerable, AnswerTo
<1>. QED
  BY <1>2, <1>3, <1>4, <1>5, <1>8, <1>9, <1>10, <1>11, AnswerRight

-----------------------------------------------------------------------------
(* The inductive invariant, put together *)

\* What the texts change in the log.
LEMMA LogSplit ==
  ASSUME OrderInv, [Next]_vars, ~FrameText
  PROVE  UNCHANGED log
<1>1. CASE \E c \in Clients : Outside(ClientStep(c))
  BY <1>1 DEF Outside, history
<1>2. CASE EpollWait \/ Dispatch \/ EndBatch
  BY <1>2 DEF EpollWait, Dispatch, EndBatch, ListenEvent, HangupEvent, InEvent, OutEvent, Enter, history
<1>3. CASE AcceptOne \/ AcceptNone \/ ReadData \/ ReadOverflow \/ ReadEnd \/ ReadAgain
  BY <1>3 DEF AcceptOne, AcceptNone, ReadData, ReadOverflow, ReadEnd, ReadAgain, history
<1>4. CASE HandshakeTooLong \/ HandshakeIncomplete \/ HandshakeRejected \/ HandshakeDone
  BY <1>4 DEF HandshakeTooLong, HandshakeIncomplete, HandshakeRejected, HandshakeDone, history
<1>5. CASE FrameIncomplete \/ FrameBroken \/ FramePing \/ FrameClose \/ FrameIgnored
  BY <1>5 DEF FrameIncomplete, FrameBroken, FramePing, FrameClose, FrameIgnored, history
<1>6. CASE SendSome \/ SendStop \/ SendError
  BY <1>6 DEF SendSome, SendStop, SendError, history
<1>7. CASE UNCHANGED vars
  BY <1>7 DEF vars, history
<1>. QED
  BY <1>1, <1>2, <1>3, <1>4, <1>5, <1>6, <1>7 DEF Next, WorldStep, ServerStep

\* No server step changes what the clients have sent.
LEMMA SentSplit ==
  ASSUME [Next]_vars, ~\E c \in Clients : \E k \in May[c] \cap Kinds : Outside(Send(c, k))
  PROVE  UNCHANGED sent
<1>1. CASE \E c \in Clients : Outside(ClientStep(c))
  BY <1>1 DEF Outside, ClientStep, Connect, Arrive, Shutdown, Reset, Receive
<1>2. CASE EpollWait \/ Dispatch \/ EndBatch
  BY <1>2 DEF EpollWait, Dispatch, EndBatch, ListenEvent, HangupEvent, InEvent, OutEvent, Enter,
              ProcessCloseQueue, SysClose, sockets
<1>3. CASE AcceptOne \/ AcceptNone \/ ReadData \/ ReadOverflow \/ ReadEnd \/ ReadAgain
  BY <1>3 DEF AcceptOne, AcceptNone, ReadData, ReadOverflow, ReadEnd, ReadAgain, sockets, SysAccept, SysRead
<1>4. CASE HandshakeTooLong \/ HandshakeIncomplete \/ HandshakeRejected \/ HandshakeDone
  BY <1>4 DEF HandshakeTooLong, HandshakeIncomplete, HandshakeRejected, HandshakeDone, sockets
<1>5. CASE FrameIncomplete \/ FrameBroken \/ FrameText \/ FramePing \/ FrameClose \/ FrameIgnored
  BY <1>5 DEF FrameIncomplete, FrameBroken, FrameText, FramePing, FrameClose, FrameIgnored, sockets
<1>6. CASE SendSome \/ SendStop \/ SendError
  BY <1>6 DEF SendSome, SendStop, SendError, sockets, SysSend
<1>7. CASE UNCHANGED vars
  BY <1>7 DEF vars, sockets
<1>. QED
  BY <1>1, <1>2, <1>3, <1>4, <1>5, <1>6, <1>7 DEF Next, WorldStep, ServerStep, ClientStep

\* The log after a text.
LEMMA LogNext ==
  ASSUME OrderInv, [Next]_vars, IInv'
  PROVE  \/ UNCHANGED log
         \/ \E u \in Message :
              /\ u.no \in 1..Len(sent[u.from]) /\ u.from \in Clients /\ \A k \in DOMAIN log : log[k] # u
              /\ DOMAIN log = 1..Len(log) /\ DOMAIN log' = 1..Len(log) + 1 /\ Len(log) \in Nat
              /\ log'[Len(log) + 1] = u /\ \A k \in 1..Len(log) : log'[k] = log[k]
<1>1. CASE ~FrameText
  BY <1>1, LogSplit
<1>2. CASE FrameText
  <2>1. PICK u \in Message : /\ conn[cur] \in Clients /\ u.from = conn[cur] /\ u.no \in 1..Len(sent[conn[cur]])
                             /\ log' = Append(log, u) /\ \A k \in DOMAIN log : log[k] # u
    BY <1>2, TextIsNew
  <2>2. log \in Seq(Message)
    BY DEF OrderInv, StreamInv, IInv, TypeOK, ServerTypeOK
  <2>3. /\ DOMAIN log = 1..Len(log) /\ DOMAIN log' = 1..Len(log) + 1 /\ Len(log) \in Nat
        /\ log'[Len(log) + 1] = u /\ \A k \in 1..Len(log) : log'[k] = log[k]
    BY <2>1, <2>2, LenProperties, AppendProperties
  <2>. QED
    BY <2>1, <2>3
<1>. QED
  BY <1>1, <1>2

\* What was sent stays.
LEMMA SentNext ==
  ASSUME IInv, [Next]_vars, NEW c \in Clients
  PROVE  \A n \in 1..Len(sent[c]) : n \in 1..Len(sent'[c])
<1>1. TypeOK
  BY DEF IInv
<1>2. sent[c] \in Seq(Kinds) /\ Len(sent[c]) \in Nat
  BY <1>1, SentLen
<1>3. CASE UNCHANGED sent
  BY <1>3
<1>4. ASSUME NEW d \in Clients, NEW k \in May[d] \cap Kinds, Outside(Send(d, k))
      PROVE  \A n \in 1..Len(sent[c]) : n \in 1..Len(sent'[c])
  <2>1. sent'[c] = sent[c] \/ sent'[c] = Append(sent[c], k)
    BY <1>1, <1>4 DEF Outside, Send, TypeOK, SocketsTypeOK
  <2>2. CASE sent'[c] = Append(sent[c], k)
    <3>1. Len(sent'[c]) = Len(sent[c]) + 1
      BY <1>2, <2>2, AppendProperties
    <3>. QED
      BY <1>2, <3>1
  <2>. QED
    BY <2>1, <2>2
<1>. QED
  BY <1>3, <1>4, SentSplit

\* The log after a step.
LEMMA LogInv ==
  ASSUME OrderInv, [Next]_vars, IInv'
  PROVE  LogOnce' /\ LogKnown'
<1>1. IInv /\ LogOnce /\ LogKnown /\ log \in Seq(Message)
  BY DEF OrderInv, StreamInv, IInv, TypeOK, ServerTypeOK
<1>2. \A k \in DOMAIN log : log[k].from \in Clients
  <2>1. \A k \in 1..Len(log) : log[k] \in Message
    BY <1>1, ElementOfSeq
  <2>. QED
    BY <1>1, <2>1, LenProperties DEF Message
<1>3. \A k \in DOMAIN log : log[k].no \in 1..Len(sent'[log[k].from])
  BY <1>1, <1>2, SentNext DEF LogKnown
<1>4. CASE UNCHANGED log
  BY <1>1, <1>3, <1>4 DEF LogOnce, LogKnown
<1>5. CASE ~UNCHANGED log
  <2>1. PICK u \in Message :
          /\ u.no \in 1..Len(sent[u.from]) /\ u.from \in Clients /\ \A k \in DOMAIN log : log[k] # u
          /\ DOMAIN log = 1..Len(log) /\ DOMAIN log' = 1..Len(log) + 1 /\ Len(log) \in Nat
          /\ log'[Len(log) + 1] = u /\ \A k \in 1..Len(log) : log'[k] = log[k]
    BY <1>5, LogNext
  <2>2. \A k \in DOMAIN log' : \/ k \in DOMAIN log /\ log'[k] = log[k]
                               \/ k = Len(log) + 1 /\ log'[k] = u
    BY <2>1
  <2>3. u.no \in 1..Len(sent'[u.from])
    BY <1>1, <2>1, SentNext
  <2>4. LogOnce'
    BY <1>1, <2>1, <2>2 DEF LogOnce
  <2>5. LogKnown'
    BY <1>3, <2>2, <2>3 DEF LogKnown
  <2>. QED
    BY <2>4, <2>5
<1>. QED
  BY <1>4, <1>5

\* The close queue is emptied before the process waits.
LEMMA IdleNext ==
  ASSUME OrderInv, [Next]_vars, IInv'
  PROVE  Idle'
<1>1. Idle
  BY DEF OrderInv
<1>2. CASE \E c \in Clients : Outside(ClientStep(c))
  BY <1>1, <1>2 DEF Outside, Idle
<1>3. CASE EndBatch
  BY <1>3 DEF EndBatch, ProcessCloseQueue, Idle
<1>4. CASE EpollWait
  BY <1>4 DEF EpollWait, Idle
<1>5. ASSUME ServerStep, ~EndBatch, ~EpollWait PROVE Idle'
  BY <1>5, BatchGoesOn DEF Idle
<1>6. CASE UNCHANGED vars
  BY <1>1, <1>6 DEF vars, Idle
<1>. QED
  BY <1>2, <1>3, <1>4, <1>5, <1>6 DEF Next, WorldStep

\* A step that changes nothing.
LEMMA StutterRight ==
  ASSUME OrderInv, IInv', UNCHANGED vars, NEW c \in Clients
  PROVE  ClientRight(c)'
<1>1. IInv
  BY DEF OrderInv, StreamInv
<1>2. UNCHANGED sockets /\ UNCHANGED table /\ UNCHANGED history
  BY DEF vars
<1>3. /\ UNCHANGED <<handlers, conn, got, write_buf, ws_clients, lost, peer>>
      /\ UNCHANGED <<read_buf, toServer, writing, log, joined, sent, fin, rst>>
  BY <1>2 DEF sockets, table, history
<1>4. Stream(c)' = Stream(c)
  BY <1>1, <1>3, SameStreams
<1>5. Input(c)' = Input(c)
  BY <1>1, <1>3, SameInput
<1>. QED
  BY <1>3, <1>4, <1>5, RightSame DEF Members

\* Every step keeps what each client is told and answered right.
LEMMA NextRight ==
  ASSUME OrderInv, IInv', [Next]_vars, NEW c \in Clients
  PROVE  ClientRight(c)'
<1>1. CASE \E d \in Clients : Outside(ClientStep(d))
  BY <1>1, ClientRightNext
<1>2. CASE EndBatch
  BY <1>2, EndRight
<1>3. CASE AcceptOne
  BY <1>3, AcceptRight
<1>4. CASE SendSome
  BY <1>4, SendSomeRight
<1>5. CASE \/ EpollWait \/ Dispatch \/ AcceptNone
           \/ ReadData \/ ReadOverflow \/ ReadEnd \/ ReadAgain
           \/ HandshakeTooLong \/ HandshakeIncomplete \/ FrameIncomplete \/ FrameBroken
           \/ SendStop \/ SendError
  BY <1>5, IdleRight
<1>6. CASE HandshakeRejected \/ FrameClose \/ FrameIgnored
  BY <1>6, DropRight
<1>7. CASE HandshakeDone
  BY <1>7, UpgradeRight
<1>8. CASE FrameText
  BY <1>8, TextRight
<1>9. CASE FramePing
  BY <1>9, PingRight
<1>10. CASE UNCHANGED vars
  BY <1>10, StutterRight
<1>. QED
  BY <1>1, <1>2, <1>3, <1>4, <1>5, <1>6, <1>7, <1>8, <1>9, <1>10 DEF Next, WorldStep, ServerStep

\* At the start nothing has been sent, told or handled.
THEOREM InitOrderInv == Init => OrderInv
<1>. SUFFICES ASSUME Init PROVE OrderInv
  OBVIOUS
<1>1. StreamInv
  BY InitStreamInv
<1>2. log = <<>> /\ pending_closes = {} /\ DOMAIN log = {} /\ Len(log) = 0
  BY EmptySeq DEF Init, ReactorInit
<1>3. Idle /\ LogOnce /\ LogKnown
  BY <1>2 DEF Idle, LogOnce, LogKnown
<1>4. ASSUME NEW c \in Clients PROVE ClientRight(c)
  <2>1. /\ peer[c] = "idle" /\ got[c] = <<>> /\ toServer[c] = <<>> /\ writing[c] = <<>>
        /\ sent[c] = <<>> /\ joined[c] = 0 /\ lost = {} /\ ws_clients = {}
    BY DEF Init, SocketsInit, ReactorInit
  <2>2. PICK e \in Seq(Cell) : e = <<>> /\ DOMAIN e = {} /\ e \o e = e
    <3>1. <<>> \in Seq(Cell) /\ DOMAIN <<>> = {} /\ <<>> \o <<>> = <<>>
      BY EmptySeq, ConcatEmptySeq
    <3>. QED
      BY <3>1
  <2>3. Stream(c) = e /\ Input(c) = e
    BY <2>1, <2>2 DEF Stream, Input
  <2>4. Heads(e) = {} /\ TextsIn(e) = {} /\ OwnIn(c, e) = {} /\ Counted(e) = {}
    BY <2>2 DEF Heads, TextsIn, OwnIn, Counted
  <2>5. OwnNos(c, e) = {} /\ Said(c) = {}
    BY <1>2, <2>4 DEF OwnNos, Said
  <2>6. 0 + 1..0 = {} /\ 1..0 = {} /\ Len(sent[c]) = 0
    BY <2>1, EmptySeq
  <2>7. Told(c, e)
    BY <1>2, <2>1, <2>4, <2>6 DEF Told, InLogOrder, NoGaps
  <2>8. Replied(c, e)
    BY <2>4 DEF Replied
  <2>9. Incoming(c, e, {}, {})
    BY <2>2, <2>4, <2>6 DEF Incoming, InFrames, EndsWhole, Due
  <2>. QED
    BY <2>3, <2>5, <2>7, <2>8, <2>9 DEF ClientRight
<1>. QED
  BY <1>1, <1>3, <1>4 DEF OrderInv

\* Every step of the server and of the world preserves the invariant.
THEOREM NextOrderInv == OrderInv /\ [Next]_vars => OrderInv'
<1>. SUFFICES ASSUME OrderInv, [Next]_vars PROVE OrderInv'
  OBVIOUS
<1>1. StreamInv' /\ IInv'
  BY NextStreamInv DEF OrderInv, StreamInv
<1>2. Idle'
  BY <1>1, IdleNext
<1>3. LogOnce' /\ LogKnown'
  BY <1>1, LogInv
<1>4. \A c \in Clients : ClientRight(c)'
  BY <1>1, NextRight
<1>. QED
  BY <1>1, <1>2, <1>3, <1>4 DEF OrderInv

\* The invariant behind the order of the texts and of the answers.
THEOREM OrderInvariance == Spec => []OrderInv
BY InitOrderInv, NextOrderInv, PTL DEF Spec

-----------------------------------------------------------------------------
(* What the clients see *)

\* For any clients, descriptors and limits every text is handled once and all clients see the texts in
\* the order of their handling, without gaps unless a frame for them was dropped (broadcast_ws_binary with
\* append_outgoing, flush_writes, process_close_queue).
THEOREM OneOrderForAll == Spec => []OneOrder
<1>1. OrderInv => OneOrder
  <2>. SUFFICES ASSUME OrderInv PROVE OneOrder
    OBVIOUS
  <2>1. LogOnce
    BY DEF OrderInv
  <2>2. ASSUME NEW c \in Clients
        PROVE  /\ InLogOrder(Stream(c), joined[c])
               /\ c \notin lost => NoGaps(Stream(c), joined[c])
               /\ c \notin lost /\ (\E fd \in ws_clients : conn[fd] = c)
                    => \A k \in joined[c] + 1..Len(log) : Heard(Stream(c), log[k])
    <3>1. Told(c, Stream(c))
      BY DEF OrderInv, ClientRight
    <3>. QED
      BY <3>1 DEF Told, Members
  <2>. QED
    BY <2>1, <2>2 DEF OneOrder, LogOnce
<1>. QED
  BY OrderInvariance, <1>1, PTL

\* For any clients, descriptors and limits a client's texts and pings are answered in the order in which it
\* sent them, each once and with its kind of answer, however its bytes were cut into reads and the answers
\* into writes (drive_io, fetch_ws_data_frame, append_outgoing).
THEOREM AnswersComeInOrder == Spec => []AnswersInOrder
<1>1. OrderInv => AnswersInOrder
  <2>. SUFFICES ASSUME OrderInv PROVE AnswersInOrder
    OBVIOUS
  <2>1. \A c \in Clients : Replied(c, Stream(c))
    BY DEF OrderInv, ClientRight
  <2>. QED
    BY <2>1 DEF AnswersInOrder, Replied
<1>. QED
  BY OrderInvariance, <1>1, PTL
=============================================================================
