----------------------------- MODULE MongoProofs -----------------------------
(***************************************************************************)
(* The MongoDB wrapper, for every number of calls, connections, breaks and *)
(* rows: what a call returns is what happened, whatever breaks when, and a *)
(* result gives its rows in their order, however they are sent.  And the   *)
(* search of a replica set, for any seeds and members: what it finds is    *)
(* the master, unless something changed on its way.                        *)
(***************************************************************************)
EXTENDS MongoClient, MongoCursor, ReplicaSet, SequenceTheorems, FiniteSetTheorems, TLAPS

-----------------------------------------------------------------------------
(* The calls of a program *)

\* Messages, replies, connections and calls.
Messages == Nat \X {"write", "ask", "query", "ping"} \X {1, 2}
Replies == [to : Messages, err : BOOLEAN]
Links == [in : Seq(Messages), out : Seq(Replies), broken : BOOLEAN, err : BOOLEAN]
AskedCalls == [kind : Writes \cup Reads, valid : BOOLEAN, applied : Nat, again : BOOLEAN,
               result : {"none", "true", "false"}]

ClientType ==
  /\ cl \in [pc : {"idle", "try", "ask", "wait", "check", "pong", "reconnect"}, sock : Nat,
             connected : BOOLEAN, tries : {0, 1, 2}, asked : {<<>>} \cup Messages]
  /\ conns \in Seq(Links)
  /\ calls \in Seq(AskedCalls)
  /\ breaks \in Nat

\* The connection of the client is the last one that was made, the others are given up, and a
\* client that takes itself for unconnected has none, or one that is broken.
OneSocket ==
  /\ cl.sock \in {0, Len(conns)}
  /\ cl.connected => cl.sock # 0
  /\ cl.sock # 0 /\ ~cl.connected => Conn.broken
  /\ \A c \in DOMAIN conns : c # cl.sock => conns[c].broken

\* A call that runs has no result, and is tried again at most once.
Running ==
  /\ ~At("idle") =>
       /\ Now > 0 /\ calls[Now].result = "none" /\ cl.tries \in {1, 2}
       /\ calls[Now].again <=> cl.tries = 2
  /\ At("check") \/ At("pong") \/ At("reconnect") => cl.tries = 1
  /\ At("ask") => cl.sock # 0 /\ calls[Now].kind \in Writes
  /\ At("wait") =>
       /\ cl.sock # 0
       /\ \/ cl.asked = Message("ask")
          \/ cl.asked = Message("query") /\ calls[Now].kind \in Reads
  /\ At("pong") => cl.sock # 0 /\ cl.asked = Message("ping")
  /\ At("reconnect") /\ cl.sock # 0 => Conn.broken

\* Every message that is on the way was sent by its call, in a try that has come to it; those of
\* the first try are on the connection the client has.
Stamped == \A c \in DOMAIN conns : \A k \in DOMAIN conns[c].in :
  LET m == conns[c].in[k]
  IN  /\ m[1] \in 1..Now
      /\ m[2] = "write" => calls[m[1]].kind \in Writes
      /\ m[1] = Now =>
           /\ m[3] <= cl.tries
           /\ At("try") => m[3] < cl.tries
           /\ ~At("idle") /\ cl.tries = 1 => c = cl.sock

\* A write is on the way in one place.
OnePlace == \A c, d \in DOMAIN conns : \A j \in DOMAIN conns[c].in, k \in DOMAIN conns[d].in :
  conns[c].in[j] = conns[d].in[k] /\ conns[c].in[j][2] = "write" => c = d /\ j = k

Carried(m) == \E c \in DOMAIN conns : \E k \in DOMAIN conns[c].in : conns[c].in[k] = m
One(is) == IF is THEN 1 ELSE 0

\* The tries of a call that have sent what they had to.
Tried(i) == (IF calls[i].again THEN 2 ELSE 1) - One(i = Now /\ At("try"))

\* A write is applied, or on the way, at most once for each try.
Counted == \A i \in DOMAIN calls :
  calls[i].applied + One(Carried(<<i, "write", 1>>)) + One(Carried(<<i, "write", 2>>)) <= Tried(i)

\* What the server last said, or will say, to getlasterror: without an error the write of the call
\* was applied, and with one in the first try it was not.
Told(err) ==
  /\ ~err => calls[Now].applied >= 1
  /\ err /\ cl.tries = 1 => calls[Now].applied = 0

\* A reply that has come is the one that is waited for, and there is nothing behind it.
InTurn == cl.sock # 0 /\ Conn.out # <<>> =>
  /\ At("wait") \/ At("pong")
  /\ Conn.in = <<>> /\ Len(Conn.out) = 1 /\ Conn.out[1].to = cl.asked
  /\ cl.asked[2] = "ask" => Told(Conn.out[1].err)

\* What is on the way on a connection that holds, if no reply has come.
OnTheWire == cl.sock # 0 /\ ~Conn.broken /\ Conn.out = <<>> =>
  /\ At("idle") \/ At("try") \/ At("check") => Conn.in = <<>>
  /\ At("ask") => Conn.in = <<Message("write")>> \/ (Conn.in = <<>> /\ Told(Conn.err))
  /\ At("wait") =>
       \/ Conn.in = <<Message("write"), cl.asked>> /\ cl.asked[2] = "ask"
       \/ Conn.in = <<cl.asked>> /\ (cl.asked[2] = "ask" => Told(Conn.err))
  /\ At("pong") => Conn.in = <<cl.asked>>

\* Nothing was applied for a call that only asks, that has sent nothing, or whose first try failed
\* on a connection that still holds, or held when it answered.
Untouched ==
  /\ \A i \in DOMAIN calls : calls[i].kind \notin Writes => calls[i].applied = 0
  /\ At("try") /\ cl.tries = 1 => calls[Now].applied = 0
  /\ (At("check") \/ At("pong")) /\ cl.sock # 0 /\ (~Conn.broken \/ Conn.out # <<>>) =>
       calls[Now].applied = 0

ClientInv ==
  /\ ClientType /\ OneSocket /\ Running /\ Stamped /\ OnePlace /\ Counted /\ InTurn /\ OnTheWire
  /\ Untouched /\ Settled /\ Acknowledged

\* In every queue there is only what was there before, without its head or its end.
Shrinks == \A d \in DOMAIN conns' :
  IF d \in DOMAIN conns
  THEN \E s \in {0, 1} : \A k \in DOMAIN conns'[d].in :
         k + s \in DOMAIN conns[d].in /\ conns'[d].in[k] = conns[d].in[k + s]
  ELSE DOMAIN conns'[d].in = {}

\* What may be cited of connections and messages.
LEMMA LinkFacts ==
  ASSUME ClientType
  PROVE  /\ Len(conns) \in Nat /\ DOMAIN conns = 1..Len(conns)
         /\ \A c \in DOMAIN conns :
              /\ conns[c] \in Links
              /\ conns[c].in \in Seq(Messages) /\ conns[c].out \in Seq(Replies)
              /\ conns[c].broken \in BOOLEAN /\ conns[c].err \in BOOLEAN
              /\ Len(conns[c].in) \in Nat /\ DOMAIN conns[c].in = 1..Len(conns[c].in)
              /\ \A k \in DOMAIN conns[c].in : conns[c].in[k] \in Messages
<1>1. conns \in Seq(Links)
  BY DEF ClientType
<1>2. Len(conns) \in Nat /\ DOMAIN conns = 1..Len(conns)
  BY <1>1, LenProperties
<1>3. ASSUME NEW c \in DOMAIN conns PROVE conns[c] \in Links
  BY <1>1, <1>2, <1>3, ElementOfSeq
<1>4. ASSUME NEW c \in DOMAIN conns
      PROVE  /\ conns[c].in \in Seq(Messages) /\ conns[c].out \in Seq(Replies)
             /\ conns[c].broken \in BOOLEAN /\ conns[c].err \in BOOLEAN
  BY <1>3 DEF Links
<1>5. ASSUME NEW c \in DOMAIN conns
      PROVE  /\ Len(conns[c].in) \in Nat /\ DOMAIN conns[c].in = 1..Len(conns[c].in)
             /\ \A k \in DOMAIN conns[c].in : conns[c].in[k] \in Messages
  BY <1>4, LenProperties, ElementOfSeq
<1>. QED
  BY <1>2, <1>3, <1>4, <1>5

\* What may be cited of the client and of its calls.
LEMMA CallFacts ==
  ASSUME ClientType
  PROVE  /\ Now \in Nat /\ DOMAIN calls = 1..Now
         /\ \A i \in DOMAIN calls :
              /\ calls[i] \in AskedCalls
              /\ calls[i].kind \in Writes \cup Reads /\ calls[i].valid \in BOOLEAN
              /\ calls[i].applied \in Nat /\ calls[i].again \in BOOLEAN
              /\ calls[i].result \in {"none", "true", "false"}
         /\ cl.pc \in {"idle", "try", "ask", "wait", "check", "pong", "reconnect"}
         /\ cl.sock \in Nat /\ cl.connected \in BOOLEAN /\ cl.tries \in {0, 1, 2}
         /\ cl.asked \in {<<>>} \cup Messages
<1>1. calls \in Seq(AskedCalls)
  BY DEF ClientType
<1>2. Now \in Nat /\ DOMAIN calls = 1..Now
  BY <1>1, LenProperties DEF Now
<1>3. ASSUME NEW i \in DOMAIN calls PROVE calls[i] \in AskedCalls
  BY <1>1, <1>2, ElementOfSeq DEF Now
<1>4. ASSUME NEW i \in DOMAIN calls
      PROVE  /\ calls[i].kind \in Writes \cup Reads /\ calls[i].valid \in BOOLEAN
             /\ calls[i].applied \in Nat /\ calls[i].again \in BOOLEAN
             /\ calls[i].result \in {"none", "true", "false"}
  BY <1>3 DEF AskedCalls
<1>5. /\ cl.pc \in {"idle", "try", "ask", "wait", "check", "pong", "reconnect"}
      /\ cl.sock \in Nat /\ cl.connected \in BOOLEAN /\ cl.tries \in {0, 1, 2}
      /\ cl.asked \in {<<>>} \cup Messages
  BY DEF ClientType
<1>. QED
  BY <1>2, <1>3, <1>4, <1>5

\* What shrinks holds nothing new.
LEMMA ShrinkCarries ==
  ASSUME ClientType, Shrinks, NEW d \in DOMAIN conns', NEW k \in DOMAIN conns'[d].in
  PROVE  d \in DOMAIN conns /\ \E j \in DOMAIN conns[d].in : conns'[d].in[k] = conns[d].in[j]
<1>1. d \in DOMAIN conns
  BY DEF Shrinks
<1>2. PICK s \in {0, 1} : \A h \in DOMAIN conns'[d].in :
         h + s \in DOMAIN conns[d].in /\ conns'[d].in[h] = conns[d].in[h + s]
  BY <1>1 DEF Shrinks
<1>. QED
  BY <1>1, <1>2

\* Shrinking leaves every write in one place.
LEMMA ShrinkKeepsPlaces ==
  ASSUME ClientType, ClientType', OnePlace, Shrinks
  PROVE  OnePlace'
<1>. SUFFICES ASSUME NEW c \in DOMAIN conns', NEW d \in DOMAIN conns',
                     NEW j \in DOMAIN conns'[c].in, NEW k \in DOMAIN conns'[d].in,
                     conns'[c].in[j] = conns'[d].in[k], conns'[c].in[j][2] = "write"
              PROVE  c = d /\ j = k
  BY DEF OnePlace
<1>1. c \in DOMAIN conns /\ d \in DOMAIN conns
  BY DEF Shrinks
<1>2. PICK s \in {0, 1} : \A h \in DOMAIN conns'[c].in :
         h + s \in DOMAIN conns[c].in /\ conns'[c].in[h] = conns[c].in[h + s]
  BY <1>1 DEF Shrinks
<1>3. PICK t \in {0, 1} : \A h \in DOMAIN conns'[d].in :
         h + t \in DOMAIN conns[d].in /\ conns'[d].in[h] = conns[d].in[h + t]
  BY <1>1 DEF Shrinks
<1>4. c = d
  BY <1>1, <1>2, <1>3 DEF OnePlace
<1>5. j \in Nat /\ k \in Nat
  <2>1. \A b \in 1..Len(conns') : conns'[b] \in Links
    BY ElementOfSeq DEF ClientType
  <2>2. conns'[c].in \in Seq(Messages) /\ conns'[d].in \in Seq(Messages)
    BY <2>1, LenProperties DEF ClientType, Links
  <2>. QED
    BY <2>2, LenProperties
<1>6. j + s = k + s
  BY <1>1, <1>2, <1>4 DEF OnePlace
<1>. QED
  BY <1>4, <1>5, <1>6

\* What a step leaves of the queues, the counts and the promises if nothing is sent and nothing
\* arrives: the call may go on, or return, but not begin a try that was begun before.
LEMMA CarryOver ==
  ASSUME ClientInv, ClientType', Shrinks, Now' = Now,
         \A i \in DOMAIN calls :
           /\ calls'[i].kind = calls[i].kind /\ calls'[i].applied = calls[i].applied
           /\ calls[i].again => calls'[i].again
           /\ i # Now => calls'[i] = calls[i],
         cl.tries <= cl'.tries,
         cl'.pc = "try" =>
           \/ At("try") /\ cl'.tries = cl.tries /\ UNCHANGED calls
           \/ cl.tries < cl'.tries /\ ~At("try") /\ ~calls[Now].again /\ calls'[Now].again,
         cl'.pc # "idle" /\ cl'.tries = 1 => ~At("idle") /\ cl.tries = 1 /\ cl'.sock = cl.sock,
         Now > 0 => \/ calls'[Now].result = calls[Now].result /\ calls'[Now].again = calls[Now].again
                    \/ /\ calls'[Now].result = "true" /\ calls[Now].kind \in Writes =>
                             calls[Now].applied >= 1
                       /\ calls'[Now].result # "none" /\ ~calls'[Now].again =>
                            /\ ~OnTheWay(Now)
                            /\ calls'[Now].result = "false" => calls[Now].applied = 0
  PROVE  Stamped' /\ OnePlace' /\ Counted' /\ Settled' /\ Acknowledged'
<1>1. /\ Now \in Nat /\ DOMAIN calls = 1..Now /\ DOMAIN calls' = 1..Now
      /\ cl.tries \in {0, 1, 2}
  <2>1. calls' \in Seq(AskedCalls)
    BY DEF ClientType
  <2>. QED
    BY <2>1, CallFacts, LenProperties DEF ClientInv, Now
<1>2. cl'.tries \in {0, 1, 2}
  BY DEF ClientType
<1>3. Stamped'
  <2>1. ASSUME NEW d \in DOMAIN conns', NEW k \in DOMAIN conns'[d].in, NEW m, m = conns'[d].in[k]
        PROVE  /\ m[1] \in 1..Now
               /\ m[2] = "write" => calls'[m[1]].kind \in Writes
               /\ m[1] = Now =>
                    /\ m[3] <= cl'.tries
                    /\ cl'.pc = "try" => m[3] < cl'.tries
                    /\ cl'.pc # "idle" /\ cl'.tries = 1 => d = cl'.sock
    <3>1. PICK j \in DOMAIN conns[d].in : d \in DOMAIN conns /\ m = conns[d].in[j]
      BY <2>1, ShrinkCarries DEF ClientInv
    <3>2. m \in Messages
      BY <3>1, LinkFacts DEF ClientInv
    <3>3. m[3] \in {1, 2}
      BY <3>2 DEF Messages
    <3>4. /\ m[1] \in 1..Now
          /\ m[2] = "write" => calls[m[1]].kind \in Writes
          /\ m[1] = Now =>
               /\ m[3] <= cl.tries
               /\ At("try") => m[3] < cl.tries
               /\ ~At("idle") /\ cl.tries = 1 => d = cl.sock
      BY <3>1 DEF ClientInv, Stamped
    <3>5. m[2] = "write" => calls'[m[1]].kind \in Writes
      BY <1>1, <3>4
    <3>6. m[1] = Now => m[3] <= cl'.tries /\ (cl'.pc = "try" => m[3] < cl'.tries)
      BY <1>1, <1>2, <3>3, <3>4
    <3>7. m[1] = Now /\ cl'.pc # "idle" /\ cl'.tries = 1 => d = cl'.sock
      BY <3>4
    <3>. QED
      BY <3>4, <3>5, <3>6, <3>7
  <2>. QED
    BY <2>1 DEF Stamped, At
<1>4. OnePlace'
  BY ShrinkKeepsPlaces DEF ClientInv
<1>5. ASSUME NEW m PROVE Carried(m)' => Carried(m)
  BY ShrinkCarries DEF ClientInv, Carried
<1>6. Counted'
  <2>. SUFFICES ASSUME NEW i \in DOMAIN calls
                PROVE  (calls[i].applied + One(Carried(<<i, "write", 1>>))
                          + One(Carried(<<i, "write", 2>>)) <= Tried(i))'
    BY <1>1 DEF Counted
  <2>1. calls[i].applied + One(Carried(<<i, "write", 1>>)) + One(Carried(<<i, "write", 2>>)) <= Tried(i)
    BY DEF ClientInv, Counted
  <2>2. /\ One(Carried(<<i, "write", 1>>))' <= One(Carried(<<i, "write", 1>>))
        /\ One(Carried(<<i, "write", 2>>))' <= One(Carried(<<i, "write", 2>>))
        /\ One(Carried(<<i, "write", 1>>))' \in Nat /\ One(Carried(<<i, "write", 2>>))' \in Nat
        /\ One(Carried(<<i, "write", 1>>)) \in Nat /\ One(Carried(<<i, "write", 2>>)) \in Nat
    BY <1>5 DEF One
  <2>3. Tried(i) <= Tried(i)' /\ Tried(i) \in Int /\ Tried(i)' \in Int
    <3>1. cl'.pc = "try" /\ i = Now =>
            \/ At("try") /\ calls'[i].again = calls[i].again
            \/ ~calls[i].again /\ calls'[i].again /\ ~At("try")
      OBVIOUS
    <3>2. calls[i].again => calls'[i].again
      OBVIOUS
    <3>3. Now' = Now
      OBVIOUS
    <3>. QED
      BY <1>1, <3>1, <3>2, <3>3 DEF Tried, One, At
  <2>4. calls'[i].applied = calls[i].applied /\ calls[i].applied \in Nat
    BY CallFacts DEF ClientInv
  <2>. QED
    BY <2>1, <2>2, <2>3, <2>4
<1>7. ASSUME NEW i PROVE OnTheWay(i)' => OnTheWay(i)
  BY ShrinkCarries DEF ClientInv, OnTheWay
<1>8. ASSUME NEW i \in DOMAIN calls
      PROVE  /\ calls'[i].result # "none" /\ ~calls'[i].again =>
                  /\ ~OnTheWay(i)'
                  /\ calls'[i].result = "false" => calls'[i].applied = 0
             /\ calls'[i].result = "true" /\ calls'[i].kind \in Writes => calls'[i].applied >= 1
  <2>1. /\ calls[i].result # "none" /\ ~calls[i].again =>
             /\ ~OnTheWay(i)
             /\ calls[i].result = "false" => calls[i].applied = 0
        /\ calls[i].result = "true" /\ calls[i].kind \in Writes => calls[i].applied >= 1
    BY DEF ClientInv, Settled, Acknowledged
  <2>2. CASE i # Now
    BY <1>7, <2>1, <2>2
  <2>3. CASE i = Now
    BY <1>1, <1>7, <2>1, <2>3
  <2>. QED
    BY <2>2, <2>3
<1>. QED
  BY <1>1, <1>3, <1>4, <1>6, <1>8 DEF Settled, Acknowledged

Points == {"idle", "try", "ask", "wait", "check", "pong", "reconnect"}

\* The client goes on.
LEMMA GoesFacts ==
  ASSUME ClientType, NEW pc \in Points, NEW connected \in BOOLEAN, Goes(pc, connected)
  PROVE  /\ cl'.pc = pc /\ cl'.connected = connected
         /\ cl'.sock = cl.sock /\ cl'.tries = cl.tries /\ cl'.asked = cl.asked
         /\ cl' \in [pc : Points, sock : Nat, connected : BOOLEAN, tries : {0, 1, 2},
                     asked : {<<>>} \cup Messages]
  BY DEF ClientType, Goes, Points

\* The client waits for the answer to a message.
LEMMA WaitsFacts ==
  ASSUME ClientType, NEW pc \in Points, NEW m \in Messages, NEW connected \in BOOLEAN,
         Waits(pc, m, connected)
  PROVE  /\ cl'.pc = pc /\ cl'.connected = connected
         /\ cl'.sock = cl.sock /\ cl'.tries = cl.tries /\ cl'.asked = m
         /\ cl' \in [pc : Points, sock : Nat, connected : BOOLEAN, tries : {0, 1, 2},
                     asked : {<<>>} \cup Messages]
  BY DEF ClientType, Waits, Points

\* A call returns.
LEMMA ReturnedFacts ==
  ASSUME ClientType, Now > 0, NEW value \in {"true", "false"}, Returned(value)
  PROVE  /\ calls' \in Seq(AskedCalls) /\ Now' = Now
         /\ \A i \in DOMAIN calls :
              /\ calls'[i].kind = calls[i].kind /\ calls'[i].valid = calls[i].valid
              /\ calls'[i].applied = calls[i].applied /\ calls'[i].again = calls[i].again
              /\ i # Now => calls'[i] = calls[i]
         /\ Now \in DOMAIN calls /\ calls'[Now].result = value
<1>1. Now \in DOMAIN calls /\ DOMAIN calls = 1..Now
  BY CallFacts
<1>2. calls \in Seq(AskedCalls) /\ calls[Now] \in AskedCalls
  BY <1>1, CallFacts DEF ClientType
<1>3. calls' = [calls EXCEPT ![Now] = [calls[Now] EXCEPT !.result = value]]
  BY DEF Returned
<1>4. [calls[Now] EXCEPT !.result = value] \in AskedCalls
  BY <1>2 DEF AskedCalls
<1>5. calls' \in Seq(AskedCalls) /\ Len(calls') = Len(calls)
  BY <1>1, <1>2, <1>3, <1>4, ExceptSeq DEF Now
<1>6. ASSUME NEW i \in DOMAIN calls
      PROVE  /\ calls'[i].kind = calls[i].kind /\ calls'[i].valid = calls[i].valid
             /\ calls'[i].applied = calls[i].applied /\ calls'[i].again = calls[i].again
             /\ i # Now => calls'[i] = calls[i]
  BY <1>2, <1>3 DEF AskedCalls
<1>7. calls'[Now].result = value
  BY <1>1, <1>2, <1>3 DEF AskedCalls
<1>. QED
  BY <1>1, <1>5, <1>6, <1>7 DEF Now

\* A try that fails leaves the connection empty, or broken: a look at the connection, or the result.
LEMMA ErrsKeep ==
  ASSUME ClientInv, NEW connected \in BOOLEAN, Errs(connected), UNCHANGED breaks,
         At("try") \/ At("ask") \/ At("wait"),
         conns' \in Seq(Links), Len(conns') = Len(conns), Shrinks,
         connected => cl.connected,
         \A c \in DOMAIN conns : conns'[c].broken = conns[c].broken,
         cl.sock # 0 =>
           /\ conns'[cl.sock].out = <<>>
           /\ connected \/ conns'[cl.sock].broken
           /\ ~conns'[cl.sock].broken =>
                conns'[cl.sock].in = <<>> /\ (cl.tries = 1 => calls[Now].applied = 0)
  PROVE  ClientInv'
<1>1. /\ Now \in Nat /\ Now > 0 /\ calls[Now].result = "none" /\ cl.tries \in {1, 2}
      /\ calls[Now].again <=> cl.tries = 2
  BY CallFacts DEF ClientInv, Running, At
<1>2. /\ Now \in DOMAIN calls /\ DOMAIN calls = 1..Now /\ DOMAIN conns' = DOMAIN conns
      /\ DOMAIN conns = 1..Len(conns) /\ Len(conns) \in Nat
  BY <1>1, CallFacts, LinkFacts, LenProperties DEF ClientInv
<1>3. /\ cl'.pc = IF cl.tries = 1 THEN "check" ELSE "idle"
      /\ cl'.connected = connected
      /\ cl'.sock = cl.sock /\ cl'.tries = cl.tries /\ cl'.asked = cl.asked
      /\ cl' \in [pc : Points, sock : Nat, connected : BOOLEAN, tries : {0, 1, 2},
                  asked : {<<>>} \cup Messages]
  <2>1. CASE cl.tries = 1
    BY <2>1, GoesFacts DEF Errs, ClientInv, Points
  <2>2. CASE cl.tries # 1
    BY <2>2, GoesFacts DEF Errs, ClientInv, Points
  <2>. QED
    BY <2>1, <2>2
<1>4. /\ calls' \in Seq(AskedCalls) /\ Now' = Now
      /\ \A i \in DOMAIN calls :
           /\ calls'[i].kind = calls[i].kind /\ calls'[i].applied = calls[i].applied
           /\ calls'[i].again = calls[i].again
           /\ i # Now => calls'[i] = calls[i]
      /\ calls'[Now].result = IF cl.tries = 1 THEN "none" ELSE "false"
  <2>1. CASE cl.tries = 1
    BY <1>1, <2>1 DEF Errs, ClientInv, ClientType, Now
  <2>2. CASE cl.tries # 1
    BY <1>1, <2>2, ReturnedFacts DEF Errs, ClientInv
  <2>. QED
    BY <2>1, <2>2
<1>5. ClientType'
  BY <1>3, <1>4 DEF ClientInv, ClientType, Points
<1>6. OneSocket'
  BY <1>2, <1>3 DEF ClientInv, OneSocket, Conn
<1>7. Running'
  BY <1>1, <1>2, <1>3, <1>4 DEF Running, At
<1>8. Stamped' /\ OnePlace' /\ Counted' /\ Settled' /\ Acknowledged'
  <2>1. cl.tries <= cl'.tries /\ cl'.pc # "try"
    BY <1>1, <1>3
  <2>2. cl'.pc # "idle" /\ cl'.tries = 1 => ~At("idle") /\ cl.tries = 1 /\ cl'.sock = cl.sock
    BY <1>3 DEF At
  <2>3. \/ calls'[Now].result = calls[Now].result /\ calls'[Now].again = calls[Now].again
        \/ calls'[Now].result = "false" /\ calls'[Now].again
    BY <1>1, <1>2, <1>4
  <2>. QED
    BY <1>4, <1>5, <2>1, <2>2, <2>3, CarryOver
<1>9. InTurn' /\ OnTheWire'
  BY <1>3 DEF InTurn, OnTheWire, Conn, At
<1>10. Untouched'
  <2>1. \A i \in DOMAIN calls' : calls'[i].kind \notin Writes => calls'[i].applied = 0
    <3>1. DOMAIN calls' = DOMAIN calls
      BY <1>2, <1>4, LenProperties DEF Now
    <3>. QED
      BY <1>4, <3>1 DEF ClientInv, Untouched
  <2>2. calls'[Now'].applied = calls[Now].applied
    BY <1>2, <1>4
  <2>. QED
    BY <1>1, <1>3, <2>1, <2>2 DEF Untouched, Conn, At
<1>. QED
  BY <1>5, <1>6, <1>7, <1>8, <1>9, <1>10 DEF ClientInv

\* The client is to reconnect: its connection is broken, or it has none, and nothing has come.
LEMMA LostKeeps ==
  ASSUME ClientInv, NEW connected \in BOOLEAN, Goes("reconnect", connected),
         UNCHANGED <<conns, calls, breaks>>, At("check") \/ At("pong"),
         connected => cl.connected,
         cl.sock # 0 => Conn.broken /\ Conn.out = <<>>
  PROVE  ClientInv'
<1>1. /\ cl'.pc = "reconnect" /\ cl'.connected = connected
      /\ cl'.sock = cl.sock /\ cl'.tries = cl.tries /\ cl'.asked = cl.asked
      /\ cl' \in [pc : Points, sock : Nat, connected : BOOLEAN, tries : {0, 1, 2},
                  asked : {<<>>} \cup Messages]
  BY GoesFacts DEF Points, ClientInv
<1>2. /\ Now' = Now /\ Now \in Nat /\ Now > 0 /\ calls[Now].result = "none" /\ cl.tries = 1
      /\ ~calls[Now].again
  BY CallFacts DEF ClientInv, Running, At, Now
<1>3. ClientType'
  BY <1>1 DEF ClientInv, ClientType, Points
<1>4. OneSocket'
  BY <1>1 DEF ClientInv, OneSocket, Conn
<1>5. Running'
  BY <1>1, <1>2 DEF Running, At, Conn
<1>6. Stamped' /\ OnePlace' /\ Counted' /\ Settled' /\ Acknowledged'
  <2>1. Shrinks
    <3>1. \A d \in DOMAIN conns : DOMAIN conns[d].in \subseteq Nat
      BY LinkFacts DEF ClientInv
    <3>2. ASSUME NEW d \in DOMAIN conns'
          PROVE  d \in DOMAIN conns /\ \A k \in DOMAIN conns'[d].in :
                   k + 0 \in DOMAIN conns[d].in /\ conns'[d].in[k] = conns[d].in[k + 0]
      BY <3>1
    <3>. QED
      BY <3>2 DEF Shrinks
  <2>. QED
    BY <1>1, <1>2, <1>3, <2>1, CarryOver DEF At
<1>7. InTurn' /\ OnTheWire'
  BY <1>1 DEF InTurn, OnTheWire, Conn, At
<1>8. Untouched'
  BY <1>1, <1>2 DEF ClientInv, Untouched, At
<1>. QED
  BY <1>3, <1>4, <1>5, <1>6, <1>7, <1>8 DEF ClientInv

\* A message is put on the connection.
Appended(m) == conns' = [conns EXCEPT ![cl.sock].in = Append(@, m)]

\* A message is put on a connection that holds, or what is sent is lost.
LEMMA SendFacts ==
  ASSUME ClientInv, NEW m \in Messages, NEW taken \in BOOLEAN, NEW connected \in BOOLEAN,
         Send(m, taken, connected)
  PROVE  /\ connected => cl.connected
         /\ cl.sock # 0 => connected \/ Conn.broken
         /\ \/ taken /\ cl.sock # 0 /\ ~Conn.broken /\ Appended(m)
            \/ UNCHANGED conns /\ (taken => cl.sock # 0) /\ (cl.sock # 0 => Conn.broken)
<1>1. /\ cl.sock # 0 /\ ~cl.connected => Conn.broken
      /\ cl.connected => cl.sock # 0
      /\ cl.connected \in BOOLEAN
  BY CallFacts DEF ClientInv, OneSocket
<1>2. CASE taken
  BY <1>1, <1>2 DEF Send, Appended
<1>3. CASE ~taken
  <2>1. /\ Dead /\ UNCHANGED conns
        /\ connected = cl.connected \/ connected = (cl.connected /\ cl.sock = 0)
    BY <1>3 DEF Send
  <2>2. cl.sock # 0 => Conn.broken
    BY <2>1 DEF Dead
  <2>. QED
    BY <1>1, <1>3, <2>1, <2>2
<1>. QED
  BY <1>2, <1>3

\* Only the queue of the client's connection is longer, by the message.
LEMMA AppendedFacts ==
  ASSUME ClientInv, cl.sock # 0, NEW m \in Messages, Appended(m)
  PROVE  /\ conns' \in Seq(Links) /\ Len(conns') = Len(conns) /\ DOMAIN conns' = DOMAIN conns
         /\ cl.sock \in DOMAIN conns
         /\ \A c \in DOMAIN conns :
              /\ conns'[c].broken = conns[c].broken /\ conns'[c].out = conns[c].out
              /\ conns'[c].err = conns[c].err
              /\ c # cl.sock => conns'[c].in = conns[c].in
         /\ conns'[cl.sock].in = Append(Conn.in, m)
<1>1. cl.sock \in DOMAIN conns /\ conns \in Seq(Links) /\ conns[cl.sock] \in Links
  BY LinkFacts, CallFacts DEF ClientInv, OneSocket, ClientType
<1>2. Append(conns[cl.sock].in, m) \in Seq(Messages)
  BY <1>1, LinkFacts, AppendProperties DEF ClientInv
<1>3. conns' = [conns EXCEPT ![cl.sock] = [conns[cl.sock] EXCEPT !.in = Append(conns[cl.sock].in, m)]]
  BY DEF Appended
<1>4. [conns[cl.sock] EXCEPT !.in = Append(conns[cl.sock].in, m)] \in Links
  BY <1>1, <1>2 DEF Links
<1>5. conns' \in Seq(Links) /\ Len(conns') = Len(conns)
  BY <1>1, <1>3, <1>4, ExceptSeq, LinkFacts DEF ClientInv
<1>6. DOMAIN conns' = DOMAIN conns
  BY <1>3
<1>7. ASSUME NEW c \in DOMAIN conns
      PROVE  /\ conns'[c].broken = conns[c].broken /\ conns'[c].out = conns[c].out
             /\ conns'[c].err = conns[c].err
             /\ c # cl.sock => conns'[c].in = conns[c].in
  BY <1>1, <1>3 DEF Links
<1>8. conns'[cl.sock].in = Append(conns[cl.sock].in, m)
  BY <1>1, <1>3 DEF Links
<1>. QED
  BY <1>1, <1>5, <1>6, <1>7, <1>8 DEF Conn

\* A message of the running call is on the way: what this leaves of the queues, the counts and the
\* promises.
LEMMA SentKeeps ==
  ASSUME ClientInv, cl.sock # 0, NEW m \in Messages, Appended(m), UNCHANGED calls,
         m[1] = Now, m[3] = cl.tries, ~At("idle"),
         m[2] = "write" => At("try") /\ calls[Now].kind \in Writes,
         cl'.tries = cl.tries, cl'.sock = cl.sock, cl'.pc # "try", cl'.pc # "idle"
  PROVE  Stamped' /\ OnePlace' /\ Counted' /\ Settled' /\ Acknowledged'
<1>1. /\ Now' = Now /\ Now \in Nat /\ Now > 0 /\ calls[Now].result = "none"
      /\ DOMAIN calls = 1..Now /\ Now \in DOMAIN calls
      /\ cl.tries \in {1, 2}
  BY CallFacts DEF ClientInv, Running, Now
<1>2. /\ conns' \in Seq(Links) /\ DOMAIN conns' = DOMAIN conns
      /\ cl.sock \in DOMAIN conns
      /\ \A c \in DOMAIN conns : c # cl.sock => conns'[c].in = conns[c].in
      /\ conns'[cl.sock].in = Append(conns[cl.sock].in, m)
  BY AppendedFacts DEF Conn
<1>3. /\ \A c \in DOMAIN conns : DOMAIN conns[c].in = 1..Len(conns[c].in) /\ Len(conns[c].in) \in Nat
      /\ conns[cl.sock].in \in Seq(Messages)
  BY <1>2, LinkFacts DEF ClientInv
<1>. DEFINE n == Len(conns[cl.sock].in) + 1
<1>4. /\ DOMAIN conns'[cl.sock].in = 1..n /\ n \in Nat
      /\ \A k \in DOMAIN conns[cl.sock].in : conns'[cl.sock].in[k] = conns[cl.sock].in[k]
      /\ conns'[cl.sock].in[n] = m
  BY <1>2, <1>3, AppendProperties, LenProperties
<1>. HIDE DEF n
<1>5. ASSUME NEW c \in DOMAIN conns', NEW k \in DOMAIN conns'[c].in
      PROVE  \/ c = cl.sock /\ k = n /\ conns'[c].in[k] = m
             \/ /\ c \in DOMAIN conns /\ k \in DOMAIN conns[c].in
                /\ conns'[c].in[k] = conns[c].in[k]
                /\ c = cl.sock => k # n
  <2>1. CASE c # cl.sock
    BY <1>2, <2>1
  <2>2. CASE c = cl.sock
    <3>1. k \in 1..n
      BY <1>4, <2>2
    <3>2. CASE k = n
      BY <1>4, <2>2, <3>2
    <3>3. CASE k # n
      <4>1. k \in DOMAIN conns[cl.sock].in
        BY <1>2, <1>3, <3>1, <3>3 DEF n
      <4>. QED
        BY <1>2, <1>4, <2>2, <3>3, <4>1
    <3>. QED
      BY <3>2, <3>3
  <2>. QED
    BY <2>1, <2>2
<1>6. Stamped'
  <2>1. ASSUME NEW c \in DOMAIN conns', NEW k \in DOMAIN conns'[c].in, NEW x, x = conns'[c].in[k]
        PROVE  /\ x[1] \in 1..Now
               /\ x[2] = "write" => calls[x[1]].kind \in Writes
               /\ x[1] = Now =>
                    /\ x[3] <= cl.tries
                    /\ cl.tries = 1 => c = cl.sock
    <3>1. CASE c = cl.sock /\ x = m
      BY <1>1, <3>1
    <3>2. CASE c \in DOMAIN conns /\ k \in DOMAIN conns[c].in /\ x = conns[c].in[k]
      BY <3>2 DEF ClientInv, Stamped
    <3>. QED
      BY <1>5, <2>1, <3>1, <3>2
  <2>. QED
    BY <1>1, <2>1 DEF Stamped, At
<1>7. m[2] = "write" => ~Carried(m)
  BY <1>1 DEF ClientInv, Stamped, Carried
<1>8. OnePlace'
  <2>. SUFFICES ASSUME NEW c \in DOMAIN conns', NEW d \in DOMAIN conns',
                       NEW j \in DOMAIN conns'[c].in, NEW k \in DOMAIN conns'[d].in,
                       conns'[c].in[j] = conns'[d].in[k], conns'[c].in[j][2] = "write"
                PROVE  c = d /\ j = k
    BY DEF OnePlace
  <2>1. CASE c = cl.sock /\ j = n /\ conns'[c].in[j] = m
    <3>1. ~Carried(m)
      BY <1>7, <2>1
    <3>. QED
      BY <1>5, <2>1, <3>1 DEF Carried
  <2>2. CASE d = cl.sock /\ k = n /\ conns'[d].in[k] = m
    <3>1. ~Carried(m)
      BY <1>7, <2>2
    <3>. QED
      BY <1>5, <2>2, <3>1 DEF Carried
  <2>3. CASE /\ c \in DOMAIN conns /\ j \in DOMAIN conns[c].in /\ conns'[c].in[j] = conns[c].in[j]
             /\ d \in DOMAIN conns /\ k \in DOMAIN conns[d].in /\ conns'[d].in[k] = conns[d].in[k]
    <3>1. conns[c].in[j] = conns[d].in[k] /\ conns[c].in[j][2] = "write"
      BY <2>3
    <3>2. c \in DOMAIN conns /\ d \in DOMAIN conns /\ j \in DOMAIN conns[c].in /\ k \in DOMAIN conns[d].in
      BY <2>3
    <3>3. OnePlace
      BY DEF ClientInv
    <3>. QED
      BY <3>1, <3>2, <3>3 DEF OnePlace
  <2>4. \/ c = cl.sock /\ j = n /\ conns'[c].in[j] = m
        \/ c \in DOMAIN conns /\ j \in DOMAIN conns[c].in /\ conns'[c].in[j] = conns[c].in[j]
    BY <1>5
  <2>5. \/ d = cl.sock /\ k = n /\ conns'[d].in[k] = m
        \/ d \in DOMAIN conns /\ k \in DOMAIN conns[d].in /\ conns'[d].in[k] = conns[d].in[k]
    BY <1>5
  <2>. QED
    BY <2>1, <2>2, <2>3, <2>4, <2>5
<1>9. ASSUME NEW x, x # m PROVE Carried(x)' => Carried(x)
  BY <1>5, <1>9 DEF Carried
<1>10. Counted'
  <2>. SUFFICES ASSUME NEW i \in DOMAIN calls
                PROVE  (calls[i].applied + One(Carried(<<i, "write", 1>>))
                          + One(Carried(<<i, "write", 2>>)) <= Tried(i))'
    BY DEF Counted
  <2>. DEFINE w1 == <<i, "write", 1>>
              w2 == <<i, "write", 2>>
  <2>1. calls[i].applied + One(Carried(w1)) + One(Carried(w2)) <= Tried(i)
    BY DEF ClientInv, Counted
  <2>2. calls[i].applied \in Nat /\ calls'[i].applied = calls[i].applied /\ calls[i].again \in BOOLEAN
    BY CallFacts DEF ClientInv
  <2>3. Tried(i)' = Tried(i) + One(i = Now /\ At("try")) /\ Tried(i) \in Int
    BY <1>1, <2>2 DEF Tried, One, At
  <2>4. w1 = m \/ w2 = m => i = Now /\ At("try") /\ ~Carried(m) /\ (w1 # m \/ w2 # m)
    BY <1>1, <1>7
  <2>5. (w1 # m => (Carried(w1)' => Carried(w1))) /\ (w2 # m => (Carried(w2)' => Carried(w2)))
    BY <1>9
  <2>6. /\ One(Carried(w1)) \in {0, 1} /\ One(Carried(w2)) \in {0, 1}
        /\ One(Carried(w1))' \in {0, 1} /\ One(Carried(w2))' \in {0, 1}
        /\ w1 # m => One(Carried(w1))' <= One(Carried(w1))
        /\ w2 # m => One(Carried(w2))' <= One(Carried(w2))
        /\ w1 = m => One(Carried(w1)) = 0
        /\ w2 = m => One(Carried(w2)) = 0
        /\ One(i = Now /\ At("try")) \in {0, 1}
        /\ w1 = m \/ w2 = m => One(i = Now /\ At("try")) = 1
    BY <2>4, <2>5 DEF One
  <2>. HIDE DEF w1, w2
  <2>7. calls[i].applied + One(Carried(w1))' + One(Carried(w2))' <= Tried(i)'
    BY <2>1, <2>2, <2>3, <2>4, <2>6
  <2>. QED
    BY <2>2, <2>7 DEF w1, w2
<1>11. ASSUME NEW i, i # Now PROVE OnTheWay(i)' => OnTheWay(i)
  BY <1>5, <1>11 DEF OnTheWay
<1>12. Settled' /\ Acknowledged'
  BY <1>1, <1>11 DEF ClientInv, Settled, Acknowledged
<1>. QED
  BY <1>6, <1>8, <1>10, <1>12

\* Queues that stay as they are have shrunk.
LEMMA SameShrinks ==
  ASSUME ClientType, UNCHANGED conns
  PROVE  Shrinks
<1>1. \A d \in DOMAIN conns : DOMAIN conns[d].in \subseteq Nat
  BY LinkFacts
<1>2. ASSUME NEW d \in DOMAIN conns'
      PROVE  d \in DOMAIN conns /\ \A k \in DOMAIN conns'[d].in :
               k + 0 \in DOMAIN conns[d].in /\ conns'[d].in[k] = conns[d].in[k + 0]
  BY <1>1
<1>. QED
  BY <1>2 DEF Shrinks

\* Where no answer is waited for none has come, and before a message nothing is on the way.
LEMMA Silent ==
  ASSUME ClientInv, cl.sock # 0
  PROVE  /\ ~At("wait") /\ ~At("pong") => Conn.out = <<>>
         /\ At("try") \/ At("check") => Conn.broken \/ Conn.in = <<>>
         /\ At("ask") =>
              Conn.broken \/ Conn.in = <<Message("write")>> \/ (Conn.in = <<>> /\ Told(Conn.err))
  BY DEF ClientInv, InTurn, OnTheWire, At

\* The running call and its messages.
LEMMA RunningFacts ==
  ASSUME ClientInv, ~At("idle")
  PROVE  /\ Now \in Nat /\ Now > 0 /\ Now \in DOMAIN calls /\ DOMAIN calls = 1..Now
         /\ calls[Now].result = "none" /\ cl.tries \in {1, 2}
         /\ calls[Now].again <=> cl.tries = 2
         /\ \A is \in {"write", "ask", "query", "ping"} :
              /\ Message(is) \in Messages
              /\ Message(is)[1] = Now /\ Message(is)[2] = is /\ Message(is)[3] = cl.tries
<1>1. /\ Now \in Nat /\ Now > 0 /\ Now \in DOMAIN calls /\ DOMAIN calls = 1..Now
      /\ calls[Now].result = "none" /\ cl.tries \in {1, 2}
      /\ calls[Now].again <=> cl.tries = 2
  BY CallFacts DEF ClientInv, Running
<1>. QED
  BY <1>1 DEF Message, Messages

\* A message that cannot be sent fails the try.
LEMMA FailedSend ==
  ASSUME ClientInv, At("try") \/ At("ask"), NEW connected \in BOOLEAN, Errs(connected),
         UNCHANGED <<conns, breaks>>,
         connected => cl.connected,
         cl.sock # 0 => connected \/ Conn.broken,
         cl.sock # 0 /\ ~Conn.broken => At("try") /\ (cl.tries = 1 => calls[Now].applied = 0)
  PROVE  ClientInv'
<1>1. conns' \in Seq(Links) /\ Len(conns') = Len(conns) /\ Shrinks
  BY SameShrinks DEF ClientInv, ClientType
<1>2. cl.sock # 0 => Conn.out = <<>> /\ (~Conn.broken => Conn.in = <<>>)
  BY Silent DEF At
<1>. QED
  BY <1>1, <1>2, ErrsKeep DEF Conn

\* A call that cannot be sent.
LEMMA TryInvalidKeeps ==
  ASSUME ClientInv, TryInvalid
  PROVE  ClientInv'
<1>1. At("try") /\ Errs(cl.connected) /\ UNCHANGED <<conns, breaks>> /\ cl.connected \in BOOLEAN
  BY CallFacts DEF TryInvalid, ClientInv
<1>2. cl.sock # 0 => cl.connected \/ Conn.broken
  BY DEF ClientInv, OneSocket
<1>3. cl.tries = 1 => calls[Now].applied = 0
  BY <1>1 DEF ClientInv, Untouched
<1>. QED
  BY <1>1, <1>2, <1>3, FailedSend

\* A message was taken by the socket: the client goes on with the connection as it is.
LEMMA TakenKeeps ==
  ASSUME ClientInv, NEW m \in Messages, NEW connected \in BOOLEAN, Send(m, TRUE, connected),
         UNCHANGED <<calls, breaks>>,
         At("try") \/ At("ask") \/ At("check"),
         m[1] = Now, m[3] = cl.tries,
         m[2] = "write" => At("try") /\ calls[Now].kind \in Writes,
         cl' \in [pc : Points, sock : Nat, connected : BOOLEAN, tries : {0, 1, 2},
                  asked : {<<>>} \cup Messages],
         cl'.connected = connected, cl'.tries = cl.tries, cl'.sock = cl.sock,
         cl'.pc \in {"ask", "wait", "pong"}
  PROVE  /\ ClientType' /\ OneSocket' /\ Stamped' /\ OnePlace' /\ Counted' /\ Settled' /\ Acknowledged'
         /\ InTurn' /\ cl.sock # 0 /\ Now' = Now
         /\ Conn'.broken = Conn.broken /\ Conn'.err = Conn.err /\ Conn.out = <<>>
         /\ Conn'.out = Conn.out /\ (~Conn.broken => Conn'.in = Append(Conn.in, m))
<1>1. /\ connected => cl.connected
      /\ cl.sock # 0 => connected \/ Conn.broken
      /\ \/ cl.sock # 0 /\ ~Conn.broken /\ Appended(m)
         \/ UNCHANGED conns /\ cl.sock # 0 /\ Conn.broken
  BY SendFacts
<1>2. Conn.out = <<>> /\ cl.sock # 0
  BY <1>1, Silent DEF At
<1>3. Now' = Now /\ ~At("idle")
  BY DEF Now, At
<1>4. /\ conns' \in Seq(Links) /\ Len(conns') = Len(conns) /\ DOMAIN conns' = DOMAIN conns
      /\ cl.sock \in DOMAIN conns
      /\ \A c \in DOMAIN conns :
           /\ conns'[c].broken = conns[c].broken /\ conns'[c].out = conns[c].out
           /\ conns'[c].err = conns[c].err
      /\ ~Conn.broken => conns'[cl.sock].in = Append(Conn.in, m)
  <2>1. CASE Appended(m)
    BY <1>2, <2>1, AppendedFacts
  <2>2. CASE UNCHANGED conns /\ Conn.broken
    <3>1. cl.sock \in DOMAIN conns
      BY <1>2, LinkFacts, CallFacts DEF ClientInv, OneSocket
    <3>. QED
      BY <2>2, <3>1 DEF ClientInv, ClientType
  <2>. QED
    BY <1>1, <2>1, <2>2
<1>5. ClientType'
  BY <1>4 DEF ClientInv, ClientType, Points
<1>6. OneSocket'
  BY <1>1, <1>2, <1>4 DEF ClientInv, OneSocket, Conn
<1>7. InTurn'
  BY <1>2, <1>4 DEF InTurn, Conn
<1>8. Stamped' /\ OnePlace' /\ Counted' /\ Settled' /\ Acknowledged'
  <2>1. CASE Appended(m)
    BY <1>2, <1>3, <2>1, SentKeeps
  <2>2. CASE UNCHANGED conns
    <3>1. Shrinks
      BY <2>2, SameShrinks DEF ClientInv
    <3>2. cl.tries <= cl'.tries
      BY CallFacts DEF ClientInv
    <3>. QED
      BY <1>3, <1>5, <3>1, <3>2, CarryOver
  <2>. QED
    BY <1>1, <2>1, <2>2
<1>. QED
  BY <1>2, <1>3, <1>4, <1>5, <1>6, <1>7, <1>8 DEF Conn

\* The message of a write.
LEMMA WriteKeeps ==
  ASSUME ClientInv, Write
  PROVE  ClientInv'
<1>1. At("try") /\ calls[Now].kind \in Writes /\ UNCHANGED breaks
  BY DEF Write
<1>2. PICK taken \in BOOLEAN, connected \in BOOLEAN :
        /\ Send(Message("write"), taken, connected)
        /\ IF taken THEN Goes("ask", connected) /\ UNCHANGED calls ELSE Errs(connected)
  BY DEF Write
<1>3. /\ Now \in Nat /\ Now > 0 /\ Now \in DOMAIN calls /\ DOMAIN calls = 1..Now
      /\ calls[Now].result = "none" /\ cl.tries \in {1, 2}
      /\ calls[Now].again <=> cl.tries = 2
      /\ Message("write") \in Messages /\ Message("write")[1] = Now
      /\ Message("write")[2] = "write" /\ Message("write")[3] = cl.tries
  BY <1>1, RunningFacts DEF At
<1>4. CASE taken
  <2>1. Send(Message("write"), TRUE, connected) /\ Goes("ask", connected) /\ UNCHANGED calls
    BY <1>2, <1>4
  <2>2. /\ cl'.pc = "ask" /\ cl'.connected = connected
        /\ cl'.sock = cl.sock /\ cl'.tries = cl.tries /\ cl'.asked = cl.asked
        /\ cl' \in [pc : Points, sock : Nat, connected : BOOLEAN, tries : {0, 1, 2},
                    asked : {<<>>} \cup Messages]
    BY <2>1, GoesFacts DEF Points, ClientInv
  <2>3. /\ ClientType' /\ OneSocket' /\ Stamped' /\ OnePlace' /\ Counted' /\ Settled' /\ Acknowledged'
        /\ InTurn' /\ cl.sock # 0 /\ Now' = Now
        /\ Conn'.broken = Conn.broken /\ Conn'.err = Conn.err /\ Conn.out = <<>>
        /\ Conn'.out = Conn.out /\ (~Conn.broken => Conn'.in = Append(Conn.in, Message("write")))
    BY <1>1, <1>3, <2>1, <2>2, TakenKeeps
  <2>4. Running'
    BY <1>1, <1>3, <2>1, <2>2, <2>3 DEF Running, At
  <2>5. OnTheWire'
    <3>1. ~Conn.broken => Conn'.in = <<Message("write")>>
      BY <1>1, <2>3, Silent
    <3>2. Message("write")' = Message("write")
      BY <2>2, <2>3 DEF Message
    <3>. QED
      BY <2>2, <2>3, <3>1, <3>2 DEF OnTheWire, At
  <2>6. Untouched'
    BY <2>1, <2>2 DEF ClientInv, Untouched, At
  <2>. QED
    BY <2>3, <2>4, <2>5, <2>6 DEF ClientInv
<1>5. CASE ~taken
  <2>1. /\ connected => cl.connected
        /\ cl.sock # 0 => connected \/ Conn.broken
        /\ UNCHANGED conns /\ (cl.sock # 0 => Conn.broken)
    BY <1>2, <1>3, <1>5, SendFacts
  <2>. QED
    BY <1>1, <1>2, <1>5, <2>1, FailedSend
<1>. QED
  BY <1>4, <1>5

\* What asks for an answer is sent, and the call waits.
LEMMA AskingKeeps ==
  ASSUME ClientInv, NEW is \in {"ask", "query"}, Asking(Message(is)),
         \/ is = "ask" /\ At("ask")
         \/ is = "query" /\ At("try") /\ calls[Now].kind \in Reads
  PROVE  ClientInv'
<1>. DEFINE m == Message(is)
<1>1. PICK taken \in BOOLEAN, connected \in BOOLEAN :
        /\ Send(m, taken, connected)
        /\ IF taken THEN Waits("wait", m, connected) /\ UNCHANGED calls ELSE Errs(connected)
  BY DEF Asking
<1>2. /\ Now \in Nat /\ Now > 0 /\ Now \in DOMAIN calls /\ DOMAIN calls = 1..Now
      /\ calls[Now].result = "none" /\ cl.tries \in {1, 2}
      /\ calls[Now].again <=> cl.tries = 2
      /\ m \in Messages /\ m[1] = Now /\ m[2] = is /\ m[3] = cl.tries
  BY RunningFacts DEF At
<1>3. UNCHANGED breaks
  BY DEF Asking
<1>. HIDE DEF m
<1>4. CASE taken
  <2>1. Send(m, TRUE, connected) /\ Waits("wait", m, connected) /\ UNCHANGED calls
    BY <1>1, <1>4
  <2>2. /\ cl'.pc = "wait" /\ cl'.connected = connected
        /\ cl'.sock = cl.sock /\ cl'.tries = cl.tries /\ cl'.asked = m
        /\ cl' \in [pc : Points, sock : Nat, connected : BOOLEAN, tries : {0, 1, 2},
                    asked : {<<>>} \cup Messages]
    BY <1>2, <2>1, WaitsFacts DEF Points, ClientInv
  <2>3. /\ ClientType' /\ OneSocket' /\ Stamped' /\ OnePlace' /\ Counted' /\ Settled' /\ Acknowledged'
        /\ InTurn' /\ cl.sock # 0 /\ Now' = Now
        /\ Conn'.broken = Conn.broken /\ Conn'.err = Conn.err /\ Conn.out = <<>>
        /\ Conn'.out = Conn.out /\ (~Conn.broken => Conn'.in = Append(Conn.in, m))
    BY <1>2, <1>3, <2>1, <2>2, TakenKeeps
  <2>4. \A x \in {"write", "ask", "query", "ping"} : Message(x)' = Message(x)
    BY <2>2, <2>3 DEF Message
  <2>5. Running'
    BY <1>2, <2>1, <2>2, <2>3, <2>4 DEF Running, At, m
  <2>6. OnTheWire'
    <3>. SUFFICES ASSUME ~Conn.broken
                  PROVE  \/ Conn'.in = <<Message("write"), m>> /\ is = "ask"
                         \/ Conn'.in = <<m>> /\ (is = "ask" => Told(Conn.err)')
      BY <1>2, <2>2, <2>3, <2>4 DEF OnTheWire, At
    <3>1. Told(Conn.err)' = Told(Conn.err)
      BY <2>1, <2>2, <2>3 DEF Told
    <3>2. CASE At("try")
      <4>1. is = "query"
        BY <3>2 DEF At
      <4>2. Conn'.in = <<m>>
        BY <2>3, <3>2, Silent
      <4>. QED
        BY <4>1, <4>2
    <3>3. CASE At("ask")
      <4>1. is = "ask"
        BY <3>3 DEF At
      <4>2. CASE Conn.in = <<Message("write")>>
        BY <2>3, <4>1, <4>2
      <4>3. CASE Conn.in = <<>> /\ Told(Conn.err)
        BY <2>3, <3>1, <4>3
      <4>. QED
        BY <2>3, <3>3, <4>2, <4>3, Silent
    <3>. QED
      BY <3>2, <3>3
  <2>7. Untouched'
    BY <2>1, <2>2 DEF ClientInv, Untouched, At
  <2>. QED
    BY <2>3, <2>5, <2>6, <2>7 DEF ClientInv
<1>5. CASE ~taken
  <2>1. /\ connected => cl.connected
        /\ cl.sock # 0 => connected \/ Conn.broken
        /\ UNCHANGED conns /\ (cl.sock # 0 => Conn.broken)
    BY <1>1, <1>2, <1>5, SendFacts
  <2>. QED
    BY <1>1, <1>3, <1>5, <2>1, FailedSend
<1>. QED
  BY <1>4, <1>5

\* A ping is sent, or the connection is given up.
LEMMA PingKeeps ==
  ASSUME ClientInv, Ping
  PROVE  ClientInv'
<1>. DEFINE m == Message("ping")
<1>1. At("check") /\ UNCHANGED <<calls, breaks>>
  BY DEF Ping
<1>2. PICK taken \in BOOLEAN, connected \in BOOLEAN :
        /\ Send(m, taken, connected)
        /\ IF taken THEN Waits("pong", m, connected) ELSE Goes("reconnect", connected)
  BY DEF Ping
<1>3. /\ Now \in Nat /\ Now > 0 /\ Now \in DOMAIN calls
      /\ calls[Now].result = "none" /\ cl.tries \in {1, 2}
      /\ calls[Now].again <=> cl.tries = 2
      /\ m \in Messages /\ m[1] = Now /\ m[2] = "ping" /\ m[3] = cl.tries
  BY <1>1, RunningFacts DEF At
<1>. HIDE DEF m
<1>4. CASE taken
  <2>1. Send(m, TRUE, connected) /\ Waits("pong", m, connected)
    BY <1>2, <1>4
  <2>2. /\ cl'.pc = "pong" /\ cl'.connected = connected
        /\ cl'.sock = cl.sock /\ cl'.tries = cl.tries /\ cl'.asked = m
        /\ cl' \in [pc : Points, sock : Nat, connected : BOOLEAN, tries : {0, 1, 2},
                    asked : {<<>>} \cup Messages]
    BY <1>3, <2>1, WaitsFacts DEF Points, ClientInv
  <2>3. /\ ClientType' /\ OneSocket' /\ Stamped' /\ OnePlace' /\ Counted' /\ Settled' /\ Acknowledged'
        /\ InTurn' /\ cl.sock # 0 /\ Now' = Now
        /\ Conn'.broken = Conn.broken /\ Conn'.err = Conn.err /\ Conn.out = <<>>
        /\ Conn'.out = Conn.out /\ (~Conn.broken => Conn'.in = Append(Conn.in, m))
    BY <1>1, <1>3, <2>1, <2>2, TakenKeeps
  <2>4. Message("ping")' = m
    BY <2>2, <2>3 DEF Message, m
  <2>5. Running'
    <3>1. cl.tries = 1
      BY <1>1 DEF ClientInv, Running
    <3>. QED
      BY <1>1, <1>3, <2>2, <2>3, <2>4, <3>1 DEF Running, At
  <2>6. OnTheWire'
    <3>1. ~Conn.broken => Conn'.in = <<m>>
      BY <1>1, <2>3, Silent
    <3>. QED
      BY <2>2, <2>3, <3>1 DEF OnTheWire, At
  <2>7. Untouched'
    BY <1>1, <2>2, <2>3 DEF ClientInv, Untouched, At
  <2>. QED
    BY <2>3, <2>5, <2>6, <2>7 DEF ClientInv
<1>5. CASE ~taken
  <2>1. /\ connected => cl.connected
        /\ UNCHANGED conns /\ (cl.sock # 0 => Conn.broken)
    BY <1>2, <1>3, <1>5, SendFacts
  <2>2. cl.sock # 0 => Conn.out = <<>>
    BY <1>1, Silent DEF At
  <2>. QED
    BY <1>1, <1>2, <1>5, <2>1, <2>2, LostKeeps
<1>. QED
  BY <1>4, <1>5

\* A sequence without elements, and one that has one element.
LEMMA ShortSeqs ==
  ASSUME NEW S, NEW s \in Seq(S)
  PROVE  /\ Len(s) = 0 => s = <<>>
         /\ Len(s) = 1 => Head(s) = s[1] /\ Tail(s) = <<>>
<1>1. Len(s) = 0 => s = <<>>
  BY EmptySeq
<1>2. ASSUME Len(s) = 1 PROVE Head(s) = s[1] /\ Tail(s) = <<>>
  <2>1. s # <<>>
    BY <1>2, EmptySeq
  <2>2. Tail(s) \in Seq(S) /\ Len(Tail(s)) = 0
    BY <1>2, <2>1, HeadTailProperties
  <2>3. Tail(s) = <<>>
    BY <2>2, EmptySeq
  <2>. QED
    BY <2>1, <2>3
<1>. QED
  BY <1>1, <1>2

\* The reply that is read is the only one, and nothing is on the way behind it.
LEMMA ReceiveFacts ==
  ASSUME ClientInv, NEW err \in BOOLEAN, Receive(err)
  PROVE  /\ conns' \in Seq(Links) /\ Len(conns') = Len(conns) /\ DOMAIN conns' = DOMAIN conns
         /\ cl.sock # 0 /\ cl.sock \in DOMAIN conns
         /\ \A c \in DOMAIN conns :
              conns'[c].in = conns[c].in /\ conns'[c].broken = conns[c].broken
         /\ conns'[cl.sock].out = <<>> /\ Conn.in = <<>> /\ Conn.out # <<>>
         /\ cl.asked[2] = "ask" => Told(err)
         /\ Shrinks
<1>1. /\ cl.sock # 0 /\ conns[cl.sock].out # <<>> /\ err = Head(conns[cl.sock].out).err
      /\ conns' = [conns EXCEPT ![cl.sock].out = Tail(@)]
  BY DEF Receive, Conn
<1>2. /\ cl.sock \in DOMAIN conns /\ conns \in Seq(Links) /\ conns[cl.sock] \in Links
      /\ conns[cl.sock].out \in Seq(Replies)
      /\ \A c \in DOMAIN conns : conns[c] \in Links
  BY <1>1, LinkFacts, CallFacts DEF ClientInv, OneSocket, ClientType
<1>3. /\ conns[cl.sock].in = <<>> /\ Len(conns[cl.sock].out) = 1
      /\ cl.asked[2] = "ask" => Told(conns[cl.sock].out[1].err)
  BY <1>1 DEF ClientInv, InTurn, Conn
<1>4. /\ Tail(conns[cl.sock].out) \in Seq(Replies) /\ Tail(conns[cl.sock].out) = <<>>
      /\ Head(conns[cl.sock].out) = conns[cl.sock].out[1]
  <2>1. Tail(conns[cl.sock].out) = <<>> /\ Head(conns[cl.sock].out) = conns[cl.sock].out[1]
    BY <1>2, <1>3, ShortSeqs
  <2>. QED
    BY <2>1, EmptySeq
<1>5. conns' = [conns EXCEPT ![cl.sock] = [conns[cl.sock] EXCEPT !.out = <<>>]]
  BY <1>1, <1>4
<1>6. [conns[cl.sock] EXCEPT !.out = <<>>] \in Links
  BY <1>2, EmptySeq DEF Links
<1>7. conns' \in Seq(Links) /\ Len(conns') = Len(conns) /\ DOMAIN conns' = DOMAIN conns
  BY <1>2, <1>5, <1>6, ExceptSeq, LinkFacts DEF ClientInv
<1>8. ASSUME NEW c \in DOMAIN conns
      PROVE  conns'[c].in = conns[c].in /\ conns'[c].broken = conns[c].broken
  BY <1>2, <1>5 DEF Links
<1>9. conns'[cl.sock].out = <<>>
  BY <1>2, <1>5 DEF Links
<1>10. Shrinks
  <2>1. \A d \in DOMAIN conns : DOMAIN conns[d].in \subseteq Nat
    BY LinkFacts DEF ClientInv
  <2>2. ASSUME NEW d \in DOMAIN conns'
        PROVE  d \in DOMAIN conns /\ \A k \in DOMAIN conns'[d].in :
                 k + 0 \in DOMAIN conns[d].in /\ conns'[d].in[k] = conns[d].in[k + 0]
    BY <1>7, <1>8, <2>1
  <2>. QED
    BY <2>2 DEF Shrinks
<1>. QED
  BY <1>1, <1>2, <1>3, <1>4, <1>7, <1>8, <1>9, <1>10 DEF Conn

\* A call returns with the reply to its last message.
LEMMA BackKeeps ==
  ASSUME ClientInv, At("wait") \/ At("pong"), NEW err \in BOOLEAN, Receive(err),
         NEW value \in {"true", "false"}, Returned(value), Goes("idle", cl.connected),
         UNCHANGED breaks,
         value = "true" /\ calls[Now].kind \in Writes => calls[Now].applied >= 1,
         value = "false" /\ cl.tries = 1 => calls[Now].applied = 0
  PROVE  ClientInv'
<1>1. /\ Now \in Nat /\ Now > 0 /\ Now \in DOMAIN calls /\ DOMAIN calls = 1..Now
      /\ calls[Now].result = "none" /\ cl.tries \in {1, 2}
      /\ calls[Now].again <=> cl.tries = 2
  BY RunningFacts DEF At
<1>2. /\ conns' \in Seq(Links) /\ Len(conns') = Len(conns) /\ DOMAIN conns' = DOMAIN conns
      /\ cl.sock # 0 /\ cl.sock \in DOMAIN conns
      /\ \A c \in DOMAIN conns :
           conns'[c].in = conns[c].in /\ conns'[c].broken = conns[c].broken
      /\ conns'[cl.sock].out = <<>> /\ conns[cl.sock].in = <<>>
      /\ Shrinks
  BY ReceiveFacts DEF Conn
<1>3. /\ cl'.pc = "idle" /\ cl'.connected = cl.connected
      /\ cl'.sock = cl.sock /\ cl'.tries = cl.tries /\ cl'.asked = cl.asked
      /\ cl' \in [pc : Points, sock : Nat, connected : BOOLEAN, tries : {0, 1, 2},
                  asked : {<<>>} \cup Messages]
  BY GoesFacts, CallFacts DEF ClientInv, Points
<1>4. /\ calls' \in Seq(AskedCalls) /\ Now' = Now
      /\ \A i \in DOMAIN calls :
           /\ calls'[i].kind = calls[i].kind
           /\ calls'[i].applied = calls[i].applied /\ calls'[i].again = calls[i].again
           /\ i # Now => calls'[i] = calls[i]
      /\ calls'[Now].result = value
  BY <1>1, ReturnedFacts DEF ClientInv
<1>5. ClientType'
  BY <1>2, <1>3, <1>4 DEF ClientInv, ClientType, Points
<1>6. OneSocket'
  BY <1>2, <1>3 DEF ClientInv, OneSocket, Conn
<1>7. Running'
  BY <1>3 DEF Running, At
<1>8. cl.tries = 1 => ~OnTheWay(Now)
  <2>1. ASSUME cl.tries = 1, NEW c \in DOMAIN conns, NEW k \in DOMAIN conns[c].in,
               conns[c].in[k][1] = Now
        PROVE  FALSE
    <3>1. c = cl.sock
      BY <2>1 DEF ClientInv, Stamped, At
    <3>. QED
      BY <1>2, <2>1, <3>1
  <2>. QED
    BY <2>1 DEF OnTheWay
<1>9. Stamped' /\ OnePlace' /\ Counted' /\ Settled' /\ Acknowledged'
  <2>1. cl.tries <= cl'.tries /\ cl'.pc # "try" /\ cl'.pc = "idle"
    BY <1>1, <1>3
  <2>2. /\ calls'[Now].result = "true" /\ calls[Now].kind \in Writes => calls[Now].applied >= 1
        /\ calls'[Now].result # "none" /\ ~calls'[Now].again =>
             ~OnTheWay(Now) /\ (calls'[Now].result = "false" => calls[Now].applied = 0)
    BY <1>1, <1>4, <1>8
  <2>. QED
    BY <1>2, <1>4, <1>5, <2>1, <2>2, CarryOver
<1>10. InTurn' /\ OnTheWire'
  BY <1>2, <1>3 DEF InTurn, OnTheWire, Conn, At
<1>11. Untouched'
  <2>1. DOMAIN calls' = DOMAIN calls
    BY <1>1, <1>4, LenProperties DEF Now
  <2>. QED
    BY <1>3, <1>4, <2>1 DEF ClientInv, Untouched, At
<1>. QED
  BY <1>5, <1>6, <1>7, <1>9, <1>10, <1>11 DEF ClientInv

\* The reply to a call.
LEMMA AnsweredKeeps ==
  ASSUME ClientInv, Answered
  PROVE  ClientInv'
<1>1. At("wait") /\ UNCHANGED breaks
  BY DEF Answered
<1>2. PICK err \in BOOLEAN :
        /\ Receive(err)
        /\ IF err THEN Errs(cl.connected) ELSE Goes("idle", cl.connected) /\ Returned("true")
  BY DEF Answered
<1>3. /\ conns' \in Seq(Links) /\ Len(conns') = Len(conns) /\ DOMAIN conns' = DOMAIN conns
      /\ cl.sock # 0 /\ cl.sock \in DOMAIN conns
      /\ \A c \in DOMAIN conns :
           conns'[c].in = conns[c].in /\ conns'[c].broken = conns[c].broken
      /\ conns'[cl.sock].out = <<>> /\ conns[cl.sock].in = <<>>
      /\ cl.asked[2] = "ask" => Told(err)
      /\ Shrinks
  BY <1>2, ReceiveFacts DEF Conn
<1>4. \/ cl.asked[2] = "ask"
      \/ calls[Now].kind \in Reads /\ calls[Now].kind \notin Writes /\ calls[Now].applied = 0
  <2>1. CASE cl.asked = Message("ask")
    BY <1>1, <2>1, RunningFacts DEF At
  <2>2. CASE calls[Now].kind \in Reads
    <3>1. calls[Now].kind \notin Writes /\ Now \in DOMAIN calls
      BY <1>1, <2>2, ClientAssumption, RunningFacts DEF At
    <3>. QED
      BY <2>2, <3>1 DEF ClientInv, Untouched
  <2>. QED
    BY <1>1, <2>1, <2>2 DEF ClientInv, Running
<1>5. CASE err
  <2>1. cl.connected \in BOOLEAN /\ (cl.connected \/ Conn.broken)
    BY <1>3, CallFacts DEF ClientInv, OneSocket
  <2>2. cl.tries = 1 => calls[Now].applied = 0
    BY <1>3, <1>4, <1>5 DEF Told
  <2>. QED
    BY <1>1, <1>2, <1>3, <1>5, <2>1, <2>2, ErrsKeep DEF Conn
<1>6. CASE ~err
  <2>1. calls[Now].kind \in Writes => calls[Now].applied >= 1
    BY <1>3, <1>4, <1>6 DEF Told
  <2>. QED
    BY <1>1, <1>2, <1>6, <2>1, BackKeeps
<1>. QED
  BY <1>5, <1>6

\* The reply to a ping: the error of the try stands.
LEMMA PongKeeps ==
  ASSUME ClientInv, Pong
  PROVE  ClientInv'
<1>1. At("pong") /\ Returned("false") /\ Goes("idle", cl.connected) /\ UNCHANGED breaks
  BY DEF Pong, Returns
<1>2. PICK err \in BOOLEAN : Receive(err)
  BY DEF Pong
<1>3. calls[Now].applied = 0
  BY <1>1, <1>2, ReceiveFacts DEF ClientInv, Untouched
<1>. QED
  BY <1>1, <1>2, <1>3, BackKeeps

\* No reply comes any more.
LEMMA UnansweredKeeps ==
  ASSUME ClientInv, Unanswered
  PROVE  ClientInv'
<1>1. /\ At("wait") /\ Errs(cl.connected) /\ UNCHANGED <<conns, breaks>>
      /\ cl.sock # 0 /\ Conn.broken /\ Conn.out = <<>>
  BY DEF Unanswered, ReceiveFails
<1>2. conns' \in Seq(Links) /\ Len(conns') = Len(conns) /\ Shrinks
  BY <1>1, SameShrinks DEF ClientInv, ClientType
<1>3. cl.connected \in BOOLEAN
  BY CallFacts DEF ClientInv
<1>. QED
  BY <1>1, <1>2, <1>3, ErrsKeep DEF Conn

\* The client is not connected, or no answer comes to its ping.
LEMMA GivenUpKeeps ==
  ASSUME ClientInv, CheckUnconnected \/ NoPong
  PROVE  ClientInv'
<1>1. cl.connected \in BOOLEAN
  BY CallFacts DEF ClientInv
<1>2. CASE CheckUnconnected
  <2>1. At("check") /\ ~cl.connected /\ Goes("reconnect", cl.connected) /\ UNCHANGED <<conns, calls, breaks>>
    BY <1>2 DEF CheckUnconnected, Lost
  <2>2. cl.sock # 0 => Conn.broken /\ Conn.out = <<>>
    BY <2>1, Silent DEF ClientInv, OneSocket, At
  <2>. QED
    BY <1>1, <2>1, <2>2, LostKeeps
<1>3. CASE NoPong
  <2>1. /\ At("pong") /\ Goes("reconnect", cl.connected) /\ UNCHANGED <<conns, calls, breaks>>
        /\ Conn.broken /\ Conn.out = <<>>
    BY <1>3 DEF NoPong, Lost, ReceiveFails
  <2>. QED
    BY <1>1, <2>1, LostKeeps
<1>. QED
  BY <1>2, <1>3

\* A connection is closed: it is broken, and what is on the way on the others stays.
LEMMA ClosedFacts ==
  ASSUME ClientInv, At("reconnect"), NEW n
  PROVE  /\ Closed(n) \in Seq(Links) /\ Len(Closed(n)) = Len(conns)
         /\ \A c \in DOMAIN conns : Closed(n)[c].in = conns[c].in /\ Closed(n)[c].broken
<1>1. /\ \A c \in DOMAIN conns : c # cl.sock => conns[c].broken
      /\ cl.sock # 0 => Conn.broken
  BY DEF ClientInv, OneSocket, Running
<1>2. CASE cl.sock = 0
  <2>1. Closed(n) = conns
    BY <1>2 DEF Closed
  <2>2. \A c \in DOMAIN conns : c # 0
    BY LinkFacts DEF ClientInv
  <2>. QED
    BY <1>1, <1>2, <2>1, <2>2 DEF ClientInv, ClientType
<1>3. CASE cl.sock # 0
  <2>1. /\ cl.sock \in DOMAIN conns /\ conns \in Seq(Links) /\ conns[cl.sock] \in Links
        /\ \A c \in DOMAIN conns : conns[c] \in Links
    BY <1>3, LinkFacts, CallFacts DEF ClientInv, OneSocket, ClientType
  <2>. DEFINE e == [conns[cl.sock] EXCEPT !.broken = TRUE, !.out = <<>>]
  <2>2. e \in Links
    BY <2>1, EmptySeq DEF Links
  <2>3. Closed(n) = [conns EXCEPT ![cl.sock] = e]
    BY <1>1, <1>3, <2>1 DEF Closed, Conn, Links
  <2>4. Closed(n) \in Seq(Links) /\ Len(Closed(n)) = Len(conns)
    BY <2>1, <2>2, <2>3, ExceptSeq, LinkFacts DEF ClientInv
  <2>5. ASSUME NEW c \in DOMAIN conns
        PROVE  Closed(n)[c].in = conns[c].in /\ Closed(n)[c].broken
    <3>1. e.in = conns[cl.sock].in /\ e.broken
      BY <2>1 DEF Links
    <3>2. Closed(n)[c] = IF c = cl.sock THEN e ELSE conns[c]
      BY <2>1, <2>3
    <3>. QED
      BY <1>1, <3>1, <3>2
  <2>. QED
    BY <2>4, <2>5
<1>. QED
  BY <1>2, <1>3

\* A new connection stands behind the others, with nothing on the way.
LEMMA NewFacts ==
  ASSUME ClientInv, NEW cs \in Seq(Links), Len(cs) = Len(conns), conns' = Append(cs, NewConn),
         \A c \in DOMAIN conns : cs[c].in = conns[c].in /\ cs[c].broken
  PROVE  /\ conns' \in Seq(Links) /\ Len(conns') = Len(conns) + 1
         /\ DOMAIN conns' = 1..Len(conns) + 1 /\ Len(conns) \in Nat
         /\ \A c \in DOMAIN conns' : c # Len(conns) + 1 => conns'[c].broken
         /\ conns'[Len(conns) + 1] = NewConn
         /\ Shrinks
<1>1. Len(conns) \in Nat /\ DOMAIN conns = 1..Len(conns)
  BY LinkFacts DEF ClientInv
<1>2. NewConn \in Links
  BY EmptySeq DEF NewConn, Links
<1>3. /\ conns' \in Seq(Links) /\ Len(conns') = Len(conns) + 1
      /\ \A c \in 1..Len(conns) : conns'[c] = cs[c]
      /\ conns'[Len(conns) + 1] = NewConn
  BY <1>2, AppendProperties
<1>4. DOMAIN conns' = 1..Len(conns) + 1
  BY <1>3, LenProperties
<1>5. ASSUME NEW c \in DOMAIN conns', c # Len(conns) + 1
      PROVE  c \in DOMAIN conns /\ conns'[c].broken /\ conns'[c].in = conns[c].in
  <2>1. c \in DOMAIN conns
    BY <1>1, <1>4, <1>5
  <2>. QED
    BY <1>1, <1>3, <2>1
<1>6. Shrinks
  <2>1. \A d \in DOMAIN conns : DOMAIN conns[d].in \subseteq Nat
    BY LinkFacts DEF ClientInv
  <2>2. ASSUME NEW d \in DOMAIN conns', d \in DOMAIN conns
        PROVE  \A k \in DOMAIN conns'[d].in :
                 k + 0 \in DOMAIN conns[d].in /\ conns'[d].in[k] = conns[d].in[k + 0]
    <3>1. d # Len(conns) + 1
      BY <1>1, <2>2
    <3>. QED
      BY <1>5, <2>1, <3>1
  <2>3. ASSUME NEW d \in DOMAIN conns', d \notin DOMAIN conns
        PROVE  DOMAIN conns'[d].in = {}
    <3>1. conns'[d] = NewConn
      BY <1>3, <1>5, <2>3
    <3>. QED
      BY <3>1 DEF NewConn
  <2>. QED
    BY <2>2, <2>3 DEF Shrinks
<1>. QED
  BY <1>1, <1>3, <1>4, <1>5, <1>6

\* A new connection, and the second try.
LEMMA ReconnectKeeps ==
  ASSUME ClientInv, Reconnect
  PROVE  ClientInv'
<1>1. PICK n \in 0..Left : conns' = Append(Closed(n), NewConn)
  BY DEF Reconnect
<1>2. /\ At("reconnect") /\ UNCHANGED breaks
      /\ cl' = [cl EXCEPT !.pc = "try", !.tries = 2, !.sock = Len(conns) + 1, !.connected = TRUE]
      /\ calls' = [calls EXCEPT ![Now].again = TRUE]
  BY DEF Reconnect
<1>3. /\ Now \in Nat /\ Now > 0 /\ Now \in DOMAIN calls /\ DOMAIN calls = 1..Now
      /\ calls[Now].result = "none" /\ cl.tries = 1 /\ ~calls[Now].again
  BY <1>2, RunningFacts DEF ClientInv, Running, At
<1>4. /\ conns' \in Seq(Links) /\ Len(conns') = Len(conns) + 1
      /\ DOMAIN conns' = 1..Len(conns) + 1 /\ Len(conns) \in Nat
      /\ \A c \in DOMAIN conns' : c # Len(conns) + 1 => conns'[c].broken
      /\ conns'[Len(conns) + 1] = NewConn
      /\ Shrinks
  <2>1. /\ Closed(n) \in Seq(Links) /\ Len(Closed(n)) = Len(conns)
        /\ \A c \in DOMAIN conns : Closed(n)[c].in = conns[c].in /\ Closed(n)[c].broken
    BY <1>2, ClosedFacts
  <2>. QED
    BY <1>1, <2>1, NewFacts
<1>5. /\ cl'.pc = "try" /\ cl'.tries = 2 /\ cl'.sock = Len(conns) + 1 /\ cl'.connected
      /\ cl' \in [pc : Points, sock : Nat, connected : BOOLEAN, tries : {0, 1, 2},
                  asked : {<<>>} \cup Messages]
  <2>1. Len(conns) + 1 \in Nat
    BY <1>4
  <2>. QED
    BY <1>2, <2>1 DEF ClientInv, ClientType, Points
<1>6. /\ calls' \in Seq(AskedCalls) /\ Now' = Now
      /\ \A i \in DOMAIN calls :
           /\ calls'[i].kind = calls[i].kind /\ calls'[i].applied = calls[i].applied
           /\ calls'[i].result = calls[i].result
           /\ calls[i].again => calls'[i].again
           /\ i # Now => calls'[i] = calls[i]
      /\ calls'[Now].again
  <2>1. calls \in Seq(AskedCalls) /\ \A i \in DOMAIN calls : calls[i] \in AskedCalls
    BY CallFacts DEF ClientInv, ClientType
  <2>2. calls' = [calls EXCEPT ![Now] = [calls[Now] EXCEPT !.again = TRUE]]
    BY <1>2
  <2>3. [calls[Now] EXCEPT !.again = TRUE] \in AskedCalls
    BY <1>3, <2>1 DEF AskedCalls
  <2>4. calls' \in Seq(AskedCalls) /\ Len(calls') = Len(calls)
    BY <1>3, <2>1, <2>2, <2>3, ExceptSeq DEF Now
  <2>5. ASSUME NEW i \in DOMAIN calls
        PROVE  /\ calls'[i].kind = calls[i].kind /\ calls'[i].applied = calls[i].applied
               /\ calls'[i].result = calls[i].result
               /\ calls[i].again => calls'[i].again
               /\ i # Now => calls'[i] = calls[i]
    BY <2>1, <2>2 DEF AskedCalls
  <2>6. calls'[Now].again
    BY <1>3, <2>1, <2>2 DEF AskedCalls
  <2>. QED
    BY <2>4, <2>5, <2>6 DEF Now
<1>7. ClientType'
  BY <1>2, <1>4, <1>5, <1>6 DEF ClientInv, ClientType, Points
<1>8. OneSocket'
  BY <1>4, <1>5 DEF OneSocket
<1>9. Running'
  BY <1>3, <1>5, <1>6 DEF Running, At
<1>10. Stamped' /\ OnePlace' /\ Counted' /\ Settled' /\ Acknowledged'
  <2>1. ~At("try") /\ ~At("idle")
    BY <1>2 DEF At
  <2>2. /\ calls'[Now].result = "none"
        /\ cl.tries <= cl'.tries /\ cl.tries < cl'.tries /\ cl'.tries # 1
    BY <1>3, <1>5, <1>6
  <2>. QED
    BY <1>3, <1>4, <1>6, <1>7, <2>1, <2>2, CarryOver
<1>11. Conn' = NewConn
  BY <1>4, <1>5 DEF Conn
<1>12. InTurn' /\ OnTheWire'
  BY <1>5, <1>11 DEF InTurn, OnTheWire, At, NewConn
<1>13. Untouched'
  <2>1. DOMAIN calls' = DOMAIN calls
    BY <1>3, <1>6, LenProperties DEF Now
  <2>. QED
    BY <1>5, <1>6, <2>1 DEF ClientInv, Untouched, At
<1>. QED
  BY <1>7, <1>8, <1>9, <1>10, <1>12, <1>13 DEF ClientInv

\* There is no connection any more.
LEMMA ReconnectFailsKeeps ==
  ASSUME ClientInv, ReconnectFails
  PROVE  ClientInv'
<1>1. PICK n \in 0..Left : conns' = Closed(n)
  BY DEF ReconnectFails
<1>2. /\ At("reconnect") /\ UNCHANGED breaks
      /\ cl' = [cl EXCEPT !.pc = "idle", !.sock = 0, !.connected = FALSE]
      /\ calls' = [calls EXCEPT ![Now].again = TRUE, ![Now].result = "false"]
  BY DEF ReconnectFails
<1>3. /\ Now \in Nat /\ Now > 0 /\ Now \in DOMAIN calls /\ DOMAIN calls = 1..Now
      /\ cl.tries = 1
  BY <1>2, RunningFacts DEF ClientInv, Running, At
<1>4. /\ conns' \in Seq(Links) /\ Len(conns') = Len(conns) /\ DOMAIN conns' = DOMAIN conns
      /\ \A c \in DOMAIN conns : conns'[c].in = conns[c].in /\ conns'[c].broken
  <2>1. /\ conns' \in Seq(Links) /\ Len(conns') = Len(conns)
        /\ \A c \in DOMAIN conns : conns'[c].in = conns[c].in /\ conns'[c].broken
    BY <1>1, <1>2, ClosedFacts
  <2>. QED
    BY <2>1, LenProperties, LinkFacts DEF ClientInv
<1>5. Shrinks
  <2>1. \A d \in DOMAIN conns : DOMAIN conns[d].in \subseteq Nat
    BY LinkFacts DEF ClientInv
  <2>2. ASSUME NEW d \in DOMAIN conns'
        PROVE  d \in DOMAIN conns /\ \A k \in DOMAIN conns'[d].in :
                 k + 0 \in DOMAIN conns[d].in /\ conns'[d].in[k] = conns[d].in[k + 0]
    BY <1>4, <2>1
  <2>. QED
    BY <2>2 DEF Shrinks
<1>6. /\ cl'.pc = "idle" /\ cl'.tries = cl.tries /\ cl'.sock = 0 /\ ~cl'.connected
      /\ cl' \in [pc : Points, sock : Nat, connected : BOOLEAN, tries : {0, 1, 2},
                  asked : {<<>>} \cup Messages]
  BY <1>2 DEF ClientInv, ClientType, Points
<1>7. /\ calls' \in Seq(AskedCalls) /\ Now' = Now
      /\ \A i \in DOMAIN calls :
           /\ calls'[i].kind = calls[i].kind /\ calls'[i].applied = calls[i].applied
           /\ calls[i].again => calls'[i].again
           /\ i # Now => calls'[i] = calls[i]
      /\ calls'[Now].again /\ calls'[Now].result = "false"
  <2>1. calls \in Seq(AskedCalls) /\ \A i \in DOMAIN calls : calls[i] \in AskedCalls
    BY CallFacts DEF ClientInv, ClientType
  <2>2. calls' = [calls EXCEPT ![Now] = [calls[Now] EXCEPT !.again = TRUE, !.result = "false"]]
    BY <1>2, <1>3, <2>1 DEF AskedCalls
  <2>3. [calls[Now] EXCEPT !.again = TRUE, !.result = "false"] \in AskedCalls
    BY <1>3, <2>1 DEF AskedCalls
  <2>4. calls' \in Seq(AskedCalls) /\ Len(calls') = Len(calls)
    BY <1>3, <2>1, <2>2, <2>3, ExceptSeq DEF Now
  <2>5. ASSUME NEW i \in DOMAIN calls
        PROVE  /\ calls'[i].kind = calls[i].kind /\ calls'[i].applied = calls[i].applied
               /\ calls[i].again => calls'[i].again
               /\ i # Now => calls'[i] = calls[i]
    BY <2>1, <2>2 DEF AskedCalls
  <2>6. calls'[Now].again /\ calls'[Now].result = "false"
    BY <1>3, <2>1, <2>2 DEF AskedCalls
  <2>. QED
    BY <2>4, <2>5, <2>6 DEF Now
<1>8. ClientType'
  BY <1>2, <1>4, <1>6, <1>7 DEF ClientInv, ClientType, Points
<1>9. OneSocket' /\ Running'
  BY <1>4, <1>6 DEF OneSocket, Running, At
<1>10. Stamped' /\ OnePlace' /\ Counted' /\ Settled' /\ Acknowledged'
  BY <1>3, <1>5, <1>6, <1>7, <1>8, CarryOver
<1>11. InTurn' /\ OnTheWire'
  BY <1>6 DEF InTurn, OnTheWire
<1>12. Untouched'
  <2>1. DOMAIN calls' = DOMAIN calls
    BY <1>3, <1>7, LenProperties DEF Now
  <2>. QED
    BY <1>6, <1>7, <2>1 DEF ClientInv, Untouched, At
<1>. QED
  BY <1>8, <1>9, <1>10, <1>11, <1>12 DEF ClientInv

\* A program connects once more.
LEMMA ConnectKeeps ==
  ASSUME ClientInv, Connect
  PROVE  ClientInv'
<1>1. /\ At("idle") /\ cl.sock = 0 /\ conns' = Append(conns, NewConn) /\ UNCHANGED <<calls, breaks>>
      /\ cl' = [cl EXCEPT !.sock = Len(conns) + 1, !.connected = TRUE]
  BY DEF Connect
<1>2. /\ conns' \in Seq(Links) /\ Len(conns') = Len(conns) + 1
      /\ DOMAIN conns' = 1..Len(conns) + 1 /\ Len(conns) \in Nat
      /\ \A c \in DOMAIN conns' : c # Len(conns) + 1 => conns'[c].broken
      /\ conns'[Len(conns) + 1] = NewConn
      /\ Shrinks
  <2>1. \A c \in DOMAIN conns : conns[c].broken
    <3>1. \A c \in DOMAIN conns : c # 0
      BY LinkFacts DEF ClientInv
    <3>. QED
      BY <1>1, <3>1 DEF ClientInv, OneSocket
  <2>2. conns \in Seq(Links)
    BY DEF ClientInv, ClientType
  <2>. QED
    BY <1>1, <2>1, <2>2, NewFacts
<1>3. /\ cl'.pc = "idle" /\ cl'.tries = cl.tries /\ cl'.sock = Len(conns) + 1 /\ cl'.connected
      /\ cl' \in [pc : Points, sock : Nat, connected : BOOLEAN, tries : {0, 1, 2},
                  asked : {<<>>} \cup Messages]
  <2>1. Len(conns) + 1 \in Nat
    BY <1>2
  <2>. QED
    BY <1>1, <2>1 DEF ClientInv, ClientType, Points, At
<1>4. ClientType'
  BY <1>1, <1>2, <1>3 DEF ClientInv, ClientType, Points
<1>5. OneSocket' /\ Running'
  BY <1>2, <1>3 DEF OneSocket, Running, At
<1>6. Stamped' /\ OnePlace' /\ Counted' /\ Settled' /\ Acknowledged'
  <2>1. Now' = Now /\ cl.tries <= cl'.tries
    BY <1>1, <1>3, CallFacts DEF Now, ClientInv
  <2>. QED
    BY <1>1, <1>2, <1>3, <1>4, <2>1, CarryOver
<1>7. Conn' = NewConn
  BY <1>2, <1>3 DEF Conn
<1>8. InTurn' /\ OnTheWire'
  BY <1>3, <1>7 DEF InTurn, OnTheWire, At, NewConn
<1>9. Untouched'
  BY <1>1, <1>3 DEF ClientInv, Untouched, At
<1>. QED
  BY <1>4, <1>5, <1>6, <1>8, <1>9 DEF ClientInv

\* The program makes a call.
LEMMA BeginKeeps ==
  ASSUME ClientInv, NEW kind \in Writes \cup Reads, NEW valid \in BOOLEAN, Begin(kind, valid)
  PROVE  ClientInv'
<1>. DEFINE new == [kind |-> kind, valid |-> valid, applied |-> 0, again |-> FALSE, result |-> "none"]
<1>1. /\ At("idle") /\ calls' = Append(calls, new) /\ UNCHANGED <<conns, breaks>>
      /\ cl' = [cl EXCEPT !.pc = "try", !.tries = 1]
  BY DEF Begin
<1>2. Now \in Nat /\ DOMAIN calls = 1..Now /\ calls \in Seq(AskedCalls)
  BY CallFacts DEF ClientInv, ClientType
<1>3. /\ calls' \in Seq(AskedCalls) /\ Now' = Now + 1
      /\ \A i \in 1..Now : calls'[i] = calls[i]
      /\ calls'[Now + 1] = new
  <2>1. new \in AskedCalls
    BY DEF AskedCalls
  <2>. HIDE DEF new
  <2>. QED
    BY <1>1, <1>2, <2>1, AppendProperties DEF Now
<1>4. DOMAIN calls' = 1..Now + 1
  BY <1>3, LenProperties DEF Now
<1>5. /\ cl'.pc = "try" /\ cl'.tries = 1 /\ cl'.sock = cl.sock /\ cl'.connected = cl.connected
      /\ cl' \in [pc : Points, sock : Nat, connected : BOOLEAN, tries : {0, 1, 2},
                  asked : {<<>>} \cup Messages]
  BY <1>1 DEF ClientInv, ClientType, Points
<1>6. ClientType'
  BY <1>1, <1>3, <1>5 DEF ClientInv, ClientType, Points
<1>7. OneSocket'
  BY <1>1, <1>5 DEF ClientInv, OneSocket, Conn
<1>8. Running'
  BY <1>2, <1>3, <1>5 DEF Running, At
<1>9. ASSUME NEW c \in DOMAIN conns, NEW k \in DOMAIN conns[c].in
      PROVE  /\ conns[c].in[k][1] \in 1..Now /\ conns[c].in[k][1] # Now + 1
             /\ conns[c].in[k][2] = "write" => calls'[conns[c].in[k][1]].kind \in Writes
  BY <1>2, <1>3 DEF ClientInv, Stamped
<1>10. Stamped'
  BY <1>1, <1>2, <1>3, <1>9 DEF Stamped
<1>11. OnePlace'
  BY <1>1 DEF ClientInv, OnePlace
<1>12. Counted'
  <2>1. ASSUME NEW i \in 1..Now
        PROVE  (calls[i].applied + One(Carried(<<i, "write", 1>>))
                  + One(Carried(<<i, "write", 2>>)) <= Tried(i))'
    <3>1. calls[i].applied + One(Carried(<<i, "write", 1>>)) + One(Carried(<<i, "write", 2>>)) <= Tried(i)
      BY <1>2 DEF ClientInv, Counted
    <3>2. Tried(i)' = Tried(i)
      BY <1>1, <1>2, <1>3 DEF Tried, One, At
    <3>3. \A m : Carried(m)' = Carried(m)
      BY <1>1 DEF Carried
    <3>. QED
      BY <1>3, <3>1, <3>2, <3>3 DEF One
  <2>2. ASSUME NEW i, i = Now + 1
        PROVE  (calls[i].applied + One(Carried(<<i, "write", 1>>))
                  + One(Carried(<<i, "write", 2>>)) <= Tried(i))'
    <3>1. ~Carried(<<i, "write", 1>>)' /\ ~Carried(<<i, "write", 2>>)'
      BY <1>1, <1>9, <2>2 DEF Carried
    <3>2. Tried(i)' = 0
      BY <1>3, <1>5, <2>2 DEF Tried, One, At
    <3>3. calls'[i].applied = 0
      BY <1>3, <2>2
    <3>. QED
      BY <3>1, <3>2, <3>3 DEF One
  <2>3. ASSUME NEW i \in 1..Now + 1
        PROVE  (calls[i].applied + One(Carried(<<i, "write", 1>>))
                  + One(Carried(<<i, "write", 2>>)) <= Tried(i))'
    <3>1. i \in 1..Now \/ i = Now + 1
      BY <1>2
    <3>. QED
      BY <2>1, <2>2, <3>1
  <2>. QED
    BY <1>4, <2>3 DEF Counted
<1>13. Settled' /\ Acknowledged'
  <2>1. ASSUME NEW i PROVE OnTheWay(i)' = OnTheWay(i)
    BY <1>1 DEF OnTheWay
  <2>2. ASSUME NEW i \in 1..Now + 1
        PROVE  (i \in 1..Now /\ calls'[i] = calls[i]) \/ calls'[i].result = "none"
    BY <1>2, <1>3
  <2>. QED
    BY <1>2, <1>4, <2>1, <2>2 DEF ClientInv, Settled, Acknowledged
<1>14. InTurn' /\ OnTheWire'
  <2>1. cl.sock # 0 => Conn.out = <<>> /\ (Conn.broken \/ Conn.in = <<>>)
    BY <1>1 DEF ClientInv, InTurn, OnTheWire, At
  <2>2. Conn' = Conn
    BY <1>1, <1>5 DEF Conn
  <2>. QED
    BY <1>5, <2>1, <2>2 DEF InTurn, OnTheWire, At
<1>15. Untouched'
  <2>1. ASSUME NEW i \in 1..Now + 1, calls'[i].kind \notin Writes PROVE calls'[i].applied = 0
    <3>1. (i \in 1..Now /\ calls'[i] = calls[i]) \/ calls'[i].applied = 0
      BY <1>2, <1>3
    <3>. QED
      BY <1>2, <2>1, <3>1 DEF ClientInv, Untouched
  <2>. QED
    BY <1>3, <1>4, <1>5, <2>1 DEF Untouched, At
<1>. QED
  BY <1>6, <1>7, <1>8, <1>10, <1>11, <1>12, <1>13, <1>14, <1>15 DEF ClientInv

\* A connection breaks, with what is under way lost, or a front of it left.
LEMMA BreakKeeps ==
  ASSUME ClientInv, NEW b \in DOMAIN conns, Break(b)
  PROVE  ClientInv'
<1>1. PICK i \in 0..Len(conns[b].in), o \in 0..Len(conns[b].out) :
        conns' = [conns EXCEPT ![b].broken = TRUE, ![b].in = SubSeq(@, 1, i), ![b].out = SubSeq(@, 1, o)]
  BY DEF Break
<1>2. UNCHANGED <<cl, calls>> /\ breaks' = breaks + 1
  BY DEF Break
<1>3. /\ conns \in Seq(Links) /\ DOMAIN conns = 1..Len(conns)
      /\ \A c \in DOMAIN conns :
           /\ conns[c] \in Links /\ conns[c].in \in Seq(Messages) /\ conns[c].out \in Seq(Replies)
           /\ DOMAIN conns[c].in = 1..Len(conns[c].in) /\ Len(conns[c].in) \in Nat
  BY LinkFacts DEF ClientInv, ClientType
<1>. DEFINE in == SubSeq(conns[b].in, 1, i)
            out == SubSeq(conns[b].out, 1, o)
<1>4. Len(conns[b].in) \in Nat /\ Len(conns[b].out) \in Nat /\ i \in Nat /\ o \in Nat
  <2>1. Len(conns[b].in) \in Nat /\ Len(conns[b].out) \in Nat
    BY <1>3, LenProperties
  <2>. QED
    BY <2>1
<1>5. /\ in \in Seq(Messages) /\ Len(in) = i /\ DOMAIN in = 1..i
      /\ \A k \in 1..i : k \in DOMAIN conns[b].in /\ in[k] = conns[b].in[k]
  <2>1. \A k \in 1..i : k \in DOMAIN conns[b].in /\ conns[b].in[k] \in Messages
    BY <1>3, <1>4, ElementOfSeq
  <2>2. /\ in \in Seq(Messages) /\ Len(in) = IF 1 <= i THEN i - 1 + 1 ELSE 0
        /\ \A k \in 1..i - 1 + 1 : in[k] = conns[b].in[1 + k - 1]
    BY <1>4, <2>1, SubSeqProperties
  <2>3. Len(in) = i /\ \A k \in 1..i : in[k] = conns[b].in[k]
    BY <1>4, <2>2
  <2>. QED
    BY <2>1, <2>2, <2>3, LenProperties
<1>6. /\ out \in Seq(Replies) /\ Len(out) = o
      /\ \A k \in 1..o : out[k] = conns[b].out[k]
  <2>1. \A k \in 1..o : conns[b].out[k] \in Replies
    BY <1>3, <1>4, ElementOfSeq
  <2>2. /\ out \in Seq(Replies) /\ Len(out) = IF 1 <= o THEN o - 1 + 1 ELSE 0
        /\ \A k \in 1..o - 1 + 1 : out[k] = conns[b].out[1 + k - 1]
    BY <1>4, <2>1, SubSeqProperties
  <2>. QED
    BY <1>4, <2>2
<1>. HIDE DEF in, out
<1>7. conns' = [conns EXCEPT ![b] = [conns[b] EXCEPT !.broken = TRUE, !.in = in, !.out = out]]
  BY <1>1, <1>3 DEF in, out, Links
<1>8. [conns[b] EXCEPT !.broken = TRUE, !.in = in, !.out = out] \in Links
  BY <1>3, <1>5, <1>6 DEF Links
<1>9. conns' \in Seq(Links) /\ Len(conns') = Len(conns) /\ DOMAIN conns' = DOMAIN conns
  BY <1>3, <1>7, <1>8, ExceptSeq
<1>10. /\ conns'[b].broken /\ conns'[b].in = in /\ conns'[b].out = out
       /\ \A c \in DOMAIN conns : c # b => conns'[c] = conns[c]
  BY <1>3, <1>7 DEF Links
<1>11. ClientType'
  BY <1>2, <1>9 DEF ClientInv, ClientType
<1>12. OneSocket'
  <2>1. \A c \in DOMAIN conns : conns[c].broken => conns'[c].broken
    BY <1>10
  <2>2. cl.sock # 0 => cl.sock \in DOMAIN conns
    BY <1>3, LinkFacts, CallFacts DEF ClientInv, OneSocket
  <2>. QED
    BY <1>2, <1>9, <2>1, <2>2 DEF ClientInv, OneSocket, Conn
<1>13. cl.sock # 0 => cl.sock \in DOMAIN conns /\ (Conn.broken => Conn'.broken)
  <2>1. cl.sock # 0 => cl.sock \in DOMAIN conns
    BY <1>3, LinkFacts, CallFacts DEF ClientInv, OneSocket
  <2>. QED
    BY <1>2, <1>10, <2>1 DEF Conn
<1>14. Running'
  <2>1. \A x \in {"write", "ask", "query", "ping"} : Message(x)' = Message(x)
    BY <1>2 DEF Message, Now
  <2>. QED
    BY <1>2, <1>13, <2>1 DEF ClientInv, Running, At, Now
<1>15. Stamped' /\ OnePlace' /\ Counted' /\ Settled' /\ Acknowledged'
  <2>1. Shrinks
    <3>1. ASSUME NEW d \in DOMAIN conns'
          PROVE  d \in DOMAIN conns /\ \A k \in DOMAIN conns'[d].in :
                   k + 0 \in DOMAIN conns[d].in /\ conns'[d].in[k] = conns[d].in[k + 0]
      <4>1. \A k \in DOMAIN conns'[d].in : k \in DOMAIN conns[d].in /\ conns'[d].in[k] = conns[d].in[k]
        BY <1>5, <1>9, <1>10
      <4>2. DOMAIN conns[d].in \subseteq Nat
        BY <1>3, <1>9
      <4>. QED
        BY <1>9, <4>1, <4>2
    <3>. QED
      BY <3>1 DEF Shrinks
  <2>2. Now' = Now /\ cl.tries <= cl'.tries
    BY <1>2, CallFacts DEF Now, ClientInv
  <2>3. /\ cl'.pc = "try" => At("try") /\ cl'.tries = cl.tries /\ UNCHANGED calls
        /\ cl'.pc # "idle" /\ cl'.tries = 1 => ~At("idle") /\ cl.tries = 1 /\ cl'.sock = cl.sock
        /\ calls' = calls
    BY <1>2 DEF At
  <2>. QED
    BY <1>11, <2>1, <2>2, <2>3, CarryOver
<1>16. cl.sock # b \/ cl.sock = 0 => InTurn' /\ OnTheWire' /\ Untouched'
  <2>. SUFFICES ASSUME cl.sock # b \/ cl.sock = 0 PROVE InTurn' /\ OnTheWire' /\ Untouched'
    OBVIOUS
  <2>1. cl.sock # 0 => Conn' = Conn
    BY <1>2, <1>10, <1>13 DEF Conn
  <2>2. \A x \in {"write", "ask", "query", "ping"} : Message(x)' = Message(x)
    BY <1>2 DEF Message, Now
  <2>3. \A e : Told(e)' = Told(e)
    BY <1>2 DEF Told, Now
  <2>4. InTurn'
    BY <1>2, <2>1, <2>3 DEF ClientInv, InTurn, At
  <2>5. OnTheWire'
    BY <1>2, <2>1, <2>2, <2>3 DEF ClientInv, OnTheWire, At
  <2>6. Untouched'
    BY <1>2, <2>1 DEF ClientInv, Untouched, At, Now
  <2>. QED
    BY <2>4, <2>5, <2>6
<1>17. ASSUME cl.sock = b, cl.sock # 0 PROVE InTurn' /\ OnTheWire' /\ Untouched'
  <2>1. Conn' = conns'[b] /\ Conn = conns[b]
    BY <1>2, <1>17 DEF Conn
  <2>2. Conn'.out # <<>> => Conn.out # <<>> /\ Conn'.out = Conn.out
    <3>1. ASSUME Conn'.out # <<>> PROVE Conn.out # <<>> /\ Conn'.out = Conn.out
      <4>1. out # <<>>
        BY <1>10, <2>1, <3>1
      <4>2. o # 0
        BY <1>6, <4>1, EmptySeq
      <4>3. conns[b].out # <<>>
        BY <1>4, <4>2
      <4>4. Len(conns[b].out) = 1
        BY <1>17, <2>1, <4>3 DEF ClientInv, InTurn
      <4>5. o = 1
        BY <1>4, <4>2, <4>4
      <4>6. out = conns[b].out
        BY <1>3, <1>6, <4>4, <4>5, SeqEqual
      <4>. QED
        BY <1>10, <2>1, <4>3, <4>6
    <3>. QED
      BY <3>1
  <2>3. Conn.in = <<>> => Conn'.in = <<>>
    <3>1. ASSUME Conn.in = <<>> PROVE Conn'.in = <<>>
      <4>1. Len(conns[b].in) = 0
        BY <2>1, <3>1
      <4>2. i = 0
        BY <1>4, <4>1
      <4>3. in = <<>>
        BY <1>5, <4>2, EmptySeq
      <4>. QED
        BY <1>10, <2>1, <4>3
    <3>. QED
      BY <3>1
  <2>4. \A e : Told(e)' = Told(e)
    BY <1>2 DEF Told, Now
  <2>5. InTurn'
    BY <1>2, <1>17, <2>2, <2>3, <2>4 DEF ClientInv, InTurn, At
  <2>6. OnTheWire'
    BY <1>10, <2>1 DEF OnTheWire
  <2>7. Untouched'
    <3>1. Conn'.broken
      BY <1>10, <2>1
    <3>. QED
      BY <1>2, <1>17, <2>2, <3>1 DEF ClientInv, Untouched, At, Now
  <2>. QED
    BY <2>5, <2>6, <2>7
<1>. QED
  BY <1>11, <1>12, <1>14, <1>15, <1>16, <1>17 DEF ClientInv

\* The server takes the next message of a connection: it applies a write, refuses it, or replies.
LEMMA ServeFacts ==
  ASSUME ClientInv, NEW b \in DOMAIN conns, Serve(b), NEW m, m = Head(conns[b].in)
  PROVE  /\ UNCHANGED <<cl, breaks>>
         /\ conns' \in Seq(Links) /\ Len(conns') = Len(conns) /\ DOMAIN conns' = DOMAIN conns
         /\ \A c \in DOMAIN conns : c # b => conns'[c] = conns[c]
         /\ conns'[b].in = Tail(conns[b].in) /\ conns'[b].broken = conns[b].broken
         /\ conns[b].in # <<>> /\ m = conns[b].in[1] /\ m \in Messages
         /\ \/ /\ m[2] = "write" /\ conns'[b].out = conns[b].out /\ conns'[b].err = FALSE
               /\ calls' = [calls EXCEPT ![m[1]].applied = @ + 1]
            \/ /\ m[2] = "write" /\ conns'[b].out = conns[b].out /\ conns'[b].err = TRUE
               /\ UNCHANGED calls
            \/ /\ m[2] # "write" /\ conns'[b].err = conns[b].err /\ UNCHANGED calls
               /\ \E err \in BOOLEAN :
                    /\ m[2] = "ask" => err = conns[b].err
                    /\ conns'[b].out = IF conns[b].broken THEN conns[b].out
                                       ELSE Append(conns[b].out, [to |-> m, err |-> err])
<1>1. /\ conns \in Seq(Links) /\ b \in 1..Len(conns) /\ conns[b] \in Links
      /\ conns[b].in \in Seq(Messages) /\ conns[b].out \in Seq(Replies)
      /\ conns[b].broken \in BOOLEAN /\ conns[b].err \in BOOLEAN
  BY LinkFacts DEF ClientInv, ClientType
<1>2. conns[b].in # <<>> /\ UNCHANGED <<cl, breaks>>
  BY DEF Serve
<1>3. m = conns[b].in[1] /\ m \in Messages /\ Tail(conns[b].in) \in Seq(Messages)
  <2>1. m \in Messages /\ Tail(conns[b].in) \in Seq(Messages)
    BY <1>1, <1>2, HeadTailProperties
  <2>2. m = conns[b].in[1]
    BY <1>1, <1>2
  <2>. QED
    BY <2>1, <2>2
<1>4. m[2] \in {"write", "ask", "query", "ping"}
  BY <1>3 DEF Messages
<1>5. ASSUME NEW e \in Links, conns' = [conns EXCEPT ![b] = e]
      PROVE  /\ conns' \in Seq(Links) /\ Len(conns') = Len(conns) /\ DOMAIN conns' = DOMAIN conns
             /\ \A c \in DOMAIN conns : c # b => conns'[c] = conns[c]
             /\ conns'[b] = e
  BY <1>1, <1>5, ExceptSeq
<1>. DEFINE r == [conns[b] EXCEPT !.in = Tail(conns[b].in)]
            rest == [conns EXCEPT ![b].in = Tail(@)]
            next(err) == IF conns[b].broken THEN conns[b].out
                         ELSE Append(conns[b].out, [to |-> m, err |-> err])
<1>6. /\ r \in Links /\ r.in = Tail(conns[b].in) /\ r.out = conns[b].out
      /\ r.broken = conns[b].broken /\ r.err = conns[b].err
  BY <1>1, <1>3 DEF Links
<1>7. /\ rest = [conns EXCEPT ![b] = r] /\ rest[b] = r
      /\ \A e : [rest EXCEPT ![b] = e] = [conns EXCEPT ![b] = e]
  BY <1>1
<1>8. ASSUME NEW err \in BOOLEAN PROVE next(err) \in Seq(Replies)
  <2>1. [to |-> m, err |-> err] \in Replies
    BY <1>3 DEF Replies
  <2>. QED
    BY <1>1, <2>1, AppendProperties
<1>. HIDE DEF r, next
<1>9. ASSUME NEW err \in BOOLEAN, conns' = [rest EXCEPT ![b].err = err]
      PROVE  /\ conns' \in Seq(Links) /\ Len(conns') = Len(conns) /\ DOMAIN conns' = DOMAIN conns
             /\ \A c \in DOMAIN conns : c # b => conns'[c] = conns[c]
             /\ conns'[b].in = Tail(conns[b].in) /\ conns'[b].broken = conns[b].broken
             /\ conns'[b].out = conns[b].out /\ conns'[b].err = err
  <2>1. conns' = [rest EXCEPT ![b] = [rest[b] EXCEPT !.err = err]]
    BY <1>9
  <2>2. conns' = [conns EXCEPT ![b] = [r EXCEPT !.err = err]]
    BY <1>7, <2>1
  <2>3. /\ [r EXCEPT !.err = err] \in Links
        /\ [r EXCEPT !.err = err].in = r.in /\ [r EXCEPT !.err = err].broken = r.broken
        /\ [r EXCEPT !.err = err].out = r.out /\ [r EXCEPT !.err = err].err = err
    BY <1>6 DEF Links
  <2>. QED
    BY <1>5, <1>6, <2>2, <2>3
<1>10. ASSUME NEW err \in BOOLEAN,
              conns' = [rest EXCEPT ![b].out =
                        IF conns[b].broken THEN @ ELSE Append(@, [to |-> m, err |-> err])]
       PROVE  /\ conns' \in Seq(Links) /\ Len(conns') = Len(conns) /\ DOMAIN conns' = DOMAIN conns
              /\ \A c \in DOMAIN conns : c # b => conns'[c] = conns[c]
              /\ conns'[b].in = Tail(conns[b].in) /\ conns'[b].broken = conns[b].broken
              /\ conns'[b].out = next(err) /\ conns'[b].err = conns[b].err
  <2>1. conns' = [rest EXCEPT ![b] = [rest[b] EXCEPT !.out = next(err)]]
    BY <1>6, <1>7, <1>10 DEF next
  <2>2. conns' = [conns EXCEPT ![b] = [r EXCEPT !.out = next(err)]]
    BY <1>7, <2>1
  <2>3. /\ [r EXCEPT !.out = next(err)] \in Links
        /\ [r EXCEPT !.out = next(err)].in = r.in /\ [r EXCEPT !.out = next(err)].broken = r.broken
        /\ [r EXCEPT !.out = next(err)].out = next(err) /\ [r EXCEPT !.out = next(err)].err = r.err
    BY <1>6, <1>8 DEF Links
  <2>. QED
    BY <1>5, <1>6, <2>2, <2>3
<1>11. CASE /\ m[2] = "write" /\ conns' = [rest EXCEPT ![b].err = FALSE]
            /\ calls' = [calls EXCEPT ![m[1]].applied = @ + 1]
  BY <1>2, <1>3, <1>9, <1>11
<1>12. CASE m[2] = "write" /\ conns' = [rest EXCEPT ![b].err = TRUE] /\ UNCHANGED calls
  BY <1>2, <1>3, <1>9, <1>12
<1>13. ASSUME NEW err \in BOOLEAN, m[2] # "write", m[2] = "ask" => err = conns[b].err, UNCHANGED calls,
              conns' = [rest EXCEPT ![b].out =
                        IF conns[b].broken THEN @ ELSE Append(@, [to |-> m, err |-> err])]
       PROVE  /\ conns' \in Seq(Links) /\ Len(conns') = Len(conns) /\ DOMAIN conns' = DOMAIN conns
              /\ \A c \in DOMAIN conns : c # b => conns'[c] = conns[c]
              /\ conns'[b].in = Tail(conns[b].in) /\ conns'[b].broken = conns[b].broken
              /\ conns'[b].out = (IF conns[b].broken THEN conns[b].out
                                  ELSE Append(conns[b].out, [to |-> m, err |-> err]))
              /\ conns'[b].err = conns[b].err
  BY <1>10, <1>13 DEF next
<1>14. \/ /\ m[2] = "write" /\ conns' = [rest EXCEPT ![b].err = FALSE]
          /\ calls' = [calls EXCEPT ![m[1]].applied = @ + 1]
       \/ m[2] = "write" /\ conns' = [rest EXCEPT ![b].err = TRUE] /\ UNCHANGED calls
       \/ \E err \in BOOLEAN :
            /\ m[2] # "write" /\ (m[2] = "ask" => err = conns[b].err) /\ UNCHANGED calls
            /\ conns' = [rest EXCEPT ![b].out =
                         IF conns[b].broken THEN @ ELSE Append(@, [to |-> m, err |-> err])]
  BY <1>1 DEF Serve
<1>. HIDE DEF rest
<1>. QED
  BY <1>2, <1>3, <1>11, <1>12, <1>13, <1>14

\* The queue that is served loses its head, and nothing else changes on the way.
LEMMA ServeShrinks ==
  ASSUME ClientInv, NEW b \in DOMAIN conns, Serve(b)
  PROVE  /\ Shrinks
         /\ \A k \in DOMAIN conns'[b].in :
              /\ k \in Nat /\ k > 0 /\ k + 1 \in DOMAIN conns[b].in
              /\ conns'[b].in[k] = conns[b].in[k + 1]
<1>1. /\ DOMAIN conns' = DOMAIN conns
      /\ \A c \in DOMAIN conns : c # b => conns'[c] = conns[c]
      /\ conns'[b].in = Tail(conns[b].in) /\ conns[b].in # <<>>
  BY ServeFacts
<1>2. /\ conns[b].in \in Seq(Messages)
      /\ \A d \in DOMAIN conns : DOMAIN conns[d].in \subseteq Nat
      /\ DOMAIN conns[b].in = 1..Len(conns[b].in) /\ Len(conns[b].in) \in Nat
  BY LinkFacts DEF ClientInv
<1>3. ASSUME NEW k \in DOMAIN conns'[b].in
      PROVE  /\ k \in Nat /\ k > 0 /\ k + 1 \in DOMAIN conns[b].in
             /\ conns'[b].in[k] = conns[b].in[k + 1]
  <2>1. /\ Tail(conns[b].in) \in Seq(Messages)
        /\ Len(Tail(conns[b].in)) = Len(conns[b].in) - 1
        /\ \A i \in 1..Len(Tail(conns[b].in)) : Tail(conns[b].in)[i] = conns[b].in[i + 1]
    BY <1>1, <1>2, HeadTailProperties
  <2>2. k \in 1..Len(Tail(conns[b].in))
    BY <1>1, <2>1, LenProperties
  <2>. QED
    BY <1>1, <1>2, <2>1, <2>2
<1>4. ASSUME NEW d \in DOMAIN conns'
      PROVE  d \in DOMAIN conns /\ \E s \in {0, 1} : \A k \in DOMAIN conns'[d].in :
               k + s \in DOMAIN conns[d].in /\ conns'[d].in[k] = conns[d].in[k + s]
  <2>1. CASE d = b
    BY <1>1, <1>3, <2>1
  <2>2. CASE d # b
    <3>1. \A k \in DOMAIN conns'[d].in :
            k + 0 \in DOMAIN conns[d].in /\ conns'[d].in[k] = conns[d].in[k + 0]
      BY <1>1, <1>2, <2>2
    <3>. QED
      BY <1>1, <3>1
  <2>. QED
    BY <2>1, <2>2
<1>. QED
  BY <1>3, <1>4 DEF Shrinks

\* A write is applied: what this leaves of the queues, the counts and the promises.
LEMMA AppliedKeeps ==
  ASSUME ClientInv, ClientType', NEW b \in DOMAIN conns, Serve(b), NEW m, m = Head(conns[b].in),
         m[2] = "write", calls' = [calls EXCEPT ![m[1]].applied = @ + 1]
  PROVE  /\ Stamped' /\ OnePlace' /\ Counted' /\ Settled' /\ Acknowledged'
         /\ Now' = Now /\ DOMAIN calls' = DOMAIN calls
         /\ m[1] \in DOMAIN calls /\ calls[m[1]].kind \in Writes
         /\ \A i \in DOMAIN calls :
              /\ calls'[i].kind = calls[i].kind /\ calls'[i].again = calls[i].again
              /\ calls'[i].result = calls[i].result
              /\ calls'[i].applied = calls[i].applied + One(i = m[1])
              /\ calls[i].applied \in Nat
<1>1. /\ UNCHANGED cl /\ DOMAIN conns' = DOMAIN conns
      /\ conns[b].in # <<>> /\ m = conns[b].in[1] /\ m \in Messages
  BY ServeFacts
<1>2. /\ Shrinks
      /\ \A k \in DOMAIN conns'[b].in :
           /\ k \in Nat /\ k > 0 /\ k + 1 \in DOMAIN conns[b].in
           /\ conns'[b].in[k] = conns[b].in[k + 1]
  BY ServeShrinks
<1>3. /\ Now \in Nat /\ DOMAIN calls = 1..Now /\ calls \in Seq(AskedCalls)
      /\ \A i \in DOMAIN calls : calls[i] \in AskedCalls /\ calls[i].applied \in Nat
  BY CallFacts DEF ClientInv, ClientType
<1>4. 1 \in DOMAIN conns[b].in
  <2>1. DOMAIN conns[b].in = 1..Len(conns[b].in) /\ conns[b].in \in Seq(Messages)
    BY LinkFacts DEF ClientInv
  <2>. QED
    BY <1>1, <2>1, EmptySeq
<1>5. m[1] \in DOMAIN calls /\ calls[m[1]].kind \in Writes
  BY <1>1, <1>3, <1>4 DEF ClientInv, Stamped
<1>6. Now' = Now /\ DOMAIN calls' = DOMAIN calls
  <2>1. DOMAIN calls' = DOMAIN calls
    OBVIOUS
  <2>2. calls' \in Seq(AskedCalls)
    BY DEF ClientType
  <2>3. DOMAIN calls' = 1..Len(calls') /\ Len(calls') \in Nat
    BY <2>2, LenProperties
  <2>. QED
    BY <1>3, <2>1, <2>3 DEF Now
<1>7. ASSUME NEW i \in DOMAIN calls
      PROVE  /\ calls'[i].kind = calls[i].kind /\ calls'[i].again = calls[i].again
             /\ calls'[i].result = calls[i].result
             /\ calls'[i].applied = calls[i].applied + One(i = m[1])
  <2>1. CASE i = m[1]
    <3>1. calls'[i] = [calls[i] EXCEPT !.applied = @ + 1]
      BY <1>5, <2>1
    <3>. QED
      BY <1>3, <2>1, <3>1 DEF AskedCalls, One
  <2>2. CASE i # m[1]
    BY <1>3, <2>2 DEF One
  <2>. QED
    BY <2>1, <2>2
<1>8. Stamped'
  <2>1. ASSUME NEW d \in DOMAIN conns', NEW k \in DOMAIN conns'[d].in, NEW x, x = conns'[d].in[k]
        PROVE  /\ x[1] \in 1..Now
               /\ x[2] = "write" => calls'[x[1]].kind \in Writes
               /\ x[1] = Now =>
                    /\ x[3] <= cl.tries
                    /\ At("try") => x[3] < cl.tries
                    /\ ~At("idle") /\ cl.tries = 1 => d = cl.sock
    <3>1. PICK j \in DOMAIN conns[d].in : d \in DOMAIN conns /\ x = conns[d].in[j]
      BY <1>2, <2>1, ShrinkCarries DEF ClientInv
    <3>2. /\ x[1] \in 1..Now
          /\ x[2] = "write" => calls[x[1]].kind \in Writes
          /\ x[1] = Now =>
               /\ x[3] <= cl.tries
               /\ At("try") => x[3] < cl.tries
               /\ ~At("idle") /\ cl.tries = 1 => d = cl.sock
      BY <3>1 DEF ClientInv, Stamped
    <3>. QED
      BY <1>3, <1>7, <3>2
  <2>. QED
    BY <1>1, <1>6, <2>1 DEF Stamped, At
<1>9. OnePlace'
  BY <1>2, ShrinkKeepsPlaces DEF ClientInv
<1>10. ASSUME NEW x PROVE Carried(x)' => Carried(x)
  BY <1>2, ShrinkCarries DEF ClientInv, Carried
<1>11. Carried(m) /\ ~Carried(m)'
  <2>1. Carried(m)
    BY <1>1, <1>4 DEF Carried
  <2>2. ASSUME NEW d \in DOMAIN conns', NEW k \in DOMAIN conns'[d].in, conns'[d].in[k] = m
        PROVE  FALSE
    <3>1. PICK j \in DOMAIN conns[d].in : d \in DOMAIN conns /\ m = conns[d].in[j]
      BY <1>2, <2>2, ShrinkCarries DEF ClientInv
    <3>2. d = b
      BY <1>1, <1>4, <3>1 DEF ClientInv, OnePlace
    <3>3. k + 1 \in DOMAIN conns[b].in /\ conns[b].in[k + 1] = m /\ k \in Nat /\ k > 0
      BY <1>2, <2>2, <3>2
    <3>4. k + 1 = 1
      BY <1>1, <1>4, <3>3 DEF ClientInv, OnePlace
    <3>. QED
      BY <3>3, <3>4
  <2>. QED
    BY <2>1, <2>2 DEF Carried
<1>12. Counted'
  <2>. SUFFICES ASSUME NEW i \in DOMAIN calls
                PROVE  (calls[i].applied + One(Carried(<<i, "write", 1>>))
                          + One(Carried(<<i, "write", 2>>)) <= Tried(i))'
    BY <1>6 DEF Counted
  <2>. DEFINE w1 == <<i, "write", 1>>
              w2 == <<i, "write", 2>>
  <2>1. calls[i].applied + One(Carried(w1)) + One(Carried(w2)) <= Tried(i)
    BY DEF ClientInv, Counted
  <2>2. calls[i].applied \in Nat /\ calls'[i].applied = calls[i].applied + One(i = m[1])
    BY <1>3, <1>7
  <2>3. Tried(i)' = Tried(i) /\ Tried(i) \in Int
    BY <1>1, <1>6, <1>7 DEF Tried, One, At
  <2>4. i = m[1] => m = w1 \/ m = w2
    BY <1>1 DEF Messages
  <2>5. (Carried(w1)' => Carried(w1)) /\ (Carried(w2)' => Carried(w2))
    BY <1>10
  <2>6. /\ One(Carried(w1)) \in {0, 1} /\ One(Carried(w2)) \in {0, 1}
        /\ One(Carried(w1))' \in {0, 1} /\ One(Carried(w2))' \in {0, 1}
        /\ One(Carried(w1))' <= One(Carried(w1))
        /\ One(Carried(w2))' <= One(Carried(w2))
        /\ i = m[1] => \/ One(Carried(w1))' = 0 /\ One(Carried(w1)) = 1
                       \/ One(Carried(w2))' = 0 /\ One(Carried(w2)) = 1
        /\ One(i = m[1]) = IF i = m[1] THEN 1 ELSE 0
    BY <1>11, <2>4, <2>5 DEF One
  <2>. HIDE DEF w1, w2
  <2>7. calls'[i].applied + One(Carried(w1))' + One(Carried(w2))' <= Tried(i)'
    BY <2>1, <2>2, <2>3, <2>6
  <2>. QED
    BY <2>7 DEF w1, w2
<1>13. ASSUME NEW i PROVE OnTheWay(i)' => OnTheWay(i)
  BY <1>2, ShrinkCarries DEF ClientInv, OnTheWay
<1>14. OnTheWay(m[1])
  BY <1>1, <1>4 DEF OnTheWay
<1>15. ASSUME NEW i \in DOMAIN calls
       PROVE  /\ calls'[i].result # "none" /\ ~calls'[i].again =>
                   /\ ~OnTheWay(i)'
                   /\ calls'[i].result = "false" => calls'[i].applied = 0
              /\ calls'[i].result = "true" /\ calls'[i].kind \in Writes => calls'[i].applied >= 1
  <2>1. /\ calls[i].result # "none" /\ ~calls[i].again =>
             /\ ~OnTheWay(i)
             /\ calls[i].result = "false" => calls[i].applied = 0
        /\ calls[i].result = "true" /\ calls[i].kind \in Writes => calls[i].applied >= 1
    BY DEF ClientInv, Settled, Acknowledged
  <2>2. CASE i = m[1]
    <3>1. calls'[i].applied = calls[i].applied + 1 /\ calls[i].applied \in Nat
      BY <1>3, <1>7, <2>2 DEF One
    <3>2. ~(calls[i].result # "none" /\ ~calls[i].again)
      BY <1>14, <2>1, <2>2
    <3>3. calls'[i].applied >= 1
      BY <3>1
    <3>4. calls'[i].again = calls[i].again /\ calls'[i].result = calls[i].result
      BY <1>7
    <3>. QED
      BY <3>2, <3>3, <3>4
  <2>3. CASE i # m[1]
    <3>1. calls'[i].applied = calls[i].applied
      BY <1>3, <1>7, <2>3 DEF One
    <3>. QED
      BY <1>7, <1>13, <2>1, <3>1
  <2>. QED
    BY <2>2, <2>3
<1>16. Settled' /\ Acknowledged'
  BY <1>6, <1>15 DEF Settled, Acknowledged
<1>. QED
  BY <1>3, <1>5, <1>6, <1>7, <1>8, <1>9, <1>12, <1>16

\* The server takes a message.
LEMMA ServeKeeps ==
  ASSUME ClientInv, NEW b \in DOMAIN conns, Serve(b)
  PROVE  ClientInv'
<1>. DEFINE m == Head(conns[b].in)
<1>1. /\ UNCHANGED <<cl, breaks>>
      /\ conns' \in Seq(Links) /\ Len(conns') = Len(conns) /\ DOMAIN conns' = DOMAIN conns
      /\ \A c \in DOMAIN conns : c # b => conns'[c] = conns[c]
      /\ conns'[b].in = Tail(conns[b].in) /\ conns'[b].broken = conns[b].broken
      /\ conns[b].in # <<>> /\ m = conns[b].in[1] /\ m \in Messages
      /\ \/ /\ m[2] = "write" /\ conns'[b].out = conns[b].out /\ conns'[b].err = FALSE
            /\ calls' = [calls EXCEPT ![m[1]].applied = @ + 1]
         \/ /\ m[2] = "write" /\ conns'[b].out = conns[b].out /\ conns'[b].err = TRUE
            /\ UNCHANGED calls
         \/ /\ m[2] # "write" /\ conns'[b].err = conns[b].err /\ UNCHANGED calls
            /\ \E err \in BOOLEAN :
                 /\ m[2] = "ask" => err = conns[b].err
                 /\ conns'[b].out = IF conns[b].broken THEN conns[b].out
                                    ELSE Append(conns[b].out, [to |-> m, err |-> err])
  BY ServeFacts
<1>. HIDE DEF m
<1>2. /\ Now \in Nat /\ DOMAIN calls = 1..Now /\ calls \in Seq(AskedCalls)
      /\ \A i \in DOMAIN calls : calls[i] \in AskedCalls /\ calls[i].applied \in Nat
      /\ cl.tries \in {0, 1, 2}
  BY CallFacts DEF ClientInv, ClientType
<1>3. 1 \in DOMAIN conns[b].in
  <2>1. DOMAIN conns[b].in = 1..Len(conns[b].in) /\ conns[b].in \in Seq(Messages)
    BY LinkFacts DEF ClientInv
  <2>. QED
    BY <1>1, <2>1, EmptySeq
<1>4. /\ m[1] \in DOMAIN calls
      /\ m[2] = "write" => calls[m[1]].kind \in Writes
      /\ m[1] = Now =>
           /\ m[3] \in {1, 2} /\ m[3] <= cl.tries
           /\ At("try") => m[3] < cl.tries
           /\ ~At("idle") /\ cl.tries = 1 => b = cl.sock
  <2>1. m[3] \in {1, 2}
    BY <1>1 DEF Messages
  <2>. QED
    BY <1>1, <1>2, <1>3, <2>1 DEF ClientInv, Stamped
<1>5. ClientType'
  <2>1. calls' \in Seq(AskedCalls)
    <3>1. CASE calls' = [calls EXCEPT ![m[1]].applied = @ + 1]
      <4>1. [calls[m[1]] EXCEPT !.applied = @ + 1] \in AskedCalls
        <5>1. calls[m[1]] \in AskedCalls /\ calls[m[1]].applied + 1 \in Nat
          BY <1>2, <1>4
        <5>. QED
          BY <5>1 DEF AskedCalls
      <4>2. calls' = [calls EXCEPT ![m[1]] = [calls[m[1]] EXCEPT !.applied = @ + 1]]
        BY <3>1
      <4>3. m[1] \in 1..Len(calls)
        BY <1>2, <1>4 DEF Now
      <4>. QED
        BY <1>2, <4>1, <4>2, <4>3, ExceptSeq
    <3>2. CASE UNCHANGED calls
      BY <1>2, <3>2
    <3>. QED
      BY <1>1, <3>1, <3>2
  <2>. QED
    BY <1>1, <2>1 DEF ClientInv, ClientType
<1>6. /\ Stamped' /\ OnePlace' /\ Counted' /\ Settled' /\ Acknowledged'
      /\ Now' = Now /\ DOMAIN calls' = DOMAIN calls
      /\ \A i \in DOMAIN calls :
           /\ calls'[i].kind = calls[i].kind /\ calls'[i].again = calls[i].again
           /\ calls'[i].result = calls[i].result
           /\ calls'[i].applied # calls[i].applied =>
                /\ i = m[1] /\ m[2] = "write" /\ calls'[i].applied >= 1
                /\ conns'[b].err = FALSE /\ conns'[b].out = conns[b].out
           /\ m[2] = "write" /\ conns'[b].err = FALSE /\ i = m[1] => calls'[i].applied >= 1
           /\ calls'[i].applied >= calls[i].applied
  <2>1. CASE /\ m[2] = "write" /\ conns'[b].out = conns[b].out /\ conns'[b].err = FALSE
             /\ calls' = [calls EXCEPT ![m[1]].applied = @ + 1]
    <3>1. /\ Stamped' /\ OnePlace' /\ Counted' /\ Settled' /\ Acknowledged'
          /\ Now' = Now /\ DOMAIN calls' = DOMAIN calls
          /\ \A i \in DOMAIN calls :
               /\ calls'[i].kind = calls[i].kind /\ calls'[i].again = calls[i].again
               /\ calls'[i].result = calls[i].result
               /\ calls'[i].applied = calls[i].applied + One(i = m[1])
      BY <1>5, <2>1, AppliedKeeps DEF m
    <3>. QED
      BY <1>2, <2>1, <3>1 DEF One
  <2>2. CASE UNCHANGED calls /\ ~(m[2] = "write" /\ conns'[b].err = FALSE)
    <3>1. Now' = Now /\ Shrinks /\ cl.tries <= cl'.tries
      BY <1>1, <1>2, <2>2, ServeShrinks DEF Now
    <3>2. Stamped' /\ OnePlace' /\ Counted' /\ Settled' /\ Acknowledged'
      BY <1>1, <1>5, <2>2, <3>1, CarryOver DEF At
    <3>. QED
      BY <1>2, <2>2, <3>1, <3>2
  <2>. QED
    BY <1>1, <2>1, <2>2
<1>7. cl.sock # 0 => cl.sock \in DOMAIN conns
  BY LinkFacts, CallFacts DEF ClientInv, OneSocket
<1>8. OneSocket'
  <2>1. \A c \in DOMAIN conns : conns'[c].broken = conns[c].broken
    BY <1>1
  <2>. QED
    BY <1>1, <1>7, <2>1 DEF ClientInv, OneSocket, Conn
<1>9. \A x \in {"write", "ask", "query", "ping"} : Message(x)' = Message(x)
  BY <1>1, <1>6 DEF Message
<1>10. Running'
  <2>1. ~At("idle") => Now \in DOMAIN calls
    BY RunningFacts
  <2>2. cl.sock # 0 => Conn'.broken = Conn.broken
    BY <1>1, <1>7 DEF Conn
  <2>3. ~At("idle") => /\ calls'[Now].result = calls[Now].result /\ calls'[Now].again = calls[Now].again
                       /\ calls'[Now].kind = calls[Now].kind
    BY <1>6, <2>1
  <2>4. At("ask") \/ At("wait") => ~At("idle")
    BY DEF At
  <2>. QED
    BY <1>1, <1>6, <1>9, <2>2, <2>3, <2>4 DEF ClientInv, Running, At
<1>11. \A i \in DOMAIN calls' : calls'[i].kind \notin Writes => calls'[i].applied = 0
  BY <1>4, <1>6 DEF ClientInv, Untouched
\* on another connection
<1>12. ASSUME cl.sock # b \/ cl.sock = 0 PROVE InTurn' /\ OnTheWire' /\ Untouched'
  <2>1. cl.sock # 0 => Conn' = Conn
    BY <1>1, <1>7, <1>12 DEF Conn
  <2>2. ASSUME ~At("idle")
        PROVE  /\ Now \in DOMAIN calls /\ calls'[Now].applied >= calls[Now].applied
               /\ cl.tries = 1 => calls'[Now].applied = calls[Now].applied
               /\ calls[Now].applied \in Nat
    <3>1. Now \in DOMAIN calls
      BY <2>2, RunningFacts
    <3>2. cl.tries = 1 => m[1] # Now \/ cl.sock = b
      BY <1>4, <2>2
    <3>3. b # 0
      BY LinkFacts DEF ClientInv
    <3>. QED
      BY <1>2, <1>6, <1>12, <3>1, <3>2, <3>3
  <2>3. ASSUME ~At("idle"), NEW e, Told(e) PROVE Told(e)'
    <3>1. calls'[Now].applied \in Nat
      <4>1. calls' \in Seq(AskedCalls) /\ Now \in DOMAIN calls'
        BY <1>5, <1>6, <2>2, <2>3 DEF ClientType
      <4>2. calls'[Now] \in AskedCalls
        BY <4>1, LenProperties, ElementOfSeq
      <4>. QED
        BY <4>2 DEF AskedCalls
    <3>. QED
      BY <1>1, <1>6, <2>2, <2>3, <3>1 DEF Told
  <2>4. InTurn'
    BY <1>1, <2>1, <2>3 DEF ClientInv, InTurn, At
  <2>5. OnTheWire'
    BY <1>1, <1>9, <2>1, <2>3 DEF ClientInv, OnTheWire, At
  <2>6. Untouched'
    <3>1. At("check") \/ At("pong") => cl.tries = 1
      BY DEF ClientInv, Running
    <3>. QED
      BY <1>1, <1>6, <1>11, <2>1, <2>2, <3>1 DEF ClientInv, Untouched, At
  <2>. QED
    BY <2>4, <2>5, <2>6
\* on the client's connection, where no reply has come
<1>13. ASSUME cl.sock = b, cl.sock # 0 PROVE InTurn' /\ OnTheWire' /\ Untouched'
  <2>1. Conn = conns[b] /\ Conn' = conns'[b]
    BY <1>1, <1>13 DEF Conn
  <2>2. conns[b].out = <<>>
    BY <1>1, <1>13, <2>1 DEF ClientInv, InTurn
  <2>3. CASE conns[b].broken
    <3>1. conns'[b].broken /\ conns'[b].out = <<>>
      BY <1>1, <2>2, <2>3
    <3>2. InTurn' /\ OnTheWire'
      BY <2>1, <3>1 DEF InTurn, OnTheWire
    <3>3. ASSUME At("try"), cl.tries = 1 PROVE calls'[Now].applied = 0
      <4>1. Now \in DOMAIN calls
        BY <3>3, RunningFacts DEF At
      <4>2. m[1] # Now
        BY <1>4, <3>3
      <4>. QED
        BY <1>6, <3>3, <4>1, <4>2 DEF ClientInv, Untouched
    <3>4. Untouched'
      BY <1>1, <1>6, <1>11, <2>1, <3>1, <3>3 DEF Untouched, At
    <3>. QED
      BY <3>2, <3>4
  <2>4. CASE ~conns[b].broken
    <3>1. /\ ~At("idle") /\ ~At("try") /\ ~At("check")
          /\ At("ask") => conns[b].in = <<Message("write")>>
          /\ At("wait") =>
               \/ conns[b].in = <<Message("write"), cl.asked>> /\ cl.asked[2] = "ask"
               \/ conns[b].in = <<cl.asked>> /\ (cl.asked[2] = "ask" => Told(conns[b].err))
          /\ At("pong") => conns[b].in = <<cl.asked>>
      BY <1>1, <1>13, <2>1, <2>2, <2>4 DEF ClientInv, OnTheWire
    <3>2. At("ask") \/ At("wait") \/ At("pong")
      <4>1. ~At("reconnect")
        BY <1>13, <2>1, <2>4 DEF ClientInv, Running
      <4>. QED
        BY <3>1, <4>1, CallFacts DEF ClientInv, At
    <3>3. /\ Now \in DOMAIN calls /\ cl.tries \in {1, 2} /\ (calls[Now].again <=> cl.tries = 2)
          /\ Message("write")[1] = Now /\ Message("write")[2] = "write"
          /\ Message("write") \in Messages
      BY <3>1, RunningFacts
    \* a write is taken: what getlasterror will hear is whether it was applied
    <3>4. ASSUME m = Message("write")
          PROVE  Told(conns[b].err)' /\ conns'[b].out = <<>>
      <4>1. m[1] = Now /\ m[2] = "write" /\ conns'[b].out = <<>>
        BY <1>1, <2>2, <3>3, <3>4
      <4>2. CASE conns'[b].err = FALSE
        BY <1>6, <3>3, <4>1, <4>2 DEF Told
      <4>3. CASE conns'[b].err = TRUE
        <5>1. UNCHANGED calls
          BY <1>1, <4>1, <4>3
        <5>2. cl.tries = 1 => calls[Now].applied = 0
          <6>. SUFFICES ASSUME cl.tries = 1 PROVE calls[Now].applied = 0
            OBVIOUS
          <6>1. Carried(<<Now, "write", 1>>)
            BY <1>1, <1>3, <3>4 DEF Carried, Message
          <6>2. calls[Now].applied + One(Carried(<<Now, "write", 1>>))
                  + One(Carried(<<Now, "write", 2>>)) <= Tried(Now)
            BY <3>3 DEF ClientInv, Counted
          <6>3. Tried(Now) = 1
            BY <3>1, <3>3 DEF Tried, One
          <6>4. One(Carried(<<Now, "write", 1>>)) = 1 /\ One(Carried(<<Now, "write", 2>>)) \in {0, 1}
            BY <6>1 DEF One
          <6>5. calls[Now].applied \in Nat
            BY <1>2, <3>3
          <6>. QED
            BY <6>2, <6>3, <6>4, <6>5
        <5>. QED
          BY <1>1, <1>6, <4>1, <4>3, <5>1, <5>2 DEF Told
      <4>. QED
        BY <1>1, <4>1, <4>2, <4>3
    <3>5. CASE At("ask")
      <4>1. conns[b].in = <<Message("write")>>
        BY <3>1, <3>5
      <4>2. m = Message("write") /\ conns'[b].in = <<>>
        BY <1>1, <4>1
      <4>3. Told(conns[b].err)' /\ conns'[b].out = <<>>
        BY <3>4, <4>2
      <4>4. InTurn' /\ OnTheWire'
        BY <1>1, <2>1, <3>5, <4>2, <4>3 DEF InTurn, OnTheWire, At
      <4>5. Untouched'
        BY <1>1, <1>11, <3>5 DEF Untouched, At
      <4>. QED
        BY <4>4, <4>5
    <3>6. CASE At("wait") /\ conns[b].in = <<Message("write"), cl.asked>> /\ cl.asked[2] = "ask"
      <4>1. m = Message("write") /\ conns'[b].in = <<cl.asked>>
        BY <1>1, <3>6
      <4>2. Told(conns[b].err)' /\ conns'[b].out = <<>>
        BY <3>4, <4>1
      <4>3. InTurn' /\ OnTheWire'
        BY <1>1, <2>1, <3>6, <4>1, <4>2 DEF InTurn, OnTheWire, At
      <4>4. Untouched'
        BY <1>1, <1>11, <3>6 DEF Untouched, At
      <4>. QED
        BY <4>3, <4>4
    <3>7. CASE /\ At("wait") \/ At("pong")
               /\ conns[b].in = <<cl.asked>>
               /\ At("wait") /\ cl.asked[2] = "ask" => Told(conns[b].err)
      <4>1. m = cl.asked /\ conns'[b].in = <<>>
        BY <1>1, <3>7
      <4>2. cl.asked[2] # "write"
        BY <3>7, <3>3, RunningFacts DEF ClientInv, Running, At
      <4>3. UNCHANGED calls
        BY <1>1, <4>1, <4>2
      <4>4. PICK err \in BOOLEAN :
              /\ m[2] = "ask" => err = conns[b].err
              /\ conns'[b].out = Append(conns[b].out, [to |-> m, err |-> err])
        BY <1>1, <2>4, <4>1, <4>2
      <4>5. conns'[b].out = <<[to |-> cl.asked, err |-> err]>>
        BY <2>2, <4>1, <4>4
      <4>6. At("pong") => cl.asked[2] # "ask"
        BY RunningFacts DEF ClientInv, Running, At
      <4>7. \A e : Told(e)' = Told(e)
        BY <1>1, <1>6, <4>3 DEF Told
      <4>8. InTurn'
        BY <1>1, <2>1, <3>7, <4>1, <4>4, <4>5, <4>6, <4>7 DEF InTurn, At
      <4>9. OnTheWire'
        <5>1. conns'[b].out # <<>>
          BY <4>5
        <5>. QED
          BY <2>1, <5>1 DEF OnTheWire
      <4>10. Untouched'
        BY <1>1, <1>6, <1>11, <1>13, <2>1, <2>4, <4>3 DEF ClientInv, Untouched, At
      <4>. QED
        BY <4>8, <4>9, <4>10
    <3>. QED
      BY <3>1, <3>2, <3>5, <3>6, <3>7
  <2>. QED
    BY <2>3, <2>4
<1>. QED
  BY <1>5, <1>6, <1>8, <1>10, <1>12, <1>13 DEF ClientInv

\* The invariant holds first.
LEMMA ClientInitially == ClientInit => ClientInv
<1>. SUFFICES ASSUME ClientInit PROVE ClientInv
  OBVIOUS
<1>1. PICK connects \in BOOLEAN :
        /\ conns = IF connects THEN <<NewConn>> ELSE <<>>
        /\ cl = [pc |-> "idle", sock |-> Len(conns), connected |-> connects, tries |-> 0, asked |-> <<>>]
  BY DEF ClientInit
<1>2. calls = <<>> /\ breaks = 0 /\ DOMAIN calls = {} /\ Now = 0
  BY DEF ClientInit, Now
<1>3. NewConn \in Links
  BY EmptySeq DEF NewConn, Links
<1>4. /\ conns \in Seq(Links) /\ Len(conns) = (IF connects THEN 1 ELSE 0) /\ DOMAIN conns = 1..Len(conns)
      /\ \A c \in DOMAIN conns : c = 1 /\ conns[c] = NewConn
  <2>1. CASE connects
    BY <1>1, <1>3, <2>1
  <2>2. CASE ~connects
    BY <1>1, <2>2
  <2>. QED
    BY <2>1, <2>2
<1>5. \A c \in DOMAIN conns : DOMAIN conns[c].in = {} /\ conns[c].in = <<>> /\ conns[c].out = <<>>
  BY <1>4 DEF NewConn
<1>6. ClientType
  BY <1>1, <1>2, <1>4, EmptySeq DEF ClientType
<1>7. OneSocket /\ Running
  BY <1>1, <1>4 DEF OneSocket, Running, At
<1>8. Stamped /\ OnePlace
  BY <1>5 DEF Stamped, OnePlace
<1>9. Counted /\ Settled /\ Acknowledged
  BY <1>2 DEF Counted, Settled, Acknowledged
<1>10. cl.sock # 0 => cl.sock \in DOMAIN conns
  BY <1>1, <1>4
<1>11. InTurn /\ OnTheWire
  BY <1>1, <1>5, <1>10 DEF InTurn, OnTheWire, Conn, At
<1>12. Untouched
  BY <1>1, <1>2 DEF Untouched, At
<1>. QED
  BY <1>6, <1>7, <1>8, <1>9, <1>11, <1>12 DEF ClientInv

\* Every step keeps it.
LEMMA ClientStep == ClientInv /\ [ClientNext]_mongovars => ClientInv'
<1>. SUFFICES ASSUME ClientInv, [ClientNext]_mongovars PROVE ClientInv'
  OBVIOUS
<1>1. CASE TryInvalid
  BY <1>1, TryInvalidKeeps
<1>2. CASE Write
  BY <1>2, WriteKeeps
<1>3. CASE AskLastError
  BY <1>3, AskingKeeps DEF AskLastError
<1>4. CASE Query
  BY <1>4, AskingKeeps DEF Query
<1>5. CASE Answered
  BY <1>5, AnsweredKeeps
<1>6. CASE Unanswered
  BY <1>6, UnansweredKeeps
<1>7. CASE CheckUnconnected \/ NoPong
  BY <1>7, GivenUpKeeps
<1>8. CASE Ping
  BY <1>8, PingKeeps
<1>9. CASE Pong
  BY <1>9, PongKeeps
<1>10. CASE Reconnect
  BY <1>10, ReconnectKeeps
<1>11. CASE ReconnectFails
  BY <1>11, ReconnectFailsKeeps
<1>12. CASE Connect
  BY <1>12, ConnectKeeps
<1>13. ASSUME NEW kind \in Writes \cup Reads, NEW valid \in BOOLEAN, Begin(kind, valid) PROVE ClientInv'
  BY <1>13, BeginKeeps
<1>14. ASSUME NEW c \in DOMAIN conns, Serve(c) PROVE ClientInv'
  BY <1>14, ServeKeeps
<1>15. ASSUME NEW c \in DOMAIN conns, Break(c) PROVE ClientInv'
  BY <1>15, BreakKeeps
<1>16. CASE UNCHANGED mongovars
  <2>1. cl' = cl /\ conns' = conns /\ calls' = calls /\ breaks' = breaks
    BY <1>16 DEF mongovars
  <2>2. ClientType' /\ OneSocket' /\ Running'
    BY <2>1 DEF ClientInv, ClientType, OneSocket, Running, Conn, At, Now, Message
  <2>3. Stamped' /\ OnePlace'
    BY <2>1 DEF ClientInv, Stamped, OnePlace, At, Now
  <2>4. Counted'
    BY <2>1 DEF ClientInv, Counted, Carried, Tried, One, At, Now
  <2>5. InTurn' /\ OnTheWire' /\ Untouched'
    BY <2>1 DEF ClientInv, InTurn, OnTheWire, Untouched, Conn, At, Now, Message, Told
  <2>6. Settled' /\ Acknowledged'
    BY <2>1 DEF ClientInv, Settled, Acknowledged, OnTheWay
  <2>. QED
    BY <2>2, <2>3, <2>4, <2>5, <2>6 DEF ClientInv
<1>. QED
  BY <1>1, <1>2, <1>3, <1>4, <1>5, <1>6, <1>7, <1>8, <1>9, <1>10, <1>11, <1>12, <1>13, <1>14, <1>15,
     <1>16 DEF ClientNext, CallStep

\* The invariant of the calls holds in every state.
THEOREM ClientInvariance == ClientSpec => []ClientInv
<1>. QED
  BY ClientInitially, ClientStep, PTL DEF ClientSpec

\* Whatever breaks when: a write that returned true was applied, one that returned false on a
\* connection that answered was not and never will be, the retry applies a write a second time at
\* most, and every reply is taken for the request it answers.
THEOREM CallsAreRight == ClientSpec => []CallsRight
<1>1. ClientInv => CallsRight
  <2>. SUFFICES ASSUME ClientInv PROVE CallsRight
    OBVIOUS
  <2>1. Acknowledged /\ Settled
    BY DEF ClientInv
  <2>2. AtMostTwice
    <3>. SUFFICES ASSUME NEW i \in DOMAIN calls
                  PROVE  calls[i].applied <= IF calls[i].again THEN 2 ELSE 1
      BY DEF AtMostTwice
    <3>1. calls[i].applied + One(Carried(<<i, "write", 1>>)) + One(Carried(<<i, "write", 2>>)) <= Tried(i)
      BY DEF ClientInv, Counted
    <3>2. /\ One(Carried(<<i, "write", 1>>)) \in {0, 1} /\ One(Carried(<<i, "write", 2>>)) \in {0, 1}
          /\ One(i = Now /\ At("try")) \in {0, 1}
      BY DEF One
    <3>3. calls[i].applied \in Nat
      BY CallFacts DEF ClientInv
    <3>. QED
      BY <3>1, <3>2, <3>3 DEF Tried
  <2>3. InStep
    BY DEF ClientInv, InTurn, Running, InStep
  <2>. QED
    BY <2>1, <2>2, <2>3 DEF CallsRight
<1>. QED
  BY <1>1, ClientInvariance, PTL

-----------------------------------------------------------------------------
(* A result and its rows *)

\* A result that was opened.
Opened == [is : {"open", "freed"}, limit : Limits, from : Nat, num : Nat, id : BOOLEAN,
           seen : Nat, at : Nat, reply : {"held", "freed"}]

CursorType ==
  /\ rows \in Nat
  /\ cursor \in [is : {"none", "null", "destroyed"}] \cup Opened
  /\ live \in BOOLEAN /\ up \in BOOLEAN
  /\ fetched \in Seq(Nat)
  /\ memory \in {"sound", "reply freed twice", "freed reply read", "freed twice"}

\* The rows that were given are a front of the rows of the result.
RowsFront ==
  /\ \A k \in DOMAIN fetched : fetched[k] \in {0, k}
  /\ \A j, k \in DOMAIN fetched : j < k /\ fetched[j] = 0 => fetched[k] = 0

Reading == cursor.is = "open" /\ cursor.reply = "held"

\* Rows the program has been given of a result it reads.
Given == cursor.from + cursor.at

\* The reply that is read stands where the program is, the server knows what the client
\* knows of its cursor, and false was only said at the end.
Place == Reading =>
  /\ cursor.at <= cursor.num /\ cursor.seen = cursor.from + cursor.num
  /\ cursor.seen <= Wanted(cursor.limit)
  /\ live = cursor.id
  /\ ~cursor.id => cursor.seen = Wanted(cursor.limit)
  /\ Given <= Len(fetched)
  /\ \A k \in DOMAIN fetched : fetched[k] = 0 <=> k > Given
  /\ Given < Len(fetched) => Given = Wanted(cursor.limit)

\* Before there is a result no row was given; the reply is only lost with the connection, after false
\* was said; and a server that could be told has given up a destroyed result.
Parted ==
  /\ cursor.is = "none" => fetched = <<>>
  /\ cursor.is = "freed" => cursor.reply = "freed"
  /\ cursor.is \in {"open", "freed"} /\ cursor.reply = "freed" =>
       ~up /\ \E k \in DOMAIN fetched : fetched[k] = 0
  /\ cursor.is = "destroyed" /\ up => ~live
  /\ up => memory = "sound"

CursorInv == CursorType /\ RowsFront /\ Place /\ Parted

\* At most means less, or the same.
LEMMA AtMost == \A a, b \in Nat : a <= b => a = b \/ a < b
  OBVIOUS

\* Nothing is wanted beyond the rows or the limit.
LEMMA WantedBounds ==
  ASSUME CursorType, NEW limit \in Limits
  PROVE  /\ Wanted(limit) \in Nat /\ Wanted(limit) <= rows
         /\ limit # 0 => Wanted(limit) <= limit
<1>1. limit \in Nat /\ rows \in Nat
  BY CursorAssumption DEF CursorType
<1>. QED
  BY <1>1 DEF Wanted

\* The row that is given behind the others.
LEMMA GivenRow ==
  ASSUME CursorType, NEW row \in Nat, Gives(row)
  PROVE  /\ fetched' \in Seq(Nat) /\ Len(fetched) \in Nat /\ Len(fetched') = Len(fetched) + 1
         /\ DOMAIN fetched = 1..Len(fetched) /\ DOMAIN fetched' = 1..Len(fetched) + 1
         /\ \A k \in DOMAIN fetched : fetched'[k] = fetched[k]
         /\ fetched'[Len(fetched) + 1] = row
<1>1. fetched \in Seq(Nat) /\ fetched' = Append(fetched, row)
  BY DEF CursorType, Gives
<1>. QED
  BY <1>1, AppendProperties, LenProperties

\* Rows stay a front if the one that is given is the next one, and none was refused before, or is 0.
LEMMA FrontKept ==
  ASSUME CursorType, RowsFront, NEW row \in Nat, Gives(row),
         row # 0 => row = Len(fetched) + 1 /\ \A k \in DOMAIN fetched : fetched[k] # 0
  PROVE  RowsFront'
<1>1. /\ Len(fetched) \in Nat
      /\ DOMAIN fetched = 1..Len(fetched) /\ DOMAIN fetched' = 1..Len(fetched) + 1
      /\ \A k \in DOMAIN fetched : fetched'[k] = fetched[k]
      /\ fetched'[Len(fetched) + 1] = row
  BY GivenRow
<1>2. ASSUME NEW k \in DOMAIN fetched' PROVE fetched'[k] \in {0, k}
  <2>1. CASE k = Len(fetched) + 1
    BY <1>1, <2>1
  <2>2. CASE k # Len(fetched) + 1
    <3>1. k \in DOMAIN fetched
      BY <1>1, <2>2
    <3>. QED
      BY <1>1, <3>1 DEF RowsFront
  <2>. QED
    BY <2>1, <2>2
<1>3. ASSUME NEW j \in DOMAIN fetched', NEW k \in DOMAIN fetched', j < k, fetched'[j] = 0
      PROVE  fetched'[k] = 0
  <2>1. j \in DOMAIN fetched /\ fetched[j] = 0
    BY <1>1, <1>3
  <2>2. CASE k = Len(fetched) + 1
    BY <1>1, <2>1, <2>2
  <2>3. CASE k # Len(fetched) + 1
    <3>1. k \in DOMAIN fetched
      BY <1>1, <2>3
    <3>. QED
      BY <1>1, <1>3, <2>1, <3>1 DEF RowsFront
  <2>. QED
    BY <2>2, <2>3
<1>. QED
  BY <1>2, <1>3 DEF RowsFront

\* What may be cited of a result that is read.
LEMMA ReadingFacts ==
  ASSUME CursorInv, Reading
  PROVE  /\ cursor \in Opened /\ cursor.limit \in Limits /\ cursor.limit \in Nat
         /\ cursor.from \in Nat /\ cursor.num \in Nat /\ cursor.seen \in Nat /\ cursor.at \in Nat
         /\ cursor.id \in BOOLEAN /\ Wanted(cursor.limit) \in Nat
         /\ cursor.limit # 0 => Wanted(cursor.limit) <= cursor.limit
         /\ cursor.at <= cursor.num /\ cursor.seen = cursor.from + cursor.num
         /\ cursor.seen <= Wanted(cursor.limit)
         /\ live = cursor.id
         /\ ~cursor.id => cursor.seen = Wanted(cursor.limit)
         /\ Given <= Len(fetched)
         /\ \A k \in DOMAIN fetched : fetched[k] = 0 <=> k > Given
         /\ Given < Len(fetched) => Given = Wanted(cursor.limit)
<1>1. cursor \in Opened
  BY DEF CursorInv, CursorType, Reading
<1>2. cursor.limit \in Limits /\ cursor.limit \in Nat
  BY <1>1, CursorAssumption DEF Opened
<1>3. Wanted(cursor.limit) \in Nat /\ (cursor.limit # 0 => Wanted(cursor.limit) <= cursor.limit)
  BY <1>2, WantedBounds DEF CursorInv
<1>4. /\ cursor.from \in Nat /\ cursor.num \in Nat /\ cursor.seen \in Nat /\ cursor.at \in Nat
      /\ cursor.id \in BOOLEAN
  BY <1>1 DEF Opened
<1>. QED
  BY <1>1, <1>2, <1>3, <1>4 DEF CursorInv, Place

-----------------------------------------------------------------------------
(* What each call does with the rows *)

\* A find opens a result of which no row was given, or none.
LEMMA FindKeeps ==
  ASSUME CursorInv, NEW limit \in Limits, Find(limit)
  PROVE  CursorInv'
<1>1. cursor.is = "none" /\ fetched = <<>> /\ UNCHANGED <<rows, up, fetched, memory>>
  BY DEF Find, CursorInv, Parted
<1>2. CASE cursor' = [is |-> "null"] /\ UNCHANGED live
  <2>1. CursorType'
    BY <1>1, <1>2 DEF CursorInv, CursorType
  <2>2. RowsFront' /\ Place' /\ Parted'
    BY <1>1, <1>2 DEF CursorInv, RowsFront, Place, Reading, Parted
  <2>. QED
    BY <2>1, <2>2 DEF CursorInv
<1>3. CASE up /\ \E n \in 0..Wanted(limit) :
             /\ Batch(0, n, limit)
             /\ cursor' = [is |-> "open", limit |-> limit, from |-> 0, num |-> n, id |-> live',
                           seen |-> n, at |-> 0, reply |-> "held"]
  <2>1. Wanted(limit) \in Nat
    BY WantedBounds DEF CursorInv
  <2>2. PICK n \in 0..Wanted(limit) :
             /\ Batch(0, n, limit)
             /\ cursor' = [is |-> "open", limit |-> limit, from |-> 0, num |-> n, id |-> live',
                           seen |-> n, at |-> 0, reply |-> "held"]
    BY <1>3
  <2>3. /\ n \in Nat /\ n <= Wanted(limit) /\ live' \in BOOLEAN
        /\ ~live' => n = Wanted(limit)
    BY <2>1, <2>2 DEF Batch
  <2>4. cursor' \in Opened
    BY <2>2, <2>3 DEF Opened
  <2>5. CursorType'
    BY <1>1, <2>3, <2>4 DEF CursorInv, CursorType
  <2>6. Wanted(limit)' = Wanted(limit)
    BY <1>1 DEF Wanted
  <2>7. Place'
    BY <1>1, <2>1, <2>2, <2>3, <2>6 DEF Place, Reading, Given
  <2>8. RowsFront' /\ Parted'
    BY <1>1, <2>2 DEF CursorInv, RowsFront, Parted
  <2>. QED
    BY <2>5, <2>7, <2>8 DEF CursorInv
<1>. QED
  BY <1>2, <1>3 DEF Find

\* The next row of the reply.
LEMMA NextOfReplyKeeps ==
  ASSUME CursorInv, Reading, NextOfReply, UNCHANGED <<rows, up>>
  PROVE  CursorInv'
<1>1. /\ cursor \in Opened /\ cursor.limit \in Nat
      /\ cursor.from \in Nat /\ cursor.num \in Nat /\ cursor.seen \in Nat /\ cursor.at \in Nat
      /\ Wanted(cursor.limit) \in Nat
      /\ cursor.seen = cursor.from + cursor.num /\ cursor.seen <= Wanted(cursor.limit)
      /\ Given <= Len(fetched)
      /\ \A k \in DOMAIN fetched : fetched[k] = 0 <=> k > Given
      /\ Given < Len(fetched) => Given = Wanted(cursor.limit)
  BY ReadingFacts
<1>2. /\ cursor.at < cursor.num /\ cursor' = [cursor EXCEPT !.at = @ + 1]
      /\ Gives(cursor.from + cursor.at + 1) /\ UNCHANGED <<live, memory>>
  BY DEF NextOfReply
<1>3. /\ cursor' \in Opened
      /\ cursor'.is = cursor.is /\ cursor'.limit = cursor.limit /\ cursor'.from = cursor.from
      /\ cursor'.num = cursor.num /\ cursor'.seen = cursor.seen /\ cursor'.id = cursor.id
      /\ cursor'.reply = cursor.reply /\ cursor'.at = cursor.at + 1
  BY <1>1, <1>2 DEF Opened
<1>4. Given' = Given + 1 /\ Given \in Nat /\ cursor.from + cursor.at + 1 = Given + 1
  BY <1>1, <1>3 DEF Given
<1>5. Wanted(cursor.limit)' = Wanted(cursor.limit)
  BY <1>3 DEF Wanted
<1>6. /\ fetched' \in Seq(Nat) /\ Len(fetched) \in Nat /\ Len(fetched') = Len(fetched) + 1
      /\ DOMAIN fetched = 1..Len(fetched) /\ DOMAIN fetched' = 1..Len(fetched) + 1
      /\ \A k \in DOMAIN fetched : fetched'[k] = fetched[k]
      /\ fetched'[Len(fetched) + 1] = Given + 1
  BY <1>2, <1>4, GivenRow DEF CursorInv
<1>7. Given = Len(fetched)
  <2>1. Given < cursor.seen
    BY <1>1, <1>2 DEF Given
  <2>2. Given # Wanted(cursor.limit)
    BY <1>1, <1>4, <2>1
  <2>3. ~(Given < Len(fetched)) /\ Given <= Len(fetched)
    BY <1>1, <2>2
  <2>. QED
    BY <1>4, <1>6, <2>3, AtMost
<1>8. RowsFront'
  <2>1. \A k \in DOMAIN fetched : fetched[k] # 0
    BY <1>1, <1>6, <1>7
  <2>. QED
    BY <1>2, <1>4, <1>7, <2>1, FrontKept DEF CursorInv
<1>9. CursorType'
  BY <1>2, <1>3, <1>6 DEF CursorInv, CursorType
<1>10. Place'
  <2>1. ASSUME NEW k \in DOMAIN fetched' PROVE fetched'[k] = 0 <=> k > Given'
    <3>1. CASE k = Len(fetched) + 1
      BY <1>4, <1>6, <1>7, <3>1
    <3>2. CASE k # Len(fetched) + 1
      <4>1. k \in DOMAIN fetched
        BY <1>6, <3>2
      <4>. QED
        BY <1>1, <1>4, <1>6, <1>7, <4>1
    <3>. QED
      BY <3>1, <3>2
  <2>2. Given' = Len(fetched')
    BY <1>4, <1>6, <1>7
  <2>3. cursor'.at <= cursor'.num
    BY <1>1, <1>2, <1>3
  <2>4. live' = cursor'.id /\ (~cursor'.id => cursor'.seen = Wanted(cursor.limit)')
    BY <1>2, <1>3, <1>5, ReadingFacts
  <2>. QED
    BY <1>1, <1>3, <1>4, <1>5, <1>6, <2>1, <2>2, <2>3, <2>4 DEF Place
<1>11. Parted'
  <2>1. Reading /\ ~(cursor'.is \in {"none", "freed", "destroyed"}) /\ cursor'.reply = "held"
    BY <1>3 DEF Reading
  <2>. QED
    BY <1>2, <2>1 DEF CursorInv, Parted
<1>. QED
  BY <1>8, <1>9, <1>10, <1>11 DEF CursorInv

\* False at the end of the rows.
LEMMA NoMoreKeeps ==
  ASSUME CursorInv, Reading, NoMore, UNCHANGED <<rows, up>>
  PROVE  CursorInv'
<1>1. /\ cursor.limit \in Nat
      /\ cursor.from \in Nat /\ cursor.num \in Nat /\ cursor.seen \in Nat /\ cursor.at \in Nat
      /\ Wanted(cursor.limit) \in Nat
      /\ cursor.limit # 0 => Wanted(cursor.limit) <= cursor.limit
      /\ cursor.seen = cursor.from + cursor.num /\ cursor.seen <= Wanted(cursor.limit)
      /\ ~cursor.id => cursor.seen = Wanted(cursor.limit)
      /\ Given <= Len(fetched)
      /\ \A k \in DOMAIN fetched : fetched[k] = 0 <=> k > Given
  BY ReadingFacts
<1>2. cursor.at = cursor.num /\ Exhausted /\ Gives(0) /\ UNCHANGED <<cursor, live, memory>>
  BY DEF NoMore, AtEnd
<1>3. Given = Wanted(cursor.limit) /\ Given \in Nat
  BY <1>1, <1>2 DEF Given, Exhausted
<1>4. Given' = Given /\ Wanted(cursor.limit)' = Wanted(cursor.limit)
  BY <1>2 DEF Given, Wanted
<1>5. /\ fetched' \in Seq(Nat) /\ Len(fetched) \in Nat /\ Len(fetched') = Len(fetched) + 1
      /\ DOMAIN fetched = 1..Len(fetched) /\ DOMAIN fetched' = 1..Len(fetched) + 1
      /\ \A k \in DOMAIN fetched : fetched'[k] = fetched[k]
      /\ fetched'[Len(fetched) + 1] = 0
  BY <1>2, GivenRow DEF CursorInv
<1>6. RowsFront'
  BY <1>2, FrontKept DEF CursorInv
<1>7. CursorType'
  BY <1>2, <1>5 DEF CursorInv, CursorType
<1>8. Place'
  <2>1. ASSUME NEW k \in DOMAIN fetched' PROVE fetched'[k] = 0 <=> k > Given'
    <3>1. CASE k = Len(fetched) + 1
      BY <1>1, <1>3, <1>4, <1>5, <3>1
    <3>2. CASE k # Len(fetched) + 1
      <4>1. k \in DOMAIN fetched
        BY <1>5, <3>2
      <4>. QED
        BY <1>1, <1>4, <1>5, <4>1
    <3>. QED
      BY <3>1, <3>2
  <2>2. Given' <= Len(fetched')
    BY <1>1, <1>3, <1>4, <1>5
  <2>3. Reading
    OBVIOUS
  <2>. QED
    BY <1>2, <1>3, <1>4, <2>1, <2>2, <2>3, ReadingFacts DEF Place, Reading
<1>9. Parted'
  BY <1>2 DEF CursorInv, Parted, Reading
<1>. QED
  BY <1>6, <1>7, <1>8, <1>9 DEF CursorInv

\* Another batch: its first row, or false when it is empty.
LEMMA MoreKeeps ==
  ASSUME CursorInv, Reading, More, UNCHANGED <<rows, up>>
  PROVE  CursorInv'
<1>1. /\ cursor \in Opened /\ cursor.limit \in Nat
      /\ cursor.from \in Nat /\ cursor.num \in Nat /\ cursor.seen \in Nat /\ cursor.at \in Nat
      /\ Wanted(cursor.limit) \in Nat
      /\ cursor.seen = cursor.from + cursor.num /\ cursor.seen <= Wanted(cursor.limit)
      /\ Given <= Len(fetched)
      /\ \A k \in DOMAIN fetched : fetched[k] = 0 <=> k > Given
      /\ Given < Len(fetched) => Given = Wanted(cursor.limit)
  BY ReadingFacts
<1>2. PICK n \in 0..Wanted(cursor.limit) - cursor.seen :
       /\ Batch(cursor.seen, n, cursor.limit)
       /\ cursor' = [cursor EXCEPT !.from = cursor.seen, !.num = n, !.id = live',
                                   !.seen = @ + n, !.at = IF n = 0 THEN 0 ELSE 1]
       /\ Gives(IF n = 0 THEN 0 ELSE cursor.seen + 1)
  BY DEF More
<1>3. cursor.at = cursor.num /\ up /\ UNCHANGED memory
  BY DEF More, AtEnd
<1>4. /\ n \in Nat /\ cursor.seen + n <= Wanted(cursor.limit) /\ live' \in BOOLEAN
      /\ ~live' => cursor.seen + n = Wanted(cursor.limit)
      /\ n = 0 => cursor.seen = Wanted(cursor.limit)
  BY <1>1, <1>2 DEF Batch
<1>5. /\ cursor' \in Opened
      /\ cursor'.is = cursor.is /\ cursor'.limit = cursor.limit /\ cursor'.from = cursor.seen
      /\ cursor'.num = n /\ cursor'.seen = cursor.seen + n /\ cursor'.id = live'
      /\ cursor'.reply = cursor.reply /\ cursor'.at = IF n = 0 THEN 0 ELSE 1
  <2>1. cursor.seen + n \in Nat /\ (IF n = 0 THEN 0 ELSE 1) \in Nat
    BY <1>1, <1>4
  <2>. QED
    BY <1>1, <1>2, <1>4, <2>1 DEF Opened
<1>6. Given = cursor.seen /\ Given \in Nat /\ Wanted(cursor.limit)' = Wanted(cursor.limit)
  BY <1>1, <1>3, <1>5 DEF Given, Wanted
<1>7. PICK row \in Nat : row = IF n = 0 THEN 0 ELSE cursor.seen + 1
  BY <1>1
<1>8. Gives(row)
  BY <1>2, <1>7
<1>9. /\ fetched' \in Seq(Nat) /\ Len(fetched) \in Nat /\ Len(fetched') = Len(fetched) + 1
      /\ DOMAIN fetched = 1..Len(fetched) /\ DOMAIN fetched' = 1..Len(fetched) + 1
      /\ \A k \in DOMAIN fetched : fetched'[k] = fetched[k]
      /\ fetched'[Len(fetched) + 1] = row
  BY <1>8, GivenRow DEF CursorInv
<1>10. n # 0 => Given = Len(fetched)
  BY <1>1, <1>4, <1>6, <1>9
<1>11. RowsFront'
  <2>1. row # 0 => row = Len(fetched) + 1 /\ \A k \in DOMAIN fetched : fetched[k] # 0
    BY <1>1, <1>6, <1>7, <1>9, <1>10
  <2>. QED
    BY <1>8, <2>1, FrontKept DEF CursorInv
<1>12. CursorType'
  BY <1>3, <1>4, <1>5, <1>9 DEF CursorInv, CursorType
<1>13. Given' = IF n = 0 THEN Given ELSE Given + 1
  BY <1>1, <1>5, <1>6 DEF Given
<1>14. Place'
  <2>1. ASSUME NEW k \in DOMAIN fetched' PROVE fetched'[k] = 0 <=> k > Given'
    <3>1. CASE k = Len(fetched) + 1
      BY <1>1, <1>6, <1>7, <1>9, <1>10, <1>13, <3>1
    <3>2. CASE k # Len(fetched) + 1
      <4>1. k \in DOMAIN fetched
        BY <1>9, <3>2
      <4>2. k <= Len(fetched) /\ k \in Nat
        BY <1>9, <4>1
      <4>. QED
        BY <1>1, <1>6, <1>9, <1>10, <1>13, <4>1, <4>2
    <3>. QED
      BY <3>1, <3>2
  <2>2. Given' <= Len(fetched') /\ (Given' < Len(fetched') => Given' = Wanted(cursor.limit))
    BY <1>1, <1>4, <1>6, <1>9, <1>10, <1>13
  <2>3. cursor'.at <= cursor'.num
    BY <1>4, <1>5
  <2>. QED
    BY <1>1, <1>4, <1>5, <1>6, <2>1, <2>2, <2>3 DEF Place
<1>15. Parted'
  BY <1>3, <1>5 DEF CursorInv, Parted, Reading
<1>. QED
  BY <1>11, <1>12, <1>14, <1>15 DEF CursorInv

\* The request for more failed: false, and the reply is gone.
LEMMA MoreFailsKeeps ==
  ASSUME CursorInv, Reading, MoreFails, UNCHANGED <<rows, up>>
  PROVE  CursorInv'
<1>1. cursor \in Opened
  BY ReadingFacts
<1>2. /\ ~up /\ Gives(0) /\ UNCHANGED live
      /\ memory' \in {memory, "reply freed twice"}
      /\ cursor' \in Opened /\ cursor'.reply = "freed" /\ cursor'.is \in {"open", "freed"}
  BY <1>1 DEF MoreFails, Opened
<1>3. /\ fetched' \in Seq(Nat) /\ Len(fetched) \in Nat
      /\ DOMAIN fetched' = 1..Len(fetched) + 1
      /\ fetched'[Len(fetched) + 1] = 0
  BY <1>2, GivenRow DEF CursorInv
<1>4. CursorType'
  BY <1>2, <1>3 DEF CursorInv, CursorType
<1>5. RowsFront'
  BY <1>2, FrontKept DEF CursorInv
<1>6. Place'
  BY <1>2 DEF Place, Reading
<1>7. Parted'
  <2>1. Len(fetched) + 1 \in DOMAIN fetched'
    BY <1>3
  <2>. QED
    BY <1>2, <1>3, <2>1 DEF Parted
<1>. QED
  BY <1>4, <1>5, <1>6, <1>7 DEF CursorInv

\* False from what was freed.
LEMMA FetchFreedKeeps ==
  ASSUME CursorInv, FetchFreed
  PROVE  CursorInv'
<1>1. /\ cursor.is \in {"open", "freed"} /\ cursor.reply = "freed"
      /\ memory' = "freed reply read" /\ Gives(0) /\ UNCHANGED <<rows, cursor, live, up>>
  BY DEF FetchFreed
<1>2. ~up
  BY <1>1 DEF CursorInv, Parted
<1>3. /\ fetched' \in Seq(Nat) /\ Len(fetched) \in Nat
      /\ DOMAIN fetched' = 1..Len(fetched) + 1
      /\ fetched'[Len(fetched) + 1] = 0
  BY <1>1, GivenRow DEF CursorInv
<1>4. CursorType'
  BY <1>1, <1>3 DEF CursorInv, CursorType
<1>5. RowsFront'
  BY <1>1, FrontKept DEF CursorInv
<1>6. Place'
  BY <1>1 DEF Place, Reading
<1>7. Parted'
  <2>1. Len(fetched) + 1 \in DOMAIN fetched'
    BY <1>3
  <2>. QED
    BY <1>1, <1>2, <1>3, <2>1 DEF Parted
<1>. QED
  BY <1>4, <1>5, <1>6, <1>7 DEF CursorInv

\* A result is destroyed, with its cursor in the server if that can be told.
LEMMA DestroyKeeps ==
  ASSUME CursorInv, Destroy
  PROVE  CursorInv'
<1>1. /\ cursor.is \in {"open", "freed"} /\ cursor' = [is |-> "destroyed"]
      /\ live' = (live /\ ~(cursor.is = "open" /\ cursor.reply = "held" /\ cursor.id /\ up))
      /\ memory' = (IF cursor.reply = "held" THEN memory ELSE "freed twice")
      /\ UNCHANGED <<rows, up, fetched>>
  BY DEF Destroy
<1>2. cursor \in Opened
  BY <1>1 DEF CursorInv, CursorType
<1>3. cursor.reply \in {"held", "freed"}
  BY <1>2 DEF Opened
<1>4. up => Reading
  BY <1>1, <1>3 DEF CursorInv, Parted, Reading
<1>5. up => ~live'
  <2>1. Reading => live = cursor.id
    BY DEF CursorInv, Place
  <2>. QED
    BY <1>1, <1>4, <2>1 DEF Reading
<1>6. CursorType'
  BY <1>1 DEF CursorInv, CursorType
<1>7. RowsFront' /\ Place'
  BY <1>1 DEF CursorInv, RowsFront, Place, Reading
<1>8. up' => memory' = "sound"
  BY <1>1, <1>4 DEF CursorInv, Parted, Reading
<1>9. Parted'
  BY <1>1, <1>5, <1>8 DEF Parted
<1>. QED
  BY <1>6, <1>7, <1>9 DEF CursorInv

\* The connection breaks.
LEMMA BreakOffKeeps ==
  ASSUME CursorInv, BreakOff
  PROVE  CursorInv'
<1>1. ~up' /\ up' \in BOOLEAN /\ UNCHANGED <<rows, cursor, live, fetched, memory>>
  BY DEF BreakOff
<1>2. CursorType' /\ RowsFront'
  BY <1>1 DEF CursorInv, CursorType, RowsFront
<1>3. Wanted(cursor.limit)' = Wanted(cursor.limit) /\ Given' = Given
  BY <1>1 DEF Wanted, Given
<1>4. Place'
  BY <1>1, <1>3 DEF CursorInv, Place, Reading
<1>5. Parted'
  BY <1>1 DEF CursorInv, Parted
<1>. QED
  BY <1>2, <1>4, <1>5 DEF CursorInv

\* The invariant of a result holds in every state.
THEOREM CursorInvariance == CursorSpec => []CursorInv
<1>1. CursorInit => CursorInv
  <2>. SUFFICES ASSUME CursorInit PROVE CursorInv
    OBVIOUS
  <2>1. CursorType
    <3>1. rows \in Nat
      BY CursorAssumption DEF CursorInit
    <3>2. fetched \in Seq(Nat)
      BY DEF CursorInit
    <3>. QED
      BY <3>1, <3>2 DEF CursorInit, CursorType
  <2>2. RowsFront /\ Place /\ Parted
    BY DEF CursorInit, RowsFront, Place, Reading, Parted
  <2>. QED
    BY <2>1, <2>2 DEF CursorInv
<1>2. CursorInv /\ [CursorNext]_cursorvars => CursorInv'
  <2>. SUFFICES ASSUME CursorInv, [CursorNext]_cursorvars PROVE CursorInv'
    OBVIOUS
  <2>1. ASSUME NEW limit \in Limits, Find(limit) PROVE CursorInv'
    BY <2>1, FindKeeps
  <2>2. CASE FetchRow
    <3>1. Reading /\ UNCHANGED <<rows, up>>
      BY <2>2 DEF FetchRow, Reading
    <3>2. CASE NextOfReply
      BY <3>1, <3>2, NextOfReplyKeeps
    <3>3. CASE NoMore
      BY <3>1, <3>3, NoMoreKeeps
    <3>4. CASE More
      BY <3>1, <3>4, MoreKeeps
    <3>5. CASE MoreFails
      BY <3>1, <3>5, MoreFailsKeeps
    <3>. QED
      BY <2>2, <3>2, <3>3, <3>4, <3>5 DEF FetchRow
  <2>3. CASE FetchFreed
    BY <2>3, FetchFreedKeeps
  <2>4. CASE Destroy
    BY <2>4, DestroyKeeps
  <2>5. CASE BreakOff
    BY <2>5, BreakOffKeeps
  <2>6. CASE UNCHANGED cursorvars
    BY <2>6 DEF cursorvars, CursorInv, CursorType, RowsFront, Place, Parted, Reading, Given, Wanted
  <2>. QED
    BY <2>1, <2>2, <2>3, <2>4, <2>5, <2>6 DEF CursorNext
<1>. QED
  BY <1>1, <1>2, PTL DEF CursorSpec

\* fetchRow gives the rows of a result in their order, each once and up to the limit, says false
\* only behind the last of them or without a connection, and no live connection leaves a cursor
\* behind or memory in disorder: however the server cuts the batches.
THEOREM RowsInOrder == CursorSpec => []RowsRight
<1>1. CursorInv => RowsRight
  <2>. SUFFICES ASSUME CursorInv PROVE RowsRight
    OBVIOUS
  <2> DEFINE given == {k \in DOMAIN fetched : fetched[k] /= 0}
  <2>1. DOMAIN fetched = 1..Len(fetched) /\ Len(fetched) \in Nat
    BY LenProperties DEF CursorInv, CursorType
  <2>2. \A k \in given : fetched[k] = k
    BY DEF CursorInv, RowsFront
  <2>3. ASSUME cursor.is = "open"
        PROVE  /\ Len(fetched) <= Wanted(cursor.limit) \/ 0 \in {fetched[k] : k \in DOMAIN fetched}
               /\ up /\ (\E k \in DOMAIN fetched : fetched[k] = 0) => given = 1..Wanted(cursor.limit)
    <3>1. cursor \in Opened
      BY <2>3 DEF CursorInv, CursorType
    <3>2. CASE cursor.reply = "freed"
      <4>1. ~up /\ \E k \in DOMAIN fetched : fetched[k] = 0
        BY <2>3, <3>2 DEF CursorInv, Parted
      <4>. QED
        BY <4>1
    <3>3. CASE cursor.reply = "held"
      <4>1. /\ Wanted(cursor.limit) \in Nat /\ Given <= Len(fetched)
            /\ cursor.from \in Nat /\ cursor.at \in Nat /\ cursor.num \in Nat
            /\ cursor.at <= cursor.num /\ cursor.seen = cursor.from + cursor.num
            /\ cursor.seen <= Wanted(cursor.limit)
            /\ \A k \in DOMAIN fetched : fetched[k] = 0 <=> k > Given
            /\ Given < Len(fetched) => Given = Wanted(cursor.limit)
        BY <2>3, <3>3, ReadingFacts DEF Reading
      <4>2. Given \in Nat /\ Given <= Wanted(cursor.limit)
        BY <4>1 DEF Given
      <4>3. CASE Len(fetched) = Given
        <5>1. ~\E k \in DOMAIN fetched : fetched[k] = 0
          BY <2>1, <4>1, <4>2, <4>3
        <5>. QED
          BY <4>2, <4>3, <5>1
      <4>4. CASE Given < Len(fetched)
        <5>1. Len(fetched) \in DOMAIN fetched /\ fetched[Len(fetched)] = 0
          BY <2>1, <4>1, <4>2, <4>4
        <5>2. given = 1..Given
          BY <2>1, <4>1, <4>2
        <5>3. 0 \in {fetched[k] : k \in DOMAIN fetched}
          BY <5>1
        <5>. QED
          BY <4>1, <4>4, <5>2, <5>3
      <4>5. Len(fetched) = Given \/ Given < Len(fetched)
        BY <2>1, <4>1, <4>2, AtMost
      <4>. QED
        BY <4>3, <4>4, <4>5
    <3>. QED
      BY <3>1, <3>2, <3>3 DEF Opened
  <2>4. (up => memory = "sound") /\ (cursor.is = "destroyed" /\ up => ~live)
    BY DEF CursorInv, Parted
  <2>. QED
    BY <2>2, <2>3, <2>4 DEF RowsRight
<1>. QED
  BY <1>1, CursorInvariance, PTL

-----------------------------------------------------------------------------
(* The search of a replica set *)

SetMembers == {Members[i] : i \in DOMAIN Members}
SeedsAway == {Seeds[i] : i \in DOMAIN Seeds} \subseteq away

\* Where a call is.
Searches == [pc : {"idle", "seeds", "hosts"}, node : Nat, sock : Nat, connected : BOOLEAN,
             primary : BOOLEAN, hosts : Seq(Hosts), err : {"none", "noPrimary", "badSetName"}]

SetType ==
  /\ rs \in Searches
  /\ IsFiniteSet(DOMAIN open)
  /\ master \in SetMembers
  /\ lucky \in BOOLEAN
  /\ made \in Nat

\* A search, and one that found nothing, has nothing of an earlier one but the list of hosts.
Clean ==
  /\ rs.pc # "idle" => rs.err = "none" /\ made > 0
  /\ rs.pc # "idle" \/ rs.err = "noPrimary" \/ made = 0 =>
       rs.sock = 0 /\ ~rs.connected /\ ~rs.primary

\* If nothing failed or changed, the hosts that were asked could not be had or are not the master,
\* and the list has all members unless no seed could be had.
Asked == lucky =>
  /\ rs.pc = "seeds" => rs.node >= 1 /\ \A i \in DOMAIN Seeds : i < rs.node => Seeds[i] \in away
  /\ rs.pc = "hosts" =>
       /\ rs.node >= 1
       /\ SeedsAway \/ \A h \in SetMembers : \E i \in DOMAIN rs.hosts : rs.hosts[i] = h
       /\ \A i \in DOMAIN rs.hosts :
            i < rs.node => rs.hosts[i] # master \/ rs.hosts[i] \in away \cup Strangers

ReplicaInv == SetType /\ Clean /\ Asked /\ ReplicaRight

\* A new socket is a number no open one has.
LEMMA NewSocketIsNew ==
  ASSUME IsFiniteSet(DOMAIN open)
  PROVE  NewSocket \in Nat /\ NewSocket \notin DOMAIN open
<1>. DEFINE n == Cardinality(DOMAIN open)
<1>1. n \in Nat
  BY FS_CardinalityType
<1>2. IsFiniteSet(1..n + 1) /\ Cardinality(1..n + 1) = n + 1
  BY <1>1, FS_Interval
<1>3. ~(1..n + 1 \subseteq DOMAIN open)
  BY <1>1, <1>2, FS_Subset
<1>4. PICK s \in 1..n + 1 : s \notin DOMAIN open
  BY <1>3
<1>. QED
  BY <1>1, <1>4 DEF NewSocket

\* The members are hosts.
LEMMA SetFacts == /\ Len(Seeds) \in Nat /\ DOMAIN Seeds = 1..Len(Seeds)
                  /\ Len(Members) \in Nat /\ DOMAIN Members = 1..Len(Members)
  BY ReplicaAssumption, LenProperties

\* A connection to a host: the sockets, and what remains open.
LEMMA WithFacts ==
  ASSUME IsFiniteSet(DOMAIN open), NEW host
  PROVE  /\ IsFiniteSet(DOMAIN With(host))
         /\ NewSocket \in DOMAIN With(host) /\ With(host)[NewSocket] = host
<1>1. DOMAIN With(host) = DOMAIN open \cup {NewSocket}
  BY DEF With
<1>2. IsFiniteSet(DOMAIN open \cup {NewSocket})
  BY FS_AddElement
<1>3. NewSocket \in DOMAIN With(host) /\ With(host)[NewSocket] = host
  BY DEF With
<1>. QED
  BY <1>1, <1>2, <1>3

\* The invariant holds at the beginning.
LEMMA ReplicaInvInit == ReplicaInit => ReplicaInv
<1>. SUFFICES ASSUME ReplicaInit PROVE ReplicaInv
  OBVIOUS
<1>1. rs.hosts = <<>> /\ <<>> \in Seq(Hosts)
  BY EmptySeq DEF ReplicaInit
<1>2. DOMAIN open = {}
  BY DEF ReplicaInit
<1>3. SetType
  BY <1>1, <1>2, FS_EmptySet DEF ReplicaInit, SetType, Searches, SetMembers
<1>4. Clean /\ Asked /\ ReplicaRight
  BY DEF ReplicaInit, Clean, Asked, ReplicaRight, Came
<1>. QED
  BY <1>3, <1>4 DEF ReplicaInv

\* A call begins with the first seed and without a socket.
LEMMA SearchBegins ==
  ASSUME ReplicaInv, NEW hosts \in Seq(Hosts), Begins(hosts, FALSE), IsFiniteSet(DOMAIN open')
  PROVE  ReplicaInv'
<1>1. /\ rs' \in Searches
      /\ rs'.pc = "seeds" /\ rs'.node = 1 /\ rs'.sock = 0 /\ rs'.connected = FALSE
      /\ rs'.primary = FALSE /\ rs'.err = "none" /\ made \in Nat
      /\ lucky' = TRUE /\ made' = made + 1 /\ master' = master /\ away' = away
  BY DEF ReplicaInv, SetType, Searches, Begins
<1>2. SetType'
  BY <1>1 DEF ReplicaInv, SetType
<1>3. Clean' /\ ReplicaRight'
  BY <1>1 DEF Clean, ReplicaRight, Came
<1>4. \A i \in DOMAIN Seeds : ~(i < 1)
  BY SetFacts
<1>5. Asked'
  BY <1>1, <1>4 DEF Asked
<1>. QED
  BY <1>2, <1>3, <1>5 DEF ReplicaInv

\* The next seed or host is asked, with what is known of the last.
LEMMA NextKeeps ==
  ASSUME ReplicaInv, rs.pc # "idle", rs' = [rs EXCEPT !.node = @ + 1], lucky' => lucky,
         lucky' \in BOOLEAN, UNCHANGED <<open, master, away, made, turns>>,
         lucky' /\ rs.pc = "seeds" => Seeds[rs.node] \in away,
         lucky' /\ rs.pc = "hosts" =>
           rs.hosts[rs.node] # master \/ rs.hosts[rs.node] \in away \cup Strangers
  PROVE  ReplicaInv'
<1>1. /\ rs' \in Searches
      /\ rs'.pc = rs.pc /\ rs.node \in Nat /\ rs'.node = rs.node + 1 /\ rs'.sock = rs.sock
      /\ rs'.connected = rs.connected /\ rs'.primary = rs.primary /\ rs'.hosts = rs.hosts
      /\ rs'.err = rs.err
  BY DEF ReplicaInv, SetType, Searches
<1>2. SetType'
  BY <1>1 DEF ReplicaInv, SetType, Searches
<1>3. Clean' /\ ReplicaRight'
  BY <1>1 DEF ReplicaInv, Clean, ReplicaRight, Came
<1>4. Asked'
  <2>. SUFFICES ASSUME lucky' PROVE Asked'
    BY DEF Asked
  <2>1. ASSUME rs.pc = "seeds", NEW i \in DOMAIN Seeds, i < rs.node + 1 PROVE Seeds[i] \in away
    <3>1. i < rs.node \/ i = rs.node
      BY <1>1, <2>1, SetFacts
    <3>. QED
      BY <2>1, <3>1 DEF ReplicaInv, Asked
  <2>2. ASSUME rs.pc = "hosts", NEW i \in DOMAIN rs.hosts, i < rs.node + 1
        PROVE  rs.hosts[i] # master \/ rs.hosts[i] \in away \cup Strangers
    <3>1. DOMAIN rs.hosts = 1..Len(rs.hosts) /\ Len(rs.hosts) \in Nat
      BY LenProperties DEF ReplicaInv, SetType, Searches
    <3>2. i < rs.node \/ i = rs.node
      BY <1>1, <2>2, <3>1
    <3>. QED
      BY <2>2, <3>2 DEF ReplicaInv, Asked
  <2>. QED
    BY <1>1, <2>1, <2>2 DEF ReplicaInv, Asked, SeedsAway
<1>. QED
  BY <1>2, <1>3, <1>4 DEF ReplicaInv

\* After the seeds come the hosts: all the members, or those of the last time if no seed can be had.
LEMMA HostsKeep ==
  ASSUME ReplicaInv, rs.pc = "seeds", NEW list \in Seq(Hosts),
         rs' = [rs EXCEPT !.hosts = list, !.pc = "hosts", !.node = 1],
         UNCHANGED <<open, master, away, lucky, made, turns>>,
         lucky => SeedsAway \/ \A h \in SetMembers : \E i \in DOMAIN list : list[i] = h
  PROVE  ReplicaInv'
<1>1. /\ rs' \in Searches
      /\ rs'.pc = "hosts" /\ rs'.node = 1 /\ rs'.sock = rs.sock
      /\ rs'.connected = rs.connected /\ rs'.primary = rs.primary /\ rs'.hosts = list
  BY DEF ReplicaInv, SetType, Searches
<1>2. SetType'
  BY <1>1 DEF ReplicaInv, SetType, Searches
<1>3. Clean' /\ ReplicaRight'
  BY <1>1 DEF ReplicaInv, Clean, ReplicaRight, Came
<1>4. DOMAIN list = 1..Len(list) /\ Len(list) \in Nat
  BY LenProperties
<1>5. \A i \in DOMAIN list : ~(i < 1)
  BY <1>4
<1>6. Asked'
  BY <1>1, <1>5 DEF Asked, SeedsAway
<1>. QED
  BY <1>2, <1>3, <1>6 DEF ReplicaInv

\* The call ends without a primary.
LEMMA NoPrimaryKeeps ==
  ASSUME ReplicaInv, rs.pc # "idle", NoPrimary,
         lucky => master \in away \cup Strangers \/ SeedsAway
  PROVE  ReplicaInv'
<1>1. /\ rs' \in Searches
      /\ rs'.pc = "idle" /\ rs'.sock = rs.sock /\ rs'.err = "noPrimary"
      /\ rs'.connected = rs.connected /\ rs'.primary = rs.primary
      /\ UNCHANGED <<open, master, away, lucky, made>>
  BY DEF ReplicaInv, SetType, Searches, NoPrimary
<1>2. SetType'
  BY <1>1 DEF ReplicaInv, SetType, Searches
<1>3. rs.sock = 0 /\ ~rs.connected /\ ~rs.primary
  BY DEF ReplicaInv, Clean
<1>4. Clean' /\ Asked'
  BY <1>1, <1>3 DEF Clean, Asked
<1>5. ReplicaRight'
  BY <1>1, <1>3 DEF ReplicaRight, Came, SeedsAway
<1>. QED
  BY <1>2, <1>4, <1>5 DEF ReplicaInv

\* Every step keeps the invariant.
LEMMA ReplicaInvNext == ReplicaInv /\ [ReplicaNext]_setvars => ReplicaInv'
<1>. SUFFICES ASSUME ReplicaInv, [ReplicaNext]_setvars PROVE ReplicaInv'
  OBVIOUS
<1>. USE DEF ReplicaInv
<1>1. rs.hosts \in Seq(Hosts) /\ rs.node \in Nat /\ IsFiniteSet(DOMAIN open) /\ master \in SetMembers
  BY DEF SetType, Searches
<1>2. Len(rs.hosts) \in Nat /\ DOMAIN rs.hosts = 1..Len(rs.hosts)
  BY <1>1, LenProperties
<1>3. CASE ConnectSet
  <2>1. made = 0 \/ rs.err = "noPrimary"
    BY <1>3 DEF ConnectSet, SetType
  <2>2. ~rs.primary
    BY <2>1 DEF Clean
  <2>3. rs.primary = FALSE
    BY <2>2 DEF SetType, Searches
  <2>4. Begins(rs.hosts, FALSE) /\ open' = open
    BY <1>3, <2>3 DEF ConnectSet
  <2>. QED
    BY <1>1, <2>4, SearchBegins
<1>4. CASE ReconnectSet
  <2>1. IsFiniteSet(DOMAIN open')
    <3>1. DOMAIN Without(rs.sock) = DOMAIN open \ {rs.sock}
      BY DEF Without
    <3>2. IsFiniteSet(DOMAIN open \ {rs.sock})
      BY <1>1, FS_RemoveElement
    <3>. QED
      BY <1>1, <1>4, <3>1, <3>2 DEF ReconnectSet
  <2>2. <<>> \in Seq(Hosts)
    BY EmptySeq
  <2>. QED
    BY <1>4, <2>1, <2>2, SearchBegins DEF ReconnectSet
<1>5. CASE SeedFails
  BY <1>5, NextKeeps DEF SeedFails, Facing, Node, SetType, Searches
<1>6. CASE SeedAnswers
  <2>. DEFINE list == rs.hosts \o Members
  <2>1. list \in Seq(Hosts) /\ Len(list) = Len(rs.hosts) + Len(Members)
    BY <1>1, ReplicaAssumption, ConcatProperties
  <2>2. ASSUME NEW h \in SetMembers PROVE \E i \in DOMAIN list : list[i] = h
    <3>1. PICK j \in DOMAIN Members : Members[j] = h
      BY DEF SetMembers
    <3>2. j \in 1..Len(Members) /\ Len(rs.hosts) + j \in 1..Len(rs.hosts) + Len(Members)
      BY <1>2, <3>1, SetFacts
    <3>3. list[Len(rs.hosts) + j] = Members[j]
      BY <1>1, <1>2, <3>2, ReplicaAssumption, SetFacts, ConcatProperties
    <3>4. DOMAIN list = 1..Len(rs.hosts) + Len(Members)
      BY <2>1, LenProperties
    <3>. QED
      BY <3>1, <3>2, <3>3, <3>4
  <2>3. rs.pc = "seeds" /\ UNCHANGED <<open, master, away, lucky, made, turns>>
        /\ rs' = [rs EXCEPT !.hosts = list, !.pc = "hosts", !.node = 1]
    BY <1>6 DEF SeedAnswers, Facing
  <2>. HIDE DEF list
  <2>. QED
    BY <2>1, <2>2, <2>3, HostsKeep
<1>7. ASSUME rs.pc = "seeds", rs.node > Len(Seeds), lucky PROVE SeedsAway
  <2>1. ASSUME NEW i \in DOMAIN Seeds PROVE Seeds[i] \in away
    <3>1. i < rs.node
      BY <1>1, <1>7, SetFacts
    <3>. QED
      BY <1>7, <3>1 DEF Asked
  <2>. QED
    BY <2>1 DEF SeedsAway
<1>8. CASE SeedsOver
  BY <1>7, <1>8, NoPrimaryKeeps DEF SeedsOver
<1>9. CASE OldHosts
  <2>1. rs' = [rs EXCEPT !.hosts = rs.hosts, !.pc = "hosts", !.node = 1]
    BY <1>9 DEF OldHosts, SetType, Searches
  <2>. QED
    BY <1>1, <1>7, <1>9, <2>1, HostsKeep DEF OldHosts
<1>10. CASE HostFails
  BY <1>10, NextKeeps DEF HostFails, Facing, Node, SetType, Searches
<1>11. CASE NotMaster
  BY <1>11, NextKeeps DEF NotMaster, Facing, Node, SetType, Searches
<1>12. CASE HostsOver
  <2>1. ASSUME lucky, ~SeedsAway PROVE master \in away \cup Strangers
    <3>1. rs.pc = "hosts" /\ rs.node > Len(rs.hosts)
      BY <1>12 DEF HostsOver
    <3>2. PICK i \in DOMAIN rs.hosts : rs.hosts[i] = master
      BY <1>1, <2>1, <3>1 DEF Asked
    <3>3. i < rs.node
      BY <1>1, <1>2, <3>1, <3>2
    <3>. QED
      BY <2>1, <3>1, <3>2, <3>3 DEF Asked
  <2>. QED
    BY <1>12, <2>1, NoPrimaryKeeps DEF HostsOver
<1>13. ASSUME rs.pc = "hosts", NEW host, NEW err \in {"none", "badSetName"}, NEW found \in BOOLEAN,
              rs' = [rs EXCEPT !.pc = "idle", !.err = err, !.primary = found,
                               !.sock = NewSocket, !.connected = TRUE],
              open' = With(host), UNCHANGED <<master, away, lucky, made, turns>>,
              err = "none" => host = master /\ host \notin Strangers
       PROVE  ReplicaInv'
  <2>1. NewSocket \in Nat
    BY <1>1, NewSocketIsNew
  <2>2. /\ rs' \in Searches
        /\ rs'.pc = "idle" /\ rs'.err = err /\ rs'.sock = NewSocket
    BY <1>13, <2>1 DEF SetType, Searches
  <2>3. IsFiniteSet(DOMAIN open') /\ NewSocket \in DOMAIN open' /\ open'[NewSocket] = host
    BY <1>1, <1>13, WithFacts
  <2>4. SetType'
    BY <1>13, <2>2, <2>3 DEF SetType, Searches
  <2>5. made' > 0 /\ made' \in Nat /\ rs'.err # "noPrimary"
    BY <1>13, <2>2 DEF Clean, SetType
  <2>6. Clean' /\ Asked'
    BY <2>2, <2>5 DEF Clean, Asked
  <2>7. ReplicaRight'
    BY <1>13, <2>2, <2>3, <2>5 DEF ReplicaRight, Came
  <2>. QED
    BY <2>4, <2>6, <2>7
<1>14. CASE BadSetName
  BY <1>13, <1>14 DEF BadSetName, Facing, Clean, SetType, Searches
<1>15. CASE Found
  BY <1>13, <1>15 DEF Found, Facing, Clean, SetType, Searches
<1>16. CASE BreakSet
  <2>1. /\ rs' \in Searches
        /\ rs'.pc = "idle" /\ rs.pc = "idle" /\ rs'.sock = rs.sock /\ rs'.connected = FALSE
        /\ rs'.primary = rs.primary /\ rs'.err = rs.err
    BY <1>16 DEF BreakSet, SetType, Searches
  <2>2. SetType'
    BY <1>16, <2>1 DEF BreakSet, SetType, Searches
  <2>. QED
    BY <1>16, <2>1, <2>2 DEF BreakSet, Clean, Asked, ReplicaRight, Came
<1>17. ASSUME UNCHANGED <<rs, open, made>>, lucky' = FALSE, master' \in SetMembers PROVE ReplicaInv'
  <2>1. SetType' /\ Clean' /\ Asked'
    BY <1>17 DEF SetType, Searches, SetMembers, Clean, Asked
  <2>. QED
    BY <1>17, <2>1 DEF ReplicaRight, Came
<1>18. CASE \E h \in Hosts : Election(h) \/ GoesDown(h) \/ ComesBack(h)
  BY <1>1, <1>17, <1>18 DEF Election, GoesDown, ComesBack, Turns, SetMembers
<1>19. CASE UNCHANGED setvars
  BY <1>19 DEF setvars, SetType, Searches, SetMembers, SeedsAway, Clean, Asked, ReplicaRight, Came
<1>. QED
  BY <1>3, <1>4, <1>5, <1>6, <1>8, <1>9, <1>10, <1>11, <1>12, <1>14, <1>15, <1>16, <1>18, <1>19
     DEF ReplicaNext, SearchStep

\* mongo_replica_set_client: what a search knows of those it asked, and what it holds when it ends.
THEOREM ReplicaInvariance == ReplicaSpec => []ReplicaInv
<1>. QED
  BY ReplicaInvInit, ReplicaInvNext, PTL DEF ReplicaSpec

\* A search that succeeds is connected to a host of the set, the master if nothing changed on its
\* way, and one that found no primary holds no socket, and is right if nothing failed or changed:
\* the master or the seeds cannot be had (mongo_replica_set_client, mongo_reconnect).
THEOREM SearchIsRight == ReplicaSpec => []ReplicaRight
<1>1. ReplicaInv => ReplicaRight
  BY DEF ReplicaInv
<1>. QED
  BY <1>1, ReplicaInvariance, PTL
==============================================================================
