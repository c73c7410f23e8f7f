----------------------------- MODULE MCReactor -----------------------------
(***************************************************************************)
(* Instances of Delivery (and with it Reactor) for TLC.  Sizes are in      *)
(* cells; requests and long texts have two, so that reads, sends and       *)
(* limits fall between the cells of one message.                           *)
(***************************************************************************)
EXTENDS Delivery, TLC

CONSTANTS c1, c2, c3

MCSize == [k \in Kinds |-> IF k \in {"hello", "long"} THEN 2 ELSE 1]

ClientSymmetry == Permutations(Clients)

\* Two clients that may do everything, twice.
AnyMay == [c \in Clients |-> {"hello", "badHello", "text", "close", "broken", "fin", "rst"}]
AnySends == [c \in Clients |-> 2]

\* c1 talks, and may go on behind a Close; c2 listens and may leave.
TalkMay == (c1 :> {"hello", "text", "long", "ping", "close"}) @@ (c2 :> {"hello", "fin"})
TalkSends == (c1 :> 3) @@ (c2 :> 1)

\* Three clients and two descriptors: c1 talks or asks, c2 leaves, c3 comes
\* and talks.
CrowdMay == (c1 :> {"hello", "text", "ping"}) @@ (c2 :> {"hello", "fin"}) @@ (c3 :> {"hello", "text"})
CrowdSends == (c1 :> 2) @@ (c2 :> 1) @@ (c3 :> 2)

\* For progress: one client that stays or closes, one that may end its connection.
CalmMay == (c1 :> {"hello", "text", "close"}) @@ (c2 :> {"hello", "ping", "fin", "rst"})
CalmSends == (c1 :> 2) @@ (c2 :> 2)

\* One client that never stops sending, one that says a text and leaves.
BusyMay == (c1 :> {"hello", "ping", "other"})
BusySends == (c1 :> 2)
PartingMay == (c1 :> {"hello", "text", "fin"})

\* More clients than descriptors, all of whom may leave.
QueueMay == [c \in Clients |-> {"hello", "other", "fin", "rst"}]
QueueSends == [c \in Clients |-> 1]
=============================================================================
