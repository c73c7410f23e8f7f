------------------------------ MODULE ChatRoom ------------------------------
(***************************************************************************)
(* What the reactor promises its clients, without sockets, buffers or      *)
(* events: a room.  Each member has one feed, the stream of everything the *)
(* room says to it, which begins with a welcome, only grows at its end,    *)
(* and is handed over piece by piece.  What a member says is put at the    *)
(* end of the feed of every member, the speaker included, in one step: all *)
(* feeds tell the same story in the same order.  A member for whom         *)
(* something was left out is marked, and nobody leaves before the marked.  *)
(***************************************************************************)
EXTENDS Naturals, Sequences

CONSTANTS
  People,
  Public,           \* what is said to all; each has a field "from"
  Private,          \* what the room answers to u.from alone
  Welcome(_),       \* the first utterance in somebody's feed
  Pieces(_)         \* the pieces an utterance is handed over in

VARIABLES
  members,   \* those in the room
  feed,      \* feed[p]: everything said to p, in pieces
  passed,    \* passed[p]: how many pieces of its feed p was given
  marked     \* those for whom something was left out

room == <<members, feed, passed, marked>>

RoomInit ==
  /\ members = {}
  /\ feed = [p \in People |-> <<>>]
  /\ passed = [p \in People |-> 0]
  /\ marked = {}

\* u goes to the members in S, but for some, who are marked.
Tell(S, u) ==
  \E left \in SUBSET S :
    /\ feed' = [p \in People |-> IF p \in S \ left THEN feed[p] \o Pieces(u) ELSE feed[p]]
    /\ marked' = marked \cup left
    /\ passed' = passed

Join(p) ==
  /\ p \notin members \cup marked
  /\ feed[p] = <<>>
  /\ members' = members \cup {p}
  /\ feed' = [feed EXCEPT ![p] = Pieces(Welcome(p))]
  /\ UNCHANGED <<passed, marked>>

\* u.from speaks to everybody, itself included; nobody is passed over unmarked.
Say(u) ==
  /\ u.from \in members
  /\ Tell(members, u)
  /\ UNCHANGED members

\* The room answers u.from alone.
Answer(u) ==
  /\ u.from \in members
  /\ Tell({u.from}, u)
  /\ UNCHANGED members

\* p is given the next n pieces of its feed.
Pass(p, n) ==
  /\ p \in members
  /\ passed[p] + n <= Len(feed[p])
  /\ passed' = [passed EXCEPT ![p] = @ + n]
  /\ UNCHANGED <<members, feed, marked>>

\* Some members leave, all the marked ones among them; what they were not
\* given is gone.
Leave(S) ==
  /\ S \subseteq members
  /\ marked \cap members \subseteq S
  /\ members' = members \ S
  /\ feed' = [p \in People |-> IF p \in S THEN SubSeq(feed[p], 1, passed[p]) ELSE feed[p]]
  /\ UNCHANGED <<passed, marked>>

RoomNext ==
  \/ \E p \in People : Join(p)
  \/ \E u \in Public : Say(u)
  \/ \E u \in Private : Answer(u)
  \/ \E p \in People : \E n \in 1..Len(feed[p]) : Pass(p, n)
  \/ \E S \in SUBSET members : Leave(S)

RoomSpec == RoomInit /\ [][RoomNext]_room
=============================================================================
