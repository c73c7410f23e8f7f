----------------------------- MODULE ReplicaSet -----------------------------
(***************************************************************************)
(* mongo_replica_set_client of mongo.c: ask the seeds for the members of   *)
(* the set, one after the other, then the members for the one that is      *)
(* master.  Members go away and come back, and another becomes master,     *)
(* between any two of these questions.                                     *)
(***************************************************************************)
EXTENDS Integers, Sequences, SequencesExt, FiniteSets

CONSTANTS Seeds,       \* the seeds added, a sequence of hosts
          Members,     \* what a host says the members are, a sequence of hosts
          Strangers,   \* hosts that say they belong to another set
          MaxConnects, \* bound: calls of the program
          MaxTurns     \* bound: changes of who is up and who is master

Hosts == {Seeds[i] : i \in DOMAIN Seeds} \cup {Members[i] : i \in DOMAIN Members}

ASSUME ReplicaAssumption == Seeds \in Seq(Hosts) /\ Members \in Seq(Hosts)

DefaultPort == 27017
DigitOf == [d \in {"0", "1", "2"} |-> CASE d = "0" -> 0 [] d = "1" -> 1 [] d = "2" -> 2]

VARIABLES rs,      \* mongo and where the call is: [pc, node, sock, connected, primary, hosts, err]
          open,    \* the sockets open, with their hosts
          master,  \* the host that is master now
          away,    \* hosts that cannot be reached
          lucky,   \* ghost: since the call began nothing failed or changed
          made,    \* calls so far
          turns    \* changes so far

setvars == <<rs, open, master, away, lucky, made, turns>>

\* mongo_replica_set_init, _add_seed
ReplicaInit ==
  /\ rs = [pc |-> "idle", node |-> 0, sock |-> 0, connected |-> FALSE, primary |-> FALSE,
           hosts |-> <<>>, err |-> "none"]
  /\ open = [s \in {} |-> 0]
  /\ master \in {Members[i] : i \in DOMAIN Members}
  /\ away = {} /\ lucky = TRUE /\ made = 0 /\ turns = 0

NewSocket == CHOOSE s \in 1..(Cardinality(DOMAIN open) + 1) : s \notin DOMAIN open
With(host) == [s \in DOMAIN open \cup {NewSocket} |-> IF s = NewSocket THEN host ELSE open[s]]
Without(s) == [t \in DOMAIN open \ {s} |-> open[t]]

(***************************************************************************)
(* The start of a call.                                                    *)
(***************************************************************************)
Begins(hosts, primary) ==
  /\ rs' = [rs EXCEPT !.pc = "seeds", !.node = 1, !.sock = 0, !.connected = FALSE,
                      !.hosts = hosts, !.primary = primary, !.err = "none"]
  /\ lucky' = TRUE /\ made' = made + 1
  /\ UNCHANGED <<master, away, turns>>

\* mongo_replica_set_client, called first or after it found no primary; the
\* hosts of the last time are still in the list.
ConnectSet ==
  /\ rs.pc = "idle" /\ made < MaxConnects
  /\ made > 0 => rs.err = "noPrimary"
  /\ Begins(rs.hosts, rs.primary)
  /\ UNCHANGED open

\* mongo_reconnect, by mongo_disconnect
ReconnectSet ==
  /\ rs.pc = "idle" /\ made \in 1..MaxConnects - 1
  /\ Begins(<<>>, FALSE)
  /\ open' = IF rs.connected THEN Without(rs.sock) ELSE open

(***************************************************************************)
(* The seeds.                                                              *)
(***************************************************************************)
Node(hosts) == hosts[rs.node]
Facing(pc, hosts) == rs.pc = pc /\ rs.node <= Len(hosts)

\* The connection or the question fails: a host that is down, or any other.
SeedFails ==
  /\ Facing("seeds", Seeds)
  /\ rs' = [rs EXCEPT !.node = @ + 1]
  /\ lucky' = (lucky /\ Node(Seeds) \in away)
  /\ UNCHANGED <<open, master, away, made, turns>>

\* mongo_replica_set_check_seed: its hosts come behind those in the list; the
\* socket is closed again.
SeedAnswers ==
  /\ Facing("seeds", Seeds) /\ Node(Seeds) \notin away
  /\ rs' = [rs EXCEPT !.hosts = @ \o Members, !.pc = "hosts", !.node = 1]
  /\ UNCHANGED <<open, master, away, lucky, made, turns>>

NoPrimary ==
  /\ rs' = [rs EXCEPT !.pc = "idle", !.err = "noPrimary"]
  /\ UNCHANGED <<open, master, away, lucky, made, turns>>

SeedsOver == rs.pc = "seeds" /\ rs.node > Len(Seeds) /\ rs.hosts = <<>> /\ NoPrimary

\* No seed answered, but there are hosts from before.
OldHosts ==
  /\ rs.pc = "seeds" /\ rs.node > Len(Seeds) /\ rs.hosts /= <<>>
  /\ rs' = [rs EXCEPT !.pc = "hosts", !.node = 1]
  /\ UNCHANGED <<open, master, away, lucky, made, turns>>

(***************************************************************************)
(* The members: mongo_replica_set_check_host.                              *)
(***************************************************************************)
HostFails ==
  /\ Facing("hosts", rs.hosts)
  /\ rs' = [rs EXCEPT !.node = @ + 1]
  /\ lucky' = (lucky /\ Node(rs.hosts) \in away)
  /\ UNCHANGED <<open, master, away, made, turns>>

\* The question fails, or the host is no master: the socket is closed, there
\* and in the caller once more.
NotMaster ==
  /\ Facing("hosts", rs.hosts) /\ Node(rs.hosts) \notin away \cup Strangers \cup {master}
  /\ rs' = [rs EXCEPT !.node = @ + 1]
  /\ UNCHANGED <<open, master, away, lucky, made, turns>>

\* The call returns with the connection to a host of another set.
BadSetName ==
  /\ Facing("hosts", rs.hosts) /\ Node(rs.hosts) \in Strangers \ away
  /\ rs' = [rs EXCEPT !.pc = "idle", !.err = "badSetName", !.sock = NewSocket, !.connected = TRUE]
  /\ open' = With(Node(rs.hosts))
  /\ UNCHANGED <<master, away, lucky, made, turns>>

Found ==
  /\ Facing("hosts", rs.hosts) /\ Node(rs.hosts) = master /\ master \notin away \cup Strangers
  /\ rs' = [rs EXCEPT !.pc = "idle", !.primary = TRUE, !.sock = NewSocket, !.connected = TRUE]
  /\ open' = With(Node(rs.hosts))
  /\ UNCHANGED <<master, away, lucky, made, turns>>

HostsOver == rs.pc = "hosts" /\ rs.node > Len(rs.hosts) /\ NoPrimary

(***************************************************************************)
(* The set, and the connection.                                            *)
(***************************************************************************)
Turns(changed) ==
  /\ turns < MaxTurns /\ turns' = turns + 1
  /\ lucky' = FALSE
  /\ changed
  /\ UNCHANGED <<rs, open, made>>

Election(h) == h /= master /\ h \in {Members[i] : i \in DOMAIN Members} /\ Turns(master' = h /\ UNCHANGED away)
GoesDown(h) == h \notin away /\ Turns(away' = away \cup {h} /\ UNCHANGED master)
ComesBack(h) == h \in away /\ Turns(away' = away \ {h} /\ UNCHANGED master)

\* A send() fails with EPIPE: connected is cleared, the socket stays open, and
\* no later call closes it.
BreakSet ==
  /\ rs.pc = "idle" /\ rs.connected
  /\ rs' = [rs EXCEPT !.connected = FALSE]
  /\ UNCHANGED <<open, master, away, lucky, made, turns>>

SearchStep == SeedFails \/ SeedAnswers \/ SeedsOver \/ OldHosts
              \/ HostFails \/ NotMaster \/ BadSetName \/ Found \/ HostsOver

ReplicaNext ==
  \/ ConnectSet \/ ReconnectSet \/ SearchStep \/ BreakSet
  \/ \E h \in Hosts : Election(h) \/ GoesDown(h) \/ ComesBack(h)

ReplicaSpec == ReplicaInit /\ [][ReplicaNext]_setvars

ReplicaFair == WF_setvars(SearchStep)

\* mongo_parse_host: the last ':' that is not the first character is where the
\* port begins; atoi() takes the digits there.
ParseHost(s) ==
  LET colons == {i \in 2..Len(s) : s[i] = ":"}
      split == CHOOSE i \in colons : \A j \in colons : j <= i
      digits == {i \in split + 1..Len(s) : \A j \in split + 1..i : s[j] \in DOMAIN DigitOf}
  IN IF colons = {} THEN [host |-> s, port |-> DefaultPort]
     ELSE [host |-> SubSeq(s, 1, split - 1),
           port |-> MapThenFoldSet(+, 0, LAMBDA i : DigitOf[s[i]] * 10 ^ (split + Cardinality(digits) - i),
                                   LAMBDA S : CHOOSE i \in S : TRUE, digits)]

(***************************************************************************)
(* What a call promises.                                                   *)
(***************************************************************************)
Came(err) == rs.pc = "idle" /\ made > 0 /\ rs.err = err

\* A call that succeeded is connected to a host of the set, to the master if
\* nothing changed since; one that found no primary holds no socket, and if
\* nothing failed or changed on its way the master or the seeds cannot be had.
ReplicaRight ==
  /\ Came("none") /\ rs.connected =>
       /\ rs.sock \in DOMAIN open /\ open[rs.sock] \notin Strangers
       /\ lucky => open[rs.sock] = master
  /\ Came("noPrimary") =>
       /\ rs.sock = 0 /\ ~rs.connected /\ ~rs.primary
       /\ lucky => master \in away \cup Strangers \/ {Seeds[i] : i \in DOMAIN Seeds} \subseteq away
  /\ rs.pc /= "idle" => rs.sock = 0 /\ ~rs.primary

\* A name and a port with a colon between them read back as the name and the
\* number n that the port spells; a name alone has the default port.
HostRight(name, port, n) ==
  /\ name /= <<>> => ParseHost(name \o <<":">> \o port) = [host |-> name, port |-> n]
  /\ ":" \notin Range(name) => ParseHost(name) = [host |-> name, port |-> DefaultPort]

\* Every call ends.
SearchEnds == []<>(rs.pc = "idle")
=============================================================================
