----------------------------- MODULE HttpClient -----------------------------
(***************************************************************************)
(* common/HttpClient over common/tcpSocket: one GET or POST, from the URL  *)
(* to the result, against a server that may be slow, answer in pieces or   *)
(* go away.  The two requests differ in their text only.  An answer is     *)
(* counted in units: the status line, "Content-Length:", the rest of that  *)
(* line, the empty line, then the body.                                    *)
(***************************************************************************)
EXTENDS Integers

CONSTANTS
  Urls,         \* requests: what the URL holds of "http://", a '/' after the host, a port
  Answers,      \* answers: Content-Length's value or -1, the body's units, and whether the body
                \* begins with that word itself (and no line end follows)
  RequestLen    \* units of the request

ASSUME HttpAssumption ==
  /\ Urls \subseteq [scheme : BOOLEAN, slash : BOOLEAN, port : BOOLEAN]
  /\ Answers \subseteq [declared : Int, body : Nat, quotes : BOOLEAN]
  /\ RequestLen \in Nat \ {0}

VARIABLES
  http,         \* where getHttpRequestEx() is: see HttpNext
  url, answer,  \* the request, and what the server will say to it
  sock,         \* _socket: "none", "open", "connected"
  recvTimeout,  \* whether SO_RCVTIMEO is set
  sent,         \* sendLen in CTcpSocket::Send()
  atServer,     \* the units the kernel took in all
  reached,      \* units of the answer the client's kernel has
  finished,     \* the server has closed
  recvLen,      \* what Recv() returned
  got           \* the body getHttpData() returned: how many units of it

httpVars == <<http, url, answer, sock, recvTimeout, sent, atServer, reached, finished, recvLen, got>>

HeadUnits == 4
Errors == {"invalid_url", "tcp_init", "host_connect", "set_timeout", "header_send", "data_recv",
           "response_parse"}

HttpInit ==
  /\ http = "idle"
  /\ url \in Urls /\ answer \in Answers
  /\ sock = "none" /\ recvTimeout = FALSE
  /\ sent = 0 /\ atServer = 0 /\ reached = 0 /\ finished = FALSE
  /\ recvLen = 0 /\ got = 0

\* A return: the destructor of tcpClient closes the socket.
Ends(code) == http' = code /\ sock' = "none"

\* parseHttpParameter(): "http://" and a '/' after the host.
ParseUrl ==
  /\ http = "idle"
  /\ http' = IF url.scheme /\ url.slash THEN "parsed" ELSE "invalid_url"
  /\ UNCHANGED <<url, answer, sock, recvTimeout, sent, atServer, reached, finished, recvLen, got>>

\* GetIpByName(httpIp): httpIp is only set when the host has a port, "" resolves to nothing.
MayResolve == url.port

\* Init(), with SetSocketOption().
OpenSocket ==
  /\ http = "parsed"
  /\ \/ http' = "opened" /\ sock' = "open"
     \/ Ends("tcp_init")
  /\ UNCHANGED <<url, answer, recvTimeout, sent, atServer, reached, finished, recvLen, got>>

\* Connect(true): the name may not resolve, the server may not be there.
ConnectHost ==
  /\ http = "opened"
  /\ \/ MayResolve /\ http' = "connected" /\ sock' = "connected"
     \/ Ends("host_connect")
  /\ UNCHANGED <<url, answer, recvTimeout, sent, atServer, reached, finished, recvLen, got>>

\* Mutant: the timeout is not set.
SetNoTimeout ==
  /\ http = "connected"
  /\ http' = "sending"
  /\ UNCHANGED <<url, answer, sock, recvTimeout, sent, atServer, reached, finished, recvLen, got>>

SetRecvTimeout ==
  /\ http = "connected"
  /\ \/ http' = "sending" /\ recvTimeout' = TRUE /\ UNCHANGED sock
     \/ Ends("set_timeout") /\ UNCHANGED recvTimeout
  /\ UNCHANGED <<url, answer, sent, atServer, reached, finished, recvLen, got>>

\* One send() of CTcpSocket::Send() took n units.
SendSome(n) ==
  /\ http = "sending"
  /\ n \in 1..(RequestLen - sent)
  /\ sent' = sent + n /\ atServer' = atServer + n
  /\ http' = IF sent + n = RequestLen THEN "sent" ELSE "sending"
  /\ UNCHANGED <<url, answer, sock, recvTimeout, reached, finished, recvLen, got>>

\* One send() failed: after the timeout of a second Send() returns 0, after another error what went
\* before; either is less than the request.
SendFails ==
  /\ http = "sending"
  /\ \E s \in {0, sent} : sent' = s
  /\ Ends("header_send")
  /\ UNCHANGED <<url, answer, recvTimeout, atServer, reached, finished, recvLen, got>>

\* The server sends part of its answer once it has the request, and closes after all of it or at
\* any time.
Length == HeadUnits + answer.body

Answer(n) ==
  /\ http \in {"sent", "received"} /\ ~finished
  /\ n \in 1..(Length - reached)
  /\ reached' = reached + n
  /\ UNCHANGED <<http, url, answer, sock, recvTimeout, sent, atServer, finished, recvLen, got>>

ServerCloses ==
  /\ http \in {"sent", "received"} /\ ~finished
  /\ finished' = TRUE
  /\ UNCHANGED <<http, url, answer, sock, recvTimeout, sent, atServer, reached, recvLen, got>>

\* Recv(): one recv(), which returns what there is.
RecvOnce ==
  /\ http = "sent" /\ reached > 0
  /\ recvLen' = reached
  /\ http' = "received" /\ sock' = "none"
  /\ UNCHANGED <<url, answer, recvTimeout, sent, atServer, reached, finished, got>>

\* recv() returned nothing: the server closed, the timeout passed, or an error.
RecvFails ==
  /\ http = "sent" /\ reached = 0
  /\ finished \/ recvTimeout
  /\ Ends("data_recv")
  /\ UNCHANGED <<url, answer, recvTimeout, sent, atServer, reached, finished, recvLen, got>>

\* getHttpData() of the first n units: the units of the body it returns, or -1.  The word
\* "Content-Length:" is looked for everywhere, so also in a body; a line must end after it.
GetHttpData(n) ==
  IF answer.declared >= 0
  THEN IF n < HeadUnits \/ n - HeadUnits < answer.declared THEN -1 ELSE answer.declared
  ELSE IF n < HeadUnits \/ (answer.quotes /\ n > HeadUnits) THEN -1 ELSE n - HeadUnits

ParseAnswer ==
  /\ http = "received"
  /\ LET n == GetHttpData(recvLen) IN
     IF n < 0 THEN http' = "response_parse" /\ UNCHANGED got ELSE http' = "success" /\ got' = n
  /\ UNCHANGED <<url, answer, sock, recvTimeout, sent, atServer, reached, finished, recvLen>>

HttpNext ==
  \/ ParseUrl \/ OpenSocket \/ ConnectHost \/ SetRecvTimeout \/ SendFails
  \/ \E n \in 1..RequestLen : SendSome(n)
  \/ \E n \in 1..Length : Answer(n)
  \/ ServerCloses \/ RecvOnce \/ RecvFails \/ ParseAnswer

Client == \/ ParseUrl \/ OpenSocket \/ ConnectHost \/ SetRecvTimeout \/ SendFails
          \/ \E n \in 1..RequestLen : SendSome(n)
          \/ RecvOnce \/ RecvFails \/ ParseAnswer

HttpSpec == HttpInit /\ [][HttpNext]_httpVars /\ WF_httpVars(Client)

-----------------------------------------------------------------------------
Ended == Errors \cup {"success"}

HttpTypeOK ==
  /\ http \in Ended \cup {"idle", "parsed", "opened", "connected", "sending", "sent", "received"}
  /\ sock \in {"none", "open", "connected"}
  /\ sent \in 0..RequestLen /\ atServer \in 0..RequestLen
  /\ reached \in 0..Length /\ recvLen \in 0..reached

\* Success is one whole request at the server and, where the answer says how long it is, exactly
\* that much of its body; an answer that does not is whatever one recv() had of it.  No socket is
\* left behind on any way out.
HttpSafe ==
  /\ HttpTypeOK
  /\ http = "success" =>
       /\ atServer = RequestLen
       /\ IF answer.declared >= 0 THEN got = answer.declared /\ HeadUnits + got <= reached
                                  ELSE got = recvLen - HeadUnits
  /\ http \in Ended \cup {"received"} <=> sock = "none" /\ http \notin {"idle", "parsed"}

\* getHttpRequestEx() is safe in this sense, and it ends, however silent the server is.
HttpAnswers == []HttpSafe /\ (http # "idle" ~> http \in Ended)
=============================================================================
