----------------------------- MODULE Handshake ------------------------------
(***************************************************************************)
(* The upgrade request in websocket_handler.cpp: drive_io() before the     *)
(* handshake, fetch_http_info() and parse_str().  Text is a sequence of    *)
(* tokens: CR, LF, Key ("Sec-WebSocket-Key: ") and words without ": ".     *)
(* The frames behind the handshake are FrameReader's and the connection    *)
(* around it is Reactor's; here a read brings any number of tokens.        *)
(***************************************************************************)
EXTENDS Naturals, Sequences, SequencesExt

CONSTANTS
  Texts,          \* what a request holds besides CR, LF and Key
  Requests,       \* the streams a client may send
  MaxHandshake    \* WS_MAX_HANDSHAKE_BYTES, in tokens

CR == "CR"
LF == "LF"
Key == "Key"
Token == Texts \cup {CR, LF, Key}

ASSUME HandshakeAssumption == MaxHandshake \in Nat \ {0} /\ Requests \subseteq Seq(Token)

VARIABLES
  stream,      \* what the client sends
  arrived,     \* how many tokens of it have been read
  readBuf,     \* read_buf_
  upgrade,     \* status_, or "closed" once queue_close was called
  serverKey    \* header_map_["Sec-WebSocket-Key"]: absent is the empty text

handVars == <<stream, arrived, readBuf, upgrade, serverKey>>

HandInit ==
  /\ stream \in Requests
  /\ arrived = 0 /\ readBuf = <<>>
  /\ upgrade = "unconnect" /\ serverKey = <<>>

BlankLine == <<CR, LF, CR, LF>>

\* The tokens up to the end of the first blank line, none if there is no blank line.
HeadersOf(s) ==
  LET ends == {i \in 4 .. Len(s) : SubSeq(s, i - 3, i) = BlankLine}
  IN  IF ends = {} THEN <<>> ELSE SubSeq(s, 1, CHOOSE i \in ends : \A j \in ends : i <= j)

\* getline(): the first line without its LF, and what follows it.
FirstLine(s) ==
  LET n == SelectInSeq(s, LAMBDA t : t = LF)
  IN  [line |-> SubSeq(s, 1, n - 1), rest |-> SubSeq(s, n + 1, Len(s))]

EndsInCR(line) == line # <<>> /\ Last(line) = CR

\* Mutant of HeaderLine: of a name said twice the first value is kept.
HeaderLineOnce(r) ==
  LET l == FirstLine(r.rest)
  IN  IF r.rest = <<>> \/ l.line = <<CR>> THEN r
      ELSE [rest |-> l.rest, key |-> IF r.key = <<>> /\ EndsInCR(l.line) /\ Head(l.line) = Key THEN Tail(Front(l.line)) ELSE r.key]

\* One turn of the header loop on what is left and the key so far; a turn that ends the loop changes nothing.
HeaderLine(r) ==
  LET l == FirstLine(r.rest)
  IN  IF r.rest = <<>> \/ l.line = <<CR>> THEN r
      ELSE [rest |-> l.rest, key |-> IF EndsInCR(l.line) /\ Head(l.line) = Key THEN Tail(Front(l.line)) ELSE r.key]

\* The lines are read until one that is only a CR; of a name said twice the last value is kept.
KeyFrom(s) ==
  LET read[n \in 0 .. Len(s)] == IF n = 0 THEN [rest |-> s, key |-> <<>>] ELSE HeaderLine(read[n - 1])
  IN  read[Len(s)].key

fetch_http_info(headers) ==
  LET request == FirstLine(headers)
  IN  [ok |-> EndsInCR(request.line), key |-> KeyFrom(request.rest)]

\* One read of n tokens and the drive_io() after it.
DriveIo(n) ==
  /\ upgrade = "unconnect"
  /\ n \in 1 .. Len(stream) - arrived
  /\ arrived' = arrived + n
  /\ UNCHANGED stream
  /\ LET buf == readBuf \o SubSeq(stream, arrived + 1, arrived + n)
         headers == HeadersOf(buf)
         info == fetch_http_info(headers)
     IN  IF Len(buf) > MaxHandshake
           THEN readBuf' = buf /\ upgrade' = "closed" /\ UNCHANGED serverKey
         ELSE IF headers = <<>>
           THEN readBuf' = buf /\ UNCHANGED <<upgrade, serverKey>>
         ELSE /\ readBuf' = SubSeq(buf, Len(headers) + 1, Len(buf))
              /\ upgrade' = IF info.ok THEN "handsharked" ELSE "closed"
              /\ serverKey' = IF info.ok THEN info.key ELSE serverKey

HandNext == \E n \in 1 .. Len(stream) : DriveIo(n)

HandSpec == HandInit /\ [][HandNext]_handVars

-----------------------------------------------------------------------------

\* Where a line ends, where the lines behind the first one start, the empty ones and those with a key.
LineEnd(s, i) == CHOOSE j \in i .. Len(s) : s[j] = LF /\ \A k \in i .. j - 1 : s[k] # LF
LineStarts(s) == {i \in 2 .. Len(s) : s[i - 1] = LF}
BlankAt(s, i) == s[i] = CR /\ LineEnd(s, i) = i + 1
KeyLineAt(s, i) == s[i] = Key /\ s[LineEnd(s, i) - 1] = CR

\* The key of the last key line before the first empty line, none if there is no such line.
KeyLines(s) ==
  LET first == CHOOSE i \in LineStarts(s) : BlankAt(s, i) /\ \A j \in LineStarts(s) : BlankAt(s, j) => i <= j
  IN  {SubSeq(s, i + 1, LineEnd(s, i) - 2) :
         i \in {k \in LineStarts(s) : /\ k < first /\ KeyLineAt(s, k)
                                      /\ \A m \in LineStarts(s) : k < m /\ m < first => ~KeyLineAt(s, m)}}

(* A client is answered for the key its request holds whatever way the bytes    *)
(* were cut into reads: the tokens between "Key" at the start of the last such  *)
(* line and its CR LF, before the first line that is empty, and after the first *)
(* line.  What follows the blank line is left for the frames, to the token.     *)
HandshakeRight ==
  LET received == SubSeq(stream, 1, arrived)
      headers == HeadersOf(received)
  IN  /\ upgrade = "unconnect" => readBuf = received /\ headers = <<>> /\ arrived <= MaxHandshake
      /\ upgrade = "handsharked" =>
           /\ headers \o readBuf = received
           /\ KeyLines(headers) = IF KeyLines(headers) = {} THEN {} ELSE {serverKey}
           /\ KeyLines(headers) = {} => serverKey = <<>>
      /\ upgrade = "closed" => arrived > MaxHandshake \/ ~EndsInCR(FirstLine(headers).line)
=============================================================================
