------------------------------ MODULE MCHelpers ------------------------------
(***************************************************************************)
(* The code the reactor and the programs beside it call, for TLC: the      *)
(* library common (its condition, its log, its HTTP client), and the code  *)
(* that reads and writes text (the handshake, the digests, base64, the ini *)
(* file, the URL encoding).  They share no state: a behaviour of the whole *)
(* is one of each part, so one part moves in each behaviour here and the   *)
(* others stay as they were made.                                          *)
(***************************************************************************)
EXTENDS Conditional, DebugTrace, HttpClient, Handshake, Sha1, Configure, Md5, UrlText

VARIABLE part

MCMicros == {0, 999, 1000, 500500, 998999, 999000, 999999}
MCTimeouts == {1, 2, 499, 500, 999, 1000, 1001, 2500}

\* Lines of one part, of one that just leaves no room for the line's end, and of one too long.
MCLines == {<<1>>, <<3, 2>>}
MCPrefixes == {"log", "l"}
MCPrefixLen == [p \in MCPrefixes |-> IF p = "log" THEN 3 ELSE 1]

MCUrls == {[scheme |-> a, slash |-> b, port |-> c] : a, b, c \in BOOLEAN}
MCAnswers == [declared : {-1, 0, 2}, body : {1, 2, 3}, quotes : BOOLEAN]

\* The key RFC 6455 gives as an example and MAGIC_KEY; the digests are of its prefixes.
MCSample == <<100, 71, 104, 108, 73, 72, 78, 104, 98, 88, 66, 115, 90, 83, 66, 117, 98, 50, 53, 106,
              90, 81, 61, 61, 50, 53, 56, 69, 65, 70, 65, 53, 45, 69, 57, 49, 52, 45, 52, 55,
              68, 65, 45, 57, 53, 67, 65, 45, 67, 53, 65, 66, 48, 68, 67, 56, 53, 66, 49, 49>>
MCText5 == FlattenSeq([i \in 1 .. 5 |-> MCSample])
MCText == SubSeq(MCText5, 1, 200)
MCData == MCText5
MCChunks == {1, 8, 55, 56, 64, 65, 129}
MCKnownAccepts == [n \in {0, 55, 56, 60, 64} |-> CASE
  n = 0 -> <<54, 35, 38, 35, 59, 37, 57, 43, 18, 48, 52, 50, 21, 27, 63, 47, 37, 22, 0, 24, 36, 10, 63, 24, 1, 48, 36, 64>>
  [] n = 55 -> <<61, 47, 35, 49, 28, 13, 36, 5, 16, 50, 50, 39, 9, 21, 49, 32, 37, 42, 5, 57, 7, 61, 6, 1, 20, 5, 0, 64>>
  [] n = 56 -> <<0, 38, 60, 23, 44, 40, 39, 6, 4, 53, 10, 50, 19, 56, 58, 0, 11, 45, 56, 53, 53, 18, 48, 30, 61, 2, 36, 64>>
  [] n = 60 -> <<44, 55, 41, 15, 11, 12, 1, 34, 19, 49, 26, 16, 61, 36, 24, 6, 51, 51, 33, 25, 17, 27, 10, 62, 49, 14, 40, 64>>
  [] n = 64 -> <<21, 35, 25, 62, 1, 21, 24, 30, 2, 25, 3, 39, 3, 7, 54, 3, 25, 51, 44, 20, 7, 48, 23, 57, 9, 6, 52, 64>>]
KnownMd5 == [n \in {0, 56, 130} |-> CASE
  n = 0 -> <<212, 29, 140, 217, 143, 0, 178, 4, 233, 128, 9, 152, 236, 248, 66, 126>>
  [] n = 56 -> <<108, 32, 159, 200, 157, 70, 48, 44, 224, 29, 212, 183, 41, 203, 143, 248>>
  [] n = 130 -> <<179, 74, 225, 163, 24, 10, 217, 218, 44, 1, 167, 160, 138, 92, 98, 152>>]

\* Requests of up to four lines behind the first.
MCHeadLines == {<<"GET", CR, LF>>, <<Key, "a", CR, LF>>, <<Key, "b", CR, LF>>, <<Key, "c", LF>>, <<CR, LF>>, <<LF>>, <<"frame">>}
MCFirst == {<<"GET", CR, LF>>, <<"GET", LF>>, <<CR, LF>>}
MCRequests == {f \o FlattenSeq(r) \o <<CR, LF, "frame">> : f \in MCFirst, r \in TupleOf(MCHeadLines, 3)}

Sec(n, l) == [means |-> [is |-> "section", name |-> n], lines |-> l]
Entry(k, v, l) == [means |-> [is |-> "entry", key |-> k, value |-> v], lines |-> l]
Nothing(l) == [means |-> [is |-> "nothing"], lines |-> l]
MCItems == {
  Sec(<<"s">>, <<<<"[", " ", "s", "]">>>>), Sec(<<"t">>, <<<<" ", "[", "t", "]", " ">>>>),
  Entry(<<"k">>, <<"v">>, <<<<"k", "=", "v">>>>),
  Entry(<<"k">>, <<"v", ";", "w">>, <<<<" ", "k", " ", "=", " ", "\"", "v", ";", "w", "\"", "#">>>>),
  Entry(<<"k">>, <<"w">>, <<<<"k", "=", "\\">>, <<"w", " ", ";", "v">>>>),
  Entry(<<"k">>, <<"v">>, <<<<"k", "=", "v", "\\">>, <<>>>>),
  Entry(<<"k">>, <<>>, <<<<"k", "=", "\"", "'", "'", "\"">>>>),   \* quotes within quotes are no value
  Entry(<<"k">>, <<>>, <<<<"k", "=", "'", "'", " ">>>>), Entry(<<"k">>, <<>>, <<<<"k", "=", "#", "v">>>>),
  Entry(<<"l">>, <<"=", "v">>, <<<<"l", "=", "=", "v">>>>), Entry(<<"l">>, <<>>, <<<<"l", " ", "=">>>>),
  Nothing(<<<<"#", "k", "=", "v">>>>), Nothing(<<<<>>>>), Nothing(<<<<" ", "v">>>>) }
MCWanted == [key |-> <<"k">>, section |-> <<"s">>]

MCOctets == {0, 37, 43, 45, 48, 97, 171, 255}

CommonInit ==
  /\ CondInit /\ (part # "Conditional" => use = "items")
  /\ TraceInit
  /\ HttpInit /\ (part # "HttpClient" => url = [scheme |-> TRUE, slash |-> TRUE, port |-> TRUE]
                                        /\ answer = [declared |-> 2, body |-> 2, quotes |-> FALSE])

TextInit ==
  /\ IF part = "Handshake" THEN HandInit ELSE stream = (CHOOSE r \in Requests : TRUE) /\ HandInit
  /\ ShaInit /\ Md5Init
  /\ IF part = "Configure" THEN CfgInit ELSE file = <<>> /\ whole = TRUE /\ stray = FALSE /\ CfgInit
  /\ someOctets \in IF part \in {"Base64", "Url"} THEN BoundedSeq(MCOctets, 4) ELSE {<<>>}
  /\ somePairs \in IF part = "Url" /\ someOctets = <<>> THEN BoundedSeq({<<>>, <<38>>, <<97, 61>>} \X {<<>>, <<61>>}, 3) ELSE {<<>>}

Init ==
  /\ part \in {"Conditional", "DebugTrace", "HttpClient",
               "Handshake", "Sha1", "Md5", "Configure", "Base64", "Url"}
  /\ CommonInit /\ TextInit

commonVars == <<condVars, traceVars, httpVars>>
textVars == <<handVars, shaVars, md5Vars, cfgVars>>

Next ==
  /\ \/ part = "Conditional" /\ CondNext /\ UNCHANGED <<traceVars, httpVars, textVars>>
     \/ part = "DebugTrace" /\ TraceNext /\ UNCHANGED <<condVars, httpVars, textVars>>
     \/ part = "HttpClient" /\ HttpNext /\ UNCHANGED <<condVars, traceVars, textVars>>
     \/ part = "Handshake" /\ HandNext /\ UNCHANGED <<commonVars, shaVars, md5Vars, cfgVars>>
     \/ part = "Sha1" /\ ShaNext /\ UNCHANGED <<commonVars, handVars, md5Vars, cfgVars>>
     \/ part = "Md5" /\ Md5Next /\ UNCHANGED <<commonVars, handVars, shaVars, cfgVars>>
     \/ part = "Configure" /\ CfgNext /\ UNCHANGED <<commonVars, handVars, shaVars, md5Vars>>
  /\ UNCHANGED <<part, someOctets, somePairs>>

vars == <<part, someOctets, somePairs, commonVars, textVars>>

Fairness ==
  /\ part = "Conditional" => CondFairness
  /\ part = "HttpClient" => WF_httpVars(Client)

Spec == Init /\ [][Next]_vars /\ Fairness

(* A wait that was signalled, and a request, come to their end, and the request *)
(* ends as it should: Conditional::wait, getHttpRequestEx.                      *)
WaitsAndRequests ==
  /\ part = "Conditional" => WaitsEnd
  /\ part = "HttpClient" => HttpAnswers

(* Both digests are taken of the octets fed, padded as published, and agree with *)
(* the published algorithm on the sample key: sha1.cpp, base64.cpp, md5.c.       *)
DigestsRight ==
  /\ part = "Sha1" => BlocksRight /\ AcceptRight
  /\ part = "Md5" => Md5BlocksRight /\ (finished5 /\ taken5 \in DOMAIN KnownMd5 => Digest5 = KnownMd5[taken5])
=============================================================================
