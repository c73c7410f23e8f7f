------------------------------ MODULE MCMongo ------------------------------
(***************************************************************************)
(* The MongoDB client, for TLC: the wrapper's calls over a connection, the *)
(* rows of a result, a GridFS file, a document, the search of a replica    *)
(* set, and the checks of texts.  As in MCHelpers one part moves in each    *)
(* behaviour.                                                              *)
(***************************************************************************)
EXTENDS MongoClient, MongoCursor, GridFile, Bson, ReplicaSet

VARIABLES part, text

MCData == {<<1>>, <<1, 1>>, <<1, 1, 1>>}

\* Fields: null and an object id; a name that cannot be sent, and one that cannot
\* be written.
MCFixed == {<<10, <<>>>>, <<7, <<1, 2, 3, 4, 5, 6, 7, 8, 9, 10, 0, 12>>>>}
MCNames == {<<97>>, <<192>>, <<36, 46>>}
MCPlain == <<97>>
MCStrings == {<<195, 169>>, <<195>>}
MCEmbedded == {<<5, 0, 0, 0, 0>>, <<9, 0, 0, 0, 8, 97, 0, 1, 0>>}

\* The ends of the ranges of octets UTF-8 tells apart.
Edges == {65, 128, 143, 144, 160, 191, 193, 194, 224, 240, 244, 245, 252}
NsOctets == {97, 46, 36, 32}
OidOctets == {0, 9, 10, 15, 16, 159, 160, 255}
Ports == {<<<<>>, 0>>, <<<<"2">>, 2>>, <<<<"1", "0">>, 10>>, <<<<"2", "h">>, 2>>}

MCSeeds == <<1, 2>>
MCMembers == <<2, 3, 4>>

Init ==
  /\ part \in {"client", "cursor", "file", "bson", "replica", "utf8", "ns", "oid", "host"}
  /\ text \in CASE part = "utf8" -> BoundedSeq(Edges, 4)
                [] part = "ns" -> BoundedSeq(NsOctets, 6)
                [] part = "oid" -> TupleOf(OidOctets, 2)
                [] part = "host" -> BoundedSeq({"h", ":"}, 3) \X Ports
                [] OTHER -> {<<>>}
  /\ IF part = "client" THEN ClientInit ELSE conns = <<>> /\ ClientInit
  /\ IF part = "cursor" THEN CursorInit ELSE rows = 0 /\ CursorInit
  /\ IF part = "replica" THEN ReplicaInit ELSE master = MCMembers[1] /\ ReplicaInit
  /\ FileInit /\ BsonInit

Next ==
  /\ \/ part = "client" /\ ClientNext /\ UNCHANGED <<cursorvars, filevars, bsonvars, setvars>>
     \/ part = "cursor" /\ CursorNext /\ UNCHANGED <<mongovars, filevars, bsonvars, setvars>>
     \/ part = "file" /\ FileNext /\ UNCHANGED <<mongovars, cursorvars, bsonvars, setvars>>
     \/ part = "bson" /\ BsonNext /\ UNCHANGED <<mongovars, cursorvars, filevars, setvars>>
     \/ part = "replica" /\ ReplicaNext /\ UNCHANGED <<mongovars, cursorvars, filevars, bsonvars>>
  /\ UNCHANGED <<part, text>>

vars == <<part, text, mongovars, cursorvars, filevars, bsonvars, setvars>>

Spec == Init /\ [][Next]_vars /\ ClientFair /\ ReplicaFair

(* What the driver's checks take for UTF-8, for a namespace, an object id or a *)
(* host is that (encoding.c, mongo_validate_ns, bson_oid_from_string,          *)
(* mongo_parse_host).                                                          *)
ChecksRight ==
  CASE part = "utf8" -> Utf8Right(text) [] part = "ns" -> NsRight(text)
    [] part = "oid" -> OidRight(text) [] part = "host" -> HostRight(text[1], text[2][1], text[2][2])
    [] OTHER -> TRUE

(* Documents are built and read as BSON, texts are checked, and a replica set is *)
(* connected to its master (bson.c, encoding.c, mongo.c).                        *)
DriverRight == BsonRight /\ ChecksRight /\ ReplicaRight

(* The wrapper's calls and mongo_replica_set_client come to their end. *)
MongoEnds == (part = "client" => CallsEnd) /\ (part = "replica" => SearchEnds)
=============================================================================
