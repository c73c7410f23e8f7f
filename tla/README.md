# WebSocketDemo in TLA+

Models, model checks and machine-checked proofs of the WebSocket server in
`src/src/websocket_master` and of the libraries it is linked with in `src/src/common`. Line numbers
refer to the source tree next to this directory.

## 1. The system

| Component | State | Operations | Here |
|---|---|---|---|
| `Network_Interface` (network_interface.cpp) | handler table, broadcast set `ws_clients_`, `pending_closes_`, epoll masks, the batch of events | `epoll_loop`, `ctl_event`, `queue_close`, `process_close_queue`, `update_handler_events`, `broadcast_ws_binary`, `register_/unregister_ws_client` | `Reactor` |
| `Websocket_Handler` (websocket_handler.cpp) | `read_buf_`, `write_buf_`, `status_`, the header map | `append_read`, `drive_io`, `fetch_http_info`, `parse_str`, `handle_one_frame`, `append_outgoing`, `queue_send`, `flush_writes` | `Reactor`, `FrameReader`, `Handshake` |
| `Websocket_Request`, `Websocket_Respond` | none that outlives a frame | `try_consume_frame`, `pack_data` | `WebsocketFrame`, `FrameReader` |
| `SHA1`, base64 | the block being filled, the length counters | `Input`, `Result`, `PadMessage`; `base64_encode`, `base64_decode` | `Sha1`, `Words`, `Base64` |
| `main` (main.cpp) | the worker processes | clamp, `fork`, `kill`, `wait` | `Workers` |
| kernel and clients (external) | backlog, byte streams, FIN, RST, descriptors | `accept`, `read`, `send`, `close`, `epoll_wait` | `Sockets` |
| `common/CriticalSection` | a mutex, a condition, `miDataCount` | `enterMutex`, `signal`, `wait` | `Conditional`, `Semaphore` |
| `common/debugtrace` | one line buffer, a file and its name | `TRACE`, `SetLogFileName`, `SetTraceOptions` | `DebugTrace` |
| `common/HttpClient`, `tcpSocket` | one blocking socket | `getHttpRequestEx`, `Send`, `Recv`; `UrlEncode`, `UrlDecode`, `ParseParams` | `HttpClient`, `UrlText` |
| `common/Configure` | the file being read | `load`, `GetStrParam` | `Configure` |
| `common/mongodb_wrapper`, mongo.c, env.c | a connection, its requests and replies | insert, delete, update, find, count, each with a reconnect and one retry; `fetchRow` | `MongoClient`, `MongoCursor` |
| replica set (mongo.c) | seeds, hosts, the primary | `mongo_replica_set_client`, `mongo_reconnect` | `ReplicaSet` |
| GridFS (gridfs.c) | chunks in the server, a handle with a pending chunk | write, read, seek, truncate, expand, set size, store, remove | `GridFile`, `ByteFile` |
| BSON (bson.c, encoding.c), md5.c | a growing document; a digest | append, start and finish objects, finish, iterate; checks of texts | `Bson`, `BsonText`, `Md5` |
| JSON (json/) | a tree of values with comments | `Reader`, three writers, comparison, arrays, paths, copies | `Json*` |
| Debug_LOG, `Tools/`, test scripts | | | not modelled |

**How they interact.** `main` forks workers; each has one `Network_Interface`, one thread and its
own listening socket on the shared port. The reactor calls a handler on input (`append_read`, then
`drive_io`) and on output (`flush_writes`); the handler calls back into the reactor to queue its own
close, to change its mask, to register and to broadcast, and a broadcast appends to the write
buffers of *other* handlers. Nothing is shared between processes but the port. The handshake uses
SHA1 and base64. The code under `common/` is linked into the server, which does not call it: it is
a library for programs with threads, and its parts meet only in `TRACE`, in the driver's use of
BSON and md5, and in the wrapper's use of the driver.

**What is hard.** In the server there is no lock and no second thread, but between any two system
calls the kernel and the clients move: bytes arrive in the middle of a drain, a peer resets between
`epoll_wait` and `read`, `send` takes half a frame. A batch of events is a snapshot that later events
of the same batch can make stale, descriptors are reused, the mask must follow the write buffer by
hand, and closes are deferred. Buffers have limits, and what happens at a limit happens to one client
while a broadcast for all is under way. In the library: threads meet at a condition variable and at
one trace buffer; a connection breaks between a write and its acknowledgement and the call is tried
again; a cursor or a file handle carries positions and counts from call to call; parsers, encoders
and digests have borders at every length. `PROJECT.json` lists each hazard at its line with the
properties that would catch it.

## 2. Modules

- **`Sockets`**: the kernel and the clients. Messages are cut into cells (`Size[kind]` of them), so
  that a read, a send and a limit fall between the cells of one message, as bytes do. `accept` takes
  the lowest free descriptor. `got` and `sent` are histories for the properties. It also names what
  a client may do: `May[c]` (including malformed requests and frames, FIN in the middle of a message,
  RST), at most `MaxSends[c]` numbered messages; frames the server ignores ("other") are not
  numbered, so that a client can send for ever with finitely many states.
- **`Reactor`** (extends `Sockets`): one server process. `pc` is the place in `epoll_loop()`; every
  system call and every frame is a step, and the world may move between them. Actions:

  | Action | Code |
  |---|---|
  | `EpollWait`, `ListenEvent`, `HangupEvent`, `InEvent`, `OutEvent`, `EndBatch` | network_interface.cpp 211-288 |
  | `AcceptOne`, `AcceptNone` | 222-235, 306-325 |
  | `ReadData`, `ReadOverflow`, `ReadEnd`, `ReadAgain` | 251-273, websocket_handler.cpp 36-44 |
  | `HandshakeTooLong`, `HandshakeIncomplete`, `HandshakeRejected`, `HandshakeDone` | websocket_handler.cpp 82-105 |
  | `FrameIncomplete`, `FrameBroken`, `FrameText`, `FramePing`, `FrameClose`, `FrameIgnored` | 107-160 |
  | `SendSome`, `SendStop`, `SendError` | 63-75, network_interface.cpp 275-285 |

  `Output(m, S)` is `queue_send()` followed by `broadcast_ws_binary()` to `S`: one step, because
  neither makes a system call a client could see (the masks are refreshed inside it).
  `ProcessCloseQueue` closes all of `pending_closes_` in one step for the same reason; `pending_closes_`
  is a set, since `process_close_queue()` drops second entries and looks each descriptor up.
- **`ChatRoom`**: the abstract promise. A room whose members each have a feed; what is said is
  appended to all feeds at once and an answer to one; a member for whom something was left out is marked, and nobody
  leaves before the marked.
- **`Delivery`** (extends `Reactor`): the streams of the clients as frames, their invariants, the
  refinement mapping to `ChatRoom`, fairness and the liveness properties. A stream is looked at by the
  positions where messages begin (`Heads`, `TextsIn`, `OwnIn`), not by filtering it, so that it can be
  reasoned about; `OneOrder` and `AnswersInOrder` say of those positions what stands there, in which
  order, and what must not be missing.
- **`WebsocketFrame`**: `try_consume_frame()` and `pack_data()` as operators on header bytes, byte
  for byte. No recursion, so that it can be proved about.
- **`FrameReader`**: a client's byte stream cut anywhere, `append_read()` with its limit, and the loop of
  `drive_io()` over the codec. A read loop that meets more than the buffer holds ends the connection.
  It is what justifies the cells of `Reactor`: a message is taken when its last byte is there and not
  before, and the next begins right behind it. `starts`, a history, has the place where each frame
  begins, so that no sum over frames has to be taken.
- **`Workers`**: `main()` and the life of the processes.
- **`Handshake`**: the request as tokens (CR, LF, the key's name, words), cut into any reads;
  `fetch_http_info()` line by line, as a function of the turns of its loop. It stands alone, so that it can
  be proved about; the answer, the base64 of the digest of the key, is `Accept` in `Sha1`.
- **`Sha1`**, **`Md5`** (over `Words`, 32-bit words as two halves): the digest objects. Their state is
  the list of blocks processed, the block being filled and the counters; the words `H` and `abcd` are
  the fold of the compression function over that list. `Words` uses bitwise operators, so nothing that
  reaches it is proved about.
- **`Conditional`**: a step is a section of code under the mutex; a wait that sleeps leaves it and comes
  back in `Return`. **`Semaphore`** is what the threads expect: a signal is a permit.
- **`DebugTrace`**: `TRACE` from `Lock` to `UnLock`, part by part. **`HttpClient`**: a request over a
  blocking socket, with the server's moves between its calls. **`Configure`**: `load()` and
  `GetStrParam()`, which hold two copies of one loop. **`UrlText`**: the URL
  encoding and the query, and, as variables, any texts to encode, there and in base64.
- **`MongoClient`**: the wrapper's calls over the driver, the messages under way on each connection ever
  made, a server that takes them in order, and breaks that lose any tail of them. **`MongoCursor`**:
  the rows of one find. **`ReplicaSet`**: the search for the master.
- **`GridFile`**: gridfs.c as functions on the handle and the chunks, with a server that stops answering
  in the middle of a call. **`ByteFile`** is what it promises: bytes and a position.
- **`Bson`** (extends `BsonText`): documents octet by octet, as they are built and as the iterator reads
  them, with the buffer and the stack of open objects; the checks of UTF-8, names and ids.
- **`JsonValue`** (values and their conversions), **`JsonTree`** (comparison and paths, which recurse into
  values), **`JsonReader`**, **`JsonWriter`**: the JSON library as operators on characters and values. **`JsonGrammar`**: the grammar as an automaton to hold the reader
  against. **`JsonArray`**: a value used as an array, with **`JsonList`** as what it promises.
  **`JsonOwnership`**: who owns which text.
- **`DeliveryProofs`** (of `Reactor` and `Delivery`) and **`OrderProofs`**, which extends it,
  **`ServerProofs`** (of `FrameReader` and `Workers`), **`HelperProofs`** (of `Conditional`, `DebugTrace`,
  `Handshake`, `Configure`, `UrlText` and `Base64`), **`MongoProofs`** (of `MongoClient`, `MongoCursor`, `ReplicaSet`), **`GridProofs`** (of
  `GridFile`), **`JsonProofs`** (of `JsonOwnership` and `JsonArray`): theorems, see section 5. **`Induction`**: the lemmas by which they
  speak of loops and recursive functions.
- **`MC*`**: instances for TLC.

Components that share no state are checked in one run: the module `MCServer`, `MCHelpers`, `MCJson` or
`MCMongo` has a variable `part` that says which of them moves in a behaviour, the others stay in one
initial state, and the fairness is that of the part that moves. A behaviour of the whole would only
interleave them.

Definitions named as mutants (each directly above the definition they are variants of) are not used by
any specification. Each property has one: the definition with a plausible bug, with which TLC finds the
property violated.

## 3. Runs

| Run | Configuration | Shows |
|---|---|---|
| `structure` | `MCReactor` | Two symmetric clients that may do everything, two messages each. `TypeOK` with the buffer limits, `Descriptors`, `FreshEvents`, `Registered`, `WriteInterest`, `Doomed`. |
| `streams` | `MCStreams` | One client that talks (texts of one and of two cells, pings) and may go on behind a Close, one that listens and may leave. `WellFramed`, `OneOrder`, `AnswersInOrder`, `StreamsOnlyGrow`. |
| `room` | `MCRoom` | Three clients on two descriptors, so that a descriptor is reused by a newcomer while the others go on; two of them speak. `ImplementsRoom`. |
| `progress` | `MCProgress` | Fairness: `FinishedIsClosed`, `DoomedIsClosed`, `OutputDrains`, `TextIsSaid`. |
| `queue` | `MCQueue` | More clients than descriptors (EMFILE): `FinishedIsClosed`. |
| `busy` | `MCBusy` | Finding: `PongIsSent` is violated. |
| `parting` | `MCParting` | Finding: `TextBeforeFinIsSaid` is violated. |
| `server` | `MCServer` | Frames: `FramesInStep`, `NothingLeftBehind`, `RefusedRightly`, `EchoReadsBack`, and `FramesTaken` under fairness, with the real limits of a payload (1 MiB) and of the read buffer, and lengths at each border. Workers: `WorkersKept`, and `WorkersEnd` under fairness. |
| `helpers` | `MCHelpers` | Threads at a condition: `ConditionalSafe` and `SemaphoreSpec` (a refinement); waits and requests that end: `WaitsAndRequests`; the log: `LogKept`; `HandshakeRight`, `DigestsRight`, `ConfigRight`, `TextsReadBack`. |
| `json` | `MCJson` | `JsonRight` (the reader follows the grammar with comments but for two places where it refuses one; what the writers write it reads back; order, conversions and paths of values), `OwnedOnce` (texts and their owners), `ArrayIsList` (a refinement). |
| `json_numbers` | `MCJsonNumber` | Finding: `LargeIsDouble` is violated. |
| `mongo` | `MCMongo` | `CallsRight` (the wrapper's calls), `RowsRight`, `FileIsBytes` (a refinement) and `WholeChunks`, `DriverRight` (documents, checks of texts, the replica set), `MongoEnds` under fairness. |

**Bounds.** Two clients and two descriptors suffice for every relation the structural invariants speak
of (a speaker and another, a closing and an accepted connection), and with `MaxEvents` 3 (two
connections and the listening socket) a batch holds all that can be ready; where `MaxEvents` is 2 a
part of it waits. The limits are chosen so that all of them are reached: a write buffer that holds
one or two messages and a send window of one cell make partial sends and dropped frames frequent,
`MaxRead` of three or four cells is exceeded when cells arrive during a drain, `MaxHandshake` of two
cells is exceeded by a frame behind the request. `room` needs the third client for a descriptor that
changes hands while the others go on.

- `server`: the frames are those next to each border (0, 125, 126, 65535, 65536, the limit, one
  beyond), in every encoding that can hold them; a stream has two, so that an error in one shows in
  the next, and two of the greatest payload are more than the read buffer holds; reads end after each of the first sixteen bytes of a frame, before its last byte and after
  it. `Workers` asks for -1, 1, 2 and 5 workers of at most 3.
- `helpers`: three threads, so that one can come between a signal and the waiter it woke; two signals
  and three waits, so that one waits in vain. Requests of up to four header lines and every cut. Digests
  of the prefixes of a text beyond three blocks, fed in calls of 1, 8, 55, 56, 64, 65 and 129 octets,
  with the counters wrapping at 768 bits and 2048 (2^32 in the code), and compared with published
  digests of the same text at 0, 55, 56, 60, 64 and 130 octets. Files of three statements of every
  kind. Texts of up to four octets, one of each class the code tells apart.
- `json`: documents of up to seven tokens, nested twice, with comments and bad tokens; 4-bit and 8-bit
  integers in place of 32 and 64, so that every border of a conversion is met; arrays of up to four
  indices.
- `mongo`: two calls, a write (insert, delete and update are one path) or a question, over up to three connections, two of which break at any moment: the least in which
  a call finds what the call before left behind. Results of up to four rows in batches of any size. A
  file of two-byte chunks and up to four bytes, with a server that answers none, one, two or all of
  the requests of a call. Documents of three appends with a buffer that must grow and a stack of one. Two
  seeds and three members of a replica set, of which one is of another set, with two changes.

The proofs remove the bounds for what they cover.

**Deadlock** is not checked (`CHECK_DEADLOCK FALSE`): with all clients quiet the server sits in
`epoll_wait` for ever, which is right, `main()` ends, and the programs of the library's models make a
bounded number of calls.

**Fairness.** `WF_vars(ServerStep)`: the process's only thread blocks nowhere but in `epoll_wait`
with nothing to report, so it runs when it can. Nothing is assumed of the choice of ready events in a
batch or of their order. Clients: `WF` on `Arrive` (what is written arrives) and on `Receive` (a
client takes what it is sent); that a client sends, ends or resets is never assumed. `FrameReader`:
weak fairness of the reader. `Workers`: of each process's own steps and of the delivery of SIGTERM;
no process ends unless it must. `Conditional`: a thread leaves a mutex it holds, gets one it waits for in
the end (strong fairness, as of any mutex in use), and deadlines pass; that somebody signals is never
assumed. `HttpClient`: the client alone; its receive timeout is what makes it end, whatever the server
does. `MongoClient`: the program, and a server that answers on a connection that holds: the driver sets
no timeout, so without this a call may wait for ever. `ReplicaSet`: the program; what a host answers
is the host's.

## 4. What the runs found

1. *`epoll_loop` starves output* (network_interface.cpp:275). EPOLLOUT is handled only in the
   else-branch of EPOLLIN. A client whose input is readable at every `epoll_wait` is never sent its
   Pong, against README.md:105 ("回复 Pong（同连接）"). Run `busy`.
2. *A text followed at once by FIN is lost* (network_interface.cpp:269). The read loop that meets the
   end of the stream skips `drive_io()`, and whole frames it has just read are neither echoed nor
   broadcast, against README.md:104. Run `parting`.
3. *Large JSON integers wrap around* (json_reader.cpp:589). `decodeNumber()` looks at the last digit
   even when the digits before it already exceed the threshold, so an integer just above the largest
   is taken for a small one, against the comment in json_reader.cpp:565-567 ("If the number is larger
   than the maximum supported value of an integer then we decode the number as a double"). Run
   `json_numbers`.

Other behaviour of the server the models show, about which the repository promises nothing: a client for which a
frame was dropped may still receive shorter frames until the batch ends (so `OneOrder` asks only for
the order of such a client's stream); frames behind a Close are still answered within the same
`drive_io()`; a client is registered when its 101 is queued, not when it is sent (the comment in
websocket_handler.cpp:4 speaks of sending; in the stream the 101 always comes first, which
`WellFramed` states); with no descriptor left the loop spins on the readable listening socket; a dead
worker is not replaced and a killed parent leaves its workers; the 64 KiB limit of the handshake counts
the frames behind it; a missing key is answered as an empty one; an empty line after a line that ends
in a bare LF ends the reading of the headers.

In the library, met while modelling; the properties are stated so as to say what does hold:

- `Conditional`: a spurious wakeup or a broadcast lets two waiters take one datum, and a timed wait does
  not read the count (CriticalSection.cpp:170-185). `SemaphoreSpec` is about threads that use
  `signal(false)` and `wait(0)` alone and are not woken for nothing.
- `CDebugTrace`: a prefix shorter than the one before leaves the tail of the old name (debugtrace.cpp:230).
- `HttpClient`: one `recv()` only, so an answer that does not say its length is cut short and still a
  success (85, 234); a host without a port never resolves (51-60); raw `-`, `.`, `_` are dropped by
  `UrlDecode`, and lowercase hex digits are misread (399-407).
- `Configure`: an empty line makes the code read `line[-1]` (147, 235); if that byte is a backslash the
  next line is joined to it. `ConfigRight` excludes files where that has happened (`strayed`). A last line
  without its newline is not read and makes `load()` fail, but not when it is empty (128, 184).
- `MongoClient`: a retry may apply a write twice (`AtMostTwice`), and a message of a connection given up
  may be applied after the call has returned (`Settled`); `recv` has no timeout; a `send` after a failed
  connect goes to descriptor 0; EPIPE leaves the socket open for good.
- `MongoCursor`: after a failed get_more the reply is read and freed again (mongo.c:1270-1279);
  `mongo_cursor_next` looks into the cursor before it asks whether it is NULL (1367-1369).
- `ReplicaSet`: a search that ended without a primary and is begun again appends the hosts again; a
  host of another set leaves the call with its socket open (mongo.c:606); the socket of a host that is
  not master is closed twice (618, 672).
- `GridFile`: four kinds of calls lose or skip data, and `Careful` keeps the caller from them: a write of
  a whole chunk at the start of the chunk that is pending (the old bytes are flushed, under the next
  number, behind it); a write at the start of a chunk while the one before is pending and full; a
  truncate to the start of the pending chunk (its bytes come back); a read that begins in the pending
  chunk and ends behind it. After the last the position has moved twice over what came from the pending
  chunk (`gfile->pos += realSize`, gridfs.c:937, and again in 953), so the next read skips as many
  bytes, where gridfs.h:383-384 says that a read "updates the position in the file"; `gridfile_write_file`
  reads that way when it begins in the middle of a pending chunk. Each of them, let in alone, makes TLC
  report `FileIsBytes` violated within five steps; `Careful = FALSE` lets in all. A read whose find is
  not answered ends the program: `gridfile_read_buffer` takes the chunks from a cursor that is NULL
  (gridfs.c:949), which `mongo_cursor_next` looks into (mongo.c:1367); the model then takes the file for
  lost. `gridfs_remove_filename` does not ask whether the entry was removed (382), and may remove it and
  leave the chunks. `gridfs_store_buffer`
  and `gridfs_store_file` drop the result of `writer_done`, and shorter data stored under an old name
  keep the old tail.
- `Bson`: `bson_append_finish_object` without an object and `bson_ensure_space` overwrite the error flags
  (1044, 715, 721); an embedded document is not looked at for errors; F4 before an octet below 80 passes for
  UTF-8, as do surrogates (encoding.c:86-92).
- JSON: `asInt` and `asUInt` throw for a value `isConvertibleTo` says is an integer, when it is wider than
  32 bits (json_value.cpp:697, 920); a comment before a colon and one in an empty array are refused
  (json_reader.cpp:474, 515), while comments between other tokens are taken; `resize` of an array with holes fails its assert (json_value.cpp:1061); after a comment behind a
  member the reader takes any token for the comma (json_reader.cpp:497); `{"":1,}` and text behind the
  root are accepted; `-` reads as 0; comments before a member that is not the first are read back as
  comments of the one before; infinities are written as no JSON.

## 5. Proofs

| Module | Proved of every instance | Properties of section 3 among it |
|---|---|---|
| `DeliveryProofs` | the tables, the masks and the events; whole frames; the room is implemented | `TypeOK`, `Descriptors`, `FreshEvents`, `Registered`, `WriteInterest`, `Doomed`, `WellFramed`, `StreamsOnlyGrow`, `ImplementsRoom` |
| `OrderProofs` | the order of texts and of answers | `OneOrder`, `AnswersInOrder` |
| `ServerProofs` | the codec; the loop over the buffer and the codec together; the processes | `FramesInStep`, `NothingLeftBehind`, `RefusedRightly`, `EchoReadsBack`, `WorkersKept` |
| `HelperProofs` | threads at a condition: the mutex, the queue, the count, the deadline; the log; the upgrade request; the ini file; URL encoding, queries and base64 | `ConditionalSafe`, `SemaphoreSpec`, `LogKept`, `HandshakeRight`, `ConfigRight`, `TextsReadBack` |
| `MongoProofs` | the wrapper's calls; the rows of a result; the replica set | `CallsRight`, `RowsRight`; `ReplicaRight` within `DriverRight` |
| `GridProofs` | the GridFS file: right chunks; a file of bytes is implemented | `WholeChunks`, `FileIsBytes` |
| `JsonProofs` | the owners of JSON texts; a value used as an array | `OwnedOnce`, `ArrayIsList` |
| `Induction` | induction over the natural numbers, and what a recursive function is | |

Each takes the assumptions of the module it is about and no others. Most say of a bound that it is a
number. Those that say more: `Size["switch"] <= MaxWrite` (the 101 fits in an empty write buffer: it is
about 130 bytes, the limit 4 MiB; if it did not, the code would register a client that never gets it);
`Fits` of a frame a client writes (its length can be written in the extended length it chose; other
frames do not exist as bytes); `MaxPayload <= 2^31 - 1`; `MaxReadBuffer >= MaxPayload + 14` (a frame of
the greatest payload fits in the read buffer with its header, as the constants of the code are chosen); `MaxBuff > 0`; that no call both writes and
only asks, nothing is a value and an object, and no block has the address of a static text or of the
caller's; and that `NoClient`, `NoThread` and "nobody" are not among those they stand beside. TLC
evaluates all of them. `FilesAreRead` and `PlainFilesAreRead` say what a file may hold (below). The theorems of `GridProofs` take `Careful`, which is a constant: they are about
callers that avoid the four kinds of calls of section 4, for which they do not hold.

### The reactor

The inductive invariant of the reactor, the first half of `DeliveryProofs`, is

    IInv == TypeOK /\ Waiting /\ Descriptors /\ FreshEvents /\ Registered /\ WriteInterest /\ Doomed

None of the parts is inductive alone. `FreshEvents` needs `Descriptors` (an accepted descriptor is new
to the table, so no event of the batch names it) and `Descriptors` needs `FreshEvents` (the connection
served is still open). `WriteInterest` needs both: a mask is refreshed only for handlers that exist,
and the buffer being flushed has no other event in the batch. `Waiting` is what is missing: the
backlog holds each waiting client once, and no client that was ever served, without which `accept()`
could give a second descriptor to a client or a connection to a client already marked `lost`, and
`Descriptors` and `Doomed` would fail. The proof has a lemma on types (`ServerType`), one per kind of
action for the rest (`OtherInv`), and lemmas on the pieces of buffers and on `Output`.

### The streams and the room

    StreamInv == IInv /\ Authentic /\ Quiet /\ Greeted /\ WellFramed

`Authentic`: what stands in a connection's buffers was written by its client, so an answer goes to who
asked. `Quiet`: nothing is in the stream of a client that was not upgraded, so the 101 is its first
frame; `Greeted`: something is in the stream of one that is registered, so a broadcast is never the
first. `WellFramed` then follows step by step: only four kinds of steps change a stream (`StreamSplit`).
An answer adds the cells of one message at the end, or nothing; `send()` moves cells from the buffer to
the kernel and leaves their concatenation; a close cuts it to what the kernel has.

`ReactorImplementsRoom` uses the same split. `RoomInitially` maps the initial states; `RoomSteps` maps
an upgrade to a join (`UpgradeJoins`), a text or a ping to a telling in which those it does not fit are
marked (`ReplyTells`), `send()` to passing on (`SendPasses`), the end of a batch to a leave (`EndLeaves`:
`Doomed` gives that all marked members are among those who go), and everything else to a stutter.

### The order

`OneOrder` and `AnswersInOrder` say what a client has been told. To stay true they need what is still to
come, and the inductive invariant of `OrderProofs` is

    OrderInv == StreamInv /\ Idle /\ LogOnce /\ LogKnown /\ \A c \in Clients : ClientRight(c)

`ClientRight(c)` is `Told` (`OneOrder`, of one client), `Replied` (`AnswersInOrder`, of one client) and,
for a client the server may still look at (`Attended`), `Incoming`: all that the server has of c and has
not handled, in the read buffer, in the kernel and in c's own hands, is one sequence of whole messages
(`InFrames`), numbered upwards as c sent them, all of them later than those answered or said, and none
missing between unless a frame for c was dropped. A read moves the border between two of its three
parts, a send adds a message at its end, `drive_io()` takes one from its front: so what is handled next
is exactly the next one sent (`HeadNext`), the text it says is new in the log (`TextIsNew`) and the
answer comes after all answers before it. `Attended` is needed because a connection in the close queue
loses what is unread, and a later step must not be asked for it; that nothing attended was given up
before (`AttendedBefore`) is why `Idle` is there: nothing is queued for closing while the process waits.
`LogKnown` and `LogOnce` make a text of the log name the message it came from. The lemmas on sequences
(`HeadsAppend`, `HeadsFront`, `ConsumedRest`) say where messages begin when one is appended, when a
stream is cut and when the front one is taken.

### The codec and the loop over the buffer

`ServerProofs` proves of the codec, for every header of bytes, every buffer size and every
limit up to 2^31 - 1: more bytes do not change a verdict (`PrefixDecides`); the verdict depends only
on the bytes that are there (`NoOverread`: no read of `p[i]` beyond `n` matters); and what
`pack_data` writes `try_consume_frame` reads back, exactly when its last byte is there (`RoundTrip`).
Around it stands the loop of `drive_io()`:

    ReaderInv == ReaderTypes /\ StartsRight /\ TakenRight /\ ClosedRight /\ RefusedRightly /\ NothingLeftBehind

`StartsRight` ties the places in the stream to the frames written, `TakenRight` says that what was
consumed ends where the frames taken end: the buffer therefore begins with the next frame
(`BufferHolds`), whose header is the one the client wrote as far as it has arrived, and `NoOverread`
with `PrefixDecides` makes the parser's verdict the one on the whole frame. `append_read()` ends a
connection whose frames are all legal when the client is ahead by more than the buffer holds;
`RefusedRightly` is that nothing else does, and that this takes at least two frames not yet handled: the
assumption on `MaxReadBuffer` is what makes that true. `EchoReadsBack` joins `RoundTrip` to what was taken.

### Processes, threads and the log

`ServerProofs`, of `main()`: `WorkersInv` adds to `NoOrphans` that workers are numbered in the order of
their forks (`KidsInOrder`), that only what was forked exists (`OnlyStarted`) and what the phase of
`main()` says of their number (`PhaseRight`).

`HelperProofs`, of threads: `CondInv` is the mutex, the types, that finitely many threads are inside `wait()`
(no assumption is made on their set) and, for threads that use it for items, `Counted`: posted less
taken is `miDataCount` plus those inside `wait()`, and while there is a queue the negated count is its
length. From it every signal that finds a queue wakes one (`NoSignalSleeps`), and each step is a step of
`Semaphore`. `DeadlineCorrect` is proved for every clock reading and timeout.

Of the log, `TraceInv` adds to the three parts of `LogKept` who is in the section, that what is in
the one buffer is of that thread and comes before what it has still to print (`BufferOfOne`,
`PartsInOrder`), and that lines are finitely many, since `NoLineLost` counts them. A part for which the
buffer has no room is left out, the newline like any other, so two lines of a file may stand on one.

### The ini file

    CfgInv == ~strayed => the lines left are those of the statements not read, and what is kept of
              the statement begun (Put); section, loaded and value are what the statements read so
              far say (Told); at the end all but a last line without its newline was read

`ConfigRight` is of whole files, and what makes it hard is the state the loop of `load()` and
`GetStrParam()` carries from line to line. `FilesAreRead` shows that nothing else is carried: if each
statement, read alone in any section, is read as what it means (`Legible`), then so is every file of such
statements, whatever their number, unless a backslash before `line[0]` was read with an empty line (`strayed`).
`Put` places the reading by a number of statements and one of lines
of the next; it needs that a statement has a line and that all but its last are read on, which is part
of `Legible`. `EntriesOneMore`, `SectionOneMore` and `AnswerOneMore` say what one statement more adds.

`PlainFilesAreRead` gives the statements. It is proved of `strstrip`, `StripEnd`, `UpTo` and
`iniparser_line` for texts of any length, that a statement is legible if it is *plain* (`PlainItem`):

- a section, `[` name `]`, whose name has no `]`;
- an entry, key `=` value, whose key has no `=` and begins with neither `#` nor `[`; its value is
  missing, or has no `;` and no `#` and begins with no quote, with a remark behind it perhaps, or is
  quoted, without that quote in it, with anything behind it (two quotes within quotes are no value);
- a comment, which begins with `#`, or nothing but spaces;

with spaces wherever the code takes them off, and cut anywhere into lines that end in a backslash with
spaces behind it; the statement itself does not end in a backslash. Names, keys and values are texts of
any tokens without spaces at their ends; that a line has at most 1023 bytes is an abstraction of the
module (section 6), not of the proof. Eleven of the fourteen kinds of statements of the run `helpers` are
plain. `k = ''`, `k = # remark` and a line that is no statement are not; they are legible, which only
the run shows, and `FilesAreRead` takes them.

### The encodings

`UrlTextsReadBack`, `Base64ReadsBack`, `Base64IsRfc4648` and `QueriesReadBack` are of texts of any
length, and make up `TextsReadBack` (`TextsAlwaysReadBack`). Both writers put the code of one
octet, or of three, behind the other; `FlattenIs` and `FlattenEven` say where each code begins. Of the
URL encoding, `UrlCodeReadsBack` is that where a code stands one turn of `UrlDecode` gives its octet and
goes on behind it, and the theorem follows from the last code to the first. Of base64, `EncodeIs` says
which characters are written, the octets that are not there counted as zeros, and `DecodeIs` that whoever
finds these characters, and then nothing or a character that is none of `base64_chars`, reads the octets:
the bytes `base64_decode` fills up with touch only octets it does not return. That the characters are the
octets bit by bit is arithmetic of the 24 bits of one group (`BitsOfFour`), put at its place by `EncodeIs`.

A query is names and values encoded, with separators between. `EncodedIs` is that no code contains a
separator, so that `Param` cuts a piece where it was put together (`WrittenIs`). The pieces are found one
after the other, each behind the separator found last; by induction over them each search ends where the
next text was placed (`FindIs`, `PiecesAreTexts`). The map takes the last of a name; because `UrlEncode`
has an inverse, two names have the same code only if they are the same (`MapIsDecoded`). The query of no
pairs is the empty text, one piece that is no parameter (`EmptyPiece`).

### Induction over data

The induction theorems of the proof library take the property as a parameter, which the provers here
cannot instantiate. `Induction` states the same as facts about sets: a set of numbers that contains 0,
and n + 1 with each n, contains all up to the bound (`InductionOn`); a set that is not empty has a least
element (`LeastOf`), a bounded one a greatest (`GreatestOf`). They follow from the well-foundedness of
the order of `Nat`, which is a library theorem, and a property is used by taking the set of the numbers
that have it. `RecursionOn` says that a function defined by recursion on a number has, at each place,
the value its equation gives: there is such a function on each interval, so the one that CHOOSE takes
satisfies the equation. Loops of the code over data are therefore modelled as functions of the number
of turns, where a loop is to be proved about.

### The upgrade request

    HandInv == HandTypeOK /\ HandshakeRight

`HandshakeRight` is inductive with the types: until a blank line is there, `readBuf` is all that arrived
and has none, so that the read that completes it decides on the whole of the headers, whatever the reads
before were. What is hard is the loop: `fetch_http_info()` reads lines, keeps the last value and stops
at the first empty line, while the property speaks of places in the headers. `StandsAt` ties the two: after a turn
the loop stands behind the end of a line (`TurnOf`), its key is that of the last key line before this
place, and by induction over the turns (`KeyFromTurns`) it ends at the first empty line, which the
blank line at the end of the headers guarantees to exist.

### The MongoDB client

    ClientInv == ClientType /\ OneSocket /\ Running /\ Stamped /\ OnePlace /\ Counted /\ InTurn
                 /\ OnTheWire /\ Untouched /\ Settled /\ Acknowledged

`CallsRight` speaks of what the server did for a call after it has returned; the server may still hold
messages of it on connections that were given up. `OneSocket`: all connections but the last are broken,
so nothing the client reads comes from an older one. `Stamped` and `OnePlace`: every message under way
was sent by one try of one call, once; `Counted` adds those under way to those applied and has one for
each try, which is `AtMostTwice` and stays true when the server takes one. `InTurn` and `OnTheWire` say
for each place in a call what is on the connection that holds: that a reply is the one asked for
although `responseTo` is not looked at, and what `getlasterror` will say is true of the write before it
(`Told`). `Untouched`: a first try that failed on a connection that is alive was not applied, which is
why a call that returns false without a reconnect left nothing behind (`Settled`). The proof has one
lemma for each kind of step, and lemmas on a queue that gets or loses a message (`Shrinks`).

    CursorInv == CursorType /\ Front /\ Place /\ Parted

`Front`: the rows fetched are 1 to n in their order, `Place`: the reply at hand and the count of those
seen fit what was fetched, and the server keeps its cursor exactly while there may be more, `Parted`:
what can go wrong has gone wrong only after the connection broke. Batches are of any size.

    ReplicaInv == SetType /\ Clean /\ Asked /\ ReplicaRight

`Clean`: a search holds nothing of an earlier one but the list of hosts. `Asked` is what makes the end
of a search mean something: as long as nothing failed or changed, the seeds asked so far are down, the
hosts asked so far are down, of another set or not the master, and the list contains every member
unless no seed could be had.

### The GridFS file

    FileInv == types /\ (mode # "lost" => Right(Seen) /\ ContentLength(Seen) <= MaxLen /\ ...)

A file is right (`Right`) when the chunks in the server are all those of its length and each as long as
it has to be (`Whole`), when the pending chunk, if there is one, begins within the file or at its end,
not behind the position, and is at least as long as the chunk in the server it stands for
(`PendingRight`), and when the position is within the file. Were the pending chunk shorter than the
server's, a flush would cut the file; did it begin behind the position, a read of the server's chunks
would miss what is pending. Of a right file every byte has a place (`BytesAre`): the piece it lies in is the pending chunk or one of the server's.
Two states with the same pieces have the same bytes (`SameBytes`), and a state whose pieces are those of
another but for a stretch has the bytes written over there (`Overwritten`); no proof but of these two
speaks of `BytesOf` itself. `mode` is "lost" once a truncate, an expand or `writer_done` gave up half way
or the program ended in a read: of such a file nothing is claimed.

Each step of a call keeps the file right and says what it did to the bytes: a flush nothing
(`FlushKeeps`), the fill of a pending chunk, the whole chunks past it and the rest each write a part of
what was given (`HeadIs`, `FullKeeps`, `TailIs`), so a write puts all of it or a front of it into the file and
tells the caller how much, or 0 (`WriteIs`). A cut leaves the front of the file (`TruncateIs`): its last
chunk is loaded, cut and flushed before the chunks behind it are removed. `gridfile_expand` writes zeros
up to the end of a chunk at a time, `gridfile_get_chunks` takes a chunk at a time and
`gridfile_write_file` reads one at a time: their loops are functions of the turn (`ExpandTurns`, `ChunkTurns`,
`ReadTurns`), and what they have done after k turns is proved by induction (`ExpandTurnIs`, `GatheredIs`,
`ReadTurnIs`). From these `FileStep` has, for each call, that the file stays right and that the call is one of
those of `ByteFile`, or loses the file where the code gives up half way. A request may go unanswered in
any of them: `ReadIs` is that a read did its work, or a front of it and says so, or ended the program;
`RemoveStep`, that a remove took the file away or changed nothing the program can see.

`Sound`, `ReadsSoundly` and `CutSoundly`, which a careful caller keeps to, are used just where they are
needed: in `WriteIs`, that the pending chunk is the one of the position and is not overtaken by whole
chunks; in `ReadIs`, that a read ends with the pending chunk it began in; in `TruncateIs`, that the chunk cut
is the pending one. `gridfile_expand` and `gridfs_store_buffer` need none of their own: they write where
the file ends or where nothing is pending (`SoundAtEnd`).

### JSON: the owners of texts, and arrays

    OwnInv == OwnType /\ OwnedOnce

`Owned` gives for each value and each name the block it would free. Every operation but `swap()`, in
which two owners exchange what they own, is one kind of move: one owner gets blocks just allocated, and
those it had are freed together with those of keys that only lived during the call. That a move keeps
`OwnedOnce` is proved once (`Moves`).

`ArrayImplementsList` shows that a value used as an array, which the code keeps as a map from indices,
is a list: it is null, or the array of a function on some indices below `MaxLength` (`ArrayInv`), and the
list has its values where it has an index and null in the gaps. Its length is one more than the greatest
index (`TopIs`), so an assignment behind the end makes the list longer and `resize` cuts it.

### Only model-checked

- Everything under fairness (`progress`, `queue`, `FramesTaken`, `WorkersEnd`, `WaitsAndRequests`,
  `MongoEnds`): liveness and ENABLED are beyond the prover.
- `DigestsRight`, `JsonRight`, and of `DriverRight` documents and checks
  of texts: parsers, writers and digests written with recursive operators and bitwise words, which the
  prover cannot look into; they are compared with reference definitions and published values.

## 6. Abstractions

- In `Reactor`, payloads, masking keys and the text of requests are kinds and lengths. A frame "broken"
  is one whose header is refused; `FrameReader` has the real headers and `Handshake` the request's lines.
- Each client connects at most once: a reconnecting client is another client.
- `ENFILE`, failures of `epoll_ctl`, `setsockopt`, `fcntl` and `malloc`, which the code logs or
  ignores, do not happen. No signal handler is installed anywhere, so
  `EINTR` does not happen; `epoll_wait` would be repeated, while the MongoDB driver would take it for the
  failure of its connection (env.c:237-257).
- The close of a connection discards what the kernel has not delivered in the model's `writing` and
  `toServer`; `got` counts what the kernel took from the server.
- In the server logging is left out.
- The text of a trace line, of an HTTP answer and of a statement of an ini file is tokens or counts, as
  far as the code tells them apart; octets where an encoding or a digest is what is checked.
- The lines of an ini file, joined where one is read on, fit in `line[]` (`ASCIILINESZ`); a longer one
  ends `load()` like a last line without a newline.
- A double in JSON is a number of tenths.
- The chunks a GridFS read asks for come in one reply. A request that is not answered is not carried out
  either, and none after it in the same call is answered. `Open` finds the entry of the file if there is
  one: in the code a find that is not answered there makes a writer begin a new file of that name.
- A MongoDB server is one that applies or refuses what it is sent, in order, and keeps a cursor while
  there may be more. A replica set's hosts answer from one view of who is master.

**Not modelled.** `Debug_LOG` and `Tools/`: one line of output each, a clock, a directory. Of the driver:
users and authentication, indexes, capped collections, the layout of messages (its fields, not their
order, which is modelled), typed accessors, printing. Of JSON: the internal array and map and the batch
allocator, which are not compiled; iterators; the wording and the place of errors. `CDebugTrace::Flush`,
which is not compiled either. The test scripts and the test page drive the server from outside.

## 7. Plan

*Wider models*: two threads on one `CMongodbConnection`, which has no lock; several GridFS handles on
one file.
