# A TLA+ model of websocketfiles

websocketfiles is a small C++ WebSocket library (a packet class, an endpoint
class and their helpers) with a demo echo server on libuv.  This directory
models the code under `src/src` in TLA+, checks it with TLC and proves part of
it with TLAPS.  Source references below are relative to `src/src`.

## 1. The system

| part | state | operations | talks to |
|---|---|---|---|
| `ByteBuffer` (ws_packet.h/.cpp) | a byte vector and a read cursor `oft` | `append`, `erase`, `skip_x`, `read_bytes_x`, `curat`, `require`, `resetoft` | everything that parses |
| `WebSocketPacket`, frames | one frame's header fields, key and payload | `recv_dataframe` (`fetch_frame_info`, `fetch_payload`), `pack_dataframe`, setters | reads and advances the caller's `ByteBuffer` |
| `WebSocketPacket`, handshake | request line, header map, `hs_length_` | `recv_handshake` (`fetch_hs_element`), `pack_handshake_rsp` | strHelper, SHA1, Base64 |
| `WebSocketEndpoint` | `fromwire_buf_`, `message_data_`, `ws_handshake_completed_`, `nt_write_cb_`, `nt_work_data_` | both `process` → `from_wire` → `parse_packet` → `process_message_data` → `user_defined_process` → `to_wire` | a new packet per parse; calls back into the owner |
| demo server (main.cpp) | per connection a `uv_tcp_t`, a `peer_state_t`, an endpoint; per read a `uv_work_t` and a `peer_work_data_t` with a request and a response slot | loop callbacks (`on_peer_connected`, `on_peer_read`, `on_work_completed`, `on_sent_response`, `on_client_closed`), pool callbacks (`on_work_submitted`, `on_work_client_closed`) | libuv's loop thread and thread pool |
| `strHelper`, SHA1, Base64 | none, or the hash state | `trim`, `splitStr`; `Update`, `Pad`, `Process`; encode, decode | the handshake |

What is hard in it:

* **Reassembly.** A transport cuts the byte stream anywhere.  `from_wire`
  buffers, and re-parses from the first unconsumed byte after each read, with a
  new packet whose fields are partly uninitialised.  Whether an unfinished
  header or request is recognised as unfinished decides everything.
* **Lengths.** Three length forms, unsigned cursor arithmetic, a throwing
  accessor at the end of the buffer.
* **Messages over frames.** Fragments share one buffer with control frames.
* **Text and arithmetic of the handshake.** A request is split at line ends and
  colons and judged line by line; the answer is a hash whose padding, word order
  and shared memory change with the length of the key.
* **One response slot per read**, while `process()` may answer several times.
* **Two threads and their memory.** Jobs, handles, endpoints and work data are
  created on the loop and freed on the loop or on the pool; nothing but the
  order of libuv's queues keeps uses in front of frees.

Each component is correct if: the codec writes RFC 6455 frames, takes back what
it wrote and nothing less than a frame; a request is answered exactly if a client
means it as a handshake, and with the accept key that this client computes; the
endpoint loses and repeats no byte, hands on exactly the messages that were sent,
answers each, and returns; a connection's answers are what its endpoint sent,
each in the work data of the read that it answers; the server uses no freed
memory, loses no work, answers in order and releases what it allocated.
`PROJECT.json` lists the hazards, each with the line where it bites and the
properties that would notice.

## 2. The modules

| module | models | how |
|---|---|---|
| `ByteBuffer` | the class | pure operators on `[data, oft]` |
| `WebSocketPacket` | frames | `FetchFrameInfo`, `RecvDataframe`, `PackDataframe`, `SetPayload`, byte by byte |
| `StrHelper` | the string functions | `SplitStr`, `Trim`, `Find` on sequences of bytes |
| `WebSocketHandshake` | requests and answers | `FetchHsElement`, `RecvHandshake`, `PackHandshakeRsp` on bytes; the constant `Text` holds the bytes of the names that the code compares with |
| `SecureHashAlgorithm` | the hash object | state machine: one byte of `Update` a step, `Final` in one block or two; `M` is memory that `Process` overwrites with its words; what mixes a block into `H` is a parameter |
| `Sha1Rounds`, `Word32` | `f`, `S`, `K` and the loop of `Process`; C's `uint32_t` | functions on words of four bytes |
| `Base64` | encode, decode and their length functions | functions on sequences of bytes |
| `RFC4648`, `RFC6455Accept` | the other end (external) | Base64, and SHA-1 (FIPS 180-3) with RFC 6455 1.3, written on bits and independently of the code |
| `HandshakeAnswer` | a packet between `recv_handshake` and the end of `pack_handshake_rsp` | composes request, hash and Base64, from request text to answer text |
| `WebSocketPeer` | the other end (external) | RFC 6455 written independently of the code: what the lines of a request say (`SaysRequest`) and whether that is a handshake (`MeansHandshake`), frame encoder, message assembly, and how much of a peer's bytes complete what |
| `WebSocketEndpoint` | the endpoint | state machine, below |
| `EchoService` | what README.md promises | abstract specification |
| `EndpointService` | | the refinement mapping from endpoint to echo service, what a peer's bytes and reads have to be for it, and the clients of which that is true (`PlainClients`) |
| `FrameCodec` | a packing and a receiving packet | state machine: the setters in any order, the payload in pieces, pack, then receive from ever longer prefixes |
| `DemoConnection` | one connection's response slot | composes the endpoint with `on_write_response` and `on_work_completed` |
| `UvServer` | main.cpp on libuv | state machine of loop, pool and memory, below |
| `WebSocketPacket_proofs` | | lemmas about the buffer's operations, and about packing and receiving a frame, byte by byte |
| `FrameCodec_proofs` | | theorems about `FrameCodec` |
| `WebSocketHandshake_proofs` | | theorem that a client's request is read as it is meant; induction and recursion for the other proofs |
| `HandshakeAnswer_proofs` | | theorems about the request, the hash, Base64 and the answer |
| `WebSocketEndpoint_proofs` | | theorems about `WebSocketEndpoint` |
| `EndpointService_proofs` | | theorems about frames, messages and the echo service, and that they hold of every client that sends a request and plain frames |
| `DemoConnection_proofs` | | theorems about `DemoConnection` |
| `UvServer_proofs` | | theorems about `UvServer`: types, freed memory, the order of answers, the ownership of work data |
| `MCRequests`, `MCEndpoint`, `MCHandshake`, `MCCodec`, `MCDemo` | | instances for TLC |

Definitions whose comment begins with "Mutant" are mistakes that could have
been made in the definition behind them; each shows that one property of one
run notices it (`PROJECT.json`, "mutants").  No specification uses them.

### WebSocketEndpoint

The data members keep their names.  `nt_work_data_` is "own" if this call
brought it and "stale" if an earlier one did; the history `sent` has what was
passed to `to_wire` and with which of them.  `pc` stands for the position in
`from_wire`.  `Calls` says through which form of `process()` an owner passes on
what a peer sends; main.cpp uses the one with a callback only.

| action | code |
|---|---|
| `Process(size)` | `process` with a callback, with `FromWire` for `append`, ws_endpoint.cpp:46-64 |
| `ProcessPlain(size)` | `process` without one, :41-44: callback and work data stay as they were |
| `SkipRead(size)` | `process` with a NULL callback, :48-52: the bytes of this read are dropped |
| `RejectHandshake` | `recv_handshake` reported an error, :118-121 and :91-94; the buffer stays |
| `AwaitHandshake`, `AwaitFrame` | `parse_packet` returned 0, :83-87 |
| `AnswerHandshake` | :130-137 with the erase and the loop of :66-82 |
| `TakeFragment`, `TakeFinalFrame` | :154-166 with `process_message_data`, the echo, and the same erase and loop |
| `OverrunRequest`, `ThrowInPayload` | undefined access, uncaught exception: `pc = "dead"` |

`Peers` is a set of peers, each a request and frames with the bytes an RFC 6455
client makes of them; the run picks one and `Process` picks the size of each
read.  The accept key is a parameter here (`AcceptKey`), since `HandshakeAnswer`
computes it.  `received` and `consumed` are history: how much of the peer's bytes went
in, and how many were erased again.  `hs_length_` and `masking_key_` are never
initialised, so `UninitHs` and `UninitKeys` give sets of values and each parse
chooses one.  `user_defined_process` and `uv_buf_alloc_cpy` have no return
statement; the callers of the first ignore its value (builds at -O0, as the
Makefile's, return), the second is `OnPeerReadCopyFails` below.

### UvServer

A *job* names a read callback that queued work together with its `uv_work_t`
and `peer_work_data_t`; its type is that of the code, "data" (1) or "close"
(0).  `handle`, `peer`, `data`, `reqs` and `response` say which memory is
allocated; `wq`, `run`/`ran`, `wdone` and `writes` are libuv's queue, its
workers, the finished work the loop has yet to complete and the writes whose
callback is due.  Each callback of main.cpp is one action, split only by the
branch it takes; `WorkerTake`, `WorkerPost` and the order of queues are
libuv's.  A failed `uv_tcp_getpeername` (`OnPeerNameFails`), a `uv_write` that
is refused (`OnWriteRefused`) and one that fails later (`OnWriteError`) exit the
process, and a read whose bytes cannot be copied crashes it (`status`).  Use of
freed memory adds to `wild` and then goes unnoticed, or crashes or, in
`uv_write`, exits the process.

A handle ends in two ways.  One that was not accepted goes through `uv_close` and
is "freed".  One whose connection ended is freed by `on_work_client_closed`
without `uv_close`: it is "dangling", its descriptor stays open for the life of
the process, and it stays linked in the loop's queue of handles, where the next
`uv_tcp_init` or close callback may write to it (`UseHandleQueue`).
`ConnectionsReleased` is about the memory only.

What an endpoint computes is left open: `OnWorkSubmitted`
calls `on_write_response` once or not at all, `OnSecondResponse` stands for
more.

## 3. The runs

All bounds are constants of the `.cfg` files.

| run | question | bounds |
|---|---|---|
| `endpoint_messages` | Do messages come through as an echo service, wherever reads end behind the request? | up to three messages in one to three fragments; payloads of 0 to 3, 4 to 6, 125, 126 and 200 bytes; an oddly ordered and a refused request; reads end anywhere but in the header of a frame that is not sturdy (below) |
| `endpoint_stray` | Is the buffer sound, does `process()` return whatever comes, and what are the inputs that kill it? | requests of 1 to 8 lines, cut, blank, refused and longer than a `MaxHandshake` of 32 bytes; frames of every kind; all read sizes; every form of `process()`, mixed, with a NULL callback for at most one read of a connection; all uninitialised values |
| `handshake` | Is a request judged and answered as its client means it? | 16 key lengths that put the end of the hashed text around every place where a block or its padding changes, every order of three lines, blanks around every part of a line, repeated, empty and meaningless lines, missing and wrong ones, and texts that are no request: cut, with an early empty line, without a request line; all uninitialised values |
| `codec_short` | Is every frame form packed, recognised and taken back, however the packet was filled? | payload lengths around each change of form up to 65535, every order of the setters, cut within 15 bytes of either end; reserved bits in one packet |
| `demo_lockstep` | Does a client that waits get each answer once, in order? | handshake, text, two fragments, ping; all read sizes behind the request outside headers |
| `server` | Memory, order and release over all interleavings | 2 connections, 3 jobs each, 1 pool thread |

The bounds reach each branch of the code: both handshake outcomes, each length
form, masked and unmasked, the fragment and the final path, several frames in
a read and several reads in a frame.  The endpoint's state between two frames
is its open message alone, so three frames show what any number would; two
connections share the queue and the thread, three jobs each are two reads and
the teardown behind them.  A frame is *sturdy* if the code takes no part of its
header for a frame: what `endpoint_short_frame` shows for the others would
otherwise end every run.  In `handshake` the bit count wraps at `Wrap` = 2^30
instead of 2^32, which TLC cannot count to; no message comes near either.
`MaxHandshake` is small in `endpoint_stray` so that a request can exceed it.
`RequestsJudged` and `ClientAccepts` are about requests of whole lines that say
fields (`Plain`).  `handshake` has the other texts too, and whatever value in
`hs_length_`: for them that value decides whether there is an answer, which
`endpoint_split_request` shows for a cut request.
`process()` dies of two inputs, both in `endpoint_stray`: an empty frame without
a mask that ends the buffer, and a request that begins with nothing but lines of
blanks.  `DiesOfTheseOnly` says that it dies of nothing else, and of the first
always.
`CHECK_DEADLOCK FALSE` is set for the codec and the handshake, which end, and
for the server, which rests when all connections are gone.

Six runs have violations: the code does not do what a comment, an assertion or
README.md says.

| run | what happens |
|---|---|
| `endpoint_split_request` | a request in two reads is answered after the first: `hs_length_` is read without ever being set (ws_endpoint.cpp:123) |
| `endpoint_short_frame` | a header cut between its bytes is parsed as if it were complete, because no header read is checked (ws_packet.cpp:124-172); frames of 4 to 125 bytes happen to survive, which `PrefixIsNoFrame` shows |
| `endpoint_interleaved` | a ping between two fragments takes the first of them along |
| `codec_long` | the eight-byte length is never assigned |
| `demo_coalesced` | two messages in one read end the server |
| `server_stale_handle` | teardown frees the handle in front of a finished answer |

Also seen in the model, without a run: a fragmented message is echoed under the
opcode Continue (which is why `MessagesDelivered` speaks of opcodes for messages
of one frame only); the subprotocol in an answer is always "chat", whatever the
client offered (ws_packet.cpp:89); a masked packet can be packed only once,
because packing reads its payload through the cursor (:267); `get_opcode()` of
a received frame has the three reserved bits in front of the opcode (:126), so
that `RoundTrip` speaks of opcodes for frames without them only; `Connection: keep-alive, Upgrade` is refused; the teardown job frees
the request libuv goes on using (`"request" \in wild`); ws_packet.h:39 says
100k where the limit of :40 is 1024 * 1000.

### Fairness

`WebSocketEndpoint!FairSpec` lets a `process()` call go on: it is one thread's
straight-line code.  It is written out because TLC would otherwise evaluate
ENABLED of the whole parser; the comment there says why it is the same.
`UvServer!Fairness` has the loop complete finished work and deliver close
callbacks, and a worker go on with what it has, which is libuv's contract.
Peers owe nothing: that they send, close or read what they are sent is never
assumed.  So a write callback may never come, and `WorkReleased` leaves out the
work data of a write under way.

### Refinement

`EndpointService!Service` is `EchoService` under the mapping `arrived` = how many
messages the received bytes complete, `answers` = the payloads of `delivered`:
each endpoint step is an arrival, one answer to the oldest unanswered message, or
invisible; and every message is answered, whether it comes whole or in fragments.
`endpoint_messages` checks all of it (`EchoesEveryMessage`), and its safety
part, `Service!SafeSpec`, is a theorem (section 4).

## 4. The proofs

About `UvServer` it is proved, for every set of clients and workers and every
`MaxReads`, under `ServerAssumption` and `NoneAssumption` only:

* `TypeCorrect`: `Spec => []TypeOK`, that is the types and that no response
  outlives its work data.
* `ReadingSafe`: `Spec => []ReadingIsSafe`, for any number of pool threads.
  `ReadingIsSafe` alone is not inductive: a connection could begin while work
  of it is already queued.  `ReadingInv` adds `WorkIsConnected` (only accepted
  handles have work) and the types.
* `EndpointsAlive`: with one pool thread `Spec => []EndpointAlive`.  The
  inductive invariant `AloneInv` adds `CloseComesLast` (nothing of a
  connection is behind its teardown, in the queue or between queue and
  thread), `WorkHasPeer` (what waits has a peer state) and
  `NoPeerWithoutAccept`.  `ReadingIsSafe` is what makes a submission keep it:
  a connection that is still read has no teardown queued.  One thread is
  needed where the teardown runs: nothing else of that connection can be
  running then.  With two threads TLC finds `EndpointAlive` violated, as
  README.md warns.
* `WorkOwnedOnce`: `Spec => []WorkDataOwnedOnce`, for any number of pool threads.  Instead of counting owners, `OwnInv` says that a
  job with work data has exactly one of four places, the queue, a thread, the
  finished work or a write, and that a job without has none (`Owned`).  It adds
  `DataIsOld` (allocated work data belongs to a read that has been, so what is
  submitted is new) and `WritesAreTheirs` (a client's writes are its own jobs).
  Two lemmas about `Append` and `Tail` say what a queue operation does to the
  places of any job, and each step follows from them.
* `AnswersOrdered`: with one pool thread
  `Spec => []AnswersInOrder`.  `OrderInv` sees the finished work, the job that
  runs and the queue as one line in which the jobs of a connection have rising
  numbers (`LineInOrder`), all beyond what was answered (`LineIsNew`).  One
  thread is needed where a job is taken: nothing may run that could finish
  behind it.

`WebSocketEndpoint_proofs` proves, for every set of peers, every cut into reads
and all values of the members nothing initialises, under `EndpointAssumption`
and `HandshakeAssumption` only:

* `NothingLost`: `Spec => []BytesConserved`, and `ParsesFromTheFront`:
  `Spec => []CursorRewound`.  Neither is inductive without the other: a cursor
  beyond the end makes `require` grant every read (its comparison is unsigned)
  and a length found that way need not be a size.  `IInv` says both of
  `fromwire_buf_` at once, in every state, also after an exception, with
  `consumed` between 0 and `received`; its parts are what `TypeOK`,
  `BytesConserved` and `CursorRewound` check in `endpoint_stray`.  The parsers
  enter through two lemmas: `RecvDataframeSound` (no byte changes, the cursor
  stays within the buffer, the result is a size) and `RecvHandshakeSound` (no
  byte changes, the cursor is in front after an error, and the length is a
  number, assigned or not).  `RestOfBytes` of `WebSocketPacket_proofs` does the
  rest: `erase` drops a prefix or nothing, for any int.
* `AnswersOnce`: `Spec => []OneHandshakeAnswer`.  `AnswerInv` adds that the
  handshake is complete exactly if something was sent.
* `EveryMessageAnswered`: `Spec => []MessagesEchoed`.  `PackIsEncode` (below) says
  that what `user_defined_process` packs is the frame of RFC 6455, for payloads
  of every length and whatever the packet's uninitialised key.  `EchoInv` adds
  that nothing is delivered before the handshake is complete, and it needs
  `DataInv`: what `message_data_` collects are bytes, since `recv_dataframe`
  returns bytes of its input or such bytes masked (`PayloadSound`).
* `EndpointTypes`: `Spec => []TypeOK`, assuming that `AcceptKey` returns bytes
  (`AcceptKeysAreBytes`), which `AnswerTypeOK` checks of the code behind it.

`FrameCodec_proofs` proves, under `CodecAssumption`, for every set of packets,
every key, every order of the setters and every division of the payload:

* `PacksByTheRFC`: `Spec => []PacksRFCFrame`, for all three length forms.
  `SenderInv` says that the fields whose setter was called hold what the owner
  means, and that payload and `payload_length_` agree whatever the pieces.
* `TakenAsPacked`: `Spec => []RoundTrip` under `ShortOnly` (no payload beyond
  65535 bytes) and `NoBareFrame` (a frame is masked or not empty).  Both are
  needed: without the first `codec_long` is a counterexample, and an unmasked
  empty frame that ends the buffer makes `curat()` throw (`PayloadThrows`).
* `PartsAwaited`: `Spec => []PrefixIsNoFrame` under `ShortOnly`.  The proof found
  that a frame is only *sturdy* if its first byte does not end in 126 or 127:
  while the second byte is missing the receiver takes the first for it, and
  those announce an extended length.

The argument is in `WebSocketPacket_proofs`.  XOR is followed bit by bit: it is an
involution (`XorBack`), so unmasking gives back what was masked (`MaskBack`), and
the two formulations of it, the code's and the peer's, agree (`PeerMasks`).
`PackIsEncode` compares what `pack_dataframe` appends with the header of the RFC
in each length form.  `FrameBytesAre` says byte by byte what a frame of at most
65535 bytes is on the wire.  `HeaderRead` follows the reads of
`fetch_frame_info` through a buffer that holds a whole header, `OneRead` and
`FewRead` through one that does not, where each missing read leaves what was
there before.  `WholeFrameTaken`, `PartAwaited` and `SturdyAwaited` draw the
conclusions for `recv_dataframe`.

`EndpointService_proofs` says what an endpoint is to a peer that keeps to what
the code can take.  Its theorems have these hypotheses, and no others:

* `WellServed`: each peer's bytes are a request that `fetch_hs_element` finds and
  that the peer is right about (`RequestJudged`), then masked frames of at most
  65535 bytes of payload (`WellFormed`); each call has its callback; each read
  ends behind the request, and inside a header only if its frame is sturdy
  (`ReadsWholeHeaders`).  `endpoint_split_request`, `endpoint_short_frame` and
  `codec_long` show what happens without.
* `[]RequestInTime`: no more than `MaxHandshake` bytes have come while the
  handshake is open.  A read that brings more is refused for good, with a good
  request in it.  This depends on the reads, so it is a premise about the
  behaviour.
* `TalkKnown`, where messages are compared: the opcodes are those of RFC 6455,
  which `process_message_data` knows, and no control frame comes between two fragments
  (`endpoint_interleaved`); the message that a frame belongs to, as far as that
  frame, is given by a function `part` along the frames (`Assembled`).

`WellServed` and `TalkKnown` look at a peer frame by frame; that the clients of
RFC 6455 satisfy them is `PlainClientsAreServed`, below.  TLC evaluates the
hypotheses about a single peer for every peer of `endpoint_messages` and of
`demo_lockstep` (`MessagePeersArePlain`, `MessagePeersAreWellFormed`,
`DemoPeersAreWellFormed`); the first run has `ReadsWholeHeaders` for `MayEnd`, the
second stays outside of headers, and no peer of either has more bytes than
`MaxHandshake`.  So the runs are instances of the theorems.

* `WholeFramesTaken`: `Spec /\ []RequestInTime => []FramesTaken`, and
  `NoReadIsFatal`: `... => []NeverDies`.  `TakenInv` adds to `IInv` that, once
  the handshake is complete, `consumed` is the end of some frame k
  (`AmongFrames`), that between two reads no whole frame is left behind k
  (`Contains`), and that a parse only begins with bytes left; before that,
  nothing was consumed and what came was refused or is being looked at.  What
  stands in `fromwire_buf_` then begins with a frame, of which
  `WholeFrameTaken`, `PartAwaited` and `SturdyAwaited` say what
  `recv_dataframe` does (`FrameOutcome`).
* `MessagesTaken`: `... => []MessagesDelivered`.  `TalkInv` says of the k frames
  consumed that `message_data_` holds the payload of the open message as far as
  frame k, or nothing (`Unfinished`), and that what was delivered are the
  messages that those frames complete (`Delivers`).
* `EndpointIsEchoService`: `... => Service!SafeSpec`.  `ServedInv` joins the
  invariants above.  An initial state is one of the service; the arrival of
  bytes is `Arrive` or a stutter (`ServiceArrives`); a final frame is `Answer`
  and every other step of the parser a stutter (`ServiceAnswers`).

The last part puts in the place of those hypotheses what a client does
(`PlainClients`): it sends a request whose lines say something (`SaysRequest`,
below) and is right about its meaning (`PlainRequest`), and any sequence of masked
frames of at most 65535 bytes in which no control frame comes between fragments
or is one (`PlainFrames`), as `MakePeer` encodes them.

* `PlainClientsAreServed`: for such clients `Spec /\ []RequestInTime` implements
  `Service!SafeSpec`, and `FramesTaken`, `MessagesDelivered` and `NeverDies` hold.
  `MadeIsWellFormed` shows that the frames stand in the client's bytes where
  `MakePeer` says, `MadeIsAssembled` that `Messages` are the messages of
  `Assembled`, and `MadeIsJudged` follows from `RequestUnderstood`.

`WebSocketHandshake_proofs` proves what the code makes of a request, for any
number of lines of any lengths, under `HandshakeAssumption` only.
`SaysRequest(lines, fields)` is the client's side: lines of blanks if it likes,
a request line of three words, and for each further line the field that it
says, a name and a value with blanks in front of, behind and between them
(`FieldLine`), or nothing (a line without a colon).  `Said` is the last value
that there is for a name, and `MeansHandshake` what RFC 6455 4.1 asks for.

* `RequestUnderstood`: of the bytes of such a request `fetch_hs_element` finds
  the whole and not more; `get_param` gives what was said, and `recv_handshake`
  accepts it exactly if it means a handshake.  `RequestLines` says where
  the ends of lines stand in the bytes, `EmptyLineFound` and `LineEndFound` that
  `Find` finds the empty line and then one line end after the other,
  `LinesFound` that `SplitStr` cuts there, `RequestLineIs` that it finds
  three words in the request line, `HeaderFieldIs` that cutting at the first
  colon and trimming undoes `FieldLine`, and `ParamsAre` that what replaces what
  in `params_` leaves what was said last.

These are inductions over a client's lines, frames and messages, and over the
positions where `SplitStr` splits.  The library's induction theorems cannot be
used (they take an operator), so `Induction` is stated with a set in the place
of the predicate and proved from the least number outside of it; a recursive
function over 0..n is the union of its beginnings (`RecursionExists`), one that
runs to the end of a text is the same backwards (`BackwardExists`).

`HandshakeAnswer_proofs` goes from a request to the text of its answer, under
the assumptions of the modules (`RequestsAssumption` is the only further one:
texts are bytes).  The compression function is a parameter.

* `PlainRequestsAreJudged`: `AnswerSpec => []RequestsJudged`.  A request of any
  lines that fits into `MaxHandshake` is answered exactly if the client means it
  so, and with the key that it put there.  The inductive invariant is `Judged`.
  `RequestsAreKnown` in `MCHandshake` has TLC find which requests of the run are
  such ones.
* `PaddedByTheStandard`: `ShaSpec => []BlocksArePadded`, for messages of every
  length that the bit count can hold, every `Wrap`, every content of a new `M`
  and every compression function.  `ShaInv` adds `Collecting`: until `Final`
  the blocks hashed so far and the first `cursor` bytes of `M` are the message.
  `OneBlockPads` and `TwoBlocksPad` then compare the padded block or blocks with
  the standard byte by byte; in the second, `Process` has left the swapped words
  of the first block in `M`, and nothing of them may stay.
* `AnswerHashes`: `AnswerSpec => ShaSpec /\ []BlocksArePadded`.  The composition
  implements the hash object: only bytes of a request go into it (`TakenIn`).
* `AnswerTypesHold`: `AnswerSpec => []AnswerTypeOK`, assuming that the
  compression function makes words of words (`CompressesWords`), as 32-bit
  arithmetic does.
* `Base64IsTheStandard`: `AnswerSpec => []Base64Inverse`, for messages of every
  length.  `EncodedIs` says character by character what the code makes of which
  bytes, `StandardIs` the same of RFC 4648, bit by bit; `CodedPart` finds where the
  decoder stops in a whole or a cut text, and `DecodedIs` that its shifts put
  the bytes together again.

* `AnswersAreAccepted`: `AnswerSpec => []ClientAccepts`, for a request of any
  lines, under three hypotheses: Compress makes words of words; `8 * (MaxHandshake + 36) < Wrap`, which holds of 1024000
  and 2^32 with much to spare; and `ClientComputes`, that for the key it sent
  the client expects Base64, by RFC 4648, of the hash of the padded key and GUID,
  where the hash is what Compress makes of the blocks one after the other
  (`HashOf`, FIPS 180-3, 6.1.2).  `handshake` checks the same with the real rounds
  against SHA-1 written from the standard.  The invariant `AnswerInv` joins the
  ones above with `Hashing` (`H` is the hash of the blocks fed, and after `Final`,
  which turns the words round, `Digest` reads its bytes in order) and
  `Going` (what was hashed is a prefix of the key, in the end all of it).
  `AnswerIsRead` of `WebSocketHandshake_proofs` is about the text: the
  lines that `pack_handshake_rsp` writes have ends where they should and nowhere
  else, so the client finds the accept key as a line, and a line that names a
  subprotocol exactly if there is one (no other line begins with that name).

`DemoConnection_proofs` proves, under the same hypotheses as
`EndpointService_proofs`:

* `NothingUnanswered`: `DemoSpec /\ []RequestInTime => []PeerIsAnswered`, for a
  peer that waits or not: as long as the process lives, what was written between
  two reads is as much as was due.  `DueAndSent` counts what the endpoint sent
  from `TakenInv`, `TalkInv` and `EchoInv`; the rest is `NothingUnwritten`.
* `SlotStaysFree`: `... => []SlotIsFree` if the peer waits (`AwaitsAnswer`).
  `WaitingInv` adds that while `process()` runs at most one answer is due that
  was not written: so an iteration that sends finds the slot empty.
  `demo_coalesced` is the counterexample for a peer that does not wait.

and, for every peer, whether or not it waits, without those hypotheses:

* `NothingUnwritten`: `DemoSpec => []AnswersWritten`.  `SlotInv`: while
  `process()` runs, what was sent is what was written and what is in the slot.
* `ConnectionIsEndpoint`: `DemoSpec => Spec`, the composition implements the
  endpoint, so that its theorems hold here too; `EchoesWritten` combines them:
  what was written is the handshake's answer and one frame for each delivered
  message.

What stays with TLC: all liveness (and ENABLED), with it the second half of the
refinement; that the eighty rounds of `Sha1Rounds` are the compression function
of FIPS 180-3 (their words need the bit operators that the prover cannot use);
and what kills `process()` (`DiesOfTheseOnly`), apart from `NoReadIsFatal`.

## 5. Not modelled

* libuv itself, beyond the order of queues and callbacks.  The headers under
  `src/include` are its vendored copy: 4844 lines, all
  declarations, platform constants and containers (`uv/tree.h`) that no source
  file of the program uses.  Of the program's own 2167 lines the map covers
  about 1200; the others are licences, includes, declarations and comments, and
  the few functions named here.
* Allocation failure, socket errors at start-up, the command line, console
  output.  `fail()` is the end of the process wherever an action takes it.
* `get_header_size`, `set_payload_length`, `getoft`, `valueOf` and
  `on_alloc_buffer_v2`, which nothing calls, and the parsed method, URI and
  version of a request, which nothing reads.
* A client's use of the endpoint: README.md speaks of one, the class has no
  operation for it.
* Hashes of 512 MB and more, where the bit count wraps; no caller comes near.
* Undefined shifts in the eight-byte length (ws_packet.cpp:159), whose result
  nothing reads, and what an access behind a vector's end finds: the model stops
  there (`pc = "dead"`).

## 6. Plan

Done: every component of the program, its composition up to one connection and
to the server's memory, the refinement of the echo service with a proof of its
safety part, and theorems about the server, the codec, the endpoint, its peers,
the connection, requests, Base64, the hash's blocks and the answer to a request.
What is left is `UvServer` with `DemoConnection` as its pool callback, so that
`OnSecondResponse` happens exactly when `SlotIsFree` fails.
