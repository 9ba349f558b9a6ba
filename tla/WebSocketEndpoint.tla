-------------------------- MODULE WebSocketEndpoint --------------------------
(***************************************************************************)
(* WebSocketEndpoint (ws_endpoint.h, ws_endpoint.cpp): one endpoint that   *)
(* is fed, through process(), the bytes a peer sends, in whatever pieces   *)
(* the transport reads them.  from_wire is one action for the call, which  *)
(* appends the piece, and one for each way an iteration of its loop can    *)
(* end: parse_packet with everything it calls, and the erase and resetoft  *)
(* that follow it.                                                         *)
(*                                                                         *)
(* pc says where from_wire stands: "idle" between two calls, "parse" at    *)
(* the head of the loop, "dead" after an exception or a wild access.       *)
(***************************************************************************)
EXTENDS WebSocketPacket, WebSocketHandshake, WebSocketPeer

CONSTANTS Peers,         \* what the other end may send (MakePeer)
          UninitKeys,    \* what an uninitialised masking_key_ may hold
          AcceptKey(_),  \* what pack_handshake_rsp makes of a key, see HandshakeAnswer
          MayEnd(_, _),  \* whether a read may end behind the first n bytes of a peer
          Calls(_)       \* how the owner passes on what a peer sends, see Process

VARIABLES
  fromwire_buf_, message_data_, ws_handshake_completed_,  \* the class's own
  nt_write_cb_,   \* "null" or "set"
  nt_work_data_,  \* "null", "wild", or the work data of this call or an earlier one:
                  \* "own", "stale"
  pc,
  turn,       \* the iterations of this call of from_wire, modulo 2
  peer,       \* the peer of this run
  received,   \* how many of its bytes were passed to process()
  consumed,   \* how many of those were erased from fromwire_buf_
  delivered,  \* the calls of user_defined_process: [opcode, payload]
  sent        \* the calls of to_wire: [kind, bytes, to]

vars == <<fromwire_buf_, message_data_, ws_handshake_completed_, nt_write_cb_, nt_work_data_,
          pc, turn, peer, received, consumed, delivered, sent>>

ASSUME EndpointAssumption ==
  /\ \A p \in Peers : /\ {"bytes", "request"} \subseteq DOMAIN p
                     /\ p.bytes \in Seq(Bytes) /\ p.request \in Nat
  /\ UninitKeys \subseteq [1..4 -> Bytes] /\ UninitKeys # {}

\* Either constructor; neither sets nt_work_data_.
Init ==
  /\ peer \in Peers
  /\ nt_write_cb_ \in {"null", "set"}
  /\ nt_work_data_ \in {"null", "wild"}
  /\ fromwire_buf_ = EmptyBuffer
  /\ message_data_ = EmptyBuffer
  /\ ws_handshake_completed_ = FALSE
  /\ pc = "idle" /\ turn = 0
  /\ received = 0
  /\ consumed = 0
  /\ delivered = <<>>
  /\ sent = <<>>

-----------------------------------------------------------------------------
\* from_wire(buf, size) with the next bytes of the peer: it appends them and
\* enters its loop.
FromWire(size) ==
  /\ pc = "idle"
  /\ received + size <= Len(peer.bytes)
  /\ MayEnd(peer, received + size)
  /\ fromwire_buf_' =
       AppendBytes(fromwire_buf_, SubSeq(peer.bytes, received + 1, received + size))
  /\ received' = received + size
  /\ pc' = "parse" /\ turn' = 0
  /\ UNCHANGED <<message_data_, ws_handshake_completed_, peer, consumed, delivered, sent>>

\* The work data of the calls before this one
Older(work_data) == IF work_data = "own" THEN "stale" ELSE work_data

\* Mutant: the work data is only taken if there is none.
ProcessKeepsWorkData(size) ==
  /\ "callback" \in Calls(peer)
  /\ FromWire(size)
  /\ nt_write_cb_' = "set"
  /\ nt_work_data_' = IF nt_work_data_ = "null" THEN "own" ELSE Older(nt_work_data_)

\* process(buf, size, write_cb, work_data)
Process(size) ==
  /\ "callback" \in Calls(peer)
  /\ FromWire(size)
  /\ nt_write_cb_' = "set"
  /\ nt_work_data_' = "own"

\* process(buf, size): what the endpoint sends goes where the constructor or an
\* earlier call said.
ProcessPlain(size) ==
  /\ "plain" \in Calls(peer)
  /\ FromWire(size)
  /\ nt_work_data_' = Older(nt_work_data_)
  /\ UNCHANGED nt_write_cb_

\* process() with a NULL callback or work data: "It will skip current read buf!"
\* From then on it is as if the peer had never sent these bytes.
SkipRead(size) ==
  /\ "null" \in Calls(peer)
  /\ pc = "idle"
  /\ received + size <= Len(peer.bytes)
  /\ MayEnd(peer, received + size)
  /\ peer' = [peer EXCEPT !.bytes = SubSeq(@, 1, received)
                                      \o SubSeq(@, received + size + 1, Len(@))]
  /\ nt_work_data_' = Older(nt_work_data_)
  /\ UNCHANGED <<fromwire_buf_, message_data_, ws_handshake_completed_, nt_write_cb_, pc, turn,
                 received, consumed, delivered, sent>>

\* Mutant: break where the loop continues.
ConsumeAndLeave(b, nrcv) ==
  LET rest == ResetOft(Erase(b, nrcv))
  IN  /\ fromwire_buf_' = rest
      /\ consumed' = consumed + Length(b) - Length(rest)
      /\ pc' = "idle"

\* Mutant: the cursor stays behind the frame.
ConsumeWithoutReset(b, nrcv) ==
  LET rest == Erase(b, nrcv)
  IN  /\ fromwire_buf_' = rest
      /\ consumed' = consumed + Length(b) - Length(rest)
      /\ pc' = IF Length(rest) = 0 THEN "idle" ELSE "parse"

\* parse_packet returned nrcv > 0 and left b: drop nrcv bytes, and go on if some
\* are left.
Consume(b, nrcv) ==
  LET rest == ResetOft(Erase(b, nrcv))
  IN  /\ fromwire_buf_' = rest
      /\ consumed' = consumed + Length(b) - Length(rest)
      /\ pc' = IF Length(rest) = 0 THEN "idle" ELSE "parse"

\* Mutant: continue where the loop breaks.
AwaitByParsing(b) ==
  /\ fromwire_buf_' = ResetOft(b)
  /\ pc' = "parse"
  /\ UNCHANGED <<message_data_, ws_handshake_completed_, peer, received, consumed,
                 delivered, sent>>

\* parse_packet returned 0 and left b: wait for the next read.
AwaitMore(b) ==
  /\ fromwire_buf_' = ResetOft(b)
  /\ pc' = "idle"
  /\ UNCHANGED <<message_data_, ws_handshake_completed_, peer, received, consumed,
                 delivered, sent>>

\* to_wire: without a callback or work data nothing is written.
ToWire(kind, bytes) ==
  sent' = Append(sent, [kind |-> kind, bytes |-> bytes,
                        to |-> IF "null" \in {nt_write_cb_, nt_work_data_} THEN "nowhere"
                               ELSE nt_work_data_])

-----------------------------------------------------------------------------
\* parse_packet before the handshake is complete; hs is what recv_handshake did.
InHandshake == pc = "parse" /\ ~ws_handshake_completed_

\* from_wire returns -1 and keeps what is buffered.
RejectHandshake(hs) ==
  /\ hs.error
  /\ fromwire_buf_' = hs.input
  /\ pc' = "idle"
  /\ UNCHANGED <<message_data_, ws_handshake_completed_, peer,
                 received, consumed, delivered, sent>>

AwaitHandshake(hs) ==
  /\ ~hs.error /\ hs.length = 0
  /\ AwaitMore(hs.input)

HandshakeRsp(hs) ==
  PackHandshakeRsp(hs.params, AcceptKey(GetParam(hs.params, "Sec-WebSocket-Key")))

\* Mutant: ws_handshake_completed_ is not set.
AnswerAndForget(hs) ==
  /\ ~hs.error /\ hs.length # 0
  /\ ToWire("handshake", HandshakeRsp(hs))
  /\ Consume(hs.input, hs.length)
  /\ UNCHANGED <<ws_handshake_completed_, message_data_, peer, received, delivered>>

\* The answer goes out and length bytes are erased, whatever length holds.
AnswerHandshake(hs) ==
  /\ ~hs.error /\ hs.length # 0
  /\ ToWire("handshake", HandshakeRsp(hs))
  /\ ws_handshake_completed_' = TRUE
  /\ Consume(hs.input, hs.length)
  /\ UNCHANGED <<message_data_, peer, received, delivered>>

\* *lines.end() need not be readable.
OverrunRequest(hs) ==
  /\ hs.overrun
  /\ pc' = "dead"
  /\ UNCHANGED <<fromwire_buf_, message_data_, ws_handshake_completed_, peer,
                 received, consumed, delivered, sent>>

HandshakeStep ==
  /\ InHandshake
  /\ turn' = 1 - turn
  /\ UNCHANGED <<nt_write_cb_, nt_work_data_>>
  /\ \E hs \in {RecvHandshake(fromwire_buf_, uninit) : uninit \in UninitHs} :
       RejectHandshake(hs) \/ AwaitHandshake(hs) \/ AnswerHandshake(hs) \/ OverrunRequest(hs)

-----------------------------------------------------------------------------
\* parse_packet afterwards; df is what recv_dataframe did.
InFrames == pc = "parse" /\ ws_handshake_completed_

AwaitFrame(df) == ~df.throws /\ df.ndf = 0 /\ AwaitMore(df.input)

\* Mutant: a fragment replaces those before it.
KeepLastFragment(df) ==
  /\ ~df.throws /\ df.ndf > 0 /\ df.fin # 1
  /\ message_data_' = BufferOf(df.payload)
  /\ Consume(df.input, df.ndf)
  /\ UNCHANGED <<ws_handshake_completed_, peer, received, delivered, sent>>

TakeFragment(df) ==
  /\ ~df.throws /\ df.ndf > 0 /\ df.fin # 1
  /\ message_data_' = AppendBytes(message_data_, df.payload)
  /\ Consume(df.input, df.ndf)
  /\ UNCHANGED <<ws_handshake_completed_, peer, received, delivered, sent>>

\* user_defined_process: one unmasked frame with the opcode of the last frame
\* and everything that message_data_ holds.
Echo(opcode, payload) ==
  \E garbage \in UninitKeys :
    LET wspacket == [SetPayload(NewPacket(garbage), payload) EXCEPT !.fin = 1, !.opcode = opcode]
    IN  /\ delivered' = Append(delivered, [opcode |-> opcode, payload |-> payload])
        /\ ToWire("frame", PackDataframe(wspacket))

TakeFinalFrame(df) ==
  LET message == AppendBytes(message_data_, df.payload)
  IN  /\ ~df.throws /\ df.ndf > 0 /\ df.fin = 1
      /\ IF df.opcode \in KnownOpcodes THEN Echo(df.opcode, message.data)
                                       ELSE UNCHANGED <<delivered, sent>>
      /\ message_data_' = ResetOft(Erase(message, Length(message)))
      /\ Consume(df.input, df.ndf)
      /\ UNCHANGED <<ws_handshake_completed_, peer, received>>

\* std::out_of_range out of curat(): nothing catches it.
ThrowInPayload(df) ==
  /\ df.throws
  /\ pc' = "dead"
  /\ UNCHANGED <<fromwire_buf_, message_data_, ws_handshake_completed_, peer,
                 received, consumed, delivered, sent>>

FrameStep ==
  /\ InFrames
  /\ turn' = 1 - turn
  /\ UNCHANGED <<nt_write_cb_, nt_work_data_>>
  /\ \E df \in {RecvDataframe(fromwire_buf_, key) : key \in UninitKeys} :
       AwaitFrame(df) \/ TakeFragment(df) \/ TakeFinalFrame(df) \/ ThrowInPayload(df)

-----------------------------------------------------------------------------
\* The peer is under no obligation to send more.
NothingMore == pc # "parse" /\ UNCHANGED vars

Next == \/ \E size \in 1..Len(peer.bytes) : \/ Process(size) \/ ProcessPlain(size)
                                              \/ SkipRead(size)
        \/ HandshakeStep
        \/ FrameStep
        \/ NothingMore

Spec == Init /\ [][Next]_vars

(***************************************************************************)
(* A call of process() runs to its end; nothing is assumed of the peer.    *)
(* This is weak fairness of HandshakeStep \/ FrameStep, one of which is    *)
(* enabled exactly when pc = "parse" (a state without a next step would be *)
(* reported as a deadlock), these are the only steps from there, and each  *)
(* of them changes turn, so that a loop that gets nowhere is not mistaken  *)
(* for stuttering.                                                         *)
(***************************************************************************)
FairSpec == Spec /\ ([]<>(pc # "parse") \/ []<><<pc = "parse">>_vars)

-----------------------------------------------------------------------------
(* Properties                                                              *)

TypeOK ==
  /\ fromwire_buf_ \in Buffer /\ message_data_ \in Buffer
  /\ ws_handshake_completed_ \in BOOLEAN
  /\ pc \in {"idle", "parse", "dead"} /\ turn \in {0, 1}
  /\ nt_write_cb_ \in {"null", "set"}
  /\ nt_work_data_ \in {"null", "wild", "own", "stale"}
  /\ peer.bytes \in Seq(Bytes)
  /\ received \in 0..Len(peer.bytes) /\ consumed \in 0..received
  /\ delivered \in Seq([opcode : Bytes, payload : Seq(Bytes)])
  /\ sent \in Seq([kind : {"handshake", "frame"}, bytes : Seq(Bytes),
                   to : {"nowhere", "wild", "own", "stale"}])

\* Across reads and iterations fromwire_buf_ holds exactly the bytes that were
\* received and not consumed yet: append and erase lose, repeat or reorder
\* nothing, whatever the parser made of the input.
BytesConserved ==
  fromwire_buf_.data = SubSeq(peer.bytes, consumed + 1, received)

\* Every parse starts at the first unconsumed byte: each way out of an
\* iteration of from_wire has rewound the cursor, so no attempt inherits the
\* position of the one before it.
CursorRewound == pc # "dead" => fromwire_buf_.oft = 0 /\ message_data_.oft = 0

\* The handshake is answered once in the life of an endpoint, and before
\* anything else is sent.
OneHandshakeAnswer ==
  \A i \in 1..Len(sent) : (sent[i].kind = "handshake") <=> (i = 1)

\* When process() returns, every frame that has arrived completely was taken,
\* nothing of the next one was, and a refused request is still in the buffer.
FramesTaken == pc = "idle" => consumed = BytesIn(peer, received)

\* What reaches user_defined_process are the messages the peer sent, in order
\* and with nothing of one in another, as soon as their last byte is there; a
\* message of one frame comes under its own opcode.
MessagesDelivered ==
  LET expected == MessagesIn(peer, received)
  IN  pc = "idle" =>
        /\ Len(delivered) = Len(expected)
        /\ \A i \in 1..Len(expected) :
             /\ delivered[i].payload = expected[i].payload
             /\ expected[i].parts = 1 => delivered[i].opcode = expected[i].opcode

\* Each delivered message is answered, behind the handshake's answer, by one
\* frame that a client decodes to the same bytes under the same opcode.
MessagesEchoed ==
  /\ Len(sent) = IF ws_handshake_completed_ THEN 1 + Len(delivered) ELSE 0
  /\ \A i \in 1..Len(delivered) :
       sent[i + 1].bytes =
         EncodeFrame([fin |-> 1, opcode |-> delivered[i].opcode, key |-> <<>>,
                      payload |-> delivered[i].payload])

\* An unmasked header with nothing to come, and with nothing behind it yet: in
\* two bytes, four or ten, or as far as the code reads one that is cut (a byte of
\* its own stands for the second, and a length that is not there for none).
EmptyHeader(bytes) ==
  \/ Len(bytes) = 1 /\ bytes[1] \in {0, 126, 127}
  \/ Len(bytes) = 2 /\ bytes[2] \in {0, 126, 127}
  \/ Len(bytes) = 4 /\ Tail(bytes) = <<126, 0, 0>>
  \/ Len(bytes) = 10 /\ bytes[2] = 127

\* Two lines or more with nothing but blanks in them, and an empty one
BlankRequest(bytes) ==
  LET endpos == Find(bytes, EOL \o EOL, 1)
      EndsLine(i) == bytes[i] = CR /\ bytes[i + 1] = LF
  IN  /\ \E i \in 1..(endpos - 1) : EndsLine(i)
      /\ \A i \in 1..(endpos - 1) :
           bytes[i] = SP \/ EndsLine(i) \/ (i > 1 /\ EndsLine(i - 1))

\* Two inputs end process() with an exception or a wild access, and no other does:
\* a request of blank lines may, and a frame does that is neither masked nor has a
\* payload, if the read ends with it (or where it is taken for one).
DiesOfTheseOnly ==
  LET rest == SubSeq(peer.bytes, consumed + 1, received)
  IN  IF ws_handshake_completed_
      THEN pc # "parse" => (pc = "dead" <=> EmptyHeader(rest))
      ELSE pc = "dead" => Len(rest) <= MaxHandshake /\ BlankRequest(rest)

\* The 101 answer goes out only when the whole request has arrived.
AnswersWholeRequest == ws_handshake_completed_ => received >= peer.request

\* The payloads of the messages survive fragmentation, whatever their opcodes.
PayloadsDelivered ==
  LET expected == MessagesIn(peer, received)
  IN  pc = "idle" =>
        /\ Len(delivered) = Len(expected)
        /\ \A i \in 1..Len(expected) : delivered[i].payload = expected[i].payload

\* The loop of from_wire ends on every input.
ProcessReturns == pc = "parse" ~> pc # "parse"
=============================================================================
