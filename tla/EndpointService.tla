--------------------------- MODULE EndpointService ---------------------------
(***************************************************************************)
(* The echo service that the endpoint is for its peers (EchoService), and  *)
(* what the bytes and the reads of a peer have to be for that.  The first  *)
(* says of a peer, one frame at a time, what MakePeer makes of it;         *)
(* MCEndpoint has TLC evaluate it.                                         *)
(***************************************************************************)
EXTENDS WebSocketEndpoint

MaskedFrames ==
  [fin : {0, 1}, opcode : 0..127, key : [1..4 -> Bytes], payload : Seq(Bytes)]

\* A length for which the header has one byte or two
HasShortLength(n) == n <= 65535

\* A request and, one behind the other, masked frames with lengths of one or of
\* two bytes, which is what fetch_frame_info can read
WellFormed(p) ==
  /\ p.frames \in Seq(MaskedFrames)
  /\ p.request \in Nat /\ p.valid \in BOOLEAN
  /\ p.header \in [1..Len(p.frames) -> Nat]
  /\ p.end \in [1..Len(p.frames) -> Nat]
  /\ \A k \in 1..Len(p.frames) :
       /\ HasShortLength(Len(p.frames[k].payload))
       /\ p.header[k] = EndOf(p, k - 1) + Len(EncodeHeader(p.frames[k]))
       /\ p.end[k] = EndOf(p, k - 1) + Len(EncodeFrame(p.frames[k]))
       /\ SubSeq(p.bytes, EndOf(p, k - 1) + 1, p.end[k]) = EncodeFrame(p.frames[k])
  /\ Len(p.bytes) = EndOf(p, Len(p.frames))

\* fetch_hs_element finds the whole request in itself, and the peer is right
\* about whether it is accepted.
RequestJudged(p) ==
  LET hs == FetchHsElement(SubSeq(p.bytes, 1, p.request))
  IN  hs.size = p.request /\ (ParamsAccepted(hs.params) <=> p.valid)

\* How many of the first k frames end a message
FinalCount(p, k) == Cardinality({j \in 1..k : p.frames[j].fin = 1})

MessageParts == [opcode : Bytes, payload : Seq(Bytes), parts : Nat \ {0}]

\* part[k] is the message that frame k belongs to, as far as that frame; no
\* control frame comes between two fragments.  The peer means the messages that
\* are complete with the last of their frames.
Assembled(p, part) ==
  LET f == p.frames
  IN  /\ part \in [1..Len(f) -> MessageParts] /\ p.talk \in Seq(MessageParts)
      /\ \A k \in 1..Len(f) :
           /\ f[k].opcode \in DefinedOpcodes
           /\ part[k] =
                IF k = 1 \/ f[k - 1].fin = 1
                THEN [opcode |-> f[k].opcode, payload |-> f[k].payload, parts |-> 1]
                ELSE [opcode  |-> part[k - 1].opcode,
                      payload |-> part[k - 1].payload \o f[k].payload,
                      parts   |-> part[k - 1].parts + 1]
           /\ f[k].fin = 1 => p.talk[FinalCount(p, k)] = part[k]
      /\ Len(p.talk) = FinalCount(p, Len(f))

\* A read ends behind the request, and in the header of a sturdy frame only.
ReadsWholeHeaders(p, n) ==
  n >= p.request /\ \A k \in CutHeaders(p, n) : Sturdy(p.frames[k])

\* recv_handshake never sees more than it accepts.
RequestInTime == ~ws_handshake_completed_ => received <= MaxHandshake

\* Masked frames with short lengths, where a control frame is never a fragment
\* nor between two
PlainFrames(f) ==
  /\ f \in Seq(MaskedFrames)
  /\ \A k \in 1..Len(f) :
       /\ HasShortLength(Len(f[k].payload)) /\ f[k].opcode \in DefinedOpcodes
       /\ IsControl(f[k]) => f[k].fin = 1 /\ (k = 1 \/ f[k - 1].fin = 1)

\* The lines of a request, and whether it is a handshake
PlainRequest(lines, valid) ==
  \E fields : SaysRequest(lines, fields) /\ valid = MeansHandshake(fields, Text)

\* A client that sends a request and such frames
PlainPeer(p) ==
  \E lines, valid, frames :
    PlainRequest(lines, valid) /\ PlainFrames(frames) /\ p = MakePeer(lines, valid, frames)

\* process() does not end in an exception or a wild access: true of clients as
\* above, whose frames are masked and whose requests say something, and not of all
\* peers (DiesOfTheseOnly).
NeverDies == pc # "dead"

\* Peers that are all such clients, heard in reads that leave the headers whole
\* which the code needs whole
PlainClients ==
  /\ \A p \in Peers : PlainPeer(p) /\ Calls(p) = {"callback"}
  /\ \A p \in Peers, n \in Nat : MayEnd(p, n) => ReadsWholeHeaders(p, n)

Payloads(messages) == [i \in 1..Len(messages) |-> messages[i].payload]

Service == INSTANCE EchoService
  WITH Conversations <- {Payloads(p.talk) : p \in Peers},
       conversation  <- Payloads(peer.talk),
       arrived       <- MessageCount(peer, received),
       answers       <- Payloads(delivered)
=============================================================================
