------------------------------ MODULE FrameCodec ------------------------------
(***************************************************************************)
(* Two WebSocketPacket objects: one is filled through its setters, in any  *)
(* order and with the payload in any pieces, and packed; the other         *)
(* receives the frame from a ByteBuffer into which only a part of it may   *)
(* have come yet, or into which the next frame has begun to come.          *)
(***************************************************************************)
EXTENDS WebSocketPacket, WebSocketPeer

CONSTANTS Packets,    \* what is to be packed: [fin, rsv, opcode, mask, payload]
          Key,        \* masking_key_ of the sender, which has no setter
          EdgeSize    \* reads end within so many bytes of an end of the frame

ASSUME CodecAssumption ==
  /\ Packets \subseteq [fin : {0, 1}, rsv : 0..7, opcode : 0..15, mask : {0, 1},
                        payload : Seq(Bytes)]
  /\ Key \in [1..4 -> Bytes]
  /\ EdgeSize \in Nat

VARIABLES packet,   \* the frame that the owner of the sender has in mind
          sender,   \* its fields
          todo,     \* the setters that the owner has not called yet
          wire, present, got

vars == <<packet, sender, todo, wire, present, got>>

NextFrame == <<129>>           \* the first byte of a frame behind this one
Uninit == <<90, 165, 60, 0>>   \* masking_key_ of the receiver

NotYet == [ndf |-> -1]

Init ==
  /\ packet \in Packets
  /\ sender = NewPacket(Key)
  /\ todo = {"fin", "rsv", "opcode", "mask"}
  /\ wire = <<>>
  /\ present = 0
  /\ got = NotYet

\* set_fin, set_rsv1 to set_rsv3, set_opcode, set_mask
SetField(name) ==
  /\ wire = <<>> /\ name \in todo
  /\ sender' = [sender EXCEPT ![name] = packet[name]]
  /\ todo' = todo \ {name}
  /\ UNCHANGED <<packet, wire, present, got>>

\* set_payload with the next piece
SetNextPayload(size) ==
  LET done == Length(sender.payload)
  IN  /\ wire = <<>> /\ size > 0 /\ done + size <= Len(packet.payload)
      /\ sender' = SetPayload(sender, SubSeq(packet.payload, done + 1, done + size))
      /\ UNCHANGED <<packet, todo, wire, present, got>>

Pack ==
  /\ wire = <<>> /\ todo = {} /\ Length(sender.payload) = Len(packet.payload)
  /\ wire' = PackDataframe(sender)
  /\ UNCHANGED <<packet, sender, todo, present, got>>

\* Each attempt starts from a new packet object, like those of parse_packet,
\* with more bytes than the one before it.
Receive(n) ==
  /\ wire # <<>> /\ got.ndf < 1 /\ n >= present
  /\ present' = n
  /\ got' = RecvDataframe(BufferOf(SubSeq(wire \o NextFrame, 1, n)), Uninit)
  /\ UNCHANGED <<packet, sender, todo, wire>>

ReadEnds == LET n == Len(wire)
            IN  {i \in (0..EdgeSize) \cup ((n - EdgeSize)..(n + 1)) : i \in 0..(n + 1)}

\* A first piece of one or two bytes or of all, and the rest in a second one
Pieces == LET done == Length(sender.payload)
              rest == Len(packet.payload) - done
          IN  {n \in (IF done = 0 THEN {1, 2, rest} ELSE {rest}) : n <= rest}

Next == \/ \E name \in todo : SetField(name)
        \/ \E size \in Pieces : SetNextPayload(size)
        \/ Pack
        \/ \E n \in ReadEnds : Receive(n)

Spec == Init /\ [][Next]_vars

-----------------------------------------------------------------------------
Received == got # NotYet

\* The frame that RFC 6455 lays out for the packet: EncodeFrame has the seven bits
\* behind FIN, RSV1 to RSV3 and the opcode, as one number.
WireFrame ==
  [fin |-> packet.fin, opcode |-> 16 * packet.rsv + packet.opcode, payload |-> packet.payload,
   key |-> IF packet.mask = 1 THEN Key ELSE <<>>]

\* pack_dataframe writes what RFC 6455 5.2 asks for, at every length form, in
\* whatever order and pieces the packet was filled.
PacksRFCFrame == wire # <<>> /\ ~Received => wire = EncodeFrame(WireFrame)

\* A frame that is there completely is received with the FIN bit and the payload it
\* was packed with, to its last byte and no further; with its opcode too, if its
\* reserved bits are 0, as RFC 6455 has them without an extension.  Otherwise
\* get_opcode() has them in front of the opcode: fetch_frame_info masks with 0x7F.
RoundTrip ==
  Received /\ present >= Len(wire) =>
    /\ ~got.throws
    /\ got.ndf = Len(wire)
    /\ got.fin = packet.fin /\ got.payload = packet.payload
    /\ packet.rsv = 0 => got.opcode = packet.opcode

\* A part of a frame is not taken for a frame, if its header is complete or if
\* it is masked, 4 to 125 bytes long and not a continuation: what is missing of
\* such a header never makes up for the payload that is missing with it.
PrefixIsNoFrame ==
  /\ Received /\ present < Len(wire)
  /\ Sturdy(WireFrame) \/ present >= Len(EncodeHeader(WireFrame))
  => got.ndf = 0 /\ ~got.throws
=============================================================================
