-------------------------- MODULE FrameCodec_proofs --------------------------
(***************************************************************************)
(* Proofs about packing a frame and receiving it, for every packet, every  *)
(* order of the setters, every division of the payload into pieces and     *)
(* every part of the frame that may have come.                             *)
(***************************************************************************)
EXTENDS FrameCodec, WebSocketPacket_proofs

Setters == {"fin", "rsv", "opcode", "mask"}

\* The fields whose setter was called hold what the owner has in mind, the
\* payload is the pieces so far, and payload_length_ is their size.
SenderInv ==
  /\ packet \in Packets
  /\ todo \subseteq Setters
  /\ DOMAIN sender = Setters \cup {"key", "payload", "payload_length"}
  /\ \A name \in Setters \ todo : sender[name] = packet[name]
  /\ sender.key = Key
  /\ sender.payload_length \in 0..Len(packet.payload)
  /\ sender.payload = BufferOf(SubSeq(packet.payload, 1, sender.payload_length))

\* What is on the wire is the frame, and what was received is a part of it, or
\* it and a byte of the next one.
WireInv ==
  /\ wire # <<>> => wire = EncodeFrame(WireFrame)
  /\ wire = <<>> => got = NotYet
  /\ got # NotYet =>
       /\ present \in 0..(Len(wire) + 1)
       /\ got = RecvDataframe(BufferOf(SubSeq(wire \o NextFrame, 1, present)), Uninit)

CodecInv == SenderInv /\ WireInv

\* The types of what the owner has in mind
LEMMA PacketTypes ==
  ASSUME SenderInv
  PROVE  /\ packet.fin \in {0, 1} /\ packet.rsv \in 0..7 /\ packet.opcode \in 0..15
         /\ packet.mask \in {0, 1} /\ packet.payload \in Seq(Bytes)
         /\ Key \in [1..4 -> Bytes]
<1>1. packet \in [fin : {0, 1}, rsv : 0..7, opcode : 0..15, mask : {0, 1}, payload : Seq(Bytes)]
  BY CodecAssumption DEF CodecAssumption, SenderInv
<1>2. Key \in [1..4 -> Bytes]
  BY CodecAssumption DEF CodecAssumption
<1> QED
  BY <1>1, <1>2

\* The payload of the packet so far
LEMMA SenderPayload ==
  ASSUME SenderInv
  PROVE  /\ sender.payload_length \in Nat
         /\ sender.payload.data = SubSeq(packet.payload, 1, sender.payload_length)
         /\ Length(sender.payload) = sender.payload_length
<1>1. PICK s \in Seq(Bytes), n \in Nat :
        n <= Len(s) /\ s = packet.payload /\ n = sender.payload_length
  BY PacketTypes DEF SenderInv
<1>2. sender.payload = BufferOf(SubSeq(s, 1, n))
  BY <1>1 DEF SenderInv
<1>3. \A i \in 1..n : s[i] \in Bytes
  BY <1>1, LenProperties
<1>4. n \in Nat /\ Len(SubSeq(s, 1, n)) = n
  BY <1>3, LenProperties, SubSeqProperties
<1>5. Length(sender.payload) = Len(SubSeq(s, 1, n)) /\ sender.payload.data = SubSeq(s, 1, n)
  BY <1>2, BufferOfIs, Zenon
<1> QED
  BY <1>1, <1>4, <1>5

\* A setter disturbs no other field.
LEMMA SetFieldKeeps ==
  ASSUME CodecInv, NEW name \in todo, SetField(name)
  PROVE  CodecInv'
<1> USE DEF CodecInv
<1>1. name \in Setters
  BY DEF SenderInv
<1>2. /\ DOMAIN sender' = DOMAIN sender
      /\ sender'[name] = packet[name]
      /\ \A other \in DOMAIN sender : other # name => sender'[other] = sender[other]
  BY <1>1 DEF SetField, SenderInv
<1>3. /\ sender'.key = sender.key /\ sender'.payload = sender.payload
      /\ sender'.payload_length = sender.payload_length
  BY <1>1, <1>2 DEF SenderInv, Setters
<1>4. UNCHANGED <<packet, wire, present, got>> /\ todo' = todo \ {name}
  BY DEF SetField
<1>5. \A other \in Setters \ todo' : sender'[other] = packet[other]
  BY <1>2, <1>4 DEF SenderInv
<1>6. SenderInv'
  BY <1>2, <1>3, <1>4, <1>5 DEF SenderInv
<1>7. WireInv'
  BY <1>4 DEF WireInv, WireFrame
<1> QED
  BY <1>6, <1>7

\* set_payload appends the next piece and counts what is there then.
LEMMA SetPayloadKeeps ==
  ASSUME CodecInv, NEW size \in Nat, SetNextPayload(size)
  PROVE  CodecInv'
<1> USE DEF CodecInv
<1>1. PICK s \in Seq(Bytes), n \in Nat :
        n <= Len(s) /\ s = packet.payload /\ n = sender.payload_length
  BY PacketTypes DEF SenderInv
<1>2. Length(sender.payload) = n /\ n \in Nat /\ Len(s) \in Nat
  BY <1>1, SenderPayload, LenProperties
<1>3. PICK m \in 0..Len(s) : m = n + size
  BY <1>1, <1>2 DEF SetNextPayload
<1>4. sender' = SetPayload(sender, SubSeq(s, n + 1, m))
  BY <1>1, <1>2, <1>3 DEF SetNextPayload
<1> DEFINE buffer == AppendBytes(sender.payload, SubSeq(s, n + 1, m))
<1>5. buffer = BufferOf(SubSeq(s, 1, m))
  <2>1. sender.payload = BufferOf(SubSeq(s, 1, n))
    BY <1>1 DEF SenderInv
  <2>2. SubSeq(s, 1, n) \o SubSeq(s, n + 1, m) = SubSeq(s, 1, m)
    <3>1. 1 \in 1..(Len(s) + 1) /\ n \in (1 - 1)..Len(s) /\ m \in n..Len(s)
      BY <1>2, <1>3
    <3> QED
      BY <3>1, ConcatAdjacentSubSeq
  <2> QED
    BY <2>1, <2>2, AppendIs
<1>6. Length(buffer) = m
  <2>1. \A i \in 1..m : s[i] \in Bytes
    BY <1>2
  <2>2. Len(SubSeq(s, 1, m)) = m
    BY <1>2, <2>1, SubSeqProperties
  <2> QED
    BY <1>5, <2>2, BufferOfIs, Zenon
<1>7. sender' = [sender EXCEPT !.payload = buffer, !.payload_length = Length(buffer)]
  BY <1>4, Zenon DEF SetPayload
<1> HIDE DEF buffer
<1>8. /\ DOMAIN sender' = DOMAIN sender
      /\ sender'.payload = buffer /\ sender'.payload_length = m
      /\ \A name \in Setters \cup {"key"} : sender'[name] = sender[name]
  BY <1>6, <1>7 DEF SenderInv, Setters
<1>9. UNCHANGED <<packet, todo, wire, present, got>>
  BY DEF SetNextPayload
<1>10. /\ sender'.key = Key
       /\ \A name \in Setters \ todo : sender'[name] = packet[name]
  BY <1>8 DEF SenderInv
<1>11. SenderInv'
  BY <1>1, <1>5, <1>8, <1>9, <1>10 DEF SenderInv
<1>12. WireInv'
  BY <1>9 DEF WireInv, WireFrame
<1> QED
  BY <1>11, <1>12

\* When all of it is set, pack_dataframe writes the frame.
LEMMA PackKeeps ==
  ASSUME CodecInv, Pack
  PROVE  CodecInv'
<1> USE DEF CodecInv
<1>1. sender.payload.data = packet.payload /\ sender.payload_length = Len(packet.payload)
  BY PacketTypes, SenderPayload, SubSeqFull DEF Pack
<1>2. /\ sender.fin = packet.fin /\ sender.rsv = packet.rsv /\ sender.opcode = packet.opcode
      /\ sender.mask = packet.mask /\ sender.key = Key
  BY DEF Pack, SenderInv, Setters
<1>3. IsPacket(sender)
  BY <1>1, <1>2, PacketTypes DEF IsPacket
<1>4. FrameOf(sender) = WireFrame
  BY <1>1, <1>2 DEF FrameOf, WireFrame
<1>5. wire' = EncodeFrame(WireFrame)
  BY <1>3, <1>4, PackIsEncode DEF Pack
<1>6. UNCHANGED <<packet, sender, todo, present, got>> /\ got = NotYet
  BY DEF Pack, WireInv
<1>7. SenderInv'
  BY <1>6 DEF SenderInv
<1>8. WireInv'
  BY <1>5, <1>6 DEF WireInv, WireFrame
<1> QED
  BY <1>7, <1>8

\* Each attempt reads a part of the frame from the start.
LEMMA ReceiveKeeps ==
  ASSUME CodecInv, NEW n \in ReadEnds, Receive(n)
  PROVE  CodecInv'
<1> USE DEF CodecInv
<1>1. n \in 0..(Len(wire) + 1)
  BY DEF ReadEnds
<1>2. UNCHANGED <<packet, sender, todo, wire>> /\ wire # <<>> /\ present' = n
      /\ got' = RecvDataframe(BufferOf(SubSeq(wire \o NextFrame, 1, n)), Uninit)
  BY DEF Receive
<1>3. SenderInv'
  BY <1>2 DEF SenderInv
<1>4. WireInv'
  BY <1>1, <1>2 DEF WireInv, WireFrame
<1> QED
  BY <1>3, <1>4

\* Every step keeps the invariant.
LEMMA CodecNext == CodecInv /\ [Next]_vars => CodecInv'
<1> SUFFICES ASSUME CodecInv, [Next]_vars PROVE CodecInv'
  OBVIOUS
<1>1. CASE \E name \in todo : SetField(name)
  BY <1>1, SetFieldKeeps
<1>2. CASE \E size \in Pieces : SetNextPayload(size)
  <2>1. PICK size \in Pieces : SetNextPayload(size)
    BY <1>2
  <2>2. size \in Nat
    <3>1. Length(sender.payload) \in Nat /\ Len(packet.payload) \in Nat
      BY SenderPayload, PacketTypes, LenProperties DEF CodecInv
    <3> QED
      BY <2>1, <3>1 DEF Pieces, SetNextPayload
  <2> QED
    BY <2>1, <2>2, SetPayloadKeeps
<1>3. CASE Pack
  BY <1>3, PackKeeps
<1>4. CASE \E n \in ReadEnds : Receive(n)
  BY <1>4, ReceiveKeeps
<1>5. CASE UNCHANGED vars
  BY <1>5 DEF vars, CodecInv, SenderInv, WireInv, WireFrame
<1> QED
  BY <1>1, <1>2, <1>3, <1>4, <1>5 DEF Next

\* The invariant holds at the start.
LEMMA CodecInit == Init => CodecInv
<1> SUFFICES ASSUME Init PROVE CodecInv
  OBVIOUS
<1>1. packet.payload \in Seq(Bytes)
  BY CodecAssumption DEF CodecAssumption, Init
<1>2. SubSeq(packet.payload, 1, 0) = <<>>
  BY SubSeqEmpty
<1>3. EmptyBuffer = BufferOf(<<>>)
  BY Zenon DEF EmptyBuffer, BufferOf
<1>4. /\ DOMAIN sender = Setters \cup {"key", "payload", "payload_length"}
      /\ sender.key = Key /\ sender.payload_length = 0 /\ sender.payload = EmptyBuffer
  BY DEF Init, NewPacket, Setters
<1>5. SenderInv
  <2>1. PICK s \in Seq(Bytes) : s = packet.payload
    BY <1>1, Zenon
  <2>2. Len(s) \in Nat
    BY LenProperties
  <2>3. sender.payload_length \in 0..Len(packet.payload)
    BY <1>4, <2>1, <2>2
  <2>4. sender.payload = BufferOf(SubSeq(packet.payload, 1, sender.payload_length))
    BY <1>2, <1>3, <1>4, Zenon
  <2>5. packet \in Packets /\ todo = Setters
    BY DEF Init, Setters
  <2> QED
    BY <1>4, <2>3, <2>4, <2>5, Zenon DEF SenderInv
<1>6. WireInv
  BY DEF WireInv, Init
<1> QED
  BY <1>5, <1>6 DEF CodecInv

\* The invariant holds throughout.
LEMMA CodecHolds == Spec => []CodecInv
BY CodecInit, CodecNext, PTL DEF Spec

\* pack_dataframe writes the frame of RFC 6455 for every packet, whatever the
\* order of its setters and the pieces of its payload.
THEOREM PacksByTheRFC == Spec => []PacksRFCFrame
<1>1. CodecInv => PacksRFCFrame
  BY DEF CodecInv, WireInv, PacksRFCFrame
<1> QED
  BY <1>1, CodecHolds, PTL

(***************************************************************************)
(* What the receiver makes of it                                           *)
(***************************************************************************)

\* A part of the frame, or the frame with the first byte of the next one
LEMMA WireRead ==
  ASSUME NEW w \in Seq(Bytes), NEW n \in 0..(Len(w) + 1)
  PROVE  LET d == SubSeq(w \o NextFrame, 1, n)
         IN  d \in Seq(Bytes) /\ Len(d) = n /\ Begins(d, w)
<1>1. NextFrame \in Seq(Bytes) /\ Len(NextFrame) = 1
  BY DEF NextFrame, Bytes
<1>2. PICK next \in Seq(Bytes), t \in Seq(Bytes) :
        next = NextFrame /\ Len(next) = 1 /\ t = w \o next /\ IsConcat(w, next, t)
  <2>1. PICK next \in Seq(Bytes) : next = NextFrame /\ Len(next) = 1
    BY <1>1, Zenon
  <2>2. w \o next \in Seq(Bytes) /\ IsConcat(w, next, w \o next)
    BY ConcatParts, Zenon
  <2> QED
    BY <2>1, <2>2, Zenon
<1>3. Len(t) = Len(w) + 1 /\ \A i \in 1..Len(w) : t[i] = w[i]
  BY <1>2, Zenon DEF IsConcat
<1>4. Len(w) \in Nat /\ Len(t) \in Nat
  BY LenProperties
<1>5. \A i \in 1..n : t[i] \in Bytes
  BY <1>3, <1>4
<1>6. PICK d \in Seq(Bytes) :
        d = SubSeq(t, 1, n) /\ Len(d) = n /\ \A i \in 1..n : d[i] = t[i]
  <2>1. /\ SubSeq(t, 1, n) \in Seq(Bytes) /\ Len(SubSeq(t, 1, n)) = n
        /\ \A i \in 1..n : SubSeq(t, 1, n)[i] = t[1 + i - 1]
    BY <1>4, <1>5, SubSeqProperties
  <2>2. \A i \in 1..n : 1 + i - 1 = i
    BY <1>4
  <2> QED
    BY <2>1, <2>2
<1>7. Begins(d, w)
  BY <1>3, <1>4, <1>6 DEF Begins
<1> QED
  BY <1>2, <1>6, <1>7, Zenon

\* The frame that the owner has in mind is one.
LEMMA WireFrameIs ==
  ASSUME SenderInv
  PROVE  /\ IsFrame(WireFrame) /\ WireFrame.payload = packet.payload /\ WireFrame.fin = packet.fin
         /\ packet.mask = 1 => WireFrame.key # <<>>
         /\ packet.rsv = 0 => WireFrame.opcode = packet.opcode
<1>1. PICK p : p = [fin |-> packet.fin, rsv |-> packet.rsv, opcode |-> packet.opcode,
                    mask |-> packet.mask, key |-> Key, payload |-> BufferOf(packet.payload),
                    payload_length |-> Len(packet.payload)]
  OBVIOUS
<1>2. /\ p.fin = packet.fin /\ p.rsv = packet.rsv /\ p.opcode = packet.opcode
      /\ p.mask = packet.mask /\ p.key = Key /\ p.payload_length = Len(packet.payload)
      /\ p.payload.data = packet.payload
  BY <1>1 DEF BufferOf
<1>3. IsPacket(p)
  BY <1>2, PacketTypes, Zenon DEF IsPacket
<1>4. FrameOf(p) = WireFrame
  BY <1>2, Zenon DEF FrameOf, WireFrame
<1>5. IsFrame(WireFrame) /\ WireFrame.payload = packet.payload
  BY <1>2, <1>3, <1>4, FrameOfIs, Zenon
<1>6. WireFrame.fin = packet.fin /\ (packet.mask = 1 => WireFrame.key = Key)
  BY DEF WireFrame
<1>7. Key # <<>>
  BY PacketTypes, KeyIs, Zenon
<1>8. packet.rsv = 0 => WireFrame.opcode = packet.opcode
  <2>1. WireFrame.opcode = 16 * packet.rsv + packet.opcode
    BY DEF WireFrame
  <2> QED
    BY <2>1, PacketTypes
<1> QED
  BY <1>5, <1>6, <1>7, <1>8, Zenon

\* A short frame is a sequence of bytes.
LEMMA ShortFrameBytes ==
  ASSUME NEW f, IsShortFrame(f)
  PROVE  Len(EncodeHeader(f)) \in Nat /\ EncodeFrame(f) \in Seq(Bytes)
<1>1. PICK h, w : h = Len(EncodeHeader(f)) /\ w = EncodeFrame(f) /\ FrameBytes(f, w, h)
  BY FrameBytesAre, Zenon
<1>2. h \in 2..8 /\ w \in Seq(Bytes)
  BY <1>1, Zenon DEF FrameBytes
<1> QED
  BY <1>1, <1>2

\* What the receiver supports: lengths up to 65535, and no empty frame that is
\* not masked.
ShortOnly == \A p \in Packets : IsShort(Len(p.payload))
NoBareFrame == \A p \in Packets : p.mask = 1 \/ p.payload # <<>>

\* An attempt at a frame is one at a part of it.
LEMMA AttemptIs ==
  ASSUME CodecInv, Received, ShortOnly
  PROVE  \E d \in Seq(Bytes) :
           /\ IsShortFrame(WireFrame) /\ wire = EncodeFrame(WireFrame) /\ wire \in Seq(Bytes)
           /\ Len(d) = present /\ Begins(d, EncodeFrame(WireFrame))
           /\ got = RecvDataframe(BufferOf(d), Uninit)
<1>1. wire # <<>> /\ wire = EncodeFrame(WireFrame)
  BY Zenon DEF CodecInv, WireInv, Received
<1>2. /\ present \in 0..(Len(wire) + 1)
      /\ got = RecvDataframe(BufferOf(SubSeq(wire \o NextFrame, 1, present)), Uninit)
  BY Zenon DEF CodecInv, WireInv, Received
<1>3. IsShortFrame(WireFrame)
  BY WireFrameIs, Zenon DEF CodecInv, SenderInv, ShortOnly, IsShortFrame
<1>4. PICK w \in Seq(Bytes), n \in 0..(Len(wire) + 1) : w = wire /\ n = present
  BY <1>1, <1>2, <1>3, ShortFrameBytes, Zenon
<1>5. PICK d \in Seq(Bytes) : d = SubSeq(w \o NextFrame, 1, n) /\ Len(d) = n /\ Begins(d, w)
  BY <1>4, WireRead, Zenon
<1> QED
  BY <1>1, <1>2, <1>3, <1>4, <1>5, Zenon

\* A frame that is there completely is received as it was packed, to its last
\* byte and no further, whatever of the next frame is behind it.
THEOREM TakenAsPacked ==
  ASSUME ShortOnly, NoBareFrame
  PROVE  Spec => []RoundTrip
<1>1. ASSUME CodecInv, Received, present >= Len(wire)
      PROVE  RoundTrip
  <2>1. PICK d \in Seq(Bytes) :
          /\ IsShortFrame(WireFrame) /\ wire = EncodeFrame(WireFrame) /\ wire \in Seq(Bytes)
          /\ Len(d) = present /\ Begins(d, EncodeFrame(WireFrame))
          /\ got = RecvDataframe(BufferOf(d), Uninit)
    BY <1>1, AttemptIs, Zenon
  <2>2. Len(EncodeFrame(WireFrame)) <= Len(d)
    <3>1. PICK w \in Seq(Bytes) : w = wire
      BY <2>1, Zenon
    <3>2. Len(w) \in Nat /\ Len(d) \in Nat /\ Len(d) >= Len(w)
      BY <1>1, <2>1, <3>1, LenProperties
    <3>3. Len(w) <= Len(d)
      BY <3>2
    <3> QED
      BY <2>1, <3>1, <3>3, Zenon
  <2>3. WireFrame.key # <<>> \/ WireFrame.payload # <<>>
    BY <1>1, WireFrameIs, Zenon DEF CodecInv, SenderInv, NoBareFrame
  <2>4. FrameTaken(got, WireFrame, d, Len(wire))
    BY <2>1, <2>2, <2>3, WholeFrameTaken, Zenon
  <2> QED
    BY <1>1, <2>4, WireFrameIs, Zenon DEF RoundTrip, FrameTaken, CodecInv
<1>2. CodecInv => RoundTrip
  BY <1>1, Zenon DEF RoundTrip
<1> QED
  BY <1>2, CodecHolds, PTL

\* A part of a frame is not taken for a frame if its header is there, or if it
\* is a masked one of 4 to 125 bytes that is no continuation.
THEOREM PartsAwaited ==
  ASSUME ShortOnly
  PROVE  Spec => []PrefixIsNoFrame
<1>1. ASSUME CodecInv, Received, present < Len(wire),
             Sturdy(WireFrame) \/ present >= Len(EncodeHeader(WireFrame))
      PROVE  got.ndf = 0 /\ ~got.throws
  <2>1. PICK d \in Seq(Bytes) :
          /\ IsShortFrame(WireFrame) /\ wire = EncodeFrame(WireFrame) /\ wire \in Seq(Bytes)
          /\ Len(d) = present /\ Begins(d, EncodeFrame(WireFrame))
          /\ got = RecvDataframe(BufferOf(d), Uninit)
    BY <1>1, AttemptIs, Zenon
  <2>2. Len(d) < Len(EncodeFrame(WireFrame))
    BY <1>1, <2>1, Zenon
  <2>3. FrameAwaited(got, d)
    <3>1. CASE Sturdy(WireFrame)
      BY <2>1, <2>2, <3>1, SturdyAwaited, Zenon
    <3>2. CASE present >= Len(EncodeHeader(WireFrame))
      <4>1. Len(EncodeHeader(WireFrame)) <= Len(d)
        <5>1. PICK f : f = WireFrame /\ IsShortFrame(f)
          BY <2>1, Zenon
        <5>2. Len(EncodeHeader(f)) \in Nat /\ Len(d) \in Nat
          BY <5>1, ShortFrameBytes, LenProperties
        <5>3. Len(d) >= Len(EncodeHeader(f))
          BY <2>1, <3>2, <5>1, Zenon
        <5>4. Len(EncodeHeader(f)) <= Len(d)
          BY <5>2, <5>3
        <5> QED
          BY <5>1, <5>4, Zenon
      <4> QED
        BY <2>1, <2>2, <4>1, PartAwaited, Zenon
    <3> QED
      BY <1>1, <3>1, <3>2, Zenon
  <2> QED
    BY <2>3, Zenon DEF FrameAwaited
<1>2. CodecInv => PrefixIsNoFrame
  BY <1>1, Zenon DEF PrefixIsNoFrame
<1> QED
  BY <1>2, CodecHolds, PTL
=============================================================================
