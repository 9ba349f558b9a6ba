---------------------- MODULE WebSocketEndpoint_proofs ----------------------
(***************************************************************************)
(* Proofs about the endpoint for every peer, every size of a read and      *)
(* every value of the members that nothing initialises.                    *)
(***************************************************************************)
EXTENDS WebSocketEndpoint, WebSocketPacket_proofs, WebSocketHandshake_proofs

(***************************************************************************)
(* The parsers                                                             *)
(***************************************************************************)

\* The length in the second byte of a header is less than 128.
LEMMA OneByte ==
  ASSUME NEW s \in Seq(Bytes), Len(s) = 1
  PROVE  s[1] % 128 \in 0..127
<1>0. 1 \in 1..Len(s)
  OBVIOUS
<1>1. s[1] \in Bytes
  BY <1>0, ElementOfSeq, Zenon
<1>2. \A x \in Bytes : x % 128 \in 0..127
  BY DEF Bytes
<1> QED
  BY <1>1, <1>2

\* The extended length is a number whatever its two bytes are.
LEMMA TwoBytes ==
  ASSUME NEW s \in Seq(Bytes), Len(s) = 2
  PROVE  BigEndianLength(s) \in Nat
<1>0. 1 \in 1..Len(s) /\ 2 \in 1..Len(s)
  OBVIOUS
<1>1. s[1] \in Bytes
  BY <1>0, ElementOfSeq, Zenon
<1>2. s[2] \in Bytes
  BY <1>0, ElementOfSeq, Zenon
<1>3. \A x, y \in Bytes : 256 * x + y \in Nat
  BY DEF Bytes
<1>4. 256 * s[1] + s[2] \in Nat
  BY <1>1, <1>2, <1>3
<1> QED
  BY <1>4 DEF BigEndianLength

\* fetch_frame_info reads no further than the buffer goes, changes no byte of
\* it and finds a length.
LEMMA FetchFrameInfoSound ==
  ASSUME NEW b, Sound(b), NEW garbage
  PROVE  /\ Sound(FetchFrameInfo(b, garbage).input)
         /\ FetchFrameInfo(b, garbage).input.data = b.data
         /\ FetchFrameInfo(b, garbage).length \in Nat
<1> DEFINE first  == Read(b, 1, <<0>>)
           b1     == Skip(b, 1)
           second == Read(b1, 1, first)
           b2     == Skip(b1, 1)
           ltype  == second[1] % 128
           array  == Read(b2, 2, <<0, 0>>)
           b3     == CASE ltype < 126 -> b2
                       [] ltype = 126 -> Skip(b2, 2)
                       [] ltype = 127 -> Skip(b2, 8)
           b4     == IF second[1] \div 128 = 1 THEN Skip(b3, 4) ELSE b3
           length == CASE ltype < 126 -> ltype
                       [] ltype = 126 -> BigEndianLength(array)
                       [] ltype = 127 -> 0
<1>1. <<0>> \in Seq(Bytes) /\ Len(<<0>>) = 1 /\ <<0, 0>> \in Seq(Bytes) /\ Len(<<0, 0>>) = 2
  BY DEF Bytes
<1>2. first \in Seq(Bytes) /\ Len(first) = 1
  BY <1>1, ReadSound
<1>3. Sound(b1) /\ b1.data = b.data
  BY SkipSound
<1>4. second \in Seq(Bytes) /\ Len(second) = 1
  BY <1>2, <1>3, ReadSound
<1>5. Sound(b2) /\ b2.data = b.data
  BY <1>3, SkipSound
<1>6. array \in Seq(Bytes) /\ Len(array) = 2
  BY <1>1, <1>5, ReadSound
<1>7. ltype \in 0..127
  BY <1>4, OneByte
<1>8. Sound(b3) /\ b3.data = b.data
  <2>1. Sound(Skip(b2, 2)) /\ Skip(b2, 2).data = b.data
    BY <1>5, SkipSound
  <2>2. Sound(Skip(b2, 8)) /\ Skip(b2, 8).data = b.data
    BY <1>5, SkipSound
  <2>3. ltype < 126 \/ ltype = 126 \/ ltype = 127
    BY <1>7
  <2> QED
    BY <1>5, <1>7, <2>1, <2>2, <2>3
<1>9. Sound(b4) /\ b4.data = b.data
  BY <1>8, SkipSound
<1>10. length \in Nat
  <2>1. BigEndianLength(array) \in Nat
    BY <1>6, TwoBytes
  <2> QED
    BY <1>7, <2>1
<1>11. FetchFrameInfo(b, garbage).input = b4 /\ FetchFrameInfo(b, garbage).length = length
  BY DEF FetchFrameInfo
<1> QED
  BY <1>9, <1>10, <1>11

\* recv_dataframe changes no byte of its input, and its result is a size.
LEMMA RecvDataframeSound ==
  ASSUME NEW b, Sound(b), NEW garbage
  PROVE  /\ Sound(RecvDataframe(b, garbage).input)
         /\ RecvDataframe(b, garbage).input.data = b.data
         /\ RecvDataframe(b, garbage).ndf \in Nat
<1> DEFINE info  == FetchFrameInfo(b, garbage)
           after == Skip(info.input, info.length)
<1>1. Sound(after) /\ after.data = b.data
  BY FetchFrameInfoSound, SkipSound
<1>2. Sound(ResetOft(b)) /\ ResetOft(b).data = b.data
  BY DEF Sound, Buffer, ResetOft
<1>3. after.oft \in Nat
  BY <1>1 DEF Sound, Buffer
<1> HIDE DEF info, after
<1>4. /\ RecvDataframe(b, garbage).input \in {after, ResetOft(b)}
      /\ RecvDataframe(b, garbage).ndf \in {after.oft, 0}
  BY DEF RecvDataframe, info, after
<1> QED
  BY <1>1, <1>2, <1>3, <1>4

\* find() returns npos or a position.
LEMMA FindSound ==
  ASSUME NEW S, NEW s \in Seq(S), NEW T, NEW what \in Seq(T)
  PROVE  Find(s, what, 1) \in Nat
<1> DEFINE hits == {i \in 1..(Len(s) + 1 - Len(what)) :
                      SubSeq(s, i, i + Len(what) - 1) = what}
           first == CHOOSE i \in hits : \A j \in hits : i <= j
<1>1. hits \in SUBSET Nat
  BY LenProperties
<1>2. hits # {} => first \in Nat
  BY <1>1, FirstExists
<1>3. Find(s, what, 1) = IF hits = {} THEN 0 ELSE first
  BY Zenon DEF Find
<1> HIDE DEF hits, first
<1> QED
  BY <1>2, <1>3

\* The size fetch_hs_element finds is a number.
LEMMA FetchHsElementSize ==
  ASSUME NEW msg \in Seq(Bytes)
  PROVE  FetchHsElement(msg).size \in Int
<1>1. PICK endpos \in Nat : endpos = Find(msg, EOL \o EOL, 1)
  <2>1. EOL \o EOL \in Seq(Int)
    BY DEF EOL, CR, LF
  <2> QED
    BY <2>1, FindSound
<1>2. FetchHsElement(msg).size \in {-1, endpos + 3}
  BY <1>1 DEF FetchHsElement, ReadLines, NoRequest
<1> QED
  BY <1>1, <1>2

\* recv_handshake changes no byte of its input, leaves the cursor in front when
\* it reports an error, and the length its caller goes by is a number, whether
\* or not anything was assigned to it.
LEMMA RecvHandshakeSound ==
  ASSUME NEW b \in Buffer, b.oft = 0, NEW uninit \in UninitHs
  PROVE  /\ RecvHandshake(b, uninit).input \in Buffer
         /\ RecvHandshake(b, uninit).input.data = b.data
         /\ RecvHandshake(b, uninit).error => RecvHandshake(b, uninit).input.oft = 0
         /\ RecvHandshake(b, uninit).length \in Int
<1> DEFINE hs == FetchHsElement(b.data)
<1>1. hs.size \in Int
  BY FetchHsElementSize DEF Buffer
<1>2. uninit \in Int
  BY HandshakeAssumption DEF HandshakeAssumption
<1> HIDE DEF hs
<1>3. CASE hs.size <= 0
  BY <1>1, <1>2, <1>3 DEF RecvHandshake, hs, Buffer, ResetOft
<1>4. CASE ~(hs.size <= 0)
  <2>1. /\ Skip(b, hs.size) \in Buffer
        /\ Skip(b, hs.size).data = b.data
    BY <1>1, <1>4 DEF Skip, Buffer
  <2> QED
    BY <1>1, <1>2, <1>4, <2>1 DEF RecvHandshake, hs, Buffer, ResetOft
<1> QED
  BY <1>3, <1>4

(***************************************************************************)
(* from_wire                                                               *)
(***************************************************************************)

\* What fromwire_buf_ holds, with its cursor; pc plays no part, so that a call
\* that ended in an exception left the same behind.
WireInv ==
  /\ "bytes" \in DOMAIN peer /\ peer.bytes \in Seq(Bytes)
  /\ received \in 0..Len(peer.bytes)
  /\ consumed \in 0..received
  /\ fromwire_buf_ = BufferOf(SubSeq(peer.bytes, consumed + 1, received))

MessageInv == message_data_ = BufferOf(message_data_.data)

IInv == WireInv /\ MessageInv

\* What WireInv says of the types of the bytes
LEMMA WireTypes ==
  ASSUME WireInv
  PROVE  /\ peer.bytes \in Seq(Bytes) /\ Len(peer.bytes) \in Nat
         /\ consumed \in Nat /\ received \in Nat
         /\ consumed <= received /\ received <= Len(peer.bytes)
         /\ fromwire_buf_ \in Buffer /\ Sound(fromwire_buf_)
         /\ fromwire_buf_.oft = 0
         /\ fromwire_buf_.data = SubSeq(peer.bytes, consumed + 1, received)
<1>1. peer.bytes \in Seq(Bytes)
  BY DEF WireInv
<1>2. /\ Len(peer.bytes) \in Nat
      /\ consumed \in Nat /\ received \in Nat
      /\ consumed <= received /\ received <= Len(peer.bytes)
  BY <1>1 DEF WireInv
<1>3. SubSeq(peer.bytes, consumed + 1, received) \in Seq(Bytes)
  <2>1. \A i \in (consumed + 1)..received : peer.bytes[i] \in Bytes
    BY <1>1, <1>2
  <2> QED
    BY <1>2, <2>1, SubSeqProperties
<1>4. fromwire_buf_.oft = 0
  BY BufferOfIs, Zenon DEF WireInv
<1>5. fromwire_buf_.data = SubSeq(peer.bytes, consumed + 1, received)
  BY BufferOfIs, Zenon DEF WireInv
<1>6. fromwire_buf_ \in Buffer
  BY <1>3, BufferOfIs, Zenon DEF WireInv
<1>7. Sound(fromwire_buf_)
  BY <1>3, <1>4, <1>5, <1>6 DEF Sound
<1> QED
  BY <1>1, <1>2, <1>4, <1>5, <1>6, <1>7

\* Whatever number of bytes the parser reports, the buffer keeps the bytes
\* behind those that it dropped.
LEMMA ConsumeKeeps ==
  ASSUME WireInv, NEW b \in Buffer, b.data = fromwire_buf_.data, NEW n \in Int,
         Consume(b, n), UNCHANGED <<peer, received>>
  PROVE  WireInv'
<1>0. PICK d : d = consumed + Length(b) - Length(ResetOft(Erase(b, n)))
  OBVIOUS
<1>1. /\ d \in consumed..received
      /\ ResetOft(Erase(b, n)) = BufferOf(SubSeq(peer.bytes, d + 1, received))
  <2>1. PICK bytes \in Seq(Bytes), c \in Nat, r \in Nat :
          /\ bytes = peer.bytes /\ c = consumed /\ r = received
          /\ c <= r /\ r <= Len(bytes)
    BY WireTypes
  <2>2. b.data = SubSeq(bytes, c + 1, r)
    BY <2>1, WireTypes
  <2>3. d = c + Length(b) - Length(ResetOft(Erase(b, n)))
    BY <1>0, <2>1
  <2>4. c <= r /\ r <= Len(bytes)
    BY <2>1
  <2>5. /\ d \in c..r
        /\ ResetOft(Erase(b, n)) = BufferOf(SubSeq(bytes, d + 1, r))
    BY <2>2, <2>3, <2>4, RestOfBytes
  <2> QED
    BY <2>1, <2>5, Zenon
<1>2. consumed' = d /\ fromwire_buf_' = ResetOft(Erase(b, n))
  BY <1>0 DEF Consume
<1>3. consumed' \in 0..received
  BY <1>1, <1>2, WireTypes
<1>4. fromwire_buf_' = BufferOf(SubSeq(peer.bytes, consumed' + 1, received))
  BY <1>1, <1>2, Zenon
<1> QED
  BY <1>3, <1>4 DEF WireInv

\* An iteration that ends in resetoft() alone keeps every byte.
LEMMA AwaitKeeps ==
  ASSUME WireInv, NEW b \in Buffer, b.data = fromwire_buf_.data, AwaitMore(b)
  PROVE  WireInv'
<1>1. fromwire_buf_' = BufferOf(fromwire_buf_.data)
  BY ResetIs DEF AwaitMore
<1>2. fromwire_buf_.data = SubSeq(peer.bytes, consumed + 1, received)
  BY WireTypes
<1> QED
  BY <1>1, <1>2 DEF WireInv, AwaitMore

\* The piece that from_wire appends continues the bytes of the buffer.
LEMMA FromWireKeeps ==
  ASSUME IInv, NEW size \in 1..Len(peer.bytes), FromWire(size)
  PROVE  IInv'
<1> USE DEF IInv
<1>1. WireInv'
  <2> DEFINE m == received + size
  <2>1. m \in received..Len(peer.bytes) /\ m \in 0..Len(peer.bytes) /\ consumed \in 0..m
    BY WireTypes DEF FromWire
  <2>2. SubSeq(peer.bytes, consumed + 1, received) \o SubSeq(peer.bytes, received + 1, m)
          = SubSeq(peer.bytes, consumed + 1, m)
    <3>1. /\ consumed + 1 \in 1..(Len(peer.bytes) + 1)
          /\ received \in ((consumed + 1) - 1)..Len(peer.bytes)
      BY WireTypes
    <3> QED
      BY <2>1, <3>1, WireTypes, ConcatAdjacentSubSeq
  <2>3. fromwire_buf_' = BufferOf(SubSeq(peer.bytes, consumed + 1, m))
    <3>1. fromwire_buf_' = AppendBytes(BufferOf(SubSeq(peer.bytes, consumed + 1, received)),
                                       SubSeq(peer.bytes, received + 1, m))
      BY DEF FromWire, WireInv
    <3> QED
      BY <2>2, <3>1, AppendIs
  <2>4. received' = m /\ consumed' = consumed /\ peer' = peer
    BY DEF FromWire
  <2> HIDE DEF m
  <2> QED
    BY <2>1, <2>3, <2>4 DEF WireInv
<1>2. MessageInv'
  BY DEF FromWire, MessageInv
<1> QED
  BY <1>1, <1>2

\* The bytes of a skipped read were never received.
LEMMA SkipKeeps ==
  ASSUME IInv, NEW size \in 1..Len(peer.bytes), SkipRead(size)
  PROVE  IInv'
<1> USE DEF IInv
<1>1. PICK s \in Seq(Bytes), c \in Nat, r \in Nat, n \in Nat :
        /\ s = peer.bytes /\ c = consumed /\ r = received /\ n = size
        /\ c <= r /\ r + n <= Len(s)
  BY WireTypes, SMTT(60) DEF SkipRead
<1>2. PICK t : t = SubSeq(s, 1, r) \o SubSeq(s, r + n + 1, Len(s))
  OBVIOUS
<1>3. t \in Seq(Bytes) /\ r <= Len(t) /\ SubSeq(t, c + 1, r) = SubSeq(s, c + 1, r)
  <2>1. c <= r /\ r + n <= Len(s)
    BY <1>1
  <2> QED
    BY <1>2, <2>1, SkippedBytes, ZenonT(60)
<1>4. "bytes" \in DOMAIN peer' /\ peer'.bytes = t
  BY <1>1, <1>2 DEF SkipRead, WireInv
<1>5. UNCHANGED <<received, consumed, fromwire_buf_, message_data_>>
  BY DEF SkipRead
<1>6. received' \in 0..Len(peer'.bytes) /\ consumed' \in 0..received'
  BY <1>1, <1>3, <1>4, <1>5, LenProperties
<1>7. fromwire_buf_' = BufferOf(SubSeq(peer'.bytes, consumed' + 1, received'))
  BY <1>1, <1>3, <1>4, <1>5 DEF WireInv
<1>8. WireInv'
  BY <1>3, <1>4, <1>6, <1>7 DEF WireInv
<1> QED
  BY <1>5, <1>8 DEF MessageInv

\* Whatever recv_handshake made of the buffer, from_wire keeps the bytes it did
\* not erase.
LEMMA HandshakeKeeps ==
  ASSUME IInv, HandshakeStep
  PROVE  IInv'
<1> USE DEF IInv
<1>1. PICK uninit \in UninitHs :
        LET hs == RecvHandshake(fromwire_buf_, uninit)
        IN  \/ RejectHandshake(hs) \/ AwaitHandshake(hs)
            \/ AnswerHandshake(hs) \/ OverrunRequest(hs)
  BY DEF HandshakeStep
<1> DEFINE hs0 == RecvHandshake(fromwire_buf_, uninit)
<1>2. PICK hs : hs = hs0
  OBVIOUS
<1>3. RejectHandshake(hs) \/ AwaitHandshake(hs) \/ AnswerHandshake(hs) \/ OverrunRequest(hs)
  BY <1>1, <1>2
<1>4. /\ hs.input \in Buffer /\ hs.input.data = fromwire_buf_.data
      /\ hs.error => hs.input.oft = 0
      /\ hs.length \in Int
  BY <1>2, WireTypes, RecvHandshakeSound
<1> HIDE DEF hs0
<1>5. CASE RejectHandshake(hs)
  <2>1. hs.input = fromwire_buf_
    <3>1. hs.input.oft = 0 /\ fromwire_buf_.oft = 0
      BY <1>4, <1>5, WireTypes DEF RejectHandshake
    <3>2. fromwire_buf_ = BufferOf(fromwire_buf_.data)
      BY <3>1, WireTypes, FrontIs
    <3>3. hs.input = BufferOf(hs.input.data)
      BY <1>4, <3>1, FrontIs
    <3> QED
      BY <1>4, <3>1, <3>2, <3>3, Zenon
  <2> QED
    BY <1>5, <2>1 DEF RejectHandshake, WireInv, MessageInv
<1>6. CASE AwaitHandshake(hs)
  <2>1. WireInv'
    BY <1>4, <1>6, AwaitKeeps DEF AwaitHandshake
  <2> QED
    BY <1>6, <2>1 DEF AwaitHandshake, AwaitMore, MessageInv
<1>7. CASE AnswerHandshake(hs)
  <2>1. WireInv'
    BY <1>4, <1>7, ConsumeKeeps DEF AnswerHandshake
  <2> QED
    BY <1>7, <2>1 DEF AnswerHandshake, MessageInv
<1>8. CASE OverrunRequest(hs)
  BY <1>8 DEF OverrunRequest, WireInv, MessageInv
<1> QED
  BY <1>3, <1>5, <1>6, <1>7, <1>8

\* Nor does what recv_dataframe made of it.
LEMMA FrameKeeps ==
  ASSUME IInv, FrameStep
  PROVE  IInv'
<1> USE DEF IInv
<1>1. PICK key \in UninitKeys :
        LET df == RecvDataframe(fromwire_buf_, key)
        IN  AwaitFrame(df) \/ TakeFragment(df) \/ TakeFinalFrame(df) \/ ThrowInPayload(df)
  BY DEF FrameStep
<1> DEFINE df0 == RecvDataframe(fromwire_buf_, key)
<1>2. PICK df : df = df0
  OBVIOUS
<1>3. AwaitFrame(df) \/ TakeFragment(df) \/ TakeFinalFrame(df) \/ ThrowInPayload(df)
  BY <1>1, <1>2
<1>4. df.input \in Buffer /\ df.input.data = fromwire_buf_.data /\ df.ndf \in Int
  BY <1>2, WireTypes, RecvDataframeSound DEF Sound
<1> HIDE DEF df0
<1>5. CASE AwaitFrame(df)
  <2>1. WireInv'
    BY <1>4, <1>5, AwaitKeeps DEF AwaitFrame
  <2> QED
    BY <1>5, <2>1 DEF AwaitFrame, AwaitMore, MessageInv
<1>6. CASE TakeFragment(df)
  <2>1. WireInv'
    BY <1>4, <1>6, ConsumeKeeps DEF TakeFragment
  <2>2. message_data_' = BufferOf(message_data_.data \o df.payload)
    <3>1. message_data_' = AppendBytes(BufferOf(message_data_.data), df.payload)
      BY <1>6 DEF TakeFragment, MessageInv
    <3> QED
      BY <3>1, AppendIs
  <2>3. MessageInv'
    BY <2>2, BufferOfIs, Zenon DEF MessageInv
  <2> QED
    BY <2>1, <2>3
<1>7. CASE TakeFinalFrame(df)
  <2>1. WireInv'
    BY <1>4, <1>7, ConsumeKeeps DEF TakeFinalFrame
  <2> DEFINE message == AppendBytes(message_data_, df.payload)
             all     == message_data_.data \o df.payload
  <2>2. message = BufferOf(all)
    <3>1. message = AppendBytes(BufferOf(message_data_.data), df.payload)
      BY DEF MessageInv
    <3> QED
      BY <3>1, AppendIs
  <2>3. message_data_' = ResetOft(Erase(message, Length(message)))
    BY <1>7 DEF TakeFinalFrame
  <2> HIDE DEF message, all
  <2>4. PICK rest : message_data_' = BufferOf(rest)
    BY <2>2, <2>3, EraseInFront, Zenon
  <2>5. MessageInv'
    BY <2>4, BufferOfIs, Zenon DEF MessageInv
  <2> QED
    BY <2>1, <2>5
<1>8. CASE ThrowInPayload(df)
  BY <1>8 DEF ThrowInPayload, WireInv, MessageInv
<1> QED
  BY <1>3, <1>5, <1>6, <1>7, <1>8

\* Nothing has been received yet.
LEMMA InitKeeps == Init => IInv
<1> SUFFICES ASSUME Init PROVE IInv
  OBVIOUS
<1>1. peer.bytes \in Seq(Bytes)
  BY EndpointAssumption DEF EndpointAssumption, Init
<1>2. SubSeq(peer.bytes, 1, 0) = <<>>
  BY SubSeqEmpty
<1>3. EmptyBuffer = BufferOf(<<>>)
  BY Zenon DEF EmptyBuffer, BufferOf
<1>4. message_data_ = BufferOf(<<>>) /\ MessageInv
  BY <1>3, BufferOfIs, Zenon DEF Init, MessageInv
<1>5. consumed + 1 = 1 /\ received = 0
  BY DEF Init
<1>6. fromwire_buf_ = BufferOf(SubSeq(peer.bytes, consumed + 1, received))
  BY <1>2, <1>3, <1>5, Zenon DEF Init
<1>7. /\ received \in 0..Len(peer.bytes) /\ consumed \in 0..received
      /\ "bytes" \in DOMAIN peer
  BY <1>1, EndpointAssumption DEF EndpointAssumption, Init
<1> QED
  BY <1>1, <1>4, <1>6, <1>7 DEF IInv, WireInv

\* The steps of the endpoint are a call of process(), in one of its forms, and an
\* iteration of its loop.
LEMMA NextKeeps == IInv /\ [Next]_vars => IInv'
<1> SUFFICES ASSUME IInv, [Next]_vars PROVE IInv'
  OBVIOUS
<1>1. CASE \E size \in 1..Len(peer.bytes) :
             Process(size) \/ ProcessPlain(size) \/ SkipRead(size)
  <2>1. PICK size \in 1..Len(peer.bytes) : FromWire(size) \/ SkipRead(size)
    BY <1>1 DEF Process, ProcessPlain
  <2> QED
    BY <2>1, FromWireKeeps, SkipKeeps
<1>2. CASE HandshakeStep
  BY <1>2, HandshakeKeeps
<1>3. CASE FrameStep
  BY <1>3, FrameKeeps
<1>4. CASE UNCHANGED vars
  BY <1>4 DEF vars, IInv, WireInv, MessageInv
<1> QED
  BY <1>1, <1>2, <1>3, <1>4 DEF Next, NothingMore

\* From the two lemmas above, by induction over the steps
LEMMA InvariantHolds == Spec => []IInv
<1> QED
  BY InitKeeps, NextKeeps, PTL DEF Spec

\* Whatever a peer sends and however it is cut into reads, fromwire_buf_ holds
\* the bytes that were received and not erased, in order and once each, also
\* when a length was never assigned or reaches beyond the buffer.
THEOREM NothingLost == Spec => []BytesConserved
<1>1. IInv => BytesConserved
  BY WireTypes DEF IInv, BytesConserved
<1> QED
  BY <1>1, InvariantHolds, PTL

\* Every parse starts at the first of them, and every message at an empty
\* message_data_ or behind the fragments before it.
THEOREM ParsesFromTheFront == Spec => []CursorRewound
<1>1. IInv => CursorRewound
  <2> SUFFICES ASSUME IInv PROVE fromwire_buf_.oft = 0 /\ message_data_.oft = 0
    BY DEF CursorRewound
  <2>1. fromwire_buf_.oft = 0
    BY WireTypes DEF IInv
  <2>2. message_data_.oft = 0
    BY BufferOfIs, Zenon DEF IInv, MessageInv
  <2> QED
    BY <2>1, <2>2
<1> QED
  BY <1>1, InvariantHolds, PTL

(***************************************************************************)
(* The answer to the handshake                                             *)
(***************************************************************************)

\* The answer is the first thing that is sent, and it is sent in the step that
\* completes the handshake.
AnswerInv ==
  /\ ws_handshake_completed_ \in BOOLEAN
  /\ \E S : sent \in Seq(S)
  /\ ws_handshake_completed_ <=> Len(sent) > 0
  /\ OneHandshakeAnswer

\* Append adds one element behind the others, whatever it is.
LEMMA AppendOne ==
  ASSUME NEW S, NEW s \in Seq(S), NEW e
  PROVE  /\ \E T : Append(s, e) \in Seq(T)
         /\ Len(s) \in Nat
         /\ Len(Append(s, e)) = Len(s) + 1
         /\ \A i \in 1..Len(s) : Append(s, e)[i] = s[i]
         /\ Append(s, e)[Len(s) + 1] = e
<1> DEFINE T == S \cup {e}
<1>1. S \subseteq T /\ e \in T
  OBVIOUS
<1>2. s \in Seq(T)
  BY <1>1, SeqMonotonic
<1> HIDE DEF T
<1> QED
  BY <1>1, <1>2, AppendProperties, LenProperties

\* The first thing that is sent is the answer.
LEMMA AnswerFirst ==
  ASSUME AnswerInv, ~ws_handshake_completed_, NEW bytes, ToWire("handshake", bytes),
         ws_handshake_completed_' = TRUE
  PROVE  AnswerInv'
<1> DEFINE to == IF "null" \in {nt_write_cb_, nt_work_data_} THEN "nowhere" ELSE nt_work_data_
           e  == [kind |-> "handshake", bytes |-> bytes, to |-> to]
<1>1. PICK S : sent \in Seq(S)
  BY DEF AnswerInv
<1>2. sent' = Append(sent, e) /\ e.kind = "handshake"
  BY DEF ToWire
<1> HIDE DEF e, to
<1>3. Len(sent) = 0
  BY <1>1, LenProperties DEF AnswerInv
<1>4. /\ \E T : sent' \in Seq(T)
      /\ Len(sent') = 1
      /\ sent'[1] = e
  <2>1. /\ \E T : sent' \in Seq(T)
        /\ Len(sent') = Len(sent) + 1
        /\ sent'[Len(sent) + 1] = e
    <3>1. /\ \E T : Append(sent, e) \in Seq(T)
          /\ Len(Append(sent, e)) = Len(sent) + 1
          /\ Append(sent, e)[Len(sent) + 1] = e
      BY <1>1, AppendOne, Zenon
    <3> QED
      BY <1>2, <3>1, Zenon
  <2>2. Len(sent) + 1 = 1
    BY <1>3
  <2> QED
    BY <2>1, <2>2, Zenon
<1>5. OneHandshakeAnswer'
  BY <1>2, <1>4 DEF OneHandshakeAnswer
<1> QED
  BY <1>4, <1>5 DEF AnswerInv

\* What is sent later is not an answer.
LEMMA FrameLater ==
  ASSUME AnswerInv, ws_handshake_completed_, NEW bytes, ToWire("frame", bytes),
         UNCHANGED ws_handshake_completed_
  PROVE  AnswerInv'
<1> DEFINE to == IF "null" \in {nt_write_cb_, nt_work_data_} THEN "nowhere" ELSE nt_work_data_
           e  == [kind |-> "frame", bytes |-> bytes, to |-> to]
<1>1. PICK S : sent \in Seq(S)
  BY DEF AnswerInv
<1>2. sent' = Append(sent, e) /\ e.kind = "frame"
  BY DEF ToWire
<1> HIDE DEF e, to
<1>3. Len(sent) \in Nat /\ Len(sent) > 0
  BY <1>1, LenProperties DEF AnswerInv
<1>4. /\ \E T : sent' \in Seq(T)
      /\ Len(sent') = Len(sent) + 1
      /\ \A i \in 1..Len(sent) : sent'[i] = sent[i]
      /\ sent'[Len(sent) + 1] = e
  <2>1. /\ \E T : Append(sent, e) \in Seq(T)
        /\ Len(Append(sent, e)) = Len(sent) + 1
        /\ \A i \in 1..Len(sent) : Append(sent, e)[i] = sent[i]
        /\ Append(sent, e)[Len(sent) + 1] = e
    BY <1>1, AppendOne, ZenonT(60)
  <2> QED
    BY <1>2, <2>1, Zenon
<1>5. OneHandshakeAnswer'
  <2>1. \A i \in 1..Len(sent') : (sent'[i].kind = "handshake") <=> (i = 1)
    <3> TAKE i \in 1..Len(sent')
    <3>1. CASE i \in 1..Len(sent)
      BY <1>4, <3>1 DEF AnswerInv, OneHandshakeAnswer
    <3>2. CASE i = Len(sent) + 1
      BY <1>2, <1>3, <1>4, <3>2
    <3> QED
      BY <1>3, <1>4, <3>1, <3>2
  <2> QED
    BY <2>1 DEF OneHandshakeAnswer
<1> QED
  BY <1>3, <1>4, <1>5 DEF AnswerInv

\* A step that sends nothing and leaves the handshake alone
LEMMA NothingSent ==
  ASSUME AnswerInv, UNCHANGED <<ws_handshake_completed_, sent>>
  PROVE  AnswerInv'
BY DEF AnswerInv, OneHandshakeAnswer

\* Two of the steps send something, and these are they.
LEMMA AnswerNext == AnswerInv /\ [Next]_vars => AnswerInv'
<1> SUFFICES ASSUME AnswerInv, [Next]_vars PROVE AnswerInv'
  OBVIOUS
<1>1. CASE \E size \in 1..Len(peer.bytes) :
             Process(size) \/ ProcessPlain(size) \/ SkipRead(size)
  <2>1. \E size : FromWire(size) \/ SkipRead(size)
    BY <1>1 DEF Process, ProcessPlain
  <2> QED
    BY <2>1, NothingSent DEF FromWire, SkipRead
<1>2. CASE HandshakeStep
  <2>1. PICK hs : \/ RejectHandshake(hs) \/ AwaitHandshake(hs)
                  \/ AnswerHandshake(hs) \/ OverrunRequest(hs)
    BY <1>2 DEF HandshakeStep
  <2>2. ~ws_handshake_completed_
    BY <1>2 DEF HandshakeStep, InHandshake
  <2>3. CASE RejectHandshake(hs)
    BY <2>3, NothingSent DEF RejectHandshake
  <2>4. CASE AwaitHandshake(hs)
    BY <2>4, NothingSent DEF AwaitHandshake, AwaitMore
  <2>5. CASE AnswerHandshake(hs)
    BY <2>2, <2>5, AnswerFirst DEF AnswerHandshake
  <2>6. CASE OverrunRequest(hs)
    BY <2>6, NothingSent DEF OverrunRequest
  <2> QED
    BY <2>1, <2>3, <2>4, <2>5, <2>6
<1>3. CASE FrameStep
  <2>1. PICK df : \/ AwaitFrame(df) \/ TakeFragment(df)
                  \/ TakeFinalFrame(df) \/ ThrowInPayload(df)
    BY <1>3 DEF FrameStep
  <2>2. ws_handshake_completed_
    BY <1>3 DEF FrameStep, InFrames
  <2>3. CASE AwaitFrame(df)
    BY <2>3, NothingSent DEF AwaitFrame, AwaitMore
  <2>4. CASE TakeFragment(df)
    BY <2>4, NothingSent DEF TakeFragment
  <2>5. CASE TakeFinalFrame(df)
    <3>1. UNCHANGED ws_handshake_completed_
      BY <2>5 DEF TakeFinalFrame
    <3>2. CASE df.opcode \in KnownOpcodes
      <4>1. PICK bytes : ToWire("frame", bytes)
        BY <2>5, <3>2, Zenon DEF TakeFinalFrame, Echo
      <4> QED
        BY <2>2, <3>1, <4>1, FrameLater
    <3>3. CASE df.opcode \notin KnownOpcodes
      BY <2>5, <3>1, <3>3, NothingSent DEF TakeFinalFrame
    <3> QED
      BY <3>2, <3>3
  <2>6. CASE ThrowInPayload(df)
    BY <2>6, NothingSent DEF ThrowInPayload
  <2> QED
    BY <2>1, <2>3, <2>4, <2>5, <2>6
<1>4. CASE UNCHANGED vars
  BY <1>4, NothingSent DEF vars
<1> QED
  BY <1>1, <1>2, <1>3, <1>4 DEF Next, NothingMore

\* Over the whole life of an endpoint, whatever the peer sends, the 101 answer
\* goes out at most once and nothing goes out before it.
THEOREM AnswersOnce == Spec => []OneHandshakeAnswer
<1>1. Init => AnswerInv
  <2> SUFFICES ASSUME Init PROVE AnswerInv
    OBVIOUS
  <2>1. sent \in Seq({}) /\ Len(sent) = 0
    BY EmptySeq DEF Init
  <2>2. OneHandshakeAnswer
    BY <2>1 DEF OneHandshakeAnswer
  <2>3. ws_handshake_completed_ = FALSE /\ ~(Len(sent) > 0)
    BY <2>1 DEF Init
  <2> QED
    BY <2>1, <2>2, <2>3, Zenon DEF AnswerInv
<1>2. AnswerInv => OneHandshakeAnswer
  BY DEF AnswerInv
<1> QED
  BY <1>1, <1>2, AnswerNext, PTL DEF Spec

(***************************************************************************)
(* What is delivered and what is sent for it                               *)
(***************************************************************************)

\* Four bytes are a key.
LEMMA FourBytes ==
  ASSUME NEW s \in Seq(Bytes), Len(s) = 4
  PROVE  s \in [1..4 -> Bytes]
<1>1. DOMAIN s = 1..4 /\ \A i \in 1..4 : s[i] \in Bytes
  BY LenProperties
<1>2. s = [i \in 1..4 |-> s[i]]
  BY <1>1
<1> QED
  BY <1>1, <1>2

\* The key that fetch_frame_info leaves in the packet is four bytes, received or
\* not.
LEMMA KeySound ==
  ASSUME NEW b, Sound(b), NEW garbage \in [1..4 -> Bytes]
  PROVE  FetchFrameInfo(b, garbage).key \in [1..4 -> Bytes]
<1>1. PICK first, b1, second, b2, array, type, b3, mask :
        /\ Fetched(b, first, b1, second, b2, array, type, b3)
        /\ mask = second[1] \div 128
        /\ FetchedInfo(FetchFrameInfo(b, garbage), garbage, first, mask, array, type, b3)
  BY FetchIs, Zenon
<1>2. <<0>> \in Seq(Bytes) /\ Len(<<0>>) = 1
  BY DEF Bytes
<1>3. /\ first = Read(b, 1, <<0>>) /\ b1 = Skip(b, 1)
      /\ second = Read(b1, 1, first) /\ b2 = Skip(b1, 1) /\ type = second[1] % 128
      /\ b3 = CASE type < 126 -> b2
                [] type = 126 -> Skip(b2, 2)
                [] type = 127 -> Skip(b2, 8)
  BY <1>1, Zenon DEF Fetched
<1>4. first \in Seq(Bytes) /\ Len(first) = 1 /\ Sound(b1)
  <2>1. /\ Read(b, 1, <<0>>) \in Seq(Bytes) /\ Len(Read(b, 1, <<0>>)) = 1
        /\ Sound(Skip(b, 1))
    BY <1>2, ReadSound, SkipSound
  <2> QED
    BY <1>3, <2>1, Zenon
<1>5. second \in Seq(Bytes) /\ Len(second) = 1 /\ Sound(b2)
  <2>1. /\ Read(b1, 1, first) \in Seq(Bytes) /\ Len(Read(b1, 1, first)) = 1
        /\ Sound(Skip(b1, 1))
    BY <1>4, ReadSound, SkipSound
  <2> QED
    BY <1>3, <2>1, Zenon
<1>6. type \in 0..127
  BY <1>3, <1>5, OneByte
<1>7. Sound(b3)
  <2>1. Sound(Skip(b2, 2)) /\ Sound(Skip(b2, 8))
    BY <1>5, SkipSound
  <2>2. type < 126 \/ type = 126 \/ type = 127
    BY <1>6
  <2> QED
    BY <1>3, <1>5, <1>6, <2>1, <2>2
<1>8. Read(b3, 4, garbage) \in [1..4 -> Bytes]
  BY <1>7, KeyIs, ReadSound, FourBytes
<1>9. FetchFrameInfo(b, garbage).key = IF mask = 1 THEN Read(b3, 4, garbage) ELSE garbage
  BY <1>1, Zenon DEF FetchedInfo
<1> QED
  BY <1>8, <1>9, Zenon

\* The payload is bytes of the buffer, or such bytes masked.
LEMMA PayloadSound ==
  ASSUME NEW b, Sound(b), NEW garbage \in [1..4 -> Bytes]
  PROVE  RecvDataframe(b, garbage).payload \in Seq(Bytes)
<1>1. PICK info : info = FetchFrameInfo(b, garbage)
  OBVIOUS
<1>2. PICK key \in [1..4 -> Bytes] : key = info.key
  BY <1>1, KeySound
<1>3. PICK d \in Seq(Bytes), o \in Nat, n \in Nat :
        d = info.input.data /\ o = info.input.oft /\ n = info.length /\ o <= Len(d)
  BY <1>1, FetchFrameInfoSound DEF Sound, Buffer
<1>4. PICK body : body = SubSeq(d, o + 1, o + n)
  OBVIOUS
<1>5. Incomplete(info, b) <=> n + o > Len(d)
  <2>1. info.length + info.input.oft > Length(b) <=> n + o > Len(d)
    <3>1. Length(b) = Len(d)
      BY <1>1, <1>3, FetchFrameInfoSound, Zenon DEF Length
    <3> QED
      BY <1>3, <3>1
  <2> QED
    BY <2>1, Zenon DEF Incomplete
<1>6. ~Incomplete(info, b) => body \in Seq(Bytes)
  <2>1. ~Incomplete(info, b) => o + n <= Len(d)
    BY <1>5, LenProperties
  <2>2. ASSUME o + n <= Len(d) PROVE body \in Seq(Bytes)
    <3>1. \A i \in (o + 1)..(o + n) : d[i] \in Bytes
      BY <2>2
    <3> QED
      BY <1>4, <3>1, SubSeqProperties
  <2> QED
    BY <2>1, <2>2
<1>7. RecvDataframe(b, garbage).payload =
        IF Incomplete(info, b) THEN <<>> ELSE IF info.mask = 1 THEN Mask(body, key) ELSE body
  BY <1>1, <1>2, <1>3, <1>4, SMT DEF RecvDataframe
<1>8. body \in Seq(Bytes) => Mask(body, key) \in Seq(Bytes)
  BY MaskIs, Zenon
<1> QED
  BY <1>6, <1>7, <1>8, EmptySeq, Zenon

\* What message_data_ holds are bytes.
DataInv == message_data_ \in Buffer

\* An iteration of the loop, with what recv_dataframe found
LEMMA FrameStepIs ==
  ASSUME IInv, FrameStep
  PROVE  \E df : /\ df.payload \in Seq(Bytes)
                 /\ \/ AwaitFrame(df) \/ TakeFragment(df)
                    \/ TakeFinalFrame(df) \/ ThrowInPayload(df)
<1>1. PICK key \in UninitKeys :
        LET df == RecvDataframe(fromwire_buf_, key)
        IN  AwaitFrame(df) \/ TakeFragment(df) \/ TakeFinalFrame(df) \/ ThrowInPayload(df)
  BY DEF FrameStep
<1>2. key \in [1..4 -> Bytes]
  BY EndpointAssumption DEF EndpointAssumption
<1>3. Sound(fromwire_buf_)
  BY WireTypes DEF IInv
<1>4. RecvDataframe(fromwire_buf_, key).payload \in Seq(Bytes)
  BY <1>2, <1>3, PayloadSound, Zenon
<1> QED
  BY <1>1, <1>4, Zenon

\* The message so far with the payload of the frame, and what process_message_data
\* leaves of it
LEMMA MessageIs ==
  ASSUME IInv, DataInv, NEW payload \in Seq(Bytes)
  PROVE  LET message == AppendBytes(message_data_, payload)
         IN  /\ message \in Buffer /\ message.data \in Seq(Bytes)
             /\ message.data = message_data_.data \o payload
             /\ ResetOft(Erase(message, Length(message))) = BufferOf(<<>>)
             /\ BufferOf(<<>>) \in Buffer
<1>1. PICK d \in Seq(Bytes) : d = message_data_.data
  BY DEF DataInv, Buffer
<1>2. PICK all : all = d \o payload
  OBVIOUS
<1>3. all \in Seq(Bytes)
  BY <1>2, ConcatProperties
<1>4. message_data_ = BufferOf(d)
  BY <1>1 DEF IInv, MessageInv
<1>5. AppendBytes(message_data_, payload) = BufferOf(all)
  BY <1>2, <1>4, AppendIs, Zenon
<1>6. PICK b \in Buffer : b = BufferOf(all) /\ b.data = all
  BY <1>3, BufferOfIs, Zenon
<1>7. ResetOft(Erase(b, Length(b))) = BufferOf(<<>>)
  <2>1. PICK n \in Nat : n = Len(all) /\ n = Length(b)
    BY <1>3, <1>6, LenProperties DEF Length
  <2>2. CASE n <= 0
    <3>1. ResetOft(Erase(b, n)) = BufferOf(b.data)
      BY <2>2, EraseAndReset
    <3>2. all = <<>>
      <4>1. all # <<>> => Len(all) \in Nat \ {0}
        BY <1>3, EmptySeq, Zenon
      <4>2. Len(all) = 0
        BY <2>1, <2>2
      <4> QED
        BY <4>1, <4>2
    <3> QED
      BY <1>6, <2>1, <3>1, <3>2, Zenon
  <2>3. CASE n > 0
    <3>1. SubSeq(all, n + 1, n) = <<>>
      BY SubSeqEmpty
    <3>2. ResetOft(Erase(b, n)) = BufferOf(SubSeq(b.data, n + 1, Len(b.data)))
      BY <2>3, EraseAndReset
    <3>3. ResetOft(Erase(b, n)) = BufferOf(<<>>)
      BY <1>6, <2>1, <3>1, <3>2, Zenon
    <3> QED
      BY <2>1, <3>3, Zenon
  <2> QED
    BY <2>1, <2>2, <2>3
<1>8. BufferOf(<<>>) \in Buffer
  BY EmptySeq, BufferOfIs, Zenon
<1> QED
  BY <1>1, <1>2, <1>3, <1>5, <1>6, <1>7, <1>8, Zenon

\* No step puts anything but bytes into message_data_.
LEMMA DataNext ==
  ASSUME IInv, DataInv, [Next]_vars
  PROVE  DataInv'
<1>1. CASE \E size \in 1..Len(peer.bytes) :
             Process(size) \/ ProcessPlain(size) \/ SkipRead(size)
  BY <1>1 DEF Process, ProcessPlain, FromWire, SkipRead, DataInv
<1>2. CASE HandshakeStep
  BY <1>2 DEF HandshakeStep, RejectHandshake, AwaitHandshake, AnswerHandshake, OverrunRequest,
              AwaitMore, DataInv
<1>3. CASE FrameStep
  <2>1. PICK df : /\ df.payload \in Seq(Bytes)
                  /\ \/ AwaitFrame(df) \/ TakeFragment(df)
                     \/ TakeFinalFrame(df) \/ ThrowInPayload(df)
    BY <1>3, FrameStepIs, Zenon
  <2>2. CASE AwaitFrame(df) \/ ThrowInPayload(df)
    BY <2>2 DEF AwaitFrame, AwaitMore, ThrowInPayload, DataInv
  <2>3. CASE TakeFragment(df)
    BY <2>1, <2>3, MessageIs DEF TakeFragment, DataInv
  <2>4. CASE TakeFinalFrame(df)
    BY <2>1, <2>4, MessageIs DEF TakeFinalFrame, DataInv
  <2> QED
    BY <2>1, <2>2, <2>3, <2>4
<1>4. CASE UNCHANGED vars
  BY <1>4 DEF vars, DataInv
<1> QED
  BY <1>1, <1>2, <1>3, <1>4 DEF Next, NothingMore

\* The answer to a message, as a client decodes it
EchoFrame(opcode, payload) ==
  EncodeFrame([fin |-> 1, opcode |-> opcode, key |-> <<>>, payload |-> payload])

\* user_defined_process packs the frame of the message.
LEMMA EchoIs ==
  ASSUME NEW opcode \in KnownOpcodes, NEW payload \in Seq(Bytes), Echo(opcode, payload)
  PROVE  /\ EchoFrame(opcode, payload) \in Seq(Bytes)
         /\ ToWire("frame", EchoFrame(opcode, payload))
         /\ delivered' = Append(delivered, [opcode |-> opcode, payload |-> payload])
<1>1. PICK garbage \in UninitKeys :
        /\ delivered' = Append(delivered, [opcode |-> opcode, payload |-> payload])
        /\ ToWire("frame", PackDataframe([SetPayload(NewPacket(garbage), payload)
                                            EXCEPT !.fin = 1, !.opcode = opcode]))
  BY Zenon DEF Echo
<1>2. PICK p : p = [SetPayload(NewPacket(garbage), payload) EXCEPT !.fin = 1, !.opcode = opcode]
  OBVIOUS
<1>3. AppendBytes(EmptyBuffer, payload) = BufferOf(payload)
  <2>1. EmptyBuffer = BufferOf(<<>>) /\ <<>> \o payload = payload
    BY ConcatEmptySeq DEF EmptyBuffer, BufferOf
  <2> QED
    BY <2>1, AppendIs, Zenon
<1>4. /\ p.fin = 1 /\ p.rsv = 0 /\ p.opcode = opcode /\ p.mask = 0 /\ p.key = garbage
      /\ p.payload = BufferOf(payload) /\ p.payload_length = Length(BufferOf(payload))
  BY <1>2, <1>3 DEF SetPayload, NewPacket
<1>5. opcode \in 0..15
  BY DEF KnownOpcodes, OpContinue, OpText, OpBinary, OpClose, OpPing, OpPong
<1>6. garbage \in [1..4 -> Bytes]
  BY EndpointAssumption DEF EndpointAssumption
<1>7. p.payload.data = payload /\ p.payload_length = Len(payload)
  BY <1>4, BufferOfIs, Zenon
<1>8. IsPacket(p)
  BY <1>4, <1>5, <1>6, <1>7 DEF IsPacket
<1>9. FrameOf(p) = [fin |-> 1, opcode |-> opcode, key |-> <<>>, payload |-> payload]
  BY <1>4, <1>5, <1>7 DEF FrameOf
<1>10. PackDataframe(p) = EchoFrame(opcode, payload) /\ PackDataframe(p) \in Seq(Bytes)
  BY <1>8, <1>9, PackIsEncode, FrameOfIs, FrameIsBytes, Zenon DEF EchoFrame
<1> QED
  BY <1>1, <1>2, <1>10, Zenon

\* One answer for the handshake and one for each message, which nothing is
\* delivered in front of
EchoInv ==
  /\ ws_handshake_completed_ \in BOOLEAN
  /\ \E S : sent \in Seq(S)
  /\ \E S : delivered \in Seq(S)
  /\ ~ws_handshake_completed_ => Len(delivered) = 0
  /\ MessagesEchoed

\* A step that sends and delivers nothing
LEMMA EchoKept ==
  ASSUME EchoInv, UNCHANGED <<ws_handshake_completed_, sent, delivered>>
  PROVE  EchoInv'
BY DEF EchoInv, MessagesEchoed

\* Something is sent, behind everything else.
LEMMA SentBehind ==
  ASSUME NEW S, sent \in Seq(S), NEW kind, NEW bytes, ToWire(kind, bytes)
  PROVE  /\ \E T : sent' \in Seq(T)
         /\ Len(sent) \in Nat
         /\ Len(sent') = Len(sent) + 1
         /\ \A i \in 1..Len(sent) : sent'[i] = sent[i]
         /\ sent'[Len(sent) + 1].bytes = bytes
<1> DEFINE to == IF "null" \in {nt_write_cb_, nt_work_data_} THEN "nowhere" ELSE nt_work_data_
           e  == [kind |-> kind, bytes |-> bytes, to |-> to]
<1>1. sent' = Append(sent, e) /\ e.bytes = bytes
  BY DEF ToWire
<1> HIDE DEF e, to
<1>2. /\ \E T : Append(sent, e) \in Seq(T)
      /\ Len(sent) \in Nat
      /\ Len(Append(sent, e)) = Len(sent) + 1
      /\ \A i \in 1..Len(sent) : Append(sent, e)[i] = sent[i]
      /\ Append(sent, e)[Len(sent) + 1] = e
  BY AppendOne, Zenon
<1> QED
  BY <1>1, <1>2, Zenon

\* The answer to the handshake is the first.
LEMMA EchoStarts ==
  ASSUME EchoInv, ~ws_handshake_completed_, NEW bytes, ToWire("handshake", bytes),
         ws_handshake_completed_' = TRUE, UNCHANGED delivered
  PROVE  EchoInv'
<1>1. Len(delivered) = 0 /\ Len(sent) = 0
  BY DEF EchoInv, MessagesEchoed
<1>2. (\E T : sent' \in Seq(T)) /\ Len(sent') = Len(sent) + 1
  BY SentBehind, Zenon DEF EchoInv
<1>3. MessagesEchoed'
  BY <1>1, <1>2 DEF MessagesEchoed
<1> QED
  BY <1>2, <1>3 DEF EchoInv

\* A message is delivered and answered in one step.
LEMMA EchoGrows ==
  ASSUME EchoInv, ws_handshake_completed_, UNCHANGED ws_handshake_completed_,
         NEW opcode \in KnownOpcodes, NEW payload \in Seq(Bytes), Echo(opcode, payload)
  PROVE  EchoInv'
<1> DEFINE d == [opcode |-> opcode, payload |-> payload]
<1>1. PICK S, T : sent \in Seq(S) /\ delivered \in Seq(T)
  BY DEF EchoInv
<1>2. /\ (\E R : sent' \in Seq(R)) /\ Len(sent) \in Nat /\ Len(sent') = Len(sent) + 1
      /\ \A i \in 1..Len(sent) : sent'[i] = sent[i]
      /\ sent'[Len(sent) + 1].bytes = EchoFrame(opcode, payload)
  BY <1>1, EchoIs, SentBehind, Zenon
<1>3. d.opcode = opcode /\ d.payload = payload /\ delivered' = Append(delivered, d)
  BY EchoIs
<1> HIDE DEF d
<1>4. /\ (\E R : delivered' \in Seq(R)) /\ Len(delivered) \in Nat
      /\ Len(delivered') = Len(delivered) + 1
      /\ \A i \in 1..Len(delivered) : delivered'[i] = delivered[i]
      /\ delivered'[Len(delivered) + 1] = d
  <2>1. /\ (\E R : Append(delivered, d) \in Seq(R)) /\ Len(delivered) \in Nat
        /\ Len(Append(delivered, d)) = Len(delivered) + 1
        /\ \A i \in 1..Len(delivered) : Append(delivered, d)[i] = delivered[i]
        /\ Append(delivered, d)[Len(delivered) + 1] = d
    BY <1>1, AppendOne, ZenonT(60)
  <2> QED
    BY <1>3, <2>1, Zenon
<1>5. PICK n \in Nat : n = Len(delivered) /\ Len(sent) = 1 + n
  BY <1>4 DEF EchoInv, MessagesEchoed
<1>6. /\ Len(delivered') = n + 1 /\ Len(sent') = 1 + (n + 1)
      /\ Len(sent) + 1 = (n + 1) + 1 /\ Len(delivered) + 1 = n + 1
  BY <1>2, <1>4, <1>5
<1>7. ASSUME NEW i \in 1..Len(delivered')
      PROVE  sent'[i + 1].bytes = EchoFrame(delivered'[i].opcode, delivered'[i].payload)
  <2>1. CASE i \in 1..n
    <3>1. i + 1 \in 1..Len(sent) /\ i \in 1..Len(delivered)
      BY <1>5, <2>1
    <3>2. sent[i + 1].bytes = EchoFrame(delivered[i].opcode, delivered[i].payload)
      BY <3>1, Zenon DEF EchoInv, MessagesEchoed, EchoFrame
    <3> QED
      BY <1>2, <1>4, <3>1, <3>2, Zenon
  <2>2. CASE i = n + 1
    <3>1. /\ delivered'[n + 1].opcode = opcode /\ delivered'[n + 1].payload = payload
          /\ sent'[(n + 1) + 1].bytes = EchoFrame(opcode, payload)
      BY <1>2, <1>3, <1>4, <1>6, Zenon
    <3> QED
      BY <2>2, <3>1, Zenon
  <2> QED
    BY <1>6, <2>1, <2>2
<1>8. MessagesEchoed'
  BY <1>6, <1>7, Zenon DEF MessagesEchoed, EchoFrame
<1> QED
  BY <1>2, <1>4, <1>8 DEF EchoInv

\* The steps that send are AnswerHandshake and the echo of TakeFinalFrame.
LEMMA EchoNext ==
  ASSUME IInv, DataInv, EchoInv, [Next]_vars
  PROVE  EchoInv'
<1>1. CASE \E size \in 1..Len(peer.bytes) :
             Process(size) \/ ProcessPlain(size) \/ SkipRead(size)
  BY <1>1, EchoKept DEF Process, ProcessPlain, FromWire, SkipRead
<1>2. CASE HandshakeStep
  <2>1. PICK hs : \/ RejectHandshake(hs) \/ AwaitHandshake(hs)
                  \/ AnswerHandshake(hs) \/ OverrunRequest(hs)
    BY <1>2 DEF HandshakeStep
  <2>2. CASE AnswerHandshake(hs)
    <3>1. ~ws_handshake_completed_
      BY <1>2 DEF HandshakeStep, InHandshake
    <3> QED
      BY <2>2, <3>1, EchoStarts DEF AnswerHandshake
  <2>3. CASE RejectHandshake(hs) \/ AwaitHandshake(hs) \/ OverrunRequest(hs)
    BY <2>3, EchoKept DEF RejectHandshake, AwaitHandshake, AwaitMore, OverrunRequest
  <2> QED
    BY <2>1, <2>2, <2>3
<1>3. CASE FrameStep
  <2>1. PICK df : /\ df.payload \in Seq(Bytes)
                  /\ \/ AwaitFrame(df) \/ TakeFragment(df)
                     \/ TakeFinalFrame(df) \/ ThrowInPayload(df)
    BY <1>3, FrameStepIs, Zenon
  <2>2. CASE AwaitFrame(df) \/ TakeFragment(df) \/ ThrowInPayload(df)
    BY <2>2, EchoKept DEF AwaitFrame, AwaitMore, TakeFragment, ThrowInPayload
  <2>3. CASE TakeFinalFrame(df)
    <3>1. PICK message : /\ message = AppendBytes(message_data_, df.payload)
                         /\ message.data \in Seq(Bytes)
      BY <2>1, MessageIs
    <3>2. CASE df.opcode \in KnownOpcodes
      <4>1. Echo(df.opcode, message.data) /\ UNCHANGED ws_handshake_completed_
        BY <2>3, <3>1, <3>2 DEF TakeFinalFrame
      <4>2. ws_handshake_completed_
        BY <1>3 DEF FrameStep, InFrames
      <4> QED
        BY <3>1, <3>2, <4>1, <4>2, EchoGrows
    <3>3. CASE df.opcode \notin KnownOpcodes
      BY <2>3, <3>3, EchoKept DEF TakeFinalFrame
    <3> QED
      BY <3>2, <3>3
  <2> QED
    BY <2>1, <2>2, <2>3
<1>4. CASE UNCHANGED vars
  BY <1>4, EchoKept DEF vars
<1> QED
  BY <1>1, <1>2, <1>3, <1>4 DEF Next, NothingMore

\* Whatever a peer sends, and however long its messages are, every message that
\* reaches user_defined_process is answered by one frame, in the order of the
\* messages, that a client decodes to the same bytes under the same opcode.
THEOREM EveryMessageAnswered == Spec => []MessagesEchoed
<1>1. Init => DataInv /\ EchoInv
  <2> SUFFICES ASSUME Init PROVE DataInv /\ EchoInv
    OBVIOUS
  <2>1. sent \in Seq({}) /\ Len(sent) = 0 /\ delivered \in Seq({}) /\ Len(delivered) = 0
    BY EmptySeq DEF Init
  <2>2. MessagesEchoed
    BY <2>1 DEF Init, MessagesEchoed
  <2>3. EchoInv
    BY <2>1, <2>2 DEF Init, EchoInv
  <2>4. DataInv
    BY DEF Init, DataInv, EmptyBuffer, Buffer
  <2> QED
    BY <2>3, <2>4
<1>2. IInv /\ (DataInv /\ EchoInv) /\ [Next]_vars => (DataInv /\ EchoInv)'
  BY DataNext, EchoNext
<1>3. EchoInv => MessagesEchoed
  BY DEF EchoInv
<1> QED
  BY <1>1, <1>2, <1>3, InvariantHolds, PTL DEF Spec

(***************************************************************************)
(* Types                                                                   *)
(***************************************************************************)

\* An accept key is bytes, whatever key it is computed from (HandshakeAnswer).
AcceptKeysAreBytes == \A key : AcceptKey(key) \in Seq(Bytes)

\* The types of what IInv and DataInv do not speak of
Delivery == [opcode : Bytes, payload : Seq(Bytes)]
Writing == [kind : {"handshake", "frame"}, bytes : Seq(Bytes),
            to : {"nowhere", "wild", "own", "stale"}]

OwnTypes ==
  /\ ws_handshake_completed_ \in BOOLEAN
  /\ pc \in {"idle", "parse", "dead"} /\ turn \in {0, 1}
  /\ nt_write_cb_ \in {"null", "set"}
  /\ nt_work_data_ \in {"null", "wild", "own", "stale"}

HistoryTypes == delivered \in Seq(Delivery) /\ sent \in Seq(Writing)

\* What is sent is bytes, and it goes nowhere or into the work data.
LEMMA WritingTyped ==
  ASSUME OwnTypes, sent \in Seq(Writing), NEW kind \in {"handshake", "frame"},
         NEW bytes \in Seq(Bytes), ToWire(kind, bytes)
  PROVE  sent' \in Seq(Writing)
<1> DEFINE to == IF "null" \in {nt_write_cb_, nt_work_data_} THEN "nowhere" ELSE nt_work_data_
           e  == [kind |-> kind, bytes |-> bytes, to |-> to]
<1>1. to \in {"nowhere", "wild", "own", "stale"}
  BY DEF OwnTypes
<1>2. e \in Writing
  BY <1>1 DEF Writing
<1>3. sent' = Append(sent, e)
  BY DEF ToWire
<1> HIDE DEF e, to
<1> QED
  BY <1>2, <1>3, AppendProperties

\* A delivered message is bytes.
LEMMA DeliveryTyped ==
  ASSUME HistoryTypes, OwnTypes, NEW opcode \in KnownOpcodes, NEW payload \in Seq(Bytes),
         Echo(opcode, payload)
  PROVE  HistoryTypes'
<1> DEFINE d == [opcode |-> opcode, payload |-> payload]
<1>1. opcode \in Bytes
  BY DEF KnownOpcodes, OpContinue, OpText, OpBinary, OpClose, OpPing, OpPong, Bytes
<1>2. d \in Delivery
  BY <1>1 DEF Delivery
<1>3. delivered' = Append(delivered, d)
  BY EchoIs
<1> HIDE DEF d
<1>4. delivered' \in Seq(Delivery)
  BY <1>2, <1>3, AppendProperties DEF HistoryTypes
<1>5. sent' \in Seq(Writing)
  BY EchoIs, WritingTyped, Zenon DEF HistoryTypes
<1> QED
  BY <1>4, <1>5 DEF HistoryTypes

\* The members keep their types.
LEMMA OwnNext == OwnTypes /\ [Next]_vars => OwnTypes'
<1> SUFFICES ASSUME OwnTypes, [Next]_vars PROVE OwnTypes'
  OBVIOUS
<1> USE DEF OwnTypes
<1>1. CASE \E size \in 1..Len(peer.bytes) :
             Process(size) \/ ProcessPlain(size) \/ SkipRead(size)
  BY <1>1 DEF Process, ProcessPlain, FromWire, SkipRead, Older
<1>2. CASE HandshakeStep
  <2>1. PICK hs : \/ RejectHandshake(hs) \/ AwaitHandshake(hs)
                  \/ AnswerHandshake(hs) \/ OverrunRequest(hs)
    BY <1>2 DEF HandshakeStep
  <2>2. turn' \in {0, 1} /\ UNCHANGED <<nt_write_cb_, nt_work_data_>>
    BY <1>2 DEF HandshakeStep
  <2>3. pc' \in {"idle", "parse", "dead"} /\ ws_handshake_completed_' \in BOOLEAN
    BY <2>1 DEF RejectHandshake, AwaitHandshake, AnswerHandshake, OverrunRequest, AwaitMore, Consume
  <2> QED
    BY <2>2, <2>3
<1>3. CASE FrameStep
  <2>1. PICK df : \/ AwaitFrame(df) \/ TakeFragment(df)
                  \/ TakeFinalFrame(df) \/ ThrowInPayload(df)
    BY <1>3 DEF FrameStep
  <2>2. turn' \in {0, 1} /\ UNCHANGED <<nt_write_cb_, nt_work_data_>>
    BY <1>3 DEF FrameStep
  <2>3. pc' \in {"idle", "parse", "dead"} /\ ws_handshake_completed_' \in BOOLEAN
    BY <2>1 DEF AwaitFrame, TakeFragment, TakeFinalFrame, ThrowInPayload, AwaitMore, Consume
  <2> QED
    BY <2>2, <2>3
<1>4. CASE UNCHANGED vars
  BY <1>4 DEF vars
<1> QED
  BY <1>1, <1>2, <1>3, <1>4 DEF Next, NothingMore

\* So do the histories.
LEMMA HistoryNext ==
  ASSUME AcceptKeysAreBytes, IInv, DataInv, OwnTypes, HistoryTypes, [Next]_vars
  PROVE  HistoryTypes'
<1>1. CASE \E size \in 1..Len(peer.bytes) :
             Process(size) \/ ProcessPlain(size) \/ SkipRead(size)
  BY <1>1 DEF Process, ProcessPlain, FromWire, SkipRead, HistoryTypes
<1>2. CASE HandshakeStep
  <2>1. PICK hs : \/ RejectHandshake(hs) \/ AwaitHandshake(hs)
                  \/ AnswerHandshake(hs) \/ OverrunRequest(hs)
    BY <1>2 DEF HandshakeStep
  <2>2. CASE AnswerHandshake(hs)
    <3>1. PICK bytes \in Seq(Bytes) : bytes = HandshakeRsp(hs)
      BY RspIsBytes DEF HandshakeRsp, AcceptKeysAreBytes
    <3>2. ToWire("handshake", bytes) /\ UNCHANGED delivered
      BY <2>2, <3>1, Zenon DEF AnswerHandshake
    <3> QED
      BY <3>2, WritingTyped DEF HistoryTypes
  <2>3. CASE RejectHandshake(hs) \/ AwaitHandshake(hs) \/ OverrunRequest(hs)
    BY <2>3 DEF RejectHandshake, AwaitHandshake, AwaitMore, OverrunRequest, HistoryTypes
  <2> QED
    BY <2>1, <2>2, <2>3
<1>3. CASE FrameStep
  <2>1. PICK df : /\ df.payload \in Seq(Bytes)
                  /\ \/ AwaitFrame(df) \/ TakeFragment(df)
                     \/ TakeFinalFrame(df) \/ ThrowInPayload(df)
    BY <1>3, FrameStepIs, Zenon
  <2>2. CASE AwaitFrame(df) \/ TakeFragment(df) \/ ThrowInPayload(df)
    BY <2>2 DEF AwaitFrame, AwaitMore, TakeFragment, ThrowInPayload, HistoryTypes
  <2>3. CASE TakeFinalFrame(df)
    <3>1. PICK message : /\ message = AppendBytes(message_data_, df.payload)
                         /\ message.data \in Seq(Bytes)
      BY <2>1, MessageIs
    <3>2. CASE df.opcode \in KnownOpcodes
      <4>1. Echo(df.opcode, message.data)
        BY <2>3, <3>1, <3>2 DEF TakeFinalFrame
      <4> QED
        BY <3>1, <3>2, <4>1, DeliveryTyped
    <3>3. CASE df.opcode \notin KnownOpcodes
      BY <2>3, <3>3 DEF TakeFinalFrame, HistoryTypes
    <3> QED
      BY <3>2, <3>3
  <2> QED
    BY <2>1, <2>2, <2>3
<1>4. CASE UNCHANGED vars
  BY <1>4 DEF vars, HistoryTypes
<1> QED
  BY <1>1, <1>2, <1>3, <1>4 DEF Next, NothingMore

\* Every member of the endpoint keeps its type, and only bytes go in and out,
\* whatever a peer sends and whatever the uninitialised members hold.
THEOREM EndpointTypes == ASSUME AcceptKeysAreBytes PROVE Spec => []TypeOK
<1> DEFINE TypeInv == DataInv /\ OwnTypes /\ HistoryTypes
<1>1. Init => TypeInv
  <2> SUFFICES ASSUME Init PROVE TypeInv
    OBVIOUS
  <2>1. DataInv
    BY DEF Init, DataInv, EmptyBuffer, Buffer
  <2>2. OwnTypes
    BY DEF Init, OwnTypes
  <2>3. HistoryTypes
    BY EmptySeq DEF Init, HistoryTypes
  <2> QED
    BY <2>1, <2>2, <2>3
<1>2. IInv /\ TypeInv /\ [Next]_vars => TypeInv'
  BY DataNext, OwnNext, HistoryNext
<1>3. IInv /\ TypeInv => TypeOK
  <2> SUFFICES ASSUME IInv, TypeInv PROVE TypeOK
    OBVIOUS
  <2>1. fromwire_buf_ \in Buffer /\ peer.bytes \in Seq(Bytes)
    BY WireTypes DEF IInv
  <2>2. received \in 0..Len(peer.bytes) /\ consumed \in 0..received
    BY DEF IInv, WireInv
  <2> QED
    BY <2>1, <2>2, Zenon DEF TypeOK, DataInv, OwnTypes, HistoryTypes, Delivery, Writing
<1> HIDE DEF TypeInv
<1> QED
  BY <1>1, <1>2, <1>3, InvariantHolds, PTL DEF Spec
=============================================================================
