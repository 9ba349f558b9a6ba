--------------------------- MODULE WebSocketPacket ---------------------------
(***************************************************************************)
(* The data frame half of WebSocketPacket (ws_packet.h, ws_packet.cpp):    *)
(* how a frame is read from a ByteBuffer and how one is written.  A byte   *)
(* is a number in 0..255.  key is masking_key_, which no constructor or    *)
(* setter initialises, so it is a parameter (garbage) wherever the code    *)
(* can use it before it was received.                                      *)
(***************************************************************************)
EXTENDS ByteBuffer

OpContinue == 0
OpText     == 1
OpBinary   == 2
OpClose    == 8
OpPing     == 9
OpPong     == 10

\* Mutant: a case of the switch is missing.
OpcodesWithoutContinue == {OpText, OpBinary, OpClose, OpPing, OpPong}

KnownOpcodes == {OpContinue, OpText, OpBinary, OpClose, OpPing, OpPong}

\* Mutant: adds instead.
AddByte(a, b) == a + b

\* a ^ b on bytes: the sum of the bits in which they differ
XorByte(a, b) ==
  LET Differ(bit) == IF (a \div bit) % 2 = (b \div bit) % 2 THEN 0 ELSE bit
  IN  Differ(1) + Differ(2) + Differ(4) + Differ(8)
        + Differ(16) + Differ(32) + Differ(64) + Differ(128)

\* real ^ masking_key_[i % 4], for every byte of a payload
Mask(payload, key) ==
  [i \in 1..Len(payload) |-> XorByte(payload[i], key[((i - 1) % 4) + 1])]

\* Mutant: the commented-out read into a uint16_t, without its swap.
LittleEndianLength(array) == array[1] + 256 * array[2]

\* Mutant: the second byte is left out.
HighByteLength(array) == 256 * array[1]

\* len = array[0] << 8 | array[1]
BigEndianLength(array) == 256 * array[1] + array[2]

(***************************************************************************)
(* fetch_frame_info.  onebyte is one variable for both header bytes, so a  *)
(* second byte that has not arrived yet repeats the first; the array of    *)
(* the extended length starts as zeros; a 64-bit length is read into a     *)
(* local that is never assigned to payload_length_, which a new packet     *)
(* holds at 0.  None of the reads checks its result.                       *)
(***************************************************************************)
FetchFrameInfo(input, garbage) ==
  LET first  == Read(input, 1, <<0>>)
      b1     == Skip(input, 1)
      second == Read(b1, 1, first)
      b2     == Skip(b1, 1)
      ltype  == second[1] % 128
      array  == Read(b2, 2, <<0, 0>>)
      b3     == CASE ltype < 126 -> b2
                  [] ltype = 126 -> Skip(b2, 2)
                  [] ltype = 127 -> Skip(b2, 8)
      masked == second[1] \div 128 = 1
  IN  [fin    |-> first[1] \div 128,
       opcode |-> first[1] % 128,
       mask   |-> second[1] \div 128,
       length |-> CASE ltype < 126 -> ltype
                    [] ltype = 126 -> BigEndianLength(array)
                    [] ltype = 127 -> 0,
       key    |-> IF masked THEN Read(b3, 4, garbage) ELSE garbage,
       input  |-> IF masked THEN Skip(b3, 4) ELSE b3]

\* Mutant: a frame that ends with the buffer is not taken yet.
IncompleteAtEnd(info, input) == info.length + info.input.oft >= Length(input)

\* "buffer size is not enough, so we continue recving data"
Incomplete(info, input) == info.length + info.input.oft > Length(input)

\* Mutant: curat() is called before the branch.
PayloadAlwaysAtCursor(info) == CuratThrows(info.input)

\* The unmasked branch of fetch_payload takes curat() before it looks at the
\* length, which throws when nothing follows the header.
PayloadThrows(info) == info.mask = 0 /\ CuratThrows(info.input)

(***************************************************************************)
(* recv_dataframe with the fetch_payload it ends in.  ndf = 0 asks for     *)
(* more data and rewinds the cursor; otherwise ndf is the cursor behind    *)
(* the frame.                                                              *)
(***************************************************************************)
RecvDataframe(input, garbage) ==
  LET info  == FetchFrameInfo(input, garbage)
      short == Incomplete(info, input)
      body  == SubSeq(info.input.data, info.input.oft + 1, info.input.oft + info.length)
      after == Skip(info.input, info.length)
  IN  [fin     |-> info.fin,
       opcode  |-> info.opcode,
       payload |-> IF short THEN <<>>
                   ELSE IF info.mask = 1 THEN Mask(body, info.key) ELSE body,
       ndf     |-> IF short THEN 0 ELSE after.oft,
       input   |-> IF short THEN ResetOft(input) ELSE after,
       throws  |-> ~short /\ PayloadThrows(info)]

LengthType(n) == IF n < 126 THEN n ELSE IF n <= 65535 THEN 126 ELSE 127

\* Mutant: the bytes in the order of the host.
ExtendedLengthSwapped(n) ==
  IF LengthType(n) = 126 THEN << n % 256, n \div 256 >> ELSE <<>>

\* The length field: big endian in two or in eight bytes.  A ByteBuffer holds
\* less than 2^31 bytes, so the upper four of eight are always zero.
ExtendedLength(n) ==
  CASE LengthType(n) < 126 -> <<>>
    [] LengthType(n) = 126 -> << n \div 256, n % 256 >>
    [] LengthType(n) = 127 -> << 0, 0, 0, 0, (n \div 16777216) % 256, (n \div 65536) % 256,
                                 (n \div 256) % 256, n % 256 >>

\* The fields that pack_dataframe reads, as the constructor leaves them; rsv is
\* the three reserved bits.
NewPacket(garbage) ==
  [fin |-> 0, rsv |-> 0, opcode |-> 0, mask |-> 0, key |-> garbage,
   payload_length |-> 0, payload |-> EmptyBuffer]

\* Mutant: payload_length_ is the size of the last piece.
SetPayloadOfSize(p, bytes) ==
  [p EXCEPT !.payload = AppendBytes(@, bytes), !.payload_length = Len(bytes)]

\* set_payload: it appends.
SetPayload(p, bytes) ==
  LET payload == AppendBytes(p.payload, bytes)
  IN  [p EXCEPT !.payload = payload, !.payload_length = Length(payload)]

\* pack_dataframe of a packet whose payload_ was not read from yet.  Masked, it
\* takes payload_length_ bytes of it, and otherwise all.
PackDataframe(p) ==
  LET n == p.payload_length
  IN  << 128 * p.fin + 16 * p.rsv + (p.opcode % 16), 128 * p.mask + LengthType(n) >>
        \o ExtendedLength(n)
        \o (IF p.mask = 1 THEN p.key \o Mask(SubSeq(p.payload.data, 1, n), p.key)
            ELSE p.payload.data)
=============================================================================
