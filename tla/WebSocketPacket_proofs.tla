------------------------ MODULE WebSocketPacket_proofs ------------------------
(***************************************************************************)
(* Facts about packing and receiving a data frame, for every frame: what   *)
(* is written is the frame of RFC 6455, and a ByteBuffer that begins with  *)
(* such a frame, or with a part of one, is read as such.  They rest on     *)
(* facts about the operations of a ByteBuffer, for every buffer.           *)
(***************************************************************************)
EXTENDS WebSocketPacket, WebSocketPeer, SequenceTheorems, TLAPS

(***************************************************************************)
(* The buffer                                                              *)
(***************************************************************************)

\* A buffer whose cursor is not beyond its end: on such a one Require says
\* whether the bytes are there.
Sound(b) == b \in Buffer /\ b.oft <= Len(b.data)

\* skip_x moves the cursor within the buffer and leaves the bytes alone.
LEMMA SkipSound ==
  ASSUME NEW b, Sound(b), NEW n \in Nat
  PROVE  Sound(Skip(b, n)) /\ Skip(b, n).data = b.data
BY DEF Sound, Buffer, Skip, Require, Length

\* read_bytes_x returns n bytes of the buffer or what was there before.
LEMMA ReadSound ==
  ASSUME NEW b, Sound(b), NEW n \in Nat, NEW old \in Seq(Bytes), Len(old) = n
  PROVE  Read(b, n, old) \in Seq(Bytes) /\ Len(Read(b, n, old)) = n
<1>1. CASE Require(b, n)
  <2>1. b.oft + n <= Len(b.data) /\ b.oft \in Nat /\ b.data \in Seq(Bytes)
    BY <1>1 DEF Sound, Buffer, Require, Length
  <2>2. \A i \in (b.oft + 1)..(b.oft + n) : b.data[i] \in Bytes
    BY <2>1
  <2>3. /\ SubSeq(b.data, b.oft + 1, b.oft + n) \in Seq(Bytes)
        /\ Len(SubSeq(b.data, b.oft + 1, b.oft + n)) = n
    BY <2>1, <2>2, SubSeqProperties
  <2> QED
    BY <1>1, <2>3 DEF Read
<1>2. CASE ~Require(b, n)
  BY <1>2 DEF Read
<1> QED
  BY <1>1, <1>2

\* A buffer is its bytes and its cursor.
LEMMA BufferIs ==
  ASSUME NEW b \in Buffer
  PROVE  b = [data |-> b.data, oft |-> b.oft]
BY DEF Buffer

\* What a new buffer holds
LEMMA BufferOfIs ==
  ASSUME NEW d
  PROVE  /\ BufferOf(d).data = d
         /\ BufferOf(d).oft = 0
         /\ Length(BufferOf(d)) = Len(d)
         /\ d \in Seq(Bytes) => BufferOf(d) \in Buffer
BY DEF BufferOf, Length, Buffer

\* A buffer whose cursor stands in front is known by its bytes.
LEMMA FrontIs ==
  ASSUME NEW b \in Buffer, b.oft = 0
  PROVE  b = BufferOf(b.data)
BY BufferIs, Zenon DEF BufferOf

\* New bytes leave the cursor where it is.
LEMMA DataExcept ==
  \A d, e, o : [[data |-> d, oft |-> o] EXCEPT !.data = e] = [data |-> e, oft |-> o]
OBVIOUS

\* A new position of the cursor leaves the bytes alone.
LEMMA OftExcept ==
  \A d, o, i : [[data |-> d, oft |-> o] EXCEPT !.oft = i] = [data |-> d, oft |-> i]
OBVIOUS

\* New bytes behind a cursor that stands in front
LEMMA FrontDataExcept == \A d, e : [BufferOf(d) EXCEPT !.data = e] = BufferOf(e)
BY DEF BufferOf

\* A cursor that stands in front is rewound already.
LEMMA FrontOftExcept == \A d : [BufferOf(d) EXCEPT !.oft = 0] = BufferOf(d)
BY DEF BufferOf

\* resetoft() moves nothing but the cursor.
LEMMA ResetIs ==
  ASSUME NEW b \in Buffer
  PROVE  ResetOft(b) = BufferOf(b.data)
<1>1. PICK d, o : b = [data |-> d, oft |-> o]
  BY BufferIs
<1>2. b.data = d
  BY <1>1
<1>3. [[data |-> d, oft |-> o] EXCEPT !.oft = 0] = [data |-> d, oft |-> 0]
  BY OftExcept
<1>4. ResetOft(b) = [data |-> d, oft |-> 0]
  BY <1>1, <1>3, Zenon DEF ResetOft
<1> QED
  BY <1>2, <1>4, Zenon DEF BufferOf

\* append() moves nothing but the end.
LEMMA AppendIs ==
  ASSUME NEW d, NEW bytes
  PROVE  AppendBytes(BufferOf(d), bytes) = BufferOf(d \o bytes)
<1>1. AppendBytes(BufferOf(d), bytes) = [BufferOf(d) EXCEPT !.data = d \o bytes]
  BY BufferOfIs, Zenon DEF AppendBytes
<1> QED
  BY <1>1, FrontDataExcept, Zenon

\* Whatever erase() leaves, a cursor in front stays in front.
LEMMA EraseInFront ==
  ASSUME NEW d, NEW n
  PROVE  \E rest : ResetOft(Erase(BufferOf(d), n)) = BufferOf(rest)
<1> DEFINE rest == IF n <= 0 THEN BufferOf(d).data
                   ELSE SubSeq(BufferOf(d).data, n + 1, Len(BufferOf(d).data))
<1>1. Erase(BufferOf(d), n) = [BufferOf(d) EXCEPT !.data = rest]
  BY Zenon DEF Erase
<1> HIDE DEF rest
<1>2. Erase(BufferOf(d), n) = BufferOf(rest)
  BY <1>1, FrontDataExcept, Zenon
<1>3. ResetOft(Erase(BufferOf(d), n)) = BufferOf(rest)
  BY <1>2, FrontOftExcept, Zenon DEF ResetOft
<1> QED
  BY <1>3

\* erase() and resetoft() together: what is behind the first n bytes, and the
\* cursor in front of it.
LEMMA EraseAndReset ==
  ASSUME NEW b \in Buffer, NEW n \in Int
  PROVE  /\ n <= 0 => ResetOft(Erase(b, n)) = BufferOf(b.data)
         /\ n > 0 => ResetOft(Erase(b, n)) = BufferOf(SubSeq(b.data, n + 1, Len(b.data)))
<1> DEFINE rest == IF n <= 0 THEN b.data ELSE SubSeq(b.data, n + 1, Len(b.data))
<1>1. ResetOft(Erase(b, n)) = [[b EXCEPT !.data = rest] EXCEPT !.oft = 0]
  BY Zenon DEF ResetOft, Erase
<1>2. n > 0 => ~(n <= 0)
  OBVIOUS
<1>3. /\ n <= 0 => rest = b.data
      /\ n > 0 => rest = SubSeq(b.data, n + 1, Len(b.data))
  BY <1>2, Zenon
<1> HIDE DEF rest
<1>4. [[b EXCEPT !.data = rest] EXCEPT !.oft = 0] = BufferOf(rest)
  <2>1. PICK d, o : b = [data |-> d, oft |-> o]
    BY BufferIs
  <2>2. [[data |-> d, oft |-> o] EXCEPT !.data = rest] = [data |-> rest, oft |-> o]
    BY DataExcept
  <2>3. [[data |-> rest, oft |-> o] EXCEPT !.oft = 0] = BufferOf(rest)
    BY OftExcept DEF BufferOf
  <2> QED
    BY <2>1, <2>2, <2>3, Zenon
<1>5. ResetOft(Erase(b, n)) = BufferOf(rest)
  BY <1>1, <1>4, Zenon
<1> QED
  BY <1>3, <1>5, Zenon

\* What is left after n of the bytes c+1..r of s are erased is the bytes behind
\* as many of them as there were, whatever n is.
LEMMA RestOfBytes ==
  ASSUME NEW s \in Seq(Bytes), NEW c \in Nat, NEW r \in Nat, c <= r, r <= Len(s),
         NEW b \in Buffer, b.data = SubSeq(s, c + 1, r), NEW n \in Int,
         NEW d, d = c + Length(b) - Length(ResetOft(Erase(b, n)))
  PROVE  /\ d \in c..r
         /\ ResetOft(Erase(b, n)) = BufferOf(SubSeq(s, d + 1, r))
<1>1. Length(b) = r - c
  <2>1. \A i \in (c + 1)..r : s[i] \in Bytes
    OBVIOUS
  <2> QED
    BY <2>1, SubSeqProperties DEF Length
<1>2. CASE n <= 0
  <2>1. ResetOft(Erase(b, n)) = BufferOf(b.data)
    BY <1>2, EraseAndReset
  <2>2. Length(ResetOft(Erase(b, n))) = r - c
    BY <1>1, <2>1, BufferOfIs, Zenon DEF Length
  <2>3. d = c
    BY <1>1, <2>2
  <2>4. d \in c..r
    BY <2>3
  <2>5. ResetOft(Erase(b, n)) = BufferOf(SubSeq(s, d + 1, r))
    BY <2>1, <2>3, Zenon
  <2> QED
    BY <2>4, <2>5, Zenon
<1>3. CASE n > 0 /\ n < r - c
  <2>1. SubSeq(b.data, n + 1, r - c) = SubSeq(s, c + n + 1, r)
    <3>1. /\ c + 1 \in 1..Len(s) /\ r \in 1..Len(s)
          /\ n + 1 \in 1..(r - (c + 1) + 1) /\ r - c \in 1..(r - (c + 1) + 1)
      BY <1>3
    <3>2. SubSeq(SubSeq(s, c + 1, r), n + 1, r - c)
            = SubSeq(s, (c + 1) + (n + 1) - 1, (c + 1) + (r - c) - 1)
      BY <3>1, SubSeqOfSubSeq
    <3>3. (c + 1) + (n + 1) - 1 = c + n + 1 /\ (c + 1) + (r - c) - 1 = r
      OBVIOUS
    <3> QED
      BY <3>2, <3>3
  <2>2. ResetOft(Erase(b, n)) = BufferOf(SubSeq(s, c + n + 1, r))
    BY <1>1, <1>3, <2>1, EraseAndReset DEF Length
  <2>3. Len(SubSeq(s, c + n + 1, r)) = r - c - n
    <3>1. \A i \in (c + n + 1)..r : s[i] \in Bytes
      BY <1>3
    <3> QED
      BY <1>3, <3>1, SubSeqProperties
  <2>4. Length(ResetOft(Erase(b, n))) = r - c - n
    BY <2>2, <2>3, BufferOfIs, Zenon
  <2>5. d = c + n
    BY <1>1, <1>3, <2>4
  <2>6. d \in c..r
    BY <1>3, <2>5
  <2>7. d + 1 = c + n + 1
    BY <2>5
  <2>8. ResetOft(Erase(b, n)) = BufferOf(SubSeq(s, d + 1, r))
    BY <2>2, <2>7, Zenon
  <2> QED
    BY <2>6, <2>8, Zenon
<1>4. CASE n > 0 /\ n >= r - c
  <2>1. SubSeq(b.data, n + 1, r - c) = <<>> /\ SubSeq(s, r + 1, r) = <<>>
    BY <1>4, SubSeqEmpty
  <2>2. ResetOft(Erase(b, n)) = BufferOf(<<>>)
    BY <1>1, <1>4, <2>1, EraseAndReset DEF Length
  <2>3. Length(ResetOft(Erase(b, n))) = 0
    <3>1. Length(BufferOf(<<>>)) = Len(<<>>) /\ Len(<<>>) = 0
      BY BufferOfIs
    <3> QED
      BY <2>2, <3>1, Zenon
  <2>4. d = r
    BY <1>1, <2>3
  <2>5. d \in c..r
    BY <2>4
  <2>6. ResetOft(Erase(b, n)) = BufferOf(SubSeq(s, d + 1, r))
    BY <2>1, <2>2, <2>4, Zenon
  <2> QED
    BY <2>5, <2>6, Zenon
<1> QED
  BY <1>2, <1>3, <1>4

\* Sequences that begin with the same r elements have the same parts there.
LEMMA SamePrefix ==
  ASSUME NEW S, NEW s \in Seq(S), NEW t \in Seq(S), NEW c \in Nat, NEW r \in Nat,
         c <= r, r <= Len(s), r <= Len(t), \A i \in 1..r : t[i] = s[i]
  PROVE  SubSeq(t, c + 1, r) = SubSeq(s, c + 1, r)
<1>1. /\ SubSeq(s, c + 1, r) \in Seq(S) /\ Len(SubSeq(s, c + 1, r)) = r - c
      /\ \A i \in 1..(r - c) : SubSeq(s, c + 1, r)[i] = s[c + i]
  <2>1. \A i \in (c + 1)..r : s[i] \in S
    OBVIOUS
  <2> QED
    BY <2>1, SubSeqProperties
<1>2. /\ SubSeq(t, c + 1, r) \in Seq(S) /\ Len(SubSeq(t, c + 1, r)) = r - c
      /\ \A i \in 1..(r - c) : SubSeq(t, c + 1, r)[i] = t[c + i]
  <2>1. \A i \in (c + 1)..r : t[i] \in S
    OBVIOUS
  <2> QED
    BY <2>1, SubSeqProperties
<1>3. \A i \in 1..(r - c) : t[c + i] = s[c + i]
  OBVIOUS
<1> QED
  BY <1>1, <1>2, <1>3, SeqEqual

\* A sequence without the n elements behind its first r begins with the same r.
LEMMA SkippedBytes ==
  ASSUME NEW S, NEW s \in Seq(S), NEW c \in Nat, NEW r \in Nat, NEW n \in Nat,
         c <= r, r + n <= Len(s)
  PROVE  LET t == SubSeq(s, 1, r) \o SubSeq(s, r + n + 1, Len(s))
         IN  /\ t \in Seq(S)
             /\ r <= Len(t)
             /\ SubSeq(t, c + 1, r) = SubSeq(s, c + 1, r)
<1>1. PICK front : front = SubSeq(s, 1, r)
  OBVIOUS
<1>2. PICK back : back = SubSeq(s, r + n + 1, Len(s))
  OBVIOUS
<1>3. /\ front \in Seq(S) /\ Len(front) = r
      /\ \A i \in 1..r : front[i] = s[i]
  <2>1. \A i \in 1..r : s[i] \in S
    OBVIOUS
  <2> QED
    BY <1>1, <2>1, SubSeqProperties
<1>4. back \in Seq(S) /\ Len(back) \in Nat
  <2>1. \A i \in (r + n + 1)..Len(s) : s[i] \in S
    OBVIOUS
  <2> QED
    BY <1>2, <2>1, SubSeqProperties, LenProperties
<1>5. PICK t : t = front \o back
  OBVIOUS
<1>6. t \in Seq(S) /\ Len(t) = r + Len(back)
  BY <1>3, <1>4, <1>5, ConcatProperties
<1>7. \A i \in 1..r : t[i] = s[i]
  <2> TAKE i \in 1..r
  <2>1. i \in 1..(Len(front) + Len(back)) /\ i <= Len(front)
    BY <1>3, <1>4
  <2>2. t[i] = front[i]
    BY <1>3, <1>4, <1>5, <2>1, ConcatProperties
  <2> QED
    BY <1>3, <2>2
<1>8. r <= Len(t) /\ r <= Len(s)
  BY <1>4, <1>6
<1>9. SubSeq(t, c + 1, r) = SubSeq(s, c + 1, r)
  BY <1>6, <1>7, <1>8, SamePrefix
<1> QED
  BY <1>1, <1>2, <1>5, <1>6, <1>8, <1>9, Zenon

(***************************************************************************)
(* The masking                                                             *)
(***************************************************************************)

\* A byte is the sum of its bits.
LEMMA SumOfBits ==
  \A a \in Bytes :
    a = (((a \div 1) % 2) + 2 * ((a \div 2) % 2) + 4 * ((a \div 4) % 2) + 8 * ((a \div 8) % 2)
          + 16 * ((a \div 16) % 2) + 32 * ((a \div 32) % 2) + 64 * ((a \div 64) % 2)
          + 128 * ((a \div 128) % 2))
BY SMT DEF Bytes

\* The bits of a byte are those it is the sum of.
LEMMA BitsOfSum ==
  \A d1, d2, d4, d8, d16, d32, d64, d128 \in {0, 1} :
    LET a == d1 + 2 * d2 + 4 * d4 + 8 * d8 + 16 * d16 + 32 * d32 + 64 * d64 + 128 * d128
    IN  /\ a \in Bytes
        /\ (a \div 1) % 2 = d1 /\ (a \div 2) % 2 = d2
        /\ (a \div 4) % 2 = d4 /\ (a \div 8) % 2 = d8
        /\ (a \div 16) % 2 = d16 /\ (a \div 32) % 2 = d32
        /\ (a \div 64) % 2 = d64 /\ (a \div 128) % 2 = d128
BY DEF Bytes

\* One bit of a XOR b, as either operator computes it
LEMMA DifferentBit ==
  \A x, y \in Nat : (x + y) % 2 = IF x % 2 = y % 2 THEN 0 ELSE 1
OBVIOUS

Differ(a, b, bit) == IF (a \div bit) % 2 = (b \div bit) % 2 THEN 0 ELSE 1

XorBits(a, b) ==
  Differ(a, b, 1) + 2 * Differ(a, b, 2) + 4 * Differ(a, b, 4) + 8 * Differ(a, b, 8)
    + 16 * Differ(a, b, 16) + 32 * Differ(a, b, 32) + 64 * Differ(a, b, 64)
    + 128 * Differ(a, b, 128)

\* The packet's XOR is taken bit by bit.
LEMMA XorByteIs ==
  ASSUME NEW a \in Bytes, NEW b \in Bytes
  PROVE  XorByte(a, b) = XorBits(a, b)
BY DEF XorByte, XorBits, Differ

\* The peer's XOR, though it is written in another way, is the same.
LEMMA PeerXorIs ==
  ASSUME NEW a \in Bytes, NEW b \in Bytes
  PROVE  PeerXor(a, b) = XorBits(a, b)
<1>1. \A bit \in {1, 2, 4, 8, 16, 32, 64, 128} :
        ((a \div bit) + (b \div bit)) % 2 = Differ(a, b, bit)
  BY DifferentBit DEF Differ, Bytes
<1>2. \A bit \in {1, 2, 4, 8, 16, 32, 64, 128} : Differ(a, b, bit) \in {0, 1}
  BY DEF Differ
<1> QED
  BY <1>1, <1>2 DEF PeerXor, XorBits

\* A XOR has the bits in which its operands differ.
LEMMA XorBitsAre ==
  ASSUME NEW a \in Bytes, NEW b \in Bytes
  PROVE  /\ XorBits(a, b) \in Bytes
         /\ \A bit \in {1, 2, 4, 8, 16, 32, 64, 128} :
              (XorBits(a, b) \div bit) % 2 = Differ(a, b, bit)
BY BitsOfSum DEF XorBits, Differ

\* A second XOR with the same byte undoes the first.
LEMMA XorBack ==
  ASSUME NEW a \in Bytes, NEW b \in Bytes
  PROVE  XorByte(XorByte(a, b), b) = a
<1>1. PICK x \in Bytes : x = XorByte(a, b) /\ x = XorBits(a, b)
  BY XorByteIs, XorBitsAre
<1>2. \A bit \in {1, 2, 4, 8, 16, 32, 64, 128} : Differ(x, b, bit) = (a \div bit) % 2
  <2>1. \A u, v \in {0, 1} :
          (IF (IF u = v THEN 0 ELSE 1) = v THEN 0 ELSE 1) = u
    OBVIOUS
  <2> TAKE bit \in {1, 2, 4, 8, 16, 32, 64, 128}
  <2>2. (a \div bit) % 2 \in {0, 1} /\ (b \div bit) % 2 \in {0, 1}
    BY DEF Bytes
  <2>3. (x \div bit) % 2 = Differ(a, b, bit)
    BY <1>1, XorBitsAre
  <2> QED
    BY <2>1, <2>2, <2>3 DEF Differ
<1>3. XorBits(x, b) = a
  BY <1>2, SumOfBits DEF XorBits
<1> QED
  BY <1>1, <1>3, XorByteIs

\* mask_payload XORs byte i with byte (i - 1) % 4 of the key.
LEMMA MaskIs ==
  ASSUME NEW payload \in Seq(Bytes), NEW key \in [1..4 -> Bytes]
  PROVE  /\ Mask(payload, key) \in Seq(Bytes)
         /\ Len(Mask(payload, key)) = Len(payload)
         /\ \A i \in 1..Len(payload) :
              Mask(payload, key)[i] = XorByte(payload[i], key[((i - 1) % 4) + 1])
<1> DEFINE e(i) == XorByte(payload[i], key[((i - 1) % 4) + 1])
<1>1. \A i \in 1..Len(payload) : e(i) \in Bytes
  <2> TAKE i \in 1..Len(payload)
  <2>1. payload[i] \in Bytes
    OBVIOUS
  <2>2. ((i - 1) % 4) + 1 \in 1..4
    BY LenProperties
  <2>3. key[((i - 1) % 4) + 1] \in Bytes
    BY <2>2
  <2> QED
    BY <2>1, <2>3, XorByteIs, XorBitsAre, ZenonT(60)
<1>2. Mask(payload, key) = [i \in 1..Len(payload) |-> e(i)]
  BY DEF Mask
<1>3. Len(payload) \in Nat
  BY LenProperties
<1> HIDE DEF e
<1>4. [i \in 1..Len(payload) |-> e(i)] \in Seq(Bytes)
  BY <1>1, <1>3, IsASeq
<1>5. Len([i \in 1..Len(payload) |-> e(i)]) = Len(payload)
  BY <1>3
<1>6. \A i \in 1..Len(payload) : Mask(payload, key)[i] = e(i)
  BY <1>2, Zenon
<1> QED
  BY <1>2, <1>4, <1>5, <1>6 DEF e

\* unmask_payload, which is the same loop, gives back what was masked.
LEMMA MaskBack ==
  ASSUME NEW payload \in Seq(Bytes), NEW key \in [1..4 -> Bytes]
  PROVE  Mask(Mask(payload, key), key) = payload
<1>1. PICK m \in Seq(Bytes) :
        /\ m = Mask(payload, key) /\ Len(m) = Len(payload)
        /\ \A i \in 1..Len(payload) : m[i] = XorByte(payload[i], key[((i - 1) % 4) + 1])
  BY MaskIs
<1>2. PICK t \in Seq(Bytes) :
        /\ t = Mask(m, key) /\ Len(t) = Len(m)
        /\ \A i \in 1..Len(m) : t[i] = XorByte(m[i], key[((i - 1) % 4) + 1])
  BY MaskIs
<1>3. \A i \in 1..Len(payload) : t[i] = payload[i]
  <2> TAKE i \in 1..Len(payload)
  <2>1. payload[i] \in Bytes
    OBVIOUS
  <2>2. ((i - 1) % 4) + 1 \in 1..4
    BY LenProperties
  <2>3. key[((i - 1) % 4) + 1] \in Bytes
    BY <2>2
  <2>4. t[i] = XorByte(XorByte(payload[i], key[((i - 1) % 4) + 1]), key[((i - 1) % 4) + 1])
    BY <1>1, <1>2
  <2> QED
    BY <2>1, <2>3, <2>4, XorBack, Zenon
<1> QED
  BY <1>1, <1>2, <1>3, SeqEqual

\* The peer masks its payload the way the packet does.
LEMMA PeerMasks ==
  ASSUME NEW payload \in Seq(Bytes), NEW key \in [1..4 -> Bytes]
  PROVE  [i \in 1..Len(payload) |-> PeerXor(payload[i], key[1 + ((i - 1) % 4)])]
           = Mask(payload, key)
<1>1. \A i \in 1..Len(payload) :
        PeerXor(payload[i], key[1 + ((i - 1) % 4)]) = XorByte(payload[i], key[((i - 1) % 4) + 1])
  <2> TAKE i \in 1..Len(payload)
  <2>1. payload[i] \in Bytes
    OBVIOUS
  <2>2. ((i - 1) % 4) + 1 \in 1..4 /\ 1 + ((i - 1) % 4) = ((i - 1) % 4) + 1
    BY LenProperties
  <2>3. key[((i - 1) % 4) + 1] \in Bytes
    BY <2>2
  <2>4. PeerXor(payload[i], key[((i - 1) % 4) + 1]) = XorByte(payload[i], key[((i - 1) % 4) + 1])
    BY <2>1, <2>3, XorByteIs, PeerXorIs, Zenon
  <2> QED
    BY <2>2, <2>4, Zenon
<1> QED
  BY <1>1, Zenon DEF Mask

(***************************************************************************)
(* Tuples written one behind the other                                     *)
(***************************************************************************)

IsJoined(s, m, t, n, u) ==
  /\ Len(s) = m /\ Len(t) = n /\ Len(u) = m + n
  /\ \A i \in 1..m : u[i] = s[i]
  /\ \A i \in 1..n : u[m + i] = t[i]

\* Two tuples written one behind the other, element by element
LEMMA Joined ==
  ASSUME NEW S, NEW s \in Seq(S), NEW t \in Seq(S), NEW u \in Seq(S),
         NEW m \in Nat, NEW n \in Nat, IsJoined(s, m, t, n, u)
  PROVE  s \o t = u
<1> USE DEF IsJoined
<1>1. /\ s \o t \in Seq(S)
      /\ Len(s \o t) = m + n
      /\ \A i \in 1..(m + n) : (s \o t)[i] = IF i <= m THEN s[i] ELSE t[i - m]
  <2>1. /\ s \o t \in Seq(S)
        /\ Len(s \o t) = Len(s) + Len(t)
        /\ \A i \in 1..(Len(s) + Len(t)) :
             (s \o t)[i] = IF i <= Len(s) THEN s[i] ELSE t[i - Len(s)]
    BY ConcatProperties
  <2> QED
    BY <2>1
<1>2. \A i \in 1..(m + n) : (s \o t)[i] = u[i]
  <2> TAKE i \in 1..(m + n)
  <2>1. CASE i <= m
    BY <1>1, <2>1
  <2>2. CASE ~(i <= m)
    <3>1. i - m \in 1..n /\ m + (i - m) = i
      BY <2>2
    <3> QED
      BY <1>1, <2>2, <3>1
  <2> QED
    BY <2>1, <2>2
<1> QED
  BY <1>1, <1>2, SeqEqual

\* Two bytes behind two bytes
LEMMA PairAndPair ==
  ASSUME NEW a, NEW b, NEW c, NEW d
  PROVE  <<a, b>> \o <<c, d>> = <<a, b, c, d>>
<1> DEFINE s == <<a, b>> t == <<c, d>> u == <<a, b, c, d>>
           S == {a, b, c, d}
<1>1. s \in Seq(S) /\ Len(s) = 2 /\ t \in Seq(S) /\ Len(t) = 2 /\ u \in Seq(S) /\ Len(u) = 2 + 2
  OBVIOUS
<1>2. u[1] = s[1] /\ u[2] = s[2] /\ u[3] = t[1] /\ u[4] = t[2]
  OBVIOUS
<1> HIDE DEF s, t, u, S
<1>3. (\A i \in 1..2 : u[i] = s[i]) /\ (\A i \in 1..2 : u[2 + i] = t[i])
  BY <1>2
<1>4. 2 \in Nat /\ 2 \in Nat /\ IsJoined(s, 2, t, 2, u)
  BY <1>1, <1>3 DEF IsJoined
<1>5. s \o t = u
  BY <1>1, <1>4, Joined, Zenon
<1> QED
  BY <1>5 DEF s, t, u

\* Eight bytes behind two bytes
LEMMA PairAndEight ==
  ASSUME NEW a, NEW b, NEW c1, NEW c2, NEW c3, NEW c4, NEW c5, NEW c6, NEW c7, NEW c8
  PROVE  <<a, b>> \o <<c1, c2, c3, c4, c5, c6, c7, c8>>
           = <<a, b, c1, c2, c3, c4, c5, c6, c7, c8>>
<1> DEFINE s == <<a, b>>
           t == <<c1, c2, c3, c4, c5, c6, c7, c8>>
           u == <<a, b, c1, c2, c3, c4, c5, c6, c7, c8>>
           S == {a, b, c1, c2, c3, c4, c5, c6, c7, c8}
<1>1. s \in Seq(S) /\ Len(s) = 2 /\ t \in Seq(S) /\ Len(t) = 8 /\ u \in Seq(S) /\ Len(u) = 2 + 8
  OBVIOUS
<1>2. /\ u[1] = s[1] /\ u[2] = s[2] /\ u[3] = t[1] /\ u[4] = t[2] /\ u[5] = t[3]
      /\ u[6] = t[4] /\ u[7] = t[5] /\ u[8] = t[6] /\ u[9] = t[7] /\ u[10] = t[8]
  OBVIOUS
<1> HIDE DEF s, t, u, S
<1>3. (\A i \in 1..2 : u[i] = s[i]) /\ (\A i \in 1..8 : u[2 + i] = t[i])
  BY <1>2
<1>4. 2 \in Nat /\ 8 \in Nat /\ IsJoined(s, 2, t, 8, u)
  BY <1>1, <1>3 DEF IsJoined
<1>5. s \o t = u
  BY <1>1, <1>4, Joined, Zenon
<1> QED
  BY <1>5 DEF s, t, u

\* One byte behind one byte
LEMMA OneAndOne ==
  ASSUME NEW a, NEW b
  PROVE  <<a>> \o <<b>> = <<a, b>>
<1> DEFINE s == <<a>> t == <<b>> u == <<a, b>>
           S == {a, b}
<1>1. s \in Seq(S) /\ Len(s) = 1 /\ t \in Seq(S) /\ Len(t) = 1 /\ u \in Seq(S) /\ Len(u) = 1 + 1
  OBVIOUS
<1>2. u[1] = s[1] /\ u[2] = t[1]
  OBVIOUS
<1> HIDE DEF s, t, u, S
<1>3. (\A i \in 1..1 : u[i] = s[i]) /\ (\A i \in 1..1 : u[1 + i] = t[i])
  BY <1>2
<1>4. 1 \in Nat /\ 1 \in Nat /\ IsJoined(s, 1, t, 1, u)
  BY <1>1, <1>3 DEF IsJoined
<1>5. s \o t = u
  BY <1>1, <1>4, Joined, Zenon
<1> QED
  BY <1>5 DEF s, t, u

\* Three bytes behind one byte
LEMMA OneAndThree ==
  ASSUME NEW a, NEW b, NEW c, NEW d
  PROVE  <<a>> \o <<b, c, d>> = <<a, b, c, d>>
<1> DEFINE s == <<a>> t == <<b, c, d>> u == <<a, b, c, d>>
           S == {a, b, c, d}
<1>1. s \in Seq(S) /\ Len(s) = 1 /\ t \in Seq(S) /\ Len(t) = 3 /\ u \in Seq(S) /\ Len(u) = 1 + 3
  OBVIOUS
<1>2. u[1] = s[1] /\ u[2] = t[1] /\ u[3] = t[2] /\ u[4] = t[3]
  OBVIOUS
<1> HIDE DEF s, t, u, S
<1>3. (\A i \in 1..1 : u[i] = s[i]) /\ (\A i \in 1..3 : u[1 + i] = t[i])
  BY <1>2
<1>4. 1 \in Nat /\ 3 \in Nat /\ IsJoined(s, 1, t, 3, u)
  BY <1>1, <1>3 DEF IsJoined
<1>5. s \o t = u
  BY <1>1, <1>4, Joined, Zenon
<1> QED
  BY <1>5 DEF s, t, u

\* Nine bytes behind one byte
LEMMA OneAndNine ==
  ASSUME NEW a, NEW b, NEW c1, NEW c2, NEW c3, NEW c4, NEW c5, NEW c6, NEW c7, NEW c8
  PROVE  <<a>> \o <<b, c1, c2, c3, c4, c5, c6, c7, c8>>
           = <<a, b, c1, c2, c3, c4, c5, c6, c7, c8>>
<1> DEFINE s == <<a>>
           t == <<b, c1, c2, c3, c4, c5, c6, c7, c8>>
           u == <<a, b, c1, c2, c3, c4, c5, c6, c7, c8>>
           S == {a, b, c1, c2, c3, c4, c5, c6, c7, c8}
<1>1. s \in Seq(S) /\ Len(s) = 1 /\ t \in Seq(S) /\ Len(t) = 9 /\ u \in Seq(S) /\ Len(u) = 1 + 9
  OBVIOUS
<1>2. /\ u[1] = s[1] /\ u[2] = t[1] /\ u[3] = t[2] /\ u[4] = t[3] /\ u[5] = t[4]
      /\ u[6] = t[5] /\ u[7] = t[6] /\ u[8] = t[7] /\ u[9] = t[8] /\ u[10] = t[9]
  OBVIOUS
<1> HIDE DEF s, t, u, S
<1>3. (\A i \in 1..1 : u[i] = s[i]) /\ (\A i \in 1..9 : u[1 + i] = t[i])
  BY <1>2
<1>4. 1 \in Nat /\ 9 \in Nat /\ IsJoined(s, 1, t, 9, u)
  BY <1>1, <1>3 DEF IsJoined
<1>5. s \o t = u
  BY <1>1, <1>4, Joined, Zenon
<1> QED
  BY <1>5 DEF s, t, u

(***************************************************************************)
(* pack_dataframe                                                          *)
(***************************************************************************)

\* The mask bit and a number of seven bits
SecondByte(t, mask, n) == t = 128 * mask + n

\* The first bytes of a frame, up to the key
HeadOf(b1, mask, n) == <<b1, 128 * mask + LengthType(n)>> \o ExtendedLength(n)

\* A length that is written in one byte or in two
IsShort(n) == n <= 65535

\* The first byte of a head is the one it is built from.
LEMMA HeadOne ==
  ASSUME NEW b1 \in Nat, NEW mask \in {0, 1}, NEW n \in Nat, n <= 125,
         NEW t \in Nat, SecondByte(t, mask, n)
  PROVE  HeadOf(b1, mask, n) = <<b1, t>>
<1>1. LengthType(n) = n
  BY SMT DEF LengthType
<1>2. ExtendedLength(n) = <<>>
  BY <1>1, SMT DEF ExtendedLength
<1>4. <<b1, t>> \o <<>> = <<b1, t>>
  <2>1. <<b1, t>> \in Seq(Nat)
    BY SMT
  <2> QED
    BY <2>1, ConcatEmptySeq, Zenon
<1> QED
  BY <1>1, <1>2, <1>4, Zenon DEF HeadOf, SecondByte

\* The second byte of a head is the mask bit and the length type.
LEMMA HeadTwo ==
  ASSUME NEW b1 \in Nat, NEW mask \in {0, 1}, NEW n \in Nat, n > 125, IsShort(n),
         NEW t \in Nat, SecondByte(t, mask, 126),
         NEW c \in Nat, c = n \div 256, NEW d \in Nat, d = n % 256
  PROVE  HeadOf(b1, mask, n) = <<b1, t, c, d>>
<1>1. LengthType(n) = 126
  BY SMT DEF LengthType, IsShort
<1>2. ExtendedLength(n) = <<n \div 256, n % 256>>
  BY <1>1, SMT DEF ExtendedLength
<1>4. <<b1, t>> \o <<c, d>> = <<b1, t, c, d>>
  BY PairAndPair, SMT
<1> QED
  BY <1>1, <1>2, <1>4, ZenonT(60) DEF HeadOf, SecondByte

\* The frames that a peer may send: [fin, opcode, key, payload]
IsFrame(f) ==
  /\ f.fin \in {0, 1} /\ f.opcode \in 0..127
  /\ f.key = <<>> \/ f.key \in [1..4 -> Bytes]
  /\ f.payload \in Seq(Bytes)

MaskBit(f) == IF f.key = <<>> THEN 0 ELSE 1

\* What the header of RFC 6455 has between its first byte and the key
LengthField(mask, n) ==
  IF n <= 125 THEN << 128 * mask + n >>
  ELSE IF n < 65536 THEN << 128 * mask + 126, n \div 256, n % 256 >>
  ELSE << 128 * mask + 127, 0, 0, 0, 0, (n \div 16777216) % 256,
          (n \div 65536) % 256, (n \div 256) % 256, n % 256 >>

\* pack_dataframe's second byte and extended length are the RFC's length field.
LEMMA LengthFieldIs ==
  ASSUME NEW b1 \in Nat, NEW mask \in {0, 1}, NEW n \in Nat
  PROVE  <<b1>> \o LengthField(mask, n) = HeadOf(b1, mask, n)
<1>1. CASE n <= 125
  <2>1. PICK t \in Nat : t = 128 * mask + n
    BY SMT
  <2>2. LengthField(mask, n) = <<t>>
    BY <1>1, <2>1, SMT DEF LengthField
  <2>3. <<b1>> \o <<t>> = <<b1, t>>
    BY OneAndOne, Zenon
  <2>4. HeadOf(b1, mask, n) = <<b1, t>>
    <3>1. SecondByte(t, mask, n)
      BY <2>1, Zenon DEF SecondByte
    <3> QED
      BY <1>1, <3>1, HeadOne, SMT
  <2> QED
    BY <2>1, <2>2, <2>3, <2>4, Zenon
<1>2. CASE n > 125 /\ IsShort(n)
  <2>1. PICK t \in Nat, c \in Nat, d \in Nat :
          t = 128 * mask + 126 /\ c = n \div 256 /\ d = n % 256
    BY SMT
  <2>2. LengthField(mask, n) = <<t, c, d>>
    BY <1>2, <2>1, SMT DEF LengthField, IsShort
  <2>3. <<b1>> \o <<t, c, d>> = <<b1, t, c, d>>
    BY OneAndThree, Zenon
  <2>4. HeadOf(b1, mask, n) = <<b1, t, c, d>>
    <3>1. SecondByte(t, mask, 126)
      BY <2>1, SMT DEF SecondByte
    <3> QED
      BY <1>2, <2>1, <3>1, HeadTwo, SMT
  <2> QED
    BY <2>1, <2>2, <2>3, <2>4, ZenonT(60)
<1>3. CASE ~IsShort(n)
  <2>1. PICK t \in Nat, z \in Nat, c5 \in Nat, c6 \in Nat, c7 \in Nat, c8 \in Nat :
          /\ t = 128 * mask + 127 /\ z = 0
          /\ c5 = (n \div 16777216) % 256 /\ c6 = (n \div 65536) % 256
          /\ c7 = (n \div 256) % 256 /\ c8 = n % 256
    BY SMT
  <2>2. LengthField(mask, n) = <<t, z, z, z, z, c5, c6, c7, c8>>
    BY <1>3, <2>1, SMT DEF LengthField, IsShort
  <2>3. LengthType(n) = 127
    BY <1>3, SMT DEF LengthType, IsShort
  <2>4. ExtendedLength(n) = <<z, z, z, z, c5, c6, c7, c8>>
    BY <2>1, <2>3, SMT DEF ExtendedLength
  <2>5. t = 128 * mask + 127
    BY <2>1, SMT
  <2>6. <<b1>> \o <<t, z, z, z, z, c5, c6, c7, c8>> = <<b1, t, z, z, z, z, c5, c6, c7, c8>>
    BY OneAndNine, SMT
  <2>7. <<b1, t>> \o <<z, z, z, z, c5, c6, c7, c8>> = <<b1, t, z, z, z, z, c5, c6, c7, c8>>
    BY PairAndEight, SMT
  <2>8. HeadOf(b1, mask, n) = <<b1, t>> \o <<z, z, z, z, c5, c6, c7, c8>>
    BY <2>3, <2>4, <2>5, Zenon DEF HeadOf
  <2> QED
    BY <2>2, <2>6, <2>7, <2>8, Zenon
<1>4. n <= 125 \/ (n > 125 /\ IsShort(n)) \/ ~IsShort(n)
  BY SMT
<1> QED
  BY <1>1, <1>2, <1>3, <1>4, Zenon

\* The RFC's header is the same head, and the key if there is one.
LEMMA EncodeHeaderIs ==
  ASSUME NEW f, IsFrame(f)
  PROVE  EncodeHeader(f) = HeadOf(128 * f.fin + f.opcode, MaskBit(f), Len(f.payload)) \o f.key
<1>1. PICK n \in Nat : n = Len(f.payload)
  <2>1. f.payload \in Seq(Bytes)
    BY Zenon DEF IsFrame
  <2> QED
    BY <2>1, LenProperties, SMT
<1>2. PICK b1 \in Nat : b1 = 128 * f.fin + f.opcode
  <2>1. f.fin \in {0, 1} /\ f.opcode \in 0..127
    BY Zenon DEF IsFrame
  <2> QED
    BY <2>1, SMT
<1>3. PICK mask \in {0, 1} :
        mask = MaskBit(f) /\ (IF f.key = <<>> THEN 0 ELSE 128) = 128 * mask
  <2>1. CASE f.key = <<>>
    <3>1. MaskBit(f) = 0 /\ (IF f.key = <<>> THEN 0 ELSE 128) = 0
      BY <2>1, Zenon DEF MaskBit
    <3> QED
      BY <3>1, SMT
  <2>2. CASE f.key # <<>>
    <3>1. MaskBit(f) = 1 /\ (IF f.key = <<>> THEN 0 ELSE 128) = 128
      BY <2>2, Zenon DEF MaskBit
    <3> QED
      BY <3>1, SMT
  <2> QED
    BY <2>1, <2>2
<1> DEFINE field(masked) ==
      IF Len(f.payload) <= 125 THEN << masked + Len(f.payload) >>
      ELSE IF Len(f.payload) < 65536
           THEN << masked + 126, Len(f.payload) \div 256, Len(f.payload) % 256 >>
      ELSE << masked + 127, 0, 0, 0, 0, (Len(f.payload) \div 16777216) % 256,
              (Len(f.payload) \div 65536) % 256, (Len(f.payload) \div 256) % 256,
              Len(f.payload) % 256 >>
<1>4. EncodeHeader(f) =
        (<<128 * f.fin + f.opcode>> \o field(IF f.key = <<>> THEN 0 ELSE 128)) \o f.key
  BY SMT DEF EncodeHeader
<1>5. field(128 * mask) = LengthField(mask, n)
  BY <1>1, SMT DEF LengthField
<1> HIDE DEF field
<1>6. <<b1>> \o LengthField(mask, n) = HeadOf(b1, mask, n)
  BY LengthFieldIs, Zenon
<1> QED
  BY <1>1, <1>2, <1>3, <1>4, <1>5, <1>6, ZenonT(60)

\* A key is four bytes, and so it is not the empty sequence.
LEMMA KeyIs ==
  ASSUME NEW key \in [1..4 -> Bytes]
  PROVE  key \in Seq(Bytes) /\ Len(key) = 4 /\ key # <<>>
<1>1. key = [i \in 1..4 |-> key[i]] /\ \A i \in 1..4 : key[i] \in Bytes
  OBVIOUS
<1>2. [i \in 1..4 |-> key[i]] \in Seq(Bytes)
  BY <1>1, IsASeq, SMT
<1>3. key \in Seq(Bytes)
  BY <1>1, <1>2, Zenon
<1>4. Len(key) = 4
  <2>1. DOMAIN key = 1..4 /\ DOMAIN key = 1..Len(key) /\ Len(key) \in Nat
    BY <1>3, LenProperties
  <2> QED
    BY <2>1, SMT
<1>5. Len(<<>>) = 0
  OBVIOUS
<1>6. key # <<>>
  BY <1>4, <1>5, SMT
<1> QED
  BY <1>3, <1>4, <1>6

Body(f) == IF f.key = <<>> THEN f.payload ELSE Mask(f.payload, f.key)

\* A head is a sequence of bytes.
LEMMA HeadIsSeq ==
  ASSUME NEW b1 \in Bytes, NEW mask \in {0, 1}, NEW n \in Nat
  PROVE  HeadOf(b1, mask, n) \in Seq(Bytes)
<1>1. /\ LengthType(n) \in 0..127
      /\ LengthType(n) < 126 \/ LengthType(n) = 126 \/ LengthType(n) = 127
      /\ LengthType(n) = 126 => n <= 65535
  BY SMT DEF LengthType
<1>2. PICK t \in Bytes : t = 128 * mask + LengthType(n)
  <2>1. 128 * mask + LengthType(n) \in 0..255
    BY <1>1, SMT
  <2> QED
    BY <2>1, Zenon DEF Bytes
<1>3. ExtendedLength(n) \in Seq(Bytes)
  <2>1. CASE LengthType(n) < 126
    <3>1. ExtendedLength(n) = <<>>
      BY <2>1, <1>1, SMT DEF ExtendedLength
    <3> QED
      BY <3>1, EmptySeq, Zenon
  <2>2. CASE LengthType(n) = 126
    <3>1. n \div 256 \in 0..255 /\ n % 256 \in 0..255
      BY <1>1, <2>2, SMT
    <3>2. PICK c \in Bytes, d \in Bytes : c = n \div 256 /\ d = n % 256
      BY <3>1, Zenon DEF Bytes
    <3>3. ExtendedLength(n) = <<c, d>>
      BY <2>2, <3>2, SMT DEF ExtendedLength
    <3>4. <<c, d>> \in Seq(Bytes)
      OBVIOUS
    <3> QED
      BY <3>3, <3>4, Zenon
  <2>3. CASE LengthType(n) = 127
    <3>1. \A k \in Nat : \E c \in 0..255 : c = k % 256
      BY SMT
    <3>2. n \div 16777216 \in Nat /\ n \div 65536 \in Nat /\ n \div 256 \in Nat
      BY SMT
    <3>3. PICK c5 \in 0..255 : c5 = (n \div 16777216) % 256
      BY <3>1, <3>2, SMT
    <3>4. PICK c6 \in 0..255 : c6 = (n \div 65536) % 256
      BY <3>1, <3>2, SMT
    <3>5. PICK c7 \in 0..255 : c7 = (n \div 256) % 256
      BY <3>1, <3>2, SMT
    <3>6. PICK z \in 0..255, c8 \in 0..255 : z = 0 /\ c8 = n % 256
      BY <3>1, SMT
    <3>7. ExtendedLength(n) = <<z, z, z, z, c5, c6, c7, c8>>
      BY <2>3, <3>3, <3>4, <3>5, <3>6, SMT DEF ExtendedLength
    <3>8. <<z, z, z, z, c5, c6, c7, c8>> \in Seq(0..255)
      OBVIOUS
    <3> QED
      BY <3>7, <3>8, Zenon DEF Bytes
  <2> QED
    BY <1>1, <2>1, <2>2, <2>3
<1>4. <<b1, t>> \in Seq(Bytes)
  OBVIOUS
<1>5. <<b1, t>> \o ExtendedLength(n) \in Seq(Bytes)
  BY <1>3, <1>4, ConcatProperties, Zenon
<1> QED
  BY <1>2, <1>5, Zenon DEF HeadOf

\* A frame is its header and the payload, masked if there is a key.
LEMMA EncodeFrameIs ==
  ASSUME NEW f, IsFrame(f)
  PROVE  EncodeFrame(f) = EncodeHeader(f) \o Body(f)
<1>1. CASE f.key = <<>>
  BY <1>1, Zenon DEF EncodeFrame, Body
<1>2. CASE f.key # <<>>
  <2>1. f.payload \in Seq(Bytes) /\ f.key \in [1..4 -> Bytes]
    BY <1>2 DEF IsFrame
  <2>2. [i \in 1..Len(f.payload) |-> PeerXor(f.payload[i], f.key[1 + ((i - 1) % 4)])]
          = Mask(f.payload, f.key)
    BY <2>1, PeerMasks, Zenon
  <2> QED
    BY <1>2, <2>2, Zenon DEF EncodeFrame, Body
<1> QED
  BY <1>1, <1>2

\* A frame is bytes.
LEMMA FrameIsBytes ==
  ASSUME NEW f, IsFrame(f)
  PROVE  /\ 128 * f.fin + f.opcode \in Bytes
         /\ f.key \in Seq(Bytes) /\ Body(f) \in Seq(Bytes)
         /\ EncodeHeader(f) \in Seq(Bytes) /\ EncodeFrame(f) \in Seq(Bytes)
<1>1. 128 * f.fin + f.opcode \in Bytes
  <2>1. PICK b \in {0, 1}, o \in 0..127 : b = f.fin /\ o = f.opcode
    BY Zenon DEF IsFrame
  <2>2. 128 * b + o \in 0..255
    BY SMT
  <2> QED
    BY <2>1, <2>2, Zenon DEF Bytes
<1>2. f.key \in Seq(Bytes) /\ f.payload \in Seq(Bytes)
  BY KeyIs, EmptySeq, Zenon DEF IsFrame
<1>3. Body(f) \in Seq(Bytes)
  <2>1. CASE f.key = <<>>
    BY <1>2, <2>1, Zenon DEF Body
  <2>2. CASE f.key # <<>>
    <3>1. f.key \in [1..4 -> Bytes]
      BY <2>2, Zenon DEF IsFrame
    <3>2. Mask(f.payload, f.key) \in Seq(Bytes)
      BY <1>2, <3>1, MaskIs, Zenon
    <3> QED
      BY <2>2, <3>2, Zenon DEF Body
  <2> QED
    BY <2>1, <2>2
<1>4. HeadOf(128 * f.fin + f.opcode, MaskBit(f), Len(f.payload)) \in Seq(Bytes)
  <2>1. MaskBit(f) \in {0, 1} /\ Len(f.payload) \in Nat
    BY <1>2, LenProperties DEF MaskBit
  <2> QED
    BY <1>1, <2>1, HeadIsSeq, Zenon
<1>5. EncodeHeader(f) \in Seq(Bytes)
  <2>1. PICK head \in Seq(Bytes), key \in Seq(Bytes) :
          head = HeadOf(128 * f.fin + f.opcode, MaskBit(f), Len(f.payload)) /\ key = f.key
    BY <1>2, <1>4, Zenon
  <2>2. head \o key \in Seq(Bytes)
    BY ConcatProperties, Zenon
  <2>3. EncodeHeader(f) = head \o key
    BY <2>1, EncodeHeaderIs, Zenon
  <2> QED
    BY <2>2, <2>3, Zenon
<1>6. EncodeFrame(f) \in Seq(Bytes)
  BY <1>3, <1>5, EncodeFrameIs, ConcatProperties, Zenon
<1> QED
  BY <1>1, <1>2, <1>3, <1>5, <1>6

\* The frame that a packet stands for
FrameOf(p) ==
  [fin |-> p.fin, opcode |-> 16 * p.rsv + p.opcode, payload |-> p.payload.data,
   key |-> IF p.mask = 1 THEN p.key ELSE <<>>]

IsPacket(p) ==
  /\ p.fin \in {0, 1} /\ p.rsv \in 0..7 /\ p.opcode \in 0..15 /\ p.mask \in {0, 1}
  /\ p.key \in [1..4 -> Bytes]
  /\ p.payload.data \in Seq(Bytes) /\ p.payload_length = Len(p.payload.data)

FirstByte(p) == 128 * p.fin + 16 * p.rsv + (p.opcode % 16)

\* The frame that a packet stands for is one that a peer may send.
LEMMA FrameOfIs ==
  ASSUME NEW p, IsPacket(p)
  PROVE  /\ IsFrame(FrameOf(p))
         /\ MaskBit(FrameOf(p)) = p.mask
         /\ FirstByte(p) = 128 * FrameOf(p).fin + FrameOf(p).opcode
         /\ FirstByte(p) \in Nat
         /\ FrameOf(p).payload = p.payload.data
         /\ FrameOf(p).key = IF p.mask = 1 THEN p.key ELSE <<>>
<1>1. /\ FrameOf(p).fin = p.fin
      /\ FrameOf(p).opcode = 16 * p.rsv + p.opcode
      /\ FrameOf(p).payload = p.payload.data
      /\ FrameOf(p).key = IF p.mask = 1 THEN p.key ELSE <<>>
  BY DEF FrameOf
<1>2. /\ p.fin \in {0, 1} /\ p.rsv \in 0..7 /\ p.opcode \in 0..15 /\ p.mask \in {0, 1}
      /\ p.key \in [1..4 -> Bytes] /\ p.payload.data \in Seq(Bytes)
  BY Zenon DEF IsPacket
<1>3. p.key # <<>>
  BY <1>2, KeyIs, Zenon
<1>4. IsFrame(FrameOf(p))
  <2>1. 16 * p.rsv + p.opcode \in 0..127
    <3>1. \A r \in 0..7, o \in 0..15 : 16 * r + o \in 0..127
      BY SMT
    <3> QED
      BY <1>2, <3>1, Zenon
  <2>2. FrameOf(p).opcode \in 0..127
    BY <1>1, <2>1, Zenon
  <2>3. FrameOf(p).key = <<>> \/ FrameOf(p).key \in [1..4 -> Bytes]
    BY <1>1, <1>2, Zenon
  <2> QED
    BY <1>1, <1>2, <2>2, <2>3, Zenon DEF IsFrame
<1>5. MaskBit(FrameOf(p)) = p.mask
  <2>1. CASE p.mask = 1
    BY <1>1, <1>3, <2>1, Zenon DEF MaskBit
  <2>2. CASE p.mask = 0
    <3>1. FrameOf(p).key = <<>>
      BY <1>1, <2>2, SMT
    <3> QED
      BY <2>2, <3>1, Zenon DEF MaskBit
  <2> QED
    BY <1>2, <2>1, <2>2, Zenon
<1>6. /\ FirstByte(p) = 128 * p.fin + (16 * p.rsv + p.opcode)
      /\ FirstByte(p) \in Nat
  <2>1. PICK b \in {0, 1}, r \in 0..7, o \in 0..15 : b = p.fin /\ r = p.rsv /\ o = p.opcode
    BY <1>2, Zenon
  <2>2. FirstByte(p) = 128 * b + 16 * r + (o % 16)
    BY <2>1, Zenon DEF FirstByte
  <2>3. /\ 128 * b + 16 * r + (o % 16) = 128 * b + (16 * r + o)
        /\ 128 * b + 16 * r + (o % 16) \in Nat
    BY SMT
  <2> QED
    BY <2>1, <2>2, <2>3, Zenon
<1> QED
  BY <1>1, <1>4, <1>5, <1>6, Zenon

\* pack_dataframe writes the frame of RFC 6455, whatever the length.
LEMMA PackIsEncode ==
  ASSUME NEW p, IsPacket(p)
  PROVE  PackDataframe(p) = EncodeFrame(FrameOf(p))
<1>1. p.mask \in {0, 1} /\ p.key \in [1..4 -> Bytes]
  BY Zenon DEF IsPacket
<1>2. PICK data \in Seq(Bytes) : data = p.payload.data /\ p.payload_length = Len(data)
  BY Zenon DEF IsPacket
<1>3. PICK n \in Nat : n = Len(data)
  BY LenProperties, Zenon
<1>4. PICK f : f = FrameOf(p)
  OBVIOUS
<1>5. /\ IsFrame(f) /\ MaskBit(f) = p.mask /\ FirstByte(p) = 128 * f.fin + f.opcode
      /\ FirstByte(p) \in Nat /\ f.payload = data
      /\ f.key = IF p.mask = 1 THEN p.key ELSE <<>>
  BY <1>2, <1>4, FrameOfIs, Zenon
<1>6. PICK head \in Seq(Bytes) : head = HeadOf(FirstByte(p), p.mask, n)
  <2>1. FirstByte(p) \in Bytes
    BY <1>5, FrameIsBytes, Zenon
  <2> QED
    BY <1>1, <2>1, HeadIsSeq, Zenon
<1>7. EncodeHeader(f) = head \o f.key /\ EncodeFrame(f) = EncodeHeader(f) \o Body(f)
  BY <1>3, <1>5, <1>6, EncodeHeaderIs, EncodeFrameIs, Zenon
<1>8. PackDataframe(p) =
        head \o (IF p.mask = 1 THEN p.key \o Mask(SubSeq(data, 1, n), p.key) ELSE data)
  BY <1>2, <1>3, <1>6, ZenonT(60) DEF PackDataframe, HeadOf, FirstByte
<1>9. CASE p.mask = 1
  <2>1. PICK key \in [1..4 -> Bytes] : key = p.key
    BY <1>1
  <2>2. SubSeq(data, 1, n) = data
    BY <1>3, SubSeqFull
  <2>3. PackDataframe(p) = head \o (key \o Mask(data, key))
    BY <1>8, <1>9, <2>1, <2>2, Zenon
  <2>4. f.key = key
    BY <1>5, <1>9, <2>1, Zenon
  <2>5. Body(f) = Mask(data, key)
    BY <1>5, <2>4, KeyIs, Zenon DEF Body
  <2>6. key \in Seq(Bytes) /\ Mask(data, key) \in Seq(Bytes)
    BY KeyIs, MaskIs, Zenon
  <2>7. (head \o key) \o Mask(data, key) = head \o (key \o Mask(data, key))
    BY <2>6, ConcatAssociative, SMTT(60)
  <2> QED
    BY <1>4, <1>7, <2>3, <2>4, <2>5, <2>7, Zenon
<1>10. CASE p.mask = 0
  <2>1. PackDataframe(p) = head \o data
    BY <1>8, <1>10, SMT
  <2>2. f.key = <<>>
    BY <1>5, <1>10, SMT
  <2>3. Body(f) = data
    BY <1>5, <2>2, Zenon DEF Body
  <2>4. head \o <<>> = head
    BY ConcatEmptySeq, Zenon
  <2> QED
    BY <1>4, <1>7, <2>1, <2>2, <2>3, <2>4, Zenon
<1> QED
  BY <1>1, <1>9, <1>10, Zenon

(***************************************************************************)
(* The bytes of a frame                                                    *)
(***************************************************************************)

\* The size of the header that the second byte announces
HeaderSize(second) ==
  2 + (IF second % 128 = 126 THEN 2 ELSE 0) + (IF second \div 128 = 1 THEN 4 ELSE 0)

IsShortFrame(f) == IsFrame(f) /\ IsShort(Len(f.payload))

\* The bytes w of a frame whose header has h of them
FrameBytes(f, w, h) ==
  /\ w \in Seq(Bytes) /\ h \in 2..8 /\ Len(w) = h + Len(f.payload)
  /\ w[1] = 128 * f.fin + f.opcode
  /\ w[2] = 128 * MaskBit(f) + LengthType(Len(f.payload))
  /\ h = HeaderSize(w[2])
  /\ Len(f.payload) > 125 => 256 * w[3] + w[4] = Len(f.payload)
  /\ f.key # <<>> => \A i \in 1..4 : w[(h - 4) + i] = f.key[i]
  /\ \A i \in 1..Len(f.payload) : w[h + i] = Body(f)[i]

\* The mask bit says whether there is a key.
LEMMA MaskBitIs ==
  ASSUME NEW f
  PROVE  MaskBit(f) \in {0, 1} /\ (MaskBit(f) = 1 <=> f.key # <<>>)
BY SMT DEF MaskBit

\* Masked or not, the body is as many bytes as the payload.
LEMMA BodyIs ==
  ASSUME NEW f, IsFrame(f)
  PROVE  Body(f) \in Seq(Bytes) /\ Len(Body(f)) = Len(f.payload)
<1>1. CASE f.key = <<>>
  BY <1>1, Zenon DEF Body, IsFrame
<1>2. CASE f.key # <<>>
  <2>1. f.payload \in Seq(Bytes) /\ f.key \in [1..4 -> Bytes]
    BY <1>2, Zenon DEF IsFrame
  <2> QED
    BY <1>2, <2>1, MaskIs, Zenon DEF Body
<1> QED
  BY <1>1, <1>2

\* The first bytes of a frame of at most 65535 bytes of payload
HeadBytes(head, size, b1, mask, n) ==
  /\ head \in Seq(Bytes) /\ size \in {2, 4} /\ Len(head) = size
  /\ head[1] = b1 /\ head[2] = 128 * mask + LengthType(n)
  /\ n > 125 => size = 4 /\ 256 * head[3] + head[4] = n
  /\ size + (IF mask = 1 THEN 4 ELSE 0) = HeaderSize(head[2])

\* The head of a frame of at most 65535 bytes has 2 or 4 bytes, as its second says.
LEMMA ShortHead ==
  ASSUME NEW b1 \in Bytes, NEW mask \in {0, 1}, NEW n \in Nat, IsShort(n)
  PROVE  \E size : HeadBytes(HeadOf(b1, mask, n), size, b1, mask, n)
<1>0. b1 \in Nat
  BY DEF Bytes
<1>1. CASE n <= 125
  <2>1. PICK t \in Bytes : t = 128 * mask + n
    BY <1>1, SMT DEF Bytes
  <2>2. t \in Nat /\ SecondByte(t, mask, n)
    BY <2>1, SMT DEF Bytes, SecondByte
  <2>3. PICK head : head = HeadOf(b1, mask, n) /\ head = <<b1, t>>
    BY <1>0, <1>1, <2>2, HeadOne, SMT
  <2>4. head \in Seq(Bytes) /\ Len(head) = 2 /\ head[1] = b1 /\ head[2] = t
    BY <2>3
  <2>5. LengthType(n) = n
    BY <1>1, SMT DEF LengthType
  <2>6. HeaderSize(t) = 2 + (IF mask = 1 THEN 4 ELSE 0)
    BY <1>1, <2>1, SMT DEF HeaderSize
  <2>7. HeadBytes(head, 2, b1, mask, n)
    <3>1. (n > 125 => 2 = 4 /\ 256 * head[3] + head[4] = n) /\ 2 \in {2, 4}
      BY <1>1, SMT
    <3>2. head[2] = 128 * mask + LengthType(n)
      BY <2>1, <2>4, <2>5, Zenon
    <3>3. 2 + (IF mask = 1 THEN 4 ELSE 0) = HeaderSize(head[2])
      BY <2>4, <2>6, Zenon
    <3> QED
      BY <2>4, <3>1, <3>2, <3>3, Zenon DEF HeadBytes
  <2> QED
    BY <2>3, <2>7, Zenon
<1>2. CASE ~(n <= 125)
  <2>1. PICK t \in Bytes, c \in Bytes, d \in Bytes :
          t = 128 * mask + 126 /\ c = n \div 256 /\ d = n % 256
    <3>1. 128 * mask + 126 \in Bytes /\ n \div 256 \in Bytes /\ n % 256 \in Bytes
      BY SMT DEF Bytes, IsShort
    <3> QED
      BY <3>1, Zenon
  <2>2. t \in Nat /\ c \in Nat /\ d \in Nat /\ SecondByte(t, mask, 126) /\ n > 125
    BY <1>2, <2>1, SMT DEF Bytes, SecondByte
  <2>3. PICK head : head = HeadOf(b1, mask, n) /\ head = <<b1, t, c, d>>
    BY <1>0, <2>1, <2>2, HeadTwo, SMT
  <2>4. /\ head \in Seq(Bytes) /\ Len(head) = 4 /\ head[1] = b1 /\ head[2] = t
        /\ head[3] = c /\ head[4] = d
    BY <2>3
  <2>5. LengthType(n) = 126
    BY <1>2, SMT DEF LengthType, IsShort
  <2>6. HeaderSize(t) = 4 + (IF mask = 1 THEN 4 ELSE 0)
    BY <2>1, SMT DEF HeaderSize
  <2>7. 256 * c + d = n
    BY <2>1, SMT
  <2>8. HeadBytes(head, 4, b1, mask, n)
    BY <2>1, <2>4, <2>5, <2>6, <2>7, SMT DEF HeadBytes
  <2> QED
    BY <2>3, <2>8, Zenon
<1> QED
  BY <1>1, <1>2

\* Where the parts of a concatenation are
IsConcat(s, t, u) ==
  /\ Len(u) = Len(s) + Len(t)
  /\ \A i \in 1..Len(s) : u[i] = s[i]
  /\ \A i \in 1..Len(t) : u[Len(s) + i] = t[i]

\* A concatenation has its left part first and its right part behind it.
LEMMA ConcatParts ==
  ASSUME NEW S, NEW s \in Seq(S), NEW t \in Seq(S)
  PROVE  s \o t \in Seq(S) /\ IsConcat(s, t, s \o t)
<1>1. Len(s) \in Nat /\ Len(t) \in Nat
  BY LenProperties
<1>2. \A i \in 1..Len(s) : (s \o t)[i] = s[i]
  <2> TAKE i \in 1..Len(s)
  <2>1. i \in 1..(Len(s) + Len(t)) /\ i <= Len(s)
    BY <1>1
  <2> QED
    BY <2>1, ConcatProperties
<1>3. \A i \in 1..Len(t) : (s \o t)[Len(s) + i] = t[i]
  <2> TAKE i \in 1..Len(t)
  <2>1. Len(s) + i \in 1..(Len(s) + Len(t)) /\ ~(Len(s) + i <= Len(s)) /\ (Len(s) + i) - Len(s) = i
    BY <1>1
  <2> QED
    BY <2>1, ConcatProperties
<1> QED
  BY <1>2, <1>3, ConcatProperties DEF IsConcat

\* The types of the fields of a short frame
LEMMA ShortFrameIs ==
  ASSUME NEW f, IsShortFrame(f)
  PROVE  /\ IsFrame(f) /\ IsShort(Len(f.payload))
         /\ f.payload \in Seq(Bytes) /\ Len(f.payload) \in Nat
         /\ f.fin \in {0, 1} /\ f.opcode \in 0..127
         /\ f.key = <<>> \/ f.key \in [1..4 -> Bytes]
BY LenProperties, Zenon DEF IsShortFrame, IsFrame

\* Byte by byte, what a short frame is on the wire
LEMMA FrameBytesAre ==
  ASSUME NEW f, IsShortFrame(f)
  PROVE  FrameBytes(f, EncodeFrame(f), Len(EncodeHeader(f)))
<1>0. /\ IsFrame(f) /\ IsShort(Len(f.payload)) /\ f.payload \in Seq(Bytes)
      /\ f.fin \in {0, 1} /\ f.opcode \in 0..127
      /\ f.key = <<>> \/ f.key \in [1..4 -> Bytes]
  BY Zenon DEF IsShortFrame, IsFrame
<1>1. PICK n \in Nat : n = Len(f.payload) /\ IsShort(n)
  BY <1>0, LenProperties, Zenon
<1>2. PICK b1 \in Bytes : b1 = 128 * f.fin + f.opcode
  <2>1. \A b \in {0, 1}, o \in 0..127 : 128 * b + o \in Bytes
    BY SMT DEF Bytes
  <2> QED
    BY <1>0, <2>1, Zenon
<1>3. PICK mask \in {0, 1} : mask = MaskBit(f) /\ (mask = 1 <=> f.key # <<>>)
  BY MaskBitIs, Zenon
<1>4. PICK head, size : head = HeadOf(b1, mask, n) /\ HeadBytes(head, size, b1, mask, n)
  BY <1>1, ShortHead, Zenon
<1>5. /\ head \in Seq(Bytes) /\ size \in {2, 4} /\ Len(head) = size
      /\ head[1] = b1 /\ head[2] = 128 * mask + LengthType(n)
      /\ n > 125 => size = 4 /\ 256 * head[3] + head[4] = n
      /\ size + (IF mask = 1 THEN 4 ELSE 0) = HeaderSize(head[2])
  BY <1>4, Zenon DEF HeadBytes
<1>6. PICK key \in Seq(Bytes) : key = f.key /\ Len(key) = (IF mask = 1 THEN 4 ELSE 0)
  <2>1. CASE f.key = <<>>
    <3>1. <<>> \in Seq(Bytes) /\ Len(<<>>) = 0
      OBVIOUS
    <3>2. mask # 1
      BY <1>3, <2>1
    <3> QED
      BY <2>1, <3>1, <3>2
  <2>2. CASE f.key # <<>>
    <3>1. f.key \in Seq(Bytes) /\ Len(f.key) = 4 /\ mask = 1
      BY <1>0, <1>3, <2>2, KeyIs, Zenon
    <3> QED
      BY <3>1
  <2> QED
    BY <2>1, <2>2
<1>7. PICK body \in Seq(Bytes) : body = Body(f) /\ Len(body) = n
  BY <1>0, <1>1, BodyIs, Zenon
<1>8. PICK header \in Seq(Bytes) : header = head \o key /\ IsConcat(head, key, header)
  BY <1>5, ConcatParts, Zenon
<1>9. PICK w \in Seq(Bytes) : w = header \o body /\ IsConcat(header, body, w)
  BY ConcatParts, Zenon
<1>10. PICK h \in 2..8 : h = Len(header) /\ h = size + Len(key) /\ h = HeaderSize(head[2])
  BY <1>5, <1>6, <1>8, SMT DEF IsConcat
<1>11. EncodeHeader(f) = header
  BY <1>0, <1>1, <1>2, <1>3, <1>4, <1>6, <1>8, EncodeHeaderIs, Zenon
<1>12. EncodeFrame(f) = w
  BY <1>0, <1>7, <1>9, <1>11, EncodeFrameIs, Zenon
<1>13. /\ Len(w) = h + n
       /\ \A i \in 1..size : w[i] = head[i]
       /\ \A i \in 1..Len(key) : w[size + i] = key[i]
       /\ \A i \in 1..n : w[h + i] = body[i]
  <2>1. Len(w) = h + n /\ \A i \in 1..n : w[h + i] = body[i]
    BY <1>7, <1>9, <1>10, SMT DEF IsConcat
  <2>2. \A i \in 1..size : w[i] = head[i]
    <3> TAKE i \in 1..size
    <3>1. i \in 1..Len(header) /\ i \in 1..Len(head)
      BY <1>5, <1>6, <1>10, SMT
    <3> QED
      BY <1>8, <1>9, <3>1, Zenon DEF IsConcat
  <2>3. \A i \in 1..Len(key) : w[size + i] = key[i]
    <3> TAKE i \in 1..Len(key)
    <3>1. size + i \in 1..Len(header) /\ Len(head) = size
      BY <1>5, <1>6, <1>10, SMT
    <3>2. w[size + i] = header[size + i]
      BY <1>9, <3>1, Zenon DEF IsConcat
    <3>3. header[size + i] = key[i]
      BY <1>8, <3>1, Zenon DEF IsConcat
    <3> QED
      BY <3>2, <3>3, Zenon
  <2> QED
    BY <2>1, <2>2, <2>3, Zenon
<1>14. w[1] = b1 /\ w[2] = head[2] /\ (n > 125 => w[3] = head[3] /\ w[4] = head[4])
  BY <1>5, <1>13, SMT
<1>15. f.key # <<>> => \A i \in 1..4 : w[(h - 4) + i] = f.key[i]
  <2> SUFFICES ASSUME f.key # <<>>, NEW i \in 1..4 PROVE w[(h - 4) + i] = f.key[i]
    OBVIOUS
  <2>1. i \in 1..Len(key) /\ (h - 4) + i = size + i
    BY <1>3, <1>5, <1>6, <1>10, SMT
  <2> QED
    BY <1>6, <1>13, <2>1, Zenon
<1>16. n > 125 => 256 * w[3] + w[4] = n
  BY <1>5, <1>14, Zenon
<1>17. FrameBytes(f, w, h)
  BY <1>1, <1>2, <1>3, <1>5, <1>7, <1>10, <1>13, <1>14, <1>15, <1>16, Zenon DEF FrameBytes
<1> QED
  BY <1>10, <1>11, <1>12, <1>17, Zenon

(***************************************************************************)
(* recv_dataframe                                                          *)
(***************************************************************************)

\* A buffer with the bytes d, of which o are read
At(d, o) == [data |-> d, oft |-> o]

\* SubSeq, for the lemmas below
Part(d, b, e) == SubSeq(d, b, e)

\* n bytes can be read from position o, the first of which is the b-th and the
\* last of which is the e-th.
CanRead(d, o, n, b, e) ==
  /\ d \in Seq(Bytes) /\ o \in Nat /\ n \in Nat
  /\ b = o + 1 /\ e = o + n /\ e <= Len(d)

CannotRead(d, o, n) ==
  d \in Seq(Bytes) /\ o \in Nat /\ n \in Nat /\ o <= Len(d) /\ o + n > Len(d)

\* memcpy_s and moveoft: a read of bytes that are there takes them.
LEMMA ReadAt ==
  ASSUME NEW d, NEW o, NEW n, NEW b, NEW e, NEW old, CanRead(d, o, n, b, e)
  PROVE  Skip(At(d, o), n) = At(d, e) /\ Read(At(d, o), n, old) = Part(d, b, e)
<1>0. d \in Seq(Bytes) /\ o \in Nat /\ n \in Nat /\ b = o + 1 /\ e = o + n /\ e <= Len(d)
  BY Zenon DEF CanRead
<1>1. At(d, o).data = d /\ At(d, o).oft = o
  BY DEF At
<1>2. Len(d) \in Nat
  BY <1>0, LenProperties, Zenon
<1>3. Require(At(d, o), n)
  BY <1>0, <1>1, <1>2, SMT DEF Require, Length
<1>4. [At(d, o) EXCEPT !.oft = e] = At(d, e)
  BY OftExcept, Zenon DEF At
<1>5. Skip(At(d, o), n) = At(d, e)
  BY <1>0, <1>1, <1>3, <1>4, Zenon DEF Skip
<1>6. Read(At(d, o), n, old) = Part(d, b, e)
  BY <1>0, <1>1, <1>3, Zenon DEF Read, Part
<1> QED
  BY <1>5, <1>6, Zenon

\* A read of bytes that are not there moves nothing and leaves the variable as it was.
LEMMA NotReadAt ==
  ASSUME NEW d, NEW o, NEW n, NEW old, CannotRead(d, o, n)
  PROVE  Skip(At(d, o), n) = At(d, o) /\ Read(At(d, o), n, old) = old
<1>1. At(d, o).data = d /\ At(d, o).oft = o
  BY DEF At
<1>2. Len(d) \in Nat
  BY LenProperties, Zenon DEF CannotRead
<1>3. ~Require(At(d, o), n)
  BY <1>1, <1>2, SMT DEF Require, Length, CannotRead
<1> QED
  BY <1>3, Zenon DEF Skip, Read

\* s is the n bytes of d behind position o.
IsPart(s, d, o, n) ==
  s \in Seq(Bytes) /\ Len(s) = n /\ \A i \in 1..n : s[i] = d[o + i]

\* What is read is the bytes behind the cursor.
LEMMA PartRead ==
  ASSUME NEW d, NEW o, NEW n, NEW b, NEW e, CanRead(d, o, n, b, e)
  PROVE  IsPart(Part(d, b, e), d, o, n)
<1>1. d \in Seq(Bytes) /\ o \in Nat /\ n \in Nat /\ b = o + 1 /\ e = o + n /\ e <= Len(d)
  BY Zenon DEF CanRead
<1>2. Len(d) \in Nat
  BY <1>1, LenProperties, Zenon
<1>3. \A i \in b..e : d[i] \in Bytes
  BY <1>1, <1>2, SMT
<1>4. b \in Int /\ e \in Int
  BY <1>1, SMT
<1>5. /\ SubSeq(d, b, e) \in Seq(Bytes)
      /\ Len(SubSeq(d, b, e)) = (IF b <= e THEN e - b + 1 ELSE 0)
      /\ \A i \in 1..(e - b + 1) : SubSeq(d, b, e)[i] = d[b + i - 1]
  BY <1>1, <1>3, <1>4, SubSeqProperties
<1>6. Len(SubSeq(d, b, e)) = n
  BY <1>1, <1>5, SMT
<1>7. \A i \in 1..n : SubSeq(d, b, e)[i] = d[o + i]
  <2> TAKE i \in 1..n
  <2>1. i \in 1..(e - b + 1) /\ b + i - 1 = o + i
    BY <1>1, SMT
  <2> QED
    BY <1>5, <2>1
<1> QED
  BY <1>5, <1>6, <1>7, Zenon DEF IsPart, Part

\* The bytes that a read of one or of two gives
LEMMA OneByteRead ==
  ASSUME NEW d, NEW o, NEW b, NEW e, CanRead(d, o, 1, b, e)
  PROVE  Part(d, b, e)[1] = d[b]
<1>1. IsPart(Part(d, b, e), d, o, 1)
  BY PartRead, Zenon
<1>2. b = o + 1
  BY Zenon DEF CanRead
<1>3. 1 \in 1..1
  BY SMT
<1> QED
  BY <1>1, <1>2, <1>3, Zenon DEF IsPart

\* Two bytes that are read are the next two.
LEMMA TwoBytesRead ==
  ASSUME NEW d, NEW o, NEW b, NEW e, CanRead(d, o, 2, b, e)
  PROVE  Part(d, b, e)[1] = d[o + 1] /\ Part(d, b, e)[2] = d[o + 2]
<1>1. IsPart(Part(d, b, e), d, o, 2)
  BY PartRead, Zenon
<1>2. 1 \in 1..2 /\ 2 \in 1..2
  BY SMT
<1> QED
  BY <1>1, <1>2, Zenon DEF IsPart

\* The steps of fetch_frame_info, and what it finds
Fetched(input, first, b1, second, b2, array, type, b3) ==
  /\ first = Read(input, 1, <<0>>)
  /\ b1 = Skip(input, 1)
  /\ second = Read(b1, 1, first)
  /\ b2 = Skip(b1, 1)
  /\ array = Read(b2, 2, <<0, 0>>)
  /\ type = second[1] % 128
  /\ b3 = CASE type < 126 -> b2
            [] type = 126 -> Skip(b2, 2)
            [] type = 127 -> Skip(b2, 8)

FetchedInfo(info, garbage, first, mask, array, type, b3) ==
  /\ info.fin = first[1] \div 128
  /\ info.opcode = first[1] % 128
  /\ info.mask = mask
  /\ info.length = CASE type < 126 -> type
                     [] type = 126 -> BigEndianLength(array)
                     [] type = 127 -> 0
  /\ info.key = IF mask = 1 THEN Read(b3, 4, garbage) ELSE garbage
  /\ info.input = IF mask = 1 THEN Skip(b3, 4) ELSE b3

\* fetch_frame_info is its reads, one after the other.
LEMMA FetchIs ==
  ASSUME NEW input, NEW garbage
  PROVE  \E first, b1, second, b2, array, type, b3, mask :
           /\ Fetched(input, first, b1, second, b2, array, type, b3)
           /\ mask = second[1] \div 128
           /\ FetchedInfo(FetchFrameInfo(input, garbage), garbage, first, mask, array, type, b3)
<1> DEFINE first  == Read(input, 1, <<0>>)
           b1     == Skip(input, 1)
           second == Read(b1, 1, first)
           b2     == Skip(b1, 1)
           array  == Read(b2, 2, <<0, 0>>)
           type   == second[1] % 128
           b3     == CASE type < 126 -> b2
                       [] type = 126 -> Skip(b2, 2)
                       [] type = 127 -> Skip(b2, 8)
           mask   == second[1] \div 128
           length == CASE type < 126 -> type
                       [] type = 126 -> BigEndianLength(array)
                       [] type = 127 -> 0
           key    == IF mask = 1 THEN Read(b3, 4, garbage) ELSE garbage
           rest   == IF mask = 1 THEN Skip(b3, 4) ELSE b3
<1>1. FetchFrameInfo(input, garbage) =
        [fin |-> first[1] \div 128, opcode |-> first[1] % 128, mask |-> mask,
         length |-> length, key |-> key, input |-> rest]
  BY DEF FetchFrameInfo
<1>2. Fetched(input, first, b1, second, b2, array, type, b3)
  BY DEF Fetched
<1>3. PICK info : info = FetchFrameInfo(input, garbage)
  OBVIOUS
<1>4. /\ info.fin = first[1] \div 128 /\ info.opcode = first[1] % 128
      /\ info.mask = mask /\ info.length = length /\ info.key = key /\ info.input = rest
  <2> HIDE DEF first, b1, second, b2, array, type, b3, mask, length, key, rest
  <2> QED
    BY <1>1, <1>3
<1>5. FetchedInfo(info, garbage, first, mask, array, type, b3)
  <2> HIDE DEF first, b1, second, b2, array, type, b3, mask
  <2> QED
    BY <1>4, Zenon DEF FetchedInfo
<1>6. mask = second[1] \div 128
  OBVIOUS
<1> HIDE DEF first, b1, second, b2, array, type, b3, mask
<1> QED
  BY <1>2, <1>3, <1>5, <1>6, Zenon

\* A header of which all h bytes are there, size of them in front of the key
HeaderThere(d, type, mask, size, h) ==
  /\ d \in Seq(Bytes) /\ type = d[2] % 128 /\ mask = d[2] \div 128
  /\ type \in 0..126 /\ mask \in {0, 1}
  /\ size = (IF type = 126 THEN 4 ELSE 2) /\ h = size + (IF mask = 1 THEN 4 ELSE 0)
  /\ h <= Len(d)

\* What is in it
HeaderIs(info, d, type, mask, h, garbage) ==
  /\ info.fin = d[1] \div 128 /\ info.opcode = d[1] % 128 /\ info.mask = mask
  /\ info.length = IF type = 126 THEN 256 * d[3] + d[4] ELSE type
  /\ info.key = IF mask = 1 THEN Part(d, h - 3, h) ELSE garbage
  /\ info.input = At(d, h)

\* The first two bytes of an input
LEMMA TwoFetched ==
  ASSUME NEW d \in Seq(Bytes), 2 <= Len(d),
         NEW first, NEW b1, NEW second, NEW b2, NEW array, NEW type, NEW b3,
         Fetched(BufferOf(d), first, b1, second, b2, array, type, b3)
  PROVE  first[1] = d[1] /\ second[1] = d[2] /\ b2 = At(d, 2)
<1>1. /\ first = Read(BufferOf(d), 1, <<0>>) /\ b1 = Skip(BufferOf(d), 1)
      /\ second = Read(b1, 1, first) /\ b2 = Skip(b1, 1)
  BY Zenon DEF Fetched
<1>2. BufferOf(d) = At(d, 0)
  BY Zenon DEF BufferOf, At
<1>3. CanRead(d, 0, 1, 1, 1) /\ CanRead(d, 1, 1, 2, 2)
  BY LenProperties, SMT DEF CanRead
<1>4. first = Part(d, 1, 1) /\ b1 = At(d, 1)
  BY <1>1, <1>2, <1>3, ReadAt, SMT
<1>5. second = Part(d, 2, 2) /\ b2 = At(d, 2)
  BY <1>1, <1>3, <1>4, ReadAt, SMT
<1>6. Part(d, 1, 1)[1] = d[1] /\ Part(d, 2, 2)[1] = d[2]
  BY <1>3, OneByteRead, SMT
<1> QED
  BY <1>4, <1>5, <1>6, Zenon

\* If the whole header is there, every read of fetch_frame_info finds what it is after.
LEMMA HeaderRead ==
  ASSUME NEW d, NEW type, NEW mask, NEW size, NEW h, HeaderThere(d, type, mask, size, h),
         NEW garbage
  PROVE  HeaderIs(FetchFrameInfo(BufferOf(d), garbage), d, type, mask, h, garbage)
<1>1. PICK info : info = FetchFrameInfo(BufferOf(d), garbage)
  OBVIOUS
<1>2. PICK first, b1, second, b2, array, type2, b3, mask2 :
        /\ Fetched(BufferOf(d), first, b1, second, b2, array, type2, b3)
        /\ mask2 = second[1] \div 128
        /\ FetchedInfo(info, garbage, first, mask2, array, type2, b3)
  BY <1>1, FetchIs, ZenonT(60)
<1>3. /\ d \in Seq(Bytes) /\ type = d[2] % 128 /\ mask = d[2] \div 128
      /\ size = (IF type = 126 THEN 4 ELSE 2) /\ h = size + (IF mask = 1 THEN 4 ELSE 0)
      /\ h <= Len(d) /\ type \in 0..126 /\ mask \in {0, 1}
  BY Zenon DEF HeaderThere
<1>4. Len(d) \in Nat
  BY <1>3, LenProperties, Zenon
<1>5. 2 <= Len(d)
  BY <1>3, <1>4, SMT
<1>6. first[1] = d[1] /\ second[1] = d[2] /\ b2 = At(d, 2)
  BY <1>2, <1>3, <1>5, TwoFetched, SMT
<1>7. type2 = type /\ mask2 = mask /\ array = Read(b2, 2, <<0, 0>>)
  BY <1>2, <1>3, <1>6, Zenon DEF Fetched
<1>8. b3 = CASE type < 126 -> b2
             [] type = 126 -> Skip(b2, 2)
             [] type = 127 -> Skip(b2, 8)
  BY <1>2, <1>7, Zenon DEF Fetched
<1>9. /\ info.fin = d[1] \div 128 /\ info.opcode = d[1] % 128 /\ info.mask = mask
      /\ info.length = CASE type < 126 -> type
                         [] type = 126 -> BigEndianLength(array)
                         [] type = 127 -> 0
      /\ info.key = IF mask = 1 THEN Read(b3, 4, garbage) ELSE garbage
      /\ info.input = IF mask = 1 THEN Skip(b3, 4) ELSE b3
  BY <1>2, <1>6, <1>7, Zenon DEF FetchedInfo
<1>10. /\ b3 = At(d, size)
       /\ info.length = IF type = 126 THEN 256 * d[3] + d[4] ELSE type
  <2>1. CASE type = 126
    <3>1. size = 4 /\ CanRead(d, 2, 2, 3, 4)
      BY <1>3, <1>4, <2>1, SMT DEF CanRead
    <3>2. Skip(b2, 2) = At(d, 4) /\ array = Part(d, 3, 4)
      BY <1>6, <1>7, <3>1, ReadAt, SMT
    <3>4. array[1] = d[3] /\ array[2] = d[4]
      BY <3>1, <3>2, TwoBytesRead, SMT
    <3>5. b3 = Skip(b2, 2) /\ info.length = BigEndianLength(array)
      BY <1>8, <1>9, <2>1, SMT
    <3>6. info.length = 256 * d[3] + d[4]
      BY <3>4, <3>5, Zenon DEF BigEndianLength
    <3> QED
      BY <2>1, <3>1, <3>2, <3>5, <3>6, Zenon
  <2>2. CASE type # 126
    <3>1. size = 2
      BY <1>3, <2>2, Zenon
    <3>2. type < 126
      <4>1. type \in 0..126
        BY <1>3, Zenon
      <4> QED
        BY <2>2, <4>1, SMT
    <3>3. b3 = b2 /\ info.length = type
      BY <1>8, <1>9, <3>2, SMT
    <3> QED
      BY <1>6, <2>2, <3>1, <3>3, Zenon
  <2> QED
    BY <2>1, <2>2
<1>11. /\ info.key = IF mask = 1 THEN Part(d, h - 3, h) ELSE garbage
       /\ info.input = At(d, h)
  <2>1. CASE mask = 1
    <3>1. CanRead(d, size, 4, h - 3, h)
      BY <1>3, <1>4, <2>1, SMT DEF CanRead
    <3>2. Skip(b3, 4) = At(d, h) /\ Read(b3, 4, garbage) = Part(d, h - 3, h)
      BY <1>10, <3>1, ReadAt, SMT
    <3> QED
      BY <1>9, <2>1, <3>2, Zenon
  <2>2. CASE mask # 1
    <3>1. h = size
      BY <1>3, <2>2, SMT
    <3> QED
      BY <1>9, <1>10, <2>2, <3>1, Zenon
  <2> QED
    BY <2>1, <2>2
<1>12. HeaderIs(info, d, type, mask, h, garbage)
  BY <1>9, <1>10, <1>11, Zenon DEF HeaderIs
<1> QED
  BY <1>1, <1>12, Zenon

\* d begins with w, or is a part of it.
Begins(d, w) == \A i \in 1..Len(d) : i <= Len(w) => d[i] = w[i]

\* What fetch_frame_info has to find in the header of f, of which h bytes
FrameInfo(info, f, d, h, garbage) ==
  /\ info.fin = f.fin /\ info.opcode = f.opcode /\ info.mask = MaskBit(f)
  /\ info.length = Len(f.payload)
  /\ info.key = IF f.key = <<>> THEN garbage ELSE f.key
  /\ info.input = At(d, h)

\* The length type of a short frame is its length, or 126.
LEMMA LengthTypeIs ==
  \A n \in Nat : IsShort(n) =>
    /\ LengthType(n) \in 0..126
    /\ LengthType(n) = 126 <=> n > 125
    /\ n <= 125 => LengthType(n) = n
BY SMT DEF IsShort, LengthType

\* The size of the header that the second byte announces, in one sum
LEMMA HeaderSizeIs ==
  \A y : HeaderSize(y) = (IF y % 128 = 126 THEN 4 ELSE 2) + (IF y \div 128 = 1 THEN 4 ELSE 0)
BY SMT DEF HeaderSize

\* If the whole header of a short frame is there, fetch_frame_info finds its fields.
LEMMA FrameInfoRead ==
  ASSUME NEW f, IsShortFrame(f), NEW w, NEW h, FrameBytes(f, w, h),
         NEW d \in Seq(Bytes), Begins(d, w), h <= Len(d), NEW garbage
  PROVE  FrameInfo(FetchFrameInfo(BufferOf(d), garbage), f, d, h, garbage)
<1>0. /\ IsShort(Len(f.payload)) /\ f.payload \in Seq(Bytes)
      /\ f.fin \in {0, 1} /\ f.opcode \in 0..127
      /\ f.key = <<>> \/ f.key \in [1..4 -> Bytes]
  BY Zenon DEF IsShortFrame, IsFrame
<1>1. PICK n \in Nat : n = Len(f.payload) /\ IsShort(n)
  BY <1>0, LenProperties, Zenon
<1>2. PICK mask \in {0, 1} : mask = MaskBit(f) /\ (mask = 1 <=> f.key # <<>>)
  BY MaskBitIs, Zenon
<1>3. PICK fin \in {0, 1}, opcode \in 0..127 : fin = f.fin /\ opcode = f.opcode
  BY <1>0, Zenon
<1>4. /\ w \in Seq(Bytes) /\ h \in 2..8 /\ Len(w) = h + n
      /\ w[1] = 128 * fin + opcode /\ w[2] = 128 * mask + LengthType(n)
      /\ h = HeaderSize(w[2]) /\ (n > 125 => 256 * w[3] + w[4] = n)
      /\ f.key # <<>> => \A i \in 1..4 : w[(h - 4) + i] = f.key[i]
  BY <1>1, <1>2, <1>3, Zenon DEF FrameBytes
<1>5. Len(d) \in Nat
  BY LenProperties
<1>6. \A i \in 1..h : d[i] = w[i]
  <2> TAKE i \in 1..h
  <2>1. i \in 1..Len(d) /\ i <= Len(w)
    <3>1. h \in 2..8 /\ Len(w) = h + n
      BY <1>4, Zenon
    <3> QED
      BY <1>1, <1>5, <3>1, SMT
  <2> QED
    BY <2>1, Zenon DEF Begins
<1>7. PICK type \in 0..126 :
        /\ type = LengthType(n) /\ (type = 126 <=> n > 125) /\ (n <= 125 => type = n)
  <2>1. /\ LengthType(n) \in 0..126 /\ (LengthType(n) = 126 <=> n > 125)
        /\ n <= 125 => LengthType(n) = n
    BY <1>1, LengthTypeIs, Zenon
  <2> QED
    BY <2>1, Zenon
<1>8. d[1] = 128 * fin + opcode /\ d[2] = 128 * mask + type
  <2>1. 1 \in 1..h /\ 2 \in 1..h
    <3>1. h \in 2..8
      BY <1>4, Zenon
    <3> QED
      BY <3>1, SMT
  <2> QED
    BY <1>4, <1>6, <1>7, <2>1, Zenon
<1>9. /\ d[1] \div 128 = fin /\ d[1] % 128 = opcode
      /\ d[2] \div 128 = mask /\ d[2] % 128 = type
  <2>1. PICK x \in Nat, y \in Nat :
          x = 128 * fin + opcode /\ y = 128 * mask + type /\ x = d[1] /\ y = d[2]
    <3>1. 128 * fin + opcode \in Nat /\ 128 * mask + type \in Nat
      BY SMT
    <3> QED
      BY <1>8, <3>1, Zenon
  <2>2. x \div 128 = fin /\ x % 128 = opcode /\ y \div 128 = mask /\ y % 128 = type
    BY <2>1, SMT
  <2> QED
    BY <2>1, <2>2, Zenon
<1>10. PICK size \in {2, 4} :
         /\ size = (IF type = 126 THEN 4 ELSE 2) /\ h = size + (IF mask = 1 THEN 4 ELSE 0)
  <2>1. h = HeaderSize(d[2])
    BY <1>4, <1>7, <1>8, Zenon
  <2>2. HeaderSize(d[2]) =
          (IF d[2] % 128 = 126 THEN 4 ELSE 2) + (IF d[2] \div 128 = 1 THEN 4 ELSE 0)
    BY HeaderSizeIs, Zenon
  <2>3. d[2] % 128 = type /\ d[2] \div 128 = mask
    BY <1>9, Zenon
  <2>4. h = (IF type = 126 THEN 4 ELSE 2) + (IF mask = 1 THEN 4 ELSE 0)
    BY <2>1, <2>2, <2>3, Zenon
  <2>5. (IF type = 126 THEN 4 ELSE 2) \in {2, 4}
    BY Zenon
  <2> QED
    BY <2>4, <2>5, Zenon
<1>11. HeaderThere(d, type, mask, size, h)
  BY <1>9, <1>10, Zenon DEF HeaderThere
<1>12. PICK info : info = FetchFrameInfo(BufferOf(d), garbage)
  OBVIOUS
<1>13. /\ info.fin = fin /\ info.opcode = opcode /\ info.mask = mask
       /\ info.length = IF type = 126 THEN 256 * d[3] + d[4] ELSE type
       /\ info.key = IF mask = 1 THEN Part(d, h - 3, h) ELSE garbage
       /\ info.input = At(d, h)
  <2>1. HeaderIs(info, d, type, mask, h, garbage)
    BY <1>11, <1>12, HeaderRead, Zenon
  <2> QED
    BY <1>9, <2>1, Zenon DEF HeaderIs
<1>14. info.length = n
  <2>1. CASE n > 125
    <3>1. type = 126
      BY <1>7, <2>1, Zenon
    <3>2. 3 \in 1..h /\ 4 \in 1..h
      BY <1>10, <3>1, SMT
    <3>3. d[3] = w[3] /\ d[4] = w[4]
      BY <1>6, <3>2, Zenon
    <3> QED
      BY <1>4, <1>13, <2>1, <3>1, <3>3, ZenonT(60)
  <2>2. CASE n <= 125
    <3>1. type = n
      BY <1>7, <2>2, Zenon
    <3>2. n # 126
      BY <2>2, SMT
    <3> QED
      BY <1>13, <3>1, <3>2, Zenon
  <2> QED
    BY <2>1, <2>2, SMT
<1>15. f.key # <<>> => Part(d, h - 3, h) = f.key
  <2> SUFFICES ASSUME f.key # <<>> PROVE Part(d, h - 3, h) = f.key
    OBVIOUS
  <2>1. mask = 1
    BY <1>2, Zenon
  <2>2. size + 4 = h
    BY <1>10, <2>1, Zenon
  <2>3. h \in Nat /\ h - 4 \in Nat /\ CanRead(d, h - 4, 4, h - 3, h)
    BY <1>5, <2>2, SMT DEF CanRead
  <2>4. IsPart(Part(d, h - 3, h), d, h - 4, 4)
    BY <2>3, PartRead, SMT
  <2>5. PICK s \in Seq(Bytes) :
          s = Part(d, h - 3, h) /\ Len(s) = 4 /\ \A i \in 1..4 : s[i] = d[(h - 4) + i]
    BY <2>4, Zenon DEF IsPart
  <2>6. PICK key \in Seq(Bytes) : key = f.key /\ Len(key) = 4
    BY <1>0, KeyIs, Zenon
  <2>7. \A i \in 1..4 : s[i] = key[i]
    <3> TAKE i \in 1..4
    <3>1. (h - 4) + i \in 1..h
      BY <2>3, SMT
    <3>2. d[(h - 4) + i] = w[(h - 4) + i]
      BY <1>6, <3>1, Zenon
    <3>3. w[(h - 4) + i] = key[i]
      BY <1>4, <2>6, Zenon
    <3> QED
      BY <2>5, <3>2, <3>3, Zenon
  <2> QED
    BY <2>5, <2>6, <2>7, SeqEqual, ZenonT(60)
<1>16. info.key = IF f.key = <<>> THEN garbage ELSE f.key
  BY <1>2, <1>13, <1>15, Zenon
<1> QED
  BY <1>1, <1>2, <1>3, <1>12, <1>13, <1>14, <1>16, Zenon DEF FrameInfo

\* A frame was taken: what the caller of recv_dataframe gets.
FrameTaken(df, f, d, size) ==
  /\ ~df.throws /\ df.ndf = size
  /\ df.fin = f.fin /\ df.opcode = f.opcode /\ df.payload = f.payload
  /\ df.input = At(d, size)

\* "buffer size is not enough": nothing was taken, and the cursor is in front.
FrameAwaited(df, d) == ~df.throws /\ df.ndf = 0 /\ df.input = BufferOf(d)

\* resetoft moves the cursor to the front and nothing else.
LEMMA ResetAt == \A d, o : ResetOft(At(d, o)) = BufferOf(d)
BY OftExcept, Zenon DEF ResetOft, At, BufferOf

\* recv_dataframe in terms of what fetch_frame_info found, with the header in
\* front of position h
IsOutcome(df, info, d, h) ==
  /\ h + info.length > Len(d) => FrameAwaited(df, d)
  /\ h + info.length <= Len(d) =>
       /\ df.throws <=> info.mask = 0 /\ Len(d) > 0 /\ h >= Len(d)
       /\ df.ndf = h + info.length /\ df.fin = info.fin /\ df.opcode = info.opcode
       /\ df.payload = IF info.mask = 1
                       THEN Mask(Part(d, h + 1, h + info.length), info.key)
                       ELSE Part(d, h + 1, h + info.length)
       /\ df.input = At(d, h + info.length)

HasRead(d, garbage, info, h) ==
  /\ d \in Seq(Bytes) /\ h \in Nat /\ h <= Len(d)
  /\ info = FetchFrameInfo(BufferOf(d), garbage)
  /\ info.input = At(d, h) /\ info.length \in Nat

\* recv_dataframe waits, or takes what the length that was found says.
LEMMA OutcomeIs ==
  ASSUME NEW d, NEW garbage, NEW info, NEW h, HasRead(d, garbage, info, h)
  PROVE  IsOutcome(RecvDataframe(BufferOf(d), garbage), info, d, h)
<1> /\ d \in Seq(Bytes) /\ h \in Nat /\ h <= Len(d)
    /\ info = FetchFrameInfo(BufferOf(d), garbage)
    /\ info.input = At(d, h) /\ info.length \in Nat
  BY Zenon DEF HasRead
<1>0. PICK n \in Nat : n = info.length
  OBVIOUS
<1>1. Len(d) \in Nat
  BY LenProperties
<1>2. PICK df : df = RecvDataframe(BufferOf(d), garbage)
  OBVIOUS
<1>3. PICK input : input = At(d, h) /\ info.input = input
  OBVIOUS
<1>4. input.data = d /\ input.oft = h /\ At(d, h + n).oft = h + n
  BY <1>3 DEF At
<1>5. Length(BufferOf(d)) = Len(d) /\ Length(input) = Len(d)
  BY <1>4, BufferOfIs, Zenon DEF Length
<1>6. Incomplete(info, BufferOf(d)) <=> n + h > Len(d)
  BY <1>0, <1>3, <1>4, <1>5, Zenon DEF Incomplete
<1>7. PayloadThrows(info) <=> info.mask = 0 /\ Len(d) > 0 /\ h >= Len(d)
  BY <1>3, <1>4, <1>5, Zenon DEF PayloadThrows, CuratThrows
<1>8. h + n > Len(d) \/ h + n <= Len(d)
  BY <1>1, SMT
<1>9. h + n > Len(d) => FrameAwaited(df, d) /\ ~(h + n <= Len(d))
  <2> SUFFICES ASSUME h + n > Len(d) PROVE FrameAwaited(df, d) /\ ~(h + n <= Len(d))
    OBVIOUS
  <2>1. n + h > Len(d) /\ ~(h + n <= Len(d))
    BY <1>1, SMT
  <2>2. Incomplete(info, BufferOf(d))
    BY <1>6, <2>1, Zenon
  <2>3. ~df.throws /\ df.ndf = 0 /\ df.input = ResetOft(BufferOf(d))
    BY <1>0, <1>2, <2>2 DEF RecvDataframe
  <2>4. ResetOft(BufferOf(d)) = BufferOf(d)
    BY FrontOftExcept, Zenon DEF ResetOft
  <2> QED
    BY <2>1, <2>3, <2>4, Zenon DEF FrameAwaited
<1>10. h + n <= Len(d) =>
         /\ ~(h + n > Len(d))
         /\ df.throws <=> PayloadThrows(info)
         /\ df.ndf = h + n /\ df.fin = info.fin /\ df.opcode = info.opcode
         /\ df.payload = IF info.mask = 1 THEN Mask(Part(d, h + 1, h + n), info.key)
                         ELSE Part(d, h + 1, h + n)
         /\ df.input = At(d, h + n)
  <2> SUFFICES ASSUME h + n <= Len(d)
               PROVE  /\ ~(h + n > Len(d))
                      /\ df.throws <=> PayloadThrows(info)
                      /\ df.ndf = h + n /\ df.fin = info.fin /\ df.opcode = info.opcode
                      /\ df.payload = IF info.mask = 1 THEN Mask(Part(d, h + 1, h + n), info.key)
                                      ELSE Part(d, h + 1, h + n)
                      /\ df.input = At(d, h + n)
    OBVIOUS
  <2>1. ~(n + h > Len(d)) /\ ~(h + n > Len(d))
    BY <1>1, SMT
  <2>2. ~Incomplete(info, BufferOf(d))
    BY <1>6, <2>1, Zenon
  <2>3. Skip(input, n) = At(d, h + n)
    <3>1. CanRead(d, h, n, h + 1, h + n)
      BY <1>1, SMT DEF CanRead
    <3>2. PICK b, e : b = h + 1 /\ e = h + n /\ CanRead(d, h, n, b, e)
      BY <3>1, Zenon
    <3>3. Skip(At(d, h), n) = At(d, e)
      BY <3>2, ReadAt, Zenon
    <3> QED
      BY <1>3, <3>2, <3>3, Zenon
  <2>4. /\ df.throws <=> PayloadThrows(info)
        /\ df.ndf = Skip(input, n).oft /\ df.fin = info.fin /\ df.opcode = info.opcode
        /\ df.payload = IF info.mask = 1
                        THEN Mask(SubSeq(input.data, input.oft + 1, input.oft + n), info.key)
                        ELSE SubSeq(input.data, input.oft + 1, input.oft + n)
        /\ df.input = Skip(input, n)
    BY <1>0, <1>2, <1>3, <2>2 DEF RecvDataframe
  <2>5. df.ndf = h + n /\ df.input = At(d, h + n)
    BY <1>4, <2>3, <2>4, Zenon
  <2>6. df.payload = IF info.mask = 1 THEN Mask(Part(d, h + 1, h + n), info.key)
                     ELSE Part(d, h + 1, h + n)
    BY <1>4, <2>4, Zenon DEF Part
  <2> QED
    BY <2>1, <2>4, <2>5, <2>6, Zenon
<1>11. IsOutcome(df, info, d, h)
  BY <1>0, <1>7, <1>8, <1>9, <1>10, Zenon DEF IsOutcome
<1> QED
  BY <1>2, <1>11, Zenon

\* A buffer that begins with a whole frame: the frame is taken, unless it is
\* unmasked and empty and nothing follows it.
LEMMA WholeFrameTaken ==
  ASSUME NEW f, IsShortFrame(f), NEW d \in Seq(Bytes), Begins(d, EncodeFrame(f)),
         Len(EncodeFrame(f)) <= Len(d), NEW garbage,
         f.key # <<>> \/ f.payload # <<>> \/ Len(EncodeFrame(f)) < Len(d)
  PROVE  FrameTaken(RecvDataframe(BufferOf(d), garbage), f, d, Len(EncodeFrame(f)))
<1>1. PICK w, h : w = EncodeFrame(f) /\ h = Len(EncodeHeader(f)) /\ FrameBytes(f, w, h)
  BY FrameBytesAre, Zenon
<1>2. PICK n \in Nat : n = Len(f.payload)
  BY ShortFrameIs, Zenon
<1>3. h \in Nat /\ h >= 2 /\ Len(w) = h + n /\ \A i \in 1..n : w[h + i] = Body(f)[i]
  BY <1>1, <1>2, SMT DEF FrameBytes
<1>4. Len(d) \in Nat /\ h + n <= Len(d) /\ h <= Len(d) /\ ~(h + n > Len(d))
  BY <1>1, <1>3, LenProperties, SMT
<1>5. PICK info : info = FetchFrameInfo(BufferOf(d), garbage) /\ FrameInfo(info, f, d, h, garbage)
  BY <1>1, <1>4, FrameInfoRead, Zenon
<1>6. /\ info.fin = f.fin /\ info.opcode = f.opcode /\ info.mask = MaskBit(f) /\ info.length = n
      /\ info.key = (IF f.key = <<>> THEN garbage ELSE f.key)
      /\ info.input = At(d, h)
  BY <1>2, <1>5, Zenon DEF FrameInfo
<1>7. PICK df : df = RecvDataframe(BufferOf(d), garbage)
  OBVIOUS
<1>8. IsOutcome(df, info, d, h)
  <2>1. HasRead(d, garbage, info, h)
    BY <1>2, <1>3, <1>4, <1>5, <1>6, Zenon DEF HasRead
  <2> QED
    BY <1>7, <2>1, OutcomeIs, Zenon
<1>9. /\ df.throws <=> info.mask = 0 /\ Len(d) > 0 /\ h >= Len(d)
      /\ df.ndf = h + n /\ df.fin = info.fin /\ df.opcode = info.opcode
      /\ df.payload = (IF info.mask = 1 THEN Mask(Part(d, h + 1, h + n), info.key)
                       ELSE Part(d, h + 1, h + n))
      /\ df.input = At(d, h + n)
  BY <1>4, <1>6, <1>8, Zenon DEF IsOutcome
<1>10. PICK body \in Seq(Bytes) : body = Body(f) /\ Len(body) = n
  BY <1>2, BodyIs, ShortFrameIs, Zenon
<1>11. Part(d, h + 1, h + n) = body
  <2>1. CanRead(d, h, n, h + 1, h + n)
    BY <1>3, <1>4, SMT DEF CanRead
  <2>2. IsPart(Part(d, h + 1, h + n), d, h, n)
    BY <2>1, PartRead, SMT
  <2>3. PICK s \in Seq(Bytes) :
          s = Part(d, h + 1, h + n) /\ Len(s) = n /\ \A i \in 1..n : s[i] = d[h + i]
    BY <2>2, Zenon DEF IsPart
  <2>4. \A i \in 1..n : s[i] = body[i]
    <3> TAKE i \in 1..n
    <3>1. h + i \in 1..Len(d) /\ h + i <= Len(w)
      BY <1>3, <1>4, SMT
    <3>2. d[h + i] = w[h + i]
      BY <1>1, <3>1, Zenon DEF Begins
    <3>3. w[h + i] = body[i]
      BY <1>3, <1>10, Zenon
    <3> QED
      BY <2>3, <3>2, <3>3, Zenon
  <2> QED
    BY <1>10, <2>3, <2>4, SeqEqual
<1>12. df.payload = f.payload
  <2>1. CASE f.key = <<>>
    <3>1. info.mask # 1 /\ body = f.payload
      BY <1>6, <1>10, <2>1, MaskBitIs, Zenon DEF Body
    <3> QED
      BY <1>9, <1>11, <3>1, Zenon
  <2>2. CASE f.key # <<>>
    <3>1. f.payload \in Seq(Bytes) /\ f.key \in [1..4 -> Bytes]
      BY <2>2, ShortFrameIs, Zenon
    <3>2. info.mask = 1 /\ info.key = f.key /\ body = Mask(f.payload, f.key)
      BY <1>6, <1>10, <2>2, MaskBitIs, Zenon DEF Body
    <3>3. df.payload = Mask(Mask(f.payload, f.key), f.key)
      BY <1>9, <1>11, <3>2, Zenon
    <3> QED
      BY <3>1, <3>3, MaskBack, Zenon
  <2> QED
    BY <2>1, <2>2
<1>13. ~df.throws
  <2>1. CASE f.key # <<>>
    <3>1. info.mask = 1
      BY <1>6, <2>1, MaskBitIs, Zenon
    <3> QED
      BY <1>9, <3>1, SMT
  <2>2. CASE f.payload # <<>>
    <3>1. f.payload \in Seq(Bytes)
      BY ShortFrameIs, Zenon
    <3>2. n # 0
      BY <1>2, <2>2, <3>1, EmptySeq
    <3> QED
      BY <1>3, <1>4, <1>9, <3>2, SMT
  <2>3. CASE Len(w) < Len(d)
    BY <1>3, <1>4, <1>9, <2>3, SMT
  <2> QED
    BY <1>1, <2>1, <2>2, <2>3
<1>14. FrameTaken(df, f, d, Len(w))
  BY <1>3, <1>6, <1>9, <1>12, <1>13, Zenon DEF FrameTaken
<1> QED
  BY <1>1, <1>7, <1>14, Zenon

\* With its header there and some of its payload missing, a frame is awaited.
LEMMA PartAwaited ==
  ASSUME NEW f, IsShortFrame(f), NEW d \in Seq(Bytes), Begins(d, EncodeFrame(f)),
         Len(EncodeHeader(f)) <= Len(d), Len(d) < Len(EncodeFrame(f)), NEW garbage
  PROVE  FrameAwaited(RecvDataframe(BufferOf(d), garbage), d)
<1>1. PICK w, h : w = EncodeFrame(f) /\ h = Len(EncodeHeader(f)) /\ FrameBytes(f, w, h)
  BY FrameBytesAre, Zenon
<1>2. PICK n \in Nat : n = Len(f.payload)
  BY ShortFrameIs, Zenon
<1>3. h \in Nat /\ Len(w) = h + n
  BY <1>1, <1>2, SMT DEF FrameBytes
<1>4. Len(d) \in Nat /\ h <= Len(d) /\ h + n > Len(d)
  BY <1>1, <1>3, LenProperties, SMT
<1>5. PICK info : info = FetchFrameInfo(BufferOf(d), garbage) /\ FrameInfo(info, f, d, h, garbage)
  BY <1>1, <1>4, FrameInfoRead, Zenon
<1>6. info.length = n /\ info.input = At(d, h)
  BY <1>2, <1>5, Zenon DEF FrameInfo
<1>7. HasRead(d, garbage, info, h)
  BY <1>2, <1>3, <1>4, <1>5, <1>6, Zenon DEF HasRead
<1>8. IsOutcome(RecvDataframe(BufferOf(d), garbage), info, d, h)
  BY <1>7, OutcomeIs, Zenon
<1> QED
  BY <1>4, <1>6, <1>8, Zenon DEF IsOutcome

\* What fetch_frame_info makes of an input of which less than a header is there
LEMMA EmptyRead ==
  ASSUME NEW d \in Seq(Bytes), Len(d) = 0, NEW garbage, NEW info,
         info = FetchFrameInfo(BufferOf(d), garbage)
  PROVE  info.length = 0 /\ info.input = At(d, 0)
<1>1. PICK first, b1, second, b2, array, type, b3, mask :
        /\ Fetched(BufferOf(d), first, b1, second, b2, array, type, b3)
        /\ mask = second[1] \div 128
        /\ FetchedInfo(info, garbage, first, mask, array, type, b3)
  BY FetchIs, ZenonT(60)
<1>2. /\ first = Read(BufferOf(d), 1, <<0>>) /\ b1 = Skip(BufferOf(d), 1)
      /\ second = Read(b1, 1, first) /\ b2 = Skip(b1, 1) /\ type = second[1] % 128
      /\ b3 = CASE type < 126 -> b2
                [] type = 126 -> Skip(b2, 2)
                [] type = 127 -> Skip(b2, 8)
  BY <1>1, Zenon DEF Fetched
<1>3. BufferOf(d) = At(d, 0)
  BY Zenon DEF BufferOf, At
<1>4. CannotRead(d, 0, 1)
  BY SMT DEF CannotRead
<1>5. first = <<0>> /\ b1 = At(d, 0)
  BY <1>2, <1>3, <1>4, NotReadAt, SMT
<1>6. second = first /\ b2 = At(d, 0)
  BY <1>2, <1>4, <1>5, NotReadAt, SMT
<1>7. second[1] = 0
  BY <1>5, <1>6
<1>8. mask = 0 /\ type = 0
  BY <1>1, <1>2, <1>7, SMT
<1>9. b3 = b2
  BY <1>2, <1>8, SMT
<1>10. info.length = 0 /\ info.input = b3
  BY <1>1, <1>8, SMT DEF FetchedInfo
<1> QED
  BY <1>6, <1>9, <1>10, Zenon

OneThere(d, type, garbage, info) ==
  /\ d \in Seq(Bytes) /\ Len(d) = 1 /\ type \in 0..125 /\ d[1] % 128 = type
  /\ info = FetchFrameInfo(BufferOf(d), garbage)

\* With one byte there, that byte is taken for the second one as well.
LEMMA OneRead ==
  ASSUME NEW d, NEW type, NEW garbage, NEW info, OneThere(d, type, garbage, info)
  PROVE  info.length = type /\ info.input = At(d, 1)
<1>1. PICK first, b1, second, b2, array, type2, b3, mask :
        /\ Fetched(BufferOf(d), first, b1, second, b2, array, type2, b3)
        /\ mask = second[1] \div 128
        /\ FetchedInfo(info, garbage, first, mask, array, type2, b3)
  BY FetchIs, ZenonT(60) DEF OneThere
<1>2. /\ first = Read(BufferOf(d), 1, <<0>>) /\ b1 = Skip(BufferOf(d), 1)
      /\ second = Read(b1, 1, first) /\ b2 = Skip(b1, 1) /\ type2 = second[1] % 128
  BY <1>1, Zenon DEF Fetched
<1>3. BufferOf(d) = At(d, 0)
  BY Zenon DEF BufferOf, At
<1>4. CanRead(d, 0, 1, 1, 1) /\ CannotRead(d, 1, 1) /\ CannotRead(d, 1, 4)
  <2>1. d \in Seq(Bytes) /\ Len(d) = 1
    BY Zenon DEF OneThere
  <2> QED
    BY <2>1, SMT DEF CanRead, CannotRead
<1>5. first = Part(d, 1, 1) /\ b1 = At(d, 1)
  BY <1>2, <1>3, <1>4, ReadAt, SMT
<1>6. second = first /\ b2 = At(d, 1)
  BY <1>2, <1>4, <1>5, NotReadAt, SMT
<1>7. Part(d, 1, 1)[1] = d[1]
  BY <1>4, OneByteRead, SMT
<1>8. type2 = type
  BY <1>2, <1>5, <1>6, <1>7, Zenon DEF OneThere
<1>9. type \in 0..125
  BY Zenon DEF OneThere
<1>10. type2 < 126
  BY <1>8, <1>9, SMT
<1>11. b3 = b2
  <2>1. b3 = CASE type2 < 126 -> b2
               [] type2 = 126 -> Skip(b2, 2)
               [] type2 = 127 -> Skip(b2, 8)
    BY <1>1, Zenon DEF Fetched
  <2> QED
    BY <1>8, <1>9, <1>10, <2>1, SMT
<1>12. info.length = type
  <2>1. info.length = CASE type2 < 126 -> type2
                        [] type2 = 126 -> BigEndianLength(array)
                        [] type2 = 127 -> 0
    BY <1>1, Zenon DEF FetchedInfo
  <2> QED
    BY <1>8, <1>9, <1>10, <2>1, SMT
<1>13. Skip(b3, 4) = At(d, 1)
  BY <1>4, <1>6, <1>11, NotReadAt, SMT
<1>14. info.input = b3 \/ info.input = Skip(b3, 4)
  BY <1>1, Zenon DEF FetchedInfo
<1> QED
  BY <1>6, <1>11, <1>12, <1>13, <1>14, Zenon

FewThere(d, type, garbage, info) ==
  /\ d \in Seq(Bytes) /\ 2 <= Len(d) /\ Len(d) <= 5
  /\ info = FetchFrameInfo(BufferOf(d), garbage)
  /\ type \in 0..125 /\ d[2] % 128 = type /\ d[2] \div 128 = 1

\* With a part of the masking key missing, the header is taken to end before the key.
LEMMA FewRead ==
  ASSUME NEW d, NEW type, NEW garbage, NEW info, FewThere(d, type, garbage, info)
  PROVE  info.length = type /\ info.input = At(d, 2)
<1>1. PICK first, b1, second, b2, array, type2, b3, mask :
        /\ Fetched(BufferOf(d), first, b1, second, b2, array, type2, b3)
        /\ mask = second[1] \div 128
        /\ FetchedInfo(info, garbage, first, mask, array, type2, b3)
  BY FetchIs, ZenonT(60) DEF FewThere
<1>2. d \in Seq(Bytes) /\ 2 <= Len(d) /\ Len(d) <= 5
  BY Zenon DEF FewThere
<1>3. Len(d) \in Nat
  BY <1>2, LenProperties, Zenon
<1>4. second[1] = d[2] /\ b2 = At(d, 2)
  BY <1>1, <1>2, <1>3, TwoFetched, SMT
<1>5. type2 = type /\ mask = 1
  BY <1>1, <1>4, Zenon DEF Fetched, FewThere
<1>6. type \in 0..125
  BY Zenon DEF FewThere
<1>7. type2 < 126
  BY <1>5, <1>6, SMT
<1>8. b3 = b2
  <2>1. b3 = CASE type2 < 126 -> b2
               [] type2 = 126 -> Skip(b2, 2)
               [] type2 = 127 -> Skip(b2, 8)
    BY <1>1, Zenon DEF Fetched
  <2> QED
    BY <1>5, <1>6, <1>7, <2>1, SMT
<1>9. CannotRead(d, 2, 4)
  BY <1>2, <1>3, SMT DEF CannotRead
<1>10. Skip(b3, 4) = At(d, 2)
  BY <1>4, <1>8, <1>9, NotReadAt, SMT
<1>11. info.length = type
  <2>1. info.length = CASE type2 < 126 -> type2
                        [] type2 = 126 -> BigEndianLength(array)
                        [] type2 = 127 -> 0
    BY <1>1, Zenon DEF FetchedInfo
  <2> QED
    BY <1>5, <1>6, <1>7, <2>1, SMT
<1>12. info.input = Skip(b3, 4)
  BY <1>1, <1>5, Zenon DEF FetchedInfo
<1> QED
  BY <1>10, <1>11, <1>12, Zenon

\* Of a masked frame of 4 to 125 bytes, not a continuation, no part at all is
\* taken for a frame: what is missing of its header is read as zeros or as the
\* byte in front of it, and never makes up for the payload that is missing too.
LEMMA SturdyAwaited ==
  ASSUME NEW f, IsShortFrame(f), Sturdy(f), NEW d \in Seq(Bytes), Begins(d, EncodeFrame(f)),
         Len(d) < Len(EncodeFrame(f)), NEW garbage
  PROVE  FrameAwaited(RecvDataframe(BufferOf(d), garbage), d)
<1>1. PICK w, h : w = EncodeFrame(f) /\ h = Len(EncodeHeader(f)) /\ FrameBytes(f, w, h)
  BY FrameBytesAre, Zenon
<1>2. PICK n \in 4..125 : n = Len(f.payload)
  BY Zenon DEF Sturdy
<1>3. PICK opcode \in 1..125 : opcode = f.opcode /\ f.key # <<>>
  BY Zenon DEF Sturdy
<1>4. PICK fin \in {0, 1} : fin = f.fin
  BY Zenon DEF IsShortFrame, IsFrame
<1>5. MaskBit(f) = 1
  BY <1>3, Zenon DEF MaskBit
<1>6. LengthType(n) = n
  BY SMT DEF LengthType
<1>7. /\ w[1] = 128 * fin + opcode /\ w[2] = 128 * 1 + n
      /\ h = HeaderSize(w[2]) /\ Len(w) = h + n
  BY <1>1, <1>2, <1>3, <1>4, <1>5, <1>6, Zenon DEF FrameBytes
<1>8. h = 6
  <2>1. (128 * 1 + n) % 128 = n /\ (128 * 1 + n) \div 128 = 1 /\ n # 126
    BY SMT
  <2>2. HeaderSize(128 * 1 + n) = 2 + 0 + 4
    BY <2>1, Zenon DEF HeaderSize
  <2> QED
    BY <1>7, <2>2, SMT
<1>9. Len(d) \in Nat /\ \A i \in 1..Len(d) : i < 6 => d[i] = w[i]
  <2>1. Len(d) \in Nat
    BY LenProperties
  <2>2. ASSUME NEW i \in 1..Len(d), i < 6
        PROVE  d[i] = w[i]
    <3>1. i <= Len(w)
      BY <1>7, <1>8, <2>1, <2>2, SMT
    <3> QED
      BY <1>1, <3>1, Zenon DEF Begins
  <2> QED
    BY <2>1, <2>2
<1>10. PICK df : df = RecvDataframe(BufferOf(d), garbage)
  OBVIOUS
<1>11. PICK info : info = FetchFrameInfo(BufferOf(d), garbage)
  OBVIOUS
<1>13. ASSUME Len(d) >= 6
       PROVE  FrameAwaited(df, d)
  <2>1. Len(EncodeHeader(f)) <= Len(d)
    BY <1>1, <1>8, <1>13, Zenon
  <2> QED
    BY <1>10, <2>1, PartAwaited, Zenon
<1>14. ASSUME Len(d) = 0
       PROVE  FrameAwaited(df, d)
  <2>1. info.length = 0 /\ info.input = At(d, 0)
    BY <1>11, <1>14, EmptyRead, Zenon
  <2>2. 0 \in Nat /\ 0 <= Len(d) /\ 0 + 0 <= Len(d) /\ ~(Len(d) > 0) /\ 0 + 0 = 0
    BY <1>14, SMT
  <2>3. HasRead(d, garbage, info, 0)
    BY <1>11, <2>1, <2>2, Zenon DEF HasRead
  <2>4. IsOutcome(df, info, d, 0)
    BY <1>10, <2>3, OutcomeIs, Zenon
  <2>5. ~df.throws /\ df.ndf = 0 /\ df.input = At(d, 0)
    BY <2>1, <2>2, <2>4, Zenon DEF IsOutcome
  <2>6. At(d, 0) = BufferOf(d)
    BY Zenon DEF BufferOf, At
  <2> QED
    BY <2>5, <2>6, Zenon DEF FrameAwaited
<1>15. ASSUME Len(d) = 1
       PROVE  FrameAwaited(df, d)
  <2>1. d[1] = 128 * fin + opcode
    <3>1. 1 \in 1..Len(d) /\ 1 < 6
      BY <1>15, SMT
    <3> QED
      BY <1>7, <1>9, <3>1, Zenon
  <2>2. (128 * fin + opcode) % 128 = opcode /\ opcode \in 0..125 /\ opcode \in Nat
    BY SMT
  <2>3. OneThere(d, opcode, garbage, info)
    BY <1>11, <1>15, <2>1, <2>2, Zenon DEF OneThere
  <2>4. info.length = opcode /\ info.input = At(d, 1)
    BY <2>3, OneRead, Zenon
  <2>5. 1 \in Nat /\ 1 <= Len(d) /\ 1 + opcode > Len(d)
    BY <1>15, SMT
  <2>6. HasRead(d, garbage, info, 1)
    BY <1>11, <2>2, <2>4, <2>5, Zenon DEF HasRead
  <2>7. IsOutcome(df, info, d, 1)
    BY <1>10, <2>6, OutcomeIs, Zenon
  <2> QED
    BY <2>4, <2>5, <2>7, Zenon DEF IsOutcome
<1>16. ASSUME 2 <= Len(d), Len(d) <= 5
       PROVE  FrameAwaited(df, d)
  <2>1. d[2] = 128 * 1 + n
    <3>1. 2 \in 1..Len(d) /\ 2 < 6
      BY <1>9, <1>16, SMT
    <3> QED
      BY <1>7, <1>9, <3>1, Zenon
  <2>2. (128 * 1 + n) % 128 = n /\ (128 * 1 + n) \div 128 = 1 /\ n \in 0..125 /\ n \in Nat
    BY SMT
  <2>3. FewThere(d, n, garbage, info)
    BY <1>11, <1>16, <2>1, <2>2, Zenon DEF FewThere
  <2>4. info.length = n /\ info.input = At(d, 2)
    BY <2>3, FewRead, Zenon
  <2>5. 2 \in Nat /\ 2 <= Len(d) /\ 2 + n > Len(d)
    BY <1>9, <1>16, SMT
  <2>6. HasRead(d, garbage, info, 2)
    BY <1>11, <2>2, <2>4, <2>5, Zenon DEF HasRead
  <2>7. IsOutcome(df, info, d, 2)
    BY <1>10, <2>6, OutcomeIs, Zenon
  <2> QED
    BY <2>4, <2>5, <2>7, Zenon DEF IsOutcome
<1>17. Len(d) >= 6 \/ Len(d) = 0 \/ Len(d) = 1 \/ (2 <= Len(d) /\ Len(d) <= 5)
  <2>1. PICK size \in Nat : size = Len(d)
    BY <1>9, Zenon
  <2>2. size >= 6 \/ size = 0 \/ size = 1 \/ (2 <= size /\ size <= 5)
    BY SMT
  <2> QED
    BY <2>1, <2>2, Zenon
<1> QED
  BY <1>10, <1>13, <1>14, <1>15, <1>16, <1>17, Zenon
=============================================================================
