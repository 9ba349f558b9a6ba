----------------------- MODULE HandshakeAnswer_proofs -----------------------
(***************************************************************************)
(* The way from a request to its answer: what goes into the hash is the    *)
(* padded message, Base64 is that of the standard and goes back, and a     *)
(* request is answered as its client means it.                             *)
(***************************************************************************)
EXTENDS HandshakeAnswer, WebSocketHandshake_proofs

(***************************************************************************)
(* SHA-1: the blocks                                                       *)
(***************************************************************************)

\* The memory of a block
Memory == [0..63 -> Bytes]

\* r is s with t behind it.
BytesJoin(r, s, t) ==
  /\ r \in Seq(Bytes)
  /\ Len(r) = Len(s) + Len(t)
  /\ \A i \in 1..Len(s) : r[i] = s[i]
  /\ \A i \in 1..Len(t) : r[Len(s) + i] = t[i]

\* What stands where in two sequences behind one another
LEMMA Behind ==
  ASSUME NEW s \in Seq(Bytes), NEW t \in Seq(Bytes)
  PROVE  BytesJoin(s \o t, s, t)
BY DEF BytesJoin

\* A block is its memory, counted from 1.
LEMMA BlockBytes ==
  ASSUME NEW m \in Memory
  PROVE  /\ Block(m) \in Seq(Bytes) /\ Len(Block(m)) = 64
         /\ \A i \in 0..63 : Block(m)[i + 1] = m[i]
<1>1. \A i \in 1..64 : m[i - 1] \in Bytes
  BY DEF Memory
<1>2. [i \in 1..64 |-> m[i - 1]] \in Seq(Bytes)
  BY <1>1
<1>3. Len([i \in 1..64 |-> m[i - 1]]) = 64
  OBVIOUS
<1>4. \A j \in 0..63 : [i \in 1..64 |-> m[i - 1]][j + 1] = m[j]
  OBVIOUS
<1> QED
  BY <1>2, <1>3, <1>4 DEF Block

\* Two sequences agree in their first n bytes, and m stands behind n bytes.
SameTo(n, s, t) == \A i \in 1..n : s[i] = t[i]
BlockAt(n, s, m) == \A k \in 0..63 : s[n + (k + 1)] = m[k]

\* r is s with the block m behind it.
Extends(r, s, m) ==
  /\ r \in Seq(Bytes) /\ Len(r) = Len(s) + 64
  /\ SameTo(Len(s), r, s) /\ BlockAt(Len(s), r, m)

\* What Process adds to what was fed
LEMMA AppendBlock ==
  ASSUME NEW s \in Seq(Bytes), NEW m \in Memory
  PROVE  Extends(s \o Block(m), s, m)
<1> DEFINE t == Block(m)
<1>1. t \in Seq(Bytes) /\ Len(t) = 64
  BY BlockBytes
<1>2. \A i \in 0..63 : t[i + 1] = m[i]
  BY BlockBytes
<1> HIDE DEF t
<1>j. BytesJoin(s \o t, s, t)
  BY <1>1, Behind, Zenon
<1>3. /\ s \o t \in Seq(Bytes)
      /\ Len(s \o t) = Len(s) + Len(t)
      /\ \A i \in 1..Len(s) : (s \o t)[i] = s[i]
      /\ \A i \in 1..Len(t) : (s \o t)[Len(s) + i] = t[i]
  BY <1>j, Zenon DEF BytesJoin
<1>4. Len(s \o t) = Len(s) + 64
  BY <1>1, <1>3, Zenon
<1>5. ASSUME NEW i \in 0..63
      PROVE  (s \o t)[Len(s) + (i + 1)] = m[i]
  <2>1. i + 1 \in 1..64
    OBVIOUS
  <2>2. i + 1 \in 1..Len(t)
    BY <1>1, <2>1, Zenon
  <2> QED
    BY <1>2, <1>3, <2>2, Zenon
<1> QED
  BY <1>3, <1>4, <1>5, Zenon DEF t, Extends, SameTo, BlockAt

\* The bytes of a length
LEMMA BigEndianBytes ==
  ASSUME NEW n \in Nat
  PROVE  BigEndian(n) \in Seq(Bytes) /\ Len(BigEndian(n)) = 4
<1>1. /\ (n \div 16777216) % 256 \in Bytes /\ (n \div 65536) % 256 \in Bytes
      /\ (n \div 256) % 256 \in Bytes /\ n % 256 \in Bytes
  BY DEF Bytes
<1> QED
  BY <1>1 DEF BigEndian

\* The number of zeros that fill up the block
Zeros(m) == (55 - Len(m)) % 64

\* What stands where in a padded message
LEMMA PaddedElements ==
  ASSUME NEW m \in Seq(Bytes)
  PROVE  LET n == Len(m)
             z == Zeros(m)
         IN  /\ Padded(m) \in Seq(Bytes)
             /\ Len(Padded(m)) = n + z + 9
             /\ \A i \in 1..n : Padded(m)[i] = m[i]
             /\ Padded(m)[n + 1] = 128
             /\ \A i \in (n + 2)..(n + z + 5) : Padded(m)[i] = 0
             /\ \A i \in 1..4 : Padded(m)[n + z + 5 + i] = BigEndian(8 * n)[i]
<1> DEFINE n == Len(m)
           z == Zeros(m)
           a == <<128>>
           b == [i \in 1..z |-> 0]
           c == <<0, 0, 0, 0>>
           d == BigEndian(8 * n)
<1>1. n \in Nat /\ z \in Nat
  BY DEF Zeros
<1>2. a \in Seq(Bytes) /\ Len(a) = 1 /\ a[1] = 128
  BY DEF Bytes
<1>3. b \in Seq(Bytes) /\ Len(b) = z /\ \A i \in 1..z : b[i] = 0
  <2>1. 0 \in Bytes
    BY DEF Bytes
  <2> HIDE DEF z
  <2> QED
    BY <1>1, <2>1
<1>4. c \in Seq(Bytes) /\ Len(c) = 4 /\ \A i \in 1..4 : c[i] = 0
  BY DEF Bytes
<1>5. d \in Seq(Bytes) /\ Len(d) = 4
  BY <1>1, BigEndianBytes
<1>6. Padded(m) = (((m \o a) \o b) \o c) \o d
  BY DEF Padded, Zeros
<1>7. Len(m) = n
  OBVIOUS
<1> HIDE DEF n, z, a, b, c, d
<1> DEFINE p == m \o a
           q == p \o b
           r == q \o c
           s == r \o d
<1>8. /\ p \in Seq(Bytes) /\ Len(p) = n + 1
      /\ \A i \in 1..n : p[i] = m[i]
      /\ p[n + 1] = 128
  <2>j. BytesJoin(p, m, a)
    BY <1>2, <1>7, Behind, Zenon
  <2>1. /\ p \in Seq(Bytes) /\ Len(p) = n + Len(a)
        /\ \A i \in 1..n : p[i] = m[i]
        /\ \A i \in 1..Len(a) : p[n + i] = a[i]
    BY <2>j, <1>7, Zenon DEF BytesJoin
  <2> HIDE DEF p
  <2> QED
    BY <1>1, <1>2, <2>1
<1> HIDE DEF p
<1>9. /\ q \in Seq(Bytes) /\ Len(q) = n + 1 + z
      /\ \A i \in 1..(n + 1) : q[i] = p[i]
      /\ \A i \in 1..z : q[n + 1 + i] = 0
  <2>j. BytesJoin(q, p, b)
    BY <1>3, <1>8, Behind, Zenon
  <2>1. /\ q \in Seq(Bytes) /\ Len(q) = n + 1 + Len(b)
        /\ \A i \in 1..(n + 1) : q[i] = p[i]
        /\ \A i \in 1..Len(b) : q[n + 1 + i] = b[i]
    BY <2>j, <1>8, ZenonT(60) DEF BytesJoin
  <2> HIDE DEF q
  <2> QED
    BY <1>1, <1>3, <2>1, Zenon
<1> HIDE DEF q
<1>10. /\ r \in Seq(Bytes) /\ Len(r) = n + 1 + z + 4
       /\ \A i \in 1..(n + 1 + z) : r[i] = q[i]
       /\ \A i \in 1..4 : r[n + 1 + z + i] = 0
  <2>j. BytesJoin(r, q, c)
    BY <1>4, <1>9, Behind, Zenon
  <2>1. /\ r \in Seq(Bytes) /\ Len(r) = n + 1 + z + Len(c)
        /\ \A i \in 1..(n + 1 + z) : r[i] = q[i]
        /\ \A i \in 1..Len(c) : r[n + 1 + z + i] = c[i]
    BY <2>j, <1>9, Zenon DEF BytesJoin
  <2> HIDE DEF r
  <2> QED
    BY <1>1, <1>4, <2>1, Zenon
<1> HIDE DEF r
<1>11. /\ s \in Seq(Bytes) /\ Len(s) = n + 1 + z + 4 + 4
       /\ \A i \in 1..(n + 1 + z + 4) : s[i] = r[i]
       /\ \A i \in 1..4 : s[n + 1 + z + 4 + i] = d[i]
  <2>j. BytesJoin(s, r, d)
    BY <1>5, <1>10, Behind, Zenon
  <2>1. /\ s \in Seq(Bytes) /\ Len(s) = n + 1 + z + 4 + Len(d)
        /\ \A i \in 1..(n + 1 + z + 4) : s[i] = r[i]
        /\ \A i \in 1..Len(d) : s[n + 1 + z + 4 + i] = d[i]
    BY <2>j, <1>10, Zenon DEF BytesJoin
  <2> HIDE DEF s
  <2> QED
    BY <1>1, <1>5, <2>1, Zenon
<1>12. Padded(m) = s
  BY <1>6 DEF p, q, r
<1> HIDE DEF s
<1>13. \A i \in 1..n : s[i] = m[i]
  BY <1>1, <1>8, <1>9, <1>10, <1>11
<1>14. s[n + 1] = 128
  BY <1>1, <1>8, <1>9, <1>10, <1>11
<1>15. ASSUME NEW i \in (n + 2)..(n + z + 5)
       PROVE  s[i] = 0
  <2>1. s[i] = r[i]
    BY <1>1, <1>11
  <2>2. CASE i <= n + 1 + z
    <3>1. r[i] = q[i]
      BY <1>1, <1>10, <2>2
    <3>2. PICK k \in 1..z : i = n + 1 + k
      BY <1>1, <2>2
    <3> QED
      BY <1>9, <2>1, <3>1, <3>2
  <2>3. CASE ~(i <= n + 1 + z)
    <3>1. PICK k \in 1..4 : i = n + 1 + z + k
      BY <1>1, <2>3
    <3> QED
      BY <1>10, <2>1, <3>1
  <2> QED
    BY <2>2, <2>3
<1>16. \A i \in 1..4 : s[n + z + 5 + i] = d[i]
  <2>1. n + 1 + z + 4 = n + z + 5
    BY <1>1
  <2> QED
    BY <1>11, <2>1
<1>17. Len(s) = n + z + 9
  BY <1>1, <1>11
<1> QED
  BY <1>11, <1>12, <1>13, <1>14, <1>15, <1>16, <1>17, Zenon DEF n, z, d

\* r is m with the mark at the cursor and zeros up to end.
IsMarked(r, m, end) ==
  /\ r \in Memory /\ r[cursor] = 128
  /\ \A i \in 0..63 : i < cursor => r[i] = m[i]
  /\ \A i \in 0..(end - 1) : i > cursor => r[i] = 0

\* What Pad writes into a block
LEMMA MarkedBytes ==
  ASSUME NEW m \in Memory, NEW end \in {60, 64}, cursor \in 0..63
  PROVE  IsMarked(Marked(m, end), m, end)
<1>1. \A i \in 0..63 : (IF i = cursor THEN 128
                        ELSE IF i > cursor /\ i < end THEN 0 ELSE m[i]) \in Bytes
  BY DEF Memory, Bytes
<1>2. Marked(m, end) \in [0..63 -> Bytes]
  BY <1>1 DEF Marked
<1>3. Marked(m, end)[cursor] = 128
  BY DEF Marked
<1>4. \A i \in 0..63 : i < cursor => Marked(m, end)[i] = m[i]
  BY DEF Marked
<1>5. \A i \in 0..(end - 1) : i > cursor => Marked(m, end)[i] = 0
  BY DEF Marked
<1> QED
  BY <1>2, <1>3, <1>4, <1>5, Zenon DEF Memory, IsMarked

\* A place behind n, counted from there
LEMMA PlaceBehind ==
  ASSUME NEW n \in Nat, NEW size \in Nat, NEW i \in 1..(n + size), ~(i <= n)
  PROVE  \E k \in 0..(size - 1) : i = n + (k + 1)
<1>1. i - n - 1 \in 0..(size - 1) /\ i = n + ((i - n - 1) + 1)
  OBVIOUS
<1> QED
  BY <1>1, Zenon

\* Two sequences that agree in front and in a block behind it
LEMMA SameBytes ==
  ASSUME NEW n \in Nat, NEW s, NEW t, NEW m,
         SameTo(n, s, t), BlockAt(n, s, m), BlockAt(n, t, m)
  PROVE  SameTo(n + 64, s, t)
<1> SUFFICES \A i \in 1..(n + 64) : s[i] = t[i]
  BY DEF SameTo
<1> TAKE i \in 1..(n + 64)
<1>1. CASE i <= n
  <2>1. i \in 1..n
    BY <1>1
  <2> QED
    BY <2>1, Zenon DEF SameTo
<1>2. CASE ~(i <= n)
  <2>1. PICK k \in 0..(64 - 1) : i = n + (k + 1)
    BY <1>2, PlaceBehind
  <2>2. k \in 0..63
    OBVIOUS
  <2> QED
    BY <2>1, <2>2, Zenon DEF BlockAt
<1> QED
  BY <1>1, <1>2

\* The length in its place
LEMMA WithLengthBytes ==
  ASSUME NEW m \in Memory, l \in Nat
  PROVE  /\ WithLength(m) \in Memory
         /\ \A i \in 0..59 : WithLength(m)[i] = m[i]
         /\ \A i \in 60..63 : WithLength(m)[i] = BigEndian(l)[i - 59]
<1> DEFINE d == BigEndian(l)
<1>1. d \in Seq(Bytes) /\ Len(d) = 4
  BY BigEndianBytes
<1> HIDE DEF d
<1>2. ASSUME NEW i \in 60..63
      PROVE  d[i - 59] \in Bytes
  <2>1. i - 59 \in 1..4
    OBVIOUS
  <2>2. i - 59 \in 1..Len(d)
    BY <1>1, <2>1, Zenon
  <2> QED
    BY <1>1, <2>2, ElementOfSeq, Zenon
<1>3. WithLength(m) = [i \in 0..63 |-> IF i < 60 THEN m[i] ELSE d[i - 59]]
  BY DEF WithLength, d
<1>4. \A i \in 0..63 : (IF i < 60 THEN m[i] ELSE d[i - 59]) \in Bytes
  BY <1>2 DEF Memory
<1>5. WithLength(m) \in [0..63 -> Bytes]
  BY <1>3, <1>4
<1>6. \A i \in 0..63 : WithLength(m)[i] = IF i < 60 THEN m[i] ELSE d[i - 59]
  BY <1>3, Zenon
<1>7. ASSUME NEW i \in 60..63
      PROVE  WithLength(m)[i] = d[i - 59]
  <2>1. i \in 0..63 /\ ~(i < 60)
    OBVIOUS
  <2> QED
    BY <1>6, <2>1, Zenon
<1>8. ASSUME NEW i \in 0..59
      PROVE  WithLength(m)[i] = m[i]
  <2>1. i \in 0..63 /\ i < 60
    OBVIOUS
  <2> QED
    BY <1>6, <2>1, Zenon
<1> QED
  BY <1>5, <1>7, <1>8, Zenon DEF Memory, d

\* Process leaves bytes in M.
LEMMA SwappedBytes ==
  ASSUME NEW m \in Memory
  PROVE  Swapped(m) \in Memory
<1>1. \A i \in 0..63 : i + 3 - 2 * (i % 4) \in 0..63
  OBVIOUS
<1> QED
  BY <1>1 DEF Swapped, Memory

-----------------------------------------------------------------------------
(***************************************************************************)
(* The invariant.  Until Final, the message is what was fed, whole blocks, *)
(* and what M holds below the cursor; l counts its bits while it can.      *)
(***************************************************************************)
Collecting ==
  /\ cursor \in 0..63 /\ l \in Nat
  /\ M \in Memory /\ message \in Seq(Bytes) /\ fed \in Seq(Bytes)
  /\ Len(message) = Len(fed) + cursor
  /\ Len(fed) % 64 = 0
  /\ \A i \in 1..Len(fed) : message[i] = fed[i]
  /\ \A i \in 0..63 : i < cursor => message[Len(fed) + (i + 1)] = M[i]
  /\ 8 * Len(message) < Wrap => l = 8 * Len(message)

ShaInv == (~finished => Collecting) /\ BlocksArePadded

\* Uninitialised stack memory holds bytes, whatever they are.
LEMMA UninitialisedBytes ==
  UninitM \subseteq Memory
<1>1. UninitM \subseteq [0..63 -> 0..255]
  BY ShaAssumption, Zenon
<1> QED
  BY <1>1, Zenon DEF Memory, Bytes

LEMMA CollectingAtFirst ==
  ASSUME ShaInit
  PROVE  ShaInv
<1>1. M \in Memory
  BY UninitialisedBytes, Zenon DEF ShaInit
<1>2. Collecting
  BY <1>1 DEF ShaInit, Collecting
<1> QED
  BY <1>2 DEF ShaInit, ShaInv, BlocksArePadded

\* A byte goes into M and the message at the same place, and a block leaves M
\* whole.
LEMMA UpdateCollects ==
  ASSUME Collecting, NEW b \in Bytes, UpdateByte(b)
  PROVE  Collecting'
<1> DEFINE m == [M EXCEPT ![cursor] = b]
           n == Len(fed)
<1>1. /\ cursor \in 0..63 /\ l \in Nat /\ n \in Nat
      /\ M \in Memory /\ message \in Seq(Bytes) /\ fed \in Seq(Bytes)
      /\ Len(message) = n + cursor
  BY DEF Collecting
<1>2. m \in Memory /\ m[cursor] = b /\ \A i \in 0..63 : i # cursor => m[i] = M[i]
  BY <1>1 DEF Memory
<1>3. /\ message' \in Seq(Bytes) /\ Len(message') = n + cursor + 1
      /\ \A i \in 1..(n + cursor) : message'[i] = message[i]
      /\ message'[n + cursor + 1] = b
  BY <1>1 DEF UpdateByte
<1>4. \A i \in 0..63 : i <= cursor => message'[n + (i + 1)] = m[i]
  <2>1. ASSUME NEW i \in 0..63, i <= cursor
        PROVE  message'[n + (i + 1)] = m[i]
    <3>1. CASE i = cursor
      BY <1>1, <1>2, <1>3, <3>1
    <3>2. CASE i < cursor
      <4>1. message[n + (i + 1)] = M[i]
        BY <3>2 DEF Collecting
      <4>2. n + (i + 1) \in 1..(n + cursor) /\ i # cursor
        BY <1>1, <3>2
      <4> HIDE DEF m
      <4> QED
        BY <1>2, <1>3, <4>1, <4>2, Zenon
    <3> QED
      BY <1>1, <2>1, <3>1, <3>2
  <2> QED
    BY <2>1
<1>5. \A i \in 1..n : message'[i] = fed[i]
  <2>1. \A i \in 1..n : message[i] = fed[i]
    BY DEF Collecting
  <2>2. \A i \in 1..n : i \in 1..(n + cursor)
    BY <1>1
  <2> QED
    BY <1>3, <2>1, <2>2, Zenon
<1>6. l' \in Nat /\ (8 * Len(message') < Wrap => l' = 8 * Len(message'))
  <2>1. 8 * Len(message) < Wrap => l = 8 * Len(message)
    BY DEF Collecting
  <2>2. l' = IF l + 8 < Wrap THEN l + 8 ELSE l + 8 - Wrap
    BY DEF UpdateByte
  <2>3. PICK k \in Nat : k = n + cursor
    BY <1>1
  <2>4. Len(message) = k /\ Len(message') = k + 1
    BY <1>1, <1>3, <2>3, Zenon
  <2>5. Wrap \in Nat
    BY ShaAssumption, Zenon
  <2> QED
    BY <1>1, <2>1, <2>2, <2>4, <2>5, SMTT(20)
<1>7. CASE cursor < 63
  <2>1. M' = m /\ cursor' = cursor + 1 /\ fed' = fed
    BY <1>1, <1>7 DEF UpdateByte, BlockFull
  <2>2. Len(fed') % 64 = 0
    BY <2>1 DEF Collecting
  <2>3. ASSUME NEW i \in 0..63, i < cursor'
        PROVE  message'[Len(fed') + (i + 1)] = M'[i]
    <3>1. i <= cursor
      BY <1>1, <2>1, <2>3
    <3>2. message'[n + (i + 1)] = m[i]
      BY <1>4, <3>1, Zenon
    <3> QED
      BY <2>1, <3>2, Zenon
  <2> HIDE DEF m
  <2> QED
    BY <1>1, <1>2, <1>3, <1>5, <1>6, <1>7, <2>1, <2>2, <2>3 DEF Collecting
<1>8. CASE cursor = 63
  <2>0. BlockFull(cursor + 1)
    BY <1>8 DEF BlockFull
  <2>1. M' = Swapped(m) /\ cursor' = 0 /\ fed' = fed \o Block(m)
    BY <2>0, Zenon DEF UpdateByte
  <2> HIDE DEF m
  <2>2. M' \in Memory
    BY <1>2, <2>1, SwappedBytes
  <2>3. /\ fed' \in Seq(Bytes) /\ Len(fed') = n + 64
        /\ \A i \in 1..n : fed'[i] = fed[i]
        /\ \A i \in 0..63 : fed'[n + (i + 1)] = m[i]
    BY <1>1, <1>2, <2>1, AppendBlock, Zenon DEF Extends, SameTo, BlockAt
  <2>4. Len(fed') % 64 = 0
    BY <1>1, <2>3 DEF Collecting
  <2>5. \A i \in 1..n : message'[i] = fed'[i]
    BY <1>5, <2>3, Zenon
  <2>6. ASSUME NEW i \in 0..63
        PROVE  message'[n + (i + 1)] = m[i]
    <3>1. i <= cursor
      BY <1>8
    <3> QED
      BY <1>4, <3>1, Zenon
  <2>7. SameTo(n + 64, message', fed')
    <3>1. SameTo(n, message', fed') /\ BlockAt(n, message', m) /\ BlockAt(n, fed', m)
      BY <2>3, <2>5, <2>6, Zenon DEF SameTo, BlockAt
    <3> QED
      BY <1>1, <3>1, SameBytes, Zenon
  <2>8. Len(message') = Len(fed') + cursor' /\ cursor' \in 0..63
    BY <1>1, <1>3, <1>8, <2>1, <2>3
  <2>9. \A i \in 1..Len(fed') : message'[i] = fed'[i]
    BY <2>3, <2>7, Zenon DEF SameTo
  <2>10. \A i \in 0..63 : i < cursor' => message'[Len(fed') + (i + 1)] = M'[i]
    <3>1. \A i \in 0..63 : ~(i < 0)
      OBVIOUS
    <3> QED
      BY <2>1, <3>1, Zenon
  <2> QED
    BY <1>3, <1>6, <2>2, <2>3, <2>4, <2>8, <2>9, <2>10, Zenon DEF Collecting
<1> QED
  BY <1>1, <1>7, <1>8

\* How many zeros there are, by where the message stops in its last block
LEMMA ZerosBehind ==
  ASSUME NEW n \in Nat, n % 64 = 0, NEW c \in 0..63, NEW m, Len(m) = n + c
  PROVE  Zeros(m) = IF c < 56 THEN 55 - c ELSE 119 - c
BY DEF Zeros

\* A padded message, by its places from position n on, where its last block
\* begins: c bytes of the message are in it, and the text ends at e.
PaddedFrom(n, c, e, m) ==
  /\ Padded(m) \in Seq(Bytes) /\ Len(Padded(m)) = n + e
  /\ SameTo(n, Padded(m), m)
  /\ \A k \in 0..63 : k < c => Padded(m)[n + (k + 1)] = m[n + (k + 1)]
  /\ Padded(m)[n + (c + 1)] = 128
  /\ \A k \in 0..(e - 5) : k > c => Padded(m)[n + (k + 1)] = 0
  /\ \A k \in (e - 4)..(e - 1) : Padded(m)[n + (k + 1)] = BigEndian(8 * (n + c))[k - (e - 5)]

LEMMA PaddedPlaces ==
  ASSUME NEW n \in Nat, n % 64 = 0, NEW c \in 0..63, NEW m \in Seq(Bytes), Len(m) = n + c,
         NEW e \in {64, 128}, e = IF c < 56 THEN 64 ELSE 128
  PROVE  PaddedFrom(n, c, e, m)
<1> DEFINE p == Padded(m)
           z == Zeros(m)
<1>1. z = IF c < 56 THEN 55 - c ELSE 119 - c
  BY ZerosBehind
<1>2. z \in Nat /\ c + z = e - 9 /\ z + 9 \in Nat
  BY <1>1
<1>3. /\ p \in Seq(Bytes)
      /\ Len(p) = Len(m) + z + 9
      /\ \A i \in 1..Len(m) : p[i] = m[i]
      /\ p[Len(m) + 1] = 128
      /\ \A i \in (Len(m) + 2)..(Len(m) + z + 5) : p[i] = 0
      /\ \A i \in 1..4 : p[Len(m) + z + 5 + i] = BigEndian(8 * Len(m))[i]
  BY PaddedElements, ZenonT(60)
<1> HIDE DEF p, z
<1>4. Len(p) = n + e
  BY <1>2, <1>3
<1>5. ASSUME NEW i \in 1..n
      PROVE  p[i] = m[i]
  <2>1. i \in 1..Len(m)
    OBVIOUS
  <2> QED
    BY <1>3, <2>1, Zenon
<1>6. ASSUME NEW k \in 0..63, k < c
      PROVE  p[n + (k + 1)] = m[n + (k + 1)]
  <2>1. n + (k + 1) \in 1..Len(m)
    BY <1>6
  <2> QED
    BY <1>3, <2>1, Zenon
<1>7. p[n + (c + 1)] = 128
  <2>1. n + (c + 1) = Len(m) + 1
    OBVIOUS
  <2> QED
    BY <1>3, <2>1, Zenon
<1>8. ASSUME NEW k \in 0..(e - 5), k > c
      PROVE  p[n + (k + 1)] = 0
  <2>1. n + (k + 1) \in (Len(m) + 2)..(Len(m) + z + 5)
    BY <1>2, <1>8
  <2> QED
    BY <1>3, <2>1, Zenon
<1>9. ASSUME NEW k \in (e - 4)..(e - 1)
      PROVE  p[n + (k + 1)] = BigEndian(8 * (n + c))[k - (e - 5)]
  <2> DEFINE i == k - (e - 5)
  <2>1. i \in 1..4 /\ Len(m) + z + 5 + i = n + (k + 1) /\ 8 * Len(m) = 8 * (n + c)
    BY <1>2
  <2> HIDE DEF i
  <2>2. p[Len(m) + z + 5 + i] = BigEndian(8 * Len(m))[i]
    BY <1>3, <2>1, Zenon
  <2>3. p[n + (k + 1)] = BigEndian(8 * (n + c))[i]
    BY <2>1, <2>2, Zenon
  <2> QED
    BY <2>3, Zenon DEF i
<1> QED
  BY <1>3, <1>4, <1>5, <1>6, <1>7, <1>8, <1>9, Zenon DEF PaddedFrom, SameTo, p

\* With the length in the block of the mark, what was fed is the padded message.
LEMMA OneBlockPads ==
  ASSUME Collecting, FinalInOneBlock, 8 * Len(message) < Wrap
  PROVE  fed' = Padded(message)
<1> DEFINE n == Len(fed)
           k1 == Marked(M, 60)
           m == WithLength(k1)
           p == Padded(message)
<1>1. /\ cursor \in 0..63 /\ l \in Nat /\ n \in Nat /\ n % 64 = 0
      /\ M \in Memory /\ message \in Seq(Bytes) /\ fed \in Seq(Bytes)
      /\ Len(message) = n + cursor /\ l = 8 * (n + cursor)
      /\ SameTo(n, message, fed)
  <2>1. /\ cursor \in 0..63 /\ l \in Nat /\ n % 64 = 0
        /\ M \in Memory /\ message \in Seq(Bytes) /\ fed \in Seq(Bytes)
        /\ Len(message) = n + cursor /\ l = 8 * Len(message)
    BY Zenon DEF Collecting
  <2>2. SameTo(n, message, fed)
    BY Zenon DEF Collecting, SameTo
  <2>3. n \in Nat
    BY <2>1, LenProperties, Zenon
  <2>4. l = 8 * (n + cursor)
    BY <2>1, Zenon
  <2> QED
    BY <2>1, <2>2, <2>3, <2>4, Zenon
<1>2. \A i \in 0..63 : i < cursor => message[n + (i + 1)] = M[i]
  BY Zenon DEF Collecting
<1>3. cursor < 56 /\ fed' = fed \o Block(m)
  BY DEF FinalInOneBlock
<1>4. /\ k1 \in Memory
      /\ k1[cursor] = 128
      /\ \A i \in 0..63 : i < cursor => k1[i] = M[i]
      /\ \A i \in 0..59 : i > cursor => k1[i] = 0
  <2>1. 60 \in {60, 64} /\ 60 - 1 = 59
    OBVIOUS
  <2>2. IsMarked(k1, M, 60)
    BY <1>1, <2>1, MarkedBytes, Zenon
  <2> QED
    BY <2>1, <2>2, Zenon DEF IsMarked
<1> HIDE DEF k1
<1>5. /\ m \in Memory
      /\ \A i \in 0..59 : m[i] = k1[i]
      /\ \A i \in 60..63 : m[i] = BigEndian(l)[i - 59]
  BY <1>1, <1>4, WithLengthBytes, ZenonT(60)
<1> HIDE DEF m
<1>6. PaddedFrom(n, cursor, 64, message)
  BY <1>1, <1>3, PaddedPlaces
<1>7. /\ p \in Seq(Bytes) /\ Len(p) = n + 64
      /\ SameTo(n, p, message)
      /\ \A k \in 0..63 : k < cursor => p[n + (k + 1)] = message[n + (k + 1)]
      /\ p[n + (cursor + 1)] = 128
      /\ \A k \in 0..59 : k > cursor => p[n + (k + 1)] = 0
      /\ \A k \in 60..63 : p[n + (k + 1)] = BigEndian(8 * (n + cursor))[k - 59]
  BY <1>6 DEF PaddedFrom
<1> HIDE DEF p
<1>8. ASSUME NEW k \in 0..63
      PROVE  p[n + (k + 1)] = m[k]
  <2>1. CASE k < cursor
    <3>1. k \in 0..59
      BY <1>1, <1>3, <2>1
    <3>2. p[n + (k + 1)] = message[n + (k + 1)]
      BY <1>7, <2>1, Zenon
    <3>3. message[n + (k + 1)] = M[k]
      BY <1>2, <2>1, Zenon
    <3>4. m[k] = M[k]
      BY <1>4, <1>5, <2>1, <3>1, ZenonT(60)
    <3> QED
      BY <3>2, <3>3, <3>4, Zenon
  <2>2. CASE k = cursor
    <3>1. k \in 0..59
      BY <1>3, <2>2
    <3> QED
      BY <1>4, <1>5, <1>7, <2>2, <3>1, Zenon
  <2>3. CASE k > cursor /\ k < 60
    <3>1. k \in 0..59
      BY <1>1, <2>3
    <3> QED
      BY <1>4, <1>5, <1>7, <2>3, <3>1, ZenonT(60)
  <2>4. CASE k >= 60
    <3>1. k \in 60..63
      BY <2>4
    <3> QED
      BY <1>1, <1>5, <1>7, <3>1, ZenonT(60)
  <2>5. k < cursor \/ k = cursor \/ (k > cursor /\ k < 60) \/ k >= 60
    BY <1>1
  <2> QED
    BY <2>1, <2>2, <2>3, <2>4, <2>5, Zenon
<1>9. /\ fed' \in Seq(Bytes) /\ Len(fed') = n + 64
      /\ SameTo(n, fed', fed) /\ BlockAt(n, fed', m)
  BY <1>1, <1>3, <1>5, AppendBlock, Zenon DEF Extends
<1>10. SameTo(n, p, fed') /\ BlockAt(n, p, m)
  BY <1>1, <1>7, <1>8, <1>9, ZenonT(60) DEF SameTo, BlockAt
<1>11. SameTo(n + 64, p, fed')
  BY <1>1, <1>9, <1>10, SameBytes, Zenon
<1>12. p = fed'
  BY <1>7, <1>9, <1>11, SeqEqual, Zenon DEF SameTo
<1> QED
  BY <1>12 DEF p

\* With a block for the length alone, what was fed is the padded message too.
LEMMA TwoBlocksPad ==
  ASSUME Collecting, FinalInTwoBlocks, 8 * Len(message) < Wrap
  PROVE  fed' = Padded(message)
<1> DEFINE n == Len(fed)
           m1 == Marked(M, 64)
           zeros == [i \in 0..63 |-> IF i < 60 THEN 0 ELSE Swapped(m1)[i]]
           m2 == WithLength(zeros)
           f1 == fed \o Block(m1)
           p == Padded(message)
<1>1. /\ cursor \in 0..63 /\ l \in Nat /\ n \in Nat /\ n % 64 = 0
      /\ M \in Memory /\ message \in Seq(Bytes) /\ fed \in Seq(Bytes)
      /\ Len(message) = n + cursor /\ l = 8 * (n + cursor)
      /\ SameTo(n, message, fed)
  <2>1. /\ cursor \in 0..63 /\ l \in Nat /\ n % 64 = 0
        /\ M \in Memory /\ message \in Seq(Bytes) /\ fed \in Seq(Bytes)
        /\ Len(message) = n + cursor /\ l = 8 * Len(message)
    BY Zenon DEF Collecting
  <2>2. SameTo(n, message, fed)
    BY Zenon DEF Collecting, SameTo
  <2>3. n \in Nat
    BY <2>1, LenProperties, Zenon
  <2>4. l = 8 * (n + cursor)
    BY <2>1, Zenon
  <2> QED
    BY <2>1, <2>2, <2>3, <2>4, Zenon
<1>2. \A i \in 0..63 : i < cursor => message[n + (i + 1)] = M[i]
  BY Zenon DEF Collecting
<1>3. ~(cursor < 56) /\ fed' = f1 \o Block(m2)
  BY <1>1 DEF FinalInTwoBlocks
<1>4. /\ m1 \in Memory /\ m1[cursor] = 128
      /\ \A i \in 0..63 : i < cursor => m1[i] = M[i]
      /\ \A i \in 0..63 : i > cursor => m1[i] = 0
  <2>1. 64 \in {60, 64} /\ 64 - 1 = 63
    OBVIOUS
  <2>2. IsMarked(m1, M, 64)
    BY <1>1, <2>1, MarkedBytes, Zenon
  <2> QED
    BY <2>1, <2>2, Zenon DEF IsMarked
<1> HIDE DEF m1
<1>5. zeros \in Memory /\ \A i \in 0..59 : zeros[i] = 0
  <2> DEFINE s == Swapped(m1)
  <2>1. s \in Memory
    BY <1>4, SwappedBytes
  <2> HIDE DEF s
  <2>2. \A i \in 0..63 : (IF i < 60 THEN 0 ELSE s[i]) \in Bytes
    <3>1. 0 \in Bytes
      BY DEF Bytes
    <3> QED
      BY <2>1, <3>1 DEF Memory
  <2>3. zeros \in [0..63 -> Bytes]
    BY <2>2 DEF s
  <2> QED
    BY <2>3 DEF Memory
<1> HIDE DEF zeros
<1>6. /\ m2 \in Memory
      /\ \A i \in 0..59 : m2[i] = 0
      /\ \A i \in 60..63 : m2[i] = BigEndian(l)[i - 59]
  BY <1>1, <1>5, WithLengthBytes, ZenonT(60)
<1> HIDE DEF m2
<1>7. PaddedFrom(n, cursor, 128, message)
  BY <1>1, <1>3, PaddedPlaces
<1>8. /\ p \in Seq(Bytes) /\ Len(p) = n + 128
      /\ SameTo(n, p, message)
      /\ \A k \in 0..63 : k < cursor => p[n + (k + 1)] = message[n + (k + 1)]
      /\ p[n + (cursor + 1)] = 128
      /\ \A k \in 0..123 : k > cursor => p[n + (k + 1)] = 0
      /\ \A k \in 124..127 : p[n + (k + 1)] = BigEndian(8 * (n + cursor))[k - 123]
  BY <1>7 DEF PaddedFrom
<1> HIDE DEF p
<1>9. ASSUME NEW k \in 0..63
      PROVE  p[n + (k + 1)] = m1[k]
  <2>1. CASE k < cursor
    <3>1. p[n + (k + 1)] = message[n + (k + 1)]
      BY <1>8, <2>1, Zenon
    <3>2. message[n + (k + 1)] = M[k]
      BY <1>2, <2>1, Zenon
    <3>3. m1[k] = M[k]
      BY <1>4, <2>1, Zenon
    <3> QED
      BY <3>1, <3>2, <3>3, Zenon
  <2>2. CASE k = cursor
    BY <1>4, <1>8, <2>2, Zenon
  <2>3. CASE k > cursor
    <3>1. k \in 0..123
      OBVIOUS
    <3> QED
      BY <1>4, <1>8, <2>3, <3>1, ZenonT(60)
  <2>4. k < cursor \/ k = cursor \/ k > cursor
    BY <1>1
  <2> QED
    BY <2>1, <2>2, <2>3, <2>4, Zenon
<1>10. ASSUME NEW k \in 0..63
       PROVE  p[(n + 64) + (k + 1)] = m2[k]
  <2> DEFINE j == k + 64
  <2>1. n + (j + 1) = (n + 64) + (k + 1) /\ j > cursor /\ j \in 64..127
    BY <1>1
  <2>2. CASE k < 60
    <3>1. k \in 0..59 /\ j \in 0..123
      BY <2>2
    <3> HIDE DEF j
    <3>2. p[n + (j + 1)] = 0 /\ m2[k] = 0
      BY <1>6, <1>8, <2>1, <3>1, Zenon
    <3> QED
      BY <2>1, <3>2, Zenon
  <2>3. CASE ~(k < 60)
    <3>1. k \in 60..63 /\ j \in 124..127 /\ j - 123 = k - 59
      BY <2>3
    <3> HIDE DEF j
    <3>2. p[n + (j + 1)] = BigEndian(8 * (n + cursor))[j - 123]
      BY <1>8, <3>1, Zenon
    <3>3. m2[k] = BigEndian(8 * (n + cursor))[k - 59]
      BY <1>1, <1>6, <3>1, Zenon
    <3> QED
      BY <2>1, <3>1, <3>2, <3>3, Zenon
  <2> QED
    BY <2>2, <2>3
<1>11. /\ f1 \in Seq(Bytes) /\ Len(f1) = n + 64
       /\ SameTo(n, f1, fed) /\ BlockAt(n, f1, m1)
  BY <1>1, <1>4, AppendBlock, Zenon DEF Extends
<1> HIDE DEF f1
<1>12. /\ fed' \in Seq(Bytes) /\ Len(fed') = (n + 64) + 64
       /\ SameTo(n + 64, fed', f1) /\ BlockAt(n + 64, fed', m2)
  BY <1>3, <1>6, <1>11, AppendBlock, ZenonT(60) DEF Extends
<1>13. SameTo(n + 64, p, f1)
  <2>1. SameTo(n, p, f1) /\ BlockAt(n, p, m1)
    BY <1>1, <1>8, <1>9, <1>11, ZenonT(60) DEF SameTo, BlockAt
  <2> QED
    BY <1>1, <1>11, <2>1, SameBytes, Zenon
<1>14. SameTo((n + 64) + 64, p, fed')
  <2>1. SameTo(n + 64, p, fed') /\ BlockAt(n + 64, p, m2)
    BY <1>10, <1>12, <1>13, Zenon DEF SameTo, BlockAt
  <2>2. n + 64 \in Nat
    BY <1>1
  <2> QED
    BY <1>12, <2>1, <2>2, SameBytes, Zenon
<1>15. (n + 64) + 64 = n + 128
  BY <1>1
<1>16. p = fed'
  BY <1>8, <1>12, <1>14, <1>15, SeqEqual, Zenon DEF SameTo
<1> QED
  BY <1>16 DEF p

-----------------------------------------------------------------------------
\* The invariant holds.
THEOREM CollectsOrPads == ShaSpec => []ShaInv
<1>1. ShaInit => ShaInv
  BY CollectingAtFirst
<1>2. ShaInv /\ [ShaNext]_shaVars => ShaInv'
  <2> SUFFICES ASSUME ShaInv, [ShaNext]_shaVars
               PROVE  ShaInv'
    OBVIOUS
  <2>1. ASSUME NEW b \in 0..255, UpdateByte(b)
        PROVE  ShaInv'
    <3>1. ~finished /\ ~finished'
      BY <2>1 DEF UpdateByte
    <3>2. Collecting
      BY <3>1 DEF ShaInv
    <3>3. Collecting'
      BY <2>1, <3>2, UpdateCollects DEF Bytes
    <3> QED
      BY <3>1, <3>3, Zenon DEF ShaInv, BlocksArePadded
  <2>2. CASE Final
    <3>1. ~finished /\ finished' /\ message' = message
      BY <2>2 DEF Final, FinalInOneBlock, FinalInTwoBlocks, Finish
    <3>2. Collecting
      BY <3>1 DEF ShaInv
    <3>3. 8 * Len(message) < Wrap => fed' = Padded(message)
      BY <2>2, <3>2, OneBlockPads, TwoBlocksPad DEF Final
    <3>4. BlocksArePadded'
      BY <3>1, <3>3, Zenon DEF BlocksArePadded
    <3> QED
      BY <3>1, <3>4, Zenon DEF ShaInv
  <2>3. CASE UNCHANGED shaVars
    <3>1. Collecting => Collecting'
      BY <2>3 DEF shaVars, Collecting
    <3>2. BlocksArePadded => BlocksArePadded'
      BY <2>3, Zenon DEF shaVars, BlocksArePadded
    <3>3. finished' = finished
      BY <2>3 DEF shaVars
    <3> QED
      BY <3>1, <3>2, <3>3, Zenon DEF ShaInv
  <2> QED
    BY <2>1, <2>2, <2>3 DEF ShaNext
<1> QED
  BY <1>1, <1>2, PTL DEF ShaSpec

(***************************************************************************)
(* Whatever M held in the new object and wherever the message stops in a   *)
(* block: the blocks that Process was given are the message padded as FIPS *)
(* 180-3 pads it, for any message shorter than l can count (2^29 bytes).   *)
(***************************************************************************)
THEOREM PaddedByTheStandard == ShaSpec => []BlocksArePadded
<1>1. ShaInv => BlocksArePadded
  BY DEF ShaInv
<1> QED
  BY <1>1, CollectsOrPads, PTL

(***************************************************************************)
(* Base64                                                                  *)
(***************************************************************************)

\* The alphabet of the standard is the code's, and pr2six goes back.
LEMMA SameAlphabet ==
  ASSUME NEW n \in 0..63
  PROVE  /\ Basis64(n) \in Bytes /\ Alphabet[n + 1] = Basis64(n)
         /\ Pr2Six(Basis64(n)) = n
<1> DEFINE upper == [i \in 1..26 |-> 64 + i]
           lower == [i \in 1..26 |-> 96 + i]
           digits == [i \in 1..10 |-> 47 + i]
<1>1. upper \in Seq(Nat) /\ lower \in Seq(Nat) /\ digits \in Seq(Nat) /\ <<43, 47>> \in Seq(Nat)
  OBVIOUS
<1>2. Len(upper) = 26 /\ Len(lower) = 26 /\ Len(digits) = 10 /\ Len(<<43, 47>>) = 2
  OBVIOUS
<1>3. /\ \A i \in 1..26 : upper[i] = 64 + i /\ lower[i] = 96 + i
      /\ \A i \in 1..10 : digits[i] = 47 + i
      /\ <<43, 47>>[1] = 43 /\ <<43, 47>>[2] = 47
  OBVIOUS
<1> HIDE DEF upper, lower, digits
<1> DEFINE letters == upper \o lower
           others == letters \o digits
<1>4. Alphabet = others \o <<43, 47>>
  BY DEF Alphabet, upper, lower, digits
<1>5. letters \in Seq(Nat) /\ Joins(letters, upper, lower)
  BY <1>1, ConcatJoins, Zenon
<1>6. others \in Seq(Nat) /\ Joins(others, letters, digits)
  BY <1>1, <1>5, ConcatJoins, Zenon
<1>7. Joins(Alphabet, others, <<43, 47>>)
  BY <1>1, <1>4, <1>6, ConcatJoins, Zenon
<1> HIDE DEF letters, others
<1>12. /\ Len(letters) = 52
       /\ \A i \in 1..26 : letters[i] = 64 + i /\ letters[26 + i] = 96 + i
  BY <1>2, <1>3, <1>5 DEF Joins
<1>13. /\ Len(others) = 62
       /\ \A i \in 1..52 : others[i] = letters[i]
       /\ \A i \in 1..10 : others[52 + i] = 47 + i
  BY <1>2, <1>3, <1>6, <1>12 DEF Joins
<1>14. /\ \A i \in 1..62 : Alphabet[i] = others[i]
       /\ Alphabet[62 + 1] = 43 /\ Alphabet[62 + 2] = 47
  BY <1>2, <1>3, <1>7, <1>13 DEF Joins
<1>8. Basis64(n) = IF n < 26 THEN 65 + n ELSE IF n < 52 THEN 71 + n
                   ELSE IF n < 62 THEN n - 4 ELSE IF n = 62 THEN 43 ELSE 47
  BY DEF Basis64
<1>9. Alphabet[n + 1] = Basis64(n)
  <2>1. CASE n < 26
    <3>1. n + 1 \in 1..26 /\ n + 1 \in 1..52 /\ n + 1 \in 1..62
      BY <2>1
    <3>2. Alphabet[n + 1] = letters[n + 1]
      BY <1>13, <1>14, <3>1
    <3>3. letters[n + 1] = 64 + (n + 1)
      BY <1>12, <3>1
    <3> QED
      BY <1>8, <2>1, <3>2, <3>3
  <2>2. CASE n \in 26..51
    <3>1. n - 25 \in 1..26 /\ 26 + (n - 25) = n + 1 /\ n + 1 \in 1..52 /\ n + 1 \in 1..62
      BY <2>2
    <3>2. Alphabet[n + 1] = letters[n + 1]
      BY <1>13, <1>14, <3>1
    <3>3. letters[n + 1] = 96 + (n - 25)
      BY <1>12, <3>1
    <3> QED
      BY <1>8, <2>2, <3>2, <3>3
  <2>3. CASE n \in 52..61
    <3>1. n - 51 \in 1..10 /\ 52 + (n - 51) = n + 1 /\ n + 1 \in 1..62
      BY <2>3
    <3>2. Alphabet[n + 1] = others[n + 1]
      BY <1>14, <3>1
    <3>3. others[n + 1] = 47 + (n - 51)
      BY <1>13, <3>1
    <3> QED
      BY <1>8, <2>3, <3>2, <3>3
  <2>4. CASE n \in 62..63
    BY <1>8, <1>14, <2>4
  <2> QED
    BY <2>1, <2>2, <2>3, <2>4
<1>10. Basis64(n) \in Bytes
  BY <1>8 DEF Bytes
<1>11. Pr2Six(Basis64(n)) = n
  BY <1>8 DEF Pr2Six
<1> QED
  BY <1>9, <1>10, <1>11

\* Byte i of a text, and zeros behind its end
Filled(s, i) == IF i <= Len(s) THEN s[i] ELSE 0

LEMMA FilledIsByte ==
  ASSUME NEW s \in Seq(Bytes), NEW i \in Nat \ {0}
  PROVE  Filled(s, i) \in Bytes
<1>1. 0 \in Bytes
  BY DEF Bytes
<1>2. i <= Len(s) => s[i] \in Bytes
  OBVIOUS
<1> QED
  BY <1>1, <1>2 DEF Filled

\* The four characters for bytes 3k-2 to 3k
FourOf(c, s, k) ==
  /\ c[4 * k - 3] = Basis64(Filled(s, 3 * k - 2) \div 4)
  /\ c[4 * k - 2] = Basis64((Filled(s, 3 * k - 2) % 4) * 16 + Filled(s, 3 * k - 1) \div 16)
  /\ c[4 * k - 1] = IF 3 * k - 1 <= Len(s)
                    THEN Basis64((Filled(s, 3 * k - 1) % 16) * 4 + Filled(s, 3 * k) \div 64)
                    ELSE Pad
  /\ c[4 * k] = IF 3 * k <= Len(s) THEN Basis64(Filled(s, 3 * k) % 64) ELSE Pad

\* How many groups of three there are, the last of them perhaps short
Threes(s) == (Len(s) + 2) \div 3

LEMMA ThreesAre ==
  ASSUME NEW s \in Seq(Bytes)
  PROVE  Threes(s) \in Nat /\ \A k \in 1..Threes(s) : 3 * k - 2 <= Len(s)
<1>1. Len(s) \in Nat
  OBVIOUS
<1> QED
  BY <1>1 DEF Threes

\* Three bytes, or what is left
LEMMA GroupOfThree ==
  ASSUME NEW s \in Seq(Bytes), NEW k \in 1..Threes(s)
  PROVE  LET g == Group(s, 3, k)
         IN  /\ g \in Seq(Bytes)
             /\ Len(g) = IF 3 * k <= Len(s) THEN 3 ELSE IF 3 * k - 1 <= Len(s) THEN 2 ELSE 1
             /\ \A m \in 1..Len(g) : g[m] = s[3 * k - 3 + m]
<1> DEFINE to == IF 3 * k < Len(s) THEN 3 * k ELSE Len(s)
<1>1. k \in Nat \ {0} /\ Len(s) \in Nat /\ 3 * k - 2 <= Len(s)
  BY ThreesAre
<1>2. to \in Nat /\ to <= Len(s) /\ 3 * k - 2 <= to
  BY <1>1
<1>3. to - (3 * k - 2) + 1 = IF 3 * k <= Len(s) THEN 3 ELSE IF 3 * k - 1 <= Len(s) THEN 2 ELSE 1
  BY <1>1
<1>4. Group(s, 3, k) = SubSeq(s, 3 * k - 2, to)
  BY <1>1 DEF Group
<1> HIDE DEF to
<1>5. 3 * k - 2 \in 1..Len(s) /\ to \in 1..Len(s)
  BY <1>1, <1>2
<1>6. /\ SubSeq(s, 3 * k - 2, to) \in Seq(Bytes)
      /\ Len(SubSeq(s, 3 * k - 2, to)) = to - (3 * k - 2) + 1
      /\ \A m \in 1..(to - (3 * k - 2) + 1) : SubSeq(s, 3 * k - 2, to)[m] = s[(3 * k - 2) + m - 1]
  BY <1>1, <1>2, <1>5
<1>7. \A m \in 1..(to - (3 * k - 2) + 1) : (3 * k - 2) + m - 1 = 3 * k - 3 + m
  BY <1>1, <1>2
<1> DEFINE g == Group(s, 3, k)
<1>8. g \in Seq(Bytes) /\ Len(g) = to - (3 * k - 2) + 1
  BY <1>4, <1>6, Zenon
<1>9. \A m \in 1..Len(g) : g[m] = s[3 * k - 3 + m]
  BY <1>4, <1>6, <1>7, <1>8, Zenon
<1> QED
  BY <1>3, <1>8, <1>9, Zenon

\* A byte's bits, and what six of them are together with those of the next
LEMMA BitsOfByte ==
  ASSUME NEW b \in Bytes
  PROVE  /\ b \div 4 = 32 * ((b \div 128) % 2) + 16 * ((b \div 64) % 2) + 8 * ((b \div 32) % 2)
                         + 4 * ((b \div 16) % 2) + 2 * ((b \div 8) % 2) + ((b \div 4) % 2)
         /\ (b % 4) * 16 = 32 * ((b \div 2) % 2) + 16 * ((b \div 1) % 2)
         /\ b \div 16 = 8 * ((b \div 128) % 2) + 4 * ((b \div 64) % 2) + 2 * ((b \div 32) % 2)
                          + ((b \div 16) % 2)
         /\ (b % 16) * 4 = 32 * ((b \div 8) % 2) + 16 * ((b \div 4) % 2) + 8 * ((b \div 2) % 2)
                             + 4 * ((b \div 1) % 2)
         /\ b \div 64 = 2 * ((b \div 128) % 2) + ((b \div 64) % 2)
         /\ b % 64 = 32 * ((b \div 32) % 2) + 16 * ((b \div 16) % 2) + 8 * ((b \div 8) % 2)
                       + 4 * ((b \div 4) % 2) + 2 * ((b \div 2) % 2) + ((b \div 1) % 2)
<1> DEFINE h1 == b \div 2
           h2 == h1 \div 2
           h3 == h2 \div 2
           h4 == h3 \div 2
           h5 == h4 \div 2
           h6 == h5 \div 2
           h7 == h6 \div 2
<1>1. b \in 0..255
  BY DEF Bytes
<1>2. b \div 1 = b /\ b \div 2 = h1 /\ b \div 4 = h2 /\ b \div 8 = h3
  BY <1>1
<1>3. b \div 16 = h4 /\ b \div 32 = h5 /\ b \div 64 = h6 /\ b \div 128 = h7
  BY <1>1
<1>4. /\ b = 2 * h1 + (b % 2) /\ h1 = 2 * h2 + (h1 % 2) /\ h2 = 2 * h3 + (h2 % 2)
      /\ h3 = 2 * h4 + (h3 % 2) /\ h4 = 2 * h5 + (h4 % 2) /\ h5 = 2 * h6 + (h5 % 2)
      /\ h6 = 2 * h7 + (h6 % 2) /\ h7 = h7 % 2
  BY <1>1
<1>5. /\ h1 \in Nat /\ h2 \in Nat /\ h3 \in Nat /\ h4 \in Nat /\ h5 \in Nat /\ h6 \in Nat /\ h7 \in Nat
      /\ b % 2 \in 0..1 /\ h1 % 2 \in 0..1 /\ h2 % 2 \in 0..1 /\ h3 % 2 \in 0..1
      /\ h4 % 2 \in 0..1 /\ h5 % 2 \in 0..1 /\ h6 % 2 \in 0..1 /\ h7 % 2 \in 0..1
  BY <1>1
<1>6. /\ b % 4 = 2 * (h1 % 2) + (b % 2)
      /\ b % 16 = 4 * (h2 % 4) + (b % 4) /\ h2 % 4 = 2 * (h3 % 2) + (h2 % 2)
  BY <1>1
<1>7. b % 64 = 16 * (h4 % 4) + (b % 16) /\ h4 % 4 = 2 * (h5 % 2) + (h4 % 2)
  BY <1>1
<1>8. PICK b0, b1, b2, b3, b4, b5, b6, b7 \in 0..1 :
        /\ b0 = b % 2 /\ b1 = h1 % 2 /\ b2 = h2 % 2 /\ b3 = h3 % 2
        /\ b4 = h4 % 2 /\ b5 = h5 % 2 /\ b6 = h6 % 2 /\ b7 = h7 % 2
  BY <1>5, Zenon
<1> HIDE DEF h1, h2, h3, h4, h5, h6, h7
<1>9. h7 = b7 /\ h6 = 2 * h7 + b6 /\ h5 = 2 * h6 + b5 /\ h4 = 2 * h5 + b4
  BY <1>4, <1>8
<1>10. h3 = 2 * h4 + b3 /\ h2 = 2 * h3 + b2
  BY <1>4, <1>8
<1>11. h6 = 2 * b7 + b6 /\ h4 = 8 * b7 + 4 * b6 + 2 * b5 + b4
  BY <1>9
<1>12. h2 = 32 * b7 + 16 * b6 + 8 * b5 + 4 * b4 + 2 * b3 + b2
  BY <1>10, <1>11
<1>13. b % 4 = 2 * b1 + b0 /\ b % 16 = 8 * b3 + 4 * b2 + 2 * b1 + b0
  BY <1>6, <1>8
<1>14. b % 64 = 32 * b5 + 16 * b4 + 8 * b3 + 4 * b2 + 2 * b1 + b0
  BY <1>7, <1>8, <1>13
<1>15. /\ (b \div 1) % 2 = b0 /\ (b \div 2) % 2 = b1 /\ (b \div 4) % 2 = b2
       /\ (b \div 8) % 2 = b3 /\ (b \div 16) % 2 = b4 /\ (b \div 32) % 2 = b5
       /\ (b \div 64) % 2 = b6 /\ (b \div 128) % 2 = b7
  BY <1>2, <1>3, <1>8, Zenon
<1>16. /\ (b % 4) * 16 = 32 * b1 + 16 * b0
       /\ (b % 16) * 4 = 32 * b3 + 16 * b2 + 8 * b1 + 4 * b0
  BY <1>13
<1>17. /\ b \div 4 = 32 * b7 + 16 * b6 + 8 * b5 + 4 * b4 + 2 * b3 + b2
       /\ b \div 16 = 8 * b7 + 4 * b6 + 2 * b5 + b4
       /\ b \div 64 = 2 * b7 + b6
  BY <1>2, <1>3, <1>11, <1>12, Zenon
<1> QED
  BY <1>14, <1>15, <1>16, <1>17, Zenon

\* Character by character, what Base64encode makes of a text
LEMMA EncodedIs ==
  ASSUME NEW s \in Seq(Bytes)
  PROVE  /\ Base64encode(s) \in [1..(4 * Threes(s)) -> Bytes]
         /\ \A k \in 1..Threes(s) : FourOf(Base64encode(s), s, k)
<1> DEFINE Encoded(g) == IF Len(g) = 3 THEN EncodeGroup(g) ELSE EncodeTail(g)
           Char(i) == Encoded(Group(s, 3, (i + 3) \div 4))[((i - 1) % 4) + 1]
           c == Base64encode(s)
<1>1. Threes(s) \in Nat
  BY ThreesAre
<1>2. c = [i \in 1..(4 * Threes(s)) |-> Char(i)]
  BY Zenon DEF Base64encode, Threes
<1> HIDE DEF c
<1>3. ASSUME NEW k \in 1..Threes(s)
      PROVE  /\ FourOf(c, s, k)
             /\ c[4 * k - 3] \in Bytes /\ c[4 * k - 2] \in Bytes
             /\ c[4 * k - 1] \in Bytes /\ c[4 * k] \in Bytes
  <2> DEFINE g == Group(s, 3, k)
             w == Encoded(g)
             x == Filled(s, 3 * k - 2)
             y == Filled(s, 3 * k - 1)
             z == Filled(s, 3 * k)
  <2>1. /\ 4 * k - 3 \in 1..(4 * Threes(s)) /\ 4 * k - 2 \in 1..(4 * Threes(s))
        /\ 4 * k - 1 \in 1..(4 * Threes(s)) /\ 4 * k \in 1..(4 * Threes(s))
    BY <1>1
  <2>2. /\ (4 * k - 3 + 3) \div 4 = k /\ ((4 * k - 3 - 1) % 4) + 1 = 1
        /\ (4 * k - 2 + 3) \div 4 = k /\ ((4 * k - 2 - 1) % 4) + 1 = 2
        /\ (4 * k - 1 + 3) \div 4 = k /\ ((4 * k - 1 - 1) % 4) + 1 = 3
        /\ (4 * k + 3) \div 4 = k /\ ((4 * k - 1) % 4) + 1 = 4
    BY <1>1
  <2>3. c[4 * k - 3] = w[1] /\ c[4 * k - 2] = w[2] /\ c[4 * k - 1] = w[3] /\ c[4 * k] = w[4]
    BY <1>2, <2>1, <2>2, Zenon
  <2>4. /\ Len(g) = IF 3 * k <= Len(s) THEN 3 ELSE IF 3 * k - 1 <= Len(s) THEN 2 ELSE 1
        /\ \A m \in 1..Len(g) : g[m] = s[3 * k - 3 + m]
    BY GroupOfThree, Zenon
  <2>5. 3 * k - 2 <= Len(s) /\ Len(s) \in Nat /\ k \in Nat
    BY <1>1, ThreesAre
  <2>6. \A i \in 1..Len(s) : s[i] \in Bytes
    OBVIOUS
  <2>7. x \in Bytes /\ y \in Bytes /\ z \in Bytes
    BY <2>5, <2>6 DEF Filled, Bytes
  <2>8. x = g[1] /\ (3 * k - 1 <= Len(s) => y = g[2]) /\ (3 * k <= Len(s) => z = g[3])
        /\ (~(3 * k - 1 <= Len(s)) => y = 0) /\ (~(3 * k <= Len(s)) => z = 0)
    BY <2>4, <2>5 DEF Filled
  <2> HIDE DEF g, x, y, z
  <2>9. w = << Basis64(x \div 4), Basis64((x % 4) * 16 + y \div 16),
               IF 3 * k - 1 <= Len(s) THEN Basis64((y % 16) * 4 + z \div 64) ELSE Pad,
               IF 3 * k <= Len(s) THEN Basis64(z % 64) ELSE Pad >>
    <3>1. CASE 3 * k <= Len(s)
      <4>1. Len(g) = 3 /\ 3 * k - 1 <= Len(s)
        BY <2>4, <2>5, <3>1
      <4> QED
        BY <2>8, <3>1, <4>1 DEF EncodeGroup
    <3>2. CASE ~(3 * k <= Len(s)) /\ 3 * k - 1 <= Len(s)
      <4>1. Len(g) = 2 /\ (y % 16) * 4 + z \div 64 = (y % 16) * 4
        BY <2>4, <2>5, <2>7, <2>8, <3>2 DEF Bytes
      <4> QED
        BY <2>8, <3>2, <4>1 DEF EncodeTail
    <3>3. CASE ~(3 * k <= Len(s)) /\ ~(3 * k - 1 <= Len(s))
      <4>1. Len(g) = 1 /\ (x % 4) * 16 + y \div 16 = (x % 4) * 16
        BY <2>4, <2>5, <2>7, <2>8, <3>3 DEF Bytes
      <4> QED
        BY <2>8, <3>3, <4>1 DEF EncodeTail
    <3> QED
      BY <3>1, <3>2, <3>3
  <2> HIDE DEF w
  <2>10. FourOf(c, s, k)
    BY <2>3, <2>9 DEF FourOf, x, y, z
  <2>11. /\ x \div 4 \in 0..63 /\ (x % 4) * 16 + y \div 16 \in 0..63
         /\ (y % 16) * 4 + z \div 64 \in 0..63 /\ z % 64 \in 0..63
    BY <2>7 DEF Bytes
  <2>12. /\ Basis64(x \div 4) \in Bytes /\ Basis64((x % 4) * 16 + y \div 16) \in Bytes
         /\ Basis64((y % 16) * 4 + z \div 64) \in Bytes /\ Basis64(z % 64) \in Bytes
    BY <2>11, SameAlphabet, Zenon
  <2>13. Pad \in Bytes
    BY DEF Pad, Bytes
  <2> QED
    BY <2>3, <2>9, <2>10, <2>12, <2>13
<1>4. ASSUME NEW i \in 1..(4 * Threes(s)) PROVE c[i] \in Bytes
  <2>1. PICK k \in 1..Threes(s) : i \in {4 * k - 3, 4 * k - 2, 4 * k - 1, 4 * k}
    <3>1. (i + 3) \div 4 \in 1..Threes(s)
      BY <1>1
    <3>2. i \in {4 * ((i + 3) \div 4) - 3, 4 * ((i + 3) \div 4) - 2,
                 4 * ((i + 3) \div 4) - 1, 4 * ((i + 3) \div 4)}
      BY <1>1
    <3> QED
      BY <3>1, <3>2, Zenon
  <2> QED
    BY <1>3, <2>1, Zenon
<1>5. c \in [1..(4 * Threes(s)) -> Bytes]
  BY <1>2, <1>4, Zenon
<1> QED
  BY <1>3, <1>5 DEF c

\* The bits of byte i, one by one
BitsAre(s, j, b) ==
  /\ BitOf(s, j) = (b \div 128) % 2 /\ BitOf(s, j + 1) = (b \div 64) % 2
  /\ BitOf(s, j + 2) = (b \div 32) % 2 /\ BitOf(s, j + 3) = (b \div 16) % 2
  /\ BitOf(s, j + 4) = (b \div 8) % 2 /\ BitOf(s, j + 5) = (b \div 4) % 2
  /\ BitOf(s, j + 6) = (b \div 2) % 2 /\ BitOf(s, j + 7) = (b \div 1) % 2

LEMMA BitsAreThere ==
  ASSUME NEW s \in Seq(Bytes), NEW i \in Nat
  PROVE  BitsAre(s, 8 * i, Filled(s, i + 1))
<1> DEFINE Power == <<128, 64, 32, 16, 8, 4, 2, 1>>
<1>1. Power[1] = 128 /\ Power[2] = 64 /\ Power[3] = 32 /\ Power[4] = 16
  OBVIOUS
<1>2. Power[5] = 8 /\ Power[6] = 4 /\ Power[7] = 2 /\ Power[8] = 1
  OBVIOUS
<1>3. ASSUME NEW e \in 0..7 PROVE (0 \div Power[e + 1]) % 2 = 0
  <2>1. Power[e + 1] \in {128, 64, 32, 16, 8, 4, 2, 1}
    <3> HIDE DEF Power
    <3>1. e + 1 \in {1, 2, 3, 4, 5, 6, 7, 8}
      OBVIOUS
    <3> QED
      BY <1>1, <1>2, <3>1
  <2> HIDE DEF Power
  <2> QED
    BY <2>1
<1>4. \A j : BitOf(s, j) = IF j >= 8 * Len(s) THEN 0
                           ELSE (s[j \div 8 + 1] \div Power[(j % 8) + 1]) % 2
  BY Zenon DEF BitOf
<1> HIDE DEF Power
<1>5. \A e \in 0..7 : BitOf(s, 8 * i + e) = (Filled(s, i + 1) \div Power[e + 1]) % 2
  <2> TAKE e \in 0..7
  <2>1. (8 * i + e) \div 8 + 1 = i + 1 /\ ((8 * i + e) % 8) + 1 = e + 1
    OBVIOUS
  <2>2. Len(s) \in Nat /\ (8 * i + e >= 8 * Len(s) <=> ~(i + 1 <= Len(s)))
    OBVIOUS
  <2>3. (0 \div Power[e + 1]) % 2 = 0
    BY <1>3, Zenon
  <2>4. CASE i + 1 <= Len(s)
    BY <1>4, <2>1, <2>2, <2>4, Zenon DEF Filled
  <2>5. CASE ~(i + 1 <= Len(s))
    BY <1>4, <2>2, <2>3, <2>5, Zenon DEF Filled
  <2> QED
    BY <2>4, <2>5
<1>6. 8 * i + 0 = 8 * i
  OBVIOUS
<1>7. BitOf(s, 8 * i) = (Filled(s, i + 1) \div Power[1]) % 2
  BY <1>5, <1>6
<1>8. /\ BitOf(s, 8 * i + 1) = (Filled(s, i + 1) \div Power[2]) % 2
      /\ BitOf(s, 8 * i + 2) = (Filled(s, i + 1) \div Power[3]) % 2
      /\ BitOf(s, 8 * i + 3) = (Filled(s, i + 1) \div Power[4]) % 2
      /\ BitOf(s, 8 * i + 4) = (Filled(s, i + 1) \div Power[5]) % 2
  BY <1>5
<1>9. /\ BitOf(s, 8 * i + 5) = (Filled(s, i + 1) \div Power[6]) % 2
      /\ BitOf(s, 8 * i + 6) = (Filled(s, i + 1) \div Power[7]) % 2
      /\ BitOf(s, 8 * i + 7) = (Filled(s, i + 1) \div Power[8]) % 2
  BY <1>5
<1> QED
  BY <1>1, <1>2, <1>7, <1>8, <1>9, Zenon DEF BitsAre

\* The six bits from j on
SixAre(s, j, a, b, c, d, e, f) ==
  /\ BitOf(s, j) = a /\ BitOf(s, j + 1) = b /\ BitOf(s, j + 2) = c
  /\ BitOf(s, j + 3) = d /\ BitOf(s, j + 4) = e /\ BitOf(s, j + 5) = f

LEMMA SixOf ==
  ASSUME NEW s, NEW j, NEW a, NEW b, NEW c, NEW d, NEW e, NEW f, SixAre(s, j, a, b, c, d, e, f)
  PROVE  SixBits(s, j) = 32 * a + 16 * b + 8 * c + 4 * d + 2 * e + f
BY DEF SixAre, SixBits

\* Character by character, what the standard makes of a text
LEMMA StandardIs ==
  ASSUME NEW s \in Seq(Bytes), NEW k \in 1..Threes(s)
  PROVE  FourOf(StandardBase64(s), s, k)
<1> DEFINE x == Filled(s, 3 * k - 2)
           y == Filled(s, 3 * k - 1)
           z == Filled(s, 3 * k)
           c == StandardBase64(s)
           n == 24 * (k - 1)
           Char(i) == IF 6 * (i - 1) >= 8 * Len(s) THEN 61 ELSE Alphabet[SixBits(s, 6 * (i - 1)) + 1]
<1>1. Threes(s) \in Nat /\ Len(s) \in Nat /\ k \in Nat /\ 3 * k - 2 <= Len(s)
  BY ThreesAre
<1>2. x \in Bytes /\ y \in Bytes /\ z \in Bytes
  <2>1. \A i \in 1..Len(s) : s[i] \in Bytes
    OBVIOUS
  <2> QED
    BY <1>1, <2>1 DEF Filled, Bytes
<1>3. BitsAre(s, n, x) /\ BitsAre(s, n + 8, y) /\ BitsAre(s, n + 16, z)
  <2>1. /\ 8 * (3 * k - 3) = n /\ 8 * (3 * k - 2) = n + 8 /\ 8 * (3 * k - 1) = n + 16
        /\ 3 * k - 3 \in Nat /\ 3 * k - 2 \in Nat /\ 3 * k - 1 \in Nat
        /\ 3 * k - 3 + 1 = 3 * k - 2 /\ 3 * k - 2 + 1 = 3 * k - 1 /\ 3 * k - 1 + 1 = 3 * k
    BY <1>1
  <2>2. /\ BitsAre(s, 8 * (3 * k - 3), Filled(s, 3 * k - 3 + 1))
        /\ BitsAre(s, 8 * (3 * k - 2), Filled(s, 3 * k - 2 + 1))
        /\ BitsAre(s, 8 * (3 * k - 1), Filled(s, 3 * k - 1 + 1))
    BY <2>1, BitsAreThere
  <2> QED
    BY <2>1, <2>2
<1> HIDE DEF x, y, z
<1>4. n \in Nat
  BY <1>1
<1>5. /\ SixBits(s, n) = x \div 4
      /\ SixBits(s, n + 6) = (x % 4) * 16 + y \div 16
      /\ SixBits(s, n + 12) = (y % 16) * 4 + z \div 64
      /\ SixBits(s, n + 18) = z % 64
  <2> HIDE DEF n
  <2>1. /\ BitOf(s, n) = (x \div 128) % 2 /\ BitOf(s, n + 1) = (x \div 64) % 2
        /\ BitOf(s, n + 2) = (x \div 32) % 2 /\ BitOf(s, n + 3) = (x \div 16) % 2
        /\ BitOf(s, n + 4) = (x \div 8) % 2 /\ BitOf(s, n + 5) = (x \div 4) % 2
    BY <1>3, Zenon DEF BitsAre
  <2>2. /\ BitOf(s, n + 6) = (x \div 2) % 2 /\ BitOf(s, n + 6 + 1) = (x \div 1) % 2
        /\ BitOf(s, n + 6 + 2) = (y \div 128) % 2 /\ BitOf(s, n + 6 + 3) = (y \div 64) % 2
        /\ BitOf(s, n + 6 + 4) = (y \div 32) % 2 /\ BitOf(s, n + 6 + 5) = (y \div 16) % 2
    <3>1. /\ n + 6 + 1 = n + 7 /\ n + 6 + 2 = n + 8 /\ n + 6 + 3 = n + 8 + 1
          /\ n + 6 + 4 = n + 8 + 2 /\ n + 6 + 5 = n + 8 + 3
      BY <1>4
    <3> QED
      BY <1>3, <3>1, ZenonT(60) DEF BitsAre
  <2>3. /\ BitOf(s, n + 12) = (y \div 8) % 2 /\ BitOf(s, n + 12 + 1) = (y \div 4) % 2
        /\ BitOf(s, n + 12 + 2) = (y \div 2) % 2 /\ BitOf(s, n + 12 + 3) = (y \div 1) % 2
        /\ BitOf(s, n + 12 + 4) = (z \div 128) % 2 /\ BitOf(s, n + 12 + 5) = (z \div 64) % 2
    <3>1. /\ n + 12 = n + 8 + 4 /\ n + 12 + 1 = n + 8 + 5 /\ n + 12 + 2 = n + 8 + 6
          /\ n + 12 + 3 = n + 8 + 7 /\ n + 12 + 4 = n + 16 /\ n + 12 + 5 = n + 16 + 1
      BY <1>4
    <3> QED
      BY <1>3, <3>1, ZenonT(60) DEF BitsAre
  <2>4. /\ BitOf(s, n + 18) = (z \div 32) % 2 /\ BitOf(s, n + 18 + 1) = (z \div 16) % 2
        /\ BitOf(s, n + 18 + 2) = (z \div 8) % 2 /\ BitOf(s, n + 18 + 3) = (z \div 4) % 2
        /\ BitOf(s, n + 18 + 4) = (z \div 2) % 2 /\ BitOf(s, n + 18 + 5) = (z \div 1) % 2
    <3>1. /\ n + 18 = n + 16 + 2 /\ n + 18 + 1 = n + 16 + 3 /\ n + 18 + 2 = n + 16 + 4
          /\ n + 18 + 3 = n + 16 + 5 /\ n + 18 + 4 = n + 16 + 6 /\ n + 18 + 5 = n + 16 + 7
      BY <1>4
    <3> QED
      BY <1>3, <3>1, ZenonT(60) DEF BitsAre
  <2>5. ASSUME NEW b \in Bytes
        PROVE  /\ (b \div 128) % 2 \in 0..1 /\ (b \div 64) % 2 \in 0..1 /\ (b \div 32) % 2 \in 0..1
               /\ (b \div 16) % 2 \in 0..1 /\ (b \div 8) % 2 \in 0..1 /\ (b \div 4) % 2 \in 0..1
               /\ (b \div 2) % 2 \in 0..1 /\ (b \div 1) % 2 \in 0..1
    BY DEF Bytes
  <2>6. SixBits(s, n) = x \div 4
    <3>1. SixBits(s, n) =
            32 * ((x \div 128) % 2) + 16 * ((x \div 64) % 2) + 8 * ((x \div 32) % 2)
              + 4 * ((x \div 16) % 2) + 2 * ((x \div 8) % 2) + ((x \div 4) % 2)
      <4>1. SixAre(s, n, (x \div 128) % 2, (x \div 64) % 2, (x \div 32) % 2,
                (x \div 16) % 2, (x \div 8) % 2, (x \div 4) % 2)
        BY <2>1, Zenon DEF SixAre
      <4> QED
        BY <4>1, SixOf
    <3> QED
      BY <1>2, <3>1, BitsOfByte, Zenon
  <2>7. SixBits(s, n + 6) = (x % 4) * 16 + y \div 16
    <3>1. SixBits(s, n + 6) =
            32 * ((x \div 2) % 2) + 16 * ((x \div 1) % 2) + 8 * ((y \div 128) % 2)
              + 4 * ((y \div 64) % 2) + 2 * ((y \div 32) % 2) + ((y \div 16) % 2)
      <4>1. SixAre(s, n + 6, (x \div 2) % 2, (x \div 1) % 2, (y \div 128) % 2,
                (y \div 64) % 2, (y \div 32) % 2, (y \div 16) % 2)
        BY <2>2, Zenon DEF SixAre
      <4> QED
        BY <4>1, SixOf
    <3>2. /\ (x % 4) * 16 = 32 * ((x \div 2) % 2) + 16 * ((x \div 1) % 2)
          /\ y \div 16 = 8 * ((y \div 128) % 2) + 4 * ((y \div 64) % 2) + 2 * ((y \div 32) % 2)
                           + ((y \div 16) % 2)
      BY <1>2, BitsOfByte, Zenon
    <3> QED
      BY <1>2, <2>5, <3>1, <3>2, SMTT(30)
  <2>8. SixBits(s, n + 12) = (y % 16) * 4 + z \div 64
    <3>1. SixBits(s, n + 12) =
            32 * ((y \div 8) % 2) + 16 * ((y \div 4) % 2) + 8 * ((y \div 2) % 2)
              + 4 * ((y \div 1) % 2) + 2 * ((z \div 128) % 2) + ((z \div 64) % 2)
      <4>1. SixAre(s, n + 12, (y \div 8) % 2, (y \div 4) % 2, (y \div 2) % 2,
                (y \div 1) % 2, (z \div 128) % 2, (z \div 64) % 2)
        BY <2>3, Zenon DEF SixAre
      <4> QED
        BY <4>1, SixOf
    <3>2. /\ (y % 16) * 4 = 32 * ((y \div 8) % 2) + 16 * ((y \div 4) % 2) + 8 * ((y \div 2) % 2)
                              + 4 * ((y \div 1) % 2)
          /\ z \div 64 = 2 * ((z \div 128) % 2) + ((z \div 64) % 2)
      BY <1>2, BitsOfByte, Zenon
    <3> QED
      BY <1>2, <2>5, <3>1, <3>2, SMTT(30)
  <2>9. SixBits(s, n + 18) = z % 64
    <3>1. SixBits(s, n + 18) =
            32 * ((z \div 32) % 2) + 16 * ((z \div 16) % 2) + 8 * ((z \div 8) % 2)
              + 4 * ((z \div 4) % 2) + 2 * ((z \div 2) % 2) + ((z \div 1) % 2)
      <4>1. SixAre(s, n + 18, (z \div 32) % 2, (z \div 16) % 2, (z \div 8) % 2,
                (z \div 4) % 2, (z \div 2) % 2, (z \div 1) % 2)
        BY <2>4, Zenon DEF SixAre
      <4> QED
        BY <4>1, SixOf
    <3> QED
      BY <1>2, <3>1, BitsOfByte, Zenon
  <2> QED
    BY <2>6, <2>7, <2>8, <2>9, Zenon
<1>6. c = [i \in 1..(4 * Threes(s)) |-> Char(i)]
  BY Zenon DEF StandardBase64, Threes
<1> HIDE DEF c
<1>7. /\ 4 * k - 3 \in 1..(4 * Threes(s)) /\ 4 * k - 2 \in 1..(4 * Threes(s))
      /\ 4 * k - 1 \in 1..(4 * Threes(s)) /\ 4 * k \in 1..(4 * Threes(s))
  BY <1>1
<1>8. /\ 6 * (4 * k - 3 - 1) = n /\ 6 * (4 * k - 2 - 1) = n + 6
      /\ 6 * (4 * k - 1 - 1) = n + 12 /\ 6 * (4 * k - 1) = n + 18
  BY <1>1
<1>9. /\ ~(n >= 8 * Len(s)) /\ ~(n + 6 >= 8 * Len(s))
      /\ (n + 12 >= 8 * Len(s) <=> ~(3 * k - 1 <= Len(s)))
      /\ (n + 18 >= 8 * Len(s) <=> ~(3 * k <= Len(s)))
  BY <1>1
<1> HIDE DEF n
<1>10. /\ c[4 * k - 3] = Alphabet[SixBits(s, n) + 1]
       /\ c[4 * k - 2] = Alphabet[SixBits(s, n + 6) + 1]
  BY <1>6, <1>7, <1>8, <1>9, Zenon
<1>11. /\ c[4 * k - 1] = IF 3 * k - 1 <= Len(s) THEN Alphabet[SixBits(s, n + 12) + 1] ELSE 61
       /\ c[4 * k] = IF 3 * k <= Len(s) THEN Alphabet[SixBits(s, n + 18) + 1] ELSE 61
  BY <1>6, <1>7, <1>8, <1>9, Zenon
<1>12. /\ x \div 4 \in 0..63 /\ (x % 4) * 16 + y \div 16 \in 0..63
       /\ (y % 16) * 4 + z \div 64 \in 0..63 /\ z % 64 \in 0..63
  BY <1>2 DEF Bytes
<1>13. /\ Alphabet[x \div 4 + 1] = Basis64(x \div 4)
       /\ Alphabet[(x % 4) * 16 + y \div 16 + 1] = Basis64((x % 4) * 16 + y \div 16)
       /\ Alphabet[(y % 16) * 4 + z \div 64 + 1] = Basis64((y % 16) * 4 + z \div 64)
       /\ Alphabet[(z % 64) + 1] = Basis64(z % 64)
  BY <1>12, SameAlphabet, Zenon
<1>14. FourOf(c, s, k)
  BY <1>5, <1>10, <1>11, <1>13, ZenonT(60) DEF FourOf, Pad, x, y, z
<1> QED
  BY <1>14 DEF c

\* Base64encode encodes as the standard says.
LEMMA EncodesByTheStandard ==
  ASSUME NEW s \in Seq(Bytes)
  PROVE  Base64encode(s) = StandardBase64(s)
<1> DEFINE c == Base64encode(s)
           d == StandardBase64(s)
           n == 4 * Threes(s)
<1>1. c = [i \in 1..n |-> c[i]] /\ d = [i \in 1..n |-> d[i]]
  BY Zenon DEF Base64encode, StandardBase64, Threes
<1>2. ASSUME NEW k \in 1..Threes(s)
      PROVE  /\ c[4 * k - 3] = d[4 * k - 3] /\ c[4 * k - 2] = d[4 * k - 2]
             /\ c[4 * k - 1] = d[4 * k - 1] /\ c[4 * k] = d[4 * k]
  <2>1. FourOf(c, s, k) /\ FourOf(d, s, k)
    BY EncodedIs, StandardIs, Zenon
  <2> QED
    BY <2>1, Zenon DEF FourOf
<1> HIDE DEF c, d
<1>3. ASSUME NEW i \in 1..n PROVE c[i] = d[i]
  <2>1. /\ (i + 3) \div 4 \in 1..Threes(s)
        /\ i \in {4 * ((i + 3) \div 4) - 3, 4 * ((i + 3) \div 4) - 2,
                  4 * ((i + 3) \div 4) - 1, 4 * ((i + 3) \div 4)}
    BY ThreesAre
  <2> QED
    BY <1>2, <2>1, Zenon
<1>4. c = d
  BY <1>1, <1>3, Zenon
<1> QED
  BY <1>4 DEF c, d

\* How many characters a text becomes, without the "=" behind it
Characters(s) == (4 * Len(s) + 2) \div 3

\* In front of the "=" stand characters of the alphabet.
LEMMA CharacterOrPad ==
  ASSUME NEW s \in Seq(Bytes), NEW i \in 1..(4 * Threes(s))
  PROVE  Pr2Six(Base64encode(s)[i]) > 63 <=> i > Characters(s)
<1> DEFINE c == Base64encode(s)
           k == (i + 3) \div 4
           x == Filled(s, 3 * k - 2)
           y == Filled(s, 3 * k - 1)
           z == Filled(s, 3 * k)
<1>1. k \in 1..Threes(s) /\ i \in {4 * k - 3, 4 * k - 2, 4 * k - 1, 4 * k}
  BY ThreesAre
<1>2. FourOf(c, s, k)
  BY <1>1, EncodedIs, Zenon
<1> HIDE DEF c, k
<1>3. Threes(s) \in Nat /\ Len(s) \in Nat /\ k \in Nat /\ 3 * k - 2 <= Len(s)
  BY <1>1, ThreesAre
<1>4. x \in Bytes /\ y \in Bytes /\ z \in Bytes
  <2>1. 3 * k - 2 \in Nat \ {0} /\ 3 * k - 1 \in Nat \ {0} /\ 3 * k \in Nat \ {0}
    BY <1>1, <1>3
  <2> QED
    BY <2>1, FilledIsByte, Zenon
<1>5. /\ 4 * k - 3 <= Characters(s) /\ 4 * k - 2 <= Characters(s)
      /\ (4 * k - 1 <= Characters(s) <=> 3 * k - 1 <= Len(s))
      /\ (4 * k <= Characters(s) <=> 3 * k <= Len(s))
      /\ Characters(s) \in Nat
  BY <1>3, SMTT(30) DEF Characters
<1>6. Pr2Six(Pad) = 64
  BY DEF Pr2Six, Pad
<1> HIDE DEF x, y, z
<1>7. /\ x \div 4 \in 0..63 /\ (x % 4) * 16 + y \div 16 \in 0..63
      /\ (y % 16) * 4 + z \div 64 \in 0..63 /\ z % 64 \in 0..63
  BY <1>4 DEF Bytes
<1>8. /\ Pr2Six(Basis64(x \div 4)) \in 0..63
      /\ Pr2Six(Basis64((x % 4) * 16 + y \div 16)) \in 0..63
      /\ Pr2Six(Basis64((y % 16) * 4 + z \div 64)) \in 0..63
      /\ Pr2Six(Basis64(z % 64)) \in 0..63
  <2>1. \A n \in 0..63 : Pr2Six(Basis64(n)) \in 0..63
    BY SameAlphabet, Zenon
  <2> QED
    BY <1>7, <2>1, Zenon
<1>9. Pr2Six(c[4 * k - 3]) \in 0..63 /\ Pr2Six(c[4 * k - 2]) \in 0..63
  BY <1>2, <1>8, Zenon DEF FourOf, x, y, z
<1>10. IF 3 * k - 1 <= Len(s) THEN Pr2Six(c[4 * k - 1]) \in 0..63 ELSE Pr2Six(c[4 * k - 1]) = 64
  BY <1>2, <1>6, <1>8, Zenon DEF FourOf, x, y, z
<1>11. IF 3 * k <= Len(s) THEN Pr2Six(c[4 * k]) \in 0..63 ELSE Pr2Six(c[4 * k]) = 64
  BY <1>2, <1>6, <1>8, Zenon DEF FourOf, x, y, z
<1>12. IF i <= Characters(s) THEN Pr2Six(c[i]) \in 0..63 ELSE Pr2Six(c[i]) = 64
  <2>1. CASE i = 4 * k - 3
    BY <1>5, <1>9, <2>1, Zenon
  <2>2. CASE i = 4 * k - 2
    BY <1>5, <1>9, <2>2, Zenon
  <2>3. CASE i = 4 * k - 1
    BY <1>5, <1>10, <2>3, Zenon
  <2>4. CASE i = 4 * k
    BY <1>5, <1>11, <2>4, Zenon
  <2> QED
    BY <1>1, <2>1, <2>2, <2>3, <2>4, Zenon
<1>13. \A p : p \in 0..63 => ~(p > 63)
  OBVIOUS
<1>14. i \in Nat /\ Characters(s) \in Nat
  BY <1>3, <1>5
<1>15. 64 > 63 /\ (i > Characters(s) <=> ~(i <= Characters(s)))
  BY <1>14
<1>16. Pr2Six(c[i]) > 63 <=> i > Characters(s)
  BY <1>12, <1>13, <1>15, Zenon
<1> QED
  BY <1>16 DEF c

\* Base64decode reads to the end of a text or to its "=".
LEMMA CodedPart ==
  ASSUME NEW s \in Seq(Bytes), NEW cut \in 0..(4 * Threes(s)), NEW part \in Seq(Bytes),
         Len(part) = cut, \A i \in 1..cut : part[i] = Base64encode(s)[i]
  PROVE  Coded(part) = IF cut <= Characters(s) THEN cut ELSE Characters(s)
<1> DEFINE others == {i \in 1..Len(part) : Pr2Six(part[i]) > 63}
           n == Characters(s)
<1>1. Threes(s) \in Nat /\ n \in Nat /\ cut \in Nat /\ cut <= 4 * Threes(s)
  BY ThreesAre DEF Characters
<1>2. \A i \in 1..cut : Pr2Six(part[i]) > 63 <=> i > n
  <2> TAKE i \in 1..cut
  <2>1. i \in 1..(4 * Threes(s))
    BY <1>1
  <2>2. part[i] = Base64encode(s)[i]
    OBVIOUS
  <2> QED
    BY <2>1, <2>2, CharacterOrPad, Zenon
<1> HIDE DEF n
<1>3. others = {i \in 1..cut : i > n}
  BY <1>2
<1>4. Coded(part) = IF others = {} THEN Len(part)
                    ELSE (CHOOSE i \in others : \A j \in others : i <= j) - 1
  BY Zenon DEF Coded
<1> HIDE DEF others
<1>5. CASE cut <= n
  <2>1. others = {}
    BY <1>1, <1>3, <1>5
  <2> QED
    BY <1>4, <1>5, <2>1 DEF n
<1>6. CASE ~(cut <= n)
  <2>1. n + 1 \in others /\ \A j \in others : n + 1 <= j
    <3>1. n + 1 \in 1..cut /\ n + 1 > n
      BY <1>1, <1>6
    <3>2. \A j \in 1..cut : j > n => n + 1 <= j
      BY <1>1
    <3> QED
      BY <1>3, <3>1, <3>2, Zenon
  <2>2. \A i \in others : (\A j \in others : i <= j) => i = n + 1
    BY <1>1, <1>3, <2>1
  <2>3. (CHOOSE i \in others : \A j \in others : i <= j) = n + 1
    BY <2>1, <2>2, Zenon
  <2>4. Coded(part) = (n + 1) - 1
    BY <1>4, <2>1, <2>3, Zenon
  <2> QED
    BY <1>1, <1>6, <2>4 DEF n
<1> QED
  BY <1>5, <1>6

LEMMA SixesAreSmall ==
  ASSUME NEW x \in Bytes, NEW y \in Bytes, NEW z \in Bytes
  PROVE  /\ x \div 4 \in 0..63 /\ (x % 4) * 16 + y \div 16 \in 0..63
         /\ (y % 16) * 4 + z \div 64 \in 0..63 /\ z % 64 \in 0..63
BY DEF Bytes

\* What pr2six makes of two, three or four characters
Sixes(g, r, x, y, z) ==
  /\ Len(g) = r
  /\ Pr2Six(g[1]) = x \div 4 /\ Pr2Six(g[2]) = (x % 4) * 16 + y \div 16
  /\ r >= 3 => Pr2Six(g[3]) = (y % 16) * 4 + z \div 64
  /\ r = 4 => Pr2Six(g[4]) = z % 64

ThreeBytes(d, r, x, y, z) == d[1] = x /\ (r >= 3 => d[2] = y) /\ (r = 4 => d[3] = z)

\* Two, three or four characters give one, two or three bytes.
LEMMA GroupDecoded ==
  ASSUME NEW x \in Bytes, NEW y \in Bytes, NEW z \in Bytes, NEW g, NEW r \in 2..4,
         Sixes(g, r, x, y, z)
  PROVE  ThreeBytes(DecodeGroup(g), r, x, y, z)
<1> DEFINE byte(k) == CASE k = 1 -> Pr2Six(g[1]) * 4 + Pr2Six(g[2]) \div 16
                        [] k = 2 -> Pr2Six(g[2]) * 16 + Pr2Six(g[3]) \div 4
                        [] k = 3 -> Pr2Six(g[3]) * 64 + Pr2Six(g[4])
<1>1. DecodeGroup(g) = [k \in 1..(IF Len(g) = 0 THEN 0 ELSE Len(g) - 1) |-> byte(k) % 256]
  BY Zenon DEF DecodeGroup
<1>2. byte(1) = Pr2Six(g[1]) * 4 + Pr2Six(g[2]) \div 16
  OBVIOUS
<1>3. byte(2) = Pr2Six(g[2]) * 16 + Pr2Six(g[3]) \div 4
  OBVIOUS
<1>4. byte(3) = Pr2Six(g[3]) * 64 + Pr2Six(g[4])
  OBVIOUS
<1> HIDE DEF byte
<1>5. (IF Len(g) = 0 THEN 0 ELSE Len(g) - 1) = r - 1
  BY DEF Sixes
<1>6. DecodeGroup(g) = [k \in 1..(r - 1) |-> byte(k) % 256]
  BY <1>1, <1>5, Zenon
<1>7. byte(1) % 256 = x
  <2>1. byte(1) = (x \div 4) * 4 + ((x % 4) * 16 + y \div 16) \div 16
    BY <1>2, Zenon DEF Sixes
  <2>2. ((x \div 4) * 4 + ((x % 4) * 16 + y \div 16) \div 16) % 256 = x
    BY DEF Bytes
  <2> QED
    BY <2>1, <2>2
<1>8. r >= 3 => byte(2) % 256 = y
  <2>1. r >= 3 => byte(2) = ((x % 4) * 16 + y \div 16) * 16 + ((y % 16) * 4 + z \div 64) \div 4
    BY <1>3, Zenon DEF Sixes
  <2>2. (((x % 4) * 16 + y \div 16) * 16 + ((y % 16) * 4 + z \div 64) \div 4) % 256 = y
    <3>1. ((x % 4) * 16 + y \div 16) * 16 + ((y % 16) * 4 + z \div 64) \div 4 = (x % 4) * 256 + y
      BY DEF Bytes
    <3>2. ((x % 4) * 256 + y) % 256 = y
      BY DEF Bytes
    <3> QED
      BY <3>1, <3>2
  <2> QED
    BY <2>1, <2>2
<1>9. r = 4 => byte(3) % 256 = z
  <2>1. r = 4 => byte(3) = ((y % 16) * 4 + z \div 64) * 64 + (z % 64)
    <3>1. r = 4 => Pr2Six(g[3]) = (y % 16) * 4 + z \div 64 /\ Pr2Six(g[4]) = z % 64
      BY DEF Sixes
    <3> QED
      BY <1>4, <3>1, Zenon
  <2>2. (((y % 16) * 4 + z \div 64) * 64 + (z % 64)) % 256 = z
    <3>1. ((y % 16) * 4 + z \div 64) * 64 + (z % 64) = (y % 16) * 256 + z
      BY DEF Bytes
    <3>2. ((y % 16) * 256 + z) % 256 = z
      BY DEF Bytes
    <3> QED
      BY <3>1, <3>2
  <2> QED
    BY <2>1, <2>2
<1>10. 1 \in 1..(r - 1) /\ (r >= 3 => 2 \in 1..(r - 1)) /\ (r = 4 => 3 \in 1..(r - 1))
  OBVIOUS
<1>11. DecodeGroup(g)[1] = byte(1) % 256
  BY <1>6, <1>10
<1>12. r >= 3 => DecodeGroup(g)[2] = byte(2) % 256
  BY <1>6, <1>10
<1>13. r = 4 => DecodeGroup(g)[3] = byte(3) % 256
  BY <1>6, <1>10
<1> QED
  BY <1>7, <1>8, <1>9, <1>11, <1>12, <1>13, Zenon DEF ThreeBytes

\* The group of four that byte i of the decoded text comes from
LEMMA GroupOfFour ==
  ASSUME NEW t \in Seq(Bytes), NEW k \in Nat \ {0}, 4 * k - 2 <= Len(t)
  PROVE  LET g == Group(t, 4, k)
             r == IF 4 * k <= Len(t) THEN 4 ELSE IF 4 * k - 1 <= Len(t) THEN 3 ELSE 2
         IN  Len(g) = r /\ \A x \in 1..r : g[x] = t[4 * k - 4 + x]
<1> DEFINE to == IF 4 * k < Len(t) THEN 4 * k ELSE Len(t)
           r == IF 4 * k <= Len(t) THEN 4 ELSE IF 4 * k - 1 <= Len(t) THEN 3 ELSE 2
           g == Group(t, 4, k)
<1>1. Len(t) \in Nat
  OBVIOUS
<1>2. to \in Nat /\ to <= Len(t) /\ 4 * k - 3 <= to /\ to - (4 * k - 3) + 1 = r
  BY <1>1
<1>3. g = SubSeq(t, 4 * k - 3, to)
  <2>1. 4 * k - 4 + 1 = 4 * k - 3
    OBVIOUS
  <2> QED
    BY <2>1, Zenon DEF Group
<1> HIDE DEF to
<1>4. 4 * k - 3 \in 1..Len(t) /\ to \in 1..Len(t)
  BY <1>1, <1>2
<1>5. /\ Len(SubSeq(t, 4 * k - 3, to)) = to - (4 * k - 3) + 1
      /\ \A x \in 1..(to - (4 * k - 3) + 1) : SubSeq(t, 4 * k - 3, to)[x] = t[(4 * k - 3) + x - 1]
  BY <1>1, <1>2, <1>4
<1>6. \A x \in 1..r : (4 * k - 3) + x - 1 = 4 * k - 4 + x
  <2> HIDE DEF r
  <2> QED
    BY <1>2
<1> HIDE DEF r, g
<1>7. Len(g) = r /\ \A x \in 1..r : g[x] = t[4 * k - 4 + x]
  BY <1>2, <1>3, <1>5, <1>6, Zenon
<1> QED
  BY <1>7, Zenon DEF r, g

\* Base64decode takes n characters of part, and they are the first of s.
HasCharacters(part, n, s) ==
  /\ Coded(part) = n /\ n <= Len(part) /\ n <= Characters(s)
  /\ \A i \in 1..n : part[i] = Base64encode(s)[i]

\* From the first n characters the bytes come back that they hold in whole.
LEMMA DecodedIs ==
  ASSUME NEW s \in Seq(Bytes), NEW part \in Seq(Bytes), NEW n \in Nat, NEW m \in Nat,
         HasCharacters(part, n, s), m = (3 * n) \div 4
  PROVE  m <= Len(s) /\ Decoded(part, m) = SubSeq(s, 1, m)
<1> DEFINE t == SubSeq(part, 1, n)
           c == Base64encode(s)
<1>1. t \in Seq(Bytes) /\ Len(t) = n /\ \A i \in 1..n : t[i] = part[i]
  <2>1. \A i \in 1..n : part[i] \in Bytes
    BY DEF HasCharacters
  <2>2. /\ t \in Seq(Bytes) /\ Len(t) = (IF 1 <= n THEN n - 1 + 1 ELSE 0)
        /\ \A i \in 1..(n - 1 + 1) : t[i] = part[1 + i - 1]
    BY <2>1, SubSeqProperties, Z3
  <2> QED
    BY <2>2
<1>2. Decoded(part, m) = [i \in 1..m |-> DecodeGroup(Group(t, 4, (i + 2) \div 3))[((i - 1) % 3) + 1]]
  BY Zenon DEF Decoded, HasCharacters
<1> HIDE DEF t, c
<1>3. \A i \in 1..n : t[i] = c[i]
  BY <1>1, Zenon DEF c, HasCharacters
<1>4. Len(s) \in Nat /\ Threes(s) \in Nat
  BY ThreesAre
<1>9. n <= (4 * Len(s) + 2) \div 3
  BY Zenon DEF HasCharacters, Characters
<1>5. m <= Len(s)
  BY <1>4, <1>9
<1>6. ASSUME NEW i \in 1..m
      PROVE  DecodeGroup(Group(t, 4, (i + 2) \div 3))[((i - 1) % 3) + 1] = s[i]
  <2> DEFINE k == (i + 2) \div 3
             j == ((i - 1) % 3) + 1
             g == Group(t, 4, k)
             r == IF 4 * k <= n THEN 4 ELSE IF 4 * k - 1 <= n THEN 3 ELSE 2
             x == Filled(s, 3 * k - 2)
             y == Filled(s, 3 * k - 1)
             z == Filled(s, 3 * k)
  <2>1. k \in Nat \ {0} /\ j \in 1..3 /\ i = 3 * k - 3 + j
    OBVIOUS
  <2> HIDE DEF k, j
  <2>2. 4 * i <= 3 * n /\ i <= Len(s) /\ i \in Nat
    BY <1>4, <1>5
  <2>3. 4 * k - 3 + j <= n
    <3>1. CASE j = 1
      BY <2>1, <2>2, <3>1
    <3>2. CASE j = 2
      BY <2>1, <2>2, <3>2
    <3>3. CASE j = 3
      BY <2>1, <2>2, <3>3
    <3> QED
      BY <2>1, <3>1, <3>2, <3>3
  <2>4. 3 * n <= 4 * Len(s) + 2
    BY <1>4, <1>9
  <2>5. /\ 4 * k - 1 <= n => 3 * k - 1 <= Len(s)
        /\ 4 * k <= n => 3 * k <= Len(s)
    BY <1>4, <2>1, <2>4
  <2>6. k \in 1..Threes(s)
    BY <1>4, <2>1, <2>2 DEF Threes
  <2>7. FourOf(c, s, k)
    BY <2>6, EncodedIs, Zenon DEF c
  <2>8. r \in 2..4 /\ j + 1 <= r
    BY <2>1, <2>3
  <2>9. 4 * k - 2 <= Len(t)
    BY <1>1, <2>1, <2>3
  <2>10. Len(g) = r /\ \A w \in 1..r : g[w] = t[4 * k - 4 + w]
    BY <1>1, <2>1, <2>9, GroupOfFour, Zenon
  <2>11. \A w \in 1..r : 4 * k - 4 + w \in 1..n
    BY <2>1, <2>3
  <2>12. \A w \in 1..r : g[w] = c[4 * k - 4 + w]
    BY <1>3, <2>10, <2>11, Zenon
  <2>13. /\ 4 * k - 4 + 1 = 4 * k - 3 /\ 4 * k - 4 + 2 = 4 * k - 2
         /\ 4 * k - 4 + 3 = 4 * k - 1 /\ 4 * k - 4 + 4 = 4 * k
    BY <2>1
  <2>14. /\ 1 \in 1..r /\ 2 \in 1..r /\ (r >= 3 => 3 \in 1..r) /\ (r = 4 => 4 \in 1..r)
         /\ (r >= 3 => 4 * k - 1 <= n) /\ (r = 4 => 4 * k <= n)
    BY <2>1
  <2> HIDE DEF g, r
  <2>15. /\ g[1] = c[4 * k - 3] /\ g[2] = c[4 * k - 2]
         /\ (r >= 3 => g[3] = c[4 * k - 1]) /\ (r = 4 => g[4] = c[4 * k])
    BY <2>12, <2>13, <2>14, Zenon
  <2>16. x \in Bytes /\ y \in Bytes /\ z \in Bytes
    <3>1. 3 * k - 2 \in Nat \ {0} /\ 3 * k - 1 \in Nat \ {0} /\ 3 * k \in Nat \ {0}
      BY <2>1
    <3> QED
      BY <3>1, FilledIsByte, Zenon
  <2>17. /\ g[1] = Basis64(x \div 4) /\ g[2] = Basis64((x % 4) * 16 + y \div 16)
         /\ (r >= 3 => g[3] = Basis64((y % 16) * 4 + z \div 64))
         /\ (r = 4 => g[4] = Basis64(z % 64))
    BY <2>5, <2>7, <2>14, <2>15, Zenon DEF FourOf
  <2>18. s[i] = IF j = 1 THEN x ELSE IF j = 2 THEN y ELSE z
    <3>1. 3 * k - 3 + 1 = 3 * k - 2 /\ 3 * k - 3 + 2 = 3 * k - 1 /\ 3 * k - 3 + 3 = 3 * k
      BY <2>1
    <3>2. s[i] = Filled(s, i)
      BY <2>2, Zenon DEF Filled
    <3>3. j = 1 \/ j = 2 \/ j = 3
      BY <2>1
    <3> QED
      BY <2>1, <3>1, <3>2, <3>3, Zenon
  <2> HIDE DEF x, y, z
  <2>19. /\ x \div 4 \in 0..63 /\ (x % 4) * 16 + y \div 16 \in 0..63
         /\ (y % 16) * 4 + z \div 64 \in 0..63 /\ z % 64 \in 0..63
    BY <2>16, SixesAreSmall, Zenon
  <2>20. /\ Pr2Six(Basis64(x \div 4)) = x \div 4
         /\ Pr2Six(Basis64((x % 4) * 16 + y \div 16)) = (x % 4) * 16 + y \div 16
         /\ Pr2Six(Basis64((y % 16) * 4 + z \div 64)) = (y % 16) * 4 + z \div 64
         /\ Pr2Six(Basis64(z % 64)) = z % 64
    BY <2>19, SameAlphabet, Zenon
  <2>21. Sixes(g, r, x, y, z)
    BY <2>10, <2>17, <2>20, Zenon DEF Sixes
  <2>22. ThreeBytes(DecodeGroup(g), r, x, y, z)
    BY <2>8, <2>16, <2>21, GroupDecoded, Zenon
  <2>23. DecodeGroup(g)[j] = s[i]
    <3>1. CASE j = 1
      BY <2>18, <2>22, <3>1, Zenon DEF ThreeBytes
    <3>2. CASE j = 2
      <4>1. r >= 3 /\ j # 1
        BY <2>8, <3>2
      <4> QED
        BY <2>18, <2>22, <3>2, <4>1, Zenon DEF ThreeBytes
    <3>3. CASE j = 3
      <4>1. r = 4 /\ j # 1 /\ j # 2
        BY <2>8, <3>3
      <4> QED
        BY <2>18, <2>22, <3>3, <4>1, Zenon DEF ThreeBytes
    <3>4. j = 1 \/ j = 2 \/ j = 3
      BY <2>1
    <3> QED
      BY <3>1, <3>2, <3>3, <3>4, Zenon
  <2> QED
    BY <2>23 DEF g, j, k
<1>7. Decoded(part, m) = [i \in 1..m |-> s[i]]
  BY <1>2, <1>6, Zenon
<1>8. SubSeq(s, 1, m) = [i \in 1..m |-> s[i]]
  BY <1>4, <1>5
<1> QED
  BY <1>5, <1>7, <1>8, Zenon

\* How many bytes Base64decode makes of n characters, and says it makes
LEMMA DecodedLength ==
  ASSUME NEW n \in Nat
  PROVE  LET loops == IF n > 4 THEN (n - 1) \div 4 ELSE 0
             tail  == n - 4 * loops
         IN  /\ 3 * loops + (IF tail > 1 THEN tail - 1 ELSE 0) = (3 * n) \div 4
             /\ ((n + 3) \div 4) * 3 - ((4 - n) % 4) = (3 * n) \div 4
             /\ (3 * n) \div 4 < ((n + 3) \div 4) * 3 + 1
<1> DEFINE q == n \div 4
           r == n % 4
<1>1. q \in Nat /\ r \in 0..3 /\ n = 4 * q + r
  OBVIOUS
<1> HIDE DEF q, r
<1>2. CASE r = 0
  BY <1>1, <1>2
<1>3. CASE r = 1
  BY <1>1, <1>3
<1>4. CASE r = 2
  BY <1>1, <1>4
<1>5. CASE r = 3
  BY <1>1, <1>5
<1> QED
  BY <1>1, <1>2, <1>3, <1>4, <1>5

\* got is what the first cut characters of c, the text of s, hold of it.
HoldsPart(s, c, cut, part, got) ==
  /\ got.count = Len(got.bytes) /\ Len(got.bytes) < Base64decode_len(part)
  /\ got.bytes = SubSeq(s, 1, Len(got.bytes))
  /\ cut < Len(c) - 2 => Len(got.bytes) = (6 * cut) \div 8
  /\ cut = Len(c) => got.bytes = s

\* From the text of s, cut anywhere, the bytes come back that it holds in whole.
LEMMA PartDecoded ==
  ASSUME NEW s \in Seq(Bytes), NEW cut \in 0..Len(Base64encode(s))
  PROVE  LET part == SubSeq(Base64encode(s), 1, cut)
         IN  HoldsPart(s, Base64encode(s), cut, part, Base64decode(part))
<1> DEFINE c == Base64encode(s)
           part == SubSeq(c, 1, cut)
           n == IF cut <= Characters(s) THEN cut ELSE Characters(s)
           got == Base64decode(part)
<1>1. Len(s) \in Nat /\ Threes(s) \in Nat
  BY ThreesAre
<1>2. c \in Seq(Bytes) /\ Len(c) = 4 * Threes(s)
  <2>1. c \in [1..(4 * Threes(s)) -> Bytes]
    BY EncodedIs, Zenon
  <2> HIDE DEF c
  <2>2. 4 * Threes(s) \in Nat
    BY <1>1
  <2> QED
    BY <2>1, <2>2
<1>3. cut \in 0..(4 * Threes(s))
  BY <1>2, Zenon
<1> HIDE DEF c
<1>4. part \in Seq(Bytes) /\ Len(part) = cut /\ \A i \in 1..cut : part[i] = c[i]
  BY <1>1, <1>2, <1>3
<1>5. cut \in Nat /\ Characters(s) = (4 * Len(s) + 2) \div 3 /\ Threes(s) = (Len(s) + 2) \div 3
  BY <1>1, <1>3 DEF Characters, Threes
<1> HIDE DEF part
<1>6. Coded(part) = n
  BY <1>3, <1>4, CodedPart, Zenon DEF c
<1>7. n \in Nat /\ n <= cut /\ n <= Characters(s)
  BY <1>1, <1>5
<1> HIDE DEF n
<1>8. HasCharacters(part, n, s)
  <2>1. \A i \in 1..n : part[i] = c[i]
    BY <1>4, <1>5, <1>7
  <2> QED
    BY <1>4, <1>6, <1>7, <2>1, Zenon DEF HasCharacters, c
<1>9. PICK m \in Nat : m = (3 * n) \div 4
  BY <1>7
<1>10. m <= Len(s) /\ Decoded(part, m) = SubSeq(s, 1, m)
  <2>1. (3 * n) \div 4 \in Nat /\ (3 * n) \div 4 <= Len(s)
        /\ Decoded(part, (3 * n) \div 4) = SubSeq(s, 1, (3 * n) \div 4)
    BY <1>4, <1>7, <1>8, <1>9, DecodedIs
  <2> QED
    BY <1>9, <2>1, Zenon
<1>11. got = [bytes |-> Decoded(part, m), count |-> m]
  BY <1>6, <1>7, <1>9, DecodedLength, Zenon DEF Base64decode
<1>12. m < Base64decode_len(part)
  BY <1>6, <1>7, <1>9, DecodedLength, Zenon DEF Base64decode_len
<1>13. Len(SubSeq(s, 1, m)) = m
  BY <1>1, <1>9, <1>10
<1>14. cut < 4 * Threes(s) - 2 => m = (6 * cut) \div 8
  <2>1. cut < 4 * Threes(s) - 2 => cut <= Characters(s)
    BY <1>1, <1>5
  <2>2. (3 * cut) \div 4 = (6 * cut) \div 8
    BY <1>5
  <2> QED
    BY <1>9, <2>1, <2>2 DEF n
<1>15. cut = 4 * Threes(s) => m = Len(s)
  <2>1. cut = 4 * Threes(s) => n = Characters(s)
    BY <1>1, <1>5 DEF n
  <2>2. (3 * Characters(s)) \div 4 = Len(s)
    BY <1>1, <1>5
  <2> QED
    BY <1>9, <2>1, <2>2
<1>16. SubSeq(s, 1, Len(s)) = s
  OBVIOUS
<1> HIDE DEF got
<1>17. got.bytes = SubSeq(s, 1, m) /\ got.count = m
  BY <1>10, <1>11, SMT
<1>18. HoldsPart(s, c, cut, part, got)
  BY <1>2, <1>12, <1>13, <1>14, <1>15, <1>16, <1>17, Zenon DEF HoldsPart
<1> QED
  BY <1>18 DEF c, part, got
(***************************************************************************)
(* What a request and its key are made of is bytes                         *)
(***************************************************************************)

TakenIn ==
  /\ request \in Requests
  /\ raw_key \in Seq(Bytes) /\ message \in Seq(Bytes)
  /\ ParamsAreBytes(params)

\* What recv_handshake leaves in params_ is what is in the request.
LEMMA RecvReads ==
  ASSUME NEW bytes, NEW uninit
  PROVE  RecvHandshake(BufferOf(bytes), uninit).params = FetchHsElement(bytes).params
<1> DEFINE hs == FetchHsElement(bytes)
           input == BufferOf(bytes)
           none == [error |-> FALSE, overrun |-> hs.overrun, length |-> uninit,
                    params |-> hs.params, input |-> ResetOft(input)]
<1>1. input.data = bytes
  BY DEF BufferOf
<1>2. \/ RecvHandshake(input, uninit) = none
      \/ RecvHandshake(input, uninit) = [none EXCEPT !.error = TRUE]
      \/ RecvHandshake(input, uninit) = [none EXCEPT !.error = TRUE, !.overrun = FALSE, !.input = input]
      \/ RecvHandshake(input, uninit) = [none EXCEPT !.length = hs.size, !.input = Skip(input, hs.size)]
  <2> HIDE DEF input
  <2> QED
    BY <1>1, Zenon DEF RecvHandshake
<1> HIDE DEF hs, input
<1>3. none.params = hs.params
  OBVIOUS
<1>4. /\ [none EXCEPT !.error = TRUE].params = hs.params
      /\ [none EXCEPT !.error = TRUE, !.overrun = FALSE, !.input = input].params = hs.params
      /\ [none EXCEPT !.length = hs.size, !.input = Skip(input, hs.size)].params = hs.params
  OBVIOUS
<1> HIDE DEF none
<1> QED
  BY <1>2, <1>3, <1>4, Zenon DEF hs, input

LEMMA KeyIsBytes ==
  ASSUME NEW p, ParamsAreBytes(p), NEW s \in Strings
  PROVE  GetParam(p, s) \in Seq(Bytes) /\ GetParam(p, s) \o magic_key \in Seq(Bytes)
<1>1. magic_key \in Seq(Bytes)
  BY DEF magic_key, Bytes
<1>2. <<>> \in Seq(Bytes)
  OBVIOUS
<1>3. GetParam(p, s) \in Seq(Bytes)
  BY <1>2, Zenon DEF GetParam, ParamsAreBytes
<1> QED
  BY <1>1, <1>3, ConcatProperties, Zenon

LEMMA TakenInAtFirst ==
  ASSUME AnswerInit
  PROVE  TakenIn
<1>1. request \in Requests /\ raw_key = <<>> /\ message = <<>> /\ params = <<>>
  BY DEF AnswerInit, ShaInit
<1>2. <<>> \in Seq(Bytes) /\ DOMAIN <<>> = {}
  OBVIOUS
<1> QED
  BY <1>1, <1>2, Zenon DEF TakenIn, ParamsAreBytes

LEMMA TakesIn ==
  ASSUME TakenIn, [AnswerNext]_answerVars
  PROVE  TakenIn'
<1>1. CASE Recv
  <2>1. PICK uninit, hs :
          /\ hs = RecvHandshake(BufferOf(request.bytes), uninit)
          /\ params' = hs.params
          /\ raw_key' = GetParam(hs.params, "Sec-WebSocket-Key") \o magic_key
    BY <1>1, Zenon DEF Recv
  <2>2. UNCHANGED <<request, message>>
    BY <1>1 DEF Recv, shaVars
  <2>3. request \in Requests /\ request.bytes \in Seq(Bytes)
    BY RequestsAssumption, Zenon DEF TakenIn
  <2>4. ParamsAreBytes(params')
    BY <2>1, <2>3, RecvReads, FetchGivesBytes, Zenon
  <2>5. "Sec-WebSocket-Key" \in Strings
    BY DEF Strings
  <2>6. raw_key' \in Seq(Bytes)
    BY <2>1, <2>4, <2>5, KeyIsBytes, Zenon
  <2> QED
    BY <2>2, <2>4, <2>6, Zenon DEF TakenIn
<1>2. CASE HashByte
  <2>1. /\ UNCHANGED <<request, raw_key, params>>
        /\ message' = Append(message, raw_key[Len(message) + 1]) /\ Len(message) < Len(raw_key)
    BY <1>2 DEF HashByte, UpdateByte
  <2>2. message \in Seq(Bytes) /\ raw_key \in Seq(Bytes)
    BY DEF TakenIn
  <2>3. message' \in Seq(Bytes)
    BY <2>1, <2>2
  <2> QED
    BY <2>1, <2>3, Zenon DEF TakenIn
<1>3. CASE HashFinal
  <2>1. UNCHANGED <<request, raw_key, params, message>>
    BY <1>3 DEF HashFinal, Final, FinalInOneBlock, FinalInTwoBlocks, Finish
  <2> QED
    BY <2>1, Zenon DEF TakenIn
<1>4. CASE PackAnswer \/ UNCHANGED answerVars
  <2>1. UNCHANGED <<request, raw_key, params, message>>
    BY <1>4 DEF PackAnswer, answerVars, shaVars
  <2> QED
    BY <2>1, Zenon DEF TakenIn
<1> QED
  BY <1>1, <1>2, <1>3, <1>4 DEF AnswerNext

THEOREM RequestIsTakenIn == AnswerSpec => []TakenIn
<1>1. AnswerInit => TakenIn
  BY TakenInAtFirst
<1>2. TakenIn /\ [AnswerNext]_answerVars => TakenIn'
  BY TakesIn
<1> QED
  BY <1>1, <1>2, PTL DEF AnswerSpec

(***************************************************************************)
(* The key goes through the hash byte for byte: what holds of the hash for *)
(* every message holds of it here.                                         *)
(***************************************************************************)
THEOREM AnswerHashes == AnswerSpec => ShaSpec /\ []BlocksArePadded
<1>1. AnswerInit => ShaInit
  BY DEF AnswerInit
<1>2. TakenIn /\ [AnswerNext]_answerVars => [ShaNext]_shaVars
  <2> SUFFICES ASSUME TakenIn, [AnswerNext]_answerVars
               PROVE  [ShaNext]_shaVars
    OBVIOUS
  <2>1. CASE HashByte
    <3>1. raw_key \in Seq(Bytes) /\ message \in Seq(Bytes)
      BY DEF TakenIn
    <3>2. Len(message) < Len(raw_key) /\ UpdateByte(raw_key[Len(message) + 1])
      BY <2>1 DEF HashByte
    <3>3. raw_key[Len(message) + 1] \in Bytes
      BY <3>1, <3>2
    <3> QED
      BY <3>2, <3>3, Zenon DEF ShaNext, Bytes
  <2>2. CASE HashFinal
    BY <2>2, Zenon DEF HashFinal, ShaNext
  <2>3. CASE Recv \/ PackAnswer \/ UNCHANGED answerVars
    BY <2>3 DEF Recv, PackAnswer, answerVars
  <2> QED
    BY <2>1, <2>2, <2>3 DEF AnswerNext
<1>3. AnswerSpec => ShaSpec
  BY <1>1, <1>2, RequestIsTakenIn, PTL DEF AnswerSpec, ShaSpec
<1> QED
  BY <1>3, PaddedByTheStandard, PTL

(***************************************************************************)
(* Base64 is that of RFC 4648 for every message, and Base64decode its      *)
(* inverse, from a whole text and from one that is cut.                    *)
(***************************************************************************)
LEMMA Base64Goes ==
  ASSUME message \in Seq(Bytes)
  PROVE  Base64Inverse
<1>1. PICK s, c : s \in Seq(Bytes) /\ s = message /\ c = Base64encode(s)
  OBVIOUS
<1>2. PICK n \in Nat, m \in Nat : n = Len(s) /\ m = Len(c) /\ m + 1 = Base64encode_len(n)
  <2>1. PICK n \in Nat : n = Len(s)
    BY LenProperties
  <2>2. c \in [1..(4 * Threes(s)) -> Bytes] /\ Threes(s) = (n + 2) \div 3
    BY <1>1, <2>1, EncodedIs, Zenon DEF Threes
  <2>3. Len(c) = 4 * ((n + 2) \div 3) /\ 4 * ((n + 2) \div 3) \in Nat
    BY <2>2
  <2> QED
    BY <2>1, <2>3 DEF Base64encode_len
<1>3. c = StandardBase64(s)
  BY <1>1, EncodesByTheStandard, Zenon
<1>4. ASSUME NEW cut \in 0..m, NEW part, part = SubSeq(c, 1, cut)
      PROVE  HoldsPart(s, c, cut, part, Base64decode(part))
  <2>1. cut \in 0..Len(Base64encode(s))
    BY <1>1, <1>2, Zenon
  <2> QED
    BY <1>1, <1>4, <2>1, PartDecoded, Zenon
<1>5. Base64decode(c).bytes = s
  <2>1. m \in 0..m
    OBVIOUS
  <2>2. SubSeq(c, 1, m) = c
    <3>1. c \in [1..(4 * Threes(s)) -> Bytes]
      BY <1>1, EncodedIs, Zenon
    <3>2. PICK k \in Nat : k = 4 * Threes(s)
      BY <1>1, ThreesAre
    <3>3. c \in [1..k -> Bytes]
      BY <3>1, <3>2, Zenon
    <3>4. c \in Seq(Bytes)
      BY <3>3
    <3> QED
      BY <1>2, <3>4
  <2>3. HoldsPart(s, c, m, c, Base64decode(c))
    BY <1>4, <2>1, <2>2, Zenon
  <2> QED
    BY <1>2, <2>3, Zenon DEF HoldsPart
<1>6. ASSUME NEW cut \in (m - 5)..m, cut >= 0, NEW part, part = SubSeq(c, 1, cut),
             NEW got, got = Base64decode(part)
      PROVE  /\ got.count = Len(got.bytes) /\ Len(got.bytes) < Base64decode_len(part)
             /\ got.bytes = SubSeq(s, 1, Len(got.bytes))
             /\ cut < m - 2 => Len(got.bytes) = (6 * cut) \div 8
  <2>1. cut \in 0..m
    BY <1>6
  <2> QED
    BY <1>2, <1>4, <1>6, <2>1, Zenon DEF HoldsPart
<1> QED
  BY <1>1, <1>2, <1>3, <1>5, <1>6, Zenon DEF Base64Inverse

THEOREM Base64IsTheStandard == AnswerSpec => []Base64Inverse
<1>1. TakenIn => Base64Inverse
  BY Base64Goes DEF TakenIn
<1> QED
  BY <1>1, RequestIsTakenIn, PTL

(***************************************************************************)
(* A request that a client sends is answered as the client means it, and   *)
(* with its key.                                                           *)
(***************************************************************************)

\* What recv_handshake makes of such a request
JudgedAs(hs, r) ==
  /\ hs.error = ~r.valid
  /\ r.valid => /\ hs.length # 0
                /\ GetParam(hs.params, "Sec-WebSocket-Key") = r.key
                /\ (GetParam(hs.params, "Sec-WebSocket-Protocol") # <<>>) = r.offers

LEMMA RecvJudges ==
  ASSUME NEW r \in Requests, PlainRequest(r), NEW uninit, NEW hs,
         hs = RecvHandshake(BufferOf(r.bytes), uninit)
  PROVE  JudgedAs(hs, r)
<1>1. PICK lines, fields : SaysIn(r, lines, fields)
  BY Zenon DEF PlainRequest
<1>2. PICK bytes : bytes = r.bytes /\ bytes = EncodeRequest(lines) /\ SaysRequest(lines, fields)
  BY <1>1, Zenon DEF SaysIn
<1>3. PICK ps : /\ FetchHsElement(bytes) = [size |-> Len(bytes), overrun |-> FALSE, params |-> ps]
                /\ Reads(ps, fields)
                /\ ParamsAccepted(ps) <=> MeansHandshake(fields, Text)
  BY <1>2, RequestUnderstood, Zenon
<1>4. PICK n \in Nat : n = Len(bytes) /\ n <= MaxHandshake /\ n > 0
  <2>1. bytes \in Seq(Bytes)
    BY <1>2, RequestUnderstood, Zenon
  <2>2. Len(bytes) <= MaxHandshake
    BY <1>2, Zenon DEF PlainRequest
  <2>3. Len(bytes) \in Nat
    BY <2>1, LenProperties
  <2>4. Len(bytes) > 0
    BY <1>2, RequestUnderstood, Zenon
  <2> QED
    BY <2>2, <2>3, <2>4
<1>5. PICK input : input = BufferOf(bytes)
  OBVIOUS
<1>6. PICK got : got = [size |-> n, overrun |-> FALSE, params |-> ps]
  OBVIOUS
<1>0. input.data = bytes /\ got = FetchHsElement(input.data)
  <2>1. input.data = bytes
    BY <1>5 DEF BufferOf
  <2> QED
    BY <1>3, <1>4, <1>6, <2>1, Zenon
<1>7. got.size = n /\ got.params = ps /\ got.overrun = FALSE
  BY <1>6
<1>8. ~(Length(input) > MaxHandshake) /\ ~(n <= 0)
  <2>1. Length(input) = n
    BY <1>0, <1>4, Zenon DEF Length
  <2>2. MaxHandshake \in Nat
    BY HandshakeAssumption
  <2> QED
    BY <1>4, <2>1, <2>2
<1> DEFINE none == [error |-> FALSE, overrun |-> got.overrun, length |-> uninit,
                    params |-> got.params, input |-> ResetOft(input)]
<1>9. hs = IF ~ParamsAccepted(ps) THEN [none EXCEPT !.error = TRUE]
           ELSE [none EXCEPT !.length = n, !.input = Skip(input, n)]
  <2>1. hs = RecvHandshake(input, uninit)
    BY <1>2, <1>5, Zenon
  <2>2. hs = IF Length(input) > MaxHandshake
             THEN [none EXCEPT !.error = TRUE, !.overrun = FALSE, !.input = input]
             ELSE IF got.size <= 0 THEN none
             ELSE IF ~ParamsAccepted(got.params) THEN [none EXCEPT !.error = TRUE]
             ELSE [none EXCEPT !.length = got.size, !.input = Skip(input, got.size)]
    BY <1>0, <2>1, Zenon DEF RecvHandshake
  <2> HIDE DEF none
  <2> QED
    BY <1>7, <1>8, <2>2, Zenon
<1>10. /\ [none EXCEPT !.error = TRUE].error = TRUE
       /\ LET x == [none EXCEPT !.length = n, !.input = Skip(input, n)]
          IN  x.error = FALSE /\ x.length = n /\ x.params = got.params
  OBVIOUS
<1> HIDE DEF none
<1>11. r.valid \in BOOLEAN /\ r.offers \in BOOLEAN
  BY RequestsAssumption, Zenon
<1>12. ParamsAccepted(ps) <=> r.valid
  BY <1>1, <1>3, Zenon DEF SaysIn
<1>13. CASE ~r.valid
  <2>1. hs.error = TRUE
    BY <1>9, <1>10, <1>12, <1>13, Zenon
  <2> QED
    BY <1>13, <2>1, Zenon DEF JudgedAs
<1>14. CASE r.valid
  <2>1. hs.error = FALSE /\ hs.length = n /\ hs.params = ps
    BY <1>7, <1>9, <1>10, <1>12, <1>14, Zenon
  <2>2. "Sec-WebSocket-Key" \in Strings /\ "Sec-WebSocket-Protocol" \in Strings
    BY DEF Strings
  <2>3. /\ GetParam(ps, "Sec-WebSocket-Key") = r.key
        /\ (GetParam(ps, "Sec-WebSocket-Protocol") # <<>>) = r.offers
    BY <1>1, <1>3, <1>14, <2>2, Zenon DEF SaysIn, Reads
  <2>4. n # 0
    BY <1>4
  <2> QED
    BY <1>14, <2>1, <2>3, <2>4, Zenon DEF JudgedAs
<1> QED
  BY <1>13, <1>14

Answering == phase \in {"hash", "hashed", "done"}

\* What is known of a request while it is answered
Judged ==
  PlainRequest(request) =>
    /\ JudgedRight
    /\ Answering => (GetParam(params, "Sec-WebSocket-Protocol") # <<>>) = request.offers

LEMMA Judges ==
  ASSUME TakenIn, Judged, [AnswerNext]_answerVars
  PROVE  Judged'
<1>1. CASE Recv
  <2>1. PICK uninit, hs :
          /\ hs = RecvHandshake(BufferOf(request.bytes), uninit)
          /\ params' = hs.params
          /\ phase' = IF hs.error THEN "refused" ELSE IF hs.length = 0 THEN "waiting" ELSE "hash"
          /\ raw_key' = GetParam(hs.params, "Sec-WebSocket-Key") \o magic_key
    BY <1>1, Zenon DEF Recv
  <2>2. request' = request /\ request \in Requests
    BY <1>1, Zenon DEF Recv, TakenIn
  <2>3. SUFFICES ASSUME PlainRequest(request)
                 PROVE  /\ JudgedRight'
                        /\ Answering' => (GetParam(params', "Sec-WebSocket-Protocol") # <<>>) = request.offers
    BY <2>2, Zenon DEF Judged
  <2>4. JudgedAs(hs, request)
    BY <2>1, <2>2, <2>3, RecvJudges, Zenon
  <2>5. request.valid \in BOOLEAN
    BY <2>2, RequestsAssumption, Zenon
  <2>6. CASE ~request.valid
    <3>1. phase' = "refused"
      BY <2>1, <2>4, <2>6, Zenon DEF JudgedAs
    <3> QED
      BY <2>2, <2>6, <3>1 DEF JudgedRight, Answering
  <2>7. CASE request.valid
    <3>1. phase' = "hash" /\ raw_key' = request.key \o magic_key
          /\ (GetParam(params', "Sec-WebSocket-Protocol") # <<>>) = request.offers
      BY <2>1, <2>4, <2>7, Zenon DEF JudgedAs
    <3> QED
      BY <2>2, <2>7, <3>1 DEF JudgedRight
  <2> QED
    BY <2>6, <2>7
<1>2. CASE HashByte \/ UNCHANGED answerVars
  <2>1. UNCHANGED <<request, phase, raw_key, params>>
    BY <1>2 DEF HashByte, answerVars
  <2> QED
    BY <2>1, Zenon DEF Judged, JudgedRight, Answering
<1>3. CASE HashFinal \/ PackAnswer
  <2>1. UNCHANGED <<request, raw_key, params>>
    BY <1>3 DEF HashFinal, PackAnswer
  <2>2. Answering /\ ~(phase' \in {"refused", "waiting"})
    BY <1>3 DEF HashFinal, PackAnswer, Answering
  <2> QED
    BY <2>1, <2>2, Zenon DEF Judged, JudgedRight, Answering
<1> QED
  BY <1>1, <1>2, <1>3 DEF AnswerNext

\* The invariant holds.
THEOREM JudgedHolds == AnswerSpec => []Judged
<1>1. AnswerInit => Judged
  BY DEF AnswerInit, Judged, JudgedRight, Answering
<1>2. TakenIn /\ Judged /\ [AnswerNext]_answerVars => Judged'
  BY Judges
<1> QED
  BY <1>1, <1>2, RequestIsTakenIn, PTL DEF AnswerSpec

LEMMA NamedIsPlain ==
  ASSUME NEW r, Plain(r)
  PROVE  PlainRequest(r)
BY Zenon DEF Plain, PlainRequest

\* A request of whole lines that say fields is answered if and only if the client
\* means it as a handshake, and with the key that the client put into it.
THEOREM PlainRequestsAreJudged == AnswerSpec => []RequestsJudged
<1>1. Judged => RequestsJudged
  BY NamedIsPlain, Zenon DEF Judged, RequestsJudged
<1> QED
  BY <1>1, JudgedHolds, PTL

(***************************************************************************)
(* Types: the memory of the hash holds bytes and its counters stay within  *)
(* their width, provided that the compression function makes words of      *)
(* words; then what is packed as the answer is bytes.                      *)
(***************************************************************************)
Words == [1..4 -> Bytes]

Hashes == [1..5 -> Words]

CompressesWords ==
  \A h \in Hashes, w \in [0..15 -> Words] : Compress(h, w) \in Hashes

HashTypes ==
  /\ M \in Memory /\ cursor \in 0..63 /\ l \in 0..(Wrap - 1) /\ H \in Hashes

AnswerTypes ==
  /\ HashTypes
  /\ answer \in Seq(Bytes)
  /\ phase \in {"recv", "hash", "hashed", "done", "refused", "waiting"}

\* What Process loads from a block are words.
LEMMA LoadedWords ==
  ASSUME NEW m \in Memory
  PROVE  Loaded(m) \in [0..15 -> Words]
<1>1. ASSUME NEW t \in 0..15
      PROVE  SwapEnds(<<m[4 * t + 3], m[4 * t + 2], m[4 * t + 1], m[4 * t]>>) \in Words
  <2>1. /\ m[4 * t + 3] \in Bytes /\ m[4 * t + 2] \in Bytes
        /\ m[4 * t + 1] \in Bytes /\ m[4 * t] \in Bytes
    BY DEF Memory
  <2> QED
    BY <2>1 DEF SwapEnds, Words
<1> QED
  BY <1>1 DEF Loaded

LEMMA SwappedWord ==
  ASSUME NEW w \in Words
  PROVE  SwapEnds(w) \in Words
BY DEF SwapEnds, Words

\* The last calls of Process leave the types.
LEMMA FinishTypes ==
  ASSUME CompressesWords, NEW m \in Memory, NEW h \in Hashes,
         l \in 0..(Wrap - 1), Finish(m, h)
  PROVE  HashTypes'
<1>1. M' \in Memory /\ cursor' = 0 /\ l' = l
  BY SwappedBytes DEF Finish
<1>2. PICK g \in Hashes : g = Compress(h, Loaded(m))
  BY LoadedWords, Zenon DEF CompressesWords
<1>3. H' = [t \in 1..5 |-> SwapEnds(g[t])]
  BY <1>2, Zenon DEF Finish
<1>4. \A t \in 1..5 : SwapEnds(g[t]) \in Words
  BY SwappedWord DEF Hashes
<1>5. H' \in Hashes
  BY <1>3, <1>4, Zenon DEF Hashes
<1>6. 0 \in 0..63
  OBVIOUS
<1> QED
  BY <1>1, <1>5, <1>6, Zenon DEF HashTypes

LEMMA UpdateTypes ==
  ASSUME CompressesWords, HashTypes, NEW b \in Bytes, UpdateByte(b)
  PROVE  HashTypes'
<1> DEFINE m == [M EXCEPT ![cursor] = b]
<1>1. M \in Memory /\ cursor \in 0..63 /\ l \in 0..(Wrap - 1) /\ H \in Hashes
  BY DEF HashTypes
<1>2. m \in Memory
  BY <1>1 DEF Memory
<1>3. l' \in 0..(Wrap - 1)
  <2>1. Wrap \in Nat /\ Wrap % 8 = 0 /\ Wrap > 0
    BY ShaAssumption, Zenon
  <2>2. Wrap >= 8
    BY <2>1
  <2>3. l' = IF l + 8 < Wrap THEN l + 8 ELSE l + 8 - Wrap
    BY DEF UpdateByte
  <2> QED
    BY <1>1, <2>1, <2>2, <2>3
<1>4. CASE BlockFull(cursor + 1)
  <2>1. M' = Swapped(m) /\ cursor' = 0 /\ H' = Compress(H, Loaded(m))
    BY <1>4, Zenon DEF UpdateByte
  <2> HIDE DEF m
  <2>2. M' \in Memory /\ H' \in Hashes
    BY <1>1, <1>2, <2>1, SwappedBytes, LoadedWords, Zenon DEF CompressesWords
  <2>3. 0 \in 0..63
    OBVIOUS
  <2> QED
    BY <1>3, <2>1, <2>2, <2>3, Zenon DEF HashTypes
<1>5. CASE ~BlockFull(cursor + 1)
  <2>1. M' = m /\ cursor' = cursor + 1 /\ H' = H
    BY <1>5, Zenon DEF UpdateByte
  <2>2. cursor' \in 0..63
    BY <1>1, <1>5, <2>1 DEF BlockFull
  <2> HIDE DEF m
  <2> QED
    BY <1>1, <1>2, <1>3, <2>1, <2>2, Zenon DEF HashTypes
<1> QED
  BY <1>4, <1>5

LEMMA FinalTypes ==
  ASSUME CompressesWords, HashTypes, Final
  PROVE  HashTypes'
<1>1. M \in Memory /\ cursor \in 0..63 /\ l \in 0..(Wrap - 1) /\ H \in Hashes
  BY DEF HashTypes
<1>2. l \in Nat
  BY <1>1
<1>3. CASE FinalInOneBlock
  <2>1. Marked(M, 60) \in Memory
    BY <1>1, MarkedBytes DEF IsMarked
  <2>2. WithLength(Marked(M, 60)) \in Memory
    BY <1>2, <2>1, WithLengthBytes, Zenon
  <2>3. Finish(WithLength(Marked(M, 60)), H)
    BY <1>3, Zenon DEF FinalInOneBlock
  <2> QED
    BY <1>1, <2>2, <2>3, FinishTypes, Zenon
<1>4. CASE FinalInTwoBlocks
  <2>1. PICK m1 : m1 = Marked(M, 64)
    OBVIOUS
  <2>2. m1 \in Memory
    BY <1>1, <2>1, MarkedBytes DEF IsMarked
  <2>3. PICK m \in Memory : m = [i \in 0..63 |-> IF i < 60 THEN 0 ELSE Swapped(m1)[i]]
    <3>1. PICK m2 \in Memory : m2 = Swapped(m1)
      BY <2>2, SwappedBytes, Zenon
    <3>2. \A i \in 0..63 : (IF i < 60 THEN 0 ELSE m2[i]) \in Bytes
      <4>1. 0 \in Bytes
        BY DEF Bytes
      <4>2. \A i \in 0..63 : m2[i] \in Bytes
        BY Zenon DEF Memory
      <4> QED
        BY <4>1, <4>2, Zenon
    <3>3. [i \in 0..63 |-> IF i < 60 THEN 0 ELSE m2[i]] \in Memory
      BY <3>2 DEF Memory
    <3> QED
      BY <3>1, <3>3, Zenon
  <2>4. WithLength(m) \in Memory
    BY <1>2, WithLengthBytes, Zenon
  <2>5. Compress(H, Loaded(m1)) \in Hashes
    BY <1>1, <2>2, LoadedWords, Zenon DEF CompressesWords
  <2>6. Finish(WithLength(m), Compress(H, Loaded(m1)))
    BY <1>4, <2>1, <2>3, Zenon DEF FinalInTwoBlocks
  <2> QED
    BY <1>1, <2>4, <2>5, <2>6, FinishTypes, Zenon
<1> QED
  BY <1>3, <1>4 DEF Final

\* The digest is 20 bytes, and its text is bytes.
LEMMA DigestBytes ==
  ASSUME HashTypes
  PROVE  Digest \in Seq(Bytes) /\ Base64encode(Digest) \in Seq(Bytes)
<1>1. ASSUME NEW k \in 1..20
      PROVE  H[((k - 1) \div 4) + 1][4 - ((k - 1) % 4)] \in Bytes
  <2>1. ((k - 1) \div 4) + 1 \in 1..5 /\ 4 - ((k - 1) % 4) \in 1..4
    OBVIOUS
  <2> QED
    BY <2>1, Zenon DEF HashTypes, Hashes, Words
<1>2. PICK d : d = Digest
  OBVIOUS
<1>3. Digest \in Seq(Bytes)
  <2>1. d \in [1..20 -> Bytes]
    BY <1>1, <1>2 DEF Digest
  <2>2. PICK n \in Nat : n = 20
    OBVIOUS
  <2>3. d \in [1..n -> Bytes]
    BY <2>1, <2>2, Zenon
  <2>4. d \in Seq(Bytes)
    BY <2>3
  <2> QED
    BY <1>2, <2>4, Zenon
<1>4. Base64encode(Digest) \in [1..(4 * Threes(Digest)) -> Bytes]
  BY <1>3, EncodedIs, Zenon
<1>5. PICK n \in Nat : n = 4 * Threes(Digest)
  BY <1>3, ThreesAre
<1>6. Base64encode(Digest) \in [1..n -> Bytes]
  BY <1>4, <1>5, Zenon
<1>7. Base64encode(Digest) \in Seq(Bytes)
  BY <1>6
<1> QED
  BY <1>3, <1>7

LEMMA AnswerTypesAtFirst ==
  ASSUME AnswerInit
  PROVE  AnswerTypes
<1>1. M \in Memory
  BY UninitialisedBytes, Zenon DEF AnswerInit, ShaInit
<1>2. cursor = 0 /\ l = 0 /\ H = H0 /\ answer = <<>> /\ phase = "recv"
  BY DEF AnswerInit, ShaInit
<1>3. 0 \in 0..63 /\ 0 \in 0..(Wrap - 1)
  <2>1. Wrap \in Nat /\ Wrap > 0
    BY ShaAssumption, Zenon
  <2> QED
    BY <2>1
<1>4. H0 \in Hashes
  <2>1. /\ <<103, 69, 35, 1>> \in Words /\ <<239, 205, 171, 137>> \in Words
        /\ <<152, 186, 220, 254>> \in Words /\ <<16, 50, 84, 118>> \in Words
        /\ <<195, 210, 225, 240>> \in Words
    BY DEF Words, Bytes
  <2> HIDE DEF Words
  <2> QED
    BY <2>1 DEF H0, Hashes
<1>5. <<>> \in Seq(Bytes)
  OBVIOUS
<1> QED
  BY <1>1, <1>2, <1>3, <1>4, <1>5, Zenon DEF AnswerTypes, HashTypes

LEMMA AnswerTypesStay ==
  ASSUME CompressesWords, TakenIn, AnswerTypes, [AnswerNext]_answerVars
  PROVE  AnswerTypes'
<1>1. CASE Recv
  <2>1. UNCHANGED <<M, cursor, l, H, answer>> /\ phase' \in {"refused", "waiting", "hash"}
    BY <1>1 DEF Recv, shaVars
  <2> QED
    BY <2>1 DEF AnswerTypes, HashTypes
<1>2. CASE HashByte
  <2>1. UNCHANGED <<answer, phase>>
    BY <1>2 DEF HashByte
  <2>2. raw_key \in Seq(Bytes) /\ message \in Seq(Bytes)
    BY DEF TakenIn
  <2>3. Len(message) < Len(raw_key) /\ UpdateByte(raw_key[Len(message) + 1])
    BY <1>2 DEF HashByte
  <2>4. raw_key[Len(message) + 1] \in Bytes
    BY <2>2, <2>3
  <2>5. HashTypes'
    BY <2>3, <2>4, UpdateTypes, Zenon DEF AnswerTypes
  <2> QED
    BY <2>1, <2>5, Zenon DEF AnswerTypes
<1>3. CASE HashFinal
  <2>1. answer' = answer /\ phase' = "hashed" /\ Final
    BY <1>3 DEF HashFinal
  <2>2. HashTypes'
    BY <2>1, FinalTypes, Zenon DEF AnswerTypes
  <2> QED
    BY <2>1, <2>2, Zenon DEF AnswerTypes
<1>4. CASE PackAnswer
  <2>1. /\ UNCHANGED <<M, cursor, l, H>> /\ phase' = "done"
        /\ answer' = PackHandshakeRsp(params, Base64encode(Digest))
    BY <1>4 DEF PackAnswer, shaVars
  <2>2. answer' \in Seq(Bytes)
    BY <2>1, DigestBytes, RspIsBytes, Zenon DEF AnswerTypes
  <2>3. HashTypes'
    BY <2>1 DEF AnswerTypes, HashTypes
  <2> QED
    BY <2>1, <2>2, <2>3, Zenon DEF AnswerTypes
<1>5. CASE UNCHANGED answerVars
  BY <1>5 DEF answerVars, shaVars, AnswerTypes, HashTypes
<1> QED
  BY <1>1, <1>2, <1>3, <1>4, <1>5 DEF AnswerNext

\* The invariant holds.
THEOREM AnswerTypesKept == ASSUME CompressesWords PROVE AnswerSpec => []AnswerTypes
<1>1. AnswerInit => AnswerTypes
  BY AnswerTypesAtFirst
<1>2. TakenIn /\ AnswerTypes /\ [AnswerNext]_answerVars => AnswerTypes'
  BY AnswerTypesStay
<1> QED
  BY <1>1, <1>2, RequestIsTakenIn, PTL DEF AnswerSpec

\* The packet that answers a request keeps its types: M, cursor, l and H their
\* widths, and hs_rsp bytes.
THEOREM AnswerTypesHold == ASSUME CompressesWords PROVE AnswerSpec => []AnswerTypeOK
<1>1. AnswerTypes => AnswerTypeOK
  BY DigestBytes, Zenon DEF AnswerTypes, HashTypes, AnswerTypeOK, Memory, Hashes, Words
<1> QED
  BY <1>1, AnswerTypesKept, PTL

(***************************************************************************)
(* The client finds its key in the answer.                                 *)
(***************************************************************************)

\* A character of the alphabet, and "=", ends no line.
LEMMA CharacterUnbroken ==
  ASSUME NEW n \in 0..63
  PROVE  Basis64(n) \in Unbroken
BY DEF Basis64, Unbroken

\* What Base64encode makes stands in one line.
LEMMA CodedUnbroken ==
  ASSUME NEW s \in Seq(Bytes)
  PROVE  Base64encode(s) \in Seq(Unbroken)
<1> DEFINE c == Base64encode(s)
<1>1. ASSUME NEW i \in 1..(4 * Threes(s))
      PROVE  c[i] \in Unbroken
  <2> DEFINE k == (i + 3) \div 4
             x == Filled(s, 3 * k - 2)
             y == Filled(s, 3 * k - 1)
             z == Filled(s, 3 * k)
  <2>1. k \in 1..Threes(s) /\ i \in {4 * k - 3, 4 * k - 2, 4 * k - 1, 4 * k}
    BY ThreesAre
  <2>2. FourOf(c, s, k)
    BY <2>1, EncodedIs, Zenon
  <2> HIDE DEF c, k
  <2>3. Threes(s) \in Nat /\ k \in Nat /\ 3 * k - 2 <= Len(s)
    BY <2>1, ThreesAre
  <2>4. x \in Bytes /\ y \in Bytes /\ z \in Bytes
    <3>1. 3 * k - 2 \in Nat \ {0} /\ 3 * k - 1 \in Nat \ {0} /\ 3 * k \in Nat \ {0}
      BY <2>1, <2>3
    <3> QED
      BY <3>1, FilledIsByte, Zenon
  <2> HIDE DEF x, y, z
  <2>5. /\ x \div 4 \in 0..63 /\ (x % 4) * 16 + y \div 16 \in 0..63
        /\ (y % 16) * 4 + z \div 64 \in 0..63 /\ z % 64 \in 0..63
    BY <2>4 DEF Bytes
  <2>6. /\ Basis64(x \div 4) \in Unbroken /\ Basis64((x % 4) * 16 + y \div 16) \in Unbroken
        /\ Basis64((y % 16) * 4 + z \div 64) \in Unbroken /\ Basis64(z % 64) \in Unbroken
        /\ Pad \in Unbroken
    <3>1. Pad \in Unbroken
      BY DEF Pad, Unbroken
    <3> QED
      BY <2>5, <3>1, CharacterUnbroken, Zenon
  <2>7. /\ c[4 * k - 3] \in Unbroken /\ c[4 * k - 2] \in Unbroken
        /\ c[4 * k - 1] \in Unbroken /\ c[4 * k] \in Unbroken
    BY <2>2, <2>6, Zenon DEF FourOf, x, y, z
  <2> QED
    BY <2>1, <2>7, Zenon
<1>2. c = [i \in 1..(4 * Threes(s)) |-> c[i]]
  BY Zenon DEF Base64encode, Threes
<1> HIDE DEF c
<1>3. PICK n \in Nat : n = 4 * Threes(s)
  BY ThreesAre
<1>4. c \in [1..n -> Unbroken]
  BY <1>1, <1>2, <1>3, Zenon
<1>5. c \in Seq(Unbroken)
  BY <1>4
<1> QED
  BY <1>5 DEF c

\* A value is shorter than its line, and the line than the request.
LEMMA ValueIsShort ==
  ASSUME NEW lines, NEW fields, SaysRequest(lines, fields), NEW r, r = EncodeRequest(lines),
         NEW name
  PROVE  Len(Said(fields, name)) <= Len(r)
<1>1. /\ lines \in Seq(Lines) /\ fields \in Seq(HeaderFields)
      /\ Len(fields) = Len(lines) /\ Len(lines) >= 2
      /\ \A i \in 1..Len(lines) : fields[i] = NoField \/ SaysField(lines[i], fields[i])
  BY Zenon DEF SaysRequest
<1>2. PICK n \in Nat : n = Len(lines) /\ n > 0
  <2>1. Len(lines) \in Nat
    BY <1>1, LenProperties
  <2> QED
    BY <1>1, <2>1
<1>3. PICK c : LinesIn(r, n, lines, c)
  BY <1>1, <1>2, RequestLines, Zenon
<1>4. r \in Seq(Bytes) /\ Len(r) \in Nat
  <2>1. r \in Seq(Bytes)
    BY <1>3, Zenon DEF LinesIn
  <2> QED
    BY <2>1, LenProperties, Zenon
<1>5. ASSUME NEW i \in 1..n
      PROVE  Len(fields[i].value) <= Len(r)
  <2>1. Len(lines[i]) \in Nat /\ Len(lines[i]) <= Len(r)
    <3>1. /\ Len(lines[i]) \in Nat /\ c[i] = c[i - 1] + Len(lines[i]) + 2 /\ c[i] <= c[n]
          /\ Len(r) = c[n] + 2 /\ c \in [0..n -> Nat]
      BY <1>3, Zenon DEF LinesIn
    <3>2. PICK a \in Nat, b \in Nat, m \in Nat :
            a = c[i - 1] /\ b = c[n] /\ m = Len(lines[i])
      BY <3>1
    <3>3. a + m + 2 <= b /\ Len(r) = b + 2
      BY <3>1, <3>2, Zenon
    <3>4. m <= b + 2
      BY <3>3
    <3> QED
      BY <3>2, <3>3, <3>4, Zenon
  <2>2. CASE fields[i] = NoField
    <3>1. NoField.value = <<>>
      BY Zenon DEF NoField
    <3>2. Len(<<>>) = 0 /\ 0 <= Len(r)
      BY <1>4
    <3> QED
      BY <2>2, <3>1, <3>2, Zenon
  <2>3. CASE SaysField(lines[i], fields[i]) /\ fields[i] # NoField
    <3>1. PICK x, f : x = lines[i] /\ f = fields[i]
      OBVIOUS
    <3>2. f \in HeaderFields
      <4>1. i \in 1..Len(fields)
        BY <1>1, <1>2, Zenon
      <4> QED
        BY <1>1, <3>1, <4>1, ElementOfSeq, Zenon
    <3>3. PICK a \in Nat, b \in Nat, p \in Nat, q \in Nat : x = FieldLine(f, a, b, p, q)
      <4>1. 0..Len(x) \subseteq Nat
        BY <2>1, <3>1
      <4>2. \E a, b, p, q \in 0..Len(x) : x = FieldLine(f, a, b, p, q)
        BY <2>3, <3>1, Zenon DEF SaysField
      <4> QED
        BY <4>1, <4>2, Zenon
    <3>4. SaysAround(x, f, a, b, p, q)
      BY <3>2, <3>3, FieldLineIs, Zenon
    <3>5. PICK left, right :
            /\ BlanksAround(left, f.name, a, b) /\ BlanksAround(right, f.value, p, q)
            /\ x = left \o <<58>> \o right
      BY <3>4, Zenon DEF SaysAround
    <3>6. left \in Seq(Bytes) /\ right \in Seq(Bytes) /\ Len(right) = p + Len(f.value) + q
      BY <3>5, Zenon DEF BlanksAround
    <3>7. PICK m \in Seq(Bytes) : m = <<58>>
      <4>1. <<58>> \in Seq(Bytes)
        BY DEF Bytes
      <4> QED
        BY <4>1, Zenon
    <3>8. Len(right) <= Len(x)
      <4>1. x = (left \o m) \o right
        BY <3>5, <3>7, Zenon
      <4> QED
        BY <3>6, <4>1
    <3>9. Len(f.value) \in Nat
      <4>1. f.value \in Seq((0..255) \ {13, 10})
        BY <3>2 DEF HeaderFields
      <4> QED
        BY <4>1, LenProperties, Zenon
    <3>10. Len(right) \in Nat
      BY <3>6, LenProperties, Zenon
    <3>11. Len(f.value) <= Len(right)
      BY <3>6, <3>9, <3>10
    <3>12. Len(x) \in Nat /\ Len(x) <= Len(r)
      BY <2>1, <3>1, Zenon
    <3>13. Len(f.value) <= Len(r)
      BY <1>4, <3>8, <3>9, <3>10, <3>11, <3>12
    <3> QED
      BY <3>1, <3>13, Zenon
  <2> QED
    BY <1>1, <1>2, <2>2, <2>3, Zenon
<1>6. CASE NoSaying(fields, n, name)
  <2>1. n = Len(fields)
    BY <1>1, <1>2, Zenon
  <2>2. Said(fields, name) = <<>>
    BY <1>6, <2>1, SaidIs, Zenon
  <2>3. Len(<<>>) = 0 /\ 0 <= Len(r)
    BY <1>4
  <2> QED
    BY <2>2, <2>3, Zenon
<1>7. CASE \E i : LastSaying(fields, n, name, i)
  <2>1. PICK i : LastSaying(fields, n, name, i)
    BY <1>7, Zenon
  <2>2. n = Len(fields)
    BY <1>1, <1>2, Zenon
  <2>3. Said(fields, name) = fields[i].value
    BY <2>1, <2>2, SaidIs, Zenon
  <2>4. i \in 1..n
    BY <2>1, Zenon DEF LastSaying
  <2> QED
    BY <1>5, <2>3, <2>4, Zenon
<1> QED
  BY <1>6, <1>7, SaidOrNot, Zenon

-----------------------------------------------------------------------------
(***************************************************************************)
(* The hash of the blocks, as FIPS 180-3, 6.1.2 has it: H0 at first, and   *)
(* behind each block what Compress makes of its words.                     *)
(***************************************************************************)

\* The words of block k, most significant byte first
WordsAt(s, k) ==
  [t \in 0..15 |-> <<s[64 * k - 63 + 4 * t], s[64 * k - 62 + 4 * t],
                     s[64 * k - 61 + 4 * t], s[64 * k - 60 + 4 * t]>>]

\* The hashes behind 0 to n blocks of s
HashedIn(hs, s, n) ==
  /\ hs \in [0..n -> Hashes] /\ hs[0] = H0
  /\ \A k \in 1..n : hs[k] = Compress(hs[k - 1], WordsAt(s, k))

HashOf(h, s) == \E hs : HashedIn(hs, s, Len(s) \div 64) /\ h = hs[Len(s) \div 64]

\* The bytes of a hash in their order
DigestOf(h) == [k \in 1..20 |-> h[((k - 1) \div 4) + 1][((k - 1) % 4) + 1]]

\* Of one block only what stands in it counts.
LEMMA WordsOfBlock ==
  ASSUME NEW n \in Nat, NEW s, NEW r, SameTo(64 * n, r, s), NEW k \in 1..n
  PROVE  WordsAt(r, k) = WordsAt(s, k)
<1>1. ASSUME NEW t \in 0..15
      PROVE  /\ r[64 * k - 63 + 4 * t] = s[64 * k - 63 + 4 * t]
             /\ r[64 * k - 62 + 4 * t] = s[64 * k - 62 + 4 * t]
             /\ r[64 * k - 61 + 4 * t] = s[64 * k - 61 + 4 * t]
             /\ r[64 * k - 60 + 4 * t] = s[64 * k - 60 + 4 * t]
  <2>1. PICK a, b, c, d : /\ a = 64 * k - 63 + 4 * t /\ b = 64 * k - 62 + 4 * t
                          /\ c = 64 * k - 61 + 4 * t /\ d = 64 * k - 60 + 4 * t
    OBVIOUS
  <2>2. a \in 1..(64 * n) /\ b \in 1..(64 * n) /\ c \in 1..(64 * n) /\ d \in 1..(64 * n)
    BY <2>1
  <2>3. r[a] = s[a] /\ r[b] = s[b] /\ r[c] = s[c] /\ r[d] = s[d]
    BY <2>2, Zenon DEF SameTo
  <2> QED
    BY <2>1, <2>3, Zenon
<1> QED
  BY <1>1, ZenonT(60) DEF WordsAt

\* Process loads the words of the block it is given.
LEMMA WordsLoaded ==
  ASSUME NEW n \in Nat, NEW m \in Memory, NEW r, BlockAt(64 * n, r, m)
  PROVE  WordsAt(r, n + 1) = Loaded(m)
<1>1. ASSUME NEW t \in 0..15
      PROVE  /\ r[64 * (n + 1) - 63 + 4 * t] = m[4 * t]
             /\ r[64 * (n + 1) - 62 + 4 * t] = m[4 * t + 1]
             /\ r[64 * (n + 1) - 61 + 4 * t] = m[4 * t + 2]
             /\ r[64 * (n + 1) - 60 + 4 * t] = m[4 * t + 3]
  <2>1. PICK a, b, c, d : a = 4 * t /\ b = 4 * t + 1 /\ c = 4 * t + 2 /\ d = 4 * t + 3
    OBVIOUS
  <2>2. a \in 0..63 /\ b \in 0..63 /\ c \in 0..63 /\ d \in 0..63
    BY <2>1
  <2>3. /\ r[64 * n + (a + 1)] = m[a] /\ r[64 * n + (b + 1)] = m[b]
        /\ r[64 * n + (c + 1)] = m[c] /\ r[64 * n + (d + 1)] = m[d]
    BY <2>2, Zenon DEF BlockAt
  <2>4. /\ 64 * (n + 1) - 63 + 4 * t = 64 * n + (a + 1)
        /\ 64 * (n + 1) - 62 + 4 * t = 64 * n + (b + 1)
        /\ 64 * (n + 1) - 61 + 4 * t = 64 * n + (c + 1)
        /\ 64 * (n + 1) - 60 + 4 * t = 64 * n + (d + 1)
    BY <2>1
  <2> QED
    BY <2>1, <2>3, <2>4, Zenon
<1>2. ASSUME NEW t \in 0..15
      PROVE  SwapEnds(<<m[4 * t + 3], m[4 * t + 2], m[4 * t + 1], m[4 * t]>>)
               = <<m[4 * t], m[4 * t + 1], m[4 * t + 2], m[4 * t + 3]>>
  BY DEF SwapEnds
<1>3. WordsAt(r, n + 1) = [t \in 0..15 |-> <<m[4 * t], m[4 * t + 1], m[4 * t + 2], m[4 * t + 3]>>]
  BY <1>1, Zenon DEF WordsAt
<1> QED
  BY <1>2, <1>3, Zenon DEF Loaded

\* A block more
LEMMA HashOfBlock ==
  ASSUME CompressesWords, NEW s \in Seq(Bytes), Len(s) % 64 = 0, NEW m \in Memory,
         NEW h, HashOf(h, s), NEW g, g = Compress(h, Loaded(m)), NEW r, r = s \o Block(m)
  PROVE  g \in Hashes /\ HashOf(g, r)
<1>1. PICK n \in Nat : Len(s) = 64 * n /\ n = Len(s) \div 64
  <2>1. Len(s) \in Nat
    BY LenProperties
  <2> QED
    BY <2>1
<1>2. PICK hs : HashedIn(hs, s, n) /\ h = hs[n]
  BY <1>1, Zenon DEF HashOf
<1>3. /\ hs \in [0..n -> Hashes] /\ hs[0] = H0
      /\ \A k \in 1..n : hs[k] = Compress(hs[k - 1], WordsAt(s, k))
  BY <1>2, Zenon DEF HashedIn
<1>4. g \in Hashes
  <2>1. n \in 0..n
    OBVIOUS
  <2>2. h \in Hashes
    BY <1>2, <1>3, <2>1, Zenon
  <2> QED
    BY <2>2, LoadedWords, Zenon DEF CompressesWords
<1>5. Len(r) = 64 * n + 64 /\ SameTo(64 * n, r, s) /\ BlockAt(64 * n, r, m)
  BY <1>1, AppendBlock, Zenon DEF Extends
<1>6. Len(r) \div 64 = n + 1
  BY <1>5
<1>7. PICK gs : gs = [k \in 0..(n + 1) |-> IF k = n + 1 THEN g ELSE hs[k]]
  OBVIOUS
<1>8. /\ gs \in [0..(n + 1) -> Hashes] /\ gs[n + 1] = g /\ gs[0] = hs[0]
      /\ \A k \in 1..n : gs[k] = hs[k] /\ gs[k - 1] = hs[k - 1]
      /\ gs[n] = hs[n]
  <2> HIDE DEF Hashes
  <2>1. \A k \in 0..n : k \in 0..(n + 1) /\ k # n + 1
    OBVIOUS
  <2>2. \A k \in 0..(n + 1) : k = n + 1 \/ k \in 0..n
    OBVIOUS
  <2>3. \A k \in 1..n : k \in 0..n /\ k - 1 \in 0..n
    OBVIOUS
  <2>4. n \in 0..n /\ 0 \in 0..n /\ n + 1 \in 0..(n + 1)
    OBVIOUS
  <2>5. \A k \in 0..n : gs[k] = hs[k]
    BY <1>7, <2>1, Zenon
  <2>6. gs[n + 1] = g
    BY <1>7, <2>4, Zenon
  <2>7. gs \in [0..(n + 1) -> Hashes]
    BY <1>3, <1>4, <1>7, <2>2, Zenon
  <2> QED
    BY <2>3, <2>4, <2>5, <2>6, <2>7, Zenon
<1>9. ASSUME NEW k \in 1..(n + 1)
      PROVE  gs[k] = Compress(gs[k - 1], WordsAt(r, k))
  <2>1. CASE k = n + 1
    <3>1. (n + 1) - 1 = n
      OBVIOUS
    <3>2. WordsAt(r, n + 1) = Loaded(m)
      BY <1>5, WordsLoaded, Zenon
    <3>3. gs[n + 1] = Compress(gs[n], WordsAt(r, n + 1))
      BY <1>2, <1>8, <3>2, Zenon
    <3> QED
      BY <2>1, <3>1, <3>3, Zenon
  <2>2. CASE k \in 1..n
    <3>1. WordsAt(r, k) = WordsAt(s, k)
      BY <1>5, <2>2, WordsOfBlock, Zenon
    <3> QED
      BY <1>3, <1>8, <2>2, <3>1, Zenon
  <2>3. k = n + 1 \/ k \in 1..n
    OBVIOUS
  <2> QED
    BY <2>1, <2>2, <2>3, Zenon
<1>10. HashedIn(gs, r, n + 1)
  BY <1>3, <1>8, <1>9, Zenon DEF HashedIn
<1> QED
  BY <1>4, <1>6, <1>8, <1>10, Zenon DEF HashOf

-----------------------------------------------------------------------------
\* Until Final, H is the hash of what was fed; then Digest is its bytes.
Hashing ==
  /\ ~finished => HashOf(H, fed)
  /\ finished => \E g \in Hashes : HashOf(g, fed) /\ Digest = DigestOf(g)

LEMMA HashOfNothing ==
  ASSUME H0 \in Hashes
  PROVE  HashOf(H0, <<>>)
<1>1. PICK hs : hs = [k \in 0..0 |-> H0]
  OBVIOUS
<1>2. 0 \in 0..0
  OBVIOUS
<1>3. hs \in [0..0 -> Hashes] /\ hs[0] = H0
  BY <1>1, <1>2, Zenon
<1>4. HashedIn(hs, <<>>, 0)
  <2>1. \A k \in 1..0 : FALSE
    OBVIOUS
  <2> QED
    BY <1>3, <2>1, Zenon DEF HashedIn
<1>5. Len(<<>>) \div 64 = 0
  OBVIOUS
<1> QED
  BY <1>3, <1>4, <1>5, Zenon DEF HashOf

\* Process keeps the hash, when Update calls it.
LEMMA UpdateHashes ==
  ASSUME CompressesWords, HashTypes, Collecting, HashOf(H, fed), NEW b \in Bytes, UpdateByte(b)
  PROVE  HashOf(H, fed)'
<1>1. /\ fed \in Seq(Bytes) /\ Len(fed) % 64 = 0 /\ cursor \in 0..63 /\ M \in Memory
  BY Zenon DEF Collecting
<1>2. PICK m \in Memory : m = [M EXCEPT ![cursor] = b]
  BY <1>1 DEF Memory
<1>3. CASE BlockFull(cursor + 1)
  <2>1. H' = Compress(H, Loaded(m)) /\ fed' = fed \o Block(m)
    BY <1>2, <1>3, Zenon DEF UpdateByte
  <2> QED
    BY <1>1, <2>1, HashOfBlock, Zenon
<1>4. CASE ~BlockFull(cursor + 1)
  <2>1. H' = H /\ fed' = fed
    BY <1>4, Zenon DEF UpdateByte
  <2> QED
    BY <2>1, Zenon DEF HashOf, HashedIn
<1> QED
  BY <1>3, <1>4

\* What Final leaves in H is read by Digest in the order of the hash.
LEMMA DigestIs ==
  ASSUME NEW g \in Hashes, H' = [t \in 1..5 |-> SwapEnds(g[t])]
  PROVE  Digest' = DigestOf(g)
<1>1. ASSUME NEW k \in 1..20
      PROVE  H'[((k - 1) \div 4) + 1][4 - ((k - 1) % 4)] = g[((k - 1) \div 4) + 1][((k - 1) % 4) + 1]
  <2>1. PICK t \in 1..5, j \in 0..3 : t = ((k - 1) \div 4) + 1 /\ j = (k - 1) % 4
    <3>1. ((k - 1) \div 4) + 1 \in 1..5 /\ (k - 1) % 4 \in 0..3
      OBVIOUS
    <3> QED
      BY <3>1, Zenon
  <2>2. PICK w : w = g[t]
    OBVIOUS
  <2>3. H'[t] = SwapEnds(w)
    BY <2>2, Zenon
  <2>4. SwapEnds(w)[4 - j] = w[j + 1]
    <3>1. j = 0 \/ j = 1 \/ j = 2 \/ j = 3
      OBVIOUS
    <3>2. /\ SwapEnds(w)[4] = w[1] /\ SwapEnds(w)[3] = w[2]
          /\ SwapEnds(w)[2] = w[3] /\ SwapEnds(w)[1] = w[4]
      BY DEF SwapEnds
    <3>3. /\ 4 - 0 = 4 /\ 4 - 1 = 3 /\ 4 - 2 = 2 /\ 4 - 3 = 1
          /\ 0 + 1 = 1 /\ 1 + 1 = 2 /\ 2 + 1 = 3 /\ 3 + 1 = 4
      OBVIOUS
    <3> QED
      BY <3>1, <3>2, <3>3, Zenon
  <2> QED
    BY <2>1, <2>2, <2>3, <2>4, Zenon
<1> QED
  BY <1>1, Zenon DEF Digest, DigestOf

LEMMA FinalHashes ==
  ASSUME CompressesWords, HashTypes, Collecting, HashOf(H, fed), Final
  PROVE  Hashing'
<1>1. /\ fed \in Seq(Bytes) /\ Len(fed) % 64 = 0 /\ cursor \in 0..63 /\ M \in Memory /\ l \in Nat
  BY Zenon DEF Collecting
<1>2. finished'
  BY DEF Final, FinalInOneBlock, FinalInTwoBlocks, Finish
<1>3. \E g \in Hashes : HashOf(g, fed') /\ H' = [t \in 1..5 |-> SwapEnds(g[t])]
  <2>1. CASE FinalInOneBlock
    <3>1. PICK m \in Memory : m = WithLength(Marked(M, 60))
      <4>1. Marked(M, 60) \in Memory
        BY <1>1, MarkedBytes DEF IsMarked
      <4> QED
        BY <1>1, <4>1, WithLengthBytes, Zenon
    <3>2. PICK g : g = Compress(H, Loaded(m))
      OBVIOUS
    <3>3. fed' = fed \o Block(m) /\ H' = [t \in 1..5 |-> SwapEnds(g[t])]
      BY <2>1, <3>1, <3>2, Zenon DEF FinalInOneBlock, Finish
    <3>4. g \in Hashes /\ HashOf(g, fed')
      BY <1>1, <3>2, <3>3, HashOfBlock, Zenon
    <3> QED
      BY <3>3, <3>4, Zenon
  <2>2. CASE FinalInTwoBlocks
    <3>1. PICK m1 \in Memory : m1 = Marked(M, 64)
      BY <1>1, MarkedBytes DEF IsMarked
    <3>2. PICK m \in Memory : m = [i \in 0..63 |-> IF i < 60 THEN 0 ELSE Swapped(m1)[i]]
      <4>1. PICK m2 \in Memory : m2 = Swapped(m1)
        BY SwappedBytes, Zenon
      <4>2. \A i \in 0..63 : (IF i < 60 THEN 0 ELSE m2[i]) \in Bytes
        <5>1. 0 \in Bytes
          BY DEF Bytes
        <5>2. \A i \in 0..63 : m2[i] \in Bytes
          BY Zenon DEF Memory
        <5> QED
          BY <5>1, <5>2, Zenon
      <4>3. [i \in 0..63 |-> IF i < 60 THEN 0 ELSE m2[i]] \in Memory
        BY <4>2 DEF Memory
      <4> QED
        BY <4>1, <4>3, Zenon
    <3>3. PICK m3 \in Memory : m3 = WithLength(m)
      BY <1>1, WithLengthBytes, Zenon
    <3>4. PICK h, s : h = Compress(H, Loaded(m1)) /\ s = fed \o Block(m1)
      OBVIOUS
    <3>5. PICK g : g = Compress(h, Loaded(m3))
      OBVIOUS
    <3>6. fed' = s \o Block(m3) /\ H' = [t \in 1..5 |-> SwapEnds(g[t])]
      BY <2>2, <3>1, <3>2, <3>3, <3>4, <3>5, Zenon DEF FinalInTwoBlocks, Finish
    <3>7. HashOf(h, s)
      BY <1>1, <3>4, HashOfBlock, Zenon
    <3>8. s \in Seq(Bytes) /\ Len(s) % 64 = 0
      <4>1. s \in Seq(Bytes) /\ Len(s) = Len(fed) + 64
        BY <1>1, <3>4, AppendBlock, Zenon DEF Extends
      <4>2. Len(fed) \in Nat
        BY <1>1, LenProperties, Zenon
      <4> QED
        BY <1>1, <4>1, <4>2
    <3>9. g \in Hashes /\ HashOf(g, fed')
      BY <3>5, <3>6, <3>7, <3>8, HashOfBlock, Zenon
    <3> QED
      BY <3>6, <3>9, Zenon
  <2> QED
    BY <2>1, <2>2 DEF Final
<1> QED
  BY <1>2, <1>3, DigestIs, Zenon DEF Hashing

-----------------------------------------------------------------------------
\* The key goes into the hash from its first byte to its last, and what is packed
\* is the digest.
Prefix == Len(message) <= Len(raw_key) /\ \A i \in 1..Len(message) : message[i] = raw_key[i]

Going ==
  /\ phase = "recv" => message = <<>> /\ ~finished
  /\ phase = "hash" => Prefix /\ ~finished
  /\ phase \in {"hashed", "done"} => message = raw_key /\ finished
  /\ phase = "done" => answer = PackHandshakeRsp(params, Base64encode(Digest))

AnswerInv == TakenIn /\ ShaInv /\ Judged /\ AnswerTypes /\ Hashing /\ Going

LEMMA GoingAtFirst ==
  ASSUME AnswerInit, AnswerTypes
  PROVE  Hashing /\ Going
<1>1. /\ phase = "recv" /\ message = <<>> /\ finished = FALSE /\ fed = <<>> /\ H = H0
  BY DEF AnswerInit, ShaInit
<1>2. H0 \in Hashes
  BY <1>1, Zenon DEF AnswerTypes, HashTypes
<1>3. HashOf(H, fed)
  BY <1>1, <1>2, HashOfNothing, Zenon
<1>4. Hashing
  BY <1>1, <1>3, Zenon DEF Hashing
<1>5. Going
  BY <1>1 DEF Going
<1> QED
  BY <1>4, <1>5

\* The next byte of the key
LEMMA PrefixGrows ==
  ASSUME message \in Seq(Bytes), raw_key \in Seq(Bytes), Prefix,
         Len(message) < Len(raw_key), raw_key' = raw_key,
         message' = Append(message, raw_key[Len(message) + 1])
  PROVE  Prefix'
<1>1. PICK n \in Nat, m \in Nat : n = Len(message) /\ m = Len(raw_key)
  BY LenProperties
<1>2. PICK b \in Bytes : b = raw_key[n + 1] /\ message' = Append(message, b)
  <2>1. n + 1 \in 1..m
    BY <1>1
  <2>2. raw_key[n + 1] \in Bytes
    BY <1>1, <2>1
  <2> QED
    BY <1>1, <2>2, Zenon
<1>3. PICK t \in Seq(Bytes) : /\ t = message' /\ Len(t) = n + 1 /\ t[n + 1] = b
                             /\ \A i \in 1..n : t[i] = message[i]
  <2>1. /\ Append(message, b) \in Seq(Bytes) /\ Len(Append(message, b)) = n + 1
        /\ Append(message, b)[n + 1] = b
        /\ \A i \in 1..n : Append(message, b)[i] = message[i]
    BY <1>1, AppendProperties
  <2> QED
    BY <1>2, <2>1, Zenon
<1>4. \A i \in 1..n : message[i] = raw_key[i]
  BY <1>1, Zenon DEF Prefix
<1>5. \A i \in 1..(n + 1) : i \in 1..n \/ i = n + 1
  OBVIOUS
<1>6. \A i \in 1..Len(t) : t[i] = raw_key[i]
  BY <1>2, <1>3, <1>4, <1>5, Zenon
<1>7. n + 1 <= m
  BY <1>1
<1>8. Len(t) <= Len(raw_key)
  BY <1>1, <1>3, <1>7, Zenon
<1> QED
  BY <1>3, <1>6, <1>8, Zenon DEF Prefix

LEMMA GoesOnHashing ==
  ASSUME CompressesWords, AnswerInv, [AnswerNext]_answerVars
  PROVE  Hashing' /\ Going'
<1>1. /\ raw_key \in Seq(Bytes) /\ message \in Seq(Bytes)
      /\ ~finished => Collecting /\ HashOf(H, fed)
      /\ HashTypes
  BY Zenon DEF AnswerInv, TakenIn, ShaInv, Hashing, AnswerTypes
<1>2. ASSUME UNCHANGED shaVars
      PROVE  Hashing' /\ Digest' = Digest /\ message' = message /\ finished' = finished
  <2>1. H' = H /\ fed' = fed /\ finished' = finished /\ message' = message
    BY <1>2 DEF shaVars
  <2>2. Digest' = Digest
    BY <2>1, Zenon DEF Digest
  <2>3. Hashing
    BY Zenon DEF AnswerInv
  <2> QED
    BY <2>1, <2>2, <2>3, Zenon DEF Hashing, HashOf, HashedIn
<1>3. CASE Recv
  <2>1. UNCHANGED shaVars /\ phase = "recv" /\ phase' \in {"refused", "waiting", "hash"}
    BY <1>3 DEF Recv
  <2>2. Hashing' /\ message' = message /\ finished' = finished
    BY <1>2, <2>1, Zenon
  <2>3. message' = <<>> /\ ~finished'
    BY <2>1, <2>2, Zenon DEF AnswerInv, Going
  <2>4. Prefix'
    <3>1. TakenIn'
      BY TakesIn, Zenon DEF AnswerInv
    <3>2. raw_key' \in Seq(Bytes)
      BY <3>1, Zenon DEF TakenIn
    <3>3. Len(raw_key') \in Nat
      BY <3>2, LenProperties, Zenon
    <3> QED
      BY <2>3, <3>3 DEF Prefix
  <2>5. phase' # "recv" /\ ~(phase' \in {"hashed", "done"}) /\ phase' # "done"
    BY <2>1
  <2> QED
    BY <2>2, <2>3, <2>4, <2>5, Zenon DEF Going
<1>4. CASE HashByte
  <2>1. PICK b : b = raw_key[Len(message) + 1]
    OBVIOUS
  <2>2. /\ phase = "hash" /\ phase' = phase /\ raw_key' = raw_key
        /\ Len(message) < Len(raw_key) /\ UpdateByte(b)
    BY <1>4, <2>1, Zenon DEF HashByte
  <2>3. b \in Bytes
    BY <1>1, <2>1, <2>2
  <2>4. ~finished /\ finished' = finished /\ message' = Append(message, b)
    BY <2>2, Zenon DEF UpdateByte
  <2>5. HashOf(H, fed)'
    BY <1>1, <2>2, <2>3, <2>4, UpdateHashes, Zenon
  <2>6. Prefix
    BY <2>2, Zenon DEF AnswerInv, Going
  <2>7. Prefix'
    BY <1>1, <2>1, <2>2, <2>4, <2>6, PrefixGrows, Zenon
  <2>8. phase' # "recv" /\ ~(phase' \in {"hashed", "done"}) /\ phase' # "done"
    BY <2>2
  <2>9. Hashing'
    BY <2>4, <2>5, Zenon DEF Hashing
  <2>10. Going'
    BY <2>4, <2>7, <2>8, Zenon DEF Going
  <2> QED
    BY <2>9, <2>10
<1>5. CASE HashFinal
  <2>1. /\ phase = "hash" /\ phase' = "hashed" /\ raw_key' = raw_key
        /\ Len(message) = Len(raw_key) /\ Final
    BY <1>5, Zenon DEF HashFinal
  <2>2. message' = message /\ finished' /\ ~finished
    BY <2>1 DEF Final, FinalInOneBlock, FinalInTwoBlocks, Finish
  <2>3. Hashing'
    BY <1>1, <2>1, <2>2, FinalHashes, Zenon
  <2>4. \A i \in 1..Len(message) : message[i] = raw_key[i]
    BY <2>1, Zenon DEF AnswerInv, Going, Prefix
  <2>5. message = raw_key
    BY <1>1, <2>1, <2>4, SeqEqual, Zenon
  <2>6. phase' # "recv" /\ phase' # "hash" /\ phase' # "done"
    BY <2>1
  <2>7. Going'
    BY <2>1, <2>2, <2>5, <2>6, Zenon DEF Going
  <2> QED
    BY <2>3, <2>7
<1>6. CASE PackAnswer
  <2>1. /\ phase = "hashed" /\ phase' = "done" /\ UNCHANGED shaVars
        /\ params' = params /\ raw_key' = raw_key
        /\ answer' = PackHandshakeRsp(params, Base64encode(Digest))
    BY <1>6 DEF PackAnswer
  <2>2. Hashing' /\ Digest' = Digest /\ message' = message /\ finished' = finished
    BY <1>2, <2>1, Zenon
  <2>3. message = raw_key /\ finished
    BY <2>1 DEF AnswerInv, Going
  <2>4. answer' = PackHandshakeRsp(params', Base64encode(Digest'))
    BY <2>1, <2>2, Zenon
  <2>5. phase' # "recv" /\ phase' # "hash"
    BY <2>1
  <2>6. Going'
    BY <2>1, <2>2, <2>3, <2>4, <2>5, Zenon DEF Going
  <2> QED
    BY <2>2, <2>6
<1>7. CASE UNCHANGED answerVars
  <2>1. /\ UNCHANGED shaVars /\ phase' = phase /\ params' = params
        /\ raw_key' = raw_key /\ answer' = answer
    BY <1>7 DEF answerVars
  <2>2. Hashing' /\ Digest' = Digest /\ message' = message /\ finished' = finished
    BY <1>2, <2>1, Zenon
  <2>3. Going
    BY Zenon DEF AnswerInv
  <2>4. Going'
    BY <2>1, <2>2, <2>3, Zenon DEF Going, Prefix
  <2> QED
    BY <2>2, <2>4
<1> QED
  BY <1>3, <1>4, <1>5, <1>6, <1>7 DEF AnswerNext

\* A client computes the accept key as RFC 6455, 4.2.2 says: Base64 of the hash of
\* its key with the GUID behind it, padded.
ClientComputes ==
  \A key \in Seq(Bytes) : \A h :
    8 * Len(key \o magic_key) < Wrap /\ HashOf(h, Padded(key \o magic_key))
      => ExpectedAccept(key) = StandardBase64(DigestOf(h))

\* A key is too short to fill up l.
LEMMA KeyIsCounted ==
  ASSUME NEW r \in Requests, PlainRequest(r), r.valid, 8 * (MaxHandshake + 36) < Wrap
  PROVE  8 * Len(r.key \o magic_key) < Wrap
<1>1. PICK lines, fields : SaysIn(r, lines, fields)
  BY Zenon DEF PlainRequest
<1>2. Len(r.key) <= Len(r.bytes)
  <2>1. SaysRequest(lines, fields) /\ r.bytes = EncodeRequest(lines)
    BY <1>1, Zenon DEF SaysIn
  <2>2. r.key = Said(fields, Text["Sec-WebSocket-Key"])
    BY <1>1, Zenon DEF SaysIn
  <2> QED
    BY <2>1, <2>2, ValueIsShort, Zenon
<1>3. r.key \in Seq(Bytes) /\ r.bytes \in Seq(Bytes) /\ Len(r.bytes) <= MaxHandshake
  BY RequestsAssumption, Zenon DEF PlainRequest
<1>4. PICK key \in Seq(Bytes), magic \in Seq(Bytes) :
        key = r.key /\ magic = magic_key /\ Len(magic) = 36
  <2>1. magic_key \in Seq(Bytes) /\ Len(magic_key) = 36
    BY DEF magic_key, Bytes
  <2> QED
    BY <1>3, <2>1, Zenon
<1>5. Len(key \o magic) = Len(key) + Len(magic)
  BY ConcatProperties, Zenon
<1>6. PICK n \in Nat, m \in Nat : n = Len(key) /\ m = Len(r.bytes)
  BY <1>3, LenProperties
<1>7. n <= m /\ m <= MaxHandshake
  BY <1>2, <1>3, <1>4, <1>6, Zenon
<1>8. MaxHandshake \in Nat /\ Wrap \in Nat
  BY HandshakeAssumption, ShaAssumption, ZenonT(60)
<1>9. 8 * (n + 36) < Wrap
  BY <1>7, <1>8
<1>10. Len(r.key \o magic_key) = n + 36
  BY <1>4, <1>5, <1>6, Zenon
<1> QED
  BY <1>9, <1>10, Zenon

LEMMA KeyIsFound ==
  ASSUME ClientComputes, 8 * (MaxHandshake + 36) < Wrap, AnswerInv, PlainRequest(request)
  PROVE  AcceptFound
<1>1. SUFFICES ASSUME phase = "done"
               PROVE  /\ Find(answer, EOL \o Text["Sec-WebSocket-Accept"] \o <<COLON, SP>>
                                          \o ExpectedAccept(request.key) \o EOL, 1) # 0
                      /\ (Find(answer, EOL \o Text["Sec-WebSocket-Protocol"] \o <<COLON>>, 1) # 0)
                           <=> request.offers
  BY Zenon DEF AcceptFound
<1>2. phase \in {"hash", "hashed", "done"} /\ phase \in {"hashed", "done"}
  BY <1>1
<1>3. /\ request.valid /\ raw_key = request.key \o magic_key
      /\ (GetParam(params, "Sec-WebSocket-Protocol") # <<>>) = request.offers
  BY <1>2, Zenon DEF AnswerInv, Judged, JudgedRight, Answering
<1>4. /\ message = raw_key /\ finished
      /\ answer = PackHandshakeRsp(params, Base64encode(Digest))
  BY <1>1, <1>2, Zenon DEF AnswerInv, Going
<1>5. request \in Requests /\ request.key \in Seq(Bytes) /\ request.offers \in BOOLEAN
  BY RequestsAssumption, Zenon DEF AnswerInv, TakenIn
<1>6. 8 * Len(request.key \o magic_key) < Wrap
  BY <1>3, <1>5, KeyIsCounted, Zenon
<1>7. fed = Padded(request.key \o magic_key)
  BY <1>3, <1>4, <1>6, Zenon DEF AnswerInv, ShaInv, BlocksArePadded
<1>8. PICK g \in Hashes : HashOf(g, fed) /\ Digest = DigestOf(g)
  BY <1>4, Zenon DEF AnswerInv, Hashing
<1>9. ExpectedAccept(request.key) = StandardBase64(Digest)
  BY <1>5, <1>6, <1>7, <1>8, Zenon DEF ClientComputes
<1>10. Digest \in Seq(Bytes)
  BY DigestBytes, Zenon DEF AnswerInv, AnswerTypes
<1>11. PICK accept \in Seq(Unbroken) : accept = Base64encode(Digest)
  BY <1>10, CodedUnbroken, Zenon
<1>12. accept = ExpectedAccept(request.key)
  BY <1>9, <1>10, <1>11, EncodesByTheStandard, Zenon
<1>13. answer = PackHandshakeRsp(params, accept)
  BY <1>4, <1>11, Zenon
<1>14. /\ Find(answer, EOL \o Text["Sec-WebSocket-Accept"] \o <<COLON, SP>> \o accept \o EOL, 1) # 0
       /\ (Find(answer, EOL \o Text["Sec-WebSocket-Protocol"] \o <<COLON>>, 1) # 0)
            <=> GetParam(params, "Sec-WebSocket-Protocol") # <<>>
  BY <1>13, AnswerIsRead, Zenon
<1> QED
  BY <1>3, <1>5, <1>12, <1>14, Zenon

\* Whoever sends a request that says what it means: if it is answered, the client
\* finds in the answer the accept key that it computes for itself, provided that
\* Compress is the compression function of the hash that it computes, and a
\* subprotocol if and only if it offered one.
THEOREM AnswersAreAccepted ==
  ASSUME CompressesWords, ClientComputes, 8 * (MaxHandshake + 36) < Wrap
  PROVE  AnswerSpec => []ClientAccepts
<1>1. AnswerSpec => []TakenIn /\ []ShaInv /\ []Judged /\ []AnswerTypes
  BY RequestIsTakenIn, AnswerHashes, CollectsOrPads, JudgedHolds, AnswerTypesKept, PTL
<1>2. AnswerInit /\ AnswerTypes => Hashing /\ Going
  BY GoingAtFirst
<1>3. AnswerInv /\ [AnswerNext]_answerVars => Hashing' /\ Going'
  BY GoesOnHashing
<1>4. TakenIn /\ ShaInv /\ Judged /\ AnswerTypes /\ Hashing /\ Going <=> AnswerInv
  BY DEF AnswerInv
<1>5. AnswerInv => ClientAccepts
  BY NamedIsPlain, KeyIsFound, Zenon DEF ClientAccepts
<1> QED
  BY <1>1, <1>2, <1>3, <1>4, <1>5, PTL DEF AnswerSpec
=============================================================================
