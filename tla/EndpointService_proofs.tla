----------------------- MODULE EndpointService_proofs -----------------------
(***************************************************************************)
(* What the endpoint makes of a peer whose bytes are a request and masked  *)
(* frames: for every such peer and every cut into reads that leaves the    *)
(* headers of frames whole, unless they are sturdy.                        *)
(***************************************************************************)
EXTENDS EndpointService, WebSocketEndpoint_proofs, FiniteSetTheorems

\* Frame k of p, from position a on, with its header up to h and its last byte at e
FrameAt(p, k, f, a, h, e) ==
  /\ f = p.frames[k] /\ IsShortFrame(f) /\ f.key # <<>>
  /\ a = EndOf(p, k - 1) /\ h = p.header[k] /\ e = EndOf(p, k)
  /\ a \in Nat /\ h \in Nat /\ e \in Nat
  /\ EncodeFrame(f) \in Seq(Bytes)
  /\ Len(EncodeHeader(f)) \in Nat /\ Len(EncodeFrame(f)) \in Nat
  /\ h = a + Len(EncodeHeader(f)) /\ e = a + Len(EncodeFrame(f))
  /\ Len(EncodeFrame(f)) > 0
  /\ SubSeq(p.bytes, a + 1, e) = EncodeFrame(f)

\* The frames of a well-formed peer are short frames, and masked.
LEMMA MaskedIsShort ==
  ASSUME NEW f \in MaskedFrames, HasShortLength(Len(f.payload))
  PROVE  IsShortFrame(f) /\ f.key # <<>>
<1>1. f.key # <<>>
  BY KeyIs DEF MaskedFrames
<1>2. IsShort(Len(f.payload))
  BY SMT DEF IsShort, HasShortLength
<1>3. /\ f.fin \in {0, 1} /\ f.opcode \in 0..127 /\ f.key \in [1..4 -> Bytes]
      /\ f.payload \in Seq(Bytes)
  BY DEF MaskedFrames
<1> QED
  BY <1>1, <1>2, <1>3, Zenon DEF IsShortFrame, IsFrame

\* A frame has at least the two bytes of its header.
LEMMA FrameIsLonger ==
  ASSUME NEW f, IsShortFrame(f)
  PROVE  /\ EncodeFrame(f) \in Seq(Bytes)
         /\ Len(EncodeHeader(f)) \in Nat /\ Len(EncodeFrame(f)) \in Nat
         /\ Len(EncodeFrame(f)) > 0
<1>1. PICK w, h : w = EncodeFrame(f) /\ h = Len(EncodeHeader(f))
  OBVIOUS
<1>2. FrameBytes(f, w, h)
  BY <1>1, FrameBytesAre, Zenon
<1>3. f.payload \in Seq(Bytes)
  BY ShortFrameIs, Zenon
<1>4. w \in Seq(Bytes) /\ h \in Nat /\ Len(w) \in Nat /\ Len(w) > 0
  <2>1. w \in Seq(Bytes) /\ h \in 2..8 /\ Len(w) = h + Len(f.payload)
    BY <1>2, Zenon DEF FrameBytes
  <2>2. PICK n \in Nat : n = Len(f.payload)
    BY <1>3, LenProperties
  <2> QED
    BY <2>1, <2>2
<1> QED
  BY <1>1, <1>4, Zenon

\* Each frame of a well-formed peer stands where the one before it ends.
LEMMA FrameIsAt ==
  ASSUME NEW p, WellFormed(p), NEW k \in 1..Len(p.frames)
  PROVE  \E f, a, h, e : FrameAt(p, k, f, a, h, e)
<1>1. PICK f : f = p.frames[k]
  OBVIOUS
<1>2. p.frames \in Seq(MaskedFrames)
  BY Zenon DEF WellFormed
<1>3. PICK n \in Nat : n = Len(p.frames)
  BY <1>2, LenProperties
<1>4. f \in MaskedFrames
  BY <1>1, <1>2
<1>5. /\ HasShortLength(Len(f.payload))
      /\ p.header[k] = EndOf(p, k - 1) + Len(EncodeHeader(f))
      /\ p.end[k] = EndOf(p, k - 1) + Len(EncodeFrame(f))
      /\ SubSeq(p.bytes, EndOf(p, k - 1) + 1, p.end[k]) = EncodeFrame(f)
  BY <1>1, Zenon DEF WellFormed
<1>6. IsShortFrame(f) /\ f.key # <<>>
  BY <1>4, <1>5, MaskedIsShort, Zenon
<1>7. /\ EncodeFrame(f) \in Seq(Bytes)
      /\ Len(EncodeHeader(f)) \in Nat /\ Len(EncodeFrame(f)) \in Nat
      /\ Len(EncodeFrame(f)) > 0
  BY <1>6, FrameIsLonger, Zenon
<1>8. k \in 1..n /\ k # 0 /\ (k - 1 # 0 => k - 1 \in 1..n)
  BY <1>3
<1>9. p.request \in Nat /\ p.header \in [1..n -> Nat] /\ p.end \in [1..n -> Nat]
  BY <1>3, Zenon DEF WellFormed
<1>10. EndOf(p, k) = p.end[k]
  BY <1>8, Zenon DEF EndOf
<1>11. EndOf(p, k - 1) \in Nat /\ p.header[k] \in Nat /\ p.end[k] \in Nat
  BY <1>8, <1>9 DEF EndOf
<1> QED
  BY <1>1, <1>5, <1>6, <1>7, <1>10, <1>11, Zenon DEF FrameAt

\* Every end is a number, and the last one is the end of all.
LEMMA EndIs ==
  ASSUME NEW p, WellFormed(p)
  PROVE  /\ Len(p.frames) \in Nat /\ EndOf(p, 0) = p.request /\ p.request \in Nat
         /\ \A k \in 0..Len(p.frames) : EndOf(p, k) \in Nat
         /\ Len(p.bytes) = EndOf(p, Len(p.frames))
<1>1. p.frames \in Seq(MaskedFrames) /\ p.request \in Nat
  BY Zenon DEF WellFormed
<1>2. PICK n \in Nat : n = Len(p.frames)
  BY <1>1, LenProperties
<1>3. p.end \in [1..n -> Nat] /\ Len(p.bytes) = EndOf(p, n)
  BY <1>2, Zenon DEF WellFormed
<1>4. \A k \in 0..n : EndOf(p, k) \in Nat
  BY <1>1, <1>3 DEF EndOf
<1>5. EndOf(p, 0) = p.request
  BY DEF EndOf
<1> QED
  BY <1>1, <1>2, <1>3, <1>4, <1>5, Zenon

\* The ends grow from frame to frame, and so they do over any number of frames.
LEMMA EndsGrow ==
  ASSUME NEW p, WellFormed(p), NEW j \in 0..Len(p.frames), NEW k \in 0..Len(p.frames), j < k
  PROVE  EndOf(p, j) < EndOf(p, k)
<1>1. PICK n \in Nat : n = Len(p.frames)
  BY EndIs
<1>2. \A i \in 0..n : EndOf(p, i) \in Nat
  BY <1>1, EndIs
<1>3. \A i \in 1..n : EndOf(p, i - 1) < EndOf(p, i)
  <2> TAKE i \in 1..n
  <2>1. PICK f, a, h, e : FrameAt(p, i, f, a, h, e)
    BY <1>1, FrameIsAt
  <2>2. PICK m : m = Len(EncodeFrame(f))
    OBVIOUS
  <2>3. a = EndOf(p, i - 1) /\ e = EndOf(p, i) /\ a \in Nat /\ m \in Nat /\ e = a + m /\ m > 0
    BY <2>1, <2>2, Zenon DEF FrameAt
  <2> QED
    BY <2>3
<1> DEFINE T == {i \in 0..n : i > j /\ EndOf(p, i) <= EndOf(p, j)}
<1>4. T = {}
  <2> SUFFICES ASSUME T # {} PROVE FALSE
    OBVIOUS
  <2>1. T \in SUBSET Nat
    OBVIOUS
  <2>2. PICK i \in T : \A l \in T : i <= l
    BY <2>1, FirstExists
  <2>3. i \in 0..n /\ i > j /\ EndOf(p, i) <= EndOf(p, j) /\ j \in 0..n
    BY <1>1
  <2>4. i \in 1..n /\ i - 1 \in 0..n /\ i - 1 >= j /\ ~(i <= i - 1)
    BY <2>3
  <2>5. i - 1 \notin T
    BY <2>2, <2>4
  <2>6. EndOf(p, i - 1) < EndOf(p, i)
    BY <1>3, <2>4
  <2>7. EndOf(p, i - 1) \in Nat /\ EndOf(p, i) \in Nat /\ EndOf(p, j) \in Nat
    BY <1>2, <2>3, <2>4
  <2>8. CASE i - 1 = j
    BY <2>3, <2>6, <2>7, <2>8
  <2>9. CASE i - 1 # j
    <3>1. i - 1 > j
      BY <2>3, <2>4, <2>9
    <3>2. ~(EndOf(p, i - 1) <= EndOf(p, j))
      BY <2>4, <2>5, <3>1
    <3> QED
      BY <2>3, <2>6, <2>7, <3>2
  <2> QED
    BY <2>8, <2>9
<1>5. ~(EndOf(p, k) <= EndOf(p, j))
  BY <1>1, <1>4
<1>6. EndOf(p, k) \in Nat /\ EndOf(p, j) \in Nat
  BY <1>1, <1>2
<1> QED
  BY <1>5, <1>6

\* No two frames end at the same place.
LEMMA EndsApart ==
  ASSUME NEW p, WellFormed(p), NEW j \in 0..Len(p.frames), NEW k \in 0..Len(p.frames),
         EndOf(p, j) = EndOf(p, k)
  PROVE  j = k
<1>1. PICK n \in Nat : n = Len(p.frames)
  BY EndIs
<1>2. j < k => EndOf(p, j) < EndOf(p, k)
  BY EndsGrow
<1>3. k < j => EndOf(p, k) < EndOf(p, j)
  BY EndsGrow
<1>4. EndOf(p, j) \in Nat
  BY EndIs
<1> QED
  BY <1>1, <1>2, <1>3, <1>4

\* The last frame ends no earlier than any other.
LEMMA EndsWithin ==
  ASSUME NEW p, WellFormed(p), NEW k \in 0..Len(p.frames)
  PROVE  EndOf(p, k) <= Len(p.bytes)
<1>1. PICK n \in Nat : n = Len(p.frames)
  BY EndIs
<1>2. EndOf(p, k) \in Nat /\ EndOf(p, n) \in Nat /\ Len(p.bytes) = EndOf(p, n)
  BY <1>1, EndIs
<1>3. CASE k = n
  BY <1>2, <1>3
<1>4. CASE k # n
  <2>1. k \in 0..n /\ n \in 0..n /\ k < n
    BY <1>1, <1>4
  <2>2. EndOf(p, k) < EndOf(p, n)
    BY <1>1, <2>1, EndsGrow
  <2> QED
    BY <1>2, <2>2
<1> QED
  BY <1>3, <1>4

\* n bytes of p contain k frames, and not the whole of the next one.
Contains(p, n, k) ==
  /\ k \in 0..Len(p.frames) /\ n \in Nat /\ EndOf(p, k) <= n
  /\ k < Len(p.frames) => n < EndOf(p, k + 1)

\* Counting the frames that are complete finds these k.
LEMMA FramesCounted ==
  ASSUME NEW p, WellFormed(p), p.valid, NEW n, NEW k, Contains(p, n, k)
  PROVE  FramesIn(p, n) = k
<1>1. PICK m \in Nat : m = Len(p.frames)
  BY EndIs
<1>2. /\ k \in 0..m /\ n \in Nat /\ EndOf(p, k) <= n
      /\ k < m => n < EndOf(p, k + 1)
  BY <1>1, Zenon DEF Contains
<1>3. \A j \in 0..m : EndOf(p, j) \in Nat
  BY <1>1, EndIs
<1>4. \A j \in 1..m : p.end[j] = EndOf(p, j)
  BY DEF EndOf
<1>5. \A j \in 1..m : p.end[j] <= n <=> j <= k
  <2> TAKE j \in 1..m
  <2>1. j \in 0..m /\ k \in 0..m /\ EndOf(p, j) \in Nat /\ EndOf(p, k) \in Nat
    BY <1>2, <1>3
  <2>2. CASE j < k
    <3>1. EndOf(p, j) < EndOf(p, k)
      BY <1>1, <2>1, <2>2, EndsGrow
    <3> QED
      BY <1>2, <1>4, <2>1, <2>2, <3>1
  <2>3. CASE j = k
    BY <1>2, <1>4, <2>1, <2>3
  <2>4. CASE j > k
    <3>1. k + 1 \in 0..m /\ k < m /\ j >= k + 1
      BY <2>1, <2>4
    <3>2. EndOf(p, k + 1) \in Nat /\ n < EndOf(p, k + 1)
      BY <1>2, <1>3, <3>1
    <3>3. EndOf(p, k + 1) <= EndOf(p, j)
      <4>1. CASE j = k + 1
        BY <2>1, <4>1
      <4>2. CASE j # k + 1
        <5>1. k + 1 < j
          BY <2>1, <3>1, <4>2
        <5>2. EndOf(p, k + 1) < EndOf(p, j)
          BY <1>1, <2>1, <3>1, <5>1, EndsGrow
        <5> QED
          BY <2>1, <3>2, <5>2
      <4> QED
        BY <4>1, <4>2
    <3>4. ~(EndOf(p, j) <= n)
      BY <1>2, <2>1, <3>2, <3>3
    <3> QED
      BY <1>4, <2>1, <2>4, <3>4
  <2> QED
    BY <2>1, <2>2, <2>3, <2>4
<1>6. {j \in 1..m : p.valid /\ p.end[j] <= n} = 1..k
  BY <1>2, <1>5
<1>7. Cardinality(1..k) = k
  <2>1. Cardinality(1..k) = IF 1 > k THEN 0 ELSE k - 1 + 1
    BY <1>2, FS_Interval
  <2> QED
    BY <1>2, <2>1
<1> QED
  BY <1>1, <1>6, <1>7 DEF FramesIn

\* What is received behind the frames before it begins with a frame, or is a
\* part of it.
LEMMA FrameInFront ==
  ASSUME NEW p, WellFormed(p), p.bytes \in Seq(Bytes), NEW k \in 1..Len(p.frames),
         NEW f, NEW a, NEW h, NEW e, FrameAt(p, k, f, a, h, e),
         NEW r \in Nat, a <= r, r <= Len(p.bytes)
  PROVE  LET d == SubSeq(p.bytes, a + 1, r)
         IN  d \in Seq(Bytes) /\ Len(d) = r - a /\ Begins(d, EncodeFrame(f))
<1>1. PICK s \in Seq(Bytes) : s = p.bytes
  OBVIOUS
<1>2. PICK w \in Seq(Bytes) : w = EncodeFrame(f)
  BY Zenon DEF FrameAt
<1>3. a \in Nat /\ e \in Nat /\ e = a + Len(w) /\ SubSeq(s, a + 1, e) = w
  BY <1>1, <1>2, Zenon DEF FrameAt
<1>4. e <= Len(s)
  <2>1. k \in 0..Len(p.frames)
    BY EndIs
  <2> QED
    BY <1>1, <2>1, EndsWithin DEF FrameAt
<1>5. Len(w) \in Nat /\ Len(s) \in Nat
  BY LenProperties
<1>6. PICK d : d = SubSeq(s, a + 1, r)
  OBVIOUS
<1>7. /\ d \in Seq(Bytes) /\ Len(d) = r - a
      /\ \A i \in 1..(r - a) : d[i] = s[a + i]
  BY <1>1, <1>3, <1>6, BytesBetween
<1>8. \A i \in 1..Len(w) : w[i] = s[a + i]
  <2>1. a <= e /\ e - a = Len(w) /\ w = SubSeq(s, a + 1, e)
    BY <1>3, <1>5
  <2>2. \A i \in 1..(e - a) : w[i] = s[a + i]
    BY <1>3, <1>4, <2>1, BytesBetween
  <2> QED
    BY <2>1, <2>2, Zenon
<1>9. Begins(d, w)
  BY <1>3, <1>5, <1>7, <1>8 DEF Begins
<1> QED
  BY <1>1, <1>2, <1>6, <1>7, <1>9, Zenon

(***************************************************************************)
(* The request                                                             *)
(***************************************************************************)

Hits(s, what) == {i \in 1..(Len(s) + 1 - Len(what)) : SubSeq(s, i, i + Len(what) - 1) = what}

\* find() returns the first of the positions where what stands, if there is one.
LEMMA FindIs ==
  ASSUME NEW s \in Seq(Bytes), NEW what \in Seq(Bytes)
  PROVE  /\ Hits(s, what) = {} => Find(s, what, 1) = 0
         /\ Hits(s, what) # {} => IsFirst(Find(s, what, 1), Hits(s, what))
<1> DEFINE hits == Hits(s, what)
<1>1. hits \in SUBSET Nat
  BY LenProperties DEF Hits
<1>2. Find(s, what, 1) = IF hits = {} THEN 0 ELSE CHOOSE i \in hits : \A j \in hits : i <= j
  BY Zenon DEF Find, Hits
<1> HIDE DEF hits
<1>3. hits # {} => \E i \in hits : \A j \in hits : i <= j
  BY <1>1, FirstExists
<1>4. hits # {} => IsFirst(CHOOSE i \in hits : \A j \in hits : i <= j, hits)
  BY <1>3, Zenon DEF IsFirst
<1>5. hits # {} => IsFirst(Find(s, what, 1), hits)
  BY <1>2, <1>4, Zenon
<1> QED
  BY <1>2, <1>5, Zenon DEF hits

\* d begins with all of s.
Continues(d, s) ==
  /\ s \in Seq(Bytes) /\ d \in Seq(Bytes) /\ Len(s) <= Len(d)
  /\ \A i \in 1..Len(s) : d[i] = s[i]

\* What is found in s is found at the same place in what begins with s.
LEMMA FoundInFront ==
  ASSUME NEW s, NEW d, Continues(d, s), NEW what \in Seq(Bytes), Len(what) > 0,
         Find(s, what, 1) # 0
  PROVE  /\ Find(d, what, 1) = Find(s, what, 1)
         /\ Find(s, what, 1) \in 1..Len(s)
         /\ SubSeq(d, 1, Find(s, what, 1) - 1) = SubSeq(s, 1, Find(s, what, 1) - 1)
<1>1. /\ s \in Seq(Bytes) /\ d \in Seq(Bytes)
      /\ Len(s) <= Len(d) /\ \A i \in 1..Len(s) : d[i] = s[i]
  BY DEF Continues
<1>2. PICK n \in Nat, m \in Nat, l \in Nat : n = Len(s) /\ m = Len(d) /\ l = Len(what)
  BY <1>1, LenProperties
<1>3. n <= m /\ l > 0
  BY <1>1, <1>2
<1>4. PICK x, y : x = Find(s, what, 1) /\ y = Find(d, what, 1)
  OBVIOUS
<1>5. \A c, r \in Nat : c <= r /\ r <= n => SubSeq(d, c + 1, r) = SubSeq(s, c + 1, r)
  BY <1>1, <1>2, <1>3, SamePrefix
<1>6. \A i \in 1..(n + 1 - l) : SubSeq(d, i, i + l - 1) = SubSeq(s, i, i + l - 1)
  <2> TAKE i \in 1..(n + 1 - l)
  <2>1. PICK c \in Nat, r \in Nat : c = i - 1 /\ r = i + l - 1
    BY <1>3
  <2>2. c <= r /\ r <= n /\ c + 1 = i
    BY <1>3, <2>1
  <2>3. SubSeq(d, c + 1, r) = SubSeq(s, c + 1, r)
    BY <1>5, <2>2
  <2>4. SubSeq(d, i, r) = SubSeq(s, i, r)
    BY <2>2, <2>3, Zenon
  <2>5. r = i + l - 1
    BY <2>1
  <2> QED
    BY <2>4, <2>5
<1>7. /\ Hits(s, what) = {i \in 1..(n + 1 - l) : SubSeq(s, i, i + l - 1) = what}
      /\ Hits(d, what) = {i \in 1..(m + 1 - l) : SubSeq(d, i, i + l - 1) = what}
  BY <1>2, Zenon DEF Hits
<1>8. /\ Hits(s, what) \subseteq Hits(d, what)
      /\ \A i \in Hits(d, what) : i <= n + 1 - l => i \in Hits(s, what)
  <2>1. 1..(n + 1 - l) \subseteq 1..(m + 1 - l)
    BY <1>3
  <2>2. \A i \in 1..(m + 1 - l) : i <= n + 1 - l => i \in 1..(n + 1 - l)
    BY <1>3
  <2> QED
    BY <1>6, <1>7, <2>1, <2>2, Zenon
<1>9. IsFirst(x, Hits(s, what))
  BY <1>1, <1>4, FindIs, Zenon
<1>10. IsFirst(y, Hits(d, what))
  <2>1. Hits(d, what) # {}
    BY <1>8, <1>9 DEF IsFirst
  <2> QED
    BY <1>1, <1>4, <2>1, FindIs, Zenon
<1>11. x \in 1..(n + 1 - l) /\ y \in 1..(m + 1 - l)
  BY <1>7, <1>9, <1>10, Zenon DEF IsFirst
<1>12. y <= x
  BY <1>8, <1>9, <1>10, Zenon DEF IsFirst
<1>13. y \in Hits(s, what)
  <2>1. y <= n + 1 - l
    BY <1>2, <1>11, <1>12
  <2> QED
    BY <1>8, <1>10, <2>1, Zenon DEF IsFirst
<1>14. x = y
  BY <1>9, <1>11, <1>12, <1>13 DEF IsFirst
<1>15. x \in 1..n
  BY <1>3, <1>11
<1>16. SubSeq(d, 1, x - 1) = SubSeq(s, 1, x - 1)
  <2>1. 0 \in Nat /\ x - 1 \in Nat /\ 0 <= x - 1 /\ x - 1 <= n /\ 0 + 1 = 1
    BY <1>15
  <2> QED
    BY <1>5, <2>1, Zenon
<1> QED
  BY <1>2, <1>4, <1>14, <1>15, <1>16, Zenon

\* A whole request is read the same whatever is behind it.
LEMMA RequestInFront ==
  ASSUME NEW s, NEW d, Continues(d, s), FetchHsElement(s).size # -1
  PROVE  FetchHsElement(d) = FetchHsElement(s)
<1>1. PICK what : what = EOL \o EOL
  OBVIOUS
<1>2. what \in Seq(Bytes) /\ Len(what) > 0
  BY <1>1 DEF EOL, CR, LF, Bytes
<1>3. PICK x : x = Find(s, what, 1)
  OBVIOUS
<1>4. NoRequest.size = -1
  BY DEF NoRequest
<1>5. x # 0
  BY <1>1, <1>3, <1>4, Zenon DEF FetchHsElement
<1>6. Find(d, what, 1) = x /\ SubSeq(d, 1, x - 1) = SubSeq(s, 1, x - 1)
  BY <1>2, <1>3, <1>5, FoundInFront, Zenon
<1>7. FetchHsElement(s) = ReadLines(SplitStr(SubSeq(s, 1, x - 1), EOL), x)
  BY <1>1, <1>3, <1>5, Zenon DEF FetchHsElement
<1>8. FetchHsElement(d) = ReadLines(SplitStr(SubSeq(d, 1, x - 1), EOL), x)
  BY <1>1, <1>5, <1>6, Zenon DEF FetchHsElement
<1> QED
  BY <1>6, <1>7, <1>8, Zenon

\* fetch_hs_element looks at *lines.end() only if it finds no request.
LEMMA FoundIsReadable ==
  ASSUME NEW msg, FetchHsElement(msg).size # -1
  PROVE  ~FetchHsElement(msg).overrun
<1>1. NoRequest.size = -1 /\ ~NoRequest.overrun
  BY DEF NoRequest
<1>2. [NoRequest EXCEPT !.overrun = TRUE].size = -1
  BY DEF NoRequest
<1>3. ASSUME NEW lines, NEW endpos, ReadLines(lines, endpos).size # -1
      PROVE  ~ReadLines(lines, endpos).overrun
  BY <1>1, <1>2, <1>3 DEF ReadLines
<1> QED
  BY <1>1, <1>3, Zenon DEF FetchHsElement

\* recv_handshake of a buffer that begins with a request: it refuses it, or it
\* takes it to its last byte.
LEMMA RequestTaken ==
  ASSUME NEW d \in Seq(Bytes), Len(d) <= MaxHandshake, NEW found, found = FetchHsElement(d),
         NEW n \in Nat, n > 0, n <= Len(d), found.size = n, NEW uninit, NEW hs,
         hs = RecvHandshake(BufferOf(d), uninit)
  PROVE  /\ ~hs.overrun /\ (hs.error <=> ~ParamsAccepted(found.params))
         /\ hs.error => hs.input = BufferOf(d)
         /\ ~hs.error => hs.length = n /\ hs.input = At(d, n)
<1>1. ~found.overrun
  <2>1. n # -1
    OBVIOUS
  <2> QED
    BY <2>1, FoundIsReadable, Zenon
<1>2. PICK b : b = BufferOf(d)
  OBVIOUS
<1>3. b.data = d /\ Length(b) = Len(d) /\ ResetOft(b) = b
  BY <1>2, BufferOfIs, FrontOftExcept, Zenon DEF ResetOft
<1>4. Skip(b, n) = At(d, n)
  <2>1. CanRead(d, 0, n, 1, n)
    BY DEF CanRead
  <2>2. b = At(d, 0)
    BY <1>2 DEF BufferOf, At
  <2> QED
    BY <2>1, <2>2, ReadAt, Zenon
<1>5. MaxHandshake \in Nat
  BY HandshakeAssumption DEF HandshakeAssumption
<1>6. ~(Length(b) > MaxHandshake) /\ ~(n <= 0)
  BY <1>3, <1>5, LenProperties
<1> DEFINE none == [error |-> FALSE, overrun |-> found.overrun, length |-> uninit,
                    params |-> found.params, input |-> ResetOft(b)]
<1>7. hs = IF ~ParamsAccepted(found.params) THEN [none EXCEPT !.error = TRUE]
           ELSE [none EXCEPT !.length = n, !.input = Skip(b, n)]
  BY <1>2, <1>3, <1>6, Zenon DEF RecvHandshake
<1>8. CASE ParamsAccepted(found.params)
  BY <1>1, <1>4, <1>7, <1>8
<1>9. CASE ~ParamsAccepted(found.params)
  BY <1>1, <1>2, <1>3, <1>7, <1>9
<1> QED
  BY <1>8, <1>9

(***************************************************************************)
(* The endpoint                                                            *)
(***************************************************************************)

\* The peers and owners that these theorems are about
WellServed ==
  /\ \A p \in Peers : WellFormed(p) /\ RequestJudged(p) /\ Calls(p) = {"callback"}
  /\ \A p \in Peers, n \in Nat : MayEnd(p, n) => ReadsWholeHeaders(p, n)

\* Until the request is taken, nothing has come, or it is looked at, or it was
\* refused.
BeforeFrames ==
  /\ consumed = 0
  /\ pc = "idle" => received = 0 \/ ~peer.valid
  /\ pc = "parse" => received # 0

\* Afterwards, whole frames are taken: all that have come, when the call is over.
AmongFrames ==
  /\ peer.valid /\ received # 0
  /\ \E k \in 0..Len(peer.frames) :
       /\ consumed = EndOf(peer, k)
       /\ pc = "idle" => Contains(peer, received, k)
       /\ pc = "parse" => received > consumed

TakenInv ==
  /\ peer \in Peers /\ pc \in {"idle", "parse"}
  /\ received # 0 => ReadsWholeHeaders(peer, received)
  /\ IF ws_handshake_completed_ THEN AmongFrames ELSE BeforeFrames

\* At the start nothing has come.
LEMMA TakenInit == Init => TakenInv
BY DEF Init, TakenInv, BeforeFrames

\* A call brings bytes, and ends where reads may end.
LEMMA TakenArrives ==
  ASSUME WellServed, IInv, TakenInv, NEW size \in 1..Len(peer.bytes), FromWire(size)
  PROVE  TakenInv'
<1>1. /\ consumed \in Nat /\ received \in Nat /\ consumed <= received
      /\ Len(peer.bytes) \in Nat
  BY WireTypes DEF IInv
<1>2. /\ received' = received + size /\ pc' = "parse" /\ MayEnd(peer, received + size)
      /\ UNCHANGED <<ws_handshake_completed_, peer, consumed>>
  BY DEF FromWire
<1>3. received + size \in Nat /\ received + size > received
  BY <1>1
<1>4. ReadsWholeHeaders(peer, received + size)
  BY <1>2, <1>3, Zenon DEF WellServed, TakenInv
<1>5. peer' \in Peers /\ pc' \in {"idle", "parse"} /\ ReadsWholeHeaders(peer', received')
  BY <1>2, <1>4, Zenon DEF TakenInv
<1>6. CASE ws_handshake_completed_
  <2>1. PICK k \in 0..Len(peer.frames) : consumed = EndOf(peer, k)
    BY <1>6, Zenon DEF TakenInv, AmongFrames
  <2>2. received' > consumed' /\ received' # 0
    BY <1>1, <1>2, <1>3
  <2>3. peer.valid
    BY <1>6, Zenon DEF TakenInv, AmongFrames
  <2>4. AmongFrames'
    BY <1>2, <2>1, <2>2, <2>3 DEF AmongFrames
  <2> QED
    BY <1>2, <1>5, <1>6, <2>4 DEF TakenInv
<1>7. CASE ~ws_handshake_completed_
  <2>1. consumed' = 0 /\ received' # 0
    BY <1>1, <1>2, <1>3, <1>7 DEF TakenInv, BeforeFrames
  <2>2. BeforeFrames'
    BY <1>2, <2>1 DEF BeforeFrames
  <2> QED
    BY <1>2, <1>5, <1>7, <2>2 DEF TakenInv
<1> QED
  BY <1>6, <1>7

\* Erasing n bytes of the buffer consumes them, and the loop ends when none is left.
LEMMA ConsumesExactly ==
  ASSUME WireInv, NEW n \in Nat, n > 0, consumed + n <= received, NEW o \in Nat,
         Consume(At(fromwire_buf_.data, o), n)
  PROVE  /\ consumed' = consumed + n
         /\ pc' = IF consumed + n = received THEN "idle" ELSE "parse"
<1>1. PICK d \in Seq(Bytes), c \in Nat, r \in Nat :
        /\ d = fromwire_buf_.data /\ c = consumed /\ r = received /\ c + n <= r
        /\ Len(d) = r - c
  <2>1. PICK s \in Seq(Bytes), c \in Nat, r \in Nat :
          s = peer.bytes /\ c = consumed /\ r = received /\ c <= r /\ r <= Len(s)
    BY WireTypes
  <2>2. PICK d : d = SubSeq(s, c + 1, r)
    OBVIOUS
  <2>3. d \in Seq(Bytes) /\ Len(d) = r - c
    BY <2>1, <2>2, BytesBetween
  <2>4. d = fromwire_buf_.data
    BY <2>1, <2>2, WireTypes, Zenon
  <2>5. c + n <= r
    BY <2>1
  <2> QED
    BY <2>1, <2>3, <2>4, <2>5, Zenon
<1>2. PICK b : b = At(d, o)
  OBVIOUS
<1>3. b \in Buffer /\ b.data = d /\ Length(b) = Len(d)
  BY <1>2 DEF At, Buffer, Length
<1>4. ResetOft(Erase(b, n)) = BufferOf(SubSeq(d, n + 1, Len(d)))
  <2>1. n \in Int
    OBVIOUS
  <2>2. ResetOft(Erase(b, n)) = BufferOf(SubSeq(b.data, n + 1, Len(b.data)))
    BY <1>3, <2>1, EraseAndReset, Zenon
  <2> QED
    BY <1>3, <2>2, Zenon
<1>5. Length(ResetOft(Erase(b, n))) = Len(d) - n
  <2>1. PICK m \in Nat : m = Len(d)
    BY LenProperties
  <2>2. n <= m
    BY <1>1, <2>1
  <2>3. PICK rest : rest = SubSeq(d, n + 1, m)
    OBVIOUS
  <2>4. Len(rest) = m - n
    BY <2>1, <2>2, <2>3, BytesBetween
  <2>5. Length(BufferOf(rest)) = Len(rest)
    BY BufferOfIs, Zenon
  <2> QED
    BY <1>4, <2>1, <2>3, <2>4, <2>5
<1>6. /\ consumed' = consumed + Length(b) - Length(ResetOft(Erase(b, n)))
      /\ pc' = IF Length(ResetOft(Erase(b, n))) = 0 THEN "idle" ELSE "parse"
  BY <1>1, <1>2, Zenon DEF Consume
<1>7. PICK rest : rest = Length(ResetOft(Erase(b, n)))
  OBVIOUS
<1>8. rest = (r - c) - n /\ consumed' = c + (r - c) - rest
  BY <1>1, <1>3, <1>5, <1>6, <1>7
<1>9. rest = 0 <=> c + n = r
  BY <1>1, <1>8
<1>10. consumed' = c + n
  BY <1>1, <1>8
<1> QED
  BY <1>1, <1>6, <1>7, <1>9, <1>10

\* A request that is found is not empty.
LEMMA FoundIsLong ==
  ASSUME NEW s \in Seq(Bytes), NEW n, n = FetchHsElement(s).size, n # -1
  PROVE  n > 0
<1>1. PICK what : what = EOL \o EOL
  OBVIOUS
<1>2. what \in Seq(Bytes) /\ Len(what) > 0
  BY <1>1 DEF EOL, CR, LF, Bytes
<1>3. PICK x : x = Find(s, what, 1)
  OBVIOUS
<1>4. NoRequest.size = -1
  BY DEF NoRequest
<1>5. x # 0
  BY <1>1, <1>3, <1>4, Zenon DEF FetchHsElement
<1>6. x \in 1..Len(s)
  <2>1. Continues(s, s)
    BY DEF Continues
  <2> QED
    BY <1>2, <1>3, <1>5, <2>1, FoundInFront, Zenon
<1>7. \A lines : ReadLines(lines, x).size \in {-1, x + 3}
  BY DEF ReadLines, NoRequest
<1>8. n \in {-1, x + 3}
  BY <1>1, <1>3, <1>5, <1>7, Zenon DEF FetchHsElement
<1> QED
  BY <1>6, <1>8

\* Neither is the request of a peer that is right about it.
LEMMA RequestIsLong ==
  ASSUME NEW p, WellFormed(p), RequestJudged(p), p.bytes \in Seq(Bytes)
  PROVE  p.request \in Nat /\ p.request > 0
<1>1. PICK q, n : q = SubSeq(p.bytes, 1, p.request) /\ n = p.request
  OBVIOUS
<1>2. n \in Nat
  BY <1>1, EndIs, Zenon
<1>3. FetchHsElement(q).size = n
  BY <1>1, Zenon DEF RequestJudged
<1>4. q \in Seq(Bytes)
  <2>1. PICK s \in Seq(Bytes) : s = p.bytes
    OBVIOUS
  <2>2. 0 \in 0..Len(p.frames) /\ EndOf(p, 0) = n
    BY <1>1, EndIs
  <2>3. n <= Len(s)
    BY <2>1, <2>2, EndsWithin
  <2> QED
    BY <1>1, <1>2, <2>1, <2>3, BytesBetween
<1>5. n # -1
  BY <1>2
<1>6. n > 0
  BY <1>3, <1>4, <1>5, FoundIsLong
<1> QED
  BY <1>1, <1>2, <1>6

\* While the request is awaited, the buffer begins with all of it.
LEMMA RequestIsThere ==
  ASSUME WellServed, IInv, TakenInv, ~ws_handshake_completed_, pc = "parse"
  PROVE  \E d \in Seq(Bytes), n \in Nat :
           /\ fromwire_buf_ = BufferOf(d) /\ Len(d) = received
           /\ n = peer.request /\ n > 0 /\ n <= Len(d)
           /\ FetchHsElement(d).size = n
           /\ ParamsAccepted(FetchHsElement(d).params) <=> peer.valid
<1>1. PICK s \in Seq(Bytes), r \in Nat : s = peer.bytes /\ r = received /\ r <= Len(s)
  BY WireTypes, Zenon DEF IInv
<1>2. WellFormed(peer) /\ RequestJudged(peer)
  BY Zenon DEF WellServed, TakenInv
<1>3. PICK n \in Nat : n = peer.request
  BY <1>2, Zenon DEF WellFormed
<1>4. n <= r
  <2>1. received # 0
    BY Zenon DEF TakenInv, BeforeFrames
  <2>2. received >= peer.request
    BY <2>1, Zenon DEF TakenInv, ReadsWholeHeaders
  <2> QED
    BY <1>1, <1>3, <2>2
<1>5. PICK d : d = SubSeq(s, 1, r)
  OBVIOUS
<1>6. PICK q : q = SubSeq(s, 1, n)
  OBVIOUS
<1>7. /\ d \in Seq(Bytes) /\ Len(d) = r
      /\ \A i \in 1..r : d[i] = s[i]
  BY <1>1, <1>5, BytesBetween
<1>8. /\ q \in Seq(Bytes) /\ Len(q) = n
      /\ \A i \in 1..n : q[i] = s[i]
  BY <1>1, <1>4, <1>6, BytesBetween
<1>9. Continues(d, q)
  BY <1>4, <1>7, <1>8 DEF Continues
<1>10. /\ FetchHsElement(q).size = n
       /\ ParamsAccepted(FetchHsElement(q).params) <=> peer.valid
  BY <1>1, <1>2, <1>3, <1>6, Zenon DEF RequestJudged
<1>11. n # -1
  OBVIOUS
<1>12. FetchHsElement(d) = FetchHsElement(q)
  BY <1>9, <1>10, <1>11, RequestInFront, Zenon
<1>13. n > 0
  BY <1>8, <1>10, <1>11, FoundIsLong
<1>14. fromwire_buf_ = BufferOf(d)
  <2>1. consumed = 0
    BY Zenon DEF TakenInv, BeforeFrames
  <2>2. fromwire_buf_ = BufferOf(SubSeq(peer.bytes, 0 + 1, received))
    BY <2>1, Zenon DEF IInv, WireInv
  <2>3. 0 + 1 = 1
    OBVIOUS
  <2> QED
    BY <1>1, <1>5, <2>2, <2>3, Zenon
<1>15. n <= Len(d)
  BY <1>4, <1>7
<1> QED
  BY <1>1, <1>3, <1>7, <1>10, <1>12, <1>13, <1>14, <1>15, Zenon

\* The iteration that takes the request, and the one that refuses it
RequestIsTaken ==
  /\ peer.valid /\ ws_handshake_completed_' = TRUE
  /\ consumed' = EndOf(peer, 0)
  /\ pc' = IF EndOf(peer, 0) = received THEN "idle" ELSE "parse"
  /\ UNCHANGED <<message_data_, peer, received, delivered>>

RequestIsRefused ==
  /\ ~peer.valid /\ pc' = "idle"
  /\ UNCHANGED <<message_data_, ws_handshake_completed_, peer, received, consumed, delivered>>

\* The request is taken to its last byte if the peer is right to expect that, and
\* refused otherwise.
LEMMA RequestParsed ==
  ASSUME WellServed, IInv, TakenInv, RequestInTime, HandshakeStep
  PROVE  RequestIsTaken \/ RequestIsRefused
<1>1. ~ws_handshake_completed_ /\ pc = "parse"
  BY Zenon DEF HandshakeStep, InHandshake
<1>2. PICK d \in Seq(Bytes), n \in Nat :
        /\ fromwire_buf_ = BufferOf(d) /\ Len(d) = received
        /\ n = peer.request /\ n > 0 /\ n <= Len(d)
        /\ FetchHsElement(d).size = n
        /\ ParamsAccepted(FetchHsElement(d).params) <=> peer.valid
  BY <1>1, RequestIsThere, Zenon
<1>3. PICK uninit : LET hs == RecvHandshake(BufferOf(d), uninit)
                    IN  \/ RejectHandshake(hs) \/ AwaitHandshake(hs)
                        \/ AnswerHandshake(hs) \/ OverrunRequest(hs)
  BY <1>2, Zenon DEF HandshakeStep
<1>4. PICK hs : hs = RecvHandshake(BufferOf(d), uninit)
  OBVIOUS
<1>5. RejectHandshake(hs) \/ AwaitHandshake(hs) \/ AnswerHandshake(hs) \/ OverrunRequest(hs)
  BY <1>3, <1>4, Zenon
<1>6. Len(d) <= MaxHandshake
  BY <1>1, <1>2, Zenon DEF RequestInTime
<1>7. /\ ~hs.overrun /\ (hs.error <=> ~peer.valid)
      /\ ~hs.error => hs.length = n /\ hs.input = At(d, n)
  <2>1. PICK found : found = FetchHsElement(d)
    OBVIOUS
  <2>2. n > 0 /\ n <= Len(d) /\ found.size = n
    BY <1>2, <2>1, Zenon
  <2>3. /\ ~hs.overrun /\ (hs.error <=> ~ParamsAccepted(found.params))
        /\ ~hs.error => hs.length = n /\ hs.input = At(d, n)
    BY <1>4, <1>6, <2>1, <2>2, RequestTaken
  <2> QED
    BY <1>2, <2>1, <2>3, Zenon
<1>8. WellFormed(peer) /\ consumed = 0 /\ n = EndOf(peer, 0)
  BY <1>1, <1>2, EndIs, Zenon DEF WellServed, TakenInv, BeforeFrames
<1>9. CASE RejectHandshake(hs)
  BY <1>7, <1>9, Zenon DEF RejectHandshake, RequestIsRefused
<1>10. CASE AnswerHandshake(hs)
  <2>1. /\ peer.valid /\ ws_handshake_completed_' = TRUE
        /\ UNCHANGED <<message_data_, peer, received, delivered>> /\ Consume(At(d, n), n)
    BY <1>7, <1>10, Zenon DEF AnswerHandshake
  <2>2. fromwire_buf_.data = d
    BY <1>2, BufferOfIs, Zenon
  <2>3. consumed + n = n /\ n > 0 /\ consumed + n <= received
    BY <1>2, <1>8
  <2>4. Consume(At(fromwire_buf_.data, n), n)
    BY <2>1, <2>2, Zenon
  <2>5. /\ consumed' = consumed + n
        /\ pc' = IF consumed + n = received THEN "idle" ELSE "parse"
    BY <2>3, <2>4, ConsumesExactly DEF IInv
  <2> QED
    BY <1>8, <2>1, <2>3, <2>5, Zenon DEF RequestIsTaken
<1>11. ~AwaitHandshake(hs)
  BY <1>2, <1>7 DEF AwaitHandshake
<1>12. ~OverrunRequest(hs)
  BY <1>7, Zenon DEF OverrunRequest
<1> QED
  BY <1>5, <1>9, <1>10, <1>11, <1>12, Zenon

\* Either way the invariant holds.
LEMMA TakenHandshake ==
  ASSUME WellServed, IInv, TakenInv, RequestInTime, HandshakeStep
  PROVE  TakenInv'
<1>1. /\ ~ws_handshake_completed_ /\ WellFormed(peer) /\ peer \in Peers
      /\ consumed = 0 /\ received # 0 /\ ReadsWholeHeaders(peer, received)
  BY Zenon DEF HandshakeStep, InHandshake, WellServed, TakenInv, BeforeFrames
<1>2. PICK n \in Nat, r \in Nat :
        n = EndOf(peer, 0) /\ r = received /\ 0 \in 0..Len(peer.frames)
        /\ Len(peer.frames) \in Nat /\ n = peer.request
  <2>1. /\ EndOf(peer, 0) = peer.request /\ peer.request \in Nat
        /\ Len(peer.frames) \in Nat /\ received \in Nat
    BY <1>1, EndIs, WireTypes, Zenon DEF IInv
  <2> QED
    BY <2>1
<1>3. CASE RequestIsRefused
  BY <1>1, <1>3 DEF RequestIsRefused, TakenInv, BeforeFrames
<1>4. CASE RequestIsTaken
  <2>1. /\ peer.valid /\ ws_handshake_completed_' = TRUE /\ UNCHANGED <<peer, received>>
        /\ consumed' = n /\ pc' = IF n = r THEN "idle" ELSE "parse"
    BY <1>2, <1>4, Zenon DEF RequestIsTaken
  <2>2. n <= r
    BY <1>1, <1>2 DEF ReadsWholeHeaders
  <2>3. pc' = "idle" => Contains(peer, r, 0)
    <3> SUFFICES ASSUME n = r PROVE Contains(peer, r, 0)
      BY <2>1
    <3>1. 0 < Len(peer.frames) => r < EndOf(peer, 0 + 1)
      <4> SUFFICES ASSUME 0 < Len(peer.frames) PROVE r < EndOf(peer, 0 + 1)
        OBVIOUS
      <4>1. 1 \in 0..Len(peer.frames) /\ 0 \in 0..Len(peer.frames) /\ 0 < 1 /\ 0 + 1 = 1
        BY <1>2
      <4>2. EndOf(peer, 0) < EndOf(peer, 1)
        BY <1>1, <4>1, EndsGrow
      <4> QED
        BY <1>2, <4>1, <4>2
    <3>2. EndOf(peer, 0) <= r
      BY <1>2
    <3> QED
      BY <1>2, <3>1, <3>2 DEF Contains
  <2>4. pc' = "parse" => r > n
    BY <1>2, <2>1, <2>2
  <2>5. AmongFrames'
    BY <1>1, <1>2, <2>1, <2>3, <2>4 DEF AmongFrames
  <2>6. pc' \in {"idle", "parse"}
    BY <2>1
  <2> QED
    BY <1>1, <2>1, <2>5, <2>6 DEF TakenInv
<1> QED
  BY <1>3, <1>4, RequestParsed

\* recv_dataframe found frame f.
IsFound(df, f) == df.fin = f.fin /\ df.opcode = f.opcode /\ df.payload = f.payload

\* An iteration that takes frame k, and one that waits for the rest of it
FrameIsTaken(k) ==
  /\ EndOf(peer, k) <= received
  /\ \E df : IsFound(df, peer.frames[k]) /\ (TakeFragment(df) \/ TakeFinalFrame(df))
  /\ consumed' = EndOf(peer, k)
  /\ pc' = IF EndOf(peer, k) = received THEN "idle" ELSE "parse"

FrameIsAwaited(k) ==
  /\ received < EndOf(peer, k)
  /\ pc' = "idle"
  /\ UNCHANGED <<message_data_, ws_handshake_completed_, peer, received, consumed, delivered, sent>>

\* recv_dataframe of a buffer that starts at frame f, with the r bytes received
\* so far: it takes the frame as soon as it is there, and waits until then.
LEMMA FrameOutcome ==
  ASSUME NEW p \in Peers, WellServed, p.bytes \in Seq(Bytes), NEW k \in 1..Len(p.frames),
         NEW f, NEW a, NEW h, NEW e, FrameAt(p, k, f, a, h, e),
         NEW r \in Nat, a < r, r <= Len(p.bytes), ReadsWholeHeaders(p, r),
         NEW d, d = SubSeq(p.bytes, a + 1, r), NEW key,
         NEW df, df = RecvDataframe(BufferOf(d), key)
  PROVE  /\ e <= r => FrameTaken(df, f, d, e - a)
         /\ r < e => FrameAwaited(df, d)
<1>1. WellFormed(p)
  BY Zenon DEF WellServed
<1>2. /\ a \in Nat /\ h \in Nat /\ e \in Nat /\ e = a + Len(EncodeFrame(f))
      /\ h = a + Len(EncodeHeader(f))
      /\ Len(EncodeHeader(f)) \in Nat /\ Len(EncodeFrame(f)) \in Nat
      /\ IsShortFrame(f) /\ f.key # <<>>
      /\ f = p.frames[k] /\ a = EndOf(p, k - 1) /\ h = p.header[k]
  BY Zenon DEF FrameAt
<1>3. a <= r
  <2>1. a \in Nat
    BY <1>2, Zenon
  <2> QED
    BY <2>1
<1>4. d \in Seq(Bytes) /\ Len(d) = r - a /\ Begins(d, EncodeFrame(f))
  BY <1>1, <1>3, FrameInFront
<1>5. PICK m \in Nat, l \in Nat, n \in Nat :
        /\ m = Len(EncodeFrame(f)) /\ l = Len(EncodeHeader(f)) /\ n = Len(d)
        /\ a \in Nat /\ h \in Nat /\ e \in Nat /\ e = a + m /\ h = a + l /\ n = r - a
  <2>1. Len(d) \in Nat
    BY <1>4
  <2> QED
    BY <1>2, <1>4, <2>1, Zenon
<1>6. CASE e <= r
  <2>1. m <= n /\ m = e - a
    BY <1>6, <1>5
  <2>2. Len(EncodeFrame(f)) <= Len(d)
    BY <1>5, <2>1, Zenon
  <2>3. FrameTaken(df, f, d, Len(EncodeFrame(f)))
    BY <1>2, <1>4, <2>2, WholeFrameTaken, Zenon
  <2>4. ~(r < e)
    BY <1>2, <1>6
  <2> QED
    BY <1>5, <2>1, <2>3, <2>4, Zenon
<1>7. CASE r < e
  <2>1. n < m
    BY <1>7, <1>5
  <2>2. Len(d) < Len(EncodeFrame(f))
    BY <1>5, <2>1, Zenon
  <2>3. CASE h <= r
    <3>1. Len(EncodeHeader(f)) <= Len(d)
      <4>1. l <= n
        BY <1>5, <2>3
      <4> QED
        BY <1>5, <4>1, Zenon
    <3>2. FrameAwaited(df, d)
      BY <1>2, <1>4, <2>2, <3>1, PartAwaited, Zenon
    <3>3. ~(e <= r)
      BY <1>2, <1>7
    <3> QED
      BY <3>2, <3>3
  <2>4. CASE r < h
    <3>1. k \in CutHeaders(p, r)
      <4>1. r < p.header[k] /\ r > EndOf(p, k - 1)
        BY <1>2, <2>4
      <4> QED
        BY <4>1 DEF CutHeaders
    <3>2. Sturdy(f)
      BY <1>2, <3>1, Zenon DEF ReadsWholeHeaders
    <3>3. FrameAwaited(df, d)
      BY <1>2, <1>4, <2>2, <3>2, SturdyAwaited, Zenon
    <3>4. ~(e <= r)
      BY <1>2, <1>7
    <3> QED
      BY <3>3, <3>4
  <2> QED
    BY <1>2, <2>3, <2>4
<1> QED
  BY <1>2, <1>6, <1>7

\* The frame that an iteration looks at
LEMMA FrameIsThere ==
  ASSUME WellServed, IInv, TakenInv, ws_handshake_completed_, pc = "parse"
  PROVE  \E k \in 1..Len(peer.frames) : consumed = EndOf(peer, k - 1)
<1>1. PICK n \in Nat : n = Len(peer.frames)
  BY EndIs, Zenon DEF WellServed, TakenInv
<1>2. PICK j \in 0..n : consumed = EndOf(peer, j) /\ received > consumed
  BY <1>1, Zenon DEF TakenInv, AmongFrames
<1>3. j # n
  <2> SUFFICES ASSUME j = n PROVE FALSE
    OBVIOUS
  <2>1. Len(peer.bytes) = consumed
    BY <1>1, <1>2, EndIs, Zenon DEF WellServed, TakenInv
  <2>2. received <= Len(peer.bytes) /\ received \in Nat /\ consumed \in Nat
    BY WireTypes, Zenon DEF IInv
  <2> QED
    BY <1>2, <2>1, <2>2
<1>4. j + 1 \in 1..n /\ (j + 1) - 1 = j
  BY <1>3
<1> QED
  BY <1>1, <1>2, <1>4, Zenon

\* An iteration takes the frame that is next in the buffer, or waits for it; and
\* it never throws.
LEMMA FrameParsed ==
  ASSUME WellServed, IInv, TakenInv, FrameStep
  PROVE  \E k \in 1..Len(peer.frames) :
           /\ consumed = EndOf(peer, k - 1)
           /\ FrameIsTaken(k) \/ FrameIsAwaited(k)
<1>1. ws_handshake_completed_ /\ pc = "parse"
  BY Zenon DEF FrameStep, InFrames
<1>2. PICK k \in 1..Len(peer.frames) : consumed = EndOf(peer, k - 1)
  BY <1>1, FrameIsThere, Zenon
<1>3. PICK f, a, h, e : FrameAt(peer, k, f, a, h, e)
  BY FrameIsAt, Zenon DEF WellServed, TakenInv
<1>4. /\ a \in Nat /\ e \in Nat /\ a = consumed /\ e = EndOf(peer, k) /\ f = peer.frames[k]
      /\ e = a + Len(EncodeFrame(f))
      /\ Len(EncodeFrame(f)) \in Nat /\ Len(EncodeFrame(f)) > 0
  BY <1>2, <1>3, Zenon DEF FrameAt
<1>5. PICK r \in Nat : r = received /\ r <= Len(peer.bytes)
  BY WireTypes, Zenon DEF IInv
<1>6. PICK d : d = SubSeq(peer.bytes, a + 1, r)
  OBVIOUS
<1>7. fromwire_buf_ = BufferOf(d) /\ fromwire_buf_.data = d /\ peer.bytes \in Seq(Bytes)
  BY <1>4, <1>5, <1>6, WireTypes, Zenon DEF IInv, WireInv
<1>8. peer \in Peers /\ ReadsWholeHeaders(peer, r) /\ a < r
  BY <1>1, <1>4, <1>5, Zenon DEF TakenInv, AmongFrames
<1>9. PICK key : LET df == RecvDataframe(BufferOf(d), key)
                 IN  AwaitFrame(df) \/ TakeFragment(df) \/ TakeFinalFrame(df) \/ ThrowInPayload(df)
  BY <1>7, Zenon DEF FrameStep
<1>10. PICK df : df = RecvDataframe(BufferOf(d), key)
  OBVIOUS
<1>11. AwaitFrame(df) \/ TakeFragment(df) \/ TakeFinalFrame(df) \/ ThrowInPayload(df)
  BY <1>9, <1>10, Zenon
<1>12. /\ e <= r => FrameTaken(df, f, d, e - a)
       /\ r < e => FrameAwaited(df, d)
  BY <1>3, <1>5, <1>6, <1>7, <1>8, <1>10, FrameOutcome
<1>13. CASE e <= r
  <2>1. /\ ~df.throws /\ df.ndf = e - a /\ df.input = At(d, e - a) /\ IsFound(df, f)
    BY <1>12, <1>13, Zenon DEF FrameTaken, IsFound
  <2>2. e - a \in Nat /\ e - a > 0 /\ a + (e - a) = e /\ e - a # 0
    BY <1>4
  <2>3. TakeFragment(df) \/ TakeFinalFrame(df)
    <3>1. ~AwaitFrame(df)
      BY <2>1, <2>2, Zenon DEF AwaitFrame
    <3>2. ~ThrowInPayload(df)
      BY <2>1, Zenon DEF ThrowInPayload
    <3> QED
      BY <1>11, <3>1, <3>2
  <2>4. Consume(At(d, e - a), e - a)
    BY <2>1, <2>3, Zenon DEF TakeFragment, TakeFinalFrame
  <2>5. /\ consumed' = e
        /\ pc' = IF e = received THEN "idle" ELSE "parse"
    <3>1. PICK m \in Nat : m = e - a
      BY <2>2
    <3>2. consumed + m = e /\ consumed + m <= received /\ m > 0
      BY <1>4, <1>5, <1>13, <2>2, <3>1
    <3>3. Consume(At(fromwire_buf_.data, m), m)
      BY <1>7, <2>4, <3>1, Zenon
    <3>4. /\ consumed' = consumed + m
          /\ pc' = IF consumed + m = received THEN "idle" ELSE "parse"
      BY <3>2, <3>3, ConsumesExactly, Zenon DEF IInv
    <3> QED
      BY <3>2, <3>4, Zenon
  <2>6. FrameIsTaken(k)
    BY <1>4, <1>5, <1>13, <2>1, <2>3, <2>5, Zenon DEF FrameIsTaken
  <2> QED
    BY <1>2, <2>6
<1>14. CASE r < e
  <2>1. ~df.throws /\ df.ndf = 0 /\ ~(df.ndf > 0)
    BY <1>12, <1>14 DEF FrameAwaited
  <2>2. AwaitFrame(df)
    BY <1>11, <2>1, Zenon DEF TakeFragment, TakeFinalFrame, ThrowInPayload
  <2>3. FrameIsAwaited(k)
    BY <1>4, <1>5, <1>14, <2>2, Zenon DEF AwaitFrame, AwaitMore, FrameIsAwaited
  <2> QED
    BY <1>2, <2>3
<1> QED
  BY <1>4, <1>13, <1>14

\* Frames are taken one by one, while all of the next one is there.
LEMMA TakenFrames ==
  ASSUME WellServed, IInv, TakenInv, FrameStep
  PROVE  TakenInv'
<1>1. PICK k \in 1..Len(peer.frames) :
        /\ consumed = EndOf(peer, k - 1)
        /\ FrameIsTaken(k) \/ FrameIsAwaited(k)
  BY FrameParsed
<1>2. /\ ws_handshake_completed_ /\ peer.valid /\ received # 0 /\ peer \in Peers
      /\ ReadsWholeHeaders(peer, received) /\ WellFormed(peer) /\ pc = "parse"
  BY Zenon DEF FrameStep, InFrames, TakenInv, AmongFrames, WellServed
<1>3. PICK n \in Nat : n = Len(peer.frames)
  BY <1>2, EndIs, Zenon
<1>4. \A j \in 0..n : EndOf(peer, j) \in Nat
  BY <1>2, <1>3, EndIs, Zenon
<1>5. received \in Nat /\ consumed \in Nat /\ consumed <= received
  BY WireTypes DEF IInv
<1>6. k \in 1..n /\ k \in 0..n /\ k - 1 \in 0..n /\ (k - 1) + 1 = k
  BY <1>1, <1>3
<1>7. CASE FrameIsTaken(k)
  <2>1. /\ EndOf(peer, k) <= received /\ consumed' = EndOf(peer, k)
        /\ pc' = IF EndOf(peer, k) = received THEN "idle" ELSE "parse"
    BY <1>7, Zenon DEF FrameIsTaken
  <2>2. UNCHANGED <<ws_handshake_completed_, peer, received>>
    BY <1>7, Zenon DEF FrameIsTaken, TakeFragment, TakeFinalFrame
  <2>3. pc' = "idle" => Contains(peer, received, k)
    <3> SUFFICES ASSUME pc' = "idle" PROVE Contains(peer, received, k)
      OBVIOUS
    <3>1. EndOf(peer, k) = received
      BY <2>1
    <3>2. k < n => EndOf(peer, k) < EndOf(peer, k + 1)
      <4> SUFFICES ASSUME k < n PROVE EndOf(peer, k) < EndOf(peer, k + 1)
        OBVIOUS
      <4>1. k + 1 \in 0..n /\ k < k + 1
        BY <1>6
      <4> QED
        BY <1>2, <1>3, <1>6, <4>1, EndsGrow
    <3>3. received <= received
      BY <1>5
    <3> QED
      BY <1>3, <1>5, <1>6, <3>1, <3>2, <3>3, Zenon DEF Contains
  <2>4. pc' = "parse" => received > consumed'
    <3>1. EndOf(peer, k) \in Nat
      BY <1>4, <1>6
    <3> QED
      BY <1>5, <2>1, <3>1
  <2>5. AmongFrames'
    BY <1>2, <1>3, <1>6, <2>1, <2>2, <2>3, <2>4 DEF AmongFrames
  <2>6. pc' \in {"idle", "parse"}
    BY <2>1
  <2> QED
    BY <1>2, <2>2, <2>5, <2>6 DEF TakenInv
<1>8. CASE FrameIsAwaited(k)
  <2>1. /\ received < EndOf(peer, k) /\ pc' = "idle"
        /\ UNCHANGED <<ws_handshake_completed_, peer, received, consumed>>
    BY <1>8, Zenon DEF FrameIsAwaited
  <2>2. Contains(peer, received, k - 1)
    BY <1>1, <1>3, <1>5, <1>6, <2>1 DEF Contains
  <2>3. AmongFrames'
    BY <1>1, <1>2, <1>3, <1>6, <2>1, <2>2 DEF AmongFrames
  <2> QED
    BY <1>2, <2>1, <2>3 DEF TakenInv
<1> QED
  BY <1>1, <1>7, <1>8

\* A well-served endpoint is only ever called with its callback and work data.
LEMMA StepsServed ==
  ASSUME WellServed, TakenInv, [Next]_vars
  PROVE  \/ \E size \in 1..Len(peer.bytes) : FromWire(size)
         \/ HandshakeStep \/ FrameStep \/ UNCHANGED vars
<1>1. Calls(peer) = {"callback"}
  BY Zenon DEF WellServed, TakenInv
<1>2. ASSUME NEW size \in 1..Len(peer.bytes), Process(size) \/ ProcessPlain(size) \/ SkipRead(size)
      PROVE  FromWire(size)
  <2>1. Process(size)
    BY <1>1, <1>2 DEF ProcessPlain, SkipRead
  <2> QED
    BY <2>1, Zenon DEF Process
<1> QED
  BY <1>2, Zenon DEF Next, NothingMore

\* Every step keeps the invariant, as long as the request comes in time.
LEMMA TakenNext ==
  ASSUME WellServed, IInv, TakenInv, RequestInTime, [Next]_vars
  PROVE  TakenInv'
<1>1. ASSUME NEW size \in 1..Len(peer.bytes), FromWire(size) PROVE TakenInv'
  BY <1>1, TakenArrives
<1>2. CASE HandshakeStep
  BY <1>2, TakenHandshake
<1>3. CASE FrameStep
  BY <1>3, TakenFrames
<1>4. CASE UNCHANGED vars
  <2>1. UNCHANGED <<peer, pc, received, consumed, ws_handshake_completed_>>
    BY <1>4 DEF vars
  <2> QED
    BY <2>1 DEF TakenInv, AmongFrames, BeforeFrames
<1> QED
  BY <1>1, <1>2, <1>3, <1>4, StepsServed, Zenon

\* When process() returns, every complete frame was taken.
LEMMA TakenShows ==
  ASSUME WellServed, IInv, TakenInv
  PROVE  FramesTaken /\ NeverDies
<1>1. NeverDies
  BY DEF TakenInv, NeverDies
<1>2. ASSUME pc = "idle" PROVE consumed = BytesIn(peer, received)
  <2>1. CASE ws_handshake_completed_
    <3>1. /\ peer.valid /\ WellFormed(peer) /\ received # 0
          /\ ReadsWholeHeaders(peer, received)
      BY <2>1, Zenon DEF TakenInv, AmongFrames, WellServed
    <3>2. PICK k \in 0..Len(peer.frames) :
            consumed = EndOf(peer, k) /\ Contains(peer, received, k)
      BY <1>2, <2>1, Zenon DEF TakenInv, AmongFrames
    <3>3. FramesIn(peer, received) = k
      BY <3>1, <3>2, FramesCounted, Zenon
    <3>4. ~(received < peer.request)
      <4>1. received >= peer.request
        BY <3>1, Zenon DEF ReadsWholeHeaders
      <4>2. received \in Nat /\ peer.request \in Nat
        BY <3>1, WireTypes, EndIs, Zenon DEF IInv
      <4> QED
        BY <4>1, <4>2
    <3> QED
      BY <3>1, <3>2, <3>3, <3>4, Zenon DEF BytesIn
  <2>2. CASE ~ws_handshake_completed_
    <3>1. consumed = 0 /\ (received = 0 \/ ~peer.valid) /\ WellFormed(peer) /\ RequestJudged(peer)
      BY <1>2, <2>2, Zenon DEF TakenInv, BeforeFrames, WellServed
    <3>2. CASE ~peer.valid
      BY <3>1, <3>2, Zenon DEF BytesIn
    <3>3. CASE received = 0
      <4>1. peer.request \in Nat /\ peer.request > 0
        BY <3>1, WireTypes, RequestIsLong DEF IInv
      <4>2. received < peer.request
        BY <3>3, <4>1
      <4> QED
        BY <3>1, <4>2, Zenon DEF BytesIn
    <3> QED
      BY <3>1, <3>2, <3>3
  <2> QED
    BY <2>1, <2>2
<1> QED
  BY <1>1, <1>2 DEF FramesTaken

\* For every peer with well-formed bytes, and every cut into reads that leaves
\* the request and the headers of frames whole, unless they are sturdy: the
\* invariant holds as long as the request comes in time.
LEMMA TakenHolds ==
  ASSUME WellServed
  PROVE  Spec /\ []RequestInTime => [](FramesTaken /\ NeverDies)
<1>1. Init => IInv /\ TakenInv
  BY InitKeeps, TakenInit
<1>2. (IInv /\ TakenInv) /\ RequestInTime /\ [Next]_vars => (IInv /\ TakenInv)'
  BY NextKeeps, TakenNext
<1>3. IInv /\ TakenInv => FramesTaken /\ NeverDies
  BY TakenShows
<1> QED
  BY <1>1, <1>2, <1>3, PTL DEF Spec

\* When process() returns it has taken every frame that is complete, and nothing
\* of the next one.
THEOREM WholeFramesTaken ==
  ASSUME WellServed
  PROVE  Spec /\ []RequestInTime => []FramesTaken
BY TakenHolds, PTL

\* No read of such a peer makes process() throw or reach beyond its memory.
THEOREM NoReadIsFatal ==
  ASSUME WellServed
  PROVE  Spec /\ []RequestInTime => []NeverDies
BY TakenHolds, PTL

(***************************************************************************)
(* Messages                                                                *)
(***************************************************************************)

\* Counting frames one by one, those that end a message
LEMMA FinalCountIs ==
  ASSUME NEW p, NEW k \in Nat
  PROVE  /\ FinalCount(p, 0) = 0 /\ FinalCount(p, k) \in Nat
         /\ FinalCount(p, k + 1) =
              IF p.frames[k + 1].fin = 1 THEN FinalCount(p, k) + 1 ELSE FinalCount(p, k)
<1> DEFINE Finals(n) == {j \in 1..n : p.frames[j].fin = 1}
<1>1. \A n \in Nat : IsFiniteSet(Finals(n)) /\ Cardinality(Finals(n)) \in Nat
  <2> TAKE n \in Nat
  <2>1. IsFiniteSet(1..n)
    BY FS_Interval
  <2>2. Finals(n) \in SUBSET (1..n)
    OBVIOUS
  <2>3. IsFiniteSet(Finals(n))
    BY <2>1, <2>2, FS_Subset
  <2> HIDE DEF Finals
  <2> QED
    BY <2>3, FS_CardinalityType
<1>2. Finals(0) = {}
  OBVIOUS
<1>3. Finals(k + 1) = IF p.frames[k + 1].fin = 1 THEN Finals(k) \cup {k + 1} ELSE Finals(k)
  <2>1. 1..(k + 1) = (1..k) \cup {k + 1}
    OBVIOUS
  <2> QED
    BY <2>1, Zenon
<1>4. k + 1 \notin Finals(k)
  OBVIOUS
<1>5. \A n : FinalCount(p, n) = Cardinality(Finals(n))
  BY Zenon DEF FinalCount
<1> HIDE DEF Finals
<1>6. Cardinality(Finals(k) \cup {k + 1}) = Cardinality(Finals(k)) + 1
  BY <1>1, <1>4, FS_AddElement
<1>7. Cardinality({}) = 0
  BY FS_EmptySet
<1> QED
  BY <1>1, <1>2, <1>3, <1>5, <1>6, <1>7

\* More frames end no fewer messages.
LEMMA FinalCountGrows ==
  ASSUME NEW p, NEW j \in Nat, NEW k \in Nat, j <= k
  PROVE  FinalCount(p, j) <= FinalCount(p, k)
<1> DEFINE Finals(n) == {i \in 1..n : p.frames[i].fin = 1}
<1>1. IsFiniteSet(1..k)
  BY FS_Interval
<1>2. Finals(k) \in SUBSET (1..k) /\ Finals(j) \in SUBSET Finals(k)
  OBVIOUS
<1>3. \A n : FinalCount(p, n) = Cardinality(Finals(n))
  BY Zenon DEF FinalCount
<1> HIDE DEF Finals
<1>4. IsFiniteSet(Finals(k))
  BY <1>1, <1>2, FS_Subset
<1>5. Cardinality(Finals(j)) <= Cardinality(Finals(k))
  BY <1>2, <1>4, FS_Subset
<1> QED
  BY <1>3, <1>5

\* The frames that are complete in n bytes: none for a peer that is refused, no
\* more than there are, no fewer for more bytes.
LEMMA FramesInIs ==
  ASSUME NEW p, WellFormed(p), NEW n \in Nat, NEW r \in Nat, n <= r
  PROVE  /\ FramesIn(p, n) \in Nat /\ FramesIn(p, n) <= FramesIn(p, r)
         /\ FramesIn(p, r) <= Len(p.frames)
         /\ ~p.valid => FramesIn(p, n) = 0
<1>1. PICK m \in Nat : m = Len(p.frames)
  BY EndIs
<1> DEFINE Ended(x) == {k \in 1..m : p.valid /\ p.end[k] <= x}
<1>2. IsFiniteSet(1..m) /\ Cardinality(1..m) = m
  BY FS_Interval
<1>3. \A k \in 1..m : p.end[k] \in Nat
  BY <1>1, Zenon DEF WellFormed
<1>4. Ended(n) \in SUBSET Ended(r) /\ Ended(r) \in SUBSET (1..m)
  BY <1>3
<1>5. \A x : FramesIn(p, x) = Cardinality(Ended(x))
  BY <1>1, Zenon DEF FramesIn
<1>6. ~p.valid => Ended(n) = {}
  OBVIOUS
<1> HIDE DEF Ended
<1>7. IsFiniteSet(Ended(r)) /\ Cardinality(Ended(r)) <= m
  BY <1>2, <1>4, FS_Subset
<1>8. IsFiniteSet(Ended(n)) /\ Cardinality(Ended(n)) <= Cardinality(Ended(r))
  BY <1>4, <1>7, FS_Subset
<1>9. Cardinality(Ended(n)) \in Nat
  BY <1>8, FS_CardinalityType
<1>10. Cardinality({}) = 0
  BY FS_EmptySet
<1> QED
  BY <1>1, <1>5, <1>6, <1>7, <1>8, <1>9, <1>10

\* Before anything has come no frame is complete.
LEMMA NoFrameAtFirst ==
  ASSUME NEW p, WellFormed(p)
  PROVE  FramesIn(p, 0) = 0
<1>1. PICK m \in Nat : m = Len(p.frames)
  BY EndIs
<1>2. {k \in 1..m : p.valid /\ p.end[k] <= 0} = {}
  <2> SUFFICES ASSUME NEW k \in 1..m PROVE ~(p.end[k] <= 0)
    OBVIOUS
  <2>1. k \in 0..m /\ 0 \in 0..m /\ 0 < k /\ k # 0
    OBVIOUS
  <2>2. EndOf(p, 0) < EndOf(p, k)
    BY <1>1, <2>1, EndsGrow
  <2>3. EndOf(p, 0) \in Nat /\ EndOf(p, k) \in Nat
    BY <1>1, <2>1, EndIs
  <2>4. EndOf(p, k) = p.end[k]
    BY <2>1, Zenon DEF EndOf
  <2> QED
    BY <2>2, <2>3, <2>4
<1>3. Cardinality({}) = 0
  BY FS_EmptySet
<1> QED
  BY <1>1, <1>2, <1>3, Zenon DEF FramesIn

\* The first k frames are among those that are complete in n bytes.
LEMMA FramesWithin ==
  ASSUME NEW p, WellFormed(p), p.valid, NEW k \in 1..Len(p.frames), NEW n \in Nat,
         EndOf(p, k) <= n
  PROVE  k <= FramesIn(p, n)
<1>1. PICK m \in Nat : m = Len(p.frames)
  BY EndIs
<1> DEFINE Ended == {j \in 1..m : p.valid /\ p.end[j] <= n}
<1>2. IsFiniteSet(1..m) /\ Ended \in SUBSET (1..m)
  <2>1. Ended \in SUBSET (1..m)
    OBVIOUS
  <2>2. IsFiniteSet(1..m)
    BY FS_Interval
  <2> QED
    BY <2>1, <2>2
<1>3. \A j \in 1..k : j \in 1..m /\ p.end[j] <= n
  <2> TAKE j \in 1..k
  <2>1. j \in 1..m /\ j \in 0..m /\ k \in 0..m /\ j # 0
    BY <1>1
  <2>2. EndOf(p, j) = p.end[j]
    BY <2>1, Zenon DEF EndOf
  <2>3. EndOf(p, j) \in Nat /\ EndOf(p, k) \in Nat
    BY <1>1, <2>1, EndIs
  <2>4. j < k => EndOf(p, j) < EndOf(p, k)
    BY <1>1, <2>1, EndsGrow
  <2>5. j = k \/ j < k
    BY <2>1
  <2> QED
    BY <2>1, <2>2, <2>3, <2>4, <2>5
<1>4. 1..k \in SUBSET Ended
  BY <1>3
<1>5. FramesIn(p, n) = Cardinality(Ended)
  BY <1>1, Zenon DEF FramesIn
<1> HIDE DEF Ended
<1>6. IsFiniteSet(Ended)
  BY <1>2, FS_Subset
<1>7. Cardinality(1..k) <= Cardinality(Ended)
  BY <1>4, <1>6, FS_Subset
<1>8. Cardinality(1..k) = k
  <2>1. k \in Int /\ ~(1 > k)
    BY <1>1
  <2>2. Cardinality(1..k) = IF 1 > k THEN 0 ELSE k - 1 + 1
    BY <2>1, FS_Interval
  <2> QED
    BY <2>1, <2>2
<1> QED
  BY <1>5, <1>7, <1>8

\* Every message that a peer means is known frame by frame.
TalkKnown == \A p \in Peers : p.valid => \E part : Assembled(p, part)

PartsIn(p) == CHOOSE part : Assembled(p, part)

\* What message_data_ has to hold behind k frames
Unfinished(p, k) ==
  IF k = 0 \/ p.frames[k].fin = 1 THEN <<>> ELSE PartsIn(p)[k].payload

\* What frame k adds to the message before it, and what it ends
PartIs(p, k) ==
  LET f == p.frames[k]
      part == PartsIn(p)[k]
  IN  /\ f.opcode \in KnownOpcodes
      /\ part.payload = Unfinished(p, k - 1) \o f.payload
      /\ part.parts = 1 => part.opcode = f.opcode
      /\ f.fin = 1 => p.talk[FinalCount(p, k)] = part

\* The opcodes that process_message_data knows are those of the RFC.
LEMMA OpcodesAreKnown == KnownOpcodes = DefinedOpcodes
BY DEF KnownOpcodes, OpContinue, OpText, OpBinary, OpClose, OpPing, OpPong, DefinedOpcodes

\* Frame by frame the peer makes its messages.
LEMMA PartsAre ==
  ASSUME NEW p, WellFormed(p), NEW q, Assembled(p, q), q = PartsIn(p),
         NEW k \in 1..Len(p.frames)
  PROVE  PartIs(p, k)
<1>1. PICK n \in Nat : n = Len(p.frames)
  BY EndIs
<1>2. PICK f \in MaskedFrames : f = p.frames[k]
  BY <1>1 DEF WellFormed
<1>3. f.payload \in Seq(Bytes)
  BY DEF MaskedFrames
<1>4. /\ f.opcode \in DefinedOpcodes
      /\ q[k] = IF k = 1 \/ p.frames[k - 1].fin = 1
                THEN [opcode |-> f.opcode, payload |-> f.payload, parts |-> 1]
                ELSE [opcode  |-> q[k - 1].opcode,
                      payload |-> q[k - 1].payload \o f.payload,
                      parts   |-> q[k - 1].parts + 1]
      /\ f.fin = 1 => p.talk[FinalCount(p, k)] = q[k]
  BY <1>2, Zenon DEF Assembled
<1>5. k = 1 <=> k - 1 = 0
  BY <1>1
<1>6. CASE k = 1 \/ p.frames[k - 1].fin = 1
  <2>1. q[k] = [opcode |-> f.opcode, payload |-> f.payload, parts |-> 1]
    BY <1>4, <1>6, Zenon
  <2>2. q[k].payload = f.payload /\ q[k].opcode = f.opcode
    BY <2>1
  <2>3. Unfinished(p, k - 1) = <<>>
    BY <1>5, <1>6 DEF Unfinished
  <2>4. <<>> \o f.payload = f.payload
    BY <1>3, ConcatEmptySeq
  <2> QED
    BY <1>2, <1>4, <2>2, <2>3, <2>4, OpcodesAreKnown, Zenon DEF PartIs
<1>7. CASE ~(k = 1 \/ p.frames[k - 1].fin = 1)
  <2>1. q[k] = [opcode |-> q[k - 1].opcode, payload |-> q[k - 1].payload \o f.payload,
                parts |-> q[k - 1].parts + 1]
    BY <1>4, <1>7, Zenon
  <2>2. q[k].payload = q[k - 1].payload \o f.payload /\ q[k].parts = q[k - 1].parts + 1
    <3>1. PICK o, d, m :
            o = q[k - 1].opcode /\ d = q[k - 1].payload \o f.payload /\ m = q[k - 1].parts + 1
      OBVIOUS
    <3>2. PICK x : x = q[k] /\ x = [opcode |-> o, payload |-> d, parts |-> m]
      BY <2>1, <3>1, Zenon
    <3>3. x.payload = d /\ x.parts = m
      BY <3>2
    <3> QED
      BY <3>1, <3>2, <3>3, Zenon
  <2>3. q[k - 1].parts \in Nat \ {0}
    <3>1. k - 1 \in 1..n
      BY <1>1, <1>7
    <3>2. q \in [1..n -> MessageParts]
      BY <1>1, Zenon DEF Assembled
    <3>3. q[k - 1] \in MessageParts
      BY <3>1, <3>2
    <3> QED
      BY <3>3 DEF MessageParts
  <2>4. q[k].parts # 1
    BY <2>2, <2>3
  <2>5. Unfinished(p, k - 1) = q[k - 1].payload
    BY <1>5, <1>7, Zenon DEF Unfinished
  <2> QED
    BY <1>2, <1>4, <2>2, <2>4, <2>5, OpcodesAreKnown, Zenon DEF PartIs
<1> QED
  BY <1>6, <1>7

\* The first m deliveries are the first m messages of a peer.
IsDelivered(e, message) ==
  e.payload = message.payload /\ (message.parts = 1 => e.opcode = message.opcode)

Delivers(d, talk, m) == Len(d) = m /\ \A i \in 1..m : IsDelivered(d[i], talk[i])

\* The next message is delivered behind them.
LEMMA DeliversOne ==
  ASSUME NEW S, NEW d \in Seq(S), NEW talk, NEW m \in Nat, Delivers(d, talk, m), NEW e,
         IsDelivered(e, talk[m + 1])
  PROVE  (\E T : Append(d, e) \in Seq(T)) /\ Delivers(Append(d, e), talk, m + 1)
<1>1. Len(d) = m /\ \A i \in 1..m : IsDelivered(d[i], talk[i])
  BY Zenon DEF Delivers
<1>2. PICK t : t = Append(d, e)
  OBVIOUS
<1>3. /\ \E T : t \in Seq(T)
      /\ Len(t) = m + 1
      /\ \A i \in 1..m : t[i] = d[i]
      /\ t[m + 1] = e
  <2>1. /\ \E T : t \in Seq(T)
        /\ Len(t) = Len(d) + 1
        /\ \A i \in 1..Len(d) : t[i] = d[i]
        /\ t[Len(d) + 1] = e
    BY <1>2, AppendOne, ZenonT(60)
  <2> QED
    BY <1>1, <2>1, Zenon
<1>4. ASSUME NEW i \in 1..(m + 1) PROVE IsDelivered(t[i], talk[i])
  <2>1. CASE i = m + 1
    BY <1>3, <2>1
  <2>2. CASE i # m + 1
    <3>1. i \in 1..m
      BY <2>2
    <3> QED
      BY <1>1, <1>3, <3>1
  <2> QED
    BY <2>1, <2>2
<1> QED
  BY <1>2, <1>3, <1>4, Zenon DEF Delivers

\* message_data_ and the deliveries say that k frames were taken.
FramesMade(k) ==
  /\ message_data_.data = Unfinished(peer, k)
  /\ Delivers(delivered, peer.talk, FinalCount(peer, k))

\* Until the request is taken there are no messages, and then those of the
\* frames that were consumed.
TalkInv ==
  /\ \E S : delivered \in Seq(S)
  /\ IF ws_handshake_completed_
     THEN \E k \in 0..Len(peer.frames) : consumed = EndOf(peer, k) /\ FramesMade(k)
     ELSE message_data_.data = <<>> /\ delivered = <<>>

\* A new endpoint has delivered nothing.
LEMMA TalkInit == Init => TalkInv
<1>1. \A S : <<>> \in Seq(S)
  BY EmptySeq
<1>2. EmptyBuffer.data = <<>>
  BY DEF EmptyBuffer
<1> QED
  BY <1>1, <1>2, Zenon DEF Init, TalkInv

\* Nothing but the two kinds of iterations that take a frame changes any of it.
LEMMA TalkKept ==
  ASSUME TalkInv, UNCHANGED <<ws_handshake_completed_, peer, consumed, delivered, message_data_>>
  PROVE  TalkInv'
BY DEF TalkInv, FramesMade, Delivers, Unfinished

\* With the request begins the first message.
LEMMA TalkBegins ==
  ASSUME WellServed, TakenInv, TalkInv, ~ws_handshake_completed_, RequestIsTaken
  PROVE  TalkInv'
<1>1. /\ ws_handshake_completed_' = TRUE /\ consumed' = EndOf(peer, 0)
      /\ UNCHANGED <<message_data_, peer, delivered>>
  BY Zenon DEF RequestIsTaken
<1>2. message_data_.data = <<>> /\ delivered = <<>> /\ \E S : delivered \in Seq(S)
  BY Zenon DEF TalkInv
<1>3. 0 \in 0..Len(peer.frames)
  BY EndIs DEF WellServed, TakenInv
<1>4. Unfinished(peer, 0) = <<>>
  BY DEF Unfinished
<1>5. FinalCount(peer, 0) = 0
  <2>1. 0 \in Nat
    OBVIOUS
  <2> QED
    BY <2>1, FinalCountIs, Zenon
<1>6. Delivers(<<>>, peer.talk, 0)
  BY DEF Delivers
<1>7. FramesMade(0)'
  BY <1>1, <1>2, <1>4, <1>5, <1>6 DEF FramesMade, Unfinished, FinalCount
<1> QED
  BY <1>1, <1>2, <1>3, <1>7 DEF TalkInv

\* A frame that delivers the next message
DeliversNext(k) ==
  LET c == FinalCount(peer, k - 1)
  IN  /\ Len(delivered) = c /\ FinalCount(peer, k) = c + 1
      /\ \E e : e.payload = peer.talk[c + 1].payload /\ delivered' = Append(delivered, e)

\* Frame k extends the message in message_data_, or completes and delivers it.
LEMMA TalkGoesOn ==
  ASSUME WellServed, TalkKnown, IInv, DataInv, TakenInv, TalkInv, NEW k \in 1..Len(peer.frames),
         consumed = EndOf(peer, k - 1), FrameIsTaken(k), ws_handshake_completed_
  PROVE  TalkInv' /\ (UNCHANGED delivered \/ DeliversNext(k))
<1>1. WellFormed(peer) /\ peer.valid /\ peer \in Peers
  BY Zenon DEF WellServed, TakenInv, AmongFrames
<1>2. PICK n \in Nat : n = Len(peer.frames)
  BY <1>1, EndIs
<1>3. k \in 1..n /\ k \in 0..n /\ k - 1 \in Nat /\ k - 1 \in 0..n /\ (k - 1) + 1 = k /\ k # 0
  BY <1>2
<1>4. FramesMade(k - 1)
  <2>1. PICK j \in 0..n : consumed = EndOf(peer, j) /\ FramesMade(j)
    BY <1>2, Zenon DEF TalkInv
  <2>2. j = k - 1
    BY <1>1, <1>2, <1>3, <2>1, EndsApart
  <2> QED
    BY <2>1, <2>2
<1>5. PartIs(peer, k)
  <2>1. \E part : Assembled(peer, part)
    BY <1>1, Zenon DEF TalkKnown
  <2>2. Assembled(peer, PartsIn(peer))
    BY <2>1, Zenon DEF PartsIn
  <2>3. PICK q : q = PartsIn(peer)
    OBVIOUS
  <2> QED
    BY <1>1, <2>2, <2>3, PartsAre, Zenon
<1>6. PICK f \in MaskedFrames : f = peer.frames[k]
  BY <1>1, <1>2, <1>3 DEF WellFormed
<1>7. PICK data, part, c, S :
        /\ data = message_data_.data /\ part = PartsIn(peer)[k]
        /\ c = FinalCount(peer, k - 1) /\ c \in Nat
        /\ delivered \in Seq(S)
  BY <1>3, FinalCountIs, Zenon DEF TalkInv
<1>8. /\ f.opcode \in KnownOpcodes /\ part.payload = data \o f.payload
      /\ part.parts = 1 => part.opcode = f.opcode
      /\ f.fin = 1 => peer.talk[FinalCount(peer, k)] = part
  BY <1>4, <1>5, <1>6, <1>7, Zenon DEF PartIs, FramesMade
<1>9. Delivers(delivered, peer.talk, c)
  BY <1>4, <1>7, Zenon DEF FramesMade
<1>10. Len(delivered) = c
  BY <1>9, Zenon DEF Delivers
<1>11. FinalCount(peer, k) = IF f.fin = 1 THEN c + 1 ELSE c
  <2>1. FinalCount(peer, (k - 1) + 1) =
          IF peer.frames[(k - 1) + 1].fin = 1 THEN FinalCount(peer, k - 1) + 1
          ELSE FinalCount(peer, k - 1)
    BY <1>3, FinalCountIs, Zenon
  <2> QED
    BY <1>3, <1>6, <1>7, <2>1
<1>12. PICK df : IsFound(df, f) /\ (TakeFragment(df) \/ TakeFinalFrame(df))
  BY <1>6, Zenon DEF FrameIsTaken
<1>13. df.fin = f.fin /\ df.opcode = f.opcode /\ df.payload = f.payload /\ f.payload \in Seq(Bytes)
  BY <1>12 DEF IsFound, MaskedFrames
<1>14. consumed' = EndOf(peer, k) /\ UNCHANGED <<ws_handshake_completed_, peer>>
  BY <1>12, Zenon DEF FrameIsTaken, TakeFragment, TakeFinalFrame
<1>15. PICK message :
         /\ message = AppendBytes(message_data_, df.payload)
         /\ message.data = part.payload /\ message.data \in Seq(Bytes)
         /\ ResetOft(Erase(message, Length(message))) = BufferOf(<<>>)
  BY <1>7, <1>8, <1>13, MessageIs, Zenon
<1>16. CASE TakeFragment(df)
  <2>1. f.fin # 1 /\ message_data_' = message /\ delivered' = delivered
    BY <1>13, <1>15, <1>16, Zenon DEF TakeFragment
  <2>2. Unfinished(peer, k) = part.payload
    BY <1>3, <1>6, <1>7, <2>1, Zenon DEF Unfinished
  <2>3. FinalCount(peer, k) = c
    BY <1>11, <2>1
  <2>4. message_data_'.data = Unfinished(peer, k) /\ Delivers(delivered', peer.talk, FinalCount(peer, k))
    BY <1>9, <1>15, <2>1, <2>2, <2>3, Zenon
  <2>5. FramesMade(k)'
    BY <1>14, <2>4 DEF FramesMade, Unfinished, FinalCount
  <2>6. \E T : delivered' \in Seq(T)
    BY <1>7, <2>1, Zenon
  <2> QED
    BY <1>2, <1>3, <1>14, <2>1, <2>5, <2>6 DEF TalkInv
<1>17. CASE TakeFinalFrame(df)
  <2>1. f.fin = 1 /\ message_data_' = BufferOf(<<>>) /\ Echo(f.opcode, part.payload)
    BY <1>8, <1>13, <1>15, <1>17, Zenon DEF TakeFinalFrame
  <2>2. PICK e : e = [opcode |-> f.opcode, payload |-> part.payload]
    OBVIOUS
  <2>3. delivered' = Append(delivered, e)
    BY <1>8, <1>15, <2>1, <2>2, EchoIs, Zenon
  <2>4. e.payload = part.payload /\ e.opcode = f.opcode
    BY <2>2
  <2>5. FinalCount(peer, k) = c + 1 /\ peer.talk[c + 1] = part
    BY <1>8, <1>11, <2>1
  <2>6. IsDelivered(e, peer.talk[c + 1])
    BY <1>8, <2>4, <2>5, Zenon DEF IsDelivered
  <2>7. (\E T : delivered' \in Seq(T)) /\ Delivers(delivered', peer.talk, c + 1)
    BY <1>7, <1>9, <2>3, <2>6, DeliversOne, Zenon
  <2>8. Unfinished(peer, k) = <<>>
    BY <1>6, <2>1 DEF Unfinished
  <2>9. message_data_'.data = Unfinished(peer, k)
    BY <2>1, <2>8, BufferOfIs, Zenon
  <2>10. FramesMade(k)'
    BY <1>14, <2>5, <2>7, <2>9 DEF FramesMade, Unfinished, FinalCount
  <2>11. DeliversNext(k)
    BY <1>7, <1>10, <2>3, <2>4, <2>5, Zenon DEF DeliversNext
  <2> QED
    BY <1>2, <1>3, <1>14, <2>7, <2>10, <2>11 DEF TalkInv
<1> QED
  BY <1>12, <1>16, <1>17

\* What an iteration over frames leaves of the invariant, and of the buffers
LEMMA TalkFrames ==
  ASSUME WellServed, TalkKnown, IInv, DataInv, TakenInv, TalkInv, FrameStep
  PROVE  TalkInv'
<1>1. ws_handshake_completed_
  BY Zenon DEF FrameStep, InFrames
<1>2. PICK k \in 1..Len(peer.frames) :
        /\ consumed = EndOf(peer, k - 1)
        /\ FrameIsTaken(k) \/ FrameIsAwaited(k)
  BY FrameParsed
<1>3. CASE FrameIsTaken(k)
  BY <1>1, <1>2, <1>3, TalkGoesOn
<1>4. CASE FrameIsAwaited(k)
  <2>1. UNCHANGED <<ws_handshake_completed_, peer, consumed, delivered, message_data_>>
    BY <1>4, Zenon DEF FrameIsAwaited
  <2> QED
    BY <2>1, TalkKept
<1> QED
  BY <1>2, <1>3, <1>4

\* Every step keeps what TalkInv says.
LEMMA TalkNext ==
  ASSUME WellServed, TalkKnown, RequestInTime, IInv, DataInv, TakenInv, TalkInv, [Next]_vars
  PROVE  TalkInv'
<1>1. ASSUME NEW size \in 1..Len(peer.bytes), FromWire(size) PROVE TalkInv'
  <2>1. UNCHANGED <<ws_handshake_completed_, peer, consumed, delivered, message_data_>>
    BY <1>1, Zenon DEF FromWire
  <2> QED
    BY <2>1, TalkKept
<1>2. CASE HandshakeStep
  <2>1. ~ws_handshake_completed_
    BY <1>2, Zenon DEF HandshakeStep, InHandshake
  <2>2. CASE RequestIsTaken
    BY <2>1, <2>2, TalkBegins
  <2>3. CASE RequestIsRefused
    <3>1. UNCHANGED <<ws_handshake_completed_, peer, consumed, delivered, message_data_>>
      BY <2>3, Zenon DEF RequestIsRefused
    <3> QED
      BY <3>1, TalkKept
  <2> QED
    BY <1>2, <2>2, <2>3, RequestParsed
<1>3. CASE FrameStep
  BY <1>3, TalkFrames
<1>4. CASE UNCHANGED vars
  <2>1. UNCHANGED <<ws_handshake_completed_, peer, consumed, delivered, message_data_>>
    BY <1>4, Zenon DEF vars
  <2> QED
    BY <2>1, TalkKept
<1> QED
  BY <1>1, <1>2, <1>3, <1>4, StepsServed, Zenon

\* The messages in n bytes are those that the frames in them end, and the peer
\* means no fewer.
LEMMA MessagesAre ==
  ASSUME TalkKnown, NEW p \in Peers, WellFormed(p), NEW n \in Nat
  PROVE  LET m == FinalCount(p, FramesIn(p, n))
         IN  /\ MessageCount(p, n) = m /\ m \in Nat
             /\ p.valid => p.talk \in Seq(MessageParts) /\ m <= Len(p.talk)
             /\ ~p.valid => m = 0
             /\ Len(MessagesIn(p, n)) = m
             /\ \A i \in 1..m : MessagesIn(p, n)[i] = p.talk[i]
<1>1. PICK k, m : k = FramesIn(p, n) /\ m = FinalCount(p, k)
  OBVIOUS
<1>2. MessageCount(p, n) = m
  BY <1>1, Zenon DEF MessageCount, FinalCount
<1>3. k \in Nat /\ k <= Len(p.frames) /\ (~p.valid => k = 0)
  <2>1. n <= n
    OBVIOUS
  <2> QED
    BY <1>1, <2>1, FramesInIs
<1>4. m \in Nat /\ FinalCount(p, 0) = 0
  BY <1>1, <1>3, FinalCountIs, Zenon
<1>5. PICK t : t = MessagesIn(p, n)
  OBVIOUS
<1>6. t = SubSeq(p.talk, 1, m)
  BY <1>2, <1>5, Zenon DEF MessagesIn
<1>7. CASE p.valid
  <2>1. PICK part : Assembled(p, part)
    BY <1>7, Zenon DEF TalkKnown
  <2>2. PICK talk \in Seq(MessageParts) :
          talk = p.talk /\ Len(talk) = FinalCount(p, Len(p.frames))
    BY <2>1, Zenon DEF Assembled
  <2>3. m <= Len(talk)
    <3>1. Len(p.frames) \in Nat
      BY EndIs
    <3> QED
      BY <1>1, <1>3, <2>2, <3>1, FinalCountGrows
  <2>4. Len(t) = m /\ \A i \in 1..m : t[i] = talk[i]
    <3>1. PICK d : d = SubSeq(talk, 0 + 1, m)
      OBVIOUS
    <3>2. Len(d) = m - 0 /\ \A i \in 1..(m - 0) : d[i] = talk[0 + i]
      BY <1>4, <2>3, <3>1, BytesBetween
    <3>3. d = t
      BY <1>6, <2>2, <3>1
    <3> QED
      BY <1>4, <3>2, <3>3
  <2> QED
    BY <1>1, <1>2, <1>4, <1>5, <1>7, <2>2, <2>3, <2>4, Zenon
<1>8. CASE ~p.valid
  <2>1. m = 0
    BY <1>1, <1>3, <1>4, <1>8, Zenon
  <2>2. SubSeq(p.talk, 0 + 1, 0) = <<>>
    BY SubSeqEmpty
  <2>3. Len(t) = m /\ \A i \in 1..m : t[i] = p.talk[i]
    BY <1>6, <2>1, <2>2
  <2> QED
    BY <1>1, <1>2, <1>4, <1>5, <1>8, <2>1, <2>3, Zenon
<1> QED
  BY <1>7, <1>8

\* When process() returns, the messages in what was received are delivered.
LEMMA TalkShows ==
  ASSUME WellServed, TalkKnown, IInv, TakenInv, TalkInv
  PROVE  MessagesDelivered
<1> SUFFICES ASSUME pc = "idle" PROVE MessagesDelivered
  BY DEF MessagesDelivered
<1>1. WellFormed(peer) /\ peer \in Peers
  BY Zenon DEF WellServed, TakenInv
<1>2. received \in Nat
  BY WireTypes DEF IInv
<1>3. PICK m, t : m = FinalCount(peer, FramesIn(peer, received)) /\ t = MessagesIn(peer, received)
  OBVIOUS
<1>4. /\ Len(t) = m /\ m \in Nat /\ (~peer.valid => m = 0)
      /\ \A i \in 1..m : t[i] = peer.talk[i]
  BY <1>1, <1>2, <1>3, MessagesAre, Zenon
<1>5. Delivers(delivered, peer.talk, m)
  <2>1. CASE ws_handshake_completed_
    <3>1. PICK k \in 0..Len(peer.frames) : consumed = EndOf(peer, k) /\ FramesMade(k)
      BY <2>1, Zenon DEF TalkInv
    <3>2. PICK j \in 0..Len(peer.frames) :
            consumed = EndOf(peer, j) /\ Contains(peer, received, j) /\ peer.valid
      BY <2>1, Zenon DEF TakenInv, AmongFrames
    <3>3. EndOf(peer, j) = EndOf(peer, k)
      BY <3>1, <3>2
    <3>4. j = k
      BY <1>1, <3>3, EndsApart
    <3>5. FramesIn(peer, received) = k
      BY <1>1, <3>2, <3>4, FramesCounted, Zenon
    <3> QED
      BY <1>3, <3>1, <3>5, Zenon DEF FramesMade
  <2>2. CASE ~ws_handshake_completed_
    <3>1. delivered = <<>> /\ (received = 0 \/ ~peer.valid)
      BY <2>2, Zenon DEF TalkInv, TakenInv, BeforeFrames
    <3>2. m = 0
      <4>1. CASE ~peer.valid
        BY <1>4, <4>1
      <4>2. CASE received = 0
        <5>1. 0 \in Nat
          OBVIOUS
        <5>2. FinalCount(peer, 0) = 0
          BY <5>1, FinalCountIs, Zenon
        <5> QED
          BY <1>1, <1>3, <4>2, <5>2, NoFrameAtFirst, Zenon
      <4> QED
        BY <3>1, <4>1, <4>2
    <3>3. Delivers(<<>>, peer.talk, 0)
      BY DEF Delivers
    <3> QED
      BY <3>1, <3>2, <3>3
  <2> QED
    BY <2>1, <2>2
<1>6. Len(delivered) = m /\ \A i \in 1..m : IsDelivered(delivered[i], peer.talk[i])
  BY <1>5, Zenon DEF Delivers
<1>7. \A i \in 1..m : IsDelivered(delivered[i], t[i])
  BY <1>4, <1>6, Zenon
<1> QED
  BY <1>3, <1>4, <1>6, <1>7, Zenon DEF MessagesDelivered, IsDelivered

\* The invariants that the following rests on, taken together
ServedInv == IInv /\ DataInv /\ TakenInv /\ TalkInv

\* They hold from the start, and every step keeps them.
LEMMA ServedStarts == ASSUME WellServed, TalkKnown PROVE Init => ServedInv
<1>1. Init => DataInv
  BY EmptySeq DEF Init, DataInv, EmptyBuffer, Buffer
<1> QED
  BY <1>1, InitKeeps, TakenInit, TalkInit DEF ServedInv

LEMMA ServedKept ==
  ASSUME WellServed, TalkKnown
  PROVE  ServedInv /\ RequestInTime /\ [Next]_vars => ServedInv'
BY NextKeeps, DataNext, TakenNext, TalkNext DEF ServedInv

LEMMA ServedHolds ==
  ASSUME WellServed, TalkKnown
  PROVE  Spec /\ []RequestInTime => []ServedInv
BY ServedStarts, ServedKept, PTL DEF Spec

\* What reaches user_defined_process are the messages that the peer sent, each of
\* them as soon as its last byte is there, whatever reads the bytes come in.
THEOREM MessagesTaken ==
  ASSUME WellServed, TalkKnown
  PROVE  Spec /\ []RequestInTime => []MessagesDelivered
<1>1. ServedInv => MessagesDelivered
  BY TalkShows DEF ServedInv
<1> QED
  BY <1>1, ServedHolds, PTL

(***************************************************************************)
(* The endpoint is an echo service                                         *)
(***************************************************************************)

\* What Payloads does with messages
LEMMA PayloadsAre ==
  ASSUME NEW S, NEW d \in Seq(S)
  PROVE  /\ \E T : Payloads(d) \in Seq(T)
         /\ Len(Payloads(d)) = Len(d)
         /\ \A i \in 1..Len(d) : Payloads(d)[i] = d[i].payload
<1>1. PICK n \in Nat : n = Len(d)
  BY LenProperties
<1>2. PICK T : T = {d[i].payload : i \in 1..n}
  OBVIOUS
<1>3. PICK q : q = [i \in 1..n |-> d[i].payload]
  OBVIOUS
<1>4. q \in Seq(T) /\ Len(q) = n /\ \A i \in 1..n : q[i] = d[i].payload
  BY <1>2, <1>3
<1>5. Payloads(d) = q
  BY <1>1, <1>3 DEF Payloads
<1> QED
  BY <1>1, <1>4, <1>5, Zenon

\* One message more is one payload more.
LEMMA PayloadsAppend ==
  ASSUME NEW S, NEW d \in Seq(S), NEW e
  PROVE  Payloads(Append(d, e)) = Append(Payloads(d), e.payload)
<1>1. PICK n \in Nat : n = Len(d)
  BY LenProperties
<1>2. PICK t, T : t = Append(d, e) /\ t \in Seq(T)
  BY AppendOne, Zenon
<1>3. Len(t) = n + 1 /\ (\A i \in 1..n : t[i] = d[i]) /\ t[n + 1] = e
  <2>1. /\ Len(t) = Len(d) + 1
        /\ \A i \in 1..Len(d) : t[i] = d[i]
        /\ t[Len(d) + 1] = e
    BY <1>2, AppendOne, ZenonT(60)
  <2> QED
    BY <1>1, <2>1, Zenon
<1>4. PICK q, Q : q = Payloads(d) /\ q \in Seq(Q)
  BY PayloadsAre, Zenon
<1>5. Len(q) = n /\ \A i \in 1..n : q[i] = d[i].payload
  BY <1>1, <1>4, PayloadsAre, Zenon
<1>6. PICK u, U : u = Payloads(t) /\ u \in Seq(U)
  BY <1>2, PayloadsAre, Zenon
<1>7. Len(u) = n + 1 /\ \A i \in 1..(n + 1) : u[i] = t[i].payload
  <2>1. Len(u) = Len(t) /\ \A i \in 1..Len(t) : u[i] = t[i].payload
    BY <1>2, <1>6, PayloadsAre, Zenon
  <2> QED
    BY <1>3, <2>1, Zenon
<1>8. PICK x, v, V : x = e.payload /\ v = Append(q, x) /\ v \in Seq(V)
  BY <1>4, AppendOne, Zenon
<1>9. Len(v) = n + 1 /\ (\A i \in 1..n : v[i] = q[i]) /\ v[n + 1] = x
  <2>1. q \in Seq(Q) /\ v = Append(q, x)
    BY <1>4, <1>8
  <2>2. /\ Len(v) = Len(q) + 1
        /\ \A i \in 1..Len(q) : v[i] = q[i]
        /\ v[Len(q) + 1] = x
    BY <2>1, AppendOne, ZenonT(60)
  <2> QED
    BY <1>5, <2>2, Zenon
<1>10. u = v
  <2>1. \A i \in 1..(n + 1) : u[i] = v[i]
    <3> TAKE i \in 1..(n + 1)
    <3>1. CASE i = n + 1
      BY <1>3, <1>7, <1>8, <1>9, <3>1
    <3>2. CASE i # n + 1
      <4>1. i \in 1..n
        BY <3>2
      <4> QED
        BY <1>3, <1>5, <1>7, <1>9, <4>1
    <3> QED
      BY <3>1, <3>2
  <2>2. u \in Seq(U \cup V) /\ v \in Seq(U \cup V)
    BY <1>6, <1>8, SeqMonotonic
  <2> QED
    BY <1>7, <1>9, <2>1, <2>2, SeqEqual
<1> QED
  BY <1>2, <1>4, <1>6, <1>8, <1>10, Zenon

\* An endpoint starts as an echo service does.
LEMMA ServiceStarts ==
  ASSUME WellServed, TalkKnown, Init
  PROVE  Service!Init
<1>1. peer \in Peers /\ received = 0 /\ delivered = <<>>
  BY Zenon DEF Init
<1>2. MessageCount(peer, 0) = 0
  <2>1. FramesIn(peer, 0) = 0
    BY <1>1, NoFrameAtFirst, Zenon DEF WellServed
  <2>2. 0 \in Nat
    OBVIOUS
  <2>3. FinalCount(peer, 0) = 0
    BY <2>2, FinalCountIs, Zenon
  <2> QED
    BY <2>1, <2>3, Zenon DEF MessageCount, FinalCount
<1>3. Payloads(<<>>) = <<>>
  BY DEF Payloads
<1> QED
  BY <1>1, <1>2, <1>3 DEF Service!Init

\* To the peer a read is the arrival of the messages that it completes.
LEMMA ServiceArrives ==
  ASSUME WellServed, TalkKnown, IInv, TakenInv, NEW size \in 1..Len(peer.bytes), FromWire(size)
  PROVE  [Service!Next]_(Service!vars)
<1>1. PICK r \in Nat : r = received
  BY WireTypes DEF IInv
<1>2. r + size \in Nat /\ r <= r + size
  BY <1>1
<1>3. received' = r + size /\ UNCHANGED <<peer, delivered>>
  BY <1>1, Zenon DEF FromWire
<1>4. WellFormed(peer) /\ peer \in Peers
  BY Zenon DEF WellServed, TakenInv
<1>5. PICK x, y : x = MessageCount(peer, r) /\ y = MessageCount(peer, r + size)
  OBVIOUS
<1>6. x \in Nat /\ y \in Nat /\ x <= y
  <2>1. PICK j, k : j = FramesIn(peer, r) /\ k = FramesIn(peer, r + size)
    OBVIOUS
  <2>2. j \in Nat /\ k \in Nat /\ j <= k
    <3>1. j \in Nat /\ j <= k
      BY <1>2, <1>4, <2>1, FramesInIs
    <3>2. r + size <= r + size
      BY <1>2
    <3>3. k \in Nat
      BY <1>2, <1>4, <2>1, <3>2, FramesInIs
    <3> QED
      BY <3>1, <3>3
  <2>3. x = FinalCount(peer, j) /\ y = FinalCount(peer, k)
    BY <1>5, <2>1, Zenon DEF MessageCount, FinalCount
  <2>4. FinalCount(peer, j) \in Nat /\ FinalCount(peer, k) \in Nat
    BY <2>2, FinalCountIs, Zenon
  <2>5. FinalCount(peer, j) <= FinalCount(peer, k)
    BY <2>2, FinalCountGrows
  <2> QED
    BY <2>3, <2>4, <2>5
<1>7. x < y => y <= Len(Payloads(peer.talk))
  <2> SUFFICES ASSUME x < y PROVE y <= Len(Payloads(peer.talk))
    OBVIOUS
  <2>1. /\ peer.valid => peer.talk \in Seq(MessageParts) /\ y <= Len(peer.talk)
        /\ ~peer.valid => y = 0
    BY <1>2, <1>4, <1>5, MessagesAre, Zenon
  <2>2. peer.talk \in Seq(MessageParts) /\ y <= Len(peer.talk)
    BY <1>6, <2>1
  <2>3. Len(Payloads(peer.talk)) = Len(peer.talk)
    BY <2>2, PayloadsAre, Zenon
  <2> QED
    BY <2>2, <2>3
<1>8. MessageCount(peer, received) = x /\ MessageCount(peer, received)' = y
  BY <1>1, <1>3, <1>5
<1>9. UNCHANGED <<Payloads(peer.talk), Payloads(delivered)>>
  BY <1>3
<1>10. CASE x = y
  BY <1>8, <1>9, <1>10 DEF Service!vars
<1>11. CASE x < y
  <2>1. PICK l : l = Len(Payloads(peer.talk))
    OBVIOUS
  <2>2. l \in Nat
    <3>1. peer.valid
      <4>1. ~peer.valid => y = 0
        BY <1>2, <1>4, <1>5, MessagesAre, Zenon
      <4> QED
        BY <1>6, <1>11, <4>1
    <3>2. peer.talk \in Seq(MessageParts)
      BY <1>2, <1>4, <1>5, <3>1, MessagesAre, Zenon
    <3> QED
      BY <2>1, <3>2, PayloadsAre, LenProperties
  <2>3. y \in (x + 1)..l
    BY <1>6, <1>7, <1>11, <2>1, <2>2
  <2>4. Service!Arrive
    BY <1>8, <1>9, <2>1, <2>3 DEF Service!Arrive
  <2> QED
    BY <2>4 DEF Service!Next
<1> QED
  BY <1>6, <1>10, <1>11

\* A frame that completes a message is the answer to the oldest one that has not
\* been answered.
LEMMA ServiceAnswers ==
  ASSUME WellServed, TalkKnown, IInv, TakenInv, TalkInv, ws_handshake_completed_,
         NEW k \in 1..Len(peer.frames), EndOf(peer, k) <= received, DeliversNext(k),
         UNCHANGED <<peer, received>>
  PROVE  Service!Answer
<1>1. PICK r \in Nat : r = received
  BY WireTypes DEF IInv
<1>2. WellFormed(peer) /\ peer \in Peers /\ peer.valid
  BY Zenon DEF WellServed, TakenInv, AmongFrames
<1>3. PICK n \in Nat : n = Len(peer.frames)
  BY <1>2, EndIs
<1>4. k \in Nat /\ k - 1 \in Nat
  BY <1>3
<1>5. PICK c, e, S :
        /\ c = FinalCount(peer, k - 1) /\ Len(delivered) = c /\ FinalCount(peer, k) = c + 1
        /\ e.payload = peer.talk[c + 1].payload /\ delivered' = Append(delivered, e)
        /\ delivered \in Seq(S)
  BY Zenon DEF DeliversNext, TalkInv
<1>6. c \in Nat
  BY <1>4, <1>5, FinalCountIs, Zenon
<1>7. PICK m : m = MessageCount(peer, r)
  OBVIOUS
<1>8. /\ m \in Nat /\ m = FinalCount(peer, FramesIn(peer, r))
      /\ peer.talk \in Seq(MessageParts) /\ m <= Len(peer.talk)
  BY <1>1, <1>2, <1>7, MessagesAre, Zenon
<1>9. c < m
  <2>1. k <= FramesIn(peer, r)
    BY <1>1, <1>2, FramesWithin
  <2>2. FramesIn(peer, r) \in Nat
    <3>1. r <= r
      OBVIOUS
    <3> QED
      BY <1>1, <1>2, <3>1, FramesInIs
  <2>3. FinalCount(peer, k) <= FinalCount(peer, FramesIn(peer, r))
    BY <1>4, <2>1, <2>2, FinalCountGrows
  <2> QED
    BY <1>5, <1>6, <1>8, <2>3
<1>10. /\ Len(Payloads(delivered)) = c
       /\ Payloads(delivered)' = Append(Payloads(delivered), e.payload)
  BY <1>5, PayloadsAre, PayloadsAppend, Zenon
<1>11. Payloads(peer.talk)[c + 1] = e.payload
  <2>1. PICK l \in Nat : l = Len(peer.talk)
    BY <1>8, LenProperties
  <2>2. c + 1 \in 1..l
    BY <1>6, <1>8, <1>9, <2>1
  <2>3. Payloads(peer.talk)[c + 1] = peer.talk[c + 1].payload
    BY <1>8, <2>1, <2>2, PayloadsAre, Zenon
  <2> QED
    BY <1>5, <2>3
<1>12. UNCHANGED <<Payloads(peer.talk), MessageCount(peer, received)>>
  OBVIOUS
<1> QED
  BY <1>1, <1>7, <1>9, <1>10, <1>11, <1>12 DEF Service!Answer

\* Every step is an arrival, an answer, or invisible to the peer.
LEMMA ServiceNext ==
  ASSUME WellServed, TalkKnown, RequestInTime, IInv, DataInv, TakenInv, TalkInv, [Next]_vars
  PROVE  [Service!Next]_(Service!vars)
<1>1. ASSUME NEW size \in 1..Len(peer.bytes), FromWire(size)
      PROVE  [Service!Next]_(Service!vars)
  BY <1>1, ServiceArrives
<1>2. ASSUME UNCHANGED <<peer, received, delivered>>
      PROVE  [Service!Next]_(Service!vars)
  BY <1>2 DEF Service!vars
<1>3. CASE HandshakeStep
  <2>1. RequestIsTaken \/ RequestIsRefused
    BY <1>3, RequestParsed
  <2>2. UNCHANGED <<peer, received, delivered>>
    BY <2>1, Zenon DEF RequestIsTaken, RequestIsRefused
  <2> QED
    BY <1>2, <2>2
<1>4. CASE FrameStep
  <2>1. PICK k \in 1..Len(peer.frames) :
          /\ consumed = EndOf(peer, k - 1)
          /\ FrameIsTaken(k) \/ FrameIsAwaited(k)
    BY <1>4, FrameParsed
  <2>2. CASE FrameIsAwaited(k)
    <3>1. UNCHANGED <<peer, received, delivered>>
      BY <2>2, Zenon DEF FrameIsAwaited
    <3> QED
      BY <1>2, <3>1
  <2>3. CASE FrameIsTaken(k)
    <3>1. ws_handshake_completed_
      BY <1>4, Zenon DEF FrameStep, InFrames
    <3>2. EndOf(peer, k) <= received /\ UNCHANGED <<peer, received>>
      BY <2>3, Zenon DEF FrameIsTaken, TakeFragment, TakeFinalFrame
    <3>3. UNCHANGED delivered \/ DeliversNext(k)
      BY <2>1, <2>3, <3>1, TalkGoesOn
    <3>4. CASE UNCHANGED delivered
      BY <1>2, <3>2, <3>4
    <3>5. CASE DeliversNext(k)
      BY <3>1, <3>2, <3>5, ServiceAnswers DEF Service!Next
    <3> QED
      BY <3>3, <3>4, <3>5
  <2> QED
    BY <2>1, <2>2, <2>3
<1>5. CASE UNCHANGED vars
  <2>1. UNCHANGED <<peer, received, delivered>>
    BY <1>5, Zenon DEF vars
  <2> QED
    BY <1>2, <2>1
<1> QED
  BY <1>1, <1>3, <1>4, <1>5, StepsServed

\* For every such peer and cut into reads the endpoint does nothing that an echo
\* service may not do: it answers the messages that have arrived, in their order,
\* each with itself and once, and sends no others.
THEOREM EndpointIsEchoService ==
  ASSUME WellServed, TalkKnown
  PROVE  Spec /\ []RequestInTime => Service!SafeSpec
<1>1. Init => Service!Init
  BY ServiceStarts
<1>2. ServedInv /\ RequestInTime /\ [Next]_vars => [Service!Next]_(Service!vars)
  BY ServiceNext DEF ServedInv
<1> QED
  BY <1>1, <1>2, ServedHolds, PTL DEF Spec, Service!SafeSpec

\* p is made of a request and frames: w[k] is its bytes as far as frame k.
MadeOf(p, r, valid, frames, n, w, pieces) ==
  /\ Chained(w, n, r, pieces) /\ r \in Seq(Bytes) /\ n = Len(frames)
  /\ \A k \in 1..n : /\ frames[k] \in MaskedFrames /\ HasShortLength(Len(frames[k].payload))
                      /\ Len(EncodeHeader(frames[k])) \in Nat
                      /\ pieces[k] = EncodeFrame(frames[k])
  /\ p.request = Len(w[0]) /\ p.valid = valid /\ p.frames = frames
  /\ p.header = [k \in 1..n |-> Len(w[k - 1]) + Len(EncodeHeader(frames[k]))]
  /\ p.end = [k \in 1..n |-> Len(w[k])]
  /\ p.bytes = w[n]
  /\ p.talk = IF valid THEN Messages(frames) ELSE <<>>

LEMMA MadeIs ==
  ASSUME NEW lines \in Seq(Seq(Bytes)), NEW valid, NEW frames, PlainFrames(frames),
         NEW p, p = MakePeer(lines, valid, frames)
  PROVE  \E n \in Nat : \E w, pieces : MadeOf(p, EncodeRequest(lines), valid, frames, n, w, pieces)
<1>1. frames \in Seq(MaskedFrames)
  BY Zenon DEF PlainFrames
<1>2. PICK n \in Nat : n = Len(frames)
  BY <1>1, LenProperties
<1>3. \A k \in 1..n : /\ frames[k] \in MaskedFrames /\ HasShortLength(Len(frames[k].payload))
                      /\ EncodeFrame(frames[k]) \in Seq(Bytes)
                      /\ Len(EncodeHeader(frames[k])) \in Nat
  <2> TAKE k \in 1..n
  <2>1. frames[k] \in MaskedFrames
    BY <1>1, <1>2
  <2>2. HasShortLength(Len(frames[k].payload))
    BY <1>2, Zenon DEF PlainFrames
  <2>3. IsShortFrame(frames[k])
    BY <2>1, <2>2, MaskedIsShort, Zenon
  <2> QED
    BY <2>1, <2>2, <2>3, FrameIsLonger, Zenon
<1>4. PICK r \in Seq(Bytes) : r = EncodeRequest(lines)
  BY RequestIsBytes
<1>5. PICK pieces : pieces = [k \in 1..n |-> EncodeFrame(frames[k])]
  OBVIOUS
<1>6. \A k \in 1..n : pieces[k] = EncodeFrame(frames[k]) /\ pieces[k] \in Seq(Bytes)
  BY <1>3, <1>5, Zenon
<1>7. n = Len(pieces)
  BY <1>5
<1>8. PICK w : w = Chain(r, pieces)
  OBVIOUS
<1>9. Chained(w, n, r, pieces)
  <2>1. \A k \in 1..n : pieces[k] \in Seq(Bytes)
    BY <1>6, Zenon
  <2> QED
    BY <1>7, <1>8, <2>1, ChainIs, Zenon
<1>10. p = [request |-> Len(w[0]), valid |-> valid, frames |-> frames,
            header |-> [k \in 1..n |-> Len(w[k - 1]) + Len(EncodeHeader(frames[k]))],
            end |-> [k \in 1..n |-> Len(w[k])],
            bytes |-> w[n],
            talk |-> IF valid THEN Messages(frames) ELSE <<>>]
  BY <1>2, <1>4, <1>5, <1>8, Zenon DEF MakePeer
<1>11. /\ p.request = Len(w[0]) /\ p.valid = valid /\ p.frames = frames
       /\ p.header = [k \in 1..n |-> Len(w[k - 1]) + Len(EncodeHeader(frames[k]))]
       /\ p.end = [k \in 1..n |-> Len(w[k])]
       /\ p.bytes = w[n]
       /\ p.talk = IF valid THEN Messages(frames) ELSE <<>>
  BY <1>10
<1>12. MadeOf(p, r, valid, frames, n, w, pieces)
  BY <1>2, <1>3, <1>6, <1>9, <1>11, Zenon DEF MadeOf
<1> QED
  BY <1>4, <1>12, Zenon

\* What MakePeer makes of such frames is what the proofs above are about.
LEMMA MadeIsWellFormed ==
  ASSUME NEW p, NEW r, NEW valid \in BOOLEAN, NEW frames, PlainFrames(frames), NEW n \in Nat,
         NEW w, NEW pieces, MadeOf(p, r, valid, frames, n, w, pieces)
  PROVE  WellFormed(p)
<1>1. frames \in Seq(MaskedFrames)
  BY Zenon DEF PlainFrames
<1>2. n = Len(frames)
  BY Zenon DEF MadeOf
<1>3. \A k \in 1..n : HasShortLength(Len(frames[k].payload)) /\ Len(EncodeHeader(frames[k])) \in Nat
  BY Zenon DEF MadeOf
<1>6. \A k \in 1..n : pieces[k] = EncodeFrame(frames[k])
  BY Zenon DEF MadeOf
<1>9. Chained(w, n, r, pieces)
  BY Zenon DEF MadeOf
<1>11. /\ p.request = Len(w[0]) /\ p.valid = valid /\ p.frames = frames
       /\ p.header = [k \in 1..n |-> Len(w[k - 1]) + Len(EncodeHeader(frames[k]))]
       /\ p.end = [k \in 1..n |-> Len(w[k])]
       /\ p.bytes = w[n]
  BY Zenon DEF MadeOf
<1>12. \A k \in 0..n : Len(w[k]) \in Nat
  BY <1>9, LenProperties DEF Chained
<1>13. \A k \in 0..n : EndOf(p, k) = Len(w[k])
  <2> TAKE k \in 0..n
  <2>1. CASE k = 0
    BY <2>1, <1>11, Zenon DEF EndOf
  <2>2. CASE k # 0
    <3>1. k \in 1..n
      BY <2>2
    <3> QED
      BY <2>2, <3>1, <1>11, Zenon DEF EndOf
  <2> QED
    BY <2>1, <2>2
<1>14. p.header \in [1..n -> Nat] /\ p.end \in [1..n -> Nat]
  <2>1. \A k \in 1..n : k - 1 \in 0..n /\ k \in 0..n
    OBVIOUS
  <2>2. \A k \in 1..n : Len(w[k - 1]) \in Nat /\ Len(w[k]) \in Nat
    BY <1>12, <2>1, Zenon
  <2>3. \A k \in 1..n : Len(w[k - 1]) + Len(EncodeHeader(frames[k])) \in Nat
    <3> TAKE k \in 1..n
    <3>1. PICK a, b : a = Len(w[k - 1]) /\ b = Len(EncodeHeader(frames[k]))
      OBVIOUS
    <3>2. a \in Nat /\ b \in Nat
      BY <1>3, <2>2, <3>1, Zenon
    <3>3. a + b \in Nat
      BY <3>2
    <3> QED
      BY <3>1, <3>3, Zenon
  <2> QED
    BY <1>11, <2>2, <2>3, Zenon
<1>15. ASSUME NEW k \in 1..n
       PROVE  /\ HasShortLength(Len(p.frames[k].payload))
              /\ p.header[k] = EndOf(p, k - 1) + Len(EncodeHeader(p.frames[k]))
              /\ p.end[k] = EndOf(p, k - 1) + Len(EncodeFrame(p.frames[k]))
              /\ SubSeq(p.bytes, EndOf(p, k - 1) + 1, p.end[k]) = EncodeFrame(p.frames[k])
  <2>1. k - 1 \in 0..n
    OBVIOUS
  <2>2. EndOf(p, k - 1) = Len(w[k - 1]) /\ p.end[k] = Len(w[k])
    BY <1>11, <1>13, <2>1, Zenon
  <2>3. /\ Len(w[k]) = Len(w[k - 1]) + Len(pieces[k])
        /\ SubSeq(w[n], Len(w[k - 1]) + 1, Len(w[k])) = pieces[k]
    <3>1. PieceAt(w, n, pieces, k)
      BY <1>9, PieceStands, Zenon
    <3> QED
      BY <3>1, Zenon DEF PieceAt
  <2>4. p.header[k] = Len(w[k - 1]) + Len(EncodeHeader(frames[k]))
    BY <1>11, Zenon
  <2> QED
    BY <1>3, <1>6, <1>11, <2>2, <2>3, <2>4, Zenon
<1>16. Len(p.bytes) = EndOf(p, n)
  <2>1. n \in 0..n
    OBVIOUS
  <2> QED
    BY <1>11, <1>13, <2>1, Zenon
<1>17. p.request \in Nat
  <2>1. 0 \in 0..n
    OBVIOUS
  <2> QED
    BY <1>11, <1>12, <2>1, Zenon
<1> QED
  BY <1>1, <1>2, <1>11, <1>14, <1>15, <1>16, <1>17, Zenon DEF WellFormed

(***************************************************************************)
(* The messages of a peer                                                  *)
(***************************************************************************)

\* What frames make: the messages that are done, and the one that is open
Takings ==
  [done : Seq(MessageParts), open : BOOLEAN,
   part : [opcode : Bytes, payload : Seq(Bytes), parts : Nat]]

Whole(f) == [opcode |-> f.opcode, payload |-> f.payload, parts |-> 1]

Continued(m, f) ==
  [opcode |-> m.opcode, payload |-> m.payload \o f.payload, parts |-> m.parts + 1]

\* One more of them
Takes(s, f, t) ==
  /\ t \in Takings
  /\ IsControl(f) => t.open = s.open /\ t.part = s.part
  /\ ~IsControl(f) => (t.open <=> f.fin # 1)
  /\ ~IsControl(f) => t.part = IF s.open THEN Continued(s.part, f) ELSE Whole(f)
  /\ IF f.fin = 1 \/ IsControl(f)
     THEN t.done = Append(s.done, IF IsControl(f) THEN Whole(f) ELSE t.part)
     ELSE t.done = s.done

LEMMA FrameTakenIs ==
  ASSUME NEW s \in Takings, NEW f \in MaskedFrames, NEW t, t = TakeFrame(s, f)
  PROVE  Takes(s, f, t)
<1>1. PICK m : m = IF ~IsControl(f) /\ s.open THEN Continued(s.part, f) ELSE Whole(f)
  OBVIOUS
<1>2. PICK d, o, q : d = s.done /\ o = s.open /\ q = s.part
  OBVIOUS
<1>3. /\ d \in Seq(MessageParts) /\ o \in BOOLEAN
      /\ q \in [opcode : Bytes, payload : Seq(Bytes), parts : Nat]
      /\ s = [done |-> d, open |-> o, part |-> q]
  BY <1>2 DEF Takings
<1>4. m \in MessageParts
  <2>1. f.opcode \in Bytes /\ f.payload \in Seq(Bytes)
    BY DEF MaskedFrames, Bytes
  <2>2. Whole(f) \in MessageParts
    BY <2>1 DEF Whole, MessageParts
  <2>3. q.opcode \in Bytes /\ q.payload \in Seq(Bytes) /\ q.parts \in Nat
    BY <1>3
  <2>4. q.payload \o f.payload \in Seq(Bytes) /\ q.parts + 1 \in Nat \ {0}
    BY <2>1, <2>3
  <2>5. Continued(q, f) \in MessageParts
    BY <2>3, <2>4, Zenon DEF Continued, MessageParts
  <2> QED
    BY <1>1, <1>2, <2>2, <2>5, Zenon
<1>5. m \in [opcode : Bytes, payload : Seq(Bytes), parts : Nat]
  BY <1>4 DEF MessageParts
<1>6. Append(d, m) \in Seq(MessageParts)
  BY <1>3, <1>4, AppendProperties, Zenon
<1>7. t = IF IsControl(f) THEN [s EXCEPT !.done = Append(@, m)]
          ELSE [done |-> IF f.fin = 1 THEN Append(s.done, m) ELSE s.done,
                open |-> f.fin # 1, part |-> m]
  BY <1>1, Zenon DEF TakeFrame, Whole, Continued
<1>8. CASE IsControl(f)
  <2>1. t = [s EXCEPT !.done = Append(d, m)]
    BY <1>2, <1>7, <1>8, Zenon
  <2>2. PICK e : e = Append(d, m)
    OBVIOUS
  <2>3. t = [done |-> e, open |-> o, part |-> q]
    BY <1>3, <2>1, <2>2
  <2>4. t \in Takings
    <3>1. e \in Seq(MessageParts)
      BY <1>6, <2>2, Zenon
    <3>2. [done |-> e, open |-> o, part |-> q] \in Takings
      BY <1>3, <3>1, Zenon DEF Takings
    <3> QED
      BY <2>3, <3>2, Zenon
  <2>5. t.done = e /\ t.open = o /\ t.part = q
    BY <2>3
  <2>6. m = Whole(f)
    BY <1>1, <1>8, Zenon
  <2> QED
    BY <1>2, <1>8, <2>2, <2>4, <2>5, <2>6, Zenon DEF Takes
<1>9. CASE ~IsControl(f)
  <2>1. PICK e, c : e = (IF f.fin = 1 THEN Append(d, m) ELSE d) /\ c = (f.fin # 1)
    OBVIOUS
  <2>2. t = [done |-> e, open |-> c, part |-> m]
    BY <1>2, <1>7, <1>9, <2>1, Zenon
  <2>3. c \in BOOLEAN /\ e \in Seq(MessageParts) /\ (c <=> f.fin # 1)
    BY <1>3, <1>6, <2>1, Zenon
  <2>4. t \in Takings
    BY <1>5, <2>2, <2>3 DEF Takings
  <2>5. t.done = e /\ t.open = c /\ t.part = m
    BY <2>2
  <2>6. m = IF s.open THEN Continued(s.part, f) ELSE Whole(f)
    BY <1>1, <1>9, Zenon
  <2> QED
    BY <1>2, <1>9, <2>1, <2>3, <2>4, <2>5, <2>6, Zenon DEF Takes
<1> QED
  BY <1>8, <1>9

\* Frame by frame they are taken.
LEMMA TakenIs ==
  ASSUME NEW frames \in Seq(MaskedFrames), NEW n \in Nat, n = Len(frames),
         NEW t, t = Taken(frames)
  PROVE  /\ t \in [0..n -> Takings] /\ t[0] = NoFrames
         /\ \A k \in 1..n : t[k] = TakeFrame(t[k - 1], frames[k])
<1> DEFINE IsTaken(g) == g = [k \in 0..n |-> IF k = 0 THEN NoFrames
                                             ELSE TakeFrame(g[k - 1], frames[k])]
<1>1. \A k \in 1..n, s \in Takings : TakeFrame(s, frames[k]) \in Takings
  <2> TAKE k \in 1..n, s \in Takings
  <2>1. frames[k] \in MaskedFrames
    OBVIOUS
  <2> QED
    BY <2>1, FrameTakenIs, Zenon DEF Takes
<1>2. NoFrames \in Takings
  <2>1. <<>> \in Seq(MessageParts) /\ <<>> \in Seq(Bytes) /\ 0 \in Bytes
    BY DEF Bytes
  <2> QED
    BY <2>1 DEF NoFrames, Takings
<1>3. \E g : IsTaken(g)
  <2> DEFINE step == [k \in 1..n |-> [s \in Takings |-> TakeFrame(s, frames[k])]]
  <2>1. step \in [1..n -> [Takings -> Takings]]
    BY <1>1
  <2>2. \A k \in 1..n, s \in Takings : step[k][s] = TakeFrame(s, frames[k])
    OBVIOUS
  <2> HIDE DEF step
  <2>3. PICK g : Recursive(g, n, Takings, NoFrames, step)
    <3>1. Recursion(n, Takings, NoFrames, step)
      BY <1>2, <2>1, Zenon DEF Recursion
    <3> QED
      BY <3>1, RecursionExists, Zenon
  <2>4. g \in [0..n -> Takings] /\ g[0] = NoFrames
    BY <2>3, Zenon DEF Recursive
  <2>5. \A k \in 1..n : g[k] = TakeFrame(g[k - 1], frames[k])
    <3>1. \A k \in 1..n : k - 1 \in 0..n
      OBVIOUS
    <3>2. \A k \in 1..n : g[k - 1] \in Takings
      BY <2>4, <3>1, Zenon
    <3> QED
      BY <2>2, <2>3, <3>2, Zenon DEF Recursive
  <2>6. IsTaken(g)
    BY <2>4, <2>5
  <2> QED
    BY <2>6
<1>4. t = CHOOSE g : IsTaken(g)
  BY Zenon DEF Taken
<1>5. IsTaken(t)
  BY <1>3, <1>4, Zenon
<1>6. /\ t = [k \in 0..n |-> t[k]] /\ t[0] = NoFrames
      /\ \A k \in 1..n : t[k] = TakeFrame(t[k - 1], frames[k])
  BY <1>5
<1>7. t \in [0..n -> Takings]
  <2>1. t[0] \in Takings /\ \A k \in 1..n : t[k - 1] \in Takings => t[k] \in Takings
    BY <1>1, <1>2, <1>6, Zenon
  <2> QED
    BY <1>6, <2>1, RecursionStays, Zenon
<1> QED
  BY <1>6, <1>7, Zenon

\* No message is taken back.
LEMMA DoneGoesOn ==
  ASSUME NEW frames \in Seq(MaskedFrames), NEW n \in Nat, n = Len(frames),
         NEW t, t = Taken(frames), NEW k \in 0..n
  PROVE  GoesOn(t[n].done, t[k].done)
<1>1. /\ t \in [0..n -> Takings]
      /\ \A j \in 1..n : t[j] = TakeFrame(t[j - 1], frames[j])
  BY TakenIs, Zenon
<1>2. PICK f : f = [j \in 0..n |-> t[j].done]
  OBVIOUS
<1>3. \A j \in 0..n : f[j] = t[j].done /\ f[j] \in Seq(MessageParts)
  <2> TAKE j \in 0..n
  <2>1. t[j] \in Takings
    BY <1>1, Zenon
  <2>2. t[j].done \in Seq(MessageParts)
    BY <2>1 DEF Takings
  <2> QED
    BY <1>2, <2>2, Zenon
<1>4. \A j \in 0..n : Len(f[j]) \in Nat
  BY <1>3, LenProperties
<1>5. ASSUME NEW j \in 1..n PROVE GoesOn(f[j], f[j - 1])
  <2>1. j \in 0..n /\ j - 1 \in 0..n
    OBVIOUS
  <2>2. PICK s \in Takings, u \in Takings : s = t[j - 1] /\ u = t[j]
    BY <1>1, <2>1, Zenon
  <2>3. frames[j] \in MaskedFrames
    OBVIOUS
  <2>4. u.done = s.done \/ \E m : u.done = Append(s.done, m)
    <3>1. PICK g \in MaskedFrames : g = frames[j]
      BY <2>3, Zenon
    <3>2. u = TakeFrame(s, g)
      BY <1>1, <2>2, <3>1, Zenon
    <3>3. Takes(s, g, u)
      BY <3>2, FrameTakenIs, Zenon
    <3> QED
      BY <3>3, Zenon DEF Takes
  <2>5. PICK c, d \in Seq(MessageParts) : c = u.done /\ d = s.done
    BY <1>3, <2>1, <2>2, Zenon
  <2>6. ASSUME NEW m, c = Append(d, m) PROVE GoesOn(c, d)
    <3>1. /\ Len(d) \in Nat /\ Len(c) = Len(d) + 1
          /\ \A i \in 1..Len(d) : c[i] = d[i]
      BY <2>5, <2>6, AppendOne
    <3> QED
      BY <3>1 DEF GoesOn
  <2>7. GoesOn(c, d)
    <3>1. Len(d) \in Nat
      BY <2>5, LenProperties
    <3>2. GoesOn(d, d)
      BY <3>1 DEF GoesOn
    <3> QED
      BY <2>4, <2>5, <2>6, <3>2, Zenon
  <2> QED
    BY <1>3, <2>1, <2>2, <2>5, <2>7, Zenon
<1>6. GoesOn(f[n], f[k])
  BY <1>4, <1>5, GoesOnToTheEnd, Zenon
<1>7. n \in 0..n
  OBVIOUS
<1> QED
  BY <1>3, <1>6, <1>7, Zenon

\* The message that frame k belongs to, as far as that frame, in what was taken
PartTaken(frames, t, k) == IF IsControl(frames[k]) THEN Whole(frames[k]) ELSE t[k].part

\* What was taken after k frames: a message is open behind a fragment only, and
\* as many are done as frames were final.
TakenSoFar(p, t, k) ==
  /\ t[k].open <=> (k # 0 /\ p.frames[k].fin # 1)
  /\ Len(t[k].done) = FinalCount(p, k)
  /\ k # 0 /\ p.frames[k].fin = 1 =>
       t[k].done[FinalCount(p, k)] = PartTaken(p.frames, t, k)

LEMMA TakesOneMore ==
  ASSUME NEW p, NEW n \in Nat, PlainFrames(p.frames), n = Len(p.frames),
         NEW t, t = Taken(p.frames), NEW k \in 1..n, TakenSoFar(p, t, k - 1)
  PROVE  /\ TakenSoFar(p, t, k)
         /\ PartTaken(p.frames, t, k) \in MessageParts
         /\ PartTaken(p.frames, t, k) =
              IF k = 1 \/ p.frames[k - 1].fin = 1 THEN Whole(p.frames[k])
              ELSE Continued(PartTaken(p.frames, t, k - 1), p.frames[k])
<1>1. p.frames \in Seq(MaskedFrames)
  BY Zenon DEF PlainFrames
<1>2. /\ t \in [0..n -> Takings] /\ \A j \in 1..n : t[j] = TakeFrame(t[j - 1], p.frames[j])
  BY <1>1, TakenIs, ZenonT(60)
<1>3. k \in 0..n /\ k - 1 \in 0..n /\ k # 0 /\ (k = 1 <=> k - 1 = 0) /\ (k - 1 # 0 => k - 1 \in 1..n)
  OBVIOUS
<1>4. PICK f \in MaskedFrames : f = p.frames[k]
  BY <1>1
<1>5. PICK s \in Takings, u \in Takings : s = t[k - 1] /\ u = t[k]
  BY <1>2, <1>3, Zenon
<1>6. Takes(s, f, u)
  <2>1. u = TakeFrame(s, f)
    BY <1>2, <1>4, <1>5, Zenon
  <2> QED
    BY <2>1, FrameTakenIs, Zenon
<1>7. IsControl(f) => f.fin = 1 /\ (k = 1 \/ p.frames[k - 1].fin = 1)
  BY <1>1, <1>4, Zenon DEF PlainFrames
<1>8. s.open <=> ~(k = 1 \/ p.frames[k - 1].fin = 1)
  BY <1>3, <1>5, Zenon DEF TakenSoFar
<1>9. u.open <=> f.fin # 1
  BY <1>6, <1>7, <1>8, Zenon DEF Takes
<1>10. PICK m : m = PartTaken(p.frames, t, k)
  OBVIOUS
<1>11. m = IF IsControl(f) THEN Whole(f) ELSE u.part
  BY <1>4, <1>5, <1>10, Zenon DEF PartTaken
<1>12. PICK d, c : d \in Seq(MessageParts) /\ d = s.done /\ c = FinalCount(p, k - 1)
  BY DEF Takings
<1>13. c \in Nat /\ FinalCount(p, k) = IF f.fin = 1 THEN c + 1 ELSE c
  <2>1. k - 1 \in Nat /\ (k - 1) + 1 = k
    OBVIOUS
  <2> QED
    BY <1>4, <1>12, <2>1, FinalCountIs
<1>14. Len(d) = c
  BY <1>5, <1>12, Zenon DEF TakenSoFar
<1>15. TakenSoFar(p, t, k)
  <2>1. CASE f.fin = 1
    <3>1. u.done = Append(d, m)
      BY <1>6, <1>11, <1>12, <2>1, Zenon DEF Takes
    <3>2. Len(u.done) = c + 1 /\ u.done[c + 1] = m
      <4>1. PICK e : e = Append(d, m)
        OBVIOUS
      <4>2. Len(e) = Len(d) + 1 /\ e[Len(d) + 1] = m
        BY <1>12, <4>1, AppendOne
      <4> QED
        BY <1>14, <3>1, <4>1, <4>2, Zenon
    <3>3. FinalCount(p, k) = c + 1
      BY <1>13, <2>1, Zenon
    <3> QED
      BY <1>3, <1>4, <1>5, <1>9, <1>10, <2>1, <3>2, <3>3, Zenon DEF TakenSoFar
  <2>2. CASE f.fin # 1
    <3>1. u.done = d
      BY <1>6, <1>7, <1>12, <2>2, Zenon DEF Takes
    <3>2. FinalCount(p, k) = c
      BY <1>13, <2>2, Zenon
    <3> QED
      BY <1>3, <1>4, <1>5, <1>9, <1>14, <2>2, <3>1, <3>2, Zenon DEF TakenSoFar
  <2> QED
    BY <2>1, <2>2
<1>16. m = IF k = 1 \/ p.frames[k - 1].fin = 1 THEN Whole(f)
           ELSE Continued(PartTaken(p.frames, t, k - 1), f)
  <2>1. CASE k = 1 \/ p.frames[k - 1].fin = 1
    BY <1>6, <1>8, <1>11, <2>1, Zenon DEF Takes
  <2>2. CASE ~(k = 1 \/ p.frames[k - 1].fin = 1)
    <3>1. ~IsControl(f) /\ m = Continued(s.part, f)
      BY <1>6, <1>7, <1>8, <1>11, <2>2, Zenon DEF Takes
    <3>2. k - 1 \in 1..n
      BY <1>3, <2>2
    <3>3. ~IsControl(p.frames[k - 1])
      BY <1>1, <2>2, <3>2, Zenon DEF PlainFrames
    <3>4. PartTaken(p.frames, t, k - 1) = s.part
      BY <1>5, <3>3, Zenon DEF PartTaken
    <3> QED
      BY <2>2, <3>1, <3>4, Zenon
  <2> QED
    BY <2>1, <2>2
<1>17. m \in MessageParts
  <2>1. f.opcode \in Bytes /\ f.payload \in Seq(Bytes)
    BY DEF MaskedFrames, Bytes
  <2>2. Whole(f) \in MessageParts
    BY <2>1 DEF Whole, MessageParts
  <2>3. PICK q \in [opcode : Bytes, payload : Seq(Bytes), parts : Nat] : q = s.part
    BY DEF Takings
  <2>4. q.payload \o f.payload \in Seq(Bytes) /\ q.parts + 1 \in Nat \ {0}
    BY <2>1
  <2>5. Continued(q, f) \in MessageParts
    BY <2>4, Zenon DEF Continued, MessageParts
  <2> QED
    BY <1>6, <1>11, <2>2, <2>3, <2>5, Zenon DEF Takes
<1> QED
  BY <1>4, <1>10, <1>15, <1>16, <1>17, Zenon

\* So the messages of such frames are put together as Assembled says.
LEMMA MadeIsAssembled ==
  ASSUME NEW p, PlainFrames(p.frames), p.talk = Messages(p.frames)
  PROVE  \E part : Assembled(p, part)
<1>1. p.frames \in Seq(MaskedFrames)
  BY Zenon DEF PlainFrames
<1>2. PICK n \in Nat : n = Len(p.frames)
  BY <1>1, LenProperties
<1>3. PICK t : t = Taken(p.frames)
  OBVIOUS
<1>4. t \in [0..n -> Takings] /\ t[0] = NoFrames
  BY <1>1, <1>2, <1>3, TakenIs, Zenon
<1>5. \A k \in 0..n : TakenSoFar(p, t, k)
  <2> DEFINE T == {k \in 0..n : TakenSoFar(p, t, k)}
  <2>1. 0 \in T
    <3>1. t[0].open = FALSE /\ t[0].done = <<>>
      BY <1>4 DEF NoFrames
    <3>2. Len(t[0].done) = FinalCount(p, 0)
      BY <3>1, FinalCountIs
    <3>3. 0 \in 0..n
      OBVIOUS
    <3> QED
      BY <3>1, <3>2, <3>3, Zenon DEF TakenSoFar
  <2>2. ASSUME NEW k \in 1..n, k - 1 \in T PROVE k \in T
    <3>1. k \in 0..n
      OBVIOUS
    <3> QED
      BY <1>2, <1>3, <2>2, <3>1, TakesOneMore, Zenon
  <2> HIDE DEF T
  <2>3. \A k \in 0..n : k \in T
    BY <2>1, <2>2, Induction, Zenon
  <2> QED
    BY <2>3, Zenon DEF T
<1>6. \A k \in 1..n : /\ PartTaken(p.frames, t, k) \in MessageParts
                      /\ PartTaken(p.frames, t, k) =
                           IF k = 1 \/ p.frames[k - 1].fin = 1 THEN Whole(p.frames[k])
                           ELSE Continued(PartTaken(p.frames, t, k - 1), p.frames[k])
  <2> TAKE k \in 1..n
  <2>1. k - 1 \in 0..n
    OBVIOUS
  <2> QED
    BY <1>2, <1>3, <1>5, <2>1, TakesOneMore, Zenon
<1> DEFINE part == [k \in 1..n |-> PartTaken(p.frames, t, k)]
<1>7. part \in [1..n -> MessageParts] /\ \A k \in 1..n : part[k] = PartTaken(p.frames, t, k)
  BY <1>6, Zenon
<1> HIDE DEF part
<1>8. \A k \in 1..n : part[k] = IF k = 1 \/ p.frames[k - 1].fin = 1 THEN Whole(p.frames[k])
                                 ELSE Continued(part[k - 1], p.frames[k])
  <2> TAKE k \in 1..n
  <2>1. k = 1 \/ part[k - 1] = PartTaken(p.frames, t, k - 1)
    <3>1. k = 1 \/ k - 1 \in 1..n
      OBVIOUS
    <3> QED
      BY <1>7, <3>1, Zenon
  <2> QED
    BY <1>6, <1>7, <2>1, Zenon
<1>9. PICK d \in Seq(MessageParts) : d = t[n].done /\ d = p.talk
  <2>1. n \in 0..n
    OBVIOUS
  <2>2. t[n] \in Takings
    BY <1>4, <2>1, Zenon
  <2>3. t[n].done \in Seq(MessageParts)
    BY <2>2 DEF Takings
  <2> QED
    BY <1>2, <1>3, <2>3, Zenon DEF Messages
<1>10. Len(p.talk) = FinalCount(p, n)
  <2>1. n \in 0..n
    OBVIOUS
  <2> QED
    BY <1>5, <1>9, <2>1, Zenon DEF TakenSoFar
<1>11. ASSUME NEW k \in 1..n, p.frames[k].fin = 1
       PROVE  p.talk[FinalCount(p, k)] = part[k]
  <2>1. k \in 0..n /\ k # 0
    OBVIOUS
  <2>2. PICK e, c : e = t[k].done /\ c = FinalCount(p, k)
    OBVIOUS
  <2>3. e[c] = part[k] /\ Len(e) = c
    BY <1>5, <1>7, <1>11, <2>1, <2>2, Zenon DEF TakenSoFar
  <2>4. GoesOn(d, e)
    BY <1>1, <1>2, <1>3, <1>9, <2>1, <2>2, DoneGoesOn, Zenon
  <2>5. c \in 1..c
    <3>1. k - 1 \in Nat /\ (k - 1) + 1 = k
      OBVIOUS
    <3>2. FinalCount(p, k - 1) \in Nat /\ c = FinalCount(p, k - 1) + 1
      BY <1>11, <2>2, <3>1, FinalCountIs
    <3> QED
      BY <3>2
  <2>6. d[c] = e[c]
    BY <2>3, <2>4, <2>5, Zenon DEF GoesOn
  <2> QED
    BY <1>9, <2>2, <2>3, <2>6, Zenon
<1>12. \A k \in 1..n : p.frames[k].opcode \in DefinedOpcodes
  BY <1>2, Zenon DEF PlainFrames
<1>13. Assembled(p, part)
  BY <1>2, <1>7, <1>8, <1>9, <1>10, <1>11, <1>12, Zenon DEF Assembled, Whole, Continued
<1> QED
  BY <1>13

(***************************************************************************)
(* The clients                                                             *)
(***************************************************************************)

\* Behind such a request there is nothing that changes it.
LEMMA MadeIsJudged ==
  ASSUME NEW lines, NEW valid, PlainRequest(lines, valid), NEW p, NEW r, r = EncodeRequest(lines),
         NEW frames, NEW n \in Nat, NEW w, NEW pieces, MadeOf(p, r, valid, frames, n, w, pieces)
  PROVE  RequestJudged(p)
<1>1. PICK fields : SaysRequest(lines, fields) /\ valid = MeansHandshake(fields, Text)
  BY Zenon DEF PlainRequest
<1>2. PICK params : /\ FetchHsElement(r) = [size |-> Len(r), overrun |-> FALSE, params |-> params]
                    /\ ParamsAccepted(params) <=> MeansHandshake(fields, Text)
  BY <1>1, RequestUnderstood, Zenon
<1>3. PICK m \in Nat : m = Len(r)
  <2>1. r \in Seq(Bytes)
    BY <1>1, RequestUnderstood, Zenon
  <2> QED
    BY <2>1, LenProperties
<1>4. PICK hs : hs = FetchHsElement(r)
  OBVIOUS
<1>5. hs.size = m /\ (ParamsAccepted(hs.params) <=> valid)
  <2>1. hs = [size |-> m, overrun |-> FALSE, params |-> params]
    BY <1>2, <1>3, <1>4, Zenon
  <2>2. hs.size = m /\ hs.params = params
    BY <2>1
  <2> QED
    BY <1>1, <1>2, <2>2, Zenon
<1>6. /\ Chained(w, n, r, pieces) /\ r \in Seq(Bytes)
      /\ p.request = Len(w[0]) /\ p.valid = valid /\ p.bytes = w[n]
  BY Zenon DEF MadeOf
<1>7. w[0] = r /\ w[n] \in Seq(Bytes)
  <2>1. n \in 0..n
    OBVIOUS
  <2> QED
    BY <1>6, <2>1, Zenon DEF Chained
<1>8. PICK d \in Seq(Bytes) : d = p.bytes
  BY <1>6, <1>7, Zenon
<1>9. GoesOn(d, r)
  <2>1. 0 \in 0..n
    OBVIOUS
  <2>2. GoesOn(w[n], w[0])
    BY <1>6, <2>1, ChainGoesOn, Zenon
  <2> QED
    BY <1>6, <1>7, <1>8, <2>2, Zenon
<1>10. m <= Len(d) /\ \A i \in 1..m : d[i] = r[i]
  BY <1>3, <1>9, Zenon DEF GoesOn
<1>11. SubSeq(d, 1, m) = r
  <2>1. 0 \in Nat /\ 0 <= m /\ 0 + 1 = 1 /\ m <= m
    OBVIOUS
  <2>2. m <= Len(r)
    BY <1>3, <2>1, Zenon
  <2>3. SubSeq(d, 0 + 1, m) = SubSeq(r, 0 + 1, m)
    BY <1>6, <1>10, <2>1, <2>2, SamePrefix
  <2>4. SubSeq(r, 1, Len(r)) = r
    BY <1>6
  <2> QED
    BY <1>3, <2>1, <2>3, <2>4, Zenon
<1>12. FetchHsElement(SubSeq(p.bytes, 1, p.request)) = hs /\ p.request = m
  BY <1>3, <1>4, <1>6, <1>7, <1>8, <1>11, Zenon
<1> QED
  BY <1>5, <1>6, <1>12, Zenon DEF RequestJudged

\* So plain clients are peers that the proofs above are about.
LEMMA PlainIsServed ==
  ASSUME NEW p, PlainPeer(p)
  PROVE  WellFormed(p) /\ RequestJudged(p) /\ (p.valid => \E part : Assembled(p, part))
<1>1. PICK lines, valid, frames :
        PlainRequest(lines, valid) /\ PlainFrames(frames) /\ p = MakePeer(lines, valid, frames)
  BY Zenon DEF PlainPeer
<1>2. lines \in Seq(Lines) /\ valid \in BOOLEAN
  <2>1. PICK fields : SaysRequest(lines, fields) /\ valid = MeansHandshake(fields, Text)
    BY <1>1, Zenon DEF PlainRequest
  <2>2. valid \in BOOLEAN
    BY <2>1 DEF MeansHandshake
  <2> QED
    BY <2>1, <2>2, Zenon DEF SaysRequest
<1>3. lines \in Seq(Seq(Bytes))
  <2>1. \A l \in Lines : l \in Seq(Bytes)
    BY LineIsBytes, Zenon
  <2>2. PICK n \in Nat : n = Len(lines)
    BY <1>2, LenProperties
  <2>3. \A k \in 1..n : lines[k] \in Lines
    BY <1>2, <2>2
  <2> QED
    BY <1>2, <2>1, <2>2, <2>3
<1>4. PICK r : r = EncodeRequest(lines)
  OBVIOUS
<1>5. PICK n \in Nat : \E w, pieces : MadeOf(p, r, valid, frames, n, w, pieces)
  BY <1>1, <1>3, <1>4, MadeIs, Zenon
<1>6. PICK w, pieces : MadeOf(p, r, valid, frames, n, w, pieces)
  BY <1>5
<1>7. WellFormed(p)
  BY <1>1, <1>2, <1>6, MadeIsWellFormed, Zenon
<1>8. RequestJudged(p)
  BY <1>1, <1>4, <1>6, MadeIsJudged, Zenon
<1>9. p.valid = valid /\ p.frames = frames /\ p.talk = IF valid THEN Messages(frames) ELSE <<>>
  BY <1>6, Zenon DEF MadeOf
<1>10. ASSUME p.valid PROVE \E part : Assembled(p, part)
  <2>1. p.talk = Messages(p.frames) /\ PlainFrames(p.frames)
    BY <1>1, <1>9, <1>10, Zenon
  <2> QED
    BY <2>1, MadeIsAssembled, Zenon
<1> QED
  BY <1>7, <1>8, <1>10, Zenon

\* The endpoint is an echo service for every client that sends a request and
\* plain frames, whatever the request says, whatever the frames hold and however
\* the reads cut them, as long as the headers stay whole that have to: it takes
\* the frames it was sent, delivers the messages they make, and no read is fatal.
THEOREM PlainClientsAreServed ==
  ASSUME PlainClients
  PROVE  Spec /\ []RequestInTime =>
           Service!SafeSpec /\ [](FramesTaken /\ MessagesDelivered /\ NeverDies)
<1>1. WellServed
  BY PlainIsServed, Zenon DEF PlainClients, WellServed
<1>2. TalkKnown
  BY PlainIsServed, Zenon DEF PlainClients, TalkKnown
<1>3. Spec /\ []RequestInTime => Service!SafeSpec
  BY <1>1, <1>2, EndpointIsEchoService
<1>4. Spec /\ []RequestInTime => []FramesTaken
  BY <1>1, WholeFramesTaken
<1>5. Spec /\ []RequestInTime => []NeverDies
  BY <1>1, NoReadIsFatal
<1>6. Spec /\ []RequestInTime => []MessagesDelivered
  BY <1>1, <1>2, MessagesTaken
<1> QED
  BY <1>3, <1>4, <1>5, <1>6, PTL
=============================================================================
