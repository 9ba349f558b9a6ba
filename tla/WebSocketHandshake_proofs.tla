---------------------- MODULE WebSocketHandshake_proofs ----------------------
(***************************************************************************)
(* What the handshake half of WebSocketPacket makes of text: find() and    *)
(* splitStr on every string, and fetch_hs_element on every request that is *)
(* lines, each with its end, and an empty line.  What a recursive          *)
(* definition yields is found by induction on numbers, as the least number *)
(* that something does not hold of.                                        *)
(***************************************************************************)
EXTENDS WebSocketHandshake, WebSocketPeer, SequenceTheorems, WellFoundedInduction, TLAPS

(***************************************************************************)
(* Induction                                                               *)
(***************************************************************************)

\* The order of the natural numbers is well founded; the library says so of a
\* relation written with an operator argument.
LEMMA LessIsWellFounded ==
  IsWellFoundedOn({ss \in Nat \X Nat : ss[1] < ss[2]}, Nat)
BY NatLessThanWellFounded, Zenon DEF OpToRel

\* Every non-empty set of positions has a first one, so that there is a first
\* empty line where there is any.
LEMMA FirstExists ==
  ASSUME NEW T \in SUBSET Nat, T # {}
  PROVE  \E i \in T : \A j \in T : i <= j
<1> DEFINE R == {ss \in Nat \X Nat : ss[1] < ss[2]}
<1>1. IsWellFoundedOn(R, Nat)
  BY LessIsWellFounded
<1>2. \A x, y \in Nat : ~(<<y, x>> \in R) => x <= y
  OBVIOUS
<1> HIDE DEF R
<1>3. T \subseteq Nat
  OBVIOUS
<1>4. PICK i \in T : \A j \in T : ~(<<j, i>> \in R)
  BY <1>1, <1>3, WFMin, Zenon
<1>5. \A j \in T : i <= j
  BY <1>2, <1>4
<1> QED
  BY <1>5

\* What holds of 0 and of each number behind one that it holds of, holds of all
\* numbers up to n.
LEMMA Induction ==
  ASSUME NEW n \in Nat, NEW T, 0 \in T, \A k \in 1..n : k - 1 \in T => k \in T
  PROVE  \A k \in 0..n : k \in T
<1> DEFINE U == {k \in 0..n : k \notin T}
<1>1. U \in SUBSET Nat
  OBVIOUS
<1>2. U = {}
  <2> SUFFICES ASSUME U # {} PROVE FALSE
    OBVIOUS
  <2>1. PICK k \in U : \A j \in U : k <= j
    BY <1>1, FirstExists
  <2>2. k \in 1..n /\ k \notin T
    OBVIOUS
  <2>3. k - 1 \in 0..n /\ ~(k <= k - 1)
    BY <2>2
  <2> QED
    BY <2>1, <2>2, <2>3
<1> QED
  BY <1>2

\* What a recursive function over 0..n begins with, and goes on with
Recursion(n, S, a, step) == n \in Nat /\ a \in S /\ step \in [1..n -> [S -> S]]

Recursive(f, n, S, a, step) ==
  f \in [0..n -> S] /\ f[0] = a /\ \A k \in 1..n : f[k] = step[k][f[k - 1]]

\* There is such a function.
LEMMA RecursionExists ==
  ASSUME NEW n, NEW S, NEW a, NEW step, Recursion(n, S, a, step)
  PROVE  \E f : Recursive(f, n, S, a, step)
<1> USE DEF Recursion
<1> DEFINE Runs(f, m) == f[0] = a /\ \A k \in 1..m : f[k] = step[k][f[k - 1]]
           T == {m \in 0..n : \E f \in [0..m -> S] : Runs(f, m)}
<1>1. 0 \in T
  <2> DEFINE g == [k \in 0..0 |-> a]
  <2>1. g \in [0..0 -> S] /\ g[0] = a /\ 1..0 = {}
    OBVIOUS
  <2> HIDE DEF g
  <2> QED
    BY <2>1
<1>2. \A m \in 1..n : m - 1 \in T => m \in T
  <2> SUFFICES ASSUME NEW m \in 1..n, m - 1 \in T PROVE m \in T
    OBVIOUS
  <2>1. PICK f \in [0..(m - 1) -> S] : Runs(f, m - 1)
    OBVIOUS
  <2>2. step[m][f[m - 1]] \in S
    OBVIOUS
  <2> DEFINE g == [k \in 0..m |-> IF k = m THEN step[m][f[m - 1]] ELSE f[k]]
  <2>3. g \in [0..m -> S]
    BY <2>2
  <2>4. \A k \in 0..(m - 1) : g[k] = f[k]
    OBVIOUS
  <2>5. g[m] = step[m][f[m - 1]]
    OBVIOUS
  <2> HIDE DEF g
  <2>6. Runs(g, m)
    <3>1. g[0] = a
      BY <2>1, <2>4
    <3>2. ASSUME NEW k \in 1..m PROVE g[k] = step[k][g[k - 1]]
      <4>1. CASE k = m
        <5>1. m - 1 \in 0..(m - 1)
          OBVIOUS
        <5>2. g[m] = step[m][g[m - 1]]
          BY <5>1, <2>4, <2>5, Zenon
        <5> QED
          BY <4>1, <5>2, Zenon
      <4>2. CASE k # m
        <5>1. k \in 1..(m - 1) /\ k \in 0..(m - 1) /\ k - 1 \in 0..(m - 1)
          BY <4>2
        <5> QED
          BY <5>1, <2>1, <2>4
      <4> QED
        BY <4>1, <4>2
    <3> QED
      BY <3>1, <3>2
  <2>7. m \in 0..n
    OBVIOUS
  <2> QED
    BY <2>3, <2>6, <2>7, Zenon
<1> HIDE DEF T
<1>3. \A m \in 0..n : m \in T
  BY <1>1, <1>2, Induction, Zenon
<1>4. n \in 0..n
  OBVIOUS
<1> QED
  BY <1>3, <1>4, Zenon DEF T, Recursive

\* What such a function is, it is in each of its values.
LEMMA RecursionStays ==
  ASSUME NEW n \in Nat, NEW S, NEW f, f = [k \in 0..n |-> f[k]], f[0] \in S,
         \A k \in 1..n : f[k - 1] \in S => f[k] \in S
  PROVE  f \in [0..n -> S]
<1> DEFINE T == {k \in 0..n : f[k] \in S}
<1>1. 0 \in T /\ \A k \in 1..n : k - 1 \in T => k \in T
  OBVIOUS
<1> HIDE DEF T
<1>2. \A k \in 0..n : k \in T
  BY <1>1, Induction
<1> QED
  BY <1>2 DEF T

(***************************************************************************)
(* Chains of bytes                                                         *)
(***************************************************************************)

\* f is what a beginning and n pieces make, one by one.
Chained(f, n, first, pieces) ==
  /\ f \in [0..n -> Seq(Bytes)] /\ f[0] = first
  /\ \A k \in 1..n : pieces[k] \in Seq(Bytes) /\ f[k] = f[k - 1] \o pieces[k]

\* Piece by piece a chain of bytes grows.
LEMMA ChainIs ==
  ASSUME NEW first \in Seq(Bytes), NEW pieces, NEW n \in Nat, n = Len(pieces),
         \A k \in 1..n : pieces[k] \in Seq(Bytes), NEW f, f = Chain(first, pieces)
  PROVE  Chained(f, n, first, pieces)
<1> DEFINE Longer(k, t) == t \o pieces[k]
           IsChain(g) == g = [k \in 0..n |-> IF k = 0 THEN first ELSE Longer(k, g[k - 1])]
<1>1. \A k \in 1..n, t \in Seq(Bytes) : Longer(k, t) \in Seq(Bytes)
  OBVIOUS
<1> HIDE DEF Longer
<1>2. \E g : IsChain(g)
  <2> DEFINE step == [k \in 1..n |-> [t \in Seq(Bytes) |-> Longer(k, t)]]
  <2>1. step \in [1..n -> [Seq(Bytes) -> Seq(Bytes)]]
    BY <1>1
  <2>2. \A k \in 1..n, t \in Seq(Bytes) : step[k][t] = Longer(k, t)
    OBVIOUS
  <2> HIDE DEF step
  <2>3. PICK g : Recursive(g, n, Seq(Bytes), first, step)
    <3>1. Recursion(n, Seq(Bytes), first, step)
      BY <2>1, Zenon DEF Recursion
    <3> QED
      BY <3>1, RecursionExists, Zenon
  <2>4. g \in [0..n -> Seq(Bytes)] /\ g[0] = first
    BY <2>3, Zenon DEF Recursive
  <2>5. \A k \in 1..n : g[k] = Longer(k, g[k - 1])
    <3>1. \A k \in 1..n : k - 1 \in 0..n
      OBVIOUS
    <3>2. \A k \in 1..n : g[k - 1] \in Seq(Bytes)
      BY <2>4, <3>1, Zenon
    <3> QED
      BY <2>2, <2>3, <3>2, Zenon DEF Recursive
  <2>6. IsChain(g)
    BY <2>4, <2>5
  <2> QED
    BY <2>6
<1>3. f = CHOOSE g : IsChain(g)
  BY Zenon DEF Chain, Longer
<1>4. IsChain(f)
  BY <1>2, <1>3, Zenon
<1>5. f = [k \in 0..n |-> f[k]] /\ f[0] = first /\ \A k \in 1..n : f[k] = Longer(k, f[k - 1])
  BY <1>4
<1>6. f \in [0..n -> Seq(Bytes)]
  <2>1. f[0] \in Seq(Bytes) /\ \A k \in 1..n : f[k - 1] \in Seq(Bytes) => f[k] \in Seq(Bytes)
    BY <1>1, <1>5, Zenon
  <2> QED
    BY <1>5, <2>1, RecursionStays, Zenon
<1> QED
  BY <1>5, <1>6, Zenon DEF Longer, Chained

\* t goes on behind s.
GoesOn(t, s) == Len(s) <= Len(t) /\ \A i \in 1..Len(s) : t[i] = s[i]

\* What goes on at each step does so to the end.
LEMMA GoesOnToTheEnd ==
  ASSUME NEW n \in Nat, NEW f, \A k \in 0..n : Len(f[k]) \in Nat,
         \A k \in 1..n : GoesOn(f[k], f[k - 1]), NEW k \in 0..n
  PROVE  GoesOn(f[n], f[k])
<1> DEFINE T == {j \in 0..n : j >= k => GoesOn(f[j], f[k])}
<1>1. PICK s, l : s = f[k] /\ l = Len(s) /\ l \in Nat
  OBVIOUS
<1>2. GoesOn(s, s)
  BY <1>1 DEF GoesOn
<1>3. 0 \in T
  BY <1>1, <1>2
<1>4. ASSUME NEW j \in 1..n, j - 1 \in T PROVE j \in T
  <2>1. CASE j < k
    BY <2>1
  <2>2. CASE j = k
    BY <2>2, <1>1, <1>2
  <2>3. CASE j > k
    <3>1. j - 1 >= k /\ j - 1 \in 0..n /\ j \in 0..n
      BY <2>3
    <3>2. PICK t, u : t = f[j - 1] /\ u = f[j]
      OBVIOUS
    <3>3. PICK a \in Nat, b \in Nat : a = Len(t) /\ b = Len(u)
      BY <3>1, <3>2
    <3>4. GoesOn(t, s) /\ GoesOn(u, t)
      BY <1>1, <1>4, <3>1, <3>2, Zenon
    <3>5. l <= a /\ \A i \in 1..l : t[i] = s[i]
      BY <1>1, <3>3, <3>4, Zenon DEF GoesOn
    <3>6. a <= b /\ \A i \in 1..a : u[i] = t[i]
      BY <3>3, <3>4, Zenon DEF GoesOn
    <3>7. l <= b /\ \A i \in 1..l : u[i] = s[i]
      BY <1>1, <3>5, <3>6
    <3>8. GoesOn(u, s)
      BY <1>1, <3>3, <3>7, Zenon DEF GoesOn
    <3> QED
      BY <1>1, <3>1, <3>2, <3>8, Zenon
  <2> QED
    BY <2>1, <2>2, <2>3
<1> HIDE DEF T
<1>5. \A j \in 0..n : j \in T
  BY <1>3, <1>4, Induction, Zenon
<1>6. n \in 0..n /\ n >= k
  OBVIOUS
<1> QED
  BY <1>5, <1>6, Zenon DEF T

\* A concatenation goes on behind its first part.
LEMMA ConcatGoesOn ==
  ASSUME NEW S, NEW s \in Seq(S), NEW t \in Seq(S)
  PROVE  GoesOn(s \o t, s)
<1>1. PICK a \in Nat, b \in Nat : a = Len(s) /\ b = Len(t)
  BY LenProperties
<1>2. PICK u : u = s \o t
  OBVIOUS
<1>3. Len(u) = a + b /\ \A i \in 1..(a + b) : u[i] = IF i <= a THEN s[i] ELSE t[i - a]
  BY <1>1, <1>2, ConcatProperties
<1>4. Len(s) <= Len(u) /\ \A i \in 1..Len(s) : u[i] = s[i]
  BY <1>1, <1>3
<1> QED
  BY <1>2, <1>4, Zenon DEF GoesOn

\* A chain goes on behind each of its parts.
LEMMA ChainGoesOn ==
  ASSUME NEW n \in Nat, NEW f, NEW first, NEW pieces, Chained(f, n, first, pieces), NEW k \in 0..n
  PROVE  GoesOn(f[n], f[k])
<1>0. f \in [0..n -> Seq(Bytes)]
  BY Zenon DEF Chained
<1>1. \A j \in 0..n : Len(f[j]) \in Nat
  BY <1>0, LenProperties
<1>2. ASSUME NEW j \in 1..n PROVE GoesOn(f[j], f[j - 1])
  <2>1. f[j - 1] \in Seq(Bytes)
    BY <1>0
  <2>2. pieces[j] \in Seq(Bytes) /\ f[j] = f[j - 1] \o pieces[j]
    BY Zenon DEF Chained
  <2> QED
    BY <2>1, <2>2, ConcatGoesOn, Zenon
<1> QED
  BY <1>1, <1>2, GoesOnToTheEnd, Zenon

\* In the whole of it, piece k stands behind those before it.
PieceAt(f, n, pieces, k) ==
  /\ Len(f[k]) = Len(f[k - 1]) + Len(pieces[k])
  /\ SubSeq(f[n], Len(f[k - 1]) + 1, Len(f[k])) = pieces[k]

LEMMA PieceStands ==
  ASSUME NEW n \in Nat, NEW f, NEW first, NEW pieces, Chained(f, n, first, pieces), NEW k \in 1..n
  PROVE  PieceAt(f, n, pieces, k)
<1>1. k \in 0..n /\ k - 1 \in 0..n /\ n \in 0..n
  OBVIOUS
<1>2. PICK w \in Seq(Bytes), s \in Seq(Bytes), t \in Seq(Bytes), p \in Seq(Bytes) :
        w = f[n] /\ s = f[k - 1] /\ t = f[k] /\ p = pieces[k]
  BY <1>1, Zenon DEF Chained
<1>3. t = s \o p
  BY <1>2, Zenon DEF Chained
<1>4. PICK a \in Nat, b \in Nat, c \in Nat : a = Len(s) /\ b = Len(p) /\ c = Len(w)
  BY <1>2, LenProperties
<1>5. Len(t) = a + b /\ \A i \in 1..(a + b) : t[i] = IF i <= a THEN s[i] ELSE p[i - a]
  BY <1>3, <1>4, ConcatProperties
<1>6. GoesOn(w, t)
  BY <1>1, <1>2, ChainGoesOn, Zenon
<1>7. a + b <= c /\ \A i \in 1..(a + b) : w[i] = t[i]
  BY <1>4, <1>5, <1>6 DEF GoesOn
<1>8. PICK u : u = SubSeq(w, a + 1, a + b)
  OBVIOUS
<1>9. /\ u \in Seq(Bytes) /\ Len(u) = b
      /\ \A i \in 1..b : u[i] = w[a + i]
  <2>1. \A i \in (a + 1)..(a + b) : w[i] \in Bytes
    BY <1>4, <1>7
  <2> QED
    BY <1>8, <2>1, SubSeqProperties
<1>10. \A i \in 1..b : u[i] = p[i]
  <2> TAKE i \in 1..b
  <2>1. a + i \in 1..(a + b) /\ ~(a + i <= a) /\ (a + i) - a = i
    OBVIOUS
  <2>2. w[a + i] = t[a + i] /\ t[a + i] = p[(a + i) - a]
    BY <1>5, <1>7, <2>1
  <2> QED
    BY <1>9, <2>1, <2>2
<1>11. u = p
  BY <1>2, <1>4, <1>9, <1>10, SeqEqual
<1> QED
  BY <1>2, <1>4, <1>5, <1>8, <1>11, Zenon DEF PieceAt

(***************************************************************************)
(* The bytes of a peer                                                     *)
(***************************************************************************)

\* A request in lines of bytes is bytes.
LEMMA RequestIsBytes ==
  ASSUME NEW lines \in Seq(Seq(Bytes))
  PROVE  EncodeRequest(lines) \in Seq(Bytes)
<1>1. PICK n \in Nat : n = Len(lines)
  BY LenProperties
<1>2. <<13, 10>> \in Seq(Bytes) /\ <<>> \in Seq(Bytes)
  BY DEF Bytes
<1>3. PICK pieces : pieces = [i \in 1..n |-> lines[i] \o <<13, 10>>]
  OBVIOUS
<1>4. \A k \in 1..n : pieces[k] \in Seq(Bytes)
  BY <1>1, <1>2, <1>3
<1>5. n = Len(pieces)
  BY <1>3
<1>6. PICK f : f = Chain(<<>>, pieces)
  OBVIOUS
<1>7. f \in [0..n -> Seq(Bytes)]
  <2>1. PICK e : e = <<>>
    OBVIOUS
  <2>2. f = Chain(e, pieces) /\ e \in Seq(Bytes)
    BY <1>2, <1>6, <2>1, Zenon
  <2>3. Chained(f, n, e, pieces)
    BY <1>4, <1>5, <2>2, ChainIs, Zenon
  <2> QED
    BY <2>3, Zenon DEF Chained
<1>8. EncodeRequest(lines) = f[n] \o <<13, 10>>
  BY <1>1, <1>3, <1>6, Zenon DEF EncodeRequest
<1>9. f[n] \in Seq(Bytes)
  BY <1>7
<1> QED
  BY <1>2, <1>8, <1>9

(***************************************************************************)
(* Finding and splitting                                                   *)
(***************************************************************************)

\* The elements of s behind the first a, up to the r-th
LEMMA BytesBetween ==
  ASSUME NEW S, NEW s \in Seq(S), NEW a \in Nat, NEW r \in Nat, a <= r, r <= Len(s),
         NEW d, d = SubSeq(s, a + 1, r)
  PROVE  /\ d \in Seq(S) /\ Len(d) = r - a
         /\ \A i \in 1..(r - a) : d[i] = s[a + i]
<1>1. \A i \in (a + 1)..r : s[i] \in S
  OBVIOUS
<1>2. /\ d \in Seq(S)
      /\ Len(d) = IF a + 1 <= r THEN r - (a + 1) + 1 ELSE 0
      /\ \A i \in 1..(r - (a + 1) + 1) : d[i] = s[(a + 1) + i - 1]
  BY <1>1, SubSeqProperties
<1> QED
  BY <1>2
\* what stands at position i of s.
StandsAt(s, what, i) == \A j \in 1..Len(what) : s[i + j - 1] = what[j]

LEMMA StandsThere ==
  ASSUME NEW s \in Seq(Bytes), NEW what \in Seq(Bytes), NEW l \in Nat, l = Len(what),
         NEW i \in 1..(Len(s) + 1 - l)
  PROVE  SubSeq(s, i, i + l - 1) = what <=> StandsAt(s, what, i)
<1>1. PICK n \in Nat : n = Len(s)
  BY LenProperties
<1>2. PICK a \in Nat : a = i - 1
  OBVIOUS
<1>3. PICK r \in Nat : r = i + l - 1
  BY <1>1
<1>4. a <= r /\ r <= n /\ a + 1 = i /\ r - a = l
  BY <1>1, <1>2, <1>3
<1>5. PICK d : d = SubSeq(s, a + 1, r)
  OBVIOUS
<1>6. d \in Seq(Bytes) /\ Len(d) = l /\ \A j \in 1..l : d[j] = s[a + j]
  BY <1>1, <1>4, <1>5, BytesBetween
<1>7. d = SubSeq(s, i, i + l - 1)
  BY <1>3, <1>4, <1>5
<1>8. \A j \in 1..l : a + j = i + j - 1
  BY <1>2
<1>9. \A j \in 1..l : d[j] = s[i + j - 1]
  BY <1>6, <1>8
<1>10. (\A j \in 1..l : d[j] = what[j]) => d = what
  BY <1>6, SeqEqual
<1>11. d = what <=> \A j \in 1..l : s[i + j - 1] = what[j]
  BY <1>9, <1>10, Zenon
<1> QED
  BY <1>7, <1>11, Zenon DEF StandsAt

IsFirst(i, T) == i \in T /\ \A j \in T : i <= j

HitsFrom(s, what, from) ==
  {i \in from..(Len(s) + 1 - Len(what)) : SubSeq(s, i, i + Len(what) - 1) = what}

\* find() from any position on
LEMMA FindFrom ==
  ASSUME NEW s \in Seq(Bytes), NEW what \in Seq(Bytes), NEW from \in Nat \ {0}
  PROVE  /\ HitsFrom(s, what, from) = {} => Find(s, what, from) = 0
         /\ HitsFrom(s, what, from) # {} => IsFirst(Find(s, what, from), HitsFrom(s, what, from))
<1> DEFINE hits == HitsFrom(s, what, from)
<1>1. hits \in SUBSET Nat
  BY LenProperties DEF HitsFrom
<1>2. Find(s, what, from) = IF hits = {} THEN 0 ELSE CHOOSE i \in hits : \A j \in hits : i <= j
  BY Zenon DEF Find, HitsFrom
<1> HIDE DEF hits
<1>3. hits # {} => \E i \in hits : \A j \in hits : i <= j
  BY <1>1, FirstExists
<1>4. hits # {} => IsFirst(CHOOSE i \in hits : \A j \in hits : i <= j, hits)
  BY <1>3, Zenon DEF IsFirst
<1>5. hits # {} => IsFirst(Find(s, what, from), hits)
  BY <1>2, <1>4, Zenon
<1> QED
  BY <1>2, <1>5, Zenon DEF hits

\* What find() returns, from what stands where
LEMMA FoundAt ==
  ASSUME NEW s \in Seq(Bytes), NEW what \in Seq(Bytes), NEW from \in Nat \ {0},
         NEW x \in from..(Len(s) + 1 - Len(what)), StandsAt(s, what, x),
         \A i \in from..(x - 1) : ~StandsAt(s, what, i)
  PROVE  Find(s, what, from) = x
<1>1. PICK n, l, h : n = Len(s) /\ l = Len(what) /\ h = HitsFrom(s, what, from)
  OBVIOUS
<1>0. n \in Nat /\ l \in Nat
  BY <1>1, LenProperties
<1>2. \A i \in from..(n + 1 - l) : i \in h <=> StandsAt(s, what, i)
  <2> TAKE i \in from..(n + 1 - l)
  <2>1. i \in 1..(n + 1 - l)
    BY <1>0
  <2>2. SubSeq(s, i, i + l - 1) = what <=> StandsAt(s, what, i)
    BY <1>0, <1>1, <2>1, StandsThere, Zenon
  <2>3. h = {j \in from..(n + 1 - l) : SubSeq(s, j, j + l - 1) = what}
    BY <1>1, Zenon DEF HitsFrom
  <2> QED
    BY <2>2, <2>3, Zenon
<1>3. h \subseteq from..(n + 1 - l)
  BY <1>1, Zenon DEF HitsFrom
<1>4. x \in h
  BY <1>1, <1>2, Zenon
<1>5. PICK y : y = Find(s, what, from)
  OBVIOUS
<1>6. IsFirst(y, h)
  BY <1>1, <1>4, <1>5, FindFrom, Zenon
<1>7. y \in h /\ y <= x
  BY <1>4, <1>6, Zenon DEF IsFirst
<1>8. y \in from..(n + 1 - l) /\ StandsAt(s, what, y)
  BY <1>2, <1>3, <1>7, Zenon
<1>9. y \notin from..(x - 1)
  BY <1>8, Zenon
<1>10. y = x
  BY <1>0, <1>1, <1>7, <1>8, <1>9
<1> QED
  BY <1>5, <1>10, Zenon

LEMMA NotFound ==
  ASSUME NEW s \in Seq(Bytes), NEW what \in Seq(Bytes), NEW from \in Nat \ {0},
         \A i \in from..(Len(s) + 1 - Len(what)) : ~StandsAt(s, what, i)
  PROVE  Find(s, what, from) = 0
<1>1. PICK n, l, h : n = Len(s) /\ l = Len(what) /\ h = HitsFrom(s, what, from)
  OBVIOUS
<1>0. n \in Nat /\ l \in Nat
  BY <1>1, LenProperties
<1>2. \A i \in from..(n + 1 - l) : SubSeq(s, i, i + l - 1) # what
  <2> TAKE i \in from..(n + 1 - l)
  <2>1. i \in 1..(n + 1 - l)
    BY <1>0
  <2>2. SubSeq(s, i, i + l - 1) = what <=> StandsAt(s, what, i)
    BY <1>0, <1>1, <2>1, StandsThere, Zenon
  <2> QED
    BY <1>1, <2>2, Zenon
<1>3. h = {}
  BY <1>1, <1>2, Zenon DEF HitsFrom
<1> QED
  BY <1>1, <1>3, FindFrom, Zenon

\* What is found lies within s.
LEMMA FindRange ==
  ASSUME NEW s \in Seq(Bytes), NEW what \in Seq(Bytes), NEW from \in Nat \ {0},
         Find(s, what, from) # 0
  PROVE  Find(s, what, from) \in from..(Len(s) + 1 - Len(what))
<1>1. IsFirst(Find(s, what, from), HitsFrom(s, what, from))
  BY FindFrom, Zenon
<1> QED
  BY <1>1, Zenon DEF IsFirst, HitsFrom

\* A function on 1..n that is known at some numbers, and at the others, those of
\* J, from its value at a greater one
Backward(g, n, J, next, put, last) ==
  \A i \in 1..n : g[i] = IF i \in J THEN put[i][g[next[i]]] ELSE last[i]

LEMMA BackwardExists ==
  ASSUME NEW n \in Nat, NEW S, NEW J \in SUBSET (1..n), NEW next \in [J -> 1..n],
         \A i \in J : next[i] > i, NEW put \in [J -> [S -> S]], NEW last \in [1..n -> S]
  PROVE  \E g \in [1..n -> S] : Backward(g, n, J, next, put, last)
<1> DEFINE Value(g, i) == IF i \in J THEN put[i][g[next[i]]] ELSE last[i]
           From(g, m) == \A i \in (n - m + 1)..n : g[i] = Value(g, i)
           T == {m \in 0..n : \E g \in [1..n -> S] : From(g, m)}
<1>1. 0 \in T
  <2>1. (n - 0 + 1)..n = {} /\ 0 \in 0..n
    OBVIOUS
  <2>2. From(last, 0)
    BY <2>1
  <2> QED
    BY <2>1, <2>2
<1>2. ASSUME NEW m \in 1..n, m - 1 \in T PROVE m \in T
  <2>1. PICK g \in [1..n -> S] : From(g, m - 1)
    BY <1>2
  <2>2. PICK k \in 1..n : k = n - m + 1
    OBVIOUS
  <2>3. PICK v : v = Value(g, k)
    OBVIOUS
  <2>4. v \in S
    BY <2>2, <2>3
  <2> DEFINE h == [g EXCEPT ![k] = v]
  <2>5. h \in [1..n -> S] /\ h[k] = v /\ \A i \in 1..n : i # k => h[i] = g[i]
    BY <2>4
  <2> HIDE DEF h
  <2>6. ASSUME NEW i \in k..n PROVE Value(h, i) = Value(g, i)
    <3>1. i \in J => next[i] \in 1..n /\ next[i] # k
      OBVIOUS
    <3> QED
      BY <2>5, <3>1, Zenon
  <2>7. ASSUME NEW i \in k..n PROVE h[i] = Value(h, i)
    <3>1. CASE i = k
      BY <3>1, <2>3, <2>5, <2>6, Zenon
    <3>2. CASE i # k
      <4>1. i \in (n - (m - 1) + 1)..n /\ i \in 1..n
        BY <2>2, <3>2
      <4>2. g[i] = Value(g, i)
        BY <2>1, <4>1, Zenon
      <4> QED
        BY <2>5, <2>6, <3>2, <4>1, <4>2, Zenon
    <3> QED
      BY <3>1, <3>2
  <2>8. From(h, m)
    BY <2>2, <2>7, Zenon
  <2>9. m \in 0..n
    OBVIOUS
  <2> QED
    BY <2>5, <2>8, <2>9, Zenon
<1> HIDE DEF T
<1>3. \A m \in 0..n : m \in T
  BY <1>1, <1>2, Induction, Zenon
<1>4. n \in 0..n
  OBVIOUS
<1>5. PICK g \in [1..n -> S] : From(g, n)
  BY <1>3, <1>4, Zenon DEF T
<1>6. n - n + 1 = 1
  OBVIOUS
<1>7. \A i \in 1..n : g[i] = Value(g, i)
  BY <1>5, <1>6, Zenon
<1>8. Backward(g, n, J, next, put, last)
  BY <1>7, Zenon DEF Backward
<1> QED
  BY <1>8, Zenon

\* What splitStr makes of the part of s from position i on, from what it makes of
\* a later part
SplitsAt(rest, s, delim, i) ==
  LET pos == Find(s, delim, i)
  IN  rest[i] = IF pos # 0 THEN <<SubSeq(s, i, pos - 1)>> \o rest[pos + Len(delim)]
                ELSE IF i <= Len(s) THEN <<SubSeq(s, i, Len(s))>> ELSE <<>>

\* The loop of splitStr, as a function
LEMMA SplitIs ==
  ASSUME NEW s \in Seq(Bytes), NEW delim \in Seq(Bytes), Len(delim) > 0
  PROVE  \E rest : rest[1] = SplitStr(s, delim) /\ \A i \in 1..(Len(s) + 1) : SplitsAt(rest, s, delim, i)
<1>1. PICK n \in Nat, l \in Nat : n = Len(s) + 1 /\ l = Len(delim) /\ l > 0
  <2>1. Len(s) + 1 \in Nat /\ Len(delim) \in Nat
    BY LenProperties
  <2> QED
    BY <2>1
<1> DEFINE pos(i) == Find(s, delim, i)
           J == {i \in 1..n : pos(i) # 0}
           S == Seq(Seq(Bytes))
           Piece(i) == <<SubSeq(s, i, pos(i) - 1)>>
           End(i) == IF i <= Len(s) THEN <<SubSeq(s, i, Len(s))>> ELSE <<>>
           next == [i \in J |-> pos(i) + l]
           put == [i \in J |-> [x \in S |-> Piece(i) \o x]]
           last == [i \in 1..n |-> IF i \in J THEN <<>> ELSE End(i)]
<1>2. \A i \in J : pos(i) \in i..(n - l)
  <2> TAKE i \in J
  <2>1. i \in Nat \ {0} /\ pos(i) # 0
    BY <1>1
  <2>2. pos(i) \in i..(Len(s) + 1 - Len(delim))
    BY <2>1, FindRange, Zenon
  <2>3. Len(s) + 1 - Len(delim) = n - l
    BY <1>1
  <2> QED
    BY <2>2, <2>3, Zenon
<1>3. \A a, b \in Int : 1 <= a /\ b <= Len(s) => SubSeq(s, a, b) \in Seq(Bytes)
  <2> TAKE a, b \in Int
  <2>1. Len(s) \in Nat
    BY LenProperties
  <2> HAVE 1 <= a /\ b <= Len(s)
  <2>2. \A i \in a..b : s[i] \in Bytes
    BY <2>1
  <2> QED
    BY <2>2, SubSeqProperties
<1>4. next \in [J -> 1..n] /\ \A i \in J : next[i] > i
  <2> HIDE DEF pos
  <2>1. \A i \in J : pos(i) + l \in 1..n /\ pos(i) + l > i
    BY <1>1, <1>2
  <2> QED
    BY <2>1
<1>5. put \in [J -> [S -> S]]
  <2>1. ASSUME NEW i \in J, NEW x \in S PROVE Piece(i) \o x \in S
    <3>1. i \in Int /\ 1 <= i /\ pos(i) - 1 \in Int /\ pos(i) - 1 <= Len(s)
      <4> HIDE DEF pos
      <4> QED
        BY <1>1, <1>2
    <3>2. SubSeq(s, i, pos(i) - 1) \in Seq(Bytes)
      BY <1>3, <3>1, Zenon
    <3> QED
      BY <3>2
  <2> QED
    BY <2>1
<1>6. last \in [1..n -> S]
  <2>1. ASSUME NEW i \in 1..n PROVE End(i) \in S
    <3>1. i \in Int /\ 1 <= i /\ Len(s) \in Int /\ Len(s) <= Len(s)
      BY LenProperties
    <3>2. SubSeq(s, i, Len(s)) \in Seq(Bytes)
      BY <1>3, <3>1, Zenon
    <3>3. <<SubSeq(s, i, Len(s))>> \in S /\ <<>> \in S
      BY <3>2
    <3> QED
      BY <3>3, Zenon
  <2>2. <<>> \in S
    OBVIOUS
  <2> QED
    BY <2>1, <2>2, Zenon
<1>7. J \in SUBSET (1..n)
  OBVIOUS
<1>8. /\ \A i \in J : next[i] = pos(i) + l
      /\ \A i \in J, x \in S : put[i][x] = Piece(i) \o x
      /\ \A i \in (1..n) \ J : last[i] = End(i)
  OBVIOUS
<1> DEFINE IsSplit(g) ==
             g = [i \in 1..n |-> IF pos(i) # 0 THEN Piece(i) \o g[pos(i) + l] ELSE End(i)]
<1>9. \E g : IsSplit(g)
  <2> HIDE DEF next, put, last
  <2>1. PICK g \in [1..n -> S] : Backward(g, n, J, next, put, last)
    BY <1>4, <1>5, <1>6, <1>7, BackwardExists, Zenon
  <2>2. \A i \in 1..n : g[i] = IF pos(i) # 0 THEN Piece(i) \o g[pos(i) + l] ELSE End(i)
    <3> TAKE i \in 1..n
    <3>1. CASE i \in J
      <4>1. g[i] = put[i][g[next[i]]]
        BY <2>1, <3>1, Zenon DEF Backward
      <4>2. g[next[i]] \in S
        BY <1>4, <3>1, Zenon
      <4> QED
        BY <1>8, <3>1, <4>1, <4>2, Zenon
    <3>2. CASE i \notin J
      <4>1. g[i] = last[i]
        BY <2>1, <3>2, Zenon DEF Backward
      <4>2. ~(pos(i) # 0)
        BY <3>2, Zenon
      <4> QED
        BY <1>8, <3>2, <4>1, <4>2, Zenon
    <3> QED
      BY <3>1, <3>2
  <2>3. g = [i \in 1..n |-> IF pos(i) # 0 THEN Piece(i) \o g[pos(i) + l] ELSE End(i)]
    <3> HIDE DEF pos, Piece, End
    <3> QED
      BY <2>2
  <2> QED
    BY <2>3, Zenon
<1>10. PICK rest : rest = CHOOSE g : IsSplit(g)
  OBVIOUS
<1>11. SplitStr(s, delim) = rest[1]
  BY <1>1, <1>10, Zenon DEF SplitStr
<1>12. IsSplit(rest)
  BY <1>9, <1>10, Zenon
<1>13. \A i \in 1..n : rest[i] = IF pos(i) # 0 THEN Piece(i) \o rest[pos(i) + l] ELSE End(i)
  BY <1>12, Zenon
<1>14. \A i \in 1..n : SplitsAt(rest, s, delim, i)
  BY <1>1, <1>13, Zenon DEF SplitsAt
<1> QED
  BY <1>1, <1>11, <1>14, Zenon

(***************************************************************************)
(* The lines of a request                                                  *)
(***************************************************************************)

\* A line is bytes, at least one, and none of them a CR.
LEMMA LineIsBytes ==
  ASSUME NEW x \in Lines
  PROVE  x \in Seq(Bytes) /\ Len(x) \in Nat /\ Len(x) > 0 /\ \A j \in 1..Len(x) : x[j] # 13
<1>1. x \in Seq((0..255) \ {13, 10}) /\ x # <<>>
  BY DEF Lines
<1>2. \A i \in 1..Len(x) : x[i] \in (0..255) \ {13, 10}
  BY <1>1
<1>3. Len(x) \in Nat /\ Len(x) > 0
  BY <1>1
<1>4. x \in Seq(0..255)
  BY <1>1
<1>5. Bytes = 0..255
  BY DEF Bytes
<1> QED
  BY <1>2, <1>3, <1>4, <1>5

\* r is the n lines: line k begins behind position c[k - 1], and its end with it
\* is at c[k].
LinesIn(r, n, lines, c) ==
  /\ n \in Nat /\ n > 0 /\ c \in [0..n -> Nat] /\ c[0] = 0
  /\ r \in Seq(Bytes) /\ Len(r) = c[n] + 2 /\ r[c[n] + 1] = 13 /\ r[c[n] + 2] = 10
  /\ \A k \in 1..n :
       /\ Len(lines[k]) \in Nat /\ Len(lines[k]) > 0
       /\ c[k] = c[k - 1] + Len(lines[k]) + 2 /\ c[k] <= c[n]
       /\ r[c[k] - 1] = 13 /\ r[c[k]] = 10
       /\ \A j \in 1..Len(lines[k]) : r[c[k - 1] + j] = lines[k][j] /\ lines[k][j] # 13

\* u is t behind s.
Joins(u, s, t) ==
  /\ Len(u) = Len(s) + Len(t)
  /\ \A i \in 1..Len(s) : u[i] = s[i]
  /\ \A i \in 1..Len(t) : u[Len(s) + i] = t[i]

LEMMA ConcatJoins ==
  ASSUME NEW S, NEW s \in Seq(S), NEW t \in Seq(S), NEW u, u = s \o t
  PROVE  u \in Seq(S) /\ Joins(u, s, t)
<1>1. PICK a \in Nat, b \in Nat : a = Len(s) /\ b = Len(t)
  BY LenProperties
<1>2. u \in Seq(S) /\ Len(u) = a + b /\ \A i \in 1..(a + b) : u[i] = IF i <= a THEN s[i] ELSE t[i - a]
  BY <1>1, ConcatProperties
<1>3. \A i \in 1..a : u[i] = s[i]
  BY <1>2
<1>4. \A i \in 1..b : u[a + i] = t[i]
  <2> TAKE i \in 1..b
  <2>1. a + i \in 1..(a + b) /\ ~(a + i <= a) /\ (a + i) - a = i
    OBVIOUS
  <2>2. u[a + i] = t[(a + i) - a]
    BY <1>2, <2>1, Zenon
  <2> QED
    BY <2>1, <2>2
<1> QED
  BY <1>1, <1>2, <1>3, <1>4, Zenon DEF Joins

LEMMA RequestLines ==
  ASSUME NEW lines \in Seq(Lines), NEW n \in Nat, n = Len(lines), n > 0,
         NEW r, r = EncodeRequest(lines)
  PROVE  \E c : LinesIn(r, n, lines, c)
<1>1. PICK eol \in Seq(Bytes) : eol = <<13, 10>> /\ Len(eol) = 2 /\ eol[1] = 13 /\ eol[2] = 10
  <2>1. <<13, 10>> \in Seq(Bytes)
    BY DEF Bytes
  <2>2. Len(<<13, 10>>) = 2 /\ <<13, 10>>[1] = 13 /\ <<13, 10>>[2] = 10
    OBVIOUS
  <2> QED
    BY <2>1, <2>2, Zenon
<1>2. PICK pieces : pieces = [i \in 1..n |-> lines[i] \o <<13, 10>>]
  OBVIOUS
<1>3. ASSUME NEW k \in 1..n
      PROVE  /\ lines[k] \in Seq(Bytes) /\ Len(lines[k]) \in Nat /\ Len(lines[k]) > 0
             /\ \A j \in 1..Len(lines[k]) : lines[k][j] # 13
  <2>1. lines[k] \in Lines
    OBVIOUS
  <2> QED
    BY <2>1, LineIsBytes, Zenon
<1>4. \A k \in 1..n : pieces[k] = lines[k] \o eol /\ pieces[k] \in Seq(Bytes)
  <2> TAKE k \in 1..n
  <2>1. lines[k] \in Seq(Bytes)
    BY <1>3, Zenon
  <2>2. lines[k] \o eol \in Seq(Bytes)
    BY <2>1, ConcatProperties, Zenon
  <2>3. pieces[k] = lines[k] \o eol
    BY <1>1, <1>2, Zenon
  <2> QED
    BY <2>2, <2>3, Zenon
<1>5. PICK e \in Seq(Bytes) : e = <<>> /\ Len(e) = 0
  <2>1. <<>> \in Seq(Bytes) /\ Len(<<>>) = 0
    OBVIOUS
  <2> QED
    BY <2>1, Zenon
<1>6. PICK f : f = Chain(e, pieces)
  OBVIOUS
<1>7. Chained(f, n, e, pieces)
  <2>1. n = Len(pieces)
    BY <1>2
  <2>2. \A k \in 1..n : pieces[k] \in Seq(Bytes)
    BY <1>4, Zenon
  <2> QED
    BY <1>6, <2>1, <2>2, ChainIs, Zenon
<1>8. r = f[n] \o eol
  <2>1. r = Chain(<<>>, pieces)[n] \o <<13, 10>>
    BY <1>2, Zenon DEF EncodeRequest
  <2> QED
    BY <1>1, <1>5, <1>6, <2>1, Zenon
<1> DEFINE c == [k \in 0..n |-> Len(f[k])]
<1>9. c \in [0..n -> Nat] /\ c[0] = 0 /\ \A k \in 0..n : c[k] = Len(f[k])
  <2>1. \A k \in 0..n : Len(f[k]) \in Nat
    BY <1>7, LenProperties DEF Chained
  <2> QED
    BY <1>5, <1>7, <2>1 DEF Chained
<1> HIDE DEF c
<1>10. PICK w \in Seq(Bytes), m \in Nat : w = f[n] /\ m = Len(w) /\ m = c[n]
  <2>1. n \in 0..n
    OBVIOUS
  <2>2. f[n] \in Seq(Bytes)
    BY <1>7, <2>1, Zenon DEF Chained
  <2>3. c[n] \in Nat /\ c[n] = Len(f[n])
    BY <1>9, <2>1, Zenon
  <2> QED
    BY <2>2, <2>3, Zenon
<1>11. r \in Seq(Bytes) /\ Joins(r, w, eol)
  <2>1. r = w \o eol
    BY <1>8, <1>10, Zenon
  <2> QED
    BY <2>1, ConcatJoins, Zenon
<1>12. Len(r) = m + 2 /\ r[m + 1] = 13 /\ r[m + 2] = 10 /\ \A i \in 1..m : r[i] = w[i]
  <2>1. Len(r) = m + 2 /\ (\A i \in 1..m : r[i] = w[i]) /\ \A i \in 1..2 : r[m + i] = eol[i]
    BY <1>1, <1>10, <1>11, Zenon DEF Joins
  <2>2. 1 \in 1..2 /\ 2 \in 1..2
    OBVIOUS
  <2> QED
    BY <1>1, <2>1, <2>2, Zenon
<1>13. ASSUME NEW k \in 1..n
       PROVE  /\ c[k] = c[k - 1] + Len(lines[k]) + 2 /\ c[k] <= m
              /\ r[c[k] - 1] = 13 /\ r[c[k]] = 10
              /\ \A j \in 1..Len(lines[k]) : r[c[k - 1] + j] = lines[k][j]
  <2>1. k \in 0..n /\ k - 1 \in 0..n
    OBVIOUS
  <2>2. PICK s \in Seq(Bytes), t \in Seq(Bytes), p \in Seq(Bytes), x \in Seq(Bytes) :
          s = f[k - 1] /\ t = f[k] /\ p = pieces[k] /\ x = lines[k]
    <3>1. f[k - 1] \in Seq(Bytes) /\ f[k] \in Seq(Bytes)
      BY <1>7, <2>1, Zenon DEF Chained
    <3> QED
      BY <1>3, <1>4, <3>1, Zenon
  <2>3. t = s \o p /\ p = x \o eol
    BY <1>4, <1>7, <2>2, Zenon DEF Chained
  <2>4. PICK a \in Nat, b \in Nat, d \in Nat, l \in Nat :
          a = Len(s) /\ b = Len(t) /\ d = Len(p) /\ l = Len(x)
    BY <2>2, LenProperties
  <2>5. d = l + 2 /\ p[l + 1] = 13 /\ p[l + 2] = 10 /\ \A j \in 1..l : p[j] = x[j]
    <3>1. Joins(p, x, eol)
      BY <2>2, <2>3, ConcatJoins, Zenon
    <3>2. d = l + 2 /\ (\A i \in 1..l : p[i] = x[i]) /\ \A i \in 1..2 : p[l + i] = eol[i]
      BY <1>1, <2>4, <3>1, Zenon DEF Joins
    <3>3. 1 \in 1..2 /\ 2 \in 1..2
      OBVIOUS
    <3> QED
      BY <1>1, <3>2, <3>3, Zenon
  <2>6. b = a + d /\ \A i \in 1..d : t[a + i] = p[i]
    <3>1. Joins(t, s, p)
      BY <2>2, <2>3, ConcatJoins, Zenon
    <3> QED
      BY <2>4, <3>1, Zenon DEF Joins
  <2>7. c[k] = b /\ c[k - 1] = a /\ Len(lines[k]) = l
    BY <1>9, <2>1, <2>2, <2>4, Zenon
  <2>8. GoesOn(w, t)
    BY <1>7, <1>10, <2>1, <2>2, ChainGoesOn, Zenon
  <2>9. b <= m /\ \A i \in 1..b : w[i] = t[i]
    BY <1>10, <2>4, <2>8, Zenon DEF GoesOn
  <2>10. \A i \in 1..b : r[i] = t[i]
    BY <1>12, <2>9
  <2>11. \A i \in 1..d : r[a + i] = p[i]
    <3> TAKE i \in 1..d
    <3>1. a + i \in 1..b
      BY <2>6
    <3> QED
      BY <2>6, <2>10, <3>1, Zenon
  <2>12. b = a + l + 2 /\ b - 1 = a + (l + 1) /\ b = a + (l + 2)
    BY <2>5, <2>6
  <2>14. l + 1 \in 1..d /\ l + 2 \in 1..d /\ \A j \in 1..l : j \in 1..d
    BY <2>5
  <2>15. r[b - 1] = 13 /\ r[b] = 10
    BY <2>5, <2>11, <2>12, <2>14
  <2>16. \A j \in 1..l : r[a + j] = x[j]
    BY <2>5, <2>11, <2>14
  <2> QED
    BY <2>2, <2>7, <2>9, <2>12, <2>15, <2>16, Zenon
<1>14. LinesIn(r, n, lines, c)
  <2>1. \A k \in 1..n : /\ Len(lines[k]) \in Nat /\ Len(lines[k]) > 0
                        /\ c[k] = c[k - 1] + Len(lines[k]) + 2 /\ c[k] <= c[n]
                        /\ r[c[k] - 1] = 13 /\ r[c[k]] = 10
                        /\ \A j \in 1..Len(lines[k]) : r[c[k - 1] + j] = lines[k][j] /\ lines[k][j] # 13
    BY <1>3, <1>10, <1>13, Zenon
  <2> QED
    BY <1>9, <1>10, <1>11, <1>12, <2>1, Zenon DEF LinesIn
<1> QED
  BY <1>14

\* The carriage returns of a request are at the ends of its lines.
LEMMA OnlyAtEnds ==
  ASSUME NEW r, NEW n, NEW lines, NEW c, LinesIn(r, n, lines, c),
         NEW i \in 1..c[n], r[i] = 13
  PROVE  \E k \in 1..n : i = c[k] - 1
<1>1. n \in Nat /\ n > 0 /\ c \in [0..n -> Nat] /\ c[0] = 0
  BY Zenon DEF LinesIn
<1> DEFINE T == {k \in 0..n : i <= c[k]}
<1>2. n \in T /\ T \in SUBSET Nat
  BY <1>1
<1>3. PICK k \in T : \A j \in T : k <= j
  BY <1>2, FirstExists
<1>4. k \in 1..n /\ k - 1 \in 0..n /\ ~(i <= c[k - 1]) /\ i <= c[k]
  BY <1>1, <1>3
<1>5. PICK a \in Nat, b \in Nat, l \in Nat : a = c[k - 1] /\ b = c[k] /\ l = Len(lines[k])
  <2>1. c[k - 1] \in Nat /\ c[k] \in Nat
    BY <1>1, <1>4
  <2> QED
    BY <1>4, <2>1, Zenon DEF LinesIn
<1>6. /\ b = a + l + 2 /\ r[b] = 10
      /\ \A j \in 1..l : r[a + j] = lines[k][j] /\ lines[k][j] # 13
  BY <1>4, <1>5, Zenon DEF LinesIn
<1>7. b = a + l + 2
  BY <1>6
<1>8. i \in Nat /\ ~(i <= a) /\ i <= b
  <2>1. c[n] \in Nat
    BY <1>1
  <2>2. i \in Nat
    BY <2>1
  <2> QED
    BY <1>4, <1>5, <2>2, Zenon
<1>9. i # b
  BY <1>6
<1>10. ASSUME i < b - 1 PROVE FALSE
  <2>1. i - a \in 1..l /\ a + (i - a) = i
    BY <1>7, <1>8, <1>10
  <2>2. r[a + (i - a)] # 13
    BY <1>6, <2>1, Zenon
  <2> QED
    BY <2>1, <2>2, Zenon
<1>11. i = b - 1
  BY <1>7, <1>8, <1>9, <1>10
<1> QED
  BY <1>4, <1>5, <1>11, Zenon

LEMMA EolIs == EOL \in Seq(Bytes) /\ Len(EOL) = 2 /\ EOL[1] = 13 /\ EOL[2] = 10
<1>1. EOL = <<13, 10>>
  BY DEF EOL, CR, LF
<1>2. <<13, 10>> \in Seq(Bytes)
  BY DEF Bytes
<1>3. Len(<<13, 10>>) = 2 /\ <<13, 10>>[1] = 13 /\ <<13, 10>>[2] = 10
  OBVIOUS
<1> QED
  BY <1>1, <1>2, <1>3, Zenon

\* Line k of such a request, from behind position a to position b
LineAt(r, n, lines, c, k, a, b, l) ==
  /\ a = c[k - 1] /\ b = c[k] /\ l = Len(lines[k])
  /\ a \in Nat /\ b \in Nat /\ l \in Nat /\ l > 0 /\ b = a + l + 2 /\ b <= c[n]
  /\ r[b - 1] = 13 /\ r[b] = 10
  /\ \A j \in 1..l : r[a + j] = lines[k][j] /\ r[a + j] # 13

LEMMA LineIsAt ==
  ASSUME NEW r, NEW n, NEW lines, NEW c, LinesIn(r, n, lines, c), NEW k \in 1..n
  PROVE  \E a, b, l \in Nat : LineAt(r, n, lines, c, k, a, b, l)
<1>1. PICK a, b, l : a = c[k - 1] /\ b = c[k] /\ l = Len(lines[k])
  OBVIOUS
<1>2. a \in Nat /\ b \in Nat
  <2>1. n \in Nat /\ c \in [0..n -> Nat]
    BY Zenon DEF LinesIn
  <2>2. k \in 0..n /\ k - 1 \in 0..n
    BY <2>1
  <2> QED
    BY <1>1, <2>1, <2>2, Zenon
<1>3. /\ l \in Nat /\ l > 0 /\ b = a + l + 2 /\ b <= c[n]
      /\ r[b - 1] = 13 /\ r[b] = 10
      /\ \A j \in 1..l : r[a + j] = lines[k][j] /\ lines[k][j] # 13
  BY <1>1, Zenon DEF LinesIn
<1>4. LineAt(r, n, lines, c, k, a, b, l)
  BY <1>1, <1>2, <1>3, Zenon DEF LineAt
<1> QED
  BY <1>2, <1>3, <1>4, Zenon

\* A line that is not the last ends before the last one begins.
LEMMA LineBefore ==
  ASSUME NEW r, NEW n, NEW lines, NEW c, LinesIn(r, n, lines, c), NEW k \in 1..n, k # n
  PROVE  c[k] + 3 <= c[n] /\ r[c[k] + 1] # 13
<1>1. n \in Nat /\ c \in [0..n -> Nat]
  BY Zenon DEF LinesIn
<1>2. k + 1 \in 1..n /\ (k + 1) - 1 = k
  BY <1>1
<1>3. PICK a, b, l \in Nat : LineAt(r, n, lines, c, k + 1, a, b, l)
  BY <1>2, LineIsAt, Zenon
<1>4. a = c[k]
  BY <1>2, <1>3, Zenon DEF LineAt
<1>5. /\ a \in Nat /\ b \in Nat /\ l \in Nat /\ l > 0 /\ b = a + l + 2 /\ b <= c[n]
      /\ \A j \in 1..l : r[a + j] # 13
  BY <1>3, Zenon DEF LineAt
<1>6. n \in 0..n
  BY <1>1
<1>7. PICK m \in Nat : m = c[n]
  BY <1>1, <1>6, Zenon
<1>8. a + 3 <= m
  BY <1>5, <1>7
<1>9. 1 \in 1..l
  BY <1>5
<1> QED
  BY <1>4, <1>5, <1>7, <1>8, <1>9, Zenon

\* The first empty line is the one behind the last line.
LEMMA EmptyLineFound ==
  ASSUME NEW r, NEW n, NEW lines, NEW c, LinesIn(r, n, lines, c), NEW eol, eol = EOL \o EOL
  PROVE  Find(r, eol, 1) = c[n] - 1 /\ c[n] - 2 \in Nat
<1>1. /\ n \in Nat /\ n > 0 /\ c \in [0..n -> Nat] /\ r \in Seq(Bytes)
      /\ Len(r) = c[n] + 2 /\ r[c[n] + 1] = 13 /\ r[c[n] + 2] = 10
  BY Zenon DEF LinesIn
<1>2. n \in 1..n /\ n \in 0..n
  BY <1>1
<1>3. PICK m \in Nat : m = c[n]
  BY <1>1, <1>2, Zenon
<1>4. m - 2 \in Nat /\ r[m - 1] = 13 /\ r[m] = 10
  <2>1. PICK a, b, l \in Nat : LineAt(r, n, lines, c, n, a, b, l)
    BY <1>2, LineIsAt, Zenon
  <2>2. b = m /\ a \in Nat /\ l \in Nat /\ b = a + l + 2 /\ r[b - 1] = 13 /\ r[b] = 10
    BY <1>3, <2>1, Zenon DEF LineAt
  <2> QED
    BY <2>2
<1>5. eol \in Seq(Bytes) /\ Len(eol) = 4 /\ eol[1] = 13 /\ eol[2] = 10 /\ eol[3] = 13 /\ eol[4] = 10
  <2>1. PICK e \in Seq(Bytes) : e = EOL /\ Len(e) = 2 /\ e[1] = 13 /\ e[2] = 10
    BY EolIs
  <2>2. eol \in Seq(Bytes) /\ Joins(eol, e, e)
    <3>1. eol = e \o e
      BY <2>1, Zenon
    <3> QED
      BY <3>1, ConcatJoins, Zenon
  <2>3. /\ Len(eol) = 2 + 2 /\ \A i \in 1..2 : eol[i] = e[i]
        /\ \A i \in 1..2 : eol[2 + i] = e[i]
    BY <2>1, <2>2, Zenon DEF Joins
  <2>4. 1 \in 1..2 /\ 2 \in 1..2 /\ 2 + 1 = 3 /\ 2 + 2 = 4
    OBVIOUS
  <2> QED
    BY <2>1, <2>2, <2>3, <2>4, Zenon
<1>6. m - 1 \in 1..(Len(r) + 1 - Len(eol))
  <2>1. Len(r) = m + 2 /\ Len(eol) = 4
    BY <1>1, <1>3, <1>5, Zenon
  <2>2. m + 2 + 1 - 4 = m - 1 /\ m - 1 \in 1..(m - 1)
    BY <1>4
  <2> QED
    BY <2>1, <2>2, Zenon
<1>7. StandsAt(r, eol, m - 1)
  <2> SUFFICES ASSUME NEW j \in 1..4 PROVE r[(m - 1) + j - 1] = eol[j]
    BY <1>5, Zenon DEF StandsAt
  <2>1. j = 1 \/ j = 2 \/ j = 3 \/ j = 4
    OBVIOUS
  <2>2. (m - 1) + 1 - 1 = m - 1 /\ (m - 1) + 2 - 1 = m /\ (m - 1) + 3 - 1 = m + 1 /\ (m - 1) + 4 - 1 = m + 2
    OBVIOUS
  <2>3. r[m - 1] = 13 /\ r[m] = 10 /\ r[m + 1] = 13 /\ r[m + 2] = 10
    BY <1>1, <1>3, <1>4, Zenon
  <2> QED
    BY <1>5, <2>1, <2>2, <2>3, Zenon
<1>8. ASSUME NEW i \in 1..((m - 1) - 1), StandsAt(r, eol, i) PROVE FALSE
  <2>1. /\ 1 \in 1..Len(eol) /\ 3 \in 1..Len(eol) /\ i + 1 - 1 = i /\ i + 3 - 1 = i + 2
        /\ i \in 1..m
    BY <1>5
  <2>2. r[i] = 13 /\ r[i + 2] = 13
    BY <1>5, <1>8, <2>1, Zenon DEF StandsAt
  <2>3. PICK k \in 1..n : i = c[k] - 1
    <3>1. i \in 1..c[n]
      BY <1>3, <2>1, Zenon
    <3>2. \E k \in 1..n : i = c[k] - 1
      BY <2>2, <3>1, OnlyAtEnds
    <3> QED
      BY <3>2, Zenon
  <2>4. k # n
    BY <1>3, <2>3
  <2>5. r[c[k] + 1] # 13
    BY <2>4, LineBefore, Zenon
  <2>6. c[k] \in Nat
    BY <1>1
  <2>7. c[k] + 1 = i + 2
    BY <2>3, <2>6
  <2> QED
    BY <2>2, <2>5, <2>7, Zenon
<1>9. Find(r, eol, 1) = m - 1
  <2>1. 1 \in Nat \ {0}
    OBVIOUS
  <2> QED
    BY <1>1, <1>5, <1>6, <1>7, <1>8, <2>1, FoundAt, Zenon
<1> QED
  BY <1>3, <1>4, <1>9, Zenon

\* s is the lines of r without the end of the last.
LinesOf(s, r, n, c) == s = SubSeq(r, 1, c[n] - 2)

\* The end of line k is found, if it is not the last.
LineEndsAt(s, eol, n, c, k) == Find(s, eol, c[k - 1] + 1) = IF k = n THEN 0 ELSE c[k] - 1

LEMMA LineEndFound ==
  ASSUME NEW r, NEW n \in Nat, NEW lines, NEW c, LinesIn(r, n, lines, c),
         NEW s, LinesOf(s, r, n, c), NEW k \in 1..n, NEW eol, eol = EOL
  PROVE  LineEndsAt(s, eol, n, c, k)
<1>1. n \in Nat /\ c \in [0..n -> Nat] /\ r \in Seq(Bytes) /\ Len(r) = c[n] + 2
  BY Zenon DEF LinesIn
<1>2. PICK m \in Nat : m = c[n] /\ m - 2 \in Nat
  <2>1. n \in 0..n
    BY <1>1
  <2>2. PICK what : what = EOL \o EOL
    OBVIOUS
  <2>3. c[n] - 2 \in Nat
    BY <2>2, EmptyLineFound, Zenon
  <2>4. c[n] \in Nat
    BY <1>1, <2>1, Zenon
  <2> QED
    BY <2>3, <2>4, Zenon
<1>3. s \in Seq(Bytes) /\ Len(s) = m - 2 /\ \A i \in 1..(m - 2) : s[i] = r[i]
  <2>1. PICK q \in Nat : q = m - 2
    BY <1>2
  <2>2. 0 \in Nat /\ 0 <= q /\ q <= Len(r) /\ 0 + 1 = 1 /\ q - 0 = q /\ \A i \in 1..q : 0 + i = i
    <3>1. Len(r) = m + 2
      BY <1>1, <1>2, Zenon
    <3>2. q <= m + 2
      BY <2>1
    <3>3. q <= Len(r)
      BY <3>1, <3>2, Zenon
    <3> QED
      BY <3>3
  <2>3. s = SubSeq(r, 0 + 1, q)
    BY <1>2, <2>1, <2>2, Zenon DEF LinesOf
  <2>4. s \in Seq(Bytes) /\ Len(s) = q - 0 /\ \A i \in 1..(q - 0) : s[i] = r[0 + i]
    BY <1>1, <2>1, <2>2, <2>3, BytesBetween
  <2> QED
    BY <2>1, <2>2, <2>4
<1>4. PICK a, b, l \in Nat : LineAt(r, n, lines, c, k, a, b, l)
  BY LineIsAt, Zenon
<1>5. /\ a = c[k - 1] /\ b = c[k]
      /\ a \in Nat /\ b \in Nat /\ l \in Nat /\ l > 0 /\ b = a + l + 2 /\ b <= m
      /\ r[b - 1] = 13 /\ r[b] = 10 /\ \A j \in 1..l : r[a + j] # 13
  BY <1>2, <1>4, Zenon DEF LineAt
<1>11. l > 0 /\ b = a + l + 2 /\ b <= m
  BY <1>5, Zenon
<1>12. Len(s) + 1 - Len(eol) = m - 3
  <2>1. PICK x \in Int, y \in Int : x = Len(s) /\ y = Len(eol) /\ x = m - 2 /\ y = 2
    BY <1>2, <1>3, EolIs
  <2>2. x + 1 - y = m - 3
    BY <2>1
  <2> QED
    BY <2>1, <2>2, Zenon
<1>6. eol \in Seq(Bytes) /\ Len(eol) = 2 /\ eol[1] = 13 /\ eol[2] = 10
  BY EolIs
<1>7. ASSUME NEW i \in (a + 1)..(b - 2), i <= m - 2 PROVE ~StandsAt(s, eol, i)
  <2>1. i - a \in 1..l /\ a + (i - a) = i /\ i \in 1..(m - 2) /\ 1 \in 1..2 /\ i + 1 - 1 = i
    BY <1>7, <1>11
  <2>2. s[i] # 13
    BY <1>3, <1>5, <2>1, Zenon
  <2> QED
    BY <1>6, <2>1, <2>2, ZenonT(60) DEF StandsAt
<1>8. a + 1 \in Nat \ {0}
  BY <1>5
<1>9. CASE k = n
  <2>1. b = m
    BY <1>2, <1>5, <1>9, Zenon
  <2>2. \A i \in (a + 1)..(m - 3) : i \in (a + 1)..(b - 2) /\ i <= m - 2
    BY <1>11, <2>1
  <2>3. \A i \in (a + 1)..(Len(s) + 1 - Len(eol)) : ~StandsAt(s, eol, i)
    BY <1>7, <1>12, <2>2, Zenon
  <2>4. Find(s, eol, a + 1) = 0
    BY <1>3, <1>6, <1>8, <2>3, NotFound, Zenon
  <2> QED
    BY <1>5, <1>9, <2>4, Zenon DEF LineEndsAt
<1>10. CASE k # n
  <2>1. b + 3 <= m
    BY <1>2, <1>5, <1>10, LineBefore, Zenon
  <2>2. b - 1 \in (a + 1)..(Len(s) + 1 - Len(eol))
    <3>1. b - 1 \in (a + 1)..(m - 3)
      BY <1>11, <2>1
    <3> QED
      BY <1>12, <3>1, Zenon
  <2>3. StandsAt(s, eol, b - 1)
    <3> SUFFICES ASSUME NEW j \in 1..2 PROVE s[(b - 1) + j - 1] = eol[j]
      BY <1>6, Zenon DEF StandsAt
    <3>1. j = 1 \/ j = 2
      OBVIOUS
    <3>2. (b - 1) + 1 - 1 = b - 1 /\ (b - 1) + 2 - 1 = b /\ b - 1 \in 1..(m - 2) /\ b \in 1..(m - 2)
      BY <1>11, <2>1
    <3>3. s[b - 1] = 13 /\ s[b] = 10
      BY <1>3, <1>5, <3>2, Zenon
    <3> QED
      BY <1>6, <3>1, <3>2, <3>3, Zenon
  <2>4. \A i \in (a + 1)..((b - 1) - 1) : i \in (a + 1)..(b - 2) /\ i <= m - 2
    BY <1>11, <2>1
  <2>5. \A i \in (a + 1)..((b - 1) - 1) : ~StandsAt(s, eol, i)
    BY <1>7, <2>4, Zenon
  <2>6. Find(s, eol, a + 1) = b - 1
    BY <1>3, <1>6, <1>8, <2>2, <2>3, <2>5, FoundAt, ZenonT(60)
  <2> QED
    BY <1>5, <1>10, <2>6, Zenon DEF LineEndsAt
<1> QED
  BY <1>9, <1>10

\* A part of a sequence is its first element before the others.
LEMMA HeadThenRest ==
  ASSUME NEW S, NEW s \in Seq(S), NEW n \in Nat, n = Len(s), NEW k \in 1..n
  PROVE  <<s[k]>> \o SubSeq(s, k + 1, n) = SubSeq(s, k, n)
<1>1. PICK x, y : x = SubSeq(s, k, n) /\ y = SubSeq(s, k + 1, n)
  OBVIOUS
<1>2. x \in Seq(S) /\ Len(x) = n - k + 1 /\ \A i \in 1..(n - k + 1) : x[i] = s[k + i - 1]
  <2>1. \A i \in k..n : s[i] \in S
    OBVIOUS
  <2> QED
    BY <1>1, <2>1, SubSeqProperties
<1>3. y \in Seq(S) /\ Len(y) = n - k /\ \A i \in 1..(n - k) : y[i] = s[k + i]
  <2>1. \A i \in (k + 1)..n : s[i] \in S
    OBVIOUS
  <2> QED
    BY <1>1, <2>1, SubSeqProperties
<1>4. PICK h \in Seq(S) : h = <<s[k]>> /\ Len(h) = 1 /\ h[1] = s[k]
  <2>1. <<s[k]>> \in Seq(S) /\ Len(<<s[k]>>) = 1 /\ <<s[k]>>[1] = s[k]
    OBVIOUS
  <2> QED
    BY <2>1, Zenon
<1>5. PICK u : u = h \o y
  OBVIOUS
<1>6. u \in Seq(S) /\ Joins(u, h, y)
  BY <1>3, <1>4, <1>5, ConcatJoins, Zenon
<1>7. Len(u) = 1 + (n - k) /\ u[1] = s[k] /\ \A i \in 1..(n - k) : u[1 + i] = y[i]
  <2>1. 1 \in 1..1
    OBVIOUS
  <2> QED
    BY <1>3, <1>4, <1>6, <2>1, Zenon DEF Joins
<1>8. \A i \in 1..(n - k + 1) : u[i] = x[i]
  <2> TAKE i \in 1..(n - k + 1)
  <2>1. CASE i = 1
    BY <1>2, <1>7, <2>1
  <2>2. CASE i # 1
    <3>1. i - 1 \in 1..(n - k) /\ 1 + (i - 1) = i /\ k + (i - 1) = k + i - 1
      BY <2>2
    <3> QED
      BY <1>2, <1>3, <1>7, <3>1
  <2> QED
    BY <2>1, <2>2
<1>9. Len(u) = Len(x)
  BY <1>2, <1>7
<1>10. u = x
  BY <1>2, <1>6, <1>7, <1>8, <1>9, SeqEqual
<1> QED
  BY <1>1, <1>4, <1>5, <1>10, Zenon

LEMMA PartOfOne ==
  ASSUME NEW S, NEW s \in Seq(S), NEW k \in 1..Len(s)
  PROVE  SubSeq(s, k, k) = <<s[k]>>
<1>1. PICK x, h : x = SubSeq(s, k, k) /\ h = <<s[k]>>
  OBVIOUS
<1>2. x \in Seq(S) /\ Len(x) = 1 /\ \A i \in 1..1 : x[i] = s[k + i - 1]
  <2>1. \A i \in k..k : s[i] \in S
    OBVIOUS
  <2>2. k \in Int /\ k - k + 1 = 1 /\ k <= k
    OBVIOUS
  <2> QED
    BY <1>1, <2>1, <2>2, SubSeqProperties
<1>3. h \in Seq(S) /\ Len(h) = 1 /\ h[1] = s[k]
  BY <1>1
<1>4. x[1] = s[k]
  <2>1. 1 \in 1..1 /\ k + 1 - 1 = k
    OBVIOUS
  <2> QED
    BY <1>2, <2>1, Zenon
<1>5. \A i \in 1..Len(x) : x[i] = h[i]
  BY <1>2, <1>3, <1>4
<1>6. x = h
  BY <1>2, <1>3, <1>5, SeqEqual
<1> QED
  BY <1>1, <1>6, Zenon

\* splitStr gives the lines back.
LEMMA LinesFound ==
  ASSUME NEW n \in Nat, NEW lines \in Seq(Lines), n = Len(lines), NEW r, NEW c,
         LinesIn(r, n, lines, c), NEW s, LinesOf(s, r, n, c)
  PROVE  SplitStr(s, EOL) = lines
<1>1. n > 0 /\ c \in [0..n -> Nat] /\ c[0] = 0 /\ r \in Seq(Bytes) /\ Len(r) = c[n] + 2
  BY Zenon DEF LinesIn
<1>2. PICK eol \in Seq(Bytes) : eol = EOL /\ Len(eol) = 2
  BY EolIs, Zenon
<1>3. PICK m, q \in Nat : m = c[n] /\ q = m - 2
  <2>1. n \in 0..n
    OBVIOUS
  <2>2. PICK what : what = EOL \o EOL
    OBVIOUS
  <2>3. c[n] - 2 \in Nat
    BY <2>2, EmptyLineFound, Zenon
  <2>4. c[n] \in Nat
    BY <1>1, <2>1, Zenon
  <2> QED
    BY <2>3, <2>4, Zenon
<1>4. s \in Seq(Bytes) /\ Len(s) = q /\ \A i \in 1..q : s[i] = r[i]
  <2>1. Len(r) = m + 2
    BY <1>1, <1>3, Zenon
  <2>2. q <= m + 2 /\ 0 + 1 = 1 /\ 0 <= q /\ q - 0 = q /\ (\A i \in 1..q : 0 + i = i)
    BY <1>3
  <2>3. s = SubSeq(r, 0 + 1, q)
    BY <1>3, <2>2, Zenon DEF LinesOf
  <2>4. q <= Len(r)
    BY <2>1, <2>2, Zenon
  <2>5. 0 \in Nat
    OBVIOUS
  <2>6. s \in Seq(Bytes) /\ Len(s) = q - 0 /\ \A i \in 1..(q - 0) : s[i] = r[0 + i]
    BY <1>1, <2>2, <2>3, <2>4, <2>5, BytesBetween
  <2> QED
    BY <2>2, <2>6
<1>5. PICK rest : rest[1] = SplitStr(s, eol) /\ \A i \in 1..(Len(s) + 1) : SplitsAt(rest, s, eol, i)
  <2>1. Len(eol) > 0
    BY <1>2
  <2> QED
    BY <1>4, <2>1, SplitIs, Zenon
<1>6. ASSUME NEW k \in 1..n
      PROVE  rest[c[k - 1] + 1] = IF k = n THEN <<lines[k]>> ELSE <<lines[k]>> \o rest[c[k] + 1]
  <2>1. PICK a, b, l \in Nat : LineAt(r, n, lines, c, k, a, b, l)
    BY LineIsAt, Zenon
  <2>2. /\ a = c[k - 1] /\ b = c[k] /\ l = Len(lines[k])
        /\ \A j \in 1..l : r[a + j] = lines[k][j]
    BY <2>1, Zenon DEF LineAt
  <2>3. l > 0 /\ b = a + l + 2 /\ b <= m
    BY <1>3, <2>1, Zenon DEF LineAt
  <2>4. a + 1 \in 1..(q + 1) /\ a + 1 <= q /\ b - 2 <= q /\ a <= b - 2 /\ b - 2 \in Nat /\ (b - 2) - a = l
    BY <1>3, <2>3, SMTT(60)
  <2>5. SubSeq(s, a + 1, b - 2) = lines[k]
    <3>1. PICK x, y : x = lines[k] /\ y = SubSeq(s, a + 1, b - 2)
      OBVIOUS
    <3>2. x \in Seq(Bytes) /\ Len(x) = l
      <4>1. x \in Lines
        BY <3>1
      <4>2. x \in Seq(Bytes)
        BY <4>1, LineIsBytes, Zenon
      <4> QED
        BY <2>2, <3>1, <4>2, Zenon
    <3>3. y \in Seq(Bytes) /\ Len(y) = (b - 2) - a /\ \A i \in 1..((b - 2) - a) : y[i] = s[a + i]
      <4>1. PICK z \in Nat : z = b - 2
        BY <2>4, Zenon
      <4>2. a <= z /\ z <= Len(s) /\ y = SubSeq(s, a + 1, z)
        BY <1>4, <2>4, <3>1, <4>1, Zenon
      <4>3. y \in Seq(Bytes) /\ Len(y) = z - a /\ \A i \in 1..(z - a) : y[i] = s[a + i]
        BY <1>4, <4>2, BytesBetween
      <4> QED
        BY <4>1, <4>3, Zenon
    <3>4. \A i \in 1..l : a + i \in 1..q
      BY <2>4
    <3>5. Len(y) = l /\ \A i \in 1..l : y[i] = x[i]
      BY <1>4, <2>2, <2>4, <3>1, <3>3, <3>4, Zenon
    <3>6. x = y
      BY <3>2, <3>3, <3>5, SeqEqual
    <3> QED
      BY <3>1, <3>6, Zenon
  <2>6. Find(s, eol, a + 1) = IF k = n THEN 0 ELSE b - 1
    <3>1. LineEndsAt(s, eol, n, c, k)
      BY <1>2, LineEndFound, Zenon
    <3> QED
      BY <2>2, <3>1, Zenon DEF LineEndsAt
  <2>7. SplitsAt(rest, s, eol, a + 1)
    BY <1>4, <1>5, <2>4, Zenon
  <2>8. CASE k = n
    <3>1. Find(s, eol, a + 1) = 0
      BY <2>6, <2>8, Zenon
    <3>2. ~(Find(s, eol, a + 1) # 0)
      BY <3>1, Zenon
    <3>3. a + 1 <= Len(s)
      BY <1>4, <2>4, Zenon
    <3>4. rest[a + 1] = <<SubSeq(s, a + 1, Len(s))>>
      BY <2>7, <3>2, <3>3, Zenon DEF SplitsAt
    <3>5. Len(s) = b - 2
      <4>1. b = m
        BY <1>3, <2>2, <2>8, Zenon
      <4> QED
        BY <1>3, <1>4, <4>1, Zenon
    <3> QED
      BY <2>2, <2>5, <2>8, <3>4, <3>5, Zenon
  <2>9. CASE k # n
    <3>1. Find(s, eol, a + 1) = b - 1
      BY <2>6, <2>9, Zenon
    <3>2. b - 1 # 0 /\ (b - 1) - 1 = b - 2 /\ (b - 1) + 2 = b + 1
      BY <2>3
    <3>3. rest[a + 1] = <<SubSeq(s, a + 1, (b - 1) - 1)>> \o rest[(b - 1) + Len(eol)]
      BY <2>7, <3>1, <3>2, Zenon DEF SplitsAt
    <3> QED
      BY <1>2, <2>2, <2>5, <2>9, <3>2, <3>3, Zenon
  <2> QED
    BY <2>8, <2>9
<1>7. \A j \in 0..(n - 1) : rest[c[n - j - 1] + 1] = SubSeq(lines, n - j, n)
  <2> DEFINE T == {j \in 0..(n - 1) : rest[c[n - j - 1] + 1] = SubSeq(lines, n - j, n)}
  <2>1. \A k \in 1..n : lines[k] \in Lines
    OBVIOUS
  <2>2. 0 \in T
    <3>1. n \in 1..n /\ n - 0 - 1 = n - 1 /\ n - 0 = n /\ 0 \in 0..(n - 1)
      BY <1>1
    <3>2. rest[c[n - 1] + 1] = <<lines[n]>>
      BY <1>6, <3>1, Zenon
    <3>3. SubSeq(lines, n, n) = <<lines[n]>>
      BY <3>1, PartOfOne, Zenon
    <3> QED
      BY <3>1, <3>2, <3>3, Zenon
  <2>3. ASSUME NEW j \in 1..(n - 1), j - 1 \in T PROVE j \in T
    <3>1. PICK k \in 1..n : k = n - j /\ k # n
      <4>1. n - j \in 1..n /\ n - j # n
        OBVIOUS
      <4> QED
        BY <4>1, Zenon
    <3>2. n - j - 1 = k - 1 /\ n - (j - 1) - 1 = k /\ n - (j - 1) = k + 1 /\ j \in 0..(n - 1)
      BY <3>1
    <3>3. rest[c[k] + 1] = SubSeq(lines, k + 1, n)
      BY <2>3, <3>2, Zenon
    <3>4. rest[c[k - 1] + 1] = <<lines[k]>> \o SubSeq(lines, k + 1, n)
      BY <1>6, <3>1, <3>3, Zenon
    <3>5. <<lines[k]>> \o SubSeq(lines, k + 1, n) = SubSeq(lines, k, n)
      BY HeadThenRest
    <3> QED
      BY <3>1, <3>2, <3>4, <3>5, Zenon
  <2> HIDE DEF T
  <2>4. n - 1 \in Nat
    BY <1>1
  <2>5. \A j \in 0..(n - 1) : j \in T
    BY <2>2, <2>3, <2>4, Induction, Zenon
  <2> QED
    BY <2>5, Zenon DEF T
<1>8. rest[1] = SubSeq(lines, 1, n)
  <2>1. n - 1 \in 0..(n - 1) /\ n - (n - 1) - 1 = 0 /\ n - (n - 1) = 1 /\ 0 + 1 = 1
    BY <1>1
  <2> QED
    BY <1>1, <1>7, <2>1, Zenon
<1>9. SubSeq(lines, 1, n) = lines
  OBVIOUS
<1> QED
  BY <1>2, <1>5, <1>8, <1>9, Zenon

\* Of a request alone, fetch_hs_element reads the lines, and all its bytes.
LEMMA RequestIsRead ==
  ASSUME NEW lines \in Seq(Lines), Len(lines) > 0, NEW r, r = EncodeRequest(lines)
  PROVE  \E m : m = Len(r) /\ m \in Nat /\ FetchHsElement(r) = ReadLines(lines, m - 3)
<1>1. PICK n \in Nat : n = Len(lines)
  BY LenProperties
<1>2. n > 0
  BY <1>1
<1>3. PICK c : LinesIn(r, n, lines, c)
  BY <1>1, <1>2, RequestLines, Zenon
<1>4. PICK m : m = c[n]
  OBVIOUS
<1>5. m \in Nat /\ Len(r) = m + 2
  <2>1. c \in [0..n -> Nat] /\ Len(r) = c[n] + 2
    BY <1>3, Zenon DEF LinesIn
  <2>2. n \in 0..n
    OBVIOUS
  <2> QED
    BY <1>4, <2>1, <2>2, Zenon
<1>6. PICK s : LinesOf(s, r, n, c)
  BY Zenon DEF LinesOf
<1>7. SplitStr(s, EOL) = lines
  BY <1>1, <1>3, <1>6, LinesFound, Zenon
<1>8. PICK what : what = EOL \o EOL
  OBVIOUS
<1>9. Find(r, what, 1) = m - 1 /\ m - 2 \in Nat
  BY <1>3, <1>4, <1>8, EmptyLineFound, Zenon
<1>10. m - 1 # 0 /\ (m - 1) - 1 = m - 2 /\ (m + 2) - 3 = m - 1
  BY <1>5, <1>9
<1>11. FetchHsElement(r) = ReadLines(SplitStr(SubSeq(r, 1, (m - 1) - 1), EOL), m - 1)
  BY <1>8, <1>9, <1>10, Zenon DEF FetchHsElement
<1>12. SubSeq(r, 1, (m - 1) - 1) = s
  BY <1>4, <1>6, <1>10, Zenon DEF LinesOf
<1>13. FetchHsElement(r) = ReadLines(lines, (m + 2) - 3)
  BY <1>7, <1>10, <1>11, <1>12, Zenon
<1>14. m + 2 \in Nat
  BY <1>5
<1> QED
  BY <1>5, <1>13, <1>14, Zenon


(***************************************************************************)
(* The fields of a request                                                 *)
(***************************************************************************)

LEMMA NothingIn ==
  ASSUME NEW S, NEW t \in Seq(S), Len(t) = 0
  PROVE  t = <<>>
OBVIOUS

\* t is the part of s behind position a.
PartAt(s, t, a, r) ==
  r = a + Len(t) /\ r <= Len(s) /\ \A i \in 1..Len(t) : s[a + i] = t[i]

StandsBehind(s, t, a, r) == SubSeq(s, a + 1, r) = t

LEMMA BehindIs ==
  ASSUME NEW S, NEW s \in Seq(S), NEW t \in Seq(S), NEW a \in Nat, NEW r \in Nat,
         PartAt(s, t, a, r)
  PROVE  StandsBehind(s, t, a, r)
<1>1. PICK d, n : d = SubSeq(s, a + 1, r) /\ n = Len(t)
  OBVIOUS
<1>2. /\ n \in Nat /\ a <= r /\ r - a = n /\ r <= Len(s)
      /\ \A i \in 1..n : s[a + i] = t[i]
  BY <1>1 DEF PartAt
<1>3. d \in Seq(S) /\ Len(d) = r - a /\ \A i \in 1..(r - a) : d[i] = s[a + i]
  BY <1>1, <1>2, BytesBetween
<1>4. Len(d) = n /\ \A i \in 1..n : d[i] = t[i]
  BY <1>1, <1>2, <1>3, Zenon
<1>5. d = t
  BY <1>1, <1>3, <1>4, SeqEqual, Zenon
<1> QED
  BY <1>1, <1>5, Zenon DEF StandsBehind

LEMMA BlanksAre ==
  ASSUME NEW n \in Nat
  PROVE  Blanks(n) \in Seq(Bytes) /\ Len(Blanks(n)) = n /\ \A i \in 1..n : Blanks(n)[i] = 32
<1>1. 32 \in Bytes
  BY DEF Bytes
<1> QED
  BY <1>1 DEF Blanks

\* s is t with blanks in front of it, a of them, and behind it.
BlanksAround(s, t, a, b) ==
  /\ s \in Seq(Bytes) /\ Len(s) = a + Len(t) + b
  /\ \A i \in 1..a : s[i] = 32
  /\ \A i \in 1..Len(t) : s[a + i] = t[i]
  /\ \A i \in 1..b : s[(a + Len(t)) + i] = 32

LEMMA BlanksStandAround ==
  ASSUME NEW t \in Seq(Bytes), NEW a \in Nat, NEW b \in Nat,
         NEW s, s = Blanks(a) \o t \o Blanks(b)
  PROVE  BlanksAround(s, t, a, b)
<1>1. PICK n \in Nat : n = Len(t)
  BY LenProperties
<1>2. PICK x, y, u : x = Blanks(a) /\ y = Blanks(b) /\ u = x \o t
  OBVIOUS
<1>3. /\ x \in Seq(Bytes) /\ Len(x) = a /\ \A i \in 1..a : x[i] = 32
      /\ y \in Seq(Bytes) /\ Len(y) = b /\ \A i \in 1..b : y[i] = 32
  BY <1>2, BlanksAre, Zenon
<1>4. u \in Seq(Bytes) /\ Joins(u, x, t)
  BY <1>2, <1>3, ConcatJoins, Zenon
<1>5. s \in Seq(Bytes) /\ Joins(s, u, y)
  <2>1. s = u \o y
    BY <1>2, Zenon
  <2> QED
    BY <1>3, <1>4, <2>1, ConcatJoins, Zenon
<1>6. Len(u) = a + n /\ (\A i \in 1..a : u[i] = x[i]) /\ \A i \in 1..n : u[a + i] = t[i]
  BY <1>1, <1>3, <1>4, Zenon DEF Joins
<1>7. /\ Len(s) = (a + n) + b /\ \A i \in 1..(a + n) : s[i] = u[i]
      /\ \A i \in 1..b : s[(a + n) + i] = y[i]
  BY <1>3, <1>5, <1>6, Zenon DEF Joins
<1>8. \A i \in 1..a : s[i] = 32
  <2>1. \A i \in 1..a : i \in 1..(a + n)
    OBVIOUS
  <2> QED
    BY <1>3, <1>6, <1>7, <2>1, Zenon
<1>9. \A i \in 1..n : s[a + i] = t[i]
  <2>1. \A i \in 1..n : a + i \in 1..(a + n)
    OBVIOUS
  <2> QED
    BY <1>6, <1>7, <2>1, Zenon
<1> QED
  BY <1>1, <1>3, <1>5, <1>7, <1>8, <1>9, ZenonT(60) DEF BlanksAround

\* trim takes the blanks away.
LEMMA TrimIs ==
  ASSUME NEW t \in Seq(Bytes), Stripped(t), NEW a \in Nat, NEW b \in Nat,
         NEW s, BlanksAround(s, t, a, b)
  PROVE  Trim(s, SP) = t
<1>1. PICK n \in Nat : n = Len(t)
  BY LenProperties
<1>2. PICK kept : kept = {i \in 1..Len(s) : s[i] # SP}
  OBVIOUS
<1>3. SP = 32
  BY DEF SP
<1>4. /\ s \in Seq(Bytes) /\ Len(s) = a + n + b
      /\ \A i \in 1..a : s[i] = 32
      /\ \A i \in 1..n : s[a + i] = t[i]
      /\ \A i \in 1..b : s[(a + n) + i] = 32
  BY <1>1, Zenon DEF BlanksAround
<1>5. ASSUME NEW i \in kept PROVE i \in (a + 1)..(a + n)
  <2>1. i \in 1..(a + n + b) /\ s[i] # 32
    BY <1>2, <1>3, <1>4
  <2>2. ~(i \in 1..a)
    BY <1>4, <2>1
  <2>3. i > a + n => i - (a + n) \in 1..b /\ (a + n) + (i - (a + n)) = i
    BY <2>1
  <2>4. ~(i > a + n)
    BY <1>4, <2>1, <2>3, ZenonT(60)
  <2> QED
    BY <2>1, <2>2, <2>4
<1>6. CASE n = 0
  <2>1. kept = {}
    <3>1. (a + 1)..(a + n) = {}
      BY <1>6
    <3> QED
      BY <1>5, <3>1
  <2>2. Trim(s, SP) = <<>>
    BY <1>2, <2>1, Zenon DEF Trim
  <2>3. t = <<>>
    BY <1>1, <1>6, NothingIn, Zenon
  <2> QED
    BY <2>2, <2>3
<1>7. CASE n > 0
  <2>1. t[1] # 32 /\ t[n] # 32
    <3>1. t # <<>>
      BY <1>1, <1>7
    <3> QED
      BY <1>1, <3>1, Zenon DEF Stripped
  <2>2. a + 1 \in kept /\ a + n \in kept
    <3>1. /\ 1 \in 1..n /\ n \in 1..n
          /\ a + 1 \in 1..Len(s) /\ a + n \in 1..Len(s)
      BY <1>4, <1>7
    <3>2. s[a + 1] # 32 /\ s[a + n] # 32
      BY <1>4, <2>1, <3>1, Zenon
    <3> QED
      BY <1>2, <1>3, <3>1, <3>2, Zenon
  <2>3. PICK f : f = CHOOSE i \in kept : \A j \in kept : i <= j
    OBVIOUS
  <2>4. f = a + 1
    <3>1. \A j \in kept : a + 1 <= j
      BY <1>5
    <3>2. f \in kept /\ \A j \in kept : f <= j
      BY <2>2, <2>3, <3>1, Zenon
    <3>3. f \in Int /\ f <= a + 1 /\ a + 1 <= f
      BY <1>5, <2>2, <3>1, <3>2
    <3> QED
      BY <3>3
  <2>5. PICK g : g = CHOOSE i \in kept : \A j \in kept : j <= i
    OBVIOUS
  <2>6. g = a + n
    <3>1. \A j \in kept : j <= a + n
      BY <1>5
    <3>2. g \in kept /\ \A j \in kept : j <= g
      BY <2>2, <2>5, <3>1, Zenon
    <3>3. g \in Int /\ g <= a + n /\ a + n <= g
      BY <1>5, <2>2, <3>1, <3>2
    <3> QED
      BY <3>3
  <2>7. Trim(s, SP) = SubSeq(s, a + 1, a + n)
    <3>1. kept # {}
      BY <2>2
    <3>2. Trim(s, SP) = SubSeq(s, f, g)
      BY <1>2, <2>3, <2>5, <3>1, Zenon DEF Trim
    <3> QED
      BY <2>4, <2>6, <3>2, Zenon
  <2>8. SubSeq(s, a + 1, a + n) = t
    <3>1. PICK r \in Nat : r = a + n /\ r = a + Len(t) /\ r <= Len(s)
      BY <1>1, <1>4
    <3>2. PartAt(s, t, a, r)
      BY <1>1, <1>4, <3>1, Zenon DEF PartAt
    <3> QED
      BY <1>4, <3>1, <3>2, BehindIs, Zenon DEF StandsBehind
  <2> QED
    BY <2>7, <2>8, Zenon
<1> QED
  BY <1>6, <1>7

LEMMA Regroup ==
  ASSUME NEW S, NEW s \in Seq(S), NEW t \in Seq(S), NEW u \in Seq(S), NEW v, v = (s \o t) \o u
  PROVE  v = s \o (t \o u)
BY ConcatAssociative

IsRegrouped(v, s, t, u, w) == \E right : right = (t \o u) \o w /\ v = s \o right

LEMMA RegroupAll ==
  ASSUME NEW S, NEW s \in Seq(S), NEW t \in Seq(S), NEW u \in Seq(S), NEW w \in Seq(S),
         NEW v, v = ((s \o t) \o u) \o w
  PROVE  IsRegrouped(v, s, t, u, w)
<1>1. PICK p, q : p = t \o u /\ q = (s \o t) \o u
  OBVIOUS
<1>2. p \in Seq(S)
  BY <1>1, ConcatProperties, Zenon
<1>3. q = s \o p
  BY <1>1, Regroup, SMTT(60)
<1>4. v = (s \o p) \o w
  BY <1>1, <1>3
<1>5. v = s \o (p \o w)
  BY <1>2, <1>4, Regroup, SMTT(60)
<1> QED
  BY <1>1, <1>5, Zenon DEF IsRegrouped

\* A line is what stands in front of the colon, and what stands behind it.
SaysAround(line, f, a, b, c, d) ==
  \E left, right : /\ BlanksAround(left, f.name, a, b)
                   /\ BlanksAround(right, f.value, c, d)
                   /\ line = left \o <<58>> \o right

LEMMA FieldLineIs ==
  ASSUME NEW f \in HeaderFields, NEW a \in Nat, NEW b \in Nat, NEW c \in Nat, NEW d \in Nat,
         NEW line, line = FieldLine(f, a, b, c, d)
  PROVE  SaysAround(line, f, a, b, c, d)
<1>1. /\ f.name \in Seq(Bytes) /\ f.value \in Seq(Bytes) /\ <<58>> \in Seq(Bytes)
  <2>1. f.name \in Seq(0..255) /\ f.value \in Seq(0..255) /\ <<58>> \in Seq(0..255)
    BY SMTT(60) DEF HeaderFields
  <2> QED
    BY <2>1, Zenon DEF Bytes
<1>2. PICK left, right, x, y, z, w :
        /\ left = Blanks(a) \o f.name \o Blanks(b) /\ right = Blanks(c) \o f.value \o Blanks(d)
        /\ x = left \o <<58>> /\ y = Blanks(c) /\ z = f.value /\ w = Blanks(d)
  OBVIOUS
<1>3. BlanksAround(left, f.name, a, b) /\ BlanksAround(right, f.value, c, d)
  BY <1>1, <1>2, BlanksStandAround, Zenon
<1>4. x \in Seq(Bytes) /\ y \in Seq(Bytes) /\ z \in Seq(Bytes) /\ w \in Seq(Bytes)
  <2>1. left \in Seq(Bytes)
    BY <1>3, Zenon DEF BlanksAround
  <2>2. x \in Seq(Bytes)
    BY <1>1, <1>2, <2>1, ConcatProperties, Zenon
  <2> QED
    BY <1>1, <1>2, <2>2, BlanksAre, Zenon
<1>5. line = ((x \o y) \o z) \o w
  BY <1>2, Zenon DEF FieldLine
<1>6. IsRegrouped(line, x, y, z, w)
  BY <1>4, <1>5, RegroupAll, Zenon
<1>7. line = x \o right
  BY <1>2, <1>6, Zenon DEF IsRegrouped
<1> QED
  BY <1>2, <1>3, <1>7, Zenon DEF SaysAround

\* The colon is the first there is.
LEMMA NoColonBefore ==
  ASSUME NEW f \in HeaderFields, NEW a \in Nat, NEW b \in Nat,
         NEW left, BlanksAround(left, f.name, a, b), NEW i \in 1..Len(left)
  PROVE  left[i] # 58
<1>1. PICK t : t = f.name
  OBVIOUS
<1>2. PICK n \in Nat : n = Len(t) /\ \A j \in 1..n : t[j] # 58
  <2>1. t \in Seq((0..255) \ {13, 10, 58})
    BY <1>1 DEF HeaderFields
  <2> QED
    BY <2>1
<1>3. /\ Len(left) = a + n + b
      /\ \A j \in 1..a : left[j] = 32
      /\ \A j \in 1..n : left[a + j] = t[j]
      /\ \A j \in 1..b : left[(a + n) + j] = 32
  BY <1>1, <1>2, Zenon DEF BlanksAround
<1>4. i \in 1..(a + n + b)
  BY <1>3
<1>5. CASE i <= a
  BY <1>3, <1>4, <1>5
<1>6. CASE i > a /\ i <= a + n
  <2>1. i - a \in 1..n /\ a + (i - a) = i
    BY <1>4, <1>6
  <2>2. left[a + (i - a)] = t[i - a] /\ t[i - a] # 58
    BY <1>2, <1>3, <2>1, Zenon
  <2> QED
    BY <2>1, <2>2, Zenon
<1>7. CASE i > a + n
  <2>1. i - (a + n) \in 1..b /\ (a + n) + (i - (a + n)) = i
    BY <1>4, <1>7
  <2>2. left[i] = 32
    BY <1>3, <2>1, ZenonT(60)
  <2> QED
    BY <2>2
<1> QED
  BY <1>4, <1>5, <1>6, <1>7

\* What the code reads in a line is what the client says in it.
LEMMA HeaderFieldIs ==
  ASSUME NEW line \in Lines, NEW f \in HeaderFields, SaysField(line, f)
  PROVE  HeaderField(line) = f
<1>1. PICK m \in Nat : m = Len(line) /\ line \in Seq(Bytes)
  BY LineIsBytes
<1>2. PICK colon \in Seq(Bytes) : colon = <<COLON>> /\ Len(colon) = 1 /\ colon[1] = 58
  <2>1. <<58>> \in Seq(Bytes) /\ Len(<<58>>) = 1 /\ <<58>>[1] = 58
    BY DEF Bytes
  <2>2. <<COLON>> = <<58>>
    BY DEF COLON
  <2> QED
    BY <2>1, <2>2, Zenon
<1>3. PICK pos : pos = Find(line, colon, 1)
  OBVIOUS
<1>4. HeaderField(line) =
        [name  |-> Trim(SubSeq(line, 1, pos - 1), SP),
         value |-> IF pos = 0 THEN <<>> ELSE Trim(SubSeq(line, pos + 1, Len(line)), SP)]
  BY <1>2, <1>3, Zenon DEF HeaderField
<1>5. 1 \in Nat \ {0}
  OBVIOUS
<1>6. \A i \in 1..m : StandsAt(line, colon, i) <=> line[i] = 58
  <2> TAKE i \in 1..m
  <2>1. \A j \in 1..1 : j = 1 /\ i + j - 1 = i
    OBVIOUS
  <2>2. 1 \in 1..1
    OBVIOUS
  <2> QED
    BY <1>2, <2>1, <2>2, ZenonT(60) DEF StandsAt
<1>7. Len(line) + 1 - Len(colon) = m
  <2>1. m + 1 - 1 = m
    OBVIOUS
  <2> QED
    BY <1>1, <1>2, <2>1, Zenon
<1>8. CASE f = NoField /\ \A i \in 1..Len(line) : line[i] # 58
  <2>1. pos = 0
    <3>1. \A i \in 1..(Len(line) + 1 - Len(colon)) : ~StandsAt(line, colon, i)
      BY <1>1, <1>6, <1>7, <1>8, ZenonT(60)
    <3> QED
      BY <1>1, <1>2, <1>3, <1>5, <3>1, NotFound, Zenon
  <2>2. SubSeq(line, 1, pos - 1) = <<>>
    <3>1. 1 \in Int /\ pos - 1 \in Int /\ pos - 1 < 1
      BY <2>1
    <3> QED
      BY <3>1, SubSeqEmpty, Zenon
  <2>3. Trim(<<>>, SP) = <<>>
    <3>1. Len(<<>>) = 0 /\ 1..0 = {}
      OBVIOUS
    <3>2. {i \in 1..Len(<<>>) : <<>>[i] # SP} = {}
      BY <3>1, Zenon
    <3> QED
      BY <3>2, Zenon DEF Trim
  <2>4. HeaderField(line) = [name |-> <<>>, value |-> <<>>]
    BY <1>4, <2>1, <2>2, <2>3, Zenon
  <2> QED
    BY <1>8, <2>4, Zenon DEF NoField
<1>9. CASE /\ Stripped(f.name) /\ Stripped(f.value)
           /\ \E a, b, c, d \in 0..Len(line) : line = FieldLine(f, a, b, c, d)
  <2>1. PICK a, b, c, d \in 0..m : line = FieldLine(f, a, b, c, d)
    BY <1>1, <1>9, Zenon
  <2>2. a \in Nat /\ b \in Nat /\ c \in Nat /\ d \in Nat
    OBVIOUS
  <2>3. PICK left, right : /\ BlanksAround(left, f.name, a, b)
                           /\ BlanksAround(right, f.value, c, d)
                           /\ line = left \o <<58>> \o right
    <3>1. SaysAround(line, f, a, b, c, d)
      BY <2>1, <2>2, FieldLineIs, Zenon
    <3> QED
      BY <3>1, Zenon DEF SaysAround
  <2>4. f.name \in Seq(Bytes) /\ f.value \in Seq(Bytes)
    <3>1. f.name \in Seq(0..255) /\ f.value \in Seq(0..255)
      BY DEF HeaderFields
    <3> QED
      BY <3>1, Zenon DEF Bytes
  <2>5. Trim(left, SP) = f.name /\ Trim(right, SP) = f.value
    BY <1>9, <2>2, <2>3, <2>4, TrimIs, Zenon
  <2>6. left \in Seq(Bytes) /\ right \in Seq(Bytes)
    BY <2>3, Zenon DEF BlanksAround
  <2>7. PICK l \in Nat, r \in Nat : l = Len(left) /\ r = Len(right)
    BY <2>6, LenProperties
  <2>8. PICK x : x = left \o colon
    OBVIOUS
  <2>9. x \in Seq(Bytes) /\ Joins(x, left, colon)
    BY <1>2, <2>6, <2>8, ConcatJoins, Zenon
  <2>10. Joins(line, x, right)
    <3>1. line = x \o right
      BY <1>2, <2>3, <2>8, Zenon DEF COLON
    <3> QED
      BY <2>6, <2>9, <3>1, ConcatJoins, Zenon
  <2>11. Len(x) = l + 1 /\ (\A i \in 1..l : x[i] = left[i]) /\ x[l + 1] = 58
    <3>1. 1 \in 1..1
      OBVIOUS
    <3> QED
      BY <1>2, <2>7, <2>9, <3>1, Zenon DEF Joins
  <2>12. /\ m = (l + 1) + r /\ \A i \in 1..(l + 1) : line[i] = x[i]
         /\ \A i \in 1..r : line[(l + 1) + i] = right[i]
    BY <1>1, <2>7, <2>10, <2>11, Zenon DEF Joins
  <2>13. l + 1 \in 1..m /\ l + 1 \in 1..(l + 1) /\ \A i \in 1..l : i \in 1..(l + 1) /\ i \in 1..m
    BY <2>12
  <2>14. line[l + 1] = 58 /\ \A i \in 1..l : line[i] = left[i]
    BY <2>11, <2>12, <2>13, Zenon
  <2>15. pos = l + 1
    <3>1. StandsAt(line, colon, l + 1)
      BY <1>6, <2>13, <2>14, Zenon
    <3>2. ASSUME NEW i \in 1..((l + 1) - 1) PROVE ~StandsAt(line, colon, i)
      <4>1. i \in 1..l
        OBVIOUS
      <4>2. left[i] # 58
        <5>1. BlanksAround(left, f.name, a, b) /\ a \in Nat /\ b \in Nat
          BY <2>2, <2>3, Zenon
        <5>2. i \in 1..Len(left)
          BY <2>7, <4>1, Zenon
        <5> QED
          BY <5>1, <5>2, NoColonBefore, SMT
      <4> QED
        BY <1>6, <2>13, <2>14, <4>1, <4>2, Zenon
    <3>3. l + 1 \in 1..(Len(line) + 1 - Len(colon))
      BY <1>7, <2>13, Zenon
    <3> QED
      BY <1>1, <1>2, <1>3, <1>5, <3>1, <3>2, <3>3, FoundAt, Zenon
  <2>16. SubSeq(line, 1, pos - 1) = left
    <3>1. /\ 0 \in Nat /\ 0 + 1 = 1 /\ l = 0 + l /\ l <= m /\ (l + 1) - 1 = l
          /\ \A i \in 1..l : 0 + i = i
      BY <2>12
    <3>2. PartAt(line, left, 0, l)
      BY <1>1, <2>7, <2>14, <3>1, Zenon DEF PartAt
    <3>3. StandsBehind(line, left, 0, l)
      BY <1>1, <2>6, <2>7, <3>1, <3>2, BehindIs, Zenon
    <3> QED
      BY <2>15, <3>1, <3>3, Zenon DEF StandsBehind
  <2>17. SubSeq(line, pos + 1, Len(line)) = right
    <3>1. m <= m
      OBVIOUS
    <3>2. PICK k \in Nat : k = l + 1
      OBVIOUS
    <3>3. PartAt(line, right, k, m)
      BY <1>1, <2>7, <2>12, <3>1, <3>2, Zenon DEF PartAt
    <3>4. StandsBehind(line, right, k, m)
      BY <1>1, <2>6, <3>2, <3>3, BehindIs, Zenon
    <3> QED
      BY <1>1, <2>15, <3>2, <3>4, Zenon DEF StandsBehind
  <2>18. pos # 0
    BY <2>15
  <2>19. HeaderField(line) = [name |-> f.name, value |-> f.value]
    BY <1>4, <2>5, <2>16, <2>17, <2>18, Zenon
  <2>20. f = [name |-> f.name, value |-> f.value]
    BY DEF HeaderFields
  <2> QED
    BY <2>19, <2>20, Zenon
<1> QED
  BY <1>8, <1>9, Zenon DEF SaysField


TheByte(what, c) == what \in Seq(Bytes) /\ Len(what) = 1 /\ what[1] = c

LEMMA ByteStands ==
  ASSUME NEW s, NEW c, NEW what, TheByte(what, c), NEW i \in Nat
  PROVE  StandsAt(s, what, i) <=> s[i] = c
<1>1. \A j \in 1..1 : j = 1 /\ i + j - 1 = i
  OBVIOUS
<1>2. 1 \in 1..1
  OBVIOUS
<1> QED
  BY <1>1, <1>2, Zenon DEF StandsAt, TheByte

\* Where a byte is found, and that it is not
LEMMA ByteFound ==
  ASSUME NEW s \in Seq(Bytes), NEW c, NEW what, TheByte(what, c), NEW from \in Nat \ {0},
         NEW x \in from..Len(s), s[x] = c, \A i \in from..(x - 1) : s[i] # c
  PROVE  Find(s, what, from) = x
<1>1. PICK n \in Nat : n = Len(s)
  BY LenProperties
<1>2. what \in Seq(Bytes) /\ Len(what) = 1
  BY Zenon DEF TheByte
<1>3. x \in from..(Len(s) + 1 - Len(what))
  <2>1. n + 1 - 1 = n
    OBVIOUS
  <2> QED
    BY <1>1, <1>2, <2>1, Zenon
<1>4. x \in Nat /\ \A i \in from..(x - 1) : i \in Nat
  BY <1>1
<1>5. StandsAt(s, what, x)
  BY <1>4, ByteStands, Zenon
<1>6. \A i \in from..(x - 1) : ~StandsAt(s, what, i)
  BY <1>4, ByteStands, Zenon
<1> QED
  BY <1>2, <1>3, <1>5, <1>6, FoundAt, Zenon

LEMMA ByteNotFound ==
  ASSUME NEW s \in Seq(Bytes), NEW c, NEW what, TheByte(what, c), NEW from \in Nat \ {0},
         \A i \in from..Len(s) : s[i] # c
  PROVE  Find(s, what, from) = 0
<1>1. PICK n \in Nat : n = Len(s)
  BY LenProperties
<1>2. what \in Seq(Bytes) /\ Len(what) = 1
  BY Zenon DEF TheByte
<1>3. Len(s) + 1 - Len(what) = Len(s)
  <2>1. n + 1 - 1 = n
    OBVIOUS
  <2> QED
    BY <1>1, <1>2, <2>1, Zenon
<1>4. \A i \in from..n : i \in Nat
  OBVIOUS
<1>5. \A i \in from..(Len(s) + 1 - Len(what)) : ~StandsAt(s, what, i)
  BY <1>1, <1>3, <1>4, ByteStands, Zenon
<1> QED
  BY <1>2, <1>5, NotFound, Zenon

LEMMA ThreeParts ==
  ASSUME NEW x, NEW y, NEW z, NEW u, u = <<x>> \o (<<y>> \o <<z>>)
  PROVE  Len(u) = 3
OBVIOUS

\* A request line begins and ends with a word, and has three of them.
LEMMA RequestLineIs ==
  ASSUME NEW line \in Lines, IsRequestLine(line)
  PROVE  Trim(line, SP) = line /\ line # <<>> /\ Len(SplitStr(line, <<SP>>)) = 3
<1>1. PICK m \in Nat : m = Len(line) /\ line \in Seq(Bytes) /\ m > 0
  BY LineIsBytes
<1>2. PICK i, j \in 2..(m - 1) : i + 1 < j /\ {k \in 1..m : line[k] = 32} = {i, j}
  BY <1>1, Zenon DEF IsRequestLine
<1>3. \A k \in 1..m : line[k] = 32 <=> k \in {i, j}
  BY <1>2, Zenon
<1>4. PICK sp : sp = <<SP>> /\ TheByte(sp, 32)
  <2>1. <<32>> \in Seq(Bytes) /\ Len(<<32>>) = 1 /\ <<32>>[1] = 32
    BY DEF Bytes
  <2>2. <<SP>> = <<32>>
    BY DEF SP
  <2> QED
    BY <2>1, <2>2, Zenon DEF TheByte
<1>5. Stripped(line)
  <2>1. 1 \in 1..m /\ m \in 1..m /\ ~(1 \in {i, j}) /\ ~(m \in {i, j})
    BY <1>1, <1>2
  <2>2. line[1] # 32 /\ line[m] # 32
    BY <1>3, <2>1, Zenon
  <2> QED
    BY <1>1, <2>2, Zenon DEF Stripped
<1>6. BlanksAround(line, line, 0, 0)
  <2>1. 0 + m + 0 = m /\ 1..0 = {} /\ \A k \in 1..m : 0 + k = k
    OBVIOUS
  <2> QED
    BY <1>1, <2>1, Zenon DEF BlanksAround
<1>7. Trim(line, SP) = line
  <2>1. 0 \in Nat
    OBVIOUS
  <2> QED
    BY <1>1, <1>5, <1>6, <2>1, TrimIs, Zenon
<1>8. line # <<>>
  BY <1>1
<1>9. Find(line, sp, 1) = i
  <2>1. 1 \in Nat \ {0} /\ i \in 1..m /\ \A k \in 1..(i - 1) : k \in 1..m /\ ~(k \in {i, j})
    BY <1>2
  <2>2. line[i] = 32 /\ \A k \in 1..(i - 1) : line[k] # 32
    BY <1>3, <2>1, Zenon
  <2> QED
    BY <1>1, <1>4, <2>1, <2>2, ByteFound, ZenonT(60)
<1>10. Find(line, sp, i + 1) = j
  <2>1. PICK f \in Nat \ {0} : f = i + 1
    OBVIOUS
  <2>2. /\ j \in f..m /\ j \in 1..m
        /\ \A k \in f..(j - 1) : k \in 1..m /\ ~(k \in {i, j})
    BY <1>2, <2>1
  <2>3. line[j] = 32 /\ \A k \in f..(j - 1) : line[k] # 32
    BY <1>3, <2>2, Zenon
  <2>4. j \in f..Len(line)
    BY <1>1, <2>2, Zenon
  <2>5. Find(line, sp, f) = j
    BY <1>1, <1>4, <2>3, <2>4, ByteFound, ZenonT(60)
  <2> QED
    BY <2>1, <2>5, Zenon
<1>11. Find(line, sp, j + 1) = 0
  <2>1. j + 1 \in Nat \ {0} /\ \A k \in (j + 1)..m : k \in 1..m /\ ~(k \in {i, j})
    BY <1>2
  <2>2. \A k \in (j + 1)..m : line[k] # 32
    BY <1>3, <2>1, Zenon
  <2> QED
    BY <1>1, <1>4, <2>1, <2>2, ByteNotFound, Zenon
<1>12. sp \in Seq(Bytes) /\ Len(sp) = 1
  BY <1>4, Zenon DEF TheByte
<1>13. PICK rest : /\ rest[1] = SplitStr(line, sp)
                   /\ \A k \in 1..(m + 1) : SplitsAt(rest, line, sp, k)
  <2>1. Len(sp) > 0
    BY <1>12
  <2> QED
    BY <1>1, <1>12, <2>1, SplitIs, Zenon
<1>14. /\ 1 \in 1..(m + 1) /\ i + 1 \in 1..(m + 1) /\ j + 1 \in 1..(m + 1)
       /\ i # 0 /\ j # 0 /\ j + 1 <= m
  BY <1>2
<1>15. PICK x : rest[1] = <<x>> \o rest[i + 1]
  BY <1>9, <1>12, <1>13, <1>14, Zenon DEF SplitsAt
<1>16. PICK y : rest[i + 1] = <<y>> \o rest[j + 1]
  BY <1>10, <1>12, <1>13, <1>14, Zenon DEF SplitsAt
<1>17. PICK z : rest[j + 1] = <<z>>
  BY <1>1, <1>11, <1>12, <1>13, <1>14, Zenon DEF SplitsAt
<1>18. rest[1] = <<x>> \o (<<y>> \o <<z>>)
  BY <1>15, <1>16, <1>17, Zenon
<1>19. Len(rest[1]) = 3
  BY <1>18, ThreeParts, Zenon
<1> QED
  BY <1>4, <1>7, <1>8, <1>13, <1>19, Zenon

\* Nothing is left of a line of blanks.
LEMMA BlanksVanish ==
  ASSUME NEW n \in Nat, NEW s, s = Blanks(n)
  PROVE  Trim(s, SP) = <<>>
<1>1. Len(s) = n /\ \A i \in 1..n : s[i] = 32
  BY BlanksAre, Zenon
<1>2. SP = 32
  BY DEF SP
<1>3. {i \in 1..Len(s) : s[i] # SP} = {}
  BY <1>1, <1>2, Zenon
<1> QED
  BY <1>3, Zenon DEF Trim

LEMMA LastExists ==
  ASSUME NEW n \in Nat, NEW T \in SUBSET (1..n), T # {}
  PROVE  \E i \in T : \A j \in T : j <= i
<1> DEFINE U == {n - i : i \in T}
<1>1. U \in SUBSET Nat /\ U # {}
  <2>1. \A i \in T : n - i \in Nat
    OBVIOUS
  <2>2. PICK i : i \in T
    OBVIOUS
  <2>3. n - i \in U
    BY <2>2
  <2> QED
    BY <2>1, <2>3
<1>2. PICK u \in U : \A v \in U : u <= v
  BY <1>1, FirstExists
<1>3. PICK i \in T : u = n - i
  OBVIOUS
<1>4. \A j \in T : j <= i
  <2> TAKE j \in T
  <2>1. n - j \in U
    OBVIOUS
  <2>2. n - i <= n - j
    BY <1>2, <1>3, <2>1
  <2>3. i \in 1..n /\ j \in 1..n
    OBVIOUS
  <2> QED
    BY <2>2, <2>3
<1> QED
  BY <1>4

\* Of n fields, the last one that says something with the name is at i; none does.
SaysIt(fields, name, i) == fields[i].name = name /\ fields[i].value # <<>>

LastSaying(fields, n, name, i) ==
  /\ i \in 1..n /\ SaysIt(fields, name, i)
  /\ \A j \in 1..n : SaysIt(fields, name, j) => j <= i

NoSaying(fields, n, name) == \A i \in 1..n : ~SaysIt(fields, name, i)

LEMMA SaidOrNot ==
  ASSUME NEW fields, NEW n \in Nat, NEW name
  PROVE  NoSaying(fields, n, name) \/ \E i : LastSaying(fields, n, name, i)
<1> DEFINE T == {i \in 1..n : SaysIt(fields, name, i)}
<1>1. CASE T = {}
  BY <1>1, Zenon DEF NoSaying
<1>2. CASE T # {}
  <2>1. PICK i \in T : \A j \in T : j <= i
    BY <1>2, LastExists, Zenon
  <2>2. LastSaying(fields, n, name, i)
    BY <2>1, Zenon DEF LastSaying
  <2> QED
    BY <2>2, Zenon
<1> QED
  BY <1>1, <1>2, Zenon

\* Where the last saying is, no other can be.
LEMMA LastIsOne ==
  ASSUME NEW fields, NEW n \in Nat, NEW name, NEW i, NEW j,
         LastSaying(fields, n, name, i), LastSaying(fields, n, name, j)
  PROVE  i = j
<1>1. i \in 1..n /\ j \in 1..n /\ i <= j /\ j <= i
  BY Zenon DEF LastSaying
<1> QED
  BY <1>1

LEMMA SaidIs ==
  ASSUME NEW fields, NEW n \in Nat, n = Len(fields), NEW name
  PROVE  /\ NoSaying(fields, n, name) => Said(fields, name) = <<>>
         /\ \A i : LastSaying(fields, n, name, i) => Said(fields, name) = fields[i].value
<1> DEFINE T == {i \in 1..Len(fields) : fields[i].name = name /\ fields[i].value # <<>>}
<1>1. Said(fields, name) =
        IF T = {} THEN <<>> ELSE fields[CHOOSE i \in T : \A j \in T : j <= i].value
  BY Zenon DEF Said
<1>2. \A i : i \in T <=> i \in 1..n /\ SaysIt(fields, name, i)
  BY Zenon DEF SaysIt
<1> HIDE DEF T
<1>4. ASSUME NoSaying(fields, n, name) PROVE Said(fields, name) = <<>>
  <2>1. T = {}
    BY <1>2, <1>4, Zenon DEF NoSaying
  <2> QED
    BY <1>1, <2>1, Zenon
<1>5. ASSUME NEW i, LastSaying(fields, n, name, i) PROVE Said(fields, name) = fields[i].value
  <2>1. i \in T /\ \A j \in T : j <= i
    BY <1>2, <1>5, Zenon DEF LastSaying
  <2>2. PICK k : k = CHOOSE ii \in T : \A j \in T : j <= ii
    OBVIOUS
  <2>3. k \in T /\ \A j \in T : j <= k
    BY <2>1, <2>2, Zenon
  <2>4. LastSaying(fields, n, name, k)
    BY <1>2, <2>3, Zenon DEF LastSaying
  <2>5. k = i
    BY <1>5, <2>4, LastIsOne, Zenon
  <2>6. T # {}
    BY <2>1, Zenon
  <2> QED
    BY <1>1, <2>2, <2>5, <2>6, Zenon
<1> QED
  BY <1>4, <1>5, Zenon

\* What is in params_ when the lines are read
FieldsOf(lines, fields, n) == n = Len(lines) /\ \A i \in 1..n : HeaderField(lines[i]) = fields[i]

ParamIs(params, fields, n, name) ==
  /\ NoSaying(fields, n, name) => name \notin DOMAIN params
  /\ \A i : LastSaying(fields, n, name, i) =>
              name \in DOMAIN params /\ params[name] = fields[i].value

LEMMA ParamsAre ==
  ASSUME NEW lines, NEW n \in Nat, NEW fields, FieldsOf(lines, fields, n), NEW name, name # <<>>
  PROVE  ParamIs(Params(lines), fields, n, name)
<1> DEFINE f == [i \in 1..Len(lines) |-> HeaderField(lines[i])]
           kept == {i \in 1..Len(lines) : f[i].name # <<>> /\ f[i].value # <<>>}
           last(nm) == CHOOSE i \in kept :
                         f[i].name = nm /\ \A j \in kept : f[j].name = nm => j <= i
<1>1. Params(lines) = [nm \in {f[i].name : i \in kept} |-> f[last(nm)].value]
  BY Zenon DEF Params
<1>2. n = Len(lines) /\ \A i \in 1..n : f[i] = fields[i]
  BY Zenon DEF FieldsOf
<1>3. \A nm : last(nm) = CHOOSE i \in kept :
                         f[i].name = nm /\ \A j \in kept : f[j].name = nm => j <= i
  OBVIOUS
<1> HIDE DEF f
<1>4. \A i : i \in kept <=> i \in 1..n /\ fields[i].name # <<>> /\ fields[i].value # <<>>
  BY <1>2, Zenon
<1> HIDE DEF kept, last
<1>6. DOMAIN Params(lines) = {f[i].name : i \in kept}
  BY <1>1, Zenon
<1>7. ASSUME NoSaying(fields, n, name) PROVE name \notin DOMAIN Params(lines)
  <2>1. \A i \in kept : f[i].name # name
    BY <1>2, <1>4, <1>7, Zenon DEF NoSaying, SaysIt
  <2> QED
    BY <1>6, <2>1, Zenon
<1>8. ASSUME NEW i, LastSaying(fields, n, name, i)
      PROVE  name \in DOMAIN Params(lines) /\ Params(lines)[name] = fields[i].value
  <2>1. i \in 1..n /\ fields[i].name = name /\ fields[i].value # <<>>
    BY <1>8, Zenon DEF LastSaying, SaysIt
  <2>2. i \in kept /\ f[i].name = name
    BY <1>2, <1>4, <2>1, Zenon
  <2>3. name \in DOMAIN Params(lines)
    BY <1>6, <2>2, Zenon
  <2>4. \A j \in kept : f[j].name = name => j <= i
    BY <1>2, <1>4, <1>8, Zenon DEF LastSaying, SaysIt
  <2>5. PICK k : k = last(name)
    OBVIOUS
  <2>6. k \in kept /\ f[k].name = name /\ \A j \in kept : f[j].name = name => j <= k
    BY <1>3, <2>2, <2>4, <2>5, Zenon
  <2>7. LastSaying(fields, n, name, k)
    BY <1>2, <1>4, <2>6, Zenon DEF LastSaying, SaysIt
  <2>8. k = i
    BY <1>8, <2>7, LastIsOne, Zenon
  <2>9. Params(lines)[name] = f[k].value
    BY <1>1, <1>6, <2>3, <2>5, Zenon
  <2> QED
    BY <1>2, <2>1, <2>3, <2>8, <2>9, Zenon
<1> QED
  BY <1>7, <1>8, Zenon DEF ParamIs

\* The code finds with a name what the client says with it.
Reads(params, fields) == \A s \in Strings : GetParam(params, s) = Said(fields, Text[s])

\* The fields are those of the lines in rest, behind the first ones that say nothing.
FieldsBehind(rest, fields, n, first) ==
  /\ n = Len(fields) /\ \A i \in 1..first : fields[i] = NoField
  /\ Len(rest) = n - first
  /\ \A i \in 1..(n - first) : HeaderField(rest[i]) = fields[first + i]

LEMMA ParamsRead ==
  ASSUME NEW rest, NEW fields, NEW n \in Nat, NEW first \in 0..n, FieldsBehind(rest, fields, n, first)
  PROVE  Reads(Params(rest), fields)
<1>0. /\ n = Len(fields) /\ \A i \in 1..first : fields[i] = NoField
      /\ Len(rest) = n - first
      /\ \A i \in 1..(n - first) : HeaderField(rest[i]) = fields[first + i]
  BY Zenon DEF FieldsBehind
<1>k. PICK k \in Nat : k = n - first
  OBVIOUS
<1>r. k = Len(rest) /\ \A i \in 1..k : HeaderField(rest[i]) = fields[first + i]
  BY <1>0, <1>k, Zenon
<1>1. SUFFICES ASSUME NEW s \in Strings PROVE GetParam(Params(rest), s) = Said(fields, Text[s])
  BY Zenon DEF Reads
<1>2. PICK name : name = Text[s] /\ name # <<>>
  BY HandshakeAssumption
<1>3. PICK g : g = [i \in 1..k |-> fields[first + i]]
  OBVIOUS
<1>4. \A i \in 1..k : g[i] = fields[first + i] /\ HeaderField(rest[i]) = g[i]
  BY <1>3, <1>r, Zenon
<1>p. ParamIs(Params(rest), g, k, name)
  <2>1. FieldsOf(rest, g, k)
    BY <1>4, <1>r, Zenon DEF FieldsOf
  <2> QED
    BY <1>2, <2>1, ParamsAre, Zenon
<1>5. \A i \in 1..k : SaysIt(g, name, i) <=> SaysIt(fields, name, first + i)
  BY <1>4, Zenon DEF SaysIt
<1>6. \A i \in 1..first : ~SaysIt(fields, name, i)
  <2>1. NoField.value = <<>>
    BY DEF NoField
  <2> QED
    BY <1>0, <2>1, Zenon DEF SaysIt
<1>7. \A j \in 1..n : j \in 1..first \/ (j - first \in 1..k /\ first + (j - first) = j)
  BY <1>k
<1>8. CASE NoSaying(g, k, name)
  <2>1. NoSaying(fields, n, name)
    <3> SUFFICES ASSUME NEW j \in 1..n, SaysIt(fields, name, j) PROVE FALSE
      BY Zenon DEF NoSaying
    <3>1. j - first \in 1..k /\ first + (j - first) = j
      BY <1>6, <1>7, Zenon
    <3>2. SaysIt(g, name, j - first)
      BY <1>5, <3>1, Zenon
    <3> QED
      BY <1>8, <3>1, <3>2, Zenon DEF NoSaying
  <2>2. Said(fields, name) = <<>>
    BY <1>0, <2>1, SaidIs, Zenon
  <2>3. name \notin DOMAIN Params(rest)
    BY <1>2, <1>8, <1>p, Zenon DEF ParamIs
  <2> QED
    BY <1>2, <2>2, <2>3, Zenon DEF GetParam
<1>9. ASSUME NEW i, LastSaying(g, k, name, i)
      PROVE  GetParam(Params(rest), s) = Said(fields, Text[s])
  <2>1. i \in 1..k /\ SaysIt(g, name, i)
    BY <1>9, Zenon DEF LastSaying
  <2>2. first + i \in 1..n
    BY <1>k, <2>1
  <2>3. ASSUME NEW j \in 1..n, SaysIt(fields, name, j) PROVE j <= first + i
    <3>1. j - first \in 1..k /\ first + (j - first) = j
      BY <1>6, <1>7, <2>3, Zenon
    <3>2. j - first <= i
      <4>1. SaysIt(g, name, j - first)
        BY <1>5, <2>3, <3>1, Zenon
      <4> QED
        BY <1>9, <3>1, <4>1, Zenon DEF LastSaying
    <3> QED
      BY <1>k, <2>1, <3>1, <3>2
  <2>4. LastSaying(fields, n, name, first + i)
    BY <1>5, <2>1, <2>2, <2>3, Zenon DEF LastSaying
  <2>5. Said(fields, name) = fields[first + i].value
    BY <1>0, <2>4, SaidIs, ZenonT(60)
  <2>6. name \in DOMAIN Params(rest) /\ Params(rest)[name] = g[i].value
    BY <1>2, <1>9, <1>p, Zenon DEF ParamIs
  <2> QED
    BY <1>2, <1>4, <2>1, <2>5, <2>6, Zenon DEF GetParam
<1> QED
  BY <1>8, <1>9, SaidOrNot, Zenon

\* fetch_hs_element finds in the lines of such a request what the client says in
\* them.
LEMMA RequestSaid ==
  ASSUME NEW lines, NEW fields, SaysRequest(lines, fields), NEW e
  PROVE  \E params : /\ ReadLines(lines, e) = [size |-> e + 3, overrun |-> FALSE, params |-> params]
                     /\ Reads(params, fields)
<1>1. PICK n \in Nat : n = Len(lines) /\ n = Len(fields) /\ n >= 2
  <2>1. lines \in Seq(Lines) /\ Len(fields) = Len(lines) /\ Len(lines) >= 2
    BY Zenon DEF SaysRequest
  <2>2. Len(lines) \in Nat
    BY <2>1, LenProperties
  <2> QED
    BY <2>1, <2>2
<1>2. PICK first \in 1..n :
        /\ \A i \in 1..(first - 1) : lines[i] = Blanks(Len(lines[i]))
        /\ IsRequestLine(lines[first])
        /\ \A i \in 1..n :
             IF i <= first THEN fields[i] = NoField ELSE SaysField(lines[i], fields[i])
  BY <1>1, Zenon DEF SaysRequest
<1>3. lines \in Seq(Lines) /\ \A i \in 1..n : lines[i] \in Lines /\ fields[i] \in HeaderFields
  <2>1. lines \in Seq(Lines) /\ fields \in Seq(HeaderFields)
    BY Zenon DEF SaysRequest
  <2>2. \A i \in 1..n : lines[i] \in Lines
    BY <1>1, <2>1, ElementOfSeq, Zenon
  <2>3. \A i \in 1..n : fields[i] \in HeaderFields
    BY <1>1, <2>1, ElementOfSeq, Zenon
  <2> QED
    BY <2>1, <2>2, <2>3, Zenon
<1>4. /\ Trim(lines[first], SP) = lines[first] /\ lines[first] # <<>>
      /\ Len(SplitStr(lines[first], <<SP>>)) = 3
  BY <1>2, <1>3, RequestLineIs, Zenon
<1>5. \A i \in 1..(first - 1) : Trim(lines[i], SP) = <<>>
  <2> TAKE i \in 1..(first - 1)
  <2>1. i \in 1..n
    OBVIOUS
  <2>2. Len(lines[i]) \in Nat
    BY <1>3, <2>1, LineIsBytes, Zenon
  <2> QED
    BY <1>2, <2>2, BlanksVanish, Zenon
<1> DEFINE filled == {i \in 1..Len(lines) : Trim(lines[i], SP) # <<>>}
<1>6. ReadLines(lines, e) =
        IF Len(lines) < 2 THEN NoRequest
        ELSE IF filled = {} THEN [NoRequest EXCEPT !.overrun = TRUE]
        ELSE LET it == CHOOSE i \in filled : \A j \in filled : i <= j
             IN  IF Len(SplitStr(Trim(lines[it], SP), <<SP>>)) < 3 THEN NoRequest
                 ELSE [size |-> e + 3, overrun |-> FALSE,
                       params |-> Params(SubSeq(lines, it + 1, Len(lines)))]
  BY Zenon DEF ReadLines
<1>7. \A i : i \in filled <=> i \in 1..n /\ Trim(lines[i], SP) # <<>>
  BY <1>1, Zenon
<1> HIDE DEF filled
<1>8. first \in filled /\ \A i \in filled : i \in 1..n /\ ~(i \in 1..(first - 1))
  BY <1>4, <1>5, <1>7, Zenon
<1>9. PICK it : it = CHOOSE i \in filled : \A j \in filled : i <= j
  OBVIOUS
<1>10. it = first
  <2>1. \A i \in filled : first <= i
    BY <1>8
  <2>2. it \in filled /\ \A j \in filled : it <= j
    BY <1>8, <1>9, <2>1, Zenon
  <2>3. it \in Int /\ it <= first /\ first <= it
    BY <1>8, <2>1, <2>2
  <2> QED
    BY <2>3
<1>11. ~(3 < 3) /\ ~(n < 2)
  BY <1>1
<1>12. PICK rest : rest = SubSeq(lines, first + 1, n)
  OBVIOUS
<1>13. ReadLines(lines, e) = [size |-> e + 3, overrun |-> FALSE, params |-> Params(rest)]
  BY <1>1, <1>4, <1>6, <1>8, <1>9, <1>10, <1>11, <1>12, Zenon
<1>14. PICK k \in Nat : k = n - first
  OBVIOUS
<1>15. k = Len(rest) /\ \A i \in 1..k : rest[i] = lines[first + i]
  <2>1. n <= Len(lines) /\ first \in Nat /\ first <= n
    BY <1>1
  <2>2. \A d : d = SubSeq(lines, first + 1, n) =>
          Len(d) = n - first /\ \A i \in 1..(n - first) : d[i] = lines[first + i]
    BY <1>3, <2>1, BytesBetween
  <2> QED
    BY <1>12, <1>14, <2>2, Zenon
<1>16. \A i \in 1..k : HeaderField(rest[i]) = fields[first + i]
  <2> TAKE i \in 1..k
  <2>1. first + i \in 1..n /\ ~(first + i <= first)
    BY <1>14
  <2>2. SaysField(lines[first + i], fields[first + i])
    BY <1>2, <2>1, Zenon
  <2>3. HeaderField(lines[first + i]) = fields[first + i]
    BY <1>3, <2>1, <2>2, HeaderFieldIs, Zenon
  <2> QED
    BY <1>15, <2>3, Zenon
<1>17. \A i \in 1..first : fields[i] = NoField
  <2>1. \A i \in 1..first : i \in 1..n /\ i <= first
    OBVIOUS
  <2> QED
    BY <1>2, <2>1, Zenon
<1>18. first \in 0..n
  OBVIOUS
<1>19. Reads(Params(rest), fields)
  <2>1. FieldsBehind(rest, fields, n, first)
    BY <1>1, <1>14, <1>15, <1>16, <1>17, Zenon DEF FieldsBehind
  <2> QED
    BY <1>18, <2>1, ParamsRead, Zenon
<1> QED
  BY <1>13, <1>19, Zenon

\* And it accepts the request if and only if the client means it as a handshake.
LEMMA MeantIsAccepted ==
  ASSUME NEW params, NEW fields, Reads(params, fields)
  PROVE  ParamsAccepted(params) <=> MeansHandshake(fields, Text)
<1>1. /\ "Upgrade" \in Strings /\ "Connection" \in Strings
      /\ "Sec-WebSocket-Version" \in Strings /\ "Sec-WebSocket-Key" \in Strings
  BY DEF Strings
<1> QED
  BY <1>1, Zenon DEF Reads, ParamsAccepted, MeansHandshake

\* fetch_hs_element finds the request of a client where it ends, in it what the
\* client says, and reason to accept it if and only if the client means a handshake.
THEOREM RequestUnderstood ==
  ASSUME NEW lines, NEW fields, SaysRequest(lines, fields), NEW r, r = EncodeRequest(lines)
  PROVE  /\ r \in Seq(Bytes) /\ Len(r) > 0
         /\ \E params : /\ FetchHsElement(r) = [size |-> Len(r), overrun |-> FALSE, params |-> params]
                        /\ Reads(params, fields)
                        /\ ParamsAccepted(params) <=> MeansHandshake(fields, Text)
<1>1. lines \in Seq(Lines) /\ Len(lines) > 0
  <2>1. lines \in Seq(Lines) /\ Len(lines) >= 2
    BY Zenon DEF SaysRequest
  <2>2. Len(lines) \in Nat
    BY <2>1, LenProperties
  <2> QED
    BY <2>1, <2>2
<1>2. PICK m \in Nat : m = Len(r) /\ FetchHsElement(r) = ReadLines(lines, m - 3)
  BY <1>1, RequestIsRead, Zenon
<1>3. PICK params : /\ ReadLines(lines, m - 3) = [size |-> (m - 3) + 3, overrun |-> FALSE, params |-> params]
                    /\ Reads(params, fields)
  BY RequestSaid, Zenon
<1>4. (m - 3) + 3 = m
  OBVIOUS
<1>5. ParamsAccepted(params) <=> MeansHandshake(fields, Text)
  BY <1>3, MeantIsAccepted, Zenon
<1>6. r \in Seq(Bytes) /\ Len(r) > 0
  <2>1. PICK n \in Nat : n = Len(lines)
    BY <1>1, LenProperties
  <2>2. n > 0
    BY <1>1, <2>1
  <2>3. PICK c : LinesIn(r, n, lines, c)
    BY <1>1, <2>1, <2>2, RequestLines, Zenon
  <2>4. r \in Seq(Bytes) /\ c \in [0..n -> Nat] /\ Len(r) = c[n] + 2
    BY <2>3, Zenon DEF LinesIn
  <2> QED
    BY <2>4
<1> QED
  BY <1>2, <1>3, <1>4, <1>5, <1>6, Zenon

(***************************************************************************)
(* What is read is bytes, whatever they are                                *)
(***************************************************************************)

LEMMA PartOfBytes ==
  ASSUME NEW S, NEW s \in Seq(S), NEW a \in Int, NEW b \in Int, 1 <= a, b <= Len(s)
  PROVE  SubSeq(s, a, b) \in Seq(S)
<1>1. Len(s) \in Nat
  BY LenProperties
<1>2. \A i \in a..b : s[i] \in S
  BY <1>1
<1> QED
  BY <1>2, SubSeqProperties

\* The pieces that splitStr makes: the last one that were none would be made of
\* a piece in front of others that are.
LEMMA SplitGivesBytes ==
  ASSUME NEW s \in Seq(Bytes), NEW delim \in Seq(Bytes), Len(delim) > 0
  PROVE  SplitStr(s, delim) \in Seq(Seq(Bytes))
<1>1. PICK n \in Nat, l \in Nat : n = Len(s) /\ l = Len(delim) /\ l > 0
  <2>1. Len(s) \in Nat /\ Len(delim) \in Nat
    BY LenProperties
  <2> QED
    BY <2>1
<1>2. PICK rest : rest[1] = SplitStr(s, delim) /\ \A i \in 1..(n + 1) : SplitsAt(rest, s, delim, i)
  BY <1>1, SplitIs, Zenon
<1>3. PICK m \in Nat : m = n + 1
  OBVIOUS
<1>4. PICK S : S = Seq(Seq(Bytes))
  OBVIOUS
<1>5. ASSUME NEW x \in Seq(Bytes), NEW y \in S PROVE <<x>> \o y \in S /\ <<x>> \in S /\ <<>> \in S
  BY <1>4
<1>6. ASSUME NEW i \in 1..m, \A j \in 1..m : j > i => rest[j] \in S
      PROVE  rest[i] \in S
  <2>1. PICK pos : pos = Find(s, delim, i)
    OBVIOUS
  <2>2. rest[i] = IF pos # 0 THEN <<SubSeq(s, i, pos - 1)>> \o rest[pos + l]
                  ELSE IF i <= n THEN <<SubSeq(s, i, n)>> ELSE <<>>
    BY <1>1, <1>2, <1>3, <2>1, Zenon DEF SplitsAt
  <2>3. i \in Nat \ {0} /\ i \in Int /\ 1 <= i /\ n \in Int /\ n <= n
    BY <1>3
  <2>4. CASE pos # 0
    <3>1. pos \in i..(n + 1 - l)
      BY <1>1, <2>1, <2>3, <2>4, FindRange, Zenon
    <3>2. pos - 1 \in Int /\ pos - 1 <= n /\ pos + l \in 1..m /\ pos + l > i
      BY <1>1, <1>3, <3>1
    <3>3. SubSeq(s, i, pos - 1) \in Seq(Bytes)
      BY <1>1, <2>3, <3>2, PartOfBytes, Zenon
    <3>4. rest[pos + l] \in S
      BY <1>6, <3>2, Zenon
    <3> QED
      BY <1>5, <2>2, <2>4, <3>3, <3>4, Zenon
  <2>5. CASE pos = 0 /\ i <= n
    <3>1. SubSeq(s, i, n) \in Seq(Bytes)
      BY <1>1, <2>3, PartOfBytes, Zenon
    <3>2. <<>> \in S
      BY <1>4
    <3> QED
      BY <1>5, <2>2, <2>5, <3>1, <3>2, Zenon
  <2>6. CASE pos = 0 /\ ~(i <= n)
    <3>1. <<>> \in S
      BY <1>4
    <3> QED
      BY <2>2, <2>6, <3>1, Zenon
  <2> QED
    BY <2>4, <2>5, <2>6
<1> DEFINE T == {i \in 1..m : rest[i] \notin S}
<1>7. T = {}
  <2> SUFFICES ASSUME T # {} PROVE FALSE
    OBVIOUS
  <2>1. T \in SUBSET (1..m)
    OBVIOUS
  <2>2. PICK i \in T : \A j \in T : j <= i
    BY <2>1, LastExists, Zenon
  <2>3. \A j \in 1..m : j > i => rest[j] \in S
    <3> SUFFICES ASSUME NEW j \in 1..m, j > i, rest[j] \notin S PROVE FALSE
      OBVIOUS
    <3>1. j \in T /\ ~(j <= i)
      OBVIOUS
    <3> QED
      BY <2>2, <3>1, Zenon
  <2>4. i \in 1..m /\ rest[i] \notin S
    OBVIOUS
  <2> QED
    BY <1>6, <2>3, <2>4, Zenon
<1>8. 1 \in 1..m
  BY <1>3
<1>9. rest[1] \in S
  BY <1>7, <1>8, Zenon DEF ParamIs
<1> QED
  BY <1>2, <1>4, <1>9, Zenon

LEMMA TrimGivesBytes ==
  ASSUME NEW s \in Seq(Bytes)
  PROVE  Trim(s, SP) \in Seq(Bytes)
<1> DEFINE kept == {i \in 1..Len(s) : s[i] # SP}
<1>1. Trim(s, SP) = IF kept = {} THEN <<>>
                    ELSE SubSeq(s, CHOOSE i \in kept : \A j \in kept : i <= j,
                                   CHOOSE i \in kept : \A j \in kept : j <= i)
  BY Zenon DEF Trim
<1>2. PICK n \in Nat : n = Len(s)
  BY LenProperties
<1>3. kept \in SUBSET (1..n)
  BY <1>2, Zenon
<1> HIDE DEF kept
<1>4. CASE kept = {}
  <2>1. <<>> \in Seq(Bytes)
    OBVIOUS
  <2> QED
    BY <1>1, <1>4, <2>1, Zenon
<1>5. CASE kept # {}
  <2>1. PICK a, b : /\ a = CHOOSE i \in kept : \A j \in kept : i <= j
                    /\ b = CHOOSE i \in kept : \A j \in kept : j <= i
    OBVIOUS
  <2>2. a \in kept
    <3>1. kept \in SUBSET Nat
      BY <1>3
    <3>2. \E i \in kept : \A j \in kept : i <= j
      BY <1>5, <3>1, FirstExists, Zenon
    <3> QED
      BY <2>1, <3>2, Zenon
  <2>3. b \in kept
    <3>1. \E i \in kept : \A j \in kept : j <= i
      BY <1>3, <1>5, LastExists, Zenon
    <3> QED
      BY <2>1, <3>1, Zenon
  <2>4. a \in Int /\ b \in Int /\ 1 <= a /\ b <= n
    BY <1>3, <2>2, <2>3
  <2>5. SubSeq(s, a, b) \in Seq(Bytes)
    BY <1>2, <2>4, PartOfBytes, Zenon
  <2> QED
    BY <1>1, <1>5, <2>1, <2>5, Zenon
<1> QED
  BY <1>4, <1>5

\* The value that is read in a line
LEMMA ValueIsBytes ==
  ASSUME NEW line \in Seq(Bytes)
  PROVE  HeaderField(line).value \in Seq(Bytes)
<1>1. PICK colon \in Seq(Bytes) : colon = <<COLON>> /\ Len(colon) = 1
  <2>1. <<58>> \in Seq(Bytes) /\ Len(<<58>>) = 1
    BY DEF Bytes
  <2>2. <<COLON>> = <<58>>
    BY DEF COLON
  <2> QED
    BY <2>1, <2>2, Zenon
<1>2. PICK n \in Nat : n = Len(line)
  BY LenProperties
<1>3. PICK pos, x, y : /\ pos = Find(line, colon, 1) /\ x = Trim(SubSeq(line, 1, pos - 1), SP)
                       /\ y = IF pos = 0 THEN <<>> ELSE Trim(SubSeq(line, pos + 1, n), SP)
  OBVIOUS
<1>4. y \in Seq(Bytes)
  <2>1. CASE pos = 0
    <3>1. <<>> \in Seq(Bytes)
      OBVIOUS
    <3> QED
      BY <1>3, <2>1, <3>1, Zenon
  <2>2. CASE pos # 0
    <3>1. 1 \in Nat \ {0}
      OBVIOUS
    <3>2. pos \in 1..(Len(line) + 1 - Len(colon))
      BY <1>3, <2>2, <3>1, FindRange, Zenon
    <3>3. pos + 1 \in Int /\ 1 <= pos + 1 /\ n \in Int /\ n <= n
      BY <1>1, <1>2, <3>2
    <3>4. SubSeq(line, pos + 1, n) \in Seq(Bytes)
      BY <1>2, <3>3, PartOfBytes, Zenon
    <3> QED
      BY <1>3, <2>2, <3>4, TrimGivesBytes, Zenon
  <2> QED
    BY <2>1, <2>2
<1>5. HeaderField(line) = [name |-> x, value |-> y]
  BY <1>1, <1>2, <1>3, Zenon DEF HeaderField
<1>6. HeaderField(line).value = y
  BY <1>5
<1> QED
  BY <1>4, <1>6, Zenon

\* The values in params_
ParamsAreBytes(params) == \A name \in DOMAIN params : params[name] \in Seq(Bytes)

LEMMA ParamsGiveBytes ==
  ASSUME NEW lines \in Seq(Seq(Bytes))
  PROVE  ParamsAreBytes(Params(lines))
<1>1. PICK n \in Nat : n = Len(lines)
  BY LenProperties
<1>2. PICK fields : fields = [i \in 1..n |-> HeaderField(lines[i])]
  OBVIOUS
<1>3. \A i \in 1..n : HeaderField(lines[i]) = fields[i] /\ fields[i].value \in Seq(Bytes)
  <2> TAKE i \in 1..n
  <2>1. lines[i] \in Seq(Bytes)
    BY <1>1, ElementOfSeq, Zenon
  <2> QED
    BY <1>2, <2>1, ValueIsBytes, Zenon
<1>4. \A name \in DOMAIN Params(lines) : name # <<>>
  BY Zenon DEF Params
<1> SUFFICES ASSUME NEW name \in DOMAIN Params(lines) PROVE Params(lines)[name] \in Seq(Bytes)
  BY Zenon DEF ParamsAreBytes
<1>5. FieldsOf(lines, fields, n)
  BY <1>1, <1>3, Zenon DEF FieldsOf
<1>6. name # <<>>
  BY <1>4, Zenon
<1>7. ParamIs(Params(lines), fields, n, name)
  BY <1>5, <1>6, ParamsAre, Zenon
<1>8. PICK i : LastSaying(fields, n, name, i)
  BY <1>7, SaidOrNot, Zenon DEF ParamIs
<1>9. Params(lines)[name] = fields[i].value
  BY <1>7, <1>8, Zenon DEF ParamIs
<1> QED
  BY <1>3, <1>8, <1>9, Zenon DEF LastSaying

\* Whatever comes in, what get_param finds in it is bytes.
LEMMA FetchGivesBytes ==
  ASSUME NEW msg \in Seq(Bytes)
  PROVE  ParamsAreBytes(FetchHsElement(msg).params)
<1>1. NoRequest.params = <<>> /\ [NoRequest EXCEPT !.overrun = TRUE].params = <<>>
  BY DEF NoRequest
<1>2. ParamsAreBytes(<<>>)
  <2>1. DOMAIN <<>> = {}
    OBVIOUS
  <2> QED
    BY <2>1, Zenon DEF ParamsAreBytes
<1>3. ASSUME NEW lines \in Seq(Seq(Bytes)), NEW e
      PROVE  ParamsAreBytes(ReadLines(lines, e).params)
  <2> DEFINE filled == {i \in 1..Len(lines) : Trim(lines[i], SP) # <<>>}
             it == CHOOSE i \in filled : \A j \in filled : i <= j
             rest == SubSeq(lines, it + 1, Len(lines))
             x == [size |-> e + 3, overrun |-> FALSE, params |-> Params(rest)]
  <2>1. \/ ReadLines(lines, e) = NoRequest
        \/ ReadLines(lines, e) = [NoRequest EXCEPT !.overrun = TRUE]
        \/ filled # {} /\ ReadLines(lines, e) = x
    BY Zenon DEF ReadLines
  <2>2. x.params = Params(rest)
    OBVIOUS
  <2> HIDE DEF x
  <2>3. CASE filled # {} /\ ReadLines(lines, e) = x
    <3>1. PICK n \in Nat : n = Len(lines)
      BY LenProperties
    <3>2. filled \in SUBSET Nat
      BY <3>1
    <3> HIDE DEF filled
    <3>3. it \in Nat
      <4>1. \E i \in filled : \A j \in filled : i <= j
        BY <2>3, <3>2, FirstExists, Zenon
      <4>2. it \in filled
        BY <4>1, Zenon
      <4> HIDE DEF it
      <4> QED
        BY <3>2, <4>2, Zenon
    <3> HIDE DEF it
    <3>4. it + 1 \in Int /\ n \in Int /\ 1 <= it + 1 /\ n <= n
      BY <3>3
    <3>5. rest \in Seq(Seq(Bytes))
      BY <3>1, <3>4, PartOfBytes, Zenon
    <3> HIDE DEF rest
    <3>6. ParamsAreBytes(Params(rest))
      BY <3>5, ParamsGiveBytes, Zenon
    <3> QED
      BY <2>2, <2>3, <3>6, Zenon
  <2> QED
    BY <1>1, <1>2, <2>1, <2>3, Zenon
<1>4. PICK n \in Nat : n = Len(msg)
  BY LenProperties
<1>5. PICK eols \in Seq(Bytes) : eols = EOL \o EOL /\ Len(eols) = 4
  <2>1. PICK u : u = EOL \o EOL
    OBVIOUS
  <2>2. EOL \in Seq(Bytes) /\ Len(EOL) = 2
    BY EolIs
  <2>3. u \in Seq(Bytes) /\ Joins(u, EOL, EOL)
    BY <2>1, <2>2, ConcatJoins, Zenon
  <2>4. Len(u) = 2 + 2
    BY <2>2, <2>3, Zenon DEF Joins
  <2>5. 2 + 2 = 4
    OBVIOUS
  <2> QED
    BY <2>1, <2>3, <2>4, <2>5, Zenon
<1>6. PICK endpos : endpos = Find(msg, eols, 1)
  OBVIOUS
<1>7. FetchHsElement(msg) = IF endpos = 0 THEN NoRequest
                            ELSE ReadLines(SplitStr(SubSeq(msg, 1, endpos - 1), EOL), endpos)
  BY <1>5, <1>6, Zenon DEF FetchHsElement
<1>8. CASE endpos # 0
  <2>1. 1 \in Nat \ {0}
    OBVIOUS
  <2>2. endpos \in 1..(Len(msg) + 1 - Len(eols))
    BY <1>6, <1>8, <2>1, FindRange, Zenon
  <2>3. 1 \in Int /\ 1 <= 1 /\ endpos - 1 \in Int /\ endpos - 1 <= n
    BY <1>4, <1>5, <2>2
  <2>4. PICK text \in Seq(Bytes) : text = SubSeq(msg, 1, endpos - 1)
    BY <1>4, <2>3, PartOfBytes, Zenon
  <2>5. EOL \in Seq(Bytes) /\ Len(EOL) > 0
    BY EolIs
  <2>6. SplitStr(text, EOL) \in Seq(Seq(Bytes))
    BY <2>5, SplitGivesBytes, Zenon
  <2> QED
    BY <1>3, <1>7, <1>8, <2>4, <2>6, Zenon
<1> QED
  BY <1>1, <1>2, <1>7, <1>8, Zenon

(***************************************************************************)
(* The answer                                                              *)
(***************************************************************************)

\* Three sequences one behind the other
LEMMA ThreeJoined ==
  ASSUME NEW S, NEW a \in Seq(S), NEW b \in Seq(S), NEW c \in Seq(S)
  PROVE  a \o b \o c \in Seq(S)
<1>1. a \o b \in Seq(S)
  BY ConcatProperties
<1> QED
  BY <1>1, ConcatProperties

\* The answer to a handshake is bytes.
LEMMA RspIsBytes ==
  ASSUME NEW p, NEW accept_key \in Seq(Bytes)
  PROVE  PackHandshakeRsp(p, accept_key) \in Seq(Bytes)
<1> DEFINE Field(name, value) == Text[name] \o <<COLON, SP>> \o value \o EOL
<1>1. EOL \in Seq(Bytes) /\ <<COLON, SP>> \in Seq(Bytes)
  BY DEF EOL, CR, LF, COLON, SP, Bytes
<1>2. \A name \in Strings : Text[name] \in Seq(Bytes)
  <2>1. \A name \in Strings : Text[name] \in Seq(Bytes \ {CR, LF, COLON})
    BY HandshakeAssumption, Zenon DEF HandshakeAssumption
  <2>2. Seq(Bytes \ {CR, LF, COLON}) \subseteq Seq(Bytes)
    <3>1. Bytes \ {CR, LF, COLON} \subseteq Bytes
      OBVIOUS
    <3> QED
      BY <3>1, SeqMonotonic, Zenon
  <2> QED
    BY <2>1, <2>2, Zenon
<1>3. ASSUME NEW name \in Strings, NEW value \in Seq(Bytes)
      PROVE  Field(name, value) \in Seq(Bytes)
  <2>1. Text[name] \o <<COLON, SP>> \o value \in Seq(Bytes)
    BY <1>1, <1>2, ThreeJoined
  <2> QED
    BY <1>1, <2>1, ConcatProperties
<1> HIDE DEF Field
<1>4. /\ "HTTP/1.1 101 Switching Protocols" \in Strings /\ "Connection" \in Strings
      /\ "upgrade" \in Strings /\ "Upgrade" \in Strings /\ "websocket" \in Strings
      /\ "Sec-WebSocket-Accept" \in Strings /\ "Sec-WebSocket-Protocol" \in Strings
      /\ "chat" \in Strings
  BY DEF Strings
<1>5. PICK status \in Seq(Bytes) : status = Text["HTTP/1.1 101 Switching Protocols"]
  BY <1>2, <1>4, Zenon
<1>6. PICK connection \in Seq(Bytes) : connection = Field("Connection", Text["upgrade"])
  <2>1. Field("Connection", Text["upgrade"]) \in Seq(Bytes)
    BY <1>2, <1>3, <1>4, Zenon
  <2> QED
    BY <2>1, Zenon
<1>7. PICK upgrade \in Seq(Bytes) : upgrade = Field("Upgrade", Text["websocket"])
  <2>1. Field("Upgrade", Text["websocket"]) \in Seq(Bytes)
    BY <1>2, <1>3, <1>4, Zenon
  <2> QED
    BY <2>1, Zenon
<1>8. PICK accept \in Seq(Bytes) : accept = Field("Sec-WebSocket-Accept", accept_key)
  <2>1. Field("Sec-WebSocket-Accept", accept_key) \in Seq(Bytes)
    BY <1>3, <1>4, Zenon
  <2> QED
    BY <2>1, Zenon
<1>9. PICK protocol \in Seq(Bytes) :
        protocol = IF GetParam(p, "Sec-WebSocket-Protocol") = <<>> THEN <<>>
                   ELSE Field("Sec-WebSocket-Protocol", Text["chat"])
  <2>1. Field("Sec-WebSocket-Protocol", Text["chat"]) \in Seq(Bytes) /\ <<>> \in Seq(Bytes)
    BY <1>2, <1>3, <1>4, EmptySeq, Zenon
  <2> QED
    BY <2>1, Zenon
<1>10. PackHandshakeRsp(p, accept_key) =
         status \o EOL \o connection \o upgrade \o accept \o protocol \o EOL
  <2>1. PackHandshakeRsp(p, accept_key) =
          Text["HTTP/1.1 101 Switching Protocols"] \o EOL
            \o Field("Connection", Text["upgrade"]) \o Field("Upgrade", Text["websocket"])
            \o Field("Sec-WebSocket-Accept", accept_key)
            \o (IF GetParam(p, "Sec-WebSocket-Protocol") = <<>> THEN <<>>
                ELSE Field("Sec-WebSocket-Protocol", Text["chat"]))
            \o EOL
    BY DEF PackHandshakeRsp, Field
  <2> QED
    BY <1>5, <1>6, <1>7, <1>8, <1>9, <2>1, Zenon
<1>11. status \o EOL \o connection \in Seq(Bytes)
  BY <1>1, ThreeJoined
<1>12. status \o EOL \o connection \o upgrade \o accept \in Seq(Bytes)
  BY <1>11, ThreeJoined
<1>13. status \o EOL \o connection \o upgrade \o accept \o protocol \o EOL \in Seq(Bytes)
  BY <1>1, <1>12, ThreeJoined
<1> QED
  BY <1>10, <1>13, Zenon

(***************************************************************************)
(* The text of an answer is lines as well, each with its end, and an empty *)
(* line.                                                                   *)
(***************************************************************************)
Unbroken == (0..255) \ {13, 10}

RspLine(name, value) == Text[name] \o <<COLON, SP>> \o value

\* x begins with the name t and a colon, and there is no colon in t.
NamedLine(x, t) ==
  /\ Len(t) + 1 <= Len(x) /\ x[Len(t) + 1] = 58
  /\ \A j \in 1..Len(t) : x[j] = t[j] /\ t[j] # 58

\* The lines of an answer with the accept key a
Answers(lines, n, p, a) ==
  /\ lines \in Seq(Lines) /\ n = Len(lines)
  /\ lines[1] = Text["HTTP/1.1 101 Switching Protocols"]
  /\ lines[2] = RspLine("Connection", Text["upgrade"])
  /\ lines[3] = RspLine("Upgrade", Text["websocket"])
  /\ lines[4] = RspLine("Sec-WebSocket-Accept", a)
  /\ IF GetParam(p, "Sec-WebSocket-Protocol") = <<>> THEN n = 4
     ELSE n = 5 /\ lines[5] = RspLine("Sec-WebSocket-Protocol", Text["chat"])

\* How the code spells its names
LEMMA TextIs ==
  ASSUME NEW s \in Strings
  PROVE  /\ Text[s] \in Seq(Bytes) /\ Text[s] \in Seq(Unbroken)
         /\ Len(Text[s]) \in Nat /\ Len(Text[s]) > 0 /\ Text[s] # <<>>
         /\ \A j \in 1..Len(Text[s]) : Text[s][j] # 13 /\ Text[s][j] # 58
<1>1. PICK t : t = Text[s] /\ t \in Seq(Bytes \ {CR, LF, COLON}) \ {<<>>}
  BY HandshakeAssumption, Zenon DEF HandshakeAssumption
<1>2. t \in Seq((0..255) \ {13, 10, 58}) /\ t # <<>>
  BY <1>1 DEF CR, LF, COLON, Bytes
<1>3. \A i \in 1..Len(t) : t[i] \in (0..255) \ {13, 10, 58}
  BY <1>2
<1>4. Len(t) \in Nat /\ Len(t) > 0
  BY <1>2
<1>5. t \in Seq(Unbroken)
  BY <1>2 DEF Unbroken
<1>6. t \in Seq(Bytes)
  BY <1>2 DEF Bytes
<1>7. \A j \in 1..Len(t) : t[j] # 13 /\ t[j] # 58
  BY <1>3
<1> QED
  BY <1>1, <1>2, <1>4, <1>5, <1>6, <1>7, Zenon

LEMMA RspLineIs ==
  ASSUME NEW name \in Strings, NEW value \in Seq(Unbroken)
  PROVE  RspLine(name, value) \in Lines /\ NamedLine(RspLine(name, value), Text[name])
<1>1. PICK t \in Seq(Unbroken) :
        /\ t = Text[name] /\ Len(t) \in Nat /\ Len(t) > 0
        /\ \A j \in 1..Len(t) : t[j] # 58
  BY TextIs, ZenonT(60)
<1>2. PICK m \in Seq(Unbroken) : m = <<COLON, SP>> /\ Len(m) = 2 /\ m[1] = 58
  <2>1. <<COLON, SP>> \in Seq(Unbroken)
    BY DEF COLON, SP, Unbroken
  <2>2. Len(<<COLON, SP>>) = 2 /\ <<COLON, SP>>[1] = 58
    BY DEF COLON
  <2> QED
    BY <2>1, <2>2, Zenon
<1>3. PICK u, x : u = t \o m /\ x = u \o value
  OBVIOUS
<1>4. x = RspLine(name, value)
  BY <1>1, <1>2, <1>3, Zenon DEF RspLine
<1>5. u \in Seq(Unbroken) /\ Joins(u, t, m)
  BY <1>3, ConcatJoins, Zenon
<1>6. x \in Seq(Unbroken) /\ Joins(x, u, value)
  BY <1>3, <1>5, ConcatJoins, Zenon
<1>7. PICK a \in Nat, b \in Nat : a = Len(t) /\ b = Len(value) /\ a > 0
  BY <1>1, LenProperties, Zenon
<1>8. /\ Len(u) = a + 2 /\ (\A i \in 1..a : u[i] = t[i])
      /\ \A i \in 1..2 : u[a + i] = m[i]
  BY <1>2, <1>5, <1>7, Zenon DEF Joins
<1>9. Len(x) = a + 2 + b /\ \A i \in 1..(a + 2) : x[i] = u[i]
  BY <1>6, <1>7, <1>8, Zenon DEF Joins
<1>10. u[a + 1] = 58
  <2>1. 1 \in 1..2
    OBVIOUS
  <2> QED
    BY <1>2, <1>8, <2>1, Zenon
<1>11. a + 1 \in 1..(a + 2) /\ \A i \in 1..a : i \in 1..(a + 2)
  OBVIOUS
<1>12. x[a + 1] = 58 /\ \A i \in 1..a : x[i] = t[i]
  BY <1>8, <1>9, <1>10, <1>11, Zenon
<1>13. a + 1 <= Len(x) /\ Len(x) > 0
  BY <1>9
<1>14. NamedLine(x, t)
  BY <1>1, <1>7, <1>12, <1>13, Zenon DEF NamedLine
<1>15. x \in Lines
  <2>1. Len(<<>>) = 0
    OBVIOUS
  <2>2. x # <<>>
    BY <1>9, <2>1
  <2> QED
    BY <1>6, <2>2, Zenon DEF Lines, Unbroken
<1> QED
  BY <1>1, <1>4, <1>14, <1>15, Zenon

\* What four or five lines are on the wire
FourLines(lines) ==
  ((lines[1] \o EOL) \o (lines[2] \o EOL)) \o (lines[3] \o EOL) \o (lines[4] \o EOL)

LEMMA RequestOfLines ==
  ASSUME NEW lines \in Seq(Lines), NEW n \in {4, 5}, n = Len(lines)
  PROVE  /\ n = 4 => EncodeRequest(lines) = FourLines(lines) \o EOL
         /\ n = 5 => EncodeRequest(lines) = FourLines(lines) \o (lines[5] \o EOL) \o EOL
<1>1. PICK pieces : pieces = [i \in 1..n |-> lines[i] \o <<13, 10>>]
  OBVIOUS
<1>2. \A k \in 1..n : pieces[k] = lines[k] \o EOL /\ pieces[k] \in Seq(Bytes)
  <2> TAKE k \in 1..n
  <2>1. lines[k] \in Lines
    OBVIOUS
  <2>2. lines[k] \in Seq(Bytes)
    BY <2>1, LineIsBytes, Zenon
  <2>3. lines[k] \o EOL \in Seq(Bytes)
    BY <2>2, EolIs, ConcatProperties, Zenon
  <2>4. pieces[k] = lines[k] \o EOL
    BY <1>1 DEF EOL, CR, LF
  <2> QED
    BY <2>3, <2>4, Zenon
<1>3. PICK e : e = <<>> /\ e \in Seq(Bytes)
  <2>1. <<>> \in Seq(Bytes)
    OBVIOUS
  <2> QED
    BY <2>1, Zenon
<1>4. PICK f : f = Chain(e, pieces)
  OBVIOUS
<1>5. Chained(f, n, e, pieces)
  <2>1. n = Len(pieces) /\ n \in Nat
    BY <1>1
  <2>2. \A k \in 1..n : pieces[k] \in Seq(Bytes)
    BY <1>2, Zenon
  <2> QED
    BY <1>3, <1>4, <2>1, <2>2, ChainIs, Zenon
<1>6. EncodeRequest(lines) = f[n] \o EOL
  <2>1. EncodeRequest(lines) = Chain(<<>>, pieces)[n] \o <<13, 10>>
    BY <1>1, Zenon DEF EncodeRequest
  <2> QED
    BY <1>3, <1>4, <2>1, Zenon DEF EOL, CR, LF
<1>7. /\ 1 \in 1..n /\ 2 \in 1..n /\ 3 \in 1..n /\ 4 \in 1..n
      /\ 1 - 1 = 0 /\ 2 - 1 = 1 /\ 3 - 1 = 2 /\ 4 - 1 = 3 /\ 5 - 1 = 4
      /\ n = 5 => 5 \in 1..n
  OBVIOUS
<1>8. \A k \in 1..n : f[k] = f[k - 1] \o (lines[k] \o EOL)
  BY <1>2, <1>5, Zenon DEF Chained
<1>9. f[1] = lines[1] \o EOL
  <2>1. PICK x \in Seq(Bytes) : x = lines[1] \o EOL
    BY <1>2, <1>7, Zenon
  <2>2. f[1] = e \o x
    BY <1>5, <1>7, <1>8, <2>1, Zenon DEF Chained
  <2>3. <<>> \o x = x
    OBVIOUS
  <2> QED
    BY <1>3, <2>1, <2>2, <2>3, Zenon
<1>10. f[2] = f[1] \o (lines[2] \o EOL)
  BY <1>7, <1>8, Zenon
<1>11. f[3] = f[2] \o (lines[3] \o EOL)
  BY <1>7, <1>8, Zenon
<1>12. f[4] = f[3] \o (lines[4] \o EOL)
  BY <1>7, <1>8, Zenon
<1>13. f[4] = FourLines(lines)
  BY <1>9, <1>10, <1>11, <1>12, Zenon DEF FourLines
<1>14. n = 5 => f[5] = f[4] \o (lines[5] \o EOL)
  BY <1>7, <1>8, Zenon
<1> QED
  BY <1>6, <1>13, <1>14, Zenon

LEMMA RspIsLines ==
  ASSUME NEW p, NEW a \in Seq(Unbroken)
  PROVE  \E lines, n : Answers(lines, n, p, a) /\ PackHandshakeRsp(p, a) = EncodeRequest(lines)
<1>1. /\ "HTTP/1.1 101 Switching Protocols" \in Strings /\ "Connection" \in Strings
      /\ "upgrade" \in Strings /\ "Upgrade" \in Strings /\ "websocket" \in Strings
      /\ "Sec-WebSocket-Accept" \in Strings /\ "Sec-WebSocket-Protocol" \in Strings
      /\ "chat" \in Strings
  BY DEF Strings
<1>2. PICK x1 \in Lines : x1 = Text["HTTP/1.1 101 Switching Protocols"]
  BY <1>1, TextIs, Zenon DEF Lines, Unbroken
<1>3. PICK x2 \in Lines : x2 = RspLine("Connection", Text["upgrade"])
  BY <1>1, TextIs, RspLineIs, Zenon
<1>4. PICK x3 \in Lines : x3 = RspLine("Upgrade", Text["websocket"])
  BY <1>1, TextIs, RspLineIs, Zenon
<1>5. PICK x4 \in Lines : x4 = RspLine("Sec-WebSocket-Accept", a)
  BY <1>1, RspLineIs, Zenon
<1>6. PICK x5 \in Lines : x5 = RspLine("Sec-WebSocket-Protocol", Text["chat"])
  BY <1>1, TextIs, RspLineIs, Zenon
<1>7. PICK four : four = ((x1 \o EOL) \o (x2 \o EOL)) \o (x3 \o EOL) \o (x4 \o EOL)
  OBVIOUS
<1>8. PackHandshakeRsp(p, a) =
        four \o (IF GetParam(p, "Sec-WebSocket-Protocol") = <<>> THEN <<>> ELSE x5 \o EOL) \o EOL
  BY <1>2, <1>3, <1>4, <1>5, <1>6, <1>7, Zenon DEF PackHandshakeRsp, RspLine
<1>9. CASE GetParam(p, "Sec-WebSocket-Protocol") = <<>>
  <2>1. PICK lines : lines = <<x1, x2, x3, x4>>
    OBVIOUS
  <2>2. /\ lines \in Seq(Lines) /\ Len(lines) = 4
        /\ lines[1] = x1 /\ lines[2] = x2 /\ lines[3] = x3 /\ lines[4] = x4
    BY <2>1
  <2>3. Answers(lines, 4, p, a)
    BY <1>2, <1>3, <1>4, <1>5, <1>9, <2>2, Zenon DEF Answers
  <2>4. four = FourLines(lines)
    BY <1>7, <2>2, Zenon DEF FourLines
  <2>5. four \in Seq(Bytes)
    <3>1. \A x \in Lines : x \o EOL \in Seq(Bytes)
      BY LineIsBytes, EolIs, ConcatProperties, Zenon
    <3> QED
      BY <1>7, <3>1, ConcatProperties, Zenon
  <2>6. four \o <<>> = four
    BY <2>5
  <2>7. 4 \in {4, 5} /\ 4 = Len(lines)
    BY <2>2
  <2>8. EncodeRequest(lines) = four \o EOL
    BY <2>2, <2>4, <2>7, RequestOfLines, Zenon
  <2>9. PackHandshakeRsp(p, a) = (four \o <<>>) \o EOL
    BY <1>8, <1>9, Zenon
  <2> QED
    BY <2>3, <2>6, <2>8, <2>9, Zenon
<1>10. CASE GetParam(p, "Sec-WebSocket-Protocol") # <<>>
  <2>1. PICK lines : lines = <<x1, x2, x3, x4, x5>>
    OBVIOUS
  <2>2. /\ lines \in Seq(Lines) /\ Len(lines) = 5
        /\ lines[1] = x1 /\ lines[2] = x2 /\ lines[3] = x3 /\ lines[4] = x4 /\ lines[5] = x5
    BY <2>1
  <2>3. Answers(lines, 5, p, a)
    BY <1>2, <1>3, <1>4, <1>5, <1>6, <1>10, <2>2, Zenon DEF Answers
  <2>4. four = FourLines(lines)
    BY <1>7, <2>2, Zenon DEF FourLines
  <2>5. 5 \in {4, 5} /\ 5 = Len(lines)
    BY <2>2
  <2>6. EncodeRequest(lines) = four \o (x5 \o EOL) \o EOL
    BY <2>2, <2>4, <2>5, RequestOfLines, Zenon
  <2>7. PackHandshakeRsp(p, a) = four \o (x5 \o EOL) \o EOL
    BY <1>8, <1>10, Zenon
  <2> QED
    BY <2>3, <2>6, <2>7, Zenon
<1> QED
  BY <1>9, <1>10

(***************************************************************************)
(* What find() finds in lines behind one another                           *)
(***************************************************************************)

\* what is an end of line with t and then e behind it.
EolText(what, t, e) ==
  /\ what \in Seq(Bytes) /\ Len(what) = 2 + Len(t) + Len(e)
  /\ what[1] = 13 /\ what[2] = 10
  /\ \A j \in 1..Len(t) : what[2 + j] = t[j]
  /\ \A j \in 1..Len(e) : what[2 + Len(t) + j] = e[j]

LEMMA EolTextIs ==
  ASSUME NEW t \in Seq(Bytes), NEW e \in Seq(Bytes), NEW what, what = EOL \o t \o e
  PROVE  EolText(what, t, e)
<1>1. PICK l \in Nat, m \in Nat : l = Len(t) /\ m = Len(e)
  BY LenProperties
<1>2. PICK eol \in Seq(Bytes) : eol = EOL /\ Len(eol) = 2 /\ eol[1] = 13 /\ eol[2] = 10
  BY EolIs, Zenon
<1>3. PICK u : u = eol \o t /\ what = u \o e
  BY <1>2, Zenon
<1>4. u \in Seq(Bytes) /\ Joins(u, eol, t)
  BY <1>3, ConcatJoins, Zenon
<1>5. what \in Seq(Bytes) /\ Joins(what, u, e)
  BY <1>3, <1>4, ConcatJoins, Zenon
<1>6. /\ Len(u) = 2 + l /\ (\A i \in 1..2 : u[i] = eol[i])
      /\ \A i \in 1..l : u[2 + i] = t[i]
  BY <1>1, <1>2, <1>4, Zenon DEF Joins
<1>7. /\ Len(what) = (2 + l) + m /\ (\A i \in 1..(2 + l) : what[i] = u[i])
      /\ \A i \in 1..m : what[(2 + l) + i] = e[i]
  BY <1>1, <1>5, <1>6, Zenon DEF Joins
<1>8. 1 \in 1..2 /\ 2 \in 1..2 /\ 1 \in 1..(2 + l) /\ 2 \in 1..(2 + l)
  OBVIOUS
<1>9. what[1] = 13 /\ what[2] = 10
  BY <1>2, <1>6, <1>7, <1>8, Zenon
<1>10. \A j \in 1..l : what[2 + j] = t[j]
  <2>1. \A j \in 1..l : 2 + j \in 1..(2 + l)
    OBVIOUS
  <2> QED
    BY <1>6, <1>7, <2>1, Zenon
<1> QED
  BY <1>1, <1>5, <1>7, <1>9, <1>10, Zenon DEF EolText

\* What stands anywhere is found.
LEMMA FoundSomewhere ==
  ASSUME NEW s \in Seq(Bytes), NEW what \in Seq(Bytes),
         NEW i \in 1..(Len(s) + 1 - Len(what)), StandsAt(s, what, i)
  PROVE  Find(s, what, 1) # 0
<1>1. PICK n, l, h : n = Len(s) /\ l = Len(what) /\ h = HitsFrom(s, what, 1)
  OBVIOUS
<1>0. n \in Nat /\ l \in Nat
  BY <1>1, LenProperties
<1>2. SubSeq(s, i, i + l - 1) = what
  BY <1>0, <1>1, StandsThere, ZenonT(60)
<1>3. i \in h
  BY <1>1, <1>2, Zenon DEF HitsFrom
<1>4. 1 \in Nat \ {0}
  OBVIOUS
<1>5. PICK y : y = Find(s, what, 1)
  OBVIOUS
<1>6. IsFirst(y, h)
  BY <1>1, <1>3, <1>4, <1>5, FindFrom, Zenon
<1>7. y \in 1..(n + 1 - l)
  BY <1>1, <1>6, Zenon DEF IsFirst, HitsFrom
<1>8. y # 0
  BY <1>0, <1>7
<1> QED
  BY <1>5, <1>8, Zenon

\* What is found stands somewhere.
LEMMA StandsSomewhere ==
  ASSUME NEW s \in Seq(Bytes), NEW what \in Seq(Bytes), Find(s, what, 1) # 0
  PROVE  \E i \in 1..(Len(s) + 1 - Len(what)) : StandsAt(s, what, i)
<1>1. 1 \in Nat \ {0}
  OBVIOUS
<1> QED
  BY <1>1, NotFound, Zenon

\* Line k of a text in lines, from behind the end of line k - 1 to its own end
Between(r, lines, c, k, a, l) ==
  /\ a = c[k - 1] /\ l = Len(lines[k]) /\ a >= 2 /\ l > 0
  /\ r[a - 1] = 13 /\ r[a] = 10 /\ a + l + 4 <= Len(r)
  /\ \A j \in 1..l : r[a + j] = lines[k][j] /\ r[a + j] # 13
  /\ r[a + l + 1] = 13 /\ r[a + l + 2] = 10

LEMMA LineBetween ==
  ASSUME NEW r, NEW n, NEW lines, NEW c, LinesIn(r, n, lines, c), NEW k \in 2..n
  PROVE  \E a, l \in Nat : Between(r, lines, c, k, a, l)
<1>1. n \in Nat /\ c \in [0..n -> Nat] /\ Len(r) = c[n] + 2
  BY Zenon DEF LinesIn
<1>2. k \in 1..n /\ k - 1 \in 1..n /\ n \in 0..n
  BY <1>1
<1>3. PICK a, b, l \in Nat : LineAt(r, n, lines, c, k, a, b, l)
  BY <1>2, LineIsAt, Zenon
<1>4. PICK d, e, f \in Nat : LineAt(r, n, lines, c, k - 1, d, e, f)
  BY <1>2, LineIsAt, Zenon
<1>5. /\ a = c[k - 1] /\ l = Len(lines[k]) /\ l > 0 /\ b = a + l + 2 /\ b <= c[n]
      /\ r[b - 1] = 13 /\ r[b] = 10
      /\ \A j \in 1..l : r[a + j] = lines[k][j] /\ r[a + j] # 13
  BY <1>3, Zenon DEF LineAt
<1>6. e = c[k - 1] /\ e = d + f + 2 /\ r[e - 1] = 13 /\ r[e] = 10
  BY <1>4, Zenon DEF LineAt
<1>7. a = e
  BY <1>5, <1>6, Zenon
<1>8. r[a - 1] = 13 /\ r[a] = 10
  BY <1>6, <1>7, Zenon
<1>9. a >= 2
  BY <1>6, <1>7
<1>10. PICK m \in Nat : m = c[n]
  BY <1>1, <1>2, Zenon
<1>11. b = a + l + 2 /\ b <= m
  BY <1>5, <1>10, Zenon
<1>12. a + l + 4 <= m + 2 /\ a + l + 1 = b - 1 /\ a + l + 2 = b
  BY <1>11
<1>13. a + l + 4 <= Len(r)
  BY <1>1, <1>10, <1>12, Zenon
<1>14. r[a + l + 1] = 13 /\ r[a + l + 2] = 10
  BY <1>5, <1>12, Zenon
<1>15. Between(r, lines, c, k, a, l)
  BY <1>5, <1>8, <1>9, <1>13, <1>14, Zenon DEF Between
<1> QED
  BY <1>15, Zenon

\* An end of line at position i, with t and then e behind it
EolAt(r, t, e, i) ==
  /\ r[i] = 13 /\ r[i + 1] = 10
  /\ \A j \in 1..Len(t) : r[i + 1 + j] = t[j]
  /\ \A j \in 1..Len(e) : r[i + 1 + Len(t) + j] = e[j]

LEMMA EolStands ==
  ASSUME NEW r, NEW what, NEW t \in Seq(Bytes), NEW e \in Seq(Bytes),
         EolText(what, t, e), NEW i \in Nat
  PROVE  StandsAt(r, what, i) <=> EolAt(r, t, e, i)
<1>1. PICK l \in Nat, m \in Nat : l = Len(t) /\ m = Len(e)
  BY LenProperties
<1>2. /\ Len(what) = 2 + l + m /\ what[1] = 13 /\ what[2] = 10
      /\ (\A j \in 1..l : what[2 + j] = t[j])
      /\ \A j \in 1..m : what[2 + l + j] = e[j]
  BY <1>1, Zenon DEF EolText
<1>3. /\ i + 1 - 1 = i /\ i + 2 - 1 = i + 1
      /\ 1 \in 1..(2 + l + m) /\ 2 \in 1..(2 + l + m)
      /\ \A j \in 1..l : 2 + j \in 1..(2 + l + m) /\ i + (2 + j) - 1 = i + 1 + j
      /\ \A j \in 1..m : 2 + l + j \in 1..(2 + l + m) /\ i + (2 + l + j) - 1 = i + 1 + l + j
  OBVIOUS
<1>4. ASSUME StandsAt(r, what, i)
      PROVE  EolAt(r, t, e, i)
  <2>1. \A j \in 1..(2 + l + m) : r[i + j - 1] = what[j]
    BY <1>2, <1>4, Zenon DEF StandsAt
  <2>2. r[i] = 13 /\ r[i + 1] = 10
    BY <1>2, <1>3, <2>1, ZenonT(60)
  <2>3. \A j \in 1..l : r[i + 1 + j] = t[j]
    <3> TAKE j \in 1..l
    <3>1. PICK h : h = 2 + j
      OBVIOUS
    <3>2. h \in 1..(2 + l + m) /\ i + h - 1 = i + 1 + j /\ what[h] = t[j]
      BY <1>2, <1>3, <3>1, Zenon
    <3> QED
      BY <2>1, <3>2, Zenon
  <2>4. \A j \in 1..m : r[i + 1 + l + j] = e[j]
    <3> TAKE j \in 1..m
    <3>1. PICK h : h = 2 + l + j
      OBVIOUS
    <3>2. h \in 1..(2 + l + m) /\ i + h - 1 = i + 1 + l + j /\ what[h] = e[j]
      BY <1>2, <1>3, <3>1, Zenon
    <3> QED
      BY <2>1, <3>2, Zenon
  <2> QED
    BY <1>1, <2>2, <2>3, <2>4, Zenon DEF EolAt
<1>5. ASSUME EolAt(r, t, e, i)
      PROVE  StandsAt(r, what, i)
  <2>1. /\ r[i] = 13 /\ r[i + 1] = 10
        /\ (\A j \in 1..l : r[i + 1 + j] = t[j])
        /\ \A j \in 1..m : r[i + 1 + l + j] = e[j]
    BY <1>1, <1>5, Zenon DEF EolAt
  <2>2. ASSUME NEW h \in 1..(2 + l + m)
        PROVE  r[i + h - 1] = what[h]
    <3>1. CASE h = 1
      BY <1>2, <1>3, <2>1, <3>1, Zenon
    <3>2. CASE h = 2
      BY <1>2, <1>3, <2>1, <3>2, Zenon
    <3>3. CASE h > 2 /\ h <= 2 + l
      <4>1. PICK j : j = h - 2
        OBVIOUS
      <4>2. j \in 1..l /\ h = 2 + j /\ i + h - 1 = i + 1 + j
        BY <3>3, <4>1
      <4> QED
        BY <1>2, <2>1, <4>2, Zenon
    <3>4. CASE h > 2 + l
      <4>1. PICK j : j = h - (2 + l)
        OBVIOUS
      <4>2. j \in 1..m /\ h = 2 + l + j /\ i + h - 1 = i + 1 + l + j
        BY <3>4, <4>1
      <4> QED
        BY <1>2, <2>1, <4>2, Zenon
    <3> QED
      BY <3>1, <3>2, <3>3, <3>4
  <2> QED
    BY <1>2, <2>2, Zenon DEF StandsAt
<1> QED
  BY <1>4, <1>5

LEMMA ColonIs == <<COLON>> \in Seq(Bytes) /\ Len(<<COLON>>) = 1 /\ <<COLON>>[1] = 58
BY DEF COLON, Bytes

\* A whole line is found,
LEMMA LineFound ==
  ASSUME NEW r, NEW n, NEW lines, NEW c, LinesIn(r, n, lines, c), NEW k \in 2..n,
         NEW x \in Seq(Bytes), x = lines[k], NEW what, what = EOL \o x \o EOL
  PROVE  Find(r, what, 1) # 0
<1>0. PICK a, l \in Nat : Between(r, lines, c, k, a, l)
  BY LineBetween, Zenon
<1>1. /\ a = c[k - 1] /\ l = Len(lines[k]) /\ a >= 2 /\ l > 0
      /\ r[a - 1] = 13 /\ r[a] = 10 /\ a + l + 4 <= Len(r)
      /\ \A j \in 1..l : r[a + j] = lines[k][j] /\ r[a + j] # 13
      /\ r[a + l + 1] = 13 /\ r[a + l + 2] = 10
  BY <1>0, Zenon DEF Between
<1>2. PICK eol \in Seq(Bytes) : eol = EOL /\ Len(eol) = 2 /\ eol[1] = 13 /\ eol[2] = 10
  BY EolIs, Zenon
<1>3. EolText(what, x, eol)
  BY <1>2, EolTextIs, Zenon
<1>4. what \in Seq(Bytes) /\ Len(what) = 2 + l + 2
  BY <1>1, <1>2, <1>3, Zenon DEF EolText
<1>5. r \in Seq(Bytes)
  BY Zenon DEF LinesIn
<1>6. PICK i \in Nat : i = a - 1
  BY <1>1
<1>7. i + 1 = a /\ i + 1 + l = a + l
  BY <1>6
<1>8. \A j \in 1..2 : r[a + l + j] = eol[j]
  <2> TAKE j \in 1..2
  <2>1. j = 1 \/ j = 2
    OBVIOUS
  <2> QED
    BY <1>1, <1>2, <2>1, Zenon
<1>9. EolAt(r, x, eol, i)
  BY <1>1, <1>2, <1>6, <1>7, <1>8, ZenonT(60) DEF EolAt
<1>10. StandsAt(r, what, i)
  BY <1>2, <1>3, <1>9, EolStands, Zenon
<1>11. PICK m \in Nat : m = Len(r)
  BY <1>5, LenProperties
<1>12. i \in 1..(m + 1 - (2 + l + 2))
  <2>1. a >= 2 /\ a + l + 4 <= m
    BY <1>1, <1>11, Zenon
  <2> QED
    BY <1>6, <2>1
<1> QED
  BY <1>4, <1>5, <1>10, <1>11, <1>12, FoundSomewhere, Zenon

\* and so is the name in front of a colon,
LEMMA NameFound ==
  ASSUME NEW r, NEW n, NEW lines, NEW c, LinesIn(r, n, lines, c), NEW k \in 2..n,
         NEW t \in Seq(Bytes), NamedLine(lines[k], t),
         NEW what, what = EOL \o t \o <<COLON>>
  PROVE  Find(r, what, 1) # 0
<1>0. PICK a, l \in Nat : Between(r, lines, c, k, a, l)
  BY LineBetween, Zenon
<1>1. /\ a = c[k - 1] /\ l = Len(lines[k]) /\ a >= 2 /\ l > 0
      /\ r[a - 1] = 13 /\ r[a] = 10 /\ a + l + 4 <= Len(r)
      /\ \A j \in 1..l : r[a + j] = lines[k][j] /\ r[a + j] # 13
      /\ r[a + l + 1] = 13 /\ r[a + l + 2] = 10
  BY <1>0, Zenon DEF Between
<1>2. PICK colon \in Seq(Bytes) : colon = <<COLON>> /\ Len(colon) = 1 /\ colon[1] = 58
  BY ColonIs, Zenon
<1>3. EolText(what, t, colon)
  BY <1>2, EolTextIs, Zenon
<1>4. PICK d \in Nat : d = Len(t)
  BY LenProperties
<1>5. what \in Seq(Bytes) /\ Len(what) = 2 + d + 1
  BY <1>2, <1>3, <1>4, Zenon DEF EolText
<1>6. d + 1 <= l /\ lines[k][d + 1] = 58 /\ \A j \in 1..d : lines[k][j] = t[j]
  BY <1>1, <1>4, Zenon DEF NamedLine
<1>7. r \in Seq(Bytes)
  BY Zenon DEF LinesIn
<1>8. PICK i \in Nat : i = a - 1
  BY <1>1
<1>9. i + 1 = a /\ d + 1 \in 1..l /\ a + d + 1 = a + (d + 1) /\ \A j \in 1..d : j \in 1..l
  BY <1>6, <1>8
<1>10. \A j \in 1..d : r[a + j] = t[j]
  BY <1>1, <1>6, <1>9, Zenon
<1>11. r[a + d + 1] = 58
  <2>1. r[a + (d + 1)] = lines[k][d + 1]
    BY <1>1, <1>9, Zenon
  <2> QED
    BY <1>6, <1>9, <2>1, Zenon
<1>12. \A j \in 1..1 : r[a + d + j] = colon[j]
  <2> TAKE j \in 1..1
  <2>1. j = 1
    OBVIOUS
  <2> QED
    BY <1>2, <1>11, <2>1, Zenon
<1>13. EolAt(r, t, colon, i)
  BY <1>1, <1>2, <1>4, <1>8, <1>9, <1>10, <1>12, ZenonT(60) DEF EolAt
<1>14. StandsAt(r, what, i)
  BY <1>2, <1>3, <1>13, EolStands, Zenon
<1>15. PICK m \in Nat : m = Len(r)
  BY <1>7, LenProperties
<1>16. i \in 1..(m + 1 - (2 + d + 1))
  <2>1. a >= 2 /\ a + l + 4 <= m
    BY <1>1, <1>15, Zenon
  <2> QED
    BY <1>6, <1>8, <2>1
<1> QED
  BY <1>5, <1>7, <1>14, <1>15, <1>16, FoundSomewhere, Zenon

\* but only of a line that begins with it.
LEMMA NameStands ==
  ASSUME NEW r, NEW n, NEW lines, NEW c, LinesIn(r, n, lines, c),
         NEW t \in Seq(Bytes), Len(t) > 0, \A j \in 1..Len(t) : t[j] # 13 /\ t[j] # 58,
         NEW what, what = EOL \o t \o <<COLON>>, Find(r, what, 1) # 0
  PROVE  \E k \in 2..n : NamedLine(lines[k], t)
<1>1. PICK colon \in Seq(Bytes) : colon = <<COLON>> /\ Len(colon) = 1 /\ colon[1] = 58
  BY ColonIs, Zenon
<1>2. EolText(what, t, colon)
  BY <1>1, EolTextIs, Zenon
<1>3. PICK d \in Nat : d = Len(t) /\ d > 0
  BY LenProperties
<1>4. what \in Seq(Bytes) /\ Len(what) = 2 + d + 1
  BY <1>1, <1>2, <1>3, Zenon DEF EolText
<1>5. /\ n \in Nat /\ n > 0 /\ c \in [0..n -> Nat] /\ r \in Seq(Bytes)
      /\ Len(r) = c[n] + 2 /\ r[c[n] + 1] = 13
  BY Zenon DEF LinesIn
<1>6. PICK m \in Nat : m = c[n]
  <2>1. n \in 0..n
    BY <1>5
  <2> QED
    BY <1>5, <2>1, Zenon
<1>7. PICK i \in 1..(m + 2 + 1 - (2 + d + 1)) : StandsAt(r, what, i)
  BY <1>4, <1>5, <1>6, StandsSomewhere, Zenon
<1>8. i \in Nat /\ i \in 1..m /\ i + 1 + d <= m + 1
  BY <1>3, <1>7
<1>9. EolAt(r, t, colon, i)
  BY <1>1, <1>2, <1>7, <1>8, EolStands, Zenon
<1>10. /\ r[i] = 13 /\ (\A j \in 1..d : r[i + 1 + j] = t[j])
       /\ \A j \in 1..1 : r[i + 1 + d + j] = colon[j]
  BY <1>1, <1>3, <1>9, Zenon DEF EolAt
<1>11. r[i + 1 + d + 1] = 58
  <2>1. 1 \in 1..1
    OBVIOUS
  <2> QED
    BY <1>1, <1>10, <2>1, Zenon
<1>12. PICK k \in 1..n : i = c[k] - 1
  <2>1. i \in 1..c[n] /\ r[i] = 13
    BY <1>6, <1>8, <1>10, Zenon
  <2>2. \E h \in 1..n : i = c[h] - 1
    BY <2>1, OnlyAtEnds
  <2> QED
    BY <2>2, Zenon
<1>13. PICK a \in Nat : a = c[k] /\ i + 1 = a
  <2>1. k \in 0..n
    BY <1>5
  <2>2. c[k] \in Nat
    BY <1>5, <2>1, Zenon
  <2> QED
    BY <1>12, <2>2
<1>14. (\A j \in 1..d : r[a + j] = t[j]) /\ r[a + d + 1] = 58
  BY <1>10, <1>11, <1>13, ZenonT(60)
<1>15. \A j \in 1..d : r[a + j] # 13
  BY <1>3, <1>14, ZenonT(60)
<1>16. k # n
  <2>1. 1 \in 1..d
    BY <1>3
  <2>2. r[a + 1] # 13
    BY <1>15, <2>1, Zenon
  <2> QED
    BY <1>5, <1>13, <2>2, Zenon
<1>17. PICK h \in 2..n : h = k + 1 /\ h - 1 = k
  BY <1>5, <1>16
<1>0. PICK e, l \in Nat : Between(r, lines, c, h, e, l)
  BY LineBetween, Zenon
<1>18. /\ e = c[h - 1] /\ l = Len(lines[h])
       /\ \A j \in 1..l : r[e + j] = lines[h][j] /\ r[e + j] # 13
       /\ r[e + l + 1] = 13
  BY <1>0, Zenon DEF Between
<1>19. e = a
  BY <1>13, <1>17, <1>18, Zenon
<1>20. (\A j \in 1..l : r[a + j] = lines[h][j]) /\ r[a + (l + 1)] = 13
  <2>1. e + l + 1 = e + (l + 1)
    OBVIOUS
  <2> QED
    BY <1>18, <1>19, <2>1, Zenon
<1>21. ~(l + 1 <= d)
  <2> SUFFICES ASSUME l + 1 <= d PROVE FALSE
    OBVIOUS
  <2>1. PICK j : j = l + 1
    OBVIOUS
  <2>2. j \in 1..d
    BY <2>1
  <2> QED
    BY <1>15, <1>20, <2>1, <2>2, Zenon
<1>22. l # d
  <2> SUFFICES ASSUME l = d PROVE FALSE
    OBVIOUS
  <2>1. a + (l + 1) = a + d + 1
    OBVIOUS
  <2> QED
    BY <1>14, <1>20, <2>1
<1>23. d + 1 <= l
  BY <1>21, <1>22
<1>24. d + 1 \in 1..l /\ a + (d + 1) = a + d + 1 /\ \A j \in 1..d : j \in 1..l
  BY <1>23
<1>25. lines[h][d + 1] = 58
  BY <1>14, <1>20, <1>24, ZenonT(60)
<1>26. \A j \in 1..d : lines[h][j] = t[j]
  BY <1>14, <1>20, <1>24, Zenon
<1>27. NamedLine(lines[h], t)
  BY <1>3, <1>18, <1>23, <1>25, <1>26, Zenon DEF NamedLine
<1> QED
  BY <1>27, Zenon

\* A line has one name.
LEMMA OneName ==
  ASSUME NEW x, NEW s \in Seq(Bytes), NEW t \in Seq(Bytes), NamedLine(x, s), NamedLine(x, t)
  PROVE  s = t
<1>1. PICK a \in Nat, b \in Nat : a = Len(s) /\ b = Len(t)
  BY LenProperties
<1>2. x[a + 1] = 58 /\ \A j \in 1..a : x[j] = s[j] /\ s[j] # 58
  BY <1>1, Zenon DEF NamedLine
<1>3. x[b + 1] = 58 /\ \A j \in 1..b : x[j] = t[j] /\ t[j] # 58
  BY <1>1, Zenon DEF NamedLine
<1>4. a + 1 \notin 1..b /\ b + 1 \notin 1..a
  BY <1>2, <1>3, Zenon
<1>5. a = b
  BY <1>4
<1>6. \A j \in 1..a : s[j] = t[j]
  BY <1>2, <1>3, <1>5, Zenon
<1> QED
  BY <1>1, <1>5, <1>6, SeqEqual, Zenon

\* A client finds the accept key in a line of its own, and the line of a subprotocol
\* if and only if the request had one.
LEMMA AnswerIsRead ==
  ASSUME NEW p, NEW a \in Seq(Unbroken), NEW r, r = PackHandshakeRsp(p, a)
  PROVE  /\ Find(r, EOL \o Text["Sec-WebSocket-Accept"] \o <<COLON, SP>> \o a \o EOL, 1) # 0
         /\ Find(r, EOL \o Text["Sec-WebSocket-Protocol"] \o <<COLON>>, 1) # 0
              <=> GetParam(p, "Sec-WebSocket-Protocol") # <<>>
<1>1. PICK lines, n : Answers(lines, n, p, a) /\ r = EncodeRequest(lines)
  BY RspIsLines, Zenon
<1>2. /\ lines \in Seq(Lines) /\ n = Len(lines)
      /\ lines[2] = RspLine("Connection", Text["upgrade"])
      /\ lines[3] = RspLine("Upgrade", Text["websocket"])
      /\ lines[4] = RspLine("Sec-WebSocket-Accept", a)
      /\ IF GetParam(p, "Sec-WebSocket-Protocol") = <<>> THEN n = 4
         ELSE n = 5 /\ lines[5] = RspLine("Sec-WebSocket-Protocol", Text["chat"])
  BY <1>1, Zenon DEF Answers
<1>3. n \in Nat /\ n > 0 /\ 4 \in 2..n /\ (n = 5 => 5 \in 2..n) /\ n \in {4, 5}
  <2>1. n = 4 \/ n = 5
    BY <1>2, Zenon
  <2> QED
    BY <2>1
<1>4. PICK c : LinesIn(r, n, lines, c)
  BY <1>1, <1>2, <1>3, RequestLines, Zenon
<1>5. /\ "Connection" \in Strings /\ "upgrade" \in Strings
      /\ "Upgrade" \in Strings /\ "websocket" \in Strings
      /\ "Sec-WebSocket-Accept" \in Strings /\ "Sec-WebSocket-Protocol" \in Strings
      /\ "chat" \in Strings
  BY DEF Strings
<1>6. PICK t \in Seq(Bytes) :
        /\ t = Text["Sec-WebSocket-Protocol"] /\ Len(t) > 0
        /\ \A j \in 1..Len(t) : t[j] # 13 /\ t[j] # 58
  BY <1>5, TextIs, ZenonT(60)
<1>7. PICK what : what = EOL \o t \o <<COLON>>
  OBVIOUS
<1>8. Find(r, EOL \o Text["Sec-WebSocket-Accept"] \o <<COLON, SP>> \o a \o EOL, 1) # 0
  <2>1. PICK x : x = lines[4]
    OBVIOUS
  <2>2. x \in Seq(Bytes)
    <3>1. x \in Lines
      BY <1>2, <1>5, <2>1, RspLineIs, Zenon
    <3> QED
      BY <3>1, LineIsBytes, Zenon
  <2>3. Find(r, EOL \o x \o EOL, 1) # 0
    BY <1>3, <1>4, <2>1, <2>2, LineFound, Zenon
  <2>4. PICK name \in Seq(Bytes) : name = Text["Sec-WebSocket-Accept"]
    BY <1>5, TextIs, Zenon
  <2>5. PICK eol \in Seq(Bytes) : eol = EOL
    BY EolIs, Zenon
  <2>6. PICK m \in Seq(Bytes) : m = <<COLON, SP>>
    <3>1. <<COLON, SP>> \in Seq(Bytes)
      BY DEF COLON, SP, Bytes
    <3> QED
      BY <3>1, Zenon
  <2>7. a \in Seq(Bytes)
    <3>1. Unbroken \subseteq Bytes
      BY DEF Unbroken, Bytes
    <3> QED
      BY <3>1, SeqMonotonic, Zenon
  <2>8. x = (name \o m) \o a
    BY <1>2, <2>1, <2>4, <2>6, Zenon DEF RspLine
  <2>9. eol \o ((name \o m) \o a) = ((eol \o name) \o m) \o a
    <3>1. PICK named \in Seq(Bytes) : named = name \o m
      BY ConcatProperties, Zenon
    <3>2. PICK key \in Seq(Bytes) : key = a
      BY <2>7, Zenon
    <3>3. PICK v : v = (eol \o named) \o key
      OBVIOUS
    <3>4. v = eol \o (named \o key)
      BY <3>3, Regroup, SMTT(60)
    <3>5. PICK w : w = (eol \o name) \o m
      OBVIOUS
    <3>6. w = eol \o (name \o m)
      BY <3>5, Regroup, SMTT(60)
    <3> QED
      BY <3>1, <3>2, <3>3, <3>4, <3>5, <3>6, Zenon
  <2>10. EOL \o x \o EOL
           = EOL \o Text["Sec-WebSocket-Accept"] \o <<COLON, SP>> \o a \o EOL
    BY <2>4, <2>5, <2>6, <2>8, <2>9, Zenon
  <2> QED
    BY <2>3, <2>10, Zenon
<1>9. ASSUME GetParam(p, "Sec-WebSocket-Protocol") # <<>>
      PROVE  Find(r, what, 1) # 0
  <2>1. n = 5 /\ lines[5] = RspLine("Sec-WebSocket-Protocol", Text["chat"])
    BY <1>2, <1>9, Zenon
  <2>2. NamedLine(lines[5], t)
    BY <1>5, <1>6, <2>1, TextIs, RspLineIs, Zenon
  <2>3. 5 \in 2..n
    BY <1>3, <2>1
  <2> QED
    BY <1>4, <1>7, <2>2, <2>3, NameFound, Zenon
<1>10. ASSUME Find(r, what, 1) # 0, GetParam(p, "Sec-WebSocket-Protocol") = <<>>
       PROVE  FALSE
  <2>1. PICK k \in 2..n : NamedLine(lines[k], t)
    BY <1>4, <1>6, <1>7, <1>10, NameStands, ZenonT(60)
  <2>2. n = 4
    BY <1>2, <1>10, Zenon
  <2>3. k = 2 \/ k = 3 \/ k = 4
    BY <2>2
  <2>4. PICK name \in Strings :
          name # "Sec-WebSocket-Protocol" /\ NamedLine(lines[k], Text[name])
    <3>1. /\ "Connection" # "Sec-WebSocket-Protocol"
          /\ "Upgrade" # "Sec-WebSocket-Protocol"
          /\ "Sec-WebSocket-Accept" # "Sec-WebSocket-Protocol"
      OBVIOUS
    <3>2. CASE k = 2
      BY <1>2, <1>5, <3>1, <3>2, TextIs, RspLineIs, Zenon
    <3>3. CASE k = 3
      BY <1>2, <1>5, <3>1, <3>3, TextIs, RspLineIs, Zenon
    <3>4. CASE k = 4
      BY <1>2, <1>5, <3>1, <3>4, RspLineIs, Zenon
    <3> QED
      BY <2>3, <3>2, <3>3, <3>4, Zenon
  <2>5. Text[name] \in Seq(Bytes)
    BY <2>4, TextIs, Zenon
  <2>6. Text[name] = t
    BY <2>1, <2>4, <2>5, OneName, Zenon
  <2> QED
    BY <1>5, <1>6, <2>4, <2>6, HandshakeAssumption, Zenon DEF HandshakeAssumption
<1> QED
  BY <1>6, <1>7, <1>8, <1>9, <1>10, Zenon
=============================================================================
