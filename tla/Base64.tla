------------------------------- MODULE Base64 -------------------------------
(***************************************************************************)
(* Base64 (base64.cpp) on sequences of bytes.  A coded string ends with    *)
(* a '\0', which is not among its bytes here.                              *)
(***************************************************************************)
EXTENDS Integers, Sequences

\* basis_64: A-Z, a-z, 0-9, +, /
Basis64(n) ==
  CASE n < 26            -> 65 + n
    [] n >= 26 /\ n < 52 -> 71 + n
    [] n >= 52 /\ n < 62 -> n - 4
    [] n = 62            -> 43
    [] n = 63            -> 47

\* pr2six: the inverse, and 64 for every other byte
Pr2Six(c) ==
  CASE c \in 65..90  -> c - 65
    [] c \in 97..122 -> c - 71
    [] c \in 48..57  -> c + 4
    [] c = 43        -> 62
    [] c = 47        -> 63
    [] OTHER         -> 64

Pad == 61

\* The k-th n bytes of s, or what is left of them
Group(s, n, k) == SubSeq(s, n * k - n + 1, IF n * k < Len(s) THEN n * k ELSE Len(s))

\* One turn of the loop of Base64encode
EncodeGroup(g) ==
  << Basis64(g[1] \div 4), Basis64((g[1] % 4) * 16 + g[2] \div 16),
     Basis64((g[2] % 16) * 4 + g[3] \div 64), Basis64(g[3] % 64) >>

\* The one or two bytes behind the last group of three
EncodeTail(g) ==
  IF Len(g) = 1
  THEN << Basis64(g[1] \div 4), Basis64((g[1] % 4) * 16), Pad, Pad >>
  ELSE << Basis64(g[1] \div 4), Basis64((g[1] % 4) * 16 + g[2] \div 16),
          Basis64((g[2] % 16) * 4), Pad >>

\* Character i is in the group (i + 3) \div 4 of four.
Base64encode(s) ==
  LET Encoded(g) == IF Len(g) = 3 THEN EncodeGroup(g) ELSE EncodeTail(g)
  IN  [i \in 1..(4 * ((Len(s) + 2) \div 3)) |->
         Encoded(Group(s, 3, (i + 3) \div 4))[((i - 1) % 4) + 1]]

\* What a caller has to allocate for it
Base64encode_len(len) == ((len + 2) \div 3) * 4 + 1

\* nprbytes: the bytes in front of the first that is not of the alphabet
Coded(s) ==
  LET others == {i \in 1..Len(s) : Pr2Six(s[i]) > 63}
  IN  IF others = {} THEN Len(s) ELSE (CHOOSE i \in others : \A j \in others : i <= j) - 1

\* Up to three bytes out of up to four; of a single one nothing is made.
DecodeGroup(s) ==
  LET six(i) == Pr2Six(s[i])
      byte(k) == CASE k = 1 -> six(1) * 4 + six(2) \div 16
                   [] k = 2 -> six(2) * 16 + six(3) \div 4
                   [] k = 3 -> six(3) * 64 + six(4)
  IN  [k \in 1..(IF Len(s) = 0 THEN 0 ELSE Len(s) - 1) |-> byte(k) % 256]

\* The first n bytes of what the characters in front of the first other one say
Decoded(s, n) ==
  LET coded == SubSeq(s, 1, Coded(s))
  IN  [i \in 1..n |-> DecodeGroup(Group(coded, 4, (i + 2) \div 3))[((i - 1) % 3) + 1]]

\* Mutant: the loop also takes the last four, and the tail finds nothing.
Base64decodeFullGroups(s) ==
  LET n == Coded(s)
  IN  [bytes |-> Decoded(s, 3 * (n \div 4)), count |-> ((n + 3) \div 4) * 3 - ((4 - n) % 4)]

\* The bytes that Base64decode writes in front of its '\0', and the number that
\* it returns
Base64decode(s) ==
  LET n     == Coded(s)
      loops == IF n > 4 THEN (n - 1) \div 4 ELSE 0
      tail  == n - 4 * loops
  IN  [bytes |-> Decoded(s, 3 * loops + (IF tail > 1 THEN tail - 1 ELSE 0)),
       count |-> ((n + 3) \div 4) * 3 - ((4 - n) % 4)]

Base64decode_len(s) == ((Coded(s) + 3) \div 4) * 3 + 1
=============================================================================
