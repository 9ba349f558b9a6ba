------------------------------- MODULE Word32 -------------------------------
(***************************************************************************)
(* The operators of C on uint32_t.  A word is the sequence of its four     *)
(* bytes, the most significant first, so that no number in a model is      *)
(* wider than TLC's.                                                       *)
(***************************************************************************)
EXTENDS Integers, Sequences, Bitwise

Word(Byte(_)) == <<Byte(1), Byte(2), Byte(3), Byte(4)>>

BitAnd(x, y) == Word(LAMBDA i : x[i] & y[i])
BitOr(x, y)  == Word(LAMBDA i : x[i] | y[i])
BitXor(x, y) == Word(LAMBDA i : x[i] ^^ y[i])
Complement(x) == Word(LAMBDA i : 255 - x[i])

\* Addition modulo 2^32, byte by byte with the carry of the bytes behind
Plus(x, y) ==
  LET sum[i \in 1..5] == IF i = 5 THEN 0 ELSE x[i] + y[i] + sum[i + 1] \div 256
  IN  Word(LAMBDA i : sum[i] % 256)

\* Rotation to the left by n bits
RotateLeft(n, x) ==
  LET from(i) == x[((i - 1 + n \div 8) % 4) + 1]
      high    == 2^(n % 8)
  IN  Word(LAMBDA i : ((from(i) * high) % 256) + from(i + 1) \div (256 \div high))
=============================================================================
