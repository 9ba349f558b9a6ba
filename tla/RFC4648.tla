------------------------------- MODULE RFC4648 -------------------------------
(***************************************************************************)
(* Base64 as RFC 4648, 4 has it: bit by bit, and not from this repository. *)
(***************************************************************************)
EXTENDS Integers, Sequences

Alphabet ==
  [i \in 1..26 |-> 64 + i] \o [i \in 1..26 |-> 96 + i] \o [i \in 1..10 |-> 47 + i] \o <<43, 47>>

\* Bit j of a string of bytes, the most significant of each first, and 0 behind
\* its end
BitOf(s, j) ==
  IF j >= 8 * Len(s) THEN 0
  ELSE (s[j \div 8 + 1] \div <<128, 64, 32, 16, 8, 4, 2, 1>>[(j % 8) + 1]) % 2

\* The number that the six bits from j on are
SixBits(s, j) ==
  32 * BitOf(s, j) + 16 * BitOf(s, j + 1) + 8 * BitOf(s, j + 2)
    + 4 * BitOf(s, j + 3) + 2 * BitOf(s, j + 4) + BitOf(s, j + 5)

\* Each six bits become a character, "=" fills up the last four.
StandardBase64(s) ==
  [k \in 1..(4 * ((Len(s) + 2) \div 3)) |->
     IF 6 * (k - 1) >= 8 * Len(s) THEN 61 ELSE Alphabet[SixBits(s, 6 * (k - 1)) + 1]]
=============================================================================
