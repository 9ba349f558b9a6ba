----------------------------- MODULE Sha1Rounds -----------------------------
(***************************************************************************)
(* The arithmetic of SecureHashAlgorithm::Process (sha1_portable.cpp),     *)
(* from the sixteen words of a block on.                                   *)
(***************************************************************************)
EXTENDS Word32

f(t, B, C, D) ==
  CASE t < 20            -> BitOr(BitAnd(B, C), BitAnd(Complement(B), D))
    [] t >= 20 /\ t < 40 -> BitXor(BitXor(B, C), D)
    [] t >= 40 /\ t < 60 -> BitOr(BitOr(BitAnd(B, C), BitAnd(B, D)), BitAnd(C, D))
    [] t >= 60           -> BitXor(BitXor(B, C), D)

\* Mutant: the rotation before FIPS 180-1.
ShiftOnly(n, X) ==
  LET r == RotateLeft(n, X)
  IN  Word(LAMBDA i : r[i] - (IF i = 4 THEN r[i] % 2 ELSE 0))

S(n, X) == RotateLeft(n, X)

\* 0x5a827999, 0x6ed9eba1, 0x8f1bbcdc, 0xca62c1d6
K(t) ==
  CASE t < 20            -> <<90, 130, 121, 153>>
    [] t >= 20 /\ t < 40 -> <<110, 217, 235, 161>>
    [] t >= 40 /\ t < 60 -> <<143, 27, 188, 220>>
    [] t >= 60           -> <<202, 98, 193, 214>>

\* Step b: W[t] is element t + 1 of the sequence.
RECURSIVE Schedule(_)
Schedule(W) ==
  LET t  == Len(W)
      w(i) == W[i + 1]
  IN  IF t = 80 THEN W
      ELSE Schedule(Append(W, S(1, BitXor(BitXor(BitXor(w(t - 3), w(t - 8)), w(t - 14)),
                                          w(t - 16)))))

\* Steps c and d: <<A, B, C, D, E>> at first and after each of 80 turns
RECURSIVE Turns(_, _)
Turns(W, turns) ==
  LET t == Len(turns) - 1
      A == turns[t + 1][1]
      B == turns[t + 1][2]
      C == turns[t + 1][3]
      D == turns[t + 1][4]
      E == turns[t + 1][5]
      TEMP == Plus(Plus(Plus(Plus(S(5, A), f(t, B, C, D)), E), W[t + 1]), K(t))
  IN  IF t = 80 THEN turns ELSE Turns(W, Append(turns, <<TEMP, A, S(30, B), C, D>>))

\* Steps b to e: from H and W[0..15] to the new H
Rounds(H, words) ==
  LET W == Schedule([i \in 1..16 |-> words[i - 1]])
      p == Turns(W, <<H>>)[81]
  IN  << Plus(H[1], p[1]), Plus(H[2], p[2]), Plus(H[3], p[3]), Plus(H[4], p[4]), Plus(H[5], p[5]) >>
=============================================================================
