----------------------------- MODULE ByteBuffer -----------------------------
(***************************************************************************)
(* ByteBuffer (ws_packet.h, ws_packet.cpp): the growing array of bytes     *)
(* with a read cursor through which everything else in the project looks   *)
(* at its input.  A buffer is a record of its contents, data, and of the   *)
(* cursor, oft, which counts the bytes already read.  Operations that can  *)
(* change the buffer return the new one; the state belongs to the modules  *)
(* that own a buffer.                                                      *)
(*                                                                         *)
(* Sizes are C ints: every length, cursor and argument here is below 2^31  *)
(* in absolute value.                                                      *)
(***************************************************************************)
EXTENDS Integers, Sequences

Bytes == 0..255
Buffer == [data : Seq(Bytes), oft : Nat]

EmptyBuffer == [data |-> <<>>, oft |-> 0]

BufferOf(bytes) == [data |-> bytes, oft |-> 0]

Length(b) == Len(b.data)

(***************************************************************************)
(* "require <= len - oft" with oft a uint32_t: both sides are compared     *)
(* modulo 2^32, where a negative number is larger than every other one.    *)
(* A cursor beyond the end therefore makes the test succeed.               *)
(***************************************************************************)
Require(b, n) ==
  LET room == Length(b) - b.oft
  IN  \/ n >= 0 /\ room < 0
      \/ (n >= 0 <=> room >= 0) /\ n <= room

Skip(b, n) == IF Require(b, n) THEN [b EXCEPT !.oft = @ + n] ELSE b

\* What read_bytes_x(cb, n) leaves in a variable that held old: a read that
\* finds too few bytes touches neither the variable nor the cursor (Skip).
Read(b, n, old) ==
  IF Require(b, n) THEN SubSeq(b.data, b.oft + 1, b.oft + n) ELSE old

\* data.at(oft) of curat() throws std::out_of_range; an empty buffer gives NULL.
CuratThrows(b) == Length(b) > 0 /\ b.oft >= Length(b)

ResetOft(b) == [b EXCEPT !.oft = 0]

AppendBytes(b, bytes) == [b EXCEPT !.data = @ \o bytes]

\* Mutant: drops the bytes from the end.
EraseTail(b, n) ==
  [b EXCEPT !.data = IF n <= 0 THEN @ ELSE SubSeq(@, 1, Len(@) - n)]

\* erase() leaves the cursor where it is.
Erase(b, n) ==
  [b EXCEPT !.data = IF n <= 0 THEN @ ELSE SubSeq(@, n + 1, Len(@))]
=============================================================================
