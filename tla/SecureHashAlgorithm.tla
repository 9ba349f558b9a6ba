------------------------- MODULE SecureHashAlgorithm -------------------------
(***************************************************************************)
(* The class SecureHashAlgorithm (sha1_portable.cpp): a message comes byte *)
(* by byte, is collected in the 64 bytes of M, and goes from there into H. *)
(* The arithmetic that mixes a block into H is a parameter.  M shares its  *)
(* memory with W[0..15]; a word in memory has its least significant byte   *)
(* first, a word here (Word32) its most significant one.                   *)
(***************************************************************************)
EXTENDS Integers, Sequences

CONSTANTS Compress(_, _),  \* H and W[0..15] to the new H
          UninitM,         \* what M may hold in a new object
          Wrap             \* 2^32, where the bit count l starts again at 0

VARIABLES M, cursor, l, H,
          message,   \* the bytes that were passed to Update
          fed,       \* the bytes of the blocks that Process took
          finished   \* whether Final was called

shaVars == <<M, cursor, l, H, message, fed, finished>>

ASSUME ShaAssumption ==
  /\ UninitM \subseteq [0..63 -> 0..255]
  /\ Wrap \in Nat /\ Wrap % 8 = 0 /\ Wrap > 0

\* 0x67452301, 0xefcdab89, 0x98badcfe, 0x10325476, 0xc3d2e1f0
H0 == << <<103, 69, 35, 1>>, <<239, 205, 171, 137>>, <<152, 186, 220, 254>>,
         <<16, 50, 84, 118>>, <<195, 210, 225, 240>> >>

ShaInit ==
  /\ M \in UninitM
  /\ cursor = 0 /\ l = 0 /\ H = H0
  /\ message = <<>> /\ fed = <<>> /\ finished = FALSE

SwapEnds(word) == <<word[4], word[3], word[2], word[1]>>

\* Step a of Process: the words of M with their ends swapped, and what that
\* makes of the bytes of M
Loaded(m) ==
  [t \in 0..15 |-> SwapEnds(<<m[4 * t + 3], m[4 * t + 2], m[4 * t + 1], m[4 * t]>>)]

Swapped(m) == [i \in 0..63 |-> m[i + 3 - 2 * (i % 4)]]

Block(m) == [i \in 1..64 |-> m[i - 1]]

\* Mutant: the last byte of a block still has to come.
BlockFullPast64(n) == n > 64

\* When Update calls Process
BlockFull(n) == n >= 64

\* One byte of Update, and Process when the block is full
UpdateByte(b) ==
  LET m == [M EXCEPT ![cursor] = b]
  IN  /\ ~finished
      /\ IF BlockFull(cursor + 1)
         THEN /\ M' = Swapped(m) /\ cursor' = 0
              /\ H' = Compress(H, Loaded(m))
              /\ fed' = fed \o Block(m)
         ELSE /\ M' = m /\ cursor' = cursor + 1
              /\ UNCHANGED <<H, fed>>
      /\ l' = IF l + 8 < Wrap THEN l + 8 ELSE l + 8 - Wrap
      /\ message' = Append(message, b)
      /\ UNCHANGED finished

\* The two halves of Pad that write: 0x80 and zeros up to position end, and the
\* length into the last four bytes
Marked(m, end) ==
  [i \in 0..63 |-> IF i = cursor THEN 128 ELSE IF i > cursor /\ i < end THEN 0 ELSE m[i]]

BigEndian(n) == << (n \div 16777216) % 256, (n \div 65536) % 256, (n \div 256) % 256, n % 256 >>

WithLength(m) == [i \in 0..63 |-> IF i < 60 THEN m[i] ELSE BigEndian(l)[i - 59]]

\* What Final does behind Pad, and last: Process, and H to the order of memory
Finish(m, h) ==
  /\ M' = Swapped(m) /\ cursor' = 0
  /\ H' = [t \in 1..5 |-> SwapEnds(Compress(h, Loaded(m))[t])]
  /\ finished' = TRUE
  /\ UNCHANGED <<l, message>>

\* Mutant: 0x80 and the length go into one block if four bytes are left for it.
FinalInOneBlockAt60 ==
  LET m == WithLength(Marked(M, 60))
  IN  /\ ~finished /\ cursor < 60
      /\ fed' = fed \o Block(m)
      /\ Finish(m, H)

\* Final when the length still fits behind 0x80 (cursor <= 64-8 in Pad)
FinalInOneBlock ==
  LET m == WithLength(Marked(M, 60))
  IN  /\ ~finished /\ cursor < 56
      /\ fed' = fed \o Block(m)
      /\ Finish(m, H)

\* Final with a block for the length alone
FinalInTwoBlocks ==
  LET m1 == Marked(M, 64)
      m2 == WithLength([i \in 0..63 |-> IF i < 60 THEN 0 ELSE Swapped(m1)[i]])
  IN  /\ ~finished /\ cursor >= 56
      /\ fed' = fed \o Block(m1) \o Block(m2)
      /\ Finish(m2, Compress(H, Loaded(m1)))

Final == FinalInOneBlock \/ FinalInTwoBlocks

\* Digest(): the memory of H
Digest == [k \in 1..20 |-> H[((k - 1) \div 4) + 1][4 - ((k - 1) % 4)]]

ShaNext == Final \/ \E b \in 0..255 : UpdateByte(b)

ShaSpec == ShaInit /\ [][ShaNext]_shaVars

-----------------------------------------------------------------------------
\* FIPS 180-3, 5.1.1: a message with 0x80, as few zeros as fill up the block with
\* the 64 bits of the length behind them
Padded(m) ==
  m \o <<128>> \o [i \in 1..((55 - Len(m)) % 64) |-> 0] \o <<0, 0, 0, 0>> \o BigEndian(8 * Len(m))

\* What goes into the hash, block after block, is the message padded by the
\* standard, wherever the message stops in a block and whatever M held before,
\* up to the length that l can count.
BlocksArePadded == finished /\ 8 * Len(message) < Wrap => fed = Padded(message)
=============================================================================
