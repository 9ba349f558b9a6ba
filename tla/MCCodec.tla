------------------------------- MODULE MCCodec -------------------------------
(* Instances of FrameCodec for TLC. *)
EXTENDS FrameCodec

MCKey == <<1, 130, 255, 4>>

Packet(fin, rsv, opcode, mask, n) ==
  [fin |-> fin, rsv |-> rsv, opcode |-> opcode, mask |-> mask,
   payload |-> [i \in 1..n |-> (5 + 37 * i) % 256]]

\* Around every change of the length form that the receiver supports
ShortPackets ==
  {Packet(fin, 0, op, mask, n) : fin \in {0, 1}, op \in {OpContinue, OpText, OpPong},
                                 mask \in {0, 1}, n \in {1, 3, 4, 125, 126, 127, 256}}
    \cup {Packet(1, 0, OpClose, 1, 0), Packet(0, 5, OpBinary, 0, 300), Packet(1, 0, OpBinary, 0, 65535)}

LongPackets == {Packet(1, 0, OpBinary, 0, 65536)}
=============================================================================
