---------------------------- MODULE WebSocketPeer ----------------------------
(***************************************************************************)
(* The other end of a connection, which is not part of this repository:    *)
(* what a WebSocket client puts on the wire and what it means by it,       *)
(* written from RFC 6455 (sections 4.1, 5.2, 5.3 and 5.4), which README.md *)
(* says the code supports.  The endpoint is checked against it.            *)
(*                                                                         *)
(* A frame is [fin, opcode, key, payload]; key is the masking key, or <<>> *)
(* in a frame that is not masked.                                          *)
(***************************************************************************)
EXTENDS Integers, Sequences, FiniteSets

\* a XOR b as RFC 6455 5.3 needs it
PeerXor(a, b) ==
  LET Bit(n) == n * (((a \div n) + (b \div n)) % 2)
  IN  Bit(1) + Bit(2) + Bit(4) + Bit(8) + Bit(16) + Bit(32) + Bit(64) + Bit(128)

EncodeHeader(f) ==
  LET n == Len(f.payload)
      masked == IF f.key = <<>> THEN 0 ELSE 128
  IN  << 128 * f.fin + f.opcode >>
      \o (IF n <= 125 THEN << masked + n >>
          ELSE IF n < 65536 THEN << masked + 126, n \div 256, n % 256 >>
          ELSE << masked + 127, 0, 0, 0, 0, (n \div 16777216) % 256,
                  (n \div 65536) % 256, (n \div 256) % 256, n % 256 >>)
      \o f.key

EncodeFrame(f) ==
  EncodeHeader(f)
    \o (IF f.key = <<>> THEN f.payload
        ELSE [i \in 1..Len(f.payload) |->
                PeerXor(f.payload[i], f.key[1 + ((i - 1) % 4)])])

\* A beginning, and one piece after the other behind it
Chain(first, pieces) ==
  LET chain[k \in 0..Len(pieces)] == IF k = 0 THEN first ELSE chain[k - 1] \o pieces[k]
  IN  chain

\* Lines with something in them, and without the CR and the LF that end them
Lines == Seq((0..255) \ {13, 10}) \ {<<>>}

\* Each line followed by CR LF, then an empty line
EncodeRequest(lines) ==
  Chain(<<>>, [i \in 1..Len(lines) |-> lines[i] \o <<13, 10>>])[Len(lines)] \o <<13, 10>>

(***************************************************************************)
(* What a client says in the lines of a request, line for line: a field is *)
(* a name and a value (RFC 7230, 3.2), with blanks wherever the client     *)
(* puts them; a line that says nothing is NoField.                         *)
(***************************************************************************)
HeaderFields == [name : Seq((0..255) \ {13, 10, 58}), value : Seq((0..255) \ {13, 10})]

NoField == [name |-> <<>>, value |-> <<>>]

Blanks(n) == [i \in 1..n |-> 32]

FieldLine(f, a, b, c, d) ==
  Blanks(a) \o f.name \o Blanks(b) \o <<58>> \o Blanks(c) \o f.value \o Blanks(d)

\* No blank at either end
Stripped(s) == s # <<>> => s[1] # 32 /\ s[Len(s)] # 32

SaysField(line, f) ==
  \/ f = NoField /\ \A i \in 1..Len(line) : line[i] # 58
  \/ /\ Stripped(f.name) /\ Stripped(f.value)
     /\ \E a, b, c, d \in 0..Len(line) : line = FieldLine(f, a, b, c, d)

\* Three words with a blank between them
IsRequestLine(line) ==
  \E i, j \in 2..(Len(line) - 1) :
    i + 1 < j /\ {k \in 1..Len(line) : line[k] = 32} = {i, j}

\* A request line, behind lines of blanks if there are any, and the fields
SaysRequest(lines, fields) ==
  /\ lines \in Seq(Lines) /\ fields \in Seq(HeaderFields)
  /\ Len(fields) = Len(lines) /\ Len(lines) >= 2
  /\ \E first \in 1..Len(lines) :
       /\ \A i \in 1..(first - 1) : lines[i] = Blanks(Len(lines[i]))
       /\ IsRequestLine(lines[first])
       /\ \A i \in 1..Len(lines) :
            IF i <= first THEN fields[i] = NoField ELSE SaysField(lines[i], fields[i])

\* What the fields say with a name: the last value there is
Said(fields, name) ==
  LET said == {i \in 1..Len(fields) : fields[i].name = name /\ fields[i].value # <<>>}
  IN  IF said = {} THEN <<>> ELSE fields[CHOOSE i \in said : \A j \in said : j <= i].value

\* 4.1; text is the names and values in bytes.
MeansHandshake(fields, text) ==
  /\ Said(fields, text["Upgrade"]) = text["websocket"]
  /\ Said(fields, text["Connection"]) = text["Upgrade"]
  /\ Said(fields, text["Sec-WebSocket-Version"]) = text["13"]
  /\ Said(fields, text["Sec-WebSocket-Key"]) # <<>>

IsControl(f) == f.opcode >= 8

\* All others are reserved.
DefinedOpcodes == {0, 1, 2, 8, 9, 10}

(***************************************************************************)
(* The messages in a sequence of frames: a control frame is one by itself, *)
(* also between the fragments of another; a data message has the opcode of *)
(* its first fragment, the payloads of all of them, and their number.      *)
(***************************************************************************)
NoFrames == [done |-> <<>>, open |-> FALSE, part |-> [opcode |-> 0, payload |-> <<>>, parts |-> 0]]

TakeFrame(s, f) ==
  LET m == IF ~IsControl(f) /\ s.open
           THEN [opcode  |-> s.part.opcode,
                 payload |-> s.part.payload \o f.payload,
                 parts   |-> s.part.parts + 1]
           ELSE [opcode |-> f.opcode, payload |-> f.payload, parts |-> 1]
  IN  IF IsControl(f) THEN [s EXCEPT !.done = Append(@, m)]
      ELSE [done |-> IF f.fin = 1 THEN Append(s.done, m) ELSE s.done,
            open |-> f.fin # 1,
            part |-> m]

\* What the first k frames make
Taken(frames) ==
  LET taken[k \in 0..Len(frames)] ==
        IF k = 0 THEN NoFrames ELSE TakeFrame(taken[k - 1], frames[k])
  IN  taken

Messages(frames) == Taken(frames)[Len(frames)].done

(***************************************************************************)
(* A peer: the length of its request and whether that has to be accepted,  *)
(* its frames, where the header and the whole of each of them ends, all    *)
(* its bytes, and the messages it means a server to take.                  *)
(***************************************************************************)
MakePeer(lines, valid, frames) ==
  LET wire == Chain(EncodeRequest(lines), [k \in 1..Len(frames) |-> EncodeFrame(frames[k])])
  IN  [request |-> Len(wire[0]),
       valid   |-> valid,
       frames  |-> frames,
       header  |-> [k \in 1..Len(frames) |-> Len(wire[k - 1]) + Len(EncodeHeader(frames[k]))],
       end     |-> [k \in 1..Len(frames) |-> Len(wire[k])],
       bytes   |-> wire[Len(frames)],
       talk    |-> IF valid THEN Messages(frames) ELSE <<>>]

\* Where the first k frames end
EndOf(p, k) == IF k = 0 THEN p.request ELSE p.end[k]

\* The frames in whose header the first n bytes stop: one, or none
CutHeaders(p, n) == {k \in 1..Len(p.frames) : n < p.header[k] /\ n > EndOf(p, k - 1)}

\* Frames of which no part can be taken for a frame by a receiver that reads
\* what is missing of a header as zeros or as the byte before it.  A first byte
\* that ends in 126 or 127 would announce an extended length.
Sturdy(f) == f.key # <<>> /\ Len(f.payload) \in 4..125 /\ f.opcode \in 1..125

\* How many frames, and how many bytes, the first n bytes complete.  A server
\* that refuses the request takes nothing.
FramesIn(p, n) == Cardinality({k \in 1..Len(p.frames) : p.valid /\ p.end[k] <= n})

BytesIn(p, n) ==
  IF ~p.valid \/ n < p.request THEN 0 ELSE EndOf(p, FramesIn(p, n))

\* A message is complete with each FIN frame.
MessageCount(p, n) == Cardinality({k \in 1..FramesIn(p, n) : p.frames[k].fin = 1})

MessagesIn(p, n) == SubSeq(p.talk, 1, MessageCount(p, n))
=============================================================================
