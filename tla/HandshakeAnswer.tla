--------------------------- MODULE HandshakeAnswer ---------------------------
(***************************************************************************)
(* A WebSocketPacket that receives a request and packs the answer to it:   *)
(* recv_handshake, and pack_handshake_rsp with SHA1HashString and          *)
(* Base64encode, from the text of the request to the text of the answer.   *)
(* WebSocketEndpoint has all this in one step and the accept key as a      *)
(* parameter.                                                              *)
(***************************************************************************)
EXTENDS WebSocketHandshake, WebSocketPeer, SecureHashAlgorithm, Base64, RFC4648

CONSTANTS Requests,    \* [bytes, valid, key, offers, lines, fields]: the text, what a client means
                       \* by it, and the lines and fields that it may be made of
          ExpectedAccept(_)   \* the accept key a client expects for its key

ASSUME RequestsAssumption ==
  \A r \in Requests :
    /\ r.bytes \in Seq(Bytes) /\ r.key \in Seq(Bytes)
    /\ r.valid \in BOOLEAN /\ r.offers \in BOOLEAN

VARIABLES request,
          phase,     \* "recv", "hash", "hashed", "done"; "refused", "waiting"
          params,    \* params_ of the packet
          raw_key,   \* the local of pack_handshake_rsp
          answer     \* hs_rsp

answerVars == <<shaVars, request, phase, params, raw_key, answer>>

\* magic_key, "258EAFA5-E914-47DA-95CA-C5AB0DC85B11"
magic_key == << 50, 53, 56, 69, 65, 70, 65, 53, 45, 69, 57, 49, 52, 45, 52, 55, 68, 65,
                45, 57, 53, 67, 65, 45, 67, 53, 65, 66, 48, 68, 67, 56, 53, 66, 49, 49 >>

AnswerInit ==
  /\ ShaInit
  /\ request \in Requests
  /\ phase = "recv" /\ params = <<>> /\ raw_key = <<>> /\ answer = <<>>

\* recv_handshake, and what parse_packet makes of it
Recv ==
  /\ phase = "recv"
  /\ \E uninit \in UninitHs :
       LET hs == RecvHandshake(BufferOf(request.bytes), uninit)
       IN  /\ params' = hs.params
           /\ phase' = IF hs.error THEN "refused" ELSE IF hs.length = 0 THEN "waiting" ELSE "hash"
           /\ raw_key' = GetParam(hs.params, "Sec-WebSocket-Key") \o magic_key
  /\ UNCHANGED <<shaVars, request, answer>>

HashByte ==
  /\ phase = "hash" /\ Len(message) < Len(raw_key)
  /\ UpdateByte(raw_key[Len(message) + 1])
  /\ UNCHANGED <<request, phase, params, raw_key, answer>>

HashFinal ==
  /\ phase = "hash" /\ Len(message) = Len(raw_key)
  /\ Final
  /\ phase' = "hashed"
  /\ UNCHANGED <<request, params, raw_key, answer>>

PackAnswer ==
  /\ phase = "hashed"
  /\ answer' = PackHandshakeRsp(params, Base64encode(Digest))
  /\ phase' = "done"
  /\ UNCHANGED <<shaVars, request, params, raw_key>>

AnswerNext == Recv \/ HashByte \/ HashFinal \/ PackAnswer

AnswerSpec == AnswerInit /\ [][AnswerNext]_answerVars

-----------------------------------------------------------------------------
AnswerTypeOK ==
  /\ M \in [0..63 -> Bytes] /\ cursor \in 0..63 /\ l \in 0..(Wrap - 1)
  /\ H \in [1..5 -> [1..4 -> Bytes]]
  /\ answer \in Seq(Bytes) /\ Base64encode(Digest) \in Seq(Bytes)
  /\ phase \in {"recv", "hash", "hashed", "done", "refused", "waiting"}

\* What a client sends that knows HTTP: lines that say fields, and what it means by
\* them
SaysIn(r, lines, fields) ==
  /\ SaysRequest(lines, fields) /\ r.bytes = EncodeRequest(lines)
  /\ r.valid = MeansHandshake(fields, Text)
  /\ r.valid => /\ r.key = Said(fields, Text["Sec-WebSocket-Key"])
                /\ r.offers = (Said(fields, Text["Sec-WebSocket-Protocol"]) # <<>>)

PlainRequest(r) == Len(r.bytes) <= MaxHandshake /\ \E lines, fields : SaysIn(r, lines, fields)

\* It is plain by the lines and fields that the request itself names.
Plain(r) == Len(r.bytes) <= MaxHandshake /\ SaysIn(r, r.lines, r.fields)

JudgedRight ==
  /\ phase \in {"refused", "waiting"} => ~request.valid
  /\ phase \in {"hash", "hashed", "done"} => request.valid /\ raw_key = request.key \o magic_key

\* A request of whole lines that say fields is answered if and only if the client
\* means it as a handshake, and with the key that the client put into it, whatever
\* the order of its lines, the blanks in them and the lines that mean nothing.
\* It is about these only: a text that is cut, that has an empty line too early or
\* whose first line is no request line leaves hs_length_ as it was in memory, and
\* that decides whether it is answered (AnswersWholeRequest of WebSocketEndpoint).
RequestsJudged == Plain(request) => JudgedRight

AcceptFound ==
  phase = "done" =>
    /\ Find(answer, EOL \o Text["Sec-WebSocket-Accept"] \o <<COLON, SP>>
                        \o ExpectedAccept(request.key) \o EOL, 1) # 0
    /\ (Find(answer, EOL \o Text["Sec-WebSocket-Protocol"] \o <<COLON>>, 1) # 0) <=> request.offers

\* The client finds the accept key that it computes for itself, in a line of its
\* own, and a subprotocol only if it offered one.
ClientAccepts == Plain(request) => AcceptFound

\* Whatever part of a key is at hand: Base64encode gives the text of the standard,
\* in the room that Base64encode_len asks for, Base64decode gives the bytes back,
\* also from a text that is cut, and writes as many as it says and no more than
\* Base64decode_len leaves room for.
Base64Inverse ==
  LET coded == Base64encode(message)
  IN  /\ coded = StandardBase64(message)
      /\ Len(coded) + 1 = Base64encode_len(Len(message))
      /\ Base64decode(coded).bytes = message
      /\ \A cut \in (Len(coded) - 5)..Len(coded) :
           cut >= 0 =>
             LET part == SubSeq(coded, 1, cut)
                 got  == Base64decode(part)
             IN  /\ got.count = Len(got.bytes) /\ Len(got.bytes) < Base64decode_len(part)
                 /\ got.bytes = SubSeq(message, 1, Len(got.bytes))
                 /\ cut < Len(coded) - 2 => Len(got.bytes) = (6 * cut) \div 8
=============================================================================
