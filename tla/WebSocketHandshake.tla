-------------------------- MODULE WebSocketHandshake --------------------------
(***************************************************************************)
(* The handshake half of WebSocketPacket: recv_handshake with              *)
(* fetch_hs_element, and pack_handshake_rsp (ws_packet.cpp).  Requests and *)
(* answers are bytes; how the names and values that the code knows are     *)
(* spelt is a parameter, so that an instance can abbreviate them.          *)
(***************************************************************************)
EXTENDS ByteBuffer, StrHelper

CONSTANTS Text,          \* the strings of Strings as bytes
          MaxHandshake,  \* WS_MAX_HANDSHAKE_FRAME_SIZE
          UninitHs       \* what an uninitialised hs_length_ may hold

CR == 13
LF == 10
SP == 32
COLON == 58
EOL == <<CR, LF>>

Strings == {"Upgrade", "websocket", "Connection", "Sec-WebSocket-Version", "13",
            "Sec-WebSocket-Key", "Sec-WebSocket-Protocol", "upgrade", "chat",
            "Sec-WebSocket-Accept", "HTTP/1.1 101 Switching Protocols"}

\* A string is at least one byte, and no two are the same.
ASSUME HandshakeAssumption ==
  /\ Text \in [Strings -> Seq(Bytes \ {CR, LF, COLON}) \ {<<>>}]
  /\ \A s, t \in Strings : Text[s] = Text[t] => s = t
  /\ MaxHandshake \in Nat
  /\ UninitHs \subseteq Int /\ UninitHs # {}

\* The name and the value in a line, cut at the first colon; without one, or
\* with nothing on a side of it, the line is skipped (Params).
HeaderField(line) ==
  LET pos == Find(line, <<COLON>>, 1)
  IN  [name  |-> Trim(SubSeq(line, 1, pos - 1), SP),
       value |-> IF pos = 0 THEN <<>> ELSE Trim(SubSeq(line, pos + 1, Len(line)), SP)]

\* params_ after the loop over the lines: for a name, what the last line with it
\* says
Params(lines) ==
  LET field == [i \in 1..Len(lines) |-> HeaderField(lines[i])]
      kept  == {i \in 1..Len(lines) : field[i].name # <<>> /\ field[i].value # <<>>}
      last(name) == CHOOSE i \in kept :
                      field[i].name = name /\ \A j \in kept : field[j].name = name => j <= i
  IN  [name \in {field[i].name : i \in kept} |-> field[last(name)].value]

\* get_param
GetParam(params, name) == IF Text[name] \in DOMAIN params THEN params[Text[name]] ELSE <<>>

(***************************************************************************)
(* fetch_hs_element.  size = -1 means no request found, and otherwise      *)
(* counts the request with its empty line, which endpos is the position    *)
(* of.  A request of blank lines only makes the code look at               *)
(* *lines.end(): overrun.                                                  *)
(***************************************************************************)
NoRequest == [size |-> -1, overrun |-> FALSE, params |-> <<>>]

ReadLines(lines, endpos) ==
  LET filled == {i \in 1..Len(lines) : Trim(lines[i], SP) # <<>>}
      it     == CHOOSE i \in filled : \A j \in filled : i <= j
  IN  IF Len(lines) < 2 THEN NoRequest
      ELSE IF filled = {} THEN [NoRequest EXCEPT !.overrun = TRUE]
      ELSE IF Len(SplitStr(Trim(lines[it], SP), <<SP>>)) < 3 THEN NoRequest
      ELSE [size |-> endpos + 3, overrun |-> FALSE,
            params |-> Params(SubSeq(lines, it + 1, Len(lines)))]

FetchHsElement(msg) ==
  LET endpos == Find(msg, EOL \o EOL, 1)
  IN  IF endpos = 0 THEN NoRequest
      ELSE ReadLines(SplitStr(SubSeq(msg, 1, endpos - 1), EOL), endpos)

ParamsAccepted(params) ==
  /\ GetParam(params, "Upgrade") = Text["websocket"]
  /\ GetParam(params, "Connection") = Text["Upgrade"]
  /\ GetParam(params, "Sec-WebSocket-Version") = Text["13"]
  /\ GetParam(params, "Sec-WebSocket-Key") # <<>>

(***************************************************************************)
(* recv_handshake: whether it reports an error, the hs_length_ the caller  *)
(* then reads from the packet, which is uninit unless a request was        *)
(* accepted, what get_param finds, and the buffer as it leaves it.         *)
(***************************************************************************)
RecvHandshake(input, uninit) ==
  LET hs   == FetchHsElement(input.data)
      none == [error |-> FALSE, overrun |-> hs.overrun, length |-> uninit,
               params |-> hs.params, input |-> ResetOft(input)]
  IN  IF Length(input) > MaxHandshake
      THEN [none EXCEPT !.error = TRUE, !.overrun = FALSE, !.input = input]
      ELSE IF hs.size <= 0 THEN none
      ELSE IF ~ParamsAccepted(hs.params) THEN [none EXCEPT !.error = TRUE]
      ELSE [none EXCEPT !.length = hs.size, !.input = Skip(input, hs.size)]

\* The lines of pack_handshake_rsp around the accept_key it computed
PackHandshakeRsp(params, accept_key) ==
  LET Field(name, value) == Text[name] \o <<COLON, SP>> \o value \o EOL
  IN  Text["HTTP/1.1 101 Switching Protocols"] \o EOL
        \o Field("Connection", Text["upgrade"])
        \o Field("Upgrade", Text["websocket"])
        \o Field("Sec-WebSocket-Accept", accept_key)
        \o (IF GetParam(params, "Sec-WebSocket-Protocol") = <<>> THEN <<>>
            ELSE Field("Sec-WebSocket-Protocol", Text["chat"]))
        \o EOL
===============================================================================
