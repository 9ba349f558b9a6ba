----------------------------- MODULE MCRequests -----------------------------
(* Request lines, keys, frames and reads for the instances of the endpoint. *)
EXTENDS WebSocketPeer

\* Names and values by one letter each
MCText ==
  [s \in {"Upgrade", "websocket", "Connection", "Sec-WebSocket-Version", "13",
          "Sec-WebSocket-Key", "Sec-WebSocket-Protocol", "upgrade", "chat",
          "Sec-WebSocket-Accept", "HTTP/1.1 101 Switching Protocols"} |->
     CASE s = "Upgrade" -> <<85>> [] s = "websocket" -> <<119>> [] s = "Connection" -> <<67>>
       [] s = "Sec-WebSocket-Version" -> <<86>> [] s = "13" -> <<49>>
       [] s = "Sec-WebSocket-Key" -> <<75>> [] s = "Sec-WebSocket-Protocol" -> <<80>>
       [] s = "upgrade" -> <<117>> [] s = "chat" -> <<99>> [] s = "Sec-WebSocket-Accept" -> <<65>>
       [] s = "HTTP/1.1 101 Switching Protocols" -> <<72>>]

\* What lines say, and the lines: the fields of a handshake, another field, a value
\* of two words, an empty value
Field(name, value) == [name |-> name, value |-> value]

UpgradeField == Field(MCText["Upgrade"], MCText["websocket"])
ConnectionField == Field(MCText["Connection"], MCText["Upgrade"])
VersionField == Field(MCText["Sec-WebSocket-Version"], MCText["13"])
KeyField == Field(MCText["Sec-WebSocket-Key"], <<107>>)
EmptyKeyField == Field(MCText["Sec-WebSocket-Key"], <<>>)
HostField == Field(<<104>>, <<120>>)
TwoWordsField == Field(MCText["Connection"], <<107, 44>> \o MCText["Upgrade"])

Line(f) == FieldLine(f, 0, 0, 0, 0)

UpgradeLine == Line(UpgradeField)
ConnectionLine == Line(ConnectionField)
VersionLine == Line(VersionField)
KeyLine == Line(KeyField)
EmptyKeyLine == Line(EmptyKeyField)
HostLine == Line(HostField)
TwoWordsLine == Line(TwoWordsField)

\* The request line, a line of blanks, one without a colon
GetLine == <<71, 32, 47, 32, 49>>
BlankLine == <<32>>
NoColonLine == <<110>>

MCAcceptKey(key) == <<97>> \o key

MCUninitKeys == {<<0, 0, 0, 0>>, <<17, 34, 51, 68>>}

\* 0, less and more than a buffer holds, and a number that is negative as an int
MCUninitHs == {0, 4, 1000, -1}

Request == <<GetLine, HostLine, UpgradeLine, ConnectionLine, KeyLine, VersionLine>>
RequestFields == <<NoField, HostField, UpgradeField, ConnectionField, KeyField, VersionField>>

Key1 == <<1, 130, 255, 4>>
Key2 == <<0, 77, 0, 128>>

Frame(fin, opcode, key, payload) ==
  [fin |-> fin, opcode |-> opcode, key |-> key, payload |-> payload]

\* The message that each frame belongs to, up to that frame
PartsOf(p) ==
  LET f == p.frames
      part[k \in 1..Len(f)] ==
        IF k = 1 \/ f[k - 1].fin = 1
        THEN [opcode |-> f[k].opcode, payload |-> f[k].payload, parts |-> 1]
        ELSE [opcode  |-> part[k - 1].opcode,
              payload |-> part[k - 1].payload \o f[k].payload,
              parts   |-> part[k - 1].parts + 1]
  IN  part

\* Where reads may end: anywhere; behind the request; or not in a header either
Anywhere(p, n) == TRUE
BehindRequest(p, n) == n >= p.request
OutsideHeaders(p, n) == n >= p.request /\ CutHeaders(p, n) = {}

AlwaysCallback(p) == {"callback"}
=============================================================================
