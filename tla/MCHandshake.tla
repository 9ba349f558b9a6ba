----------------------------- MODULE MCHandshake -----------------------------
(* Instances of HandshakeAnswer for TLC. *)
EXTENDS HandshakeAnswer, Sha1Rounds, RFC6455Accept, MCRequests

LOCAL INSTANCE SequencesExt

\* A key of n bytes of every kind but CR and LF, with blanks and colons inside
KeyOf(n) == [i \in 1..n |-> IF i \in {1, n} THEN 160 + i
                            ELSE IF i % 8 = 5 THEN COLON
                            ELSE IF i % 8 = 6 THEN SP
                            ELSE 14 + ((91 * i) % 242)]

\* A line that says a field, and one that says nothing
Says(field) == [line |-> Line(field), field |-> field]
Mute(line) == [line |-> line, field |-> NoField]

\* Requests that a client means as a handshake, and others
Asked(said, valid, key, offers) ==
  LET lines == [i \in 1..Len(said) |-> said[i].line]
  IN  [bytes |-> EncodeRequest(lines), valid |-> valid, key |-> key, offers |-> offers,
       lines |-> lines, fields |-> [i \in 1..Len(said) |-> said[i].field]]

Shake(said, key, offers) == Asked(said, TRUE, key, offers)
NoShake(said) == Asked(said, FALSE, <<>>, FALSE)

Get == Mute(GetLine)
Upgrade == Says(UpgradeField)
Connection == Says(ConnectionField)
Version == Says(VersionField)
Key(key) == Says(Field(MCText["Sec-WebSocket-Key"], key))
Offer(names) == Says(Field(MCText["Sec-WebSocket-Protocol"], names))

SomeNames == <<115, COLON, 99>>

\* Keys that make the raw key end around every position where a block or its
\* padding changes
KeyLengths == {1, 2, 18, 19, 20, 23, 24, 27, 28, 29, 82, 83, 84, 91, 92, 93}

EveryLength ==
  {Shake(<<Get, Upgrade, Connection, Key(KeyOf(n)), Version>>, KeyOf(n), FALSE) : n \in KeyLengths}

EveryOrder ==
  {Shake(<<Get, Connection>> \o order \o <<Version>>, <<107>>, TRUE) :
     order \in SetToSeqs({Upgrade, Key(<<107>>), Offer(SomeNames)})}

EveryBlank ==
  LET With(field, a, b, c, d) ==
        [line |-> FieldLine(field, a, b, c, d), field |-> field]
      key == KeyOf(3)
  IN  {Shake(<<Mute(BlankLine), Get, Connection, Version, Mute(NoColonLine),
               With(UpgradeField, a, b, c, d), With(Key(key).field, b, a, d, c)>>, key, FALSE) :
         a \in 0..1, b \in 0..2, c \in 0..1, d \in 0..2}

\* A key sent twice, and lines without a meaning
LinesBetween ==
  {Shake(<<Get, Mute(NoColonLine), Connection, Version, Key(<<120>>), Upgrade,
           Mute(BlankLine), Key(<<107>>), Key(<<>>), Offer(<<>>),
           Says(Field(<<>>, <<120>>))>>, <<107>>, FALSE),
   Shake(<<Get, Says(HostField), Upgrade, Connection, Key(ExampleKey), Offer(SomeNames),
           Version>>, ExampleKey, TRUE)}

\* A field missing or with another value
OtherFields ==
  LET fields == <<Upgrade, Connection, Version, Key(<<107>>)>>
  IN  {NoShake(<<Get>> \o RemoveAt(fields, i)) : i \in 1..4}
        \cup {NoShake(<<Get>> \o ReplaceAt(fields, 2, Says(TwoWordsField))),
              NoShake(<<Get>> \o ReplaceAt(fields, 4, Key(<<>>)))}

\* An empty line too early or not at all, a request line of two words, no fields,
\* no lines
NoRequests ==
  LET fields == <<Upgrade, Connection, Version, Key(<<107>>)>>
  IN  {NoShake(<<Get>> \o InsertAt(fields, i, Mute(<<>>))) : i \in 1..4}
        \cup {NoShake(<<Mute(SubSeq(GetLine, 1, 3))>> \o fields), NoShake(<<Get>>), NoShake(<<>>),
              [NoShake(<<Get>> \o fields) EXCEPT !.bytes = Front(@)]}

PlainRequests == EveryLength \cup EveryOrder \cup EveryBlank \cup LinesBetween \cup OtherFields

MCRequestSet == PlainRequests \cup NoRequests

ASSUME RequestsAreKnown ==
  (\A r \in PlainRequests : Plain(r)) /\ (\A r \in NoRequests : ~Plain(r))

MCUninitM == {[i \in 0..63 |-> 170]}
=============================================================================
