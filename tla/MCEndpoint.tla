----------------------------- MODULE MCEndpoint -----------------------------
(* Instances of WebSocketEndpoint for TLC. *)
EXTENDS EndpointService, MCRequests

Payload(n, seed) == [i \in 1..n |-> (seed + 37 * i) % 256]

\* With blanks before the request line, and a second key without value; and one
\* without a key
PaddedRequest ==
  <<BlankLine, GetLine, NoColonLine, EmptyKeyLine, VersionLine, KeyLine, ConnectionLine,
    UpgradeLine, EmptyKeyLine>>
PaddedFields ==
  <<NoField, NoField, NoField, EmptyKeyField, VersionField, KeyField, ConnectionField,
    UpgradeField, EmptyKeyField>>

KeylessRequest == <<GetLine, HostLine, UpgradeLine, ConnectionLine, VersionLine>>
KeylessFields == <<NoField, HostField, UpgradeField, ConnectionField, VersionField>>

\* Unfragmented messages of 4 to 125 bytes
WholePeers ==
  {MakePeer(Request, TRUE,
            << Frame(1, op, Key1, Payload(n, 5)), Frame(1, OpPing, Key2, Payload(4, 130)),
               Frame(1, OpText, Key1, Payload(5, 0)) >>) : op \in {OpText, OpBinary}, n \in {4, 6}}
    \cup {MakePeer(PaddedRequest, TRUE, <<Frame(1, OpClose, Key2, Payload(125, 1))>>),
          MakePeer(KeylessRequest, FALSE, <<Frame(1, OpText, Key1, Payload(4, 9))>>)}

\* Fragmented messages, empty payloads and a two-byte length, which need reads
\* that do not end inside a header
FragmentPeers ==
  {MakePeer(Request, TRUE,
            << Frame(0, OpText, Key1, Payload(n, 5)), Frame(0, OpContinue, Key2, Payload(2, 7)),
               Frame(1, OpContinue, Key1, Payload(m, 64)), Frame(1, OpPing, Key2, <<>>),
               Frame(1, OpBinary, Key2, Payload(3, 130)) >>) : n \in {0, 2}, m \in {0, 1}}
    \cup {MakePeer(Request, TRUE, <<Frame(1, OpText, Key1, Payload(n, 3)),
                                    Frame(1, OpPong, Key2, <<7>>)>>) : n \in {126, 200}}

MessagePeers == WholePeers \cup FragmentPeers

\* These peers are what the proofs about the endpoint are about: plain ones, and
\* with that all else.
ASSUME MessagePeersArePlain ==
  /\ SaysRequest(Request, RequestFields) /\ MeansHandshake(RequestFields, Text)
  /\ SaysRequest(PaddedRequest, PaddedFields) /\ MeansHandshake(PaddedFields, Text)
  /\ SaysRequest(KeylessRequest, KeylessFields) /\ ~MeansHandshake(KeylessFields, Text)
  /\ \A p \in MessagePeers : PlainFrames(p.frames)

ASSUME MessagePeersAreWellFormed ==
  \A p \in MessagePeers :
    /\ WellFormed(p) /\ RequestJudged(p) /\ (p.valid => Assembled(p, PartsOf(p)))
    /\ Len(p.bytes) <= 300

\* The endpoint is such an echo service, fragments or not: each step of it is an
\* arrival, one answer to the oldest unanswered message, or invisible to the
\* peer.
EchoesEveryMessage == Service!Spec

\* Peers whose bytes come through every form of process(), in few pieces
ShortRequest == <<GetLine, UpgradeLine, ConnectionLine, KeyLine, VersionLine>>

CallPeers ==
  {MakePeer(ShortRequest, TRUE,
            <<Frame(0, OpText, Key1, <<5>>), Frame(1, op, Key2, <<6, 7>>)>>) : op \in {OpContinue, 3}}

\* SkipRead takes bytes from a peer, but not its frames: reads of such a peer go
\* on in both other forms, and one of them is skipped.
IsCallPeer(p) == p.frames \in {q.frames : q \in CallPeers}

AllCalls(p) ==
  {"callback"} \cup (IF IsCallPeer(p) THEN {"plain"} ELSE {})
               \cup (IF p \in CallPeers THEN {"null"} ELSE {})

\* They end inside the request, with it, close to it, anywhere in the first frame,
\* and with the last frame.
StrayEnds(p, n) ==
  IsCallPeer(p) => n \in {5, Len(p.bytes)} \cup ((p.request - 1)..(p.request + 7))

\* What makes the parser stumble: a request of blank lines, one that is refused,
\* one longer than MaxHandshake, frames of every length form, an unmasked empty
\* frame, a reserved bit, and, with reads of any size, every prefix of all that
StrayPeers ==
  CallPeers \cup
  {MakePeer(lines, FALSE, <<Frame(1, OpText, Key1, <<5>>)>>) :
     lines \in {<<BlankLine, BlankLine>>, <<GetLine>>, <<UpgradeLine, GetLine, ConnectionLine>>,
                <<GetLine, HostLine, UpgradeLine, TwoWordsLine, KeyLine, VersionLine>>,
                ShortRequest \o <<HostLine, HostLine, NoColonLine>>}}
    \cup {MakePeer(ShortRequest, TRUE,
                   << Frame(fin, op, key, Payload(n, 1)), Frame(1, OpPing, <<>>, <<>>) >>) :
            fin \in {0, 1}, op \in {OpContinue, 65}, key \in {<<>>, Key1}, n \in {0, 3}}
    \cup {[MakePeer(ShortRequest, TRUE, <<Frame(1, 3, Key2, Payload(126, 1))>>)
             EXCEPT !.bytes = SubSeq(@, 1, 30)]}

\* A control frame between two fragments
InterleavedPeers ==
  {MakePeer(Request, TRUE,
            << Frame(0, OpText, Key1, <<1, 2, 3, 4>>), Frame(1, OpPing, Key1, <<9, 8, 7, 6>>),
               Frame(1, OpContinue, Key1, <<5, 6, 7, 8>>) >>)}

ShortPeers == {MakePeer(Request, TRUE, <<Frame(1, OpText, Key1, <<72, 105>>)>>)}
=============================================================================
