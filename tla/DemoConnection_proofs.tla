------------------------ MODULE DemoConnection_proofs ------------------------
(***************************************************************************)
(* Proofs about one connection of the demo server, for every peer, whether *)
(* or not it waits for its answers, and every cut into reads.              *)
(***************************************************************************)
EXTENDS DemoConnection, EndpointService_proofs

\* While process() runs, what the endpoint sent is what was written before and
\* what is in the slot, and what it sends goes into that.
SlotInv ==
  /\ \E S : sent \in Seq(S) /\ written \in Seq(S) /\ response \in Seq(S)
  /\ pc = "parse" => HasThisCall
  /\ ~exited => /\ pc = "idle" => written = sent
                /\ pc # "idle" => sent = written \o response

\* An iteration of from_wire sends one thing or nothing.
LEMMA OneAnswer ==
  ASSUME HandshakeStep \/ FrameStep
  PROVE  pc = "parse" /\ (sent' = sent \/ \E e : sent' = Append(sent, e))
<1>1. CASE HandshakeStep
  <2>1. PICK hs : \/ RejectHandshake(hs) \/ AwaitHandshake(hs)
                  \/ AnswerHandshake(hs) \/ OverrunRequest(hs)
    BY <1>1 DEF HandshakeStep
  <2>2. CASE AnswerHandshake(hs)
    BY <1>1, <2>2 DEF HandshakeStep, InHandshake, AnswerHandshake, ToWire
  <2>3. CASE RejectHandshake(hs) \/ AwaitHandshake(hs) \/ OverrunRequest(hs)
    BY <1>1, <2>3 DEF HandshakeStep, InHandshake, RejectHandshake, AwaitHandshake, AwaitMore,
                      OverrunRequest
  <2> QED
    BY <2>1, <2>2, <2>3
<1>2. CASE FrameStep
  <2>1. PICK df : \/ AwaitFrame(df) \/ TakeFragment(df)
                  \/ TakeFinalFrame(df) \/ ThrowInPayload(df)
    BY <1>2 DEF FrameStep
  <2>2. pc = "parse"
    BY <1>2 DEF FrameStep, InFrames
  <2>3. CASE AwaitFrame(df) \/ TakeFragment(df) \/ ThrowInPayload(df)
    <3>1. UNCHANGED sent
      BY <2>3 DEF AwaitFrame, AwaitMore, TakeFragment, ThrowInPayload
    <3> QED
      BY <2>2, <3>1
  <2>4. CASE TakeFinalFrame(df)
    <3>1. CASE df.opcode \in KnownOpcodes
      <4>1. PICK message : Echo(df.opcode, message)
        BY <2>4, <3>1 DEF TakeFinalFrame
      <4>2. PICK bytes : ToWire("frame", bytes)
        BY <4>1, Zenon DEF Echo
      <4> QED
        BY <2>2, <4>2 DEF ToWire
    <3>2. CASE df.opcode \notin KnownOpcodes
      BY <2>2, <2>4, <3>2 DEF TakeFinalFrame
    <3> QED
      BY <3>1, <3>2
  <2> QED
    BY <2>1, <2>3, <2>4
<1> QED
  BY <1>1, <1>2

\* What is behind the first elements of a sequence that did not change, and of
\* one that got one more
LEMMA Behind ==
  ASSUME NEW S, NEW s \in Seq(S)
  PROVE  /\ SubSeq(s, Len(s) + 1, Len(s)) = <<>>
         /\ \A e : /\ SubSeq(Append(s, e), Len(s) + 1, Len(Append(s, e))) = <<e>>
                   /\ Append(s, e) = s \o <<e>>
<1>1. PICK n \in Nat : n = Len(s)
  BY LenProperties
<1>2. SubSeq(s, n + 1, n) = <<>>
  BY SubSeqEmpty
<1>3. ASSUME NEW e
      PROVE  /\ SubSeq(Append(s, e), n + 1, Len(Append(s, e))) = <<e>>
             /\ Append(s, e) = s \o <<e>>
  <2> DEFINE T == S \cup {e}
  <2>1. s \in Seq(T) /\ e \in T
    <3>1. S \subseteq T
      OBVIOUS
    <3> QED
      BY <3>1, SeqMonotonic
  <2> HIDE DEF T
  <2>2. PICK t : t = Append(s, e)
    OBVIOUS
  <2>3. t \in Seq(T) /\ Len(t) = n + 1 /\ t[n + 1] = e
    BY <1>1, <2>1, <2>2, AppendProperties
  <2>4. PICK p : p = SubSeq(t, n + 1, n + 1)
    OBVIOUS
  <2>5. p \in Seq(T) /\ Len(p) = 1 /\ p[1] = e
    <3>1. \A i \in (n + 1)..(n + 1) : t[i] \in T
      BY <2>1, <2>3
    <3>2. /\ SubSeq(t, n + 1, n + 1) \in Seq(T)
          /\ Len(SubSeq(t, n + 1, n + 1)) = (n + 1) - (n + 1) + 1
          /\ \A i \in 1..((n + 1) - (n + 1) + 1) :
               SubSeq(t, n + 1, n + 1)[i] = t[(n + 1) + i - 1]
      BY <3>1, SubSeqProperties
    <3>3. (n + 1) - (n + 1) + 1 = 1 /\ (n + 1) + 1 - 1 = n + 1 /\ 1 \in 1..1
      OBVIOUS
    <3> QED
      BY <2>3, <2>4, <3>2, <3>3, Zenon
  <2>6. PICK q : q = <<e>>
    OBVIOUS
  <2>7. q \in Seq(T) /\ Len(q) = 1 /\ q[1] = e
    BY <2>1, <2>6
  <2>8. p = q
    <3>1. \A i \in 1..Len(p) : p[i] = q[i]
      BY <2>5, <2>7
    <3> QED
      BY <2>5, <2>7, <3>1, SeqEqual
  <2>9. Append(s, e) = s \o <<e>>
    BY <2>1, AppendIsConcat
  <2> QED
    BY <2>2, <2>3, <2>4, <2>6, <2>8, <2>9, Zenon
<1> QED
  BY <1>1, <1>2, <1>3

\* A call begins with an empty slot, when everything is written.
LEMMA SlotStarts ==
  ASSUME SlotInv, NEW size, OnWorkSubmitted(size)
  PROVE  SlotInv'
<1>1. PICK S : sent \in Seq(S) /\ written \in Seq(S)
  BY DEF SlotInv
<1>2. /\ sent' = sent /\ written' = written /\ response' = <<>> /\ exited' = exited
      /\ ~exited /\ pc = "idle" /\ pc' = "parse" /\ HasThisCall'
  BY DEF OnWorkSubmitted, Process, FromWire, HasThisCall
<1>3. written = sent /\ written \o <<>> = written
  BY <1>1, <1>2, ConcatEmptySeq DEF SlotInv
<1>4. sent' = written' \o response'
  BY <1>2, <1>3, Zenon
<1>5. <<>> \in Seq(S)
  BY EmptySeq
<1> QED
  BY <1>1, <1>2, <1>4, <1>5 DEF SlotInv

\* An iteration puts what it sends into an empty slot, or ends the process, and
\* what is in the slot when the call returns is written.
LEMMA SlotIterates ==
  ASSUME SlotInv, Iterate
  PROVE  SlotInv'
<1>1. PICK S : sent \in Seq(S) /\ written \in Seq(S) /\ response \in Seq(S)
  BY DEF SlotInv
<1>2. sent = written \o response
  BY OneAnswer DEF SlotInv, Iterate
<1>3. PICK new : /\ new = SubSeq(sent', Len(sent) + 1, Len(sent'))
                 /\ response' = IF response = <<>> THEN new ELSE response
                 /\ exited' = (new # <<>> /\ response # <<>>)
                 /\ written' = IF pc' = "idle" /\ ~exited' THEN written \o response' ELSE written
  <2>1. HasThisCall
    BY OneAnswer DEF SlotInv, Iterate
  <2> QED
    BY <2>1 DEF Iterate
<1>4. /\ sent' = sent \o new
      /\ \E T : S \subseteq T /\ sent' \in Seq(T) /\ new \in Seq(T)
  <2>1. CASE sent' = sent
    <3>1. new = <<>>
      BY <1>1, <1>3, <2>1, Behind, Zenon
    <3>2. sent \o <<>> = sent /\ <<>> \in Seq(S)
      BY <1>1, ConcatEmptySeq, EmptySeq
    <3> QED
      BY <1>1, <2>1, <3>1, <3>2, Zenon
  <2>2. CASE \E e : sent' = Append(sent, e)
    <3>1. PICK e : sent' = Append(sent, e)
      BY <2>2
    <3>2. new = <<e>> /\ sent' = sent \o <<e>>
      BY <1>1, <1>3, <3>1, Behind, Zenon
    <3>3. PICK T : T = S \cup {e}
      OBVIOUS
    <3>4. S \subseteq T /\ e \in T
      BY <3>3
    <3>5. sent \in Seq(T)
      BY <1>1, <3>4, SeqMonotonic
    <3>6. Append(sent, e) \in Seq(T) /\ <<e>> \in Seq(T)
      BY <3>4, <3>5, AppendProperties
    <3> QED
      BY <3>1, <3>2, <3>4, <3>6, Zenon
  <2> QED
    BY <2>1, <2>2, OneAnswer DEF Iterate
<1>5. ~exited' => sent' = written \o response'
  <2>1. CASE response = <<>>
    <3>1. written \o response = written
      BY <1>1, <2>1, ConcatEmptySeq
    <3> QED
      BY <1>2, <1>3, <1>4, <2>1, <3>1, Zenon
  <2>2. CASE response # <<>> /\ ~exited'
    <3>1. new = <<>> /\ response' = response
      BY <1>3, <2>2
    <3>2. sent \o <<>> = sent
      BY <1>1, ConcatEmptySeq
    <3> QED
      BY <1>2, <1>4, <3>1, <3>2, Zenon
  <2> QED
    BY <2>1, <2>2
<1>6. \E T : sent' \in Seq(T) /\ written' \in Seq(T) /\ response' \in Seq(T)
  <2>1. PICK T : S \subseteq T /\ sent' \in Seq(T) /\ new \in Seq(T)
    BY <1>4
  <2>2. written \in Seq(T) /\ response \in Seq(T)
    BY <1>1, <2>1, SeqMonotonic, Zenon
  <2>3. response' \in Seq(T)
    BY <1>3, <2>1, <2>2
  <2>4. written \o response' \in Seq(T)
    BY <2>2, <2>3, ConcatProperties
  <2>5. written' \in Seq(T)
    BY <1>3, <2>2, <2>4
  <2> QED
    BY <2>1, <2>3, <2>5
<1>7. ~exited' => /\ pc' = "idle" => written' = sent'
                  /\ pc' # "idle" => sent' = written' \o response'
  BY <1>3, <1>5
<1>8. pc' = "parse" => HasThisCall'
  <2>1. pc = "parse" /\ UNCHANGED <<nt_write_cb_, nt_work_data_>>
    BY OneAnswer DEF Iterate, HandshakeStep, FrameStep
  <2> QED
    BY <2>1 DEF SlotInv, HasThisCall
<1> QED
  BY <1>6, <1>7, <1>8 DEF SlotInv

\* Every step keeps it.
LEMMA SlotNext == SlotInv /\ [DemoNext]_demoVars => SlotInv'
<1> SUFFICES ASSUME SlotInv, [DemoNext]_demoVars PROVE SlotInv'
  OBVIOUS
<1>1. CASE \E size \in 1..Len(peer.bytes) : OnWorkSubmitted(size)
  BY <1>1, SlotStarts
<1>2. CASE Iterate
  BY <1>2, SlotIterates
<1>3. CASE UNCHANGED demoVars
  BY <1>3 DEF demoVars, vars, SlotInv, HasThisCall
<1> QED
  BY <1>1, <1>2, <1>3 DEF DemoNext, DemoNothingMore

\* Unless the process ends for want of a second slot, everything that the
\* endpoint sends is written to the peer exactly once and in order, whatever the
\* peer sends and whether or not it waits.
THEOREM NothingUnwritten == DemoSpec => []AnswersWritten
<1>1. DemoInit => SlotInv
  BY EmptySeq DEF DemoInit, Init, SlotInv
<1>2. SlotInv => AnswersWritten
  BY DEF SlotInv, AnswersWritten
<1> QED
  BY <1>1, <1>2, SlotNext, PTL DEF DemoSpec

\* A connection of the server is an endpoint: what is proved of one holds in it.
THEOREM ConnectionIsEndpoint == DemoSpec => Spec
<1>1. DemoInit => Init
  BY DEF DemoInit
<1>2. [DemoNext]_demoVars => [Next]_vars
  <2>1. ASSUME NEW size \in 1..Len(peer.bytes), OnWorkSubmitted(size) PROVE Next
    BY <2>1 DEF OnWorkSubmitted, Next
  <2>2. Iterate => Next
    BY DEF Iterate, Next
  <2>3. UNCHANGED demoVars => UNCHANGED vars
    BY DEF demoVars
  <2> QED
    BY <2>1, <2>2, <2>3 DEF DemoNext, DemoNothingMore
<1> QED
  BY <1>1, <1>2, PTL DEF DemoSpec, Spec

\* Between two reads, the peer has been written one frame for each message that
\* was delivered, in their order, behind the answer to its handshake.
PeerGetsEchoes ==
  pc = "idle" /\ ~exited =>
    /\ Len(written) = IF ws_handshake_completed_ THEN 1 + Len(delivered) ELSE 0
    /\ \A i \in 1..Len(delivered) :
         written[i + 1].bytes = EchoFrame(delivered[i].opcode, delivered[i].payload)

\* What the endpoint promises of sent, a connection keeps of written.
THEOREM EchoesWritten == DemoSpec => []PeerGetsEchoes
<1>1. AnswersWritten /\ MessagesEchoed => PeerGetsEchoes
  BY Zenon DEF AnswersWritten, MessagesEchoed, PeerGetsEchoes, EchoFrame
<1> QED
  BY <1>1, NothingUnwritten, ConnectionIsEndpoint, EveryMessageAnswered, PTL

(***************************************************************************)
(* The answers that are due                                                *)
(***************************************************************************)

\* The answers that the peer is due, and that the endpoint has sent
LEMMA DueAndSent ==
  ASSUME WellServed, TalkKnown, ServedInv, MessagesEchoed
  PROVE  /\ AnswersDue(received) \in Nat /\ Len(sent) \in Nat
         /\ Len(sent) <= AnswersDue(received)
         /\ pc = "idle" => Len(sent) = AnswersDue(received)
<1>1. IInv /\ TakenInv /\ TalkInv /\ MessagesDelivered
  BY TalkShows, Zenon DEF ServedInv
<1>2. WellFormed(peer) /\ RequestJudged(peer) /\ peer \in Peers
  BY <1>1, Zenon DEF WellServed, TakenInv
<1>3. PICK r \in Nat : r = received
  BY <1>1, WireTypes DEF IInv
<1>4. PICK m \in Nat : m = MessageCount(peer, r) /\ Len(MessagesIn(peer, r)) = m
                     /\ m = FinalCount(peer, FramesIn(peer, r))
  BY <1>2, <1>3, MessagesAre, Zenon
<1>5. Len(sent) = IF ws_handshake_completed_ THEN 1 + Len(delivered) ELSE 0
  BY Zenon DEF MessagesEchoed
<1>6. AnswersDue(r) = IF peer.valid /\ r >= peer.request THEN 1 + m ELSE 0
  BY <1>4, Zenon DEF AnswersDue
<1>7. pc = "idle" => Len(delivered) = m
  BY <1>1, <1>3, <1>4, Zenon DEF MessagesDelivered
<1>8. CASE ws_handshake_completed_
  <2>1. peer.valid /\ received # 0 /\ ReadsWholeHeaders(peer, received)
    BY <1>1, <1>8, Zenon DEF TakenInv, AmongFrames
  <2>2. r >= peer.request
    BY <1>3, <2>1, Zenon DEF ReadsWholeHeaders
  <2>3. Len(delivered) \in Nat /\ Len(delivered) <= m
    <3>1. PICK k \in 0..Len(peer.frames) : consumed = EndOf(peer, k) /\ FramesMade(k)
      BY <1>1, <1>8, Zenon DEF TalkInv
    <3>2. PICK n \in Nat : n = Len(peer.frames)
      BY <1>2, EndIs
    <3>3. k \in Nat /\ Len(delivered) = FinalCount(peer, k)
      BY <3>1, <3>2 DEF FramesMade, Delivers
    <3>4. EndOf(peer, k) <= r
      BY <1>1, <1>3, <3>1, WireTypes DEF IInv
    <3>5. k <= FramesIn(peer, r)
      <4>1. r <= r
        OBVIOUS
      <4>2. FramesIn(peer, r) \in Nat
        BY <1>2, <1>3, <4>1, FramesInIs
      <4>3. CASE k = 0
        BY <4>2, <4>3
      <4>4. CASE k # 0
        <5>1. k \in 1..Len(peer.frames)
          BY <3>2, <4>4
        <5> QED
          BY <1>2, <1>3, <2>1, <3>4, <5>1, FramesWithin
      <4> QED
        BY <4>3, <4>4
    <3>6. FramesIn(peer, r) \in Nat
      <4>1. r <= r
        OBVIOUS
      <4> QED
        BY <1>2, <1>3, <4>1, FramesInIs
    <3>7. FinalCount(peer, k) <= FinalCount(peer, FramesIn(peer, r))
      BY <3>3, <3>5, <3>6, FinalCountGrows
    <3>8. FinalCount(peer, k) \in Nat
      BY <3>3, FinalCountIs, Zenon
    <3> QED
      BY <1>4, <3>3, <3>7, <3>8
  <2> QED
    BY <1>3, <1>5, <1>6, <1>7, <1>8, <2>1, <2>2, <2>3
<1>9. CASE ~ws_handshake_completed_
  <2>1. pc = "idle" => received = 0 \/ ~peer.valid
    BY <1>1, <1>9, Zenon DEF TakenInv, BeforeFrames
  <2>2. received = 0 => ~(r >= peer.request)
    <3>1. peer.request \in Nat /\ peer.request > 0
      BY <1>1, <1>2, WireTypes, RequestIsLong DEF IInv
    <3> QED
      BY <1>3, <3>1
  <2>3. AnswersDue(r) \in Nat
    BY <1>4, <1>6
  <2> QED
    BY <1>3, <1>5, <1>6, <1>9, <2>1, <2>2, <2>3
<1> QED
  BY <1>8, <1>9

\* Between two reads the peer has its answers: the one to its request, and one to
\* each message that has arrived.
THEOREM NothingUnanswered ==
  ASSUME WellServed, TalkKnown
  PROVE  DemoSpec /\ []RequestInTime => []PeerIsAnswered
<1>1. ServedInv /\ MessagesEchoed /\ AnswersWritten => PeerIsAnswered
  <2> SUFFICES ASSUME ServedInv, MessagesEchoed, AnswersWritten PROVE PeerIsAnswered
    OBVIOUS
  <2>1. pc = "idle" => Len(sent) = AnswersDue(received)
    BY DueAndSent
  <2> QED
    BY <2>1 DEF AnswersWritten, PeerIsAnswered
<1> QED
  BY <1>1, NothingUnwritten, ConnectionIsEndpoint, EveryMessageAnswered, ServedHolds, PTL

(***************************************************************************)
(* The slot of a peer that waits for its answers                           *)
(***************************************************************************)

\* While process() runs, at most one answer is due that was not written.
WaitingInv ==
  /\ ~exited
  /\ pc = "parse" => AnswersDue(received) <= Len(written) + 1

DueInv == Len(sent) <= AnswersDue(received)

\* A read of such a peer calls for one answer.
LEMMA WaitingStarts ==
  ASSUME AwaitsAnswer, WaitingInv, NEW size, OnWorkSubmitted(size)
  PROVE  WaitingInv'
<1>1. /\ ~exited /\ UNCHANGED <<exited, written, peer>>
      /\ received' = received + size
      /\ AnswersDue(received + size) <= Len(written) + 1
  BY Zenon DEF OnWorkSubmitted, Process, FromWire
<1>2. AnswersDue(received)' = AnswersDue(received + size)
  BY <1>1 DEF AnswersDue
<1> QED
  BY <1>1, <1>2 DEF WaitingInv

\* The iterations of from_wire take no more bytes from the peer.
LEMMA IterationsReadNothing ==
  ASSUME HandshakeStep \/ FrameStep
  PROVE  UNCHANGED <<peer, received>>
<1>1. CASE HandshakeStep
  BY <1>1, Zenon DEF HandshakeStep, RejectHandshake, AwaitHandshake, AwaitMore, AnswerHandshake,
                     OverrunRequest
<1>2. CASE FrameStep
  BY <1>2, Zenon DEF FrameStep, AwaitFrame, AwaitMore, TakeFragment, TakeFinalFrame, ThrowInPayload
<1> QED
  BY <1>1, <1>2

\* No iteration sends more than is due, and so none finds the slot taken.
LEMMA WaitingIterates ==
  ASSUME SlotInv, WaitingInv, DueInv', AnswersDue(received) \in Nat, Iterate
  PROVE  WaitingInv'
<1>1. PICK S : sent \in Seq(S) /\ written \in Seq(S) /\ response \in Seq(S)
  BY DEF SlotInv
<1>2. PICK new : /\ new = SubSeq(sent', Len(sent) + 1, Len(sent'))
                 /\ exited' = (new # <<>> /\ response # <<>>)
                 /\ written' = IF pc' = "idle" /\ ~exited' THEN written \o response' ELSE written
  <2>1. HasThisCall
    BY OneAnswer DEF SlotInv, Iterate
  <2> QED
    BY <2>1, Zenon DEF Iterate
<1>3. pc = "parse" /\ (sent' = sent \/ \E e : sent' = Append(sent, e))
  BY OneAnswer DEF Iterate
<1>4. UNCHANGED <<peer, received>>
  BY IterationsReadNothing, Zenon DEF Iterate
<1>5. AnswersDue(received)' = AnswersDue(received)
  BY <1>4 DEF AnswersDue
<1>6. AnswersDue(received) <= Len(written) + 1 /\ sent = written \o response
  BY <1>3 DEF WaitingInv, SlotInv
<1>7. PICK l \in Nat, m \in Nat, n \in Nat :
        l = Len(written) /\ m = Len(response) /\ n = Len(sent) /\ n = l + m
  BY <1>1, <1>6, ConcatProperties, LenProperties
<1>8. CASE sent' = sent
  <2>1. SubSeq(sent, Len(sent) + 1, Len(sent)) = <<>>
    BY <1>1, Behind, Zenon
  <2>2. new = SubSeq(sent', Len(sent) + 1, Len(sent'))
    BY <1>2, Zenon
  <2>3. new = <<>>
    BY <1>8, <2>1, <2>2
  <2> QED
    BY <1>2, <1>5, <1>6, <2>3 DEF WaitingInv
<1>9. CASE \E e : sent' = Append(sent, e)
  <2>1. Len(sent') = n + 1
    <3>1. PICK e : sent' = Append(sent, e)
      BY <1>9
    <3>2. Len(Append(sent, e)) = Len(sent) + 1
      BY <1>1, AppendOne, Zenon
    <3> QED
      BY <1>7, <3>1, <3>2
  <2>2. Len(sent') <= AnswersDue(received)
    BY <1>5 DEF DueInv
  <2>3. m = 0
    BY <1>6, <1>7, <2>1, <2>2
  <2>4. response = <<>>
    BY <1>1, <1>7, <2>3, EmptySeq
  <2> QED
    BY <1>2, <1>5, <1>6, <2>4 DEF WaitingInv
<1> QED
  BY <1>3, <1>8, <1>9

\* If the peer sends on only when it has its answer, the slot of a read is free
\* whenever the endpoint has something to send.
THEOREM SlotStaysFree ==
  ASSUME WellServed, TalkKnown, AwaitsAnswer
  PROVE  DemoSpec /\ []RequestInTime => []SlotIsFree
<1>1. DemoInit => SlotInv /\ WaitingInv
  BY EmptySeq DEF DemoInit, Init, SlotInv, WaitingInv
<1>2. ServedInv /\ MessagesEchoed => DueInv /\ AnswersDue(received) \in Nat
  BY DueAndSent DEF DueInv
<1>3. (SlotInv /\ WaitingInv) /\ (DueInv /\ AnswersDue(received) \in Nat) /\ DueInv'
        /\ [DemoNext]_demoVars => (SlotInv /\ WaitingInv)'
  <2> SUFFICES ASSUME SlotInv, WaitingInv, AnswersDue(received) \in Nat, DueInv',
                      [DemoNext]_demoVars
               PROVE  WaitingInv'
    BY SlotNext
  <2>1. CASE \E size \in 1..Len(peer.bytes) : OnWorkSubmitted(size)
    BY <2>1, WaitingStarts
  <2>2. CASE Iterate
    BY <2>2, WaitingIterates
  <2>3. CASE UNCHANGED demoVars
    BY <2>3 DEF demoVars, vars, WaitingInv, AnswersDue
  <2> QED
    BY <2>1, <2>2, <2>3 DEF DemoNext, DemoNothingMore
<1>4. WaitingInv => SlotIsFree
  BY DEF WaitingInv, SlotIsFree
<1> QED
  BY <1>1, <1>2, <1>3, <1>4, ConnectionIsEndpoint, EveryMessageAnswered, ServedHolds, PTL
     DEF DemoSpec
===============================================================================
