---------------------------- MODULE DemoConnection ----------------------------
(***************************************************************************)
(* One connection of the demo server (main.cpp): every read becomes a job  *)
(* with a response slot of its own, the pool thread runs process() on it,  *)
(* on_write_response fills the slot, and what is in the slot afterwards    *)
(* goes to uv_write.  The order of jobs and the memory behind them are in  *)
(* UvServer; here a job runs to its end before the next one starts, as it  *)
(* does on one pool thread, and its answer is written when it ends.        *)
(***************************************************************************)
EXTENDS WebSocketEndpoint

CONSTANT AwaitsAnswer   \* whether the peer sends on only when it has its answer

VARIABLES response,     \* work_data->response, as a sequence of at most one
          written,      \* what went into uv_write
          exited        \* whether fail() ended the process

demoVars == <<vars, response, written, exited>>

ASSUME DemoAssumption == AwaitsAnswer \in BOOLEAN

DemoInit == Init /\ response = <<>> /\ written = <<>> /\ exited = FALSE

\* What the first n bytes of the peer call for: the handshake answer, and one
\* frame for each message.
AnswersDue(n) == IF peer.valid /\ n >= peer.request THEN 1 + MessageCount(peer, n) ELSE 0

\* Mutant: one slot for all reads, which nothing empties.
OnWorkSubmittedSameSlot(size) ==
  /\ ~exited
  /\ Process(size)
  /\ AwaitsAnswer => AnswersDue(received + size) <= Len(written) + 1
  /\ UNCHANGED <<response, written, exited>>

\* on_peer_read, alloc_work_req and the call of process() in on_work_submitted
OnWorkSubmitted(size) ==
  /\ ~exited
  /\ Process(size)
  /\ AwaitsAnswer => AnswersDue(received + size) <= Len(written) + 1
  /\ response' = <<>>
  /\ UNCHANGED <<written, exited>>

\* What the endpoint has for its owner is the work data of this call.
HasThisCall == nt_write_cb_ = "set" /\ nt_work_data_ = "own"

\* One iteration of from_wire.  What it passes to to_wire goes to
\* on_write_response, which fails if the slot is taken, unless it goes to the work
\* data of another call; when process() returns, on_work_completed writes the slot.
Iterate ==
  /\ ~exited
  /\ HandshakeStep \/ FrameStep
  /\ LET new == IF HasThisCall THEN SubSeq(sent', Len(sent) + 1, Len(sent')) ELSE <<>>
     IN  /\ response' = IF response = <<>> THEN new ELSE response
         /\ exited' = (new # <<>> /\ response # <<>>)
  /\ written' = IF pc' = "idle" /\ ~exited' THEN written \o response' ELSE written

DemoNothingMore == (exited \/ pc # "parse") /\ UNCHANGED demoVars

DemoNext == \/ \E size \in 1..Len(peer.bytes) : OnWorkSubmitted(size)
            \/ Iterate
            \/ DemoNothingMore

DemoSpec == DemoInit /\ [][DemoNext]_demoVars

-----------------------------------------------------------------------------
\* Between two reads, what the endpoint sent is what was written to the peer: no
\* answer is overwritten, left in its slot, written twice or out of order, or put
\* into the work data of an earlier read, which is freed by then.
AnswersWritten == pc = "idle" /\ ~exited => written = sent

\* "Work data response is not NULL!" (main.cpp): the slot is free whenever the
\* endpoint has something to send.
SlotIsFree == ~exited

\* Between two reads the peer has an answer to everything that it sent.
PeerIsAnswered == pc = "idle" /\ ~exited => Len(written) = AnswersDue(received)
===============================================================================
