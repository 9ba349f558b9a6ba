----------------------------- MODULE EchoService -----------------------------
(***************************************************************************)
(* What README.md promises of the demo endpoint: "After a successful       *)
(* websocket handshake, the demo server will return the message that you   *)
(* send to it."  Messages arrive, and the oldest one that was not answered *)
(* is answered with itself; no more is sent, and every one is answered in  *)
(* the end.                                                                *)
(***************************************************************************)
EXTENDS Sequences, Naturals

CONSTANT Conversations   \* the sequences of messages that may be sent

VARIABLES conversation, arrived, answers

vars == <<conversation, arrived, answers>>

Init ==
  /\ conversation \in Conversations
  /\ arrived = 0
  /\ answers = <<>>

Arrive ==
  /\ arrived' \in (arrived + 1)..Len(conversation)
  /\ UNCHANGED <<conversation, answers>>

Answer ==
  /\ Len(answers) < arrived
  /\ answers' = Append(answers, conversation[Len(answers) + 1])
  /\ UNCHANGED <<conversation, arrived>>

Next == Arrive \/ Answer

SafeSpec == Init /\ [][Next]_vars

Spec == SafeSpec /\ WF_vars(Answer)
=============================================================================
