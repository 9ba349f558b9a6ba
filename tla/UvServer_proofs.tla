--------------------------- MODULE UvServer_proofs ---------------------------
(***************************************************************************)
(* Proofs about the demo server for any number of connections, any bound   *)
(* on their reads and, where it is not said otherwise, any number of pool  *)
(* threads.                                                                *)
(***************************************************************************)
EXTENDS UvServer, TLAPS, FiniteSetTheorems

(***************************************************************************)
(* Types                                                                   *)
(***************************************************************************)

\* The server starts with every variable in its type.
LEMMA InitTypes == Init => Types
BY ServerAssumption DEF Init, Types

\* The queue operations of Submit keep their types.
LEMMA SubmitType ==
  ASSUME Types, NEW c \in Client, NEW type \in {"data", "close"}, Submit(c, type)
  PROVE  /\ reads' \in [Client -> 0..MaxReads]
         /\ wq' \in Seq(Job)
         /\ data' \subseteq Job /\ reqs' \subseteq Job /\ response' \subseteq Job
         /\ run' = run /\ ran' = ran /\ wdone' = wdone
<1> DEFINE j == [client |-> c, n |-> reads[c] + 1, type |-> type]
<1>1. reads[c] \in 0..MaxReads /\ reads[c] + 1 \in 1..MaxReads
  BY ServerAssumption DEF Types, Submit
<1>2. j \in Job
  BY <1>1 DEF Job
<1>3. wq' = Append(wq, j) /\ data' = data \cup {j} /\ reqs' = reqs \cup {j}
  BY DEF Submit
<1>4. reads' \in [Client -> 0..MaxReads]
  BY <1>1, ServerAssumption DEF Types, Submit
<1> QED
  BY <1>2, <1>3, <1>4 DEF Types, Submit

\* Every step of the loop and of the pool keeps the types.
LEMMA NextTypes == Types /\ [Next]_vars => Types'
<1> SUFFICES ASSUME Types, [Next]_vars PROVE Types'
  OBVIOUS
<1> USE DEF Types, loopVars, workVars, dataVars, FreeWorkData
<1>1. ASSUME NEW c \in Client, OnPeerConnected(c) PROVE Types'
  BY <1>1 DEF OnPeerConnected, UseHandleQueue
<1>2. ASSUME NEW c \in Client, OnAcceptFailed(c) PROVE Types'
  BY <1>2 DEF OnAcceptFailed, UseHandleQueue
<1>3. ASSUME NEW c \in Client, OnClientClosed(c) PROVE Types'
  BY <1>3 DEF OnClientClosed, UseHandleQueue
<1>4. ASSUME NEW c \in Client, OnPeerRead(c) PROVE Types'
  BY <1>4, SubmitType DEF OnPeerRead
<1>5. ASSUME NEW c \in Client, OnPeerReadCopyFails(c) PROVE Types'
  BY <1>5 DEF OnPeerReadCopyFails
<1>6. ASSUME NEW c \in Client, OnPeerEnd(c) PROVE Types'
  BY <1>6, SubmitType DEF OnPeerEnd
<1>7. ASSUME NEW c \in Client, OnSentResponse(c) PROVE Types'
  <2>1. Tail(writes[c]) \in Seq(Job)
    BY <1>7 DEF OnSentResponse
  <2>2. status' \in {"up", "exited", "crashed"} /\ wild' \subseteq {"handle", "request", "queue"}
    BY <1>7 DEF OnSentResponse, UseHandle
  <2> QED
    BY <1>7, <2>1, <2>2 DEF OnSentResponse
<1>8. ASSUME NEW c \in Client, OnWriteError(c) PROVE Types'
  BY <1>8 DEF OnWriteError
<1>9. CASE OnWorkUnregistered
  <2>1. Tail(wdone) \in Seq(Job)
    BY <1>9 DEF OnWorkUnregistered
  <2> QED
    BY <1>9, <2>1 DEF OnWorkUnregistered
<1>10. CASE OnWorkNoResponse
  BY <1>10 DEF OnWorkNoResponse
<1>11. CASE OnWorkCompleted
  <2> DEFINE j == Head(wdone)
  <2>1. j \in Job /\ Tail(wdone) \in Seq(Job)
    BY <1>11 DEF OnWorkCompleted
  <2>2. j.client \in Client /\ j.n \in 1..MaxReads
    BY <2>1 DEF Job
  <2>3. Append(writes[j.client], j) \in Seq(Job)
    BY <2>1, <2>2
  <2>4. Append(answered[j.client], j.n) \in Seq(1..MaxReads)
    BY <2>2
  <2>5. status' \in {"up", "exited", "crashed"} /\ wild' \subseteq {"handle", "request", "queue"}
    BY <1>11 DEF OnWorkCompleted, UseHandle
  <2> QED
    BY <1>11, <2>1, <2>2, <2>3, <2>4, <2>5 DEF OnWorkCompleted
<1>12. ASSUME NEW w \in Worker, WorkerTake(w) PROVE Types'
  BY <1>12 DEF WorkerTake
<1>13. ASSUME NEW w \in Worker, WorkerPost(w) PROVE Types'
  <2>1. run[w] \in Job
    BY <1>13 DEF WorkerPost
  <2>2. Append(wdone, run[w]) \in Seq(Job)
    BY <2>1
  <2> QED
    BY <1>13, <2>1, <2>2 DEF WorkerPost
<1>14. ASSUME NEW w \in Worker, OnWorkSubmitted(w) PROVE Types'
  BY <1>14 DEF OnWorkSubmitted, Due
<1>15. ASSUME NEW w \in Worker, OnSecondResponse(w) PROVE Types'
  BY <1>15 DEF OnSecondResponse
<1>16. ASSUME NEW w \in Worker, OnWorkClientClosed(w) PROVE Types'
  BY <1>16 DEF OnWorkClientClosed, Due, Job
<1>17. ASSUME NEW c \in Client, OnPeerNameFails(c) PROVE Types'
  BY <1>17 DEF OnPeerNameFails
<1>18. CASE UNCHANGED vars
  BY <1>18 DEF vars
<1>19. CASE OnWriteRefused
  BY <1>19 DEF OnWriteRefused
<1> QED
  BY <1>1, <1>2, <1>3, <1>4, <1>5, <1>6, <1>7, <1>8, <1>9, <1>10, <1>11, <1>12,
     <1>13, <1>14, <1>15, <1>16, <1>17, <1>18, <1>19 DEF Next, Loop, Pool

(***************************************************************************)
(* Reading is safe                                                         *)
(***************************************************************************)

\* What Submit appends to the queue, position by position
LEMMA SubmitAppends ==
  ASSUME Types, NEW c \in Client, NEW type \in {"data", "close"}, Submit(c, type)
  PROVE  /\ DOMAIN wq' = 1..(Len(wq) + 1)
         /\ \A i \in 1..Len(wq) : wq'[i] = wq[i]
         /\ wq'[Len(wq) + 1].client = c /\ wq'[Len(wq) + 1].type = type
<1> DEFINE j == [client |-> c, n |-> reads[c] + 1, type |-> type]
<1>1. wq' = Append(wq, j)
  BY DEF Submit
<1>2. wq \in Seq(Job)
  BY DEF Types
<1> QED
  BY <1>1, <1>2

\* Taking the head shifts the queue by one.
LEMMA TakeShifts ==
  ASSUME Types, NEW w \in Worker, WorkerTake(w)
  PROVE  /\ 1 \in DOMAIN wq
         /\ run' = [run EXCEPT ![w] = wq[1]] /\ wq[1] \in Job
         /\ \A i \in DOMAIN wq' : i + 1 \in DOMAIN wq /\ wq'[i] = wq[i + 1]
<1>1. wq \in Seq(Job) /\ wq # <<>> /\ wq' = Tail(wq) /\ run' = [run EXCEPT ![w] = Head(wq)]
  BY DEF Types, WorkerTake
<1> QED
  BY <1>1

\* Work is queued by connections only: what NextReadingInv needs when a
\* connection begins.
WorkIsConnected ==
  /\ \A i \in DOMAIN wq : handle[wq[i].client] # "none"
  /\ \A w \in Worker : run[w] # None => handle[run[w].client] # "none"

ReadingInv == Types /\ ReadingIsSafe /\ WorkIsConnected

\* A connection stops being read in the step that queues its teardown, and no
\* other step frees or queues anything of a connection that is read.
LEMMA NextReadingInv == ReadingInv /\ [Next]_vars => ReadingInv'
<1> SUFFICES ASSUME ReadingInv, [Next]_vars PROVE (ReadingIsSafe /\ WorkIsConnected)'
  BY NextTypes DEF ReadingInv
<1> USE DEF ReadingInv, ReadingIsSafe, WorkIsConnected, loopVars, workVars, dataVars, Types
<1>1. ASSUME NEW c \in Client, OnPeerConnected(c) PROVE (ReadingIsSafe /\ WorkIsConnected)'
  BY <1>1 DEF OnPeerConnected
<1>2. ASSUME NEW c \in Client, OnAcceptFailed(c) PROVE (ReadingIsSafe /\ WorkIsConnected)'
  BY <1>2 DEF OnAcceptFailed
<1>3. ASSUME NEW c \in Client, OnClientClosed(c) PROVE (ReadingIsSafe /\ WorkIsConnected)'
  BY <1>3 DEF OnClientClosed
<1>4. ASSUME NEW c \in Client, OnPeerRead(c) PROVE (ReadingIsSafe /\ WorkIsConnected)'
  <2>1. DOMAIN wq' = 1..(Len(wq) + 1) /\ DOMAIN wq = 1..Len(wq) /\ Len(wq) \in Nat
    BY <1>4, SubmitAppends DEF OnPeerRead
  <2>2. /\ \A i \in 1..Len(wq) : wq'[i] = wq[i]
        /\ wq'[Len(wq) + 1].client = c /\ wq'[Len(wq) + 1].type = "data"
    BY <1>4, SubmitAppends DEF OnPeerRead
  <2>3. run' = run
    BY <1>4 DEF OnPeerRead, Submit
  <2>4. \A i \in DOMAIN wq' : i \in DOMAIN wq \/ i = Len(wq) + 1
    BY <2>1
  <2>5. WorkIsConnected'
    BY <1>4, <2>1, <2>2, <2>3, <2>4 DEF OnPeerRead
  <2>6. ASSUME NEW d \in Client, reading'[d]
        PROVE  /\ handle'[d] = "open" /\ peer'[d] = "live"
               /\ \A i \in DOMAIN wq' : ~(wq'[i].client = d /\ wq'[i].type = "close")
               /\ \A w \in Worker : run'[w] # None => ~(run'[w].client = d /\ run'[w].type = "close")
    <3>1. reading[d] /\ handle' = handle /\ peer' = peer
      BY <1>4, <2>6 DEF OnPeerRead
    <3>2. ASSUME NEW i \in DOMAIN wq' PROVE ~(wq'[i].client = d /\ wq'[i].type = "close")
      <4>1. CASE i = Len(wq) + 1
        BY <2>2, <3>1, <4>1
      <4>2. CASE i \in DOMAIN wq
        <5>1. wq'[i] = wq[i]
          BY <2>1, <2>2, <4>2
        <5> QED
          BY <3>1, <4>2, <5>1
      <4> QED
        BY <2>4, <4>1, <4>2
    <3> QED
      BY <2>3, <3>1, <3>2
  <2> QED
    BY <2>5, <2>6
<1>5. ASSUME NEW c \in Client, OnPeerReadCopyFails(c) PROVE (ReadingIsSafe /\ WorkIsConnected)'
  BY <1>5 DEF OnPeerReadCopyFails
<1>6. ASSUME NEW c \in Client, OnPeerEnd(c) PROVE (ReadingIsSafe /\ WorkIsConnected)'
  <2>1. DOMAIN wq' = 1..(Len(wq) + 1) /\ DOMAIN wq = 1..Len(wq) /\ Len(wq) \in Nat
    BY <1>6, SubmitAppends DEF OnPeerEnd
  <2>2. /\ \A i \in 1..Len(wq) : wq'[i] = wq[i]
        /\ wq'[Len(wq) + 1].client = c /\ wq'[Len(wq) + 1].type = "close"
    BY <1>6, SubmitAppends DEF OnPeerEnd
  <2>3. run' = run
    BY <1>6 DEF OnPeerEnd, Submit
  <2>4. \A i \in DOMAIN wq' : i \in DOMAIN wq \/ i = Len(wq) + 1
    BY <2>1
  <2>5. WorkIsConnected'
    BY <1>6, <2>1, <2>2, <2>3, <2>4 DEF OnPeerEnd
  <2>6. ASSUME NEW d \in Client, reading'[d]
        PROVE  /\ handle'[d] = "open" /\ peer'[d] = "live"
               /\ \A i \in DOMAIN wq' : ~(wq'[i].client = d /\ wq'[i].type = "close")
               /\ \A w \in Worker : run'[w] # None => ~(run'[w].client = d /\ run'[w].type = "close")
    <3>1. reading[d] /\ d # c /\ handle' = handle /\ peer' = peer
      BY <1>6, <2>6 DEF OnPeerEnd
    <3>2. ASSUME NEW i \in DOMAIN wq' PROVE ~(wq'[i].client = d /\ wq'[i].type = "close")
      <4>1. CASE i = Len(wq) + 1
        BY <2>2, <3>1, <4>1
      <4>2. CASE i \in DOMAIN wq
        <5>1. wq'[i] = wq[i]
          BY <2>1, <2>2, <4>2
        <5> QED
          BY <3>1, <4>2, <5>1
      <4> QED
        BY <2>4, <4>1, <4>2
    <3> QED
      BY <2>3, <3>1, <3>2
  <2> QED
    BY <2>5, <2>6
<1>7. ASSUME NEW c \in Client, OnSentResponse(c) PROVE (ReadingIsSafe /\ WorkIsConnected)'
  BY <1>7 DEF OnSentResponse
<1>8. ASSUME NEW c \in Client, OnWriteError(c) PROVE (ReadingIsSafe /\ WorkIsConnected)'
  BY <1>8 DEF OnWriteError
<1>9. CASE OnWorkUnregistered
  BY <1>9 DEF OnWorkUnregistered
<1>10. CASE OnWorkNoResponse
  BY <1>10 DEF OnWorkNoResponse
<1>11. CASE OnWorkCompleted
  BY <1>11 DEF OnWorkCompleted
<1>12. ASSUME NEW w \in Worker, WorkerTake(w) PROVE (ReadingIsSafe /\ WorkIsConnected)'
  BY <1>12, TakeShifts DEF WorkerTake
<1>13. ASSUME NEW w \in Worker, WorkerPost(w) PROVE (ReadingIsSafe /\ WorkIsConnected)'
  BY <1>13 DEF WorkerPost
<1>14. ASSUME NEW w \in Worker, OnWorkSubmitted(w) PROVE (ReadingIsSafe /\ WorkIsConnected)'
  BY <1>14 DEF OnWorkSubmitted, Due
<1>15. ASSUME NEW w \in Worker, OnSecondResponse(w) PROVE (ReadingIsSafe /\ WorkIsConnected)'
  BY <1>15 DEF OnSecondResponse
<1>16. ASSUME NEW w \in Worker, OnWorkClientClosed(w) PROVE (ReadingIsSafe /\ WorkIsConnected)'
  BY <1>16 DEF OnWorkClientClosed, Due
<1>17. ASSUME NEW c \in Client, OnPeerNameFails(c) PROVE (ReadingIsSafe /\ WorkIsConnected)'
  BY <1>17 DEF OnPeerNameFails
<1>18. CASE UNCHANGED vars
  BY <1>18 DEF vars
<1>19. CASE OnWriteRefused
  BY <1>19 DEF OnWriteRefused
<1> QED
  BY <1>1, <1>2, <1>3, <1>4, <1>5, <1>6, <1>7, <1>8, <1>9, <1>10, <1>11, <1>12,
     <1>13, <1>14, <1>15, <1>16, <1>17, <1>18, <1>19 DEF Next, Loop, Pool

\* No connection is read whose handle or peer state is freed or about to be,
\* however many pool threads there are.
THEOREM ReadingSafe == Spec => []ReadingIsSafe
<1>1. Init => ReadingInv
  BY InitTypes DEF Init, ReadingInv, ReadingIsSafe, WorkIsConnected
<1>2. ReadingInv => ReadingIsSafe
  BY DEF ReadingInv
<1> QED
  BY <1>1, <1>2, NextReadingInv, PTL DEF Spec

(***************************************************************************)
(* Endpoints outlive the work on them                                      *)
(***************************************************************************)

\* A handle that was never accepted has no peer state: on_client_closed frees
\* none.
NoPeerWithoutAccept == \A c \in Client : handle[c] \in {"none", "closing"} => peer[c] = "none"

QueueInv == CloseComesLast /\ WorkHasPeer /\ NoPeerWithoutAccept

AloneInv == ReadingInv /\ QueueInv

\* What is queued for a connection that is still read comes after nothing that
\* frees its peer state.
LEMMA SubmitKeepsAloneInv ==
  ASSUME AloneInv, NEW c \in Client, NEW type \in {"data", "close"},
         reading[c], Submit(c, type), handle' = handle, peer' = peer
  PROVE  QueueInv'
<1>1. DOMAIN wq' = 1..(Len(wq) + 1) /\ DOMAIN wq = 1..Len(wq) /\ Len(wq) \in Nat
  BY SubmitAppends DEF AloneInv, ReadingInv, Types
<1>2. /\ \A i \in DOMAIN wq : wq'[i] = wq[i]
      /\ wq'[Len(wq) + 1].client = c
  BY <1>1, SubmitAppends DEF AloneInv, ReadingInv
<1>3. run' = run /\ ran' = ran
  BY DEF Submit
<1>4. \A i \in DOMAIN wq' : i \in DOMAIN wq \/ i = Len(wq) + 1
  BY <1>1
<1>5. peer[c] = "live" /\ \A i \in DOMAIN wq : ~(wq[i].client = c /\ wq[i].type = "close")
  BY DEF AloneInv, ReadingInv, ReadingIsSafe
<1>6. \A w \in Worker : run[w] # None => ~(run[w].client = c /\ run[w].type = "close")
  BY DEF AloneInv, ReadingInv, ReadingIsSafe
<1>7. ASSUME NEW i \in DOMAIN wq', NEW k \in DOMAIN wq', i < k, wq'[i].type = "close"
      PROVE  wq'[k].client # wq'[i].client
  <2>1. i \in DOMAIN wq
    BY <1>1, <1>7
  <2>2. CASE k = Len(wq) + 1
    BY <1>2, <1>5, <1>7, <2>1, <2>2
  <2>3. CASE k \in DOMAIN wq
    BY <1>2, <1>7, <2>1, <2>3 DEF AloneInv, QueueInv, CloseComesLast
  <2> QED
    BY <1>4, <2>2, <2>3
<1>8. ASSUME NEW w \in Worker, NEW k \in DOMAIN wq', run'[w] # None, ~ran'[w], run'[w].type = "close"
      PROVE  wq'[k].client # run'[w].client
  <2>1. CASE k = Len(wq) + 1
    BY <1>2, <1>3, <1>6, <1>8, <2>1
  <2>2. CASE k \in DOMAIN wq
    BY <1>2, <1>3, <1>8, <2>2 DEF AloneInv, QueueInv, CloseComesLast
  <2> QED
    BY <1>4, <2>1, <2>2
<1>9. CloseComesLast'
  BY <1>7, <1>8 DEF CloseComesLast
<1>10. WorkHasPeer'
  BY <1>2, <1>3, <1>4, <1>5 DEF AloneInv, QueueInv, WorkHasPeer, EndpointAlive
<1>11. NoPeerWithoutAccept'
  BY DEF AloneInv, QueueInv, NoPeerWithoutAccept
<1> QED
  BY <1>9, <1>10, <1>11 DEF QueueInv

\* With one thread, a connection's teardown is the last of its jobs to be taken,
\* and nothing of it runs while the teardown does.
LEMMA NextAloneInv ==
  ASSUME \A v, w \in Worker : v = w
  PROVE  AloneInv /\ [Next]_vars => AloneInv'
<1> SUFFICES ASSUME AloneInv, [Next]_vars PROVE QueueInv'
  BY NextReadingInv DEF AloneInv
<1> USE DEF AloneInv, ReadingInv, QueueInv, CloseComesLast, WorkHasPeer, EndpointAlive,
            NoPeerWithoutAccept, WorkIsConnected, loopVars, workVars, dataVars, Types
<1>1. ASSUME NEW c \in Client, OnPeerConnected(c) PROVE QueueInv'
  BY <1>1 DEF OnPeerConnected
<1>2. ASSUME NEW c \in Client, OnAcceptFailed(c) PROVE QueueInv'
  BY <1>2 DEF OnAcceptFailed
<1>3. ASSUME NEW c \in Client, OnClientClosed(c) PROVE QueueInv'
  BY <1>3 DEF OnClientClosed
<1>4. ASSUME NEW c \in Client, OnPeerRead(c) PROVE QueueInv'
  <2>1. reading[c] /\ Submit(c, "data") /\ handle' = handle /\ peer' = peer
    BY <1>4 DEF OnPeerRead
  <2> QED
    BY <2>1, SubmitKeepsAloneInv
<1>5. ASSUME NEW c \in Client, OnPeerReadCopyFails(c) PROVE QueueInv'
  BY <1>5 DEF OnPeerReadCopyFails
<1>6. ASSUME NEW c \in Client, OnPeerEnd(c) PROVE QueueInv'
  <2>1. reading[c] /\ Submit(c, "close") /\ handle' = handle /\ peer' = peer
    BY <1>6 DEF OnPeerEnd
  <2> QED
    BY <2>1, SubmitKeepsAloneInv
<1>7. ASSUME NEW c \in Client, OnSentResponse(c) PROVE QueueInv'
  BY <1>7 DEF OnSentResponse
<1>8. ASSUME NEW c \in Client, OnWriteError(c) PROVE QueueInv'
  BY <1>8 DEF OnWriteError
<1>9. CASE OnWorkUnregistered
  BY <1>9 DEF OnWorkUnregistered
<1>10. CASE OnWorkNoResponse
  BY <1>10 DEF OnWorkNoResponse
<1>11. CASE OnWorkCompleted
  BY <1>11 DEF OnWorkCompleted
<1>12. ASSUME NEW w \in Worker, WorkerTake(w) PROVE QueueInv'
  <2>1. /\ 1 \in DOMAIN wq /\ wq[1] \in Job /\ run' = [run EXCEPT ![w] = wq[1]]
        /\ \A i \in DOMAIN wq' : i + 1 \in DOMAIN wq /\ wq'[i] = wq[i + 1]
    BY <1>12, TakeShifts
  <2>2. /\ peer' = peer /\ handle' = handle /\ ran' = [ran EXCEPT ![w] = FALSE]
        /\ DOMAIN wq' = 1..Len(wq') /\ Len(wq') \in Nat
    <3>1. wq' \in Seq(Job)
      BY NextTypes
    <3> QED
      BY <1>12, <3>1 DEF WorkerTake
  <2>3. ASSUME NEW i \in DOMAIN wq', NEW k \in DOMAIN wq', i < k, wq'[i].type = "close"
        PROVE  wq'[k].client # wq'[i].client
    <3>1. /\ i + 1 \in DOMAIN wq /\ k + 1 \in DOMAIN wq /\ i + 1 < k + 1
          /\ wq'[i] = wq[i + 1] /\ wq'[k] = wq[k + 1]
      BY <2>1, <2>2, <2>3
    <3>2. \A m, n \in DOMAIN wq :
            m < n /\ wq[m].type = "close" => wq[n].client # wq[m].client
      OBVIOUS
    <3> QED
      BY <2>3, <3>1, <3>2
  <2>4. ASSUME NEW v \in Worker, NEW k \in DOMAIN wq', run'[v] # None, ~ran'[v],
               run'[v].type = "close"
        PROVE  wq'[k].client # run'[v].client
    <3>1. v = w /\ run'[v] = wq[1]
      BY <2>1
    <3>2. k + 1 \in DOMAIN wq /\ 1 < k + 1 /\ wq'[k] = wq[k + 1]
      BY <2>1, <2>2
    <3> QED
      BY <2>1, <2>4, <3>1, <3>2
  <2>5. WorkHasPeer' /\ NoPeerWithoutAccept'
    BY <2>1, <2>2
  <2> QED
    BY <2>3, <2>4, <2>5
<1>13. ASSUME NEW w \in Worker, WorkerPost(w) PROVE QueueInv'
  BY <1>13 DEF WorkerPost
<1>14. ASSUME NEW w \in Worker, OnWorkSubmitted(w) PROVE QueueInv'
  BY <1>14 DEF OnWorkSubmitted, Due
<1>15. ASSUME NEW w \in Worker, OnSecondResponse(w) PROVE QueueInv'
  BY <1>15 DEF OnSecondResponse
<1>16. ASSUME NEW w \in Worker, OnWorkClientClosed(w) PROVE QueueInv'
  BY <1>16 DEF OnWorkClientClosed, Due
<1>17. ASSUME NEW c \in Client, OnPeerNameFails(c) PROVE QueueInv'
  BY <1>17 DEF OnPeerNameFails
<1>18. CASE UNCHANGED vars
  BY <1>18 DEF vars
<1>19. CASE OnWriteRefused
  BY <1>19 DEF OnWriteRefused
<1> QED
  BY <1>1, <1>2, <1>3, <1>4, <1>5, <1>6, <1>7, <1>8, <1>9, <1>10, <1>11, <1>12,
     <1>13, <1>14, <1>15, <1>16, <1>17, <1>18, <1>19 DEF Next, Loop, Pool

\* With one pool thread, as set_thread_pool_size asks for, the thread never runs a
\* job of a connection whose endpoint is freed: first in, first out is enough.
THEOREM EndpointsAlive ==
  ASSUME \A v, w \in Worker : v = w
  PROVE  Spec => []EndpointAlive
<1>1. Init => AloneInv
  BY InitTypes DEF Init, AloneInv, ReadingInv, ReadingIsSafe, WorkIsConnected, QueueInv,
     CloseComesLast, WorkHasPeer, EndpointAlive, NoPeerWithoutAccept
<1>2. AloneInv /\ [Next]_vars => AloneInv'
  BY NextAloneInv
<1>3. AloneInv => EndpointAlive
  BY DEF AloneInv, QueueInv, WorkHasPeer
<1> QED
  BY <1>1, <1>2, <1>3, PTL DEF Spec

(***************************************************************************)
(* The order of the answers                                                *)
(*                                                                         *)
(* With one pool thread, the answers of a connection keep the order of its *)
(* reads: the jobs between on_peer_read and uv_write form one line, first  *)
(* the finished ones, then the one that runs, then the queue, and the jobs *)
(* of a connection stand in it with rising numbers.                        *)
(***************************************************************************)

\* The jobs in a queue, and those that run
Jobs(s) == {s[i] : i \in DOMAIN s}

Running == {run[w] : w \in {w \in Worker : run[w] # None}}

\* Every job in A was queued before those of the same connection in B.
AheadOf(A, B) == \A j \in A, k \in B : j.client = k.client => j.n < k.n

Sorted(s) == \A i, k \in DOMAIN s : i < k /\ s[i].client = s[k].client => s[i].n < s[k].n

(***************************************************************************)
(* Queues                                                                  *)
(***************************************************************************)

\* A sequence holds members of its set.
LEMMA ElementType == ASSUME NEW S, NEW s \in Seq(S), NEW i \in DOMAIN s PROVE s[i] \in S
OBVIOUS

\* What Append does to a queue: t is s with j behind it.
IsAppended(s, j, t) ==
  /\ t \in Seq(Job)
  /\ Jobs(t) = Jobs(s) \cup {j}
  /\ Sorted(s) /\ AheadOf(Jobs(s), {j}) => Sorted(t)

\* Appending adds the job, and keeps the order if it is ahead of none.
LEMMA AppendJobs ==
  ASSUME NEW s \in Seq(Job), NEW j \in Job
  PROVE  IsAppended(s, j, Append(s, j))
<1> DEFINE t == Append(s, j)
<1>1. /\ t \in Seq(Job) /\ DOMAIN s = 1..Len(s) /\ DOMAIN t = 1..(Len(s) + 1) /\ Len(s) \in Nat
      /\ \A i \in 1..Len(s) : t[i] = s[i]
      /\ t[Len(s) + 1] = j
  OBVIOUS
<1>2. \A i \in DOMAIN t : i \in DOMAIN s \/ i = Len(s) + 1
  BY <1>1
<1> HIDE DEF t
<1>3. Jobs(t) = Jobs(s) \cup {j}
  BY <1>1, <1>2 DEF Jobs
<1>4. ASSUME Sorted(s), AheadOf(Jobs(s), {j}) PROVE Sorted(t)
  <2> SUFFICES ASSUME NEW i \in DOMAIN t, NEW k \in DOMAIN t, i < k, t[i].client = t[k].client
               PROVE  t[i].n < t[k].n
    BY DEF Sorted
  <2>1. i \in DOMAIN s /\ t[i] = s[i]
    BY <1>1
  <2>2. CASE k \in DOMAIN s
    BY <1>1, <1>4, <2>1, <2>2 DEF Sorted
  <2>3. CASE k = Len(s) + 1
    BY <1>1, <1>4, <2>1, <2>3 DEF AheadOf, Jobs
  <2> QED
    BY <1>2, <2>2, <2>3
<1> QED
  BY <1>1, <1>3, <1>4 DEF IsAppended, t

\* What Head and Tail do to a queue: h is in front of t in s.
IsTaken(s, h, t) ==
  /\ h \in Job /\ t \in Seq(Job)
  /\ Jobs(s) = {h} \cup Jobs(t)
  /\ Sorted(s) => Sorted(t) /\ AheadOf({h}, Jobs(t))

\* The head was queued first, and the others stay in order.
LEMMA TakeJobs ==
  ASSUME NEW s \in Seq(Job), s # <<>>
  PROVE  IsTaken(s, Head(s), Tail(s))
<1> DEFINE t == Tail(s)
<1>1. /\ t \in Seq(Job) /\ Len(s) \in Nat /\ Len(s) > 0
      /\ DOMAIN s = 1..Len(s) /\ DOMAIN t = 1..(Len(s) - 1)
      /\ Head(s) = s[1] /\ s[1] \in Job
      /\ \A i \in 1..(Len(s) - 1) : t[i] = s[i + 1]
  OBVIOUS
<1> HIDE DEF t
<1>2. \A i \in DOMAIN t : i + 1 \in DOMAIN s /\ i + 1 > 1 /\ t[i] = s[i + 1]
  BY <1>1
<1>3. \A i \in DOMAIN s : i = 1 \/ (i - 1 \in DOMAIN t /\ s[i] = t[i - 1])
  BY <1>1
<1>4. Jobs(s) = {s[1]} \cup Jobs(t)
  BY <1>1, <1>2, <1>3 DEF Jobs
<1>5. ASSUME Sorted(s) PROVE Sorted(t) /\ AheadOf({s[1]}, Jobs(t))
  <2>1. Sorted(t)
    <3> SUFFICES ASSUME NEW i \in DOMAIN t, NEW k \in DOMAIN t, i < k, t[i].client = t[k].client
                 PROVE  t[i].n < t[k].n
      BY DEF Sorted
    <3>1. i + 1 < k + 1
      BY <1>1
    <3> QED
      BY <1>2, <1>5, <3>1 DEF Sorted
  <2>2. AheadOf({s[1]}, Jobs(t))
    <3> SUFFICES ASSUME NEW i \in DOMAIN t, s[1].client = t[i].client
                 PROVE  s[1].n < t[i].n
      BY DEF AheadOf, Jobs
    <3>1. 1 \in DOMAIN s /\ i + 1 \in DOMAIN s /\ 1 < i + 1
      BY <1>1, <1>2
    <3> QED
      BY <1>2, <1>5, <3>1 DEF Sorted
  <2> QED
    BY <2>1, <2>2
<1> QED
  BY <1>1, <1>4, <1>5 DEF IsTaken, t

(***************************************************************************)
(* The line                                                                *)
(***************************************************************************)

InLine == Jobs(wdone) \cup Running \cup Jobs(wq)

\* The three parts of the line follow each other.
LineInOrder ==
  /\ Sorted(wq) /\ Sorted(wdone)
  /\ AheadOf(Jobs(wdone), Running)
  /\ AheadOf(Jobs(wdone), Jobs(wq))
  /\ AheadOf(Running, Jobs(wq))

\* No number is used before its read, and a number that was answered is behind
\* what is in the line.
LineIsNew ==
  /\ \A j \in InLine : j.n <= reads[j.client]
  /\ \A c \in Client : \A i \in DOMAIN answered[c] :
       /\ answered[c][i] <= reads[c]
       /\ \A j \in InLine : j.client = c => answered[c][i] < j.n

OrderInv == Types /\ LineInOrder /\ LineIsNew /\ AnswersInOrder

\* The numbers in the line are numbers.
LEMMA InLineType == Types => InLine \subseteq Job
BY DEF Types, InLine, Running, Jobs

\* What is submitted goes behind the line under a new number.
LEMMA SubmitKeepsOrder ==
  ASSUME OrderInv, NEW c \in Client, NEW type \in {"data", "close"}, Submit(c, type),
         answered' = answered
  PROVE  (LineInOrder /\ LineIsNew /\ AnswersInOrder)'
<1> DEFINE j == [client |-> c, n |-> reads[c] + 1, type |-> type]
<1>1. reads[c] \in Nat /\ reads[c] + 1 \in 1..MaxReads /\ \A d \in Client : reads[d] \in Nat
  BY ServerAssumption DEF OrderInv, Types, Submit
<1>2. j \in Job /\ j.client = c /\ j.n = reads[c] + 1
  BY <1>1 DEF Job
<1>3. wq' = Append(wq, j) /\ run' = run /\ wdone' = wdone
  BY DEF Submit
<1>4. /\ reads'[c] = reads[c] + 1
      /\ \A d \in Client : d # c => reads'[d] = reads[d]
  BY DEF Submit, OrderInv, Types
<1> HIDE DEF j
<1>5. IsAppended(wq, j, wq')
  BY <1>2, <1>3, AppendJobs DEF OrderInv, Types
<1>6. Running' = Running /\ Jobs(wdone)' = Jobs(wdone) /\ Jobs(wq') = Jobs(wq) \cup {j}
  BY <1>3, <1>5 DEF Running, Jobs, IsAppended
<1>7. InLine' = InLine \cup {j}
  BY <1>6 DEF InLine
<1>8. InLine \subseteq Job /\ \A k \in Job : k.client \in Client /\ k.n \in Nat
  BY InLineType DEF OrderInv, Job
<1>9. AheadOf(InLine, {j})
  BY <1>1, <1>2, <1>8 DEF AheadOf, OrderInv, LineIsNew
<1>10. LineInOrder'
  <2>1. Sorted(wq') /\ Sorted(wdone)'
    BY <1>3, <1>5, <1>9 DEF IsAppended, OrderInv, LineInOrder, AheadOf, InLine, Sorted
  <2>2. AheadOf(Jobs(wdone), Jobs(wq) \cup {j}) /\ AheadOf(Running, Jobs(wq) \cup {j})
    BY <1>9 DEF AheadOf, OrderInv, LineInOrder, InLine
  <2> QED
    BY <1>6, <2>1, <2>2 DEF OrderInv, LineInOrder
<1>11. ASSUME NEW k \in InLine' PROVE k.n <= reads'[k.client]
  <2>1. CASE k = j
    BY <1>1, <1>2, <1>4, <2>1
  <2>2. CASE k \in InLine
    BY <1>1, <1>4, <1>8, <2>2 DEF OrderInv, LineIsNew
  <2> QED
    BY <1>7, <2>1, <2>2
<1>12. ASSUME NEW d \in Client, NEW i \in DOMAIN answered[d]
       PROVE  /\ answered[d][i] <= reads'[d]
              /\ \A k \in InLine' : k.client = d => answered[d][i] < k.n
  <2>1. answered[d][i] \in Nat /\ answered[d][i] <= reads[d]
    <3>1. answered[d] \in Seq(1..MaxReads)
      BY DEF OrderInv, Types
    <3>2. answered[d][i] \in 1..MaxReads
      BY <3>1, ElementType
    <3>3. answered[d][i] \in Nat
      BY <3>2, ServerAssumption
    <3> QED
      BY <1>12, <3>3 DEF OrderInv, LineIsNew
  <2>2. answered[d][i] <= reads'[d]
    BY <1>1, <1>4, <2>1
  <2>3. ASSUME NEW k \in InLine', k.client = d PROVE answered[d][i] < k.n
    <3>1. CASE k = j
      BY <1>1, <1>2, <2>1, <2>3, <3>1
    <3>2. CASE k \in InLine
      BY <2>3, <3>2 DEF OrderInv, LineIsNew
    <3> QED
      BY <1>7, <3>1, <3>2
  <2> QED
    BY <2>2, <2>3
<1>13. LineIsNew'
  BY <1>11, <1>12 DEF LineIsNew
<1> QED
  BY <1>10, <1>13 DEF OrderInv, AnswersInOrder

(***************************************************************************)
(* The steps                                                               *)
(***************************************************************************)

\* A step that moves nothing in the line keeps its order.
LEMMA StillLine ==
  ASSUME OrderInv, UNCHANGED <<wq, wdone, run, reads, answered>>
  PROVE  (LineInOrder /\ LineIsNew /\ AnswersInOrder)'
BY DEF OrderInv, LineInOrder, LineIsNew, AnswersInOrder, InLine, Running, Jobs, Sorted, AheadOf

\* A thread takes the oldest job of the queue; with one thread nothing runs
\* that could finish after it.
LEMMA TakeKeepsOrder ==
  ASSUME OrderInv, NEW w \in Worker, \A v \in Worker : v = w, WorkerTake(w)
  PROVE  (LineInOrder /\ LineIsNew /\ AnswersInOrder)'
<1>1. /\ wq \in Seq(Job) /\ wq # <<>> /\ wq' = Tail(wq)
      /\ run \in [Worker -> Job \cup {None}]
      /\ run[w] = None /\ run' = [run EXCEPT ![w] = Head(wq)]
      /\ wdone' = wdone /\ reads' = reads /\ answered' = answered
  BY DEF OrderInv, Types, WorkerTake, loopVars
<1> DEFINE j == Head(wq)
<1>2. IsTaken(wq, j, wq')
  BY <1>1, TakeJobs
<1>3. run'[w] = j /\ j # None
  BY <1>1, <1>2, NoneAssumption DEF IsTaken
<1> HIDE DEF j
<1>4. Running = {} /\ Running' = {j}
  BY <1>1, <1>3 DEF Running
<1>5. Jobs(wdone)' = Jobs(wdone) /\ Jobs(wq') = Jobs(wq)' /\ Jobs(wq) = {j} \cup Jobs(wq)'
  BY <1>1, <1>2 DEF Jobs, IsTaken
<1>6. InLine' = InLine
  BY <1>4, <1>5 DEF InLine
<1>7. LineInOrder'
  <2>1. Sorted(wq)' /\ AheadOf({j}, Jobs(wq)')
    BY <1>2, <1>5 DEF IsTaken, OrderInv, LineInOrder, Sorted
  <2>2. Sorted(wdone)'
    BY <1>1 DEF Sorted, OrderInv, LineInOrder
  <2>3. AheadOf(Jobs(wdone), {j}) /\ AheadOf(Jobs(wdone), Jobs(wq)')
    BY <1>5 DEF AheadOf, OrderInv, LineInOrder
  <2> QED
    BY <1>4, <1>5, <2>1, <2>2, <2>3 DEF LineInOrder
<1>8. LineIsNew' /\ AnswersInOrder'
  BY <1>1, <1>6 DEF LineIsNew, OrderInv, AnswersInOrder
<1> QED
  BY <1>7, <1>8

\* The thread hands its job to the loop, behind what finished earlier.
LEMMA PostKeepsOrder ==
  ASSUME OrderInv, NEW w \in Worker, \A v \in Worker : v = w, WorkerPost(w)
  PROVE  (LineInOrder /\ LineIsNew /\ AnswersInOrder)'
<1> DEFINE j == run[w]
<1>1. /\ wdone \in Seq(Job) /\ wdone' = Append(wdone, j)
      /\ run \in [Worker -> Job \cup {None}]
      /\ j \in Job /\ j # None /\ run' = [run EXCEPT ![w] = None]
      /\ wq' = wq /\ reads' = reads /\ answered' = answered
  BY DEF OrderInv, Types, WorkerPost, loopVars
<1>2. IsAppended(wdone, j, wdone')
  BY <1>1, AppendJobs
<1>3. run'[w] = None /\ run[w] = j
  BY <1>1
<1> HIDE DEF j
<1>4. Running = {j} /\ Running' = {}
  BY <1>1, <1>3 DEF Running
<1>5. Jobs(wq)' = Jobs(wq) /\ Jobs(wdone)' = Jobs(wdone) \cup {j}
  BY <1>1, <1>2 DEF Jobs, IsAppended
<1>6. InLine' = InLine
  BY <1>4, <1>5 DEF InLine
<1>7. LineInOrder'
  <2>1. Sorted(wdone)'
    BY <1>2, <1>4 DEF IsAppended, OrderInv, LineInOrder, Sorted
  <2>2. Sorted(wq)'
    BY <1>1 DEF Sorted, OrderInv, LineInOrder
  <2>3. AheadOf(Jobs(wdone) \cup {j}, Jobs(wq))
    BY <1>4 DEF AheadOf, OrderInv, LineInOrder
  <2>4. AheadOf(Jobs(wdone)', {}) /\ AheadOf({}, Jobs(wq)')
    BY DEF AheadOf
  <2> QED
    BY <1>4, <1>5, <2>1, <2>2, <2>3, <2>4 DEF LineInOrder
<1>8. LineIsNew' /\ AnswersInOrder'
  BY <1>1, <1>6 DEF LineIsNew, OrderInv, AnswersInOrder
<1> QED
  BY <1>7, <1>8

\* The loop takes the oldest finished job out of the line.
LEMMA CompleteKeepsOrder ==
  ASSUME OrderInv, wdone # <<>>, wdone' = Tail(wdone), UNCHANGED <<wq, run, reads>>
  PROVE  /\ LineInOrder' /\ InLine' \subseteq InLine
         /\ AheadOf({Head(wdone)}, InLine') /\ Head(wdone) \in InLine
<1> DEFINE j == Head(wdone)
<1>1. wdone \in Seq(Job)
  BY DEF OrderInv, Types
<1>2. IsTaken(wdone, j, wdone')
  BY <1>1, TakeJobs
<1> HIDE DEF j
<1>3. Running' = Running /\ Jobs(wq)' = Jobs(wq) /\ Jobs(wdone) = {j} \cup Jobs(wdone)'
  BY <1>2 DEF Running, Jobs, IsTaken
<1>4. InLine = InLine' \cup {j}
  BY <1>3 DEF InLine
<1>5. Sorted(wdone)' /\ AheadOf({j}, Jobs(wdone)')
  BY <1>2, <1>3 DEF IsTaken, OrderInv, LineInOrder, Sorted, Jobs
<1>6. Sorted(wq)'
  BY DEF Sorted, OrderInv, LineInOrder
<1>7. /\ AheadOf({j}, Running) /\ AheadOf(Jobs(wdone)', Running)
      /\ AheadOf({j}, Jobs(wq)) /\ AheadOf(Jobs(wdone)', Jobs(wq))
  BY <1>3 DEF AheadOf, OrderInv, LineInOrder
<1>8. LineInOrder'
  BY <1>3, <1>5, <1>6, <1>7 DEF LineInOrder, OrderInv
<1>9. AheadOf({j}, InLine')
  BY <1>3, <1>5, <1>7 DEF InLine, AheadOf
<1> QED
  BY <1>4, <1>8, <1>9 DEF j

\* A completed job is answered behind every job of its connection that was
\* answered before, and ahead of the rest of the line.
LEMMA AnswerKeepsOrder ==
  ASSUME OrderInv, OnWorkCompleted
  PROVE  (LineInOrder /\ LineIsNew /\ AnswersInOrder)'
<1> DEFINE j == Head(wdone)
<1>1. /\ wdone \in Seq(Job) /\ wdone # <<>> /\ wdone' = Tail(wdone)
      /\ wq' = wq /\ run' = run /\ reads' = reads
      /\ answered' = [answered EXCEPT ![j.client] = Append(@, j.n)]
  BY DEF OrderInv, Types, OnWorkCompleted, loopVars
<1>2. /\ LineInOrder' /\ InLine' \subseteq InLine
      /\ AheadOf({j}, InLine') /\ j \in InLine
  BY <1>1, CompleteKeepsOrder
<1> HIDE DEF j
<1>3. j \in Job /\ j.client \in Client /\ j.n \in Nat /\ j.n \in 1..MaxReads
  BY <1>2, InLineType, ServerAssumption DEF OrderInv, Job
<1>4. answered \in [Client -> Seq(1..MaxReads)]
  BY DEF OrderInv, Types
<1>5. j.n <= reads[j.client] /\ \A i \in DOMAIN answered[j.client] : answered[j.client][i] < j.n
  BY <1>2, <1>3 DEF OrderInv, LineIsNew
<1>6. ASSUME NEW k \in InLine' PROVE k.n <= reads'[k.client]
  BY <1>1, <1>2, <1>6 DEF OrderInv, LineIsNew
<1>7. ASSUME NEW d \in Client
      PROVE  /\ \A i \in DOMAIN answered'[d] :
                  /\ answered'[d][i] <= reads'[d]
                  /\ \A k \in InLine' : k.client = d => answered'[d][i] < k.n
             /\ \A i, k \in DOMAIN answered'[d] : i < k => answered'[d][i] < answered'[d][k]
  <2>1. CASE d # j.client
    <3>1. answered'[d] = answered[d]
      BY <1>1, <1>3, <1>4, <2>1
    <3> QED
      BY <1>1, <1>2, <3>1 DEF OrderInv, LineIsNew, AnswersInOrder
  <2>2. CASE d = j.client
    <3> DEFINE s == answered[d]
               t == answered'[d]
    <3>1. s \in Seq(1..MaxReads) /\ t = Append(s, j.n)
      BY <1>1, <1>3, <1>4, <2>2
    <3>2. /\ DOMAIN s = 1..Len(s) /\ DOMAIN t = 1..(Len(s) + 1) /\ Len(s) \in Nat
          /\ t[Len(s) + 1] = j.n /\ \A i \in DOMAIN s : t[i] = s[i]
      BY <1>3, <3>1
    <3>3. \A i \in DOMAIN s : s[i] <= reads[d] /\ s[i] < j.n
      BY <1>5, <2>2 DEF OrderInv, LineIsNew
    <3>4. \A i, k \in DOMAIN s : i < k => s[i] < s[k]
      BY DEF OrderInv, AnswersInOrder
    <3>5. \A i \in DOMAIN s, k \in InLine' : k.client = d => s[i] < k.n
      BY <1>2 DEF OrderInv, LineIsNew
    <3>6. \A k \in InLine' : k.client = d => j.n < k.n
      BY <1>2, <2>2 DEF AheadOf
    <3>7. j.n <= reads[d]
      BY <1>5, <2>2
    <3> HIDE DEF s, t
    <3>8. \A i \in DOMAIN t : i \in DOMAIN s \/ t[i] = j.n
      BY <3>2
    <3>9. \A i \in DOMAIN t : t[i] <= reads[d]
      BY <3>2, <3>3, <3>7, <3>8
    <3>10. \A i \in DOMAIN t, k \in InLine' : k.client = d => t[i] < k.n
      BY <3>2, <3>5, <3>6, <3>8
    <3>11. \A i, k \in DOMAIN t : i < k => t[i] < t[k]
      BY <3>2, <3>3, <3>4
    <3> QED
      BY <1>1, <3>9, <3>10, <3>11 DEF t
  <2> QED
    BY <2>1, <2>2
<1> QED
  BY <1>2, <1>6, <1>7 DEF LineIsNew, AnswersInOrder

\* Completing a job that is not answered shortens the line and nothing else.
LEMMA DropKeepsOrder ==
  ASSUME OrderInv, OnWorkUnregistered \/ OnWorkNoResponse
  PROVE  (LineInOrder /\ LineIsNew /\ AnswersInOrder)'
<1>1. /\ wdone # <<>> /\ wdone' = Tail(wdone)
      /\ wq' = wq /\ run' = run /\ reads' = reads /\ answered' = answered
  BY DEF OnWorkUnregistered, OnWorkNoResponse, loopVars
<1>2. LineInOrder' /\ InLine' \subseteq InLine
  BY <1>1, CompleteKeepsOrder
<1> QED
  BY <1>1, <1>2 DEF OrderInv, LineIsNew, AnswersInOrder

\* With one thread every step of the loop and of the pool keeps the line in order.
LEMMA NextOrder ==
  ASSUME \A v, w \in Worker : v = w, OrderInv, [Next]_vars
  PROVE  OrderInv'
<1> USE DEF loopVars, workVars, dataVars
<1>1. Types'
  BY NextTypes DEF OrderInv
<1> DEFINE Goal == (LineInOrder /\ LineIsNew /\ AnswersInOrder)'
<1> SUFFICES Goal
  BY <1>1 DEF OrderInv
<1>2. CASE UNCHANGED <<wq, wdone, run, reads, answered>>
  BY <1>2, StillLine
<1>3. ASSUME NEW c \in Client, OnPeerRead(c) \/ OnPeerEnd(c) PROVE Goal
  <2>1. answered' = answered /\ (Submit(c, "data") \/ Submit(c, "close"))
    BY <1>3 DEF OnPeerRead, OnPeerEnd
  <2> QED
    BY <2>1, SubmitKeepsOrder
<1>4. ASSUME NEW w \in Worker, WorkerTake(w) PROVE Goal
  BY <1>4, TakeKeepsOrder
<1>5. ASSUME NEW w \in Worker, WorkerPost(w) PROVE Goal
  BY <1>5, PostKeepsOrder
<1>6. CASE OnWorkCompleted
  BY <1>6, AnswerKeepsOrder
<1>7. CASE OnWorkUnregistered \/ OnWorkNoResponse
  BY <1>7, DropKeepsOrder
<1>8. ASSUME NEW c \in Client,
             \/ OnPeerConnected(c) \/ OnPeerNameFails(c) \/ OnAcceptFailed(c)
             \/ OnClientClosed(c) \/ OnPeerReadCopyFails(c)
             \/ OnSentResponse(c) \/ OnWriteError(c)
      PROVE  Goal
  <2>1. UNCHANGED <<wq, wdone, run, reads, answered>>
    BY <1>8 DEF OnPeerConnected, OnPeerNameFails, OnAcceptFailed, OnClientClosed,
                OnPeerReadCopyFails, OnSentResponse, OnWriteError
  <2> QED
    BY <2>1, StillLine
<1>9. ASSUME NEW w \in Worker, OnWorkSubmitted(w) \/ OnSecondResponse(w) \/ OnWorkClientClosed(w)
      PROVE  Goal
  <2>1. UNCHANGED <<wq, wdone, run, reads, answered>>
    BY <1>9 DEF OnWorkSubmitted, OnSecondResponse, OnWorkClientClosed
  <2> QED
    BY <2>1, StillLine
<1>10. UNCHANGED vars \/ OnWriteRefused => UNCHANGED <<wq, wdone, run, reads, answered>>
  BY DEF vars, OnWriteRefused
<1> QED
  BY <1>2, <1>3, <1>4, <1>5, <1>6, <1>7, <1>8, <1>9, <1>10 DEF Next, Loop, Pool

\* The server starts with an empty line.
LEMMA InitOrder == Init => OrderInv
<1> SUFFICES ASSUME Init PROVE OrderInv
  OBVIOUS
<1>1. Types
  BY InitTypes
<1>2. Running = {} /\ Jobs(wq) = {} /\ Jobs(wdone) = {}
  BY DEF Init, Running, Jobs
<1>3. InLine = {} /\ LineInOrder
  BY <1>2 DEF Init, InLine, LineInOrder, Sorted, AheadOf
<1>4. LineIsNew /\ AnswersInOrder
  BY <1>3 DEF Init, LineIsNew, AnswersInOrder
<1> QED
  BY <1>1, <1>3, <1>4 DEF OrderInv

\* With the one pool thread main() asks for, every connection is answered in the
\* order of its reads, for any number of connections and of reads.
THEOREM AnswersOrdered ==
  ASSUME \A v, w \in Worker : v = w
  PROVE  Spec => []AnswersInOrder
<1>1. OrderInv /\ [Next]_vars => OrderInv'
  BY NextOrder
<1>2. OrderInv => AnswersInOrder
  BY DEF OrderInv
<1> QED
  BY InitOrder, <1>1, <1>2, PTL DEF Spec

(***************************************************************************)
(* Every peer_work_data_t has one owner, for any number of connections,    *)
(* reads and pool threads.  A job is at one of four places (the queue, a   *)
(* thread, the finished work, a write) as long as its work data is         *)
(* allocated, and at none before and after.                                *)
(***************************************************************************)


(***************************************************************************)
(* Places in a queue                                                       *)
(***************************************************************************)

\* Where j stands in s
At(s, j) == {i \in DOMAIN s : s[i] = j}

Once(S) == \E x : S = {x}

\* S may stand for T where only "none" and "one" are told apart.
SameCount(S, T) == (T = {} => S = {}) /\ (Once(T) => Once(S))

\* What Append does to the places of k.
AppendedAt(s, j, k) ==
  IF k = j THEN At(s, k) = {} => Once(At(Append(s, j), k)) ELSE At(Append(s, j), k) = At(s, k)

\* Appending a job gives it one place more and moves no other.
LEMMA AtAppend ==
  ASSUME NEW s \in Seq(Job), NEW j \in Job, NEW k
  PROVE  AppendedAt(s, j, k)
<1> DEFINE t == Append(s, j)
<1>1. /\ DOMAIN s = 1..Len(s) /\ DOMAIN t = 1..(Len(s) + 1) /\ Len(s) \in Nat
      /\ \A i \in DOMAIN s : t[i] = s[i]
      /\ t[Len(s) + 1] = j
  OBVIOUS
<1> HIDE DEF t
<1>2. \A i : i \in DOMAIN t <=> i \in DOMAIN s \/ i = Len(s) + 1
  BY <1>1
<1>3. Len(s) + 1 \notin DOMAIN s
  BY <1>1
<1>4. CASE k = j
  <2>1. ASSUME At(s, k) = {} PROVE At(t, k) = {Len(s) + 1}
    BY <1>1, <1>2, <1>4, <2>1 DEF At
  <2> QED
    BY <1>4, <2>1 DEF AppendedAt, Once, t
<1>5. CASE k # j
  <2>1. At(t, k) = At(s, k)
    BY <1>1, <1>2, <1>3, <1>5 DEF At
  <2> QED
    BY <1>5, <2>1 DEF AppendedAt, t
<1> QED
  BY <1>4, <1>5

\* What Tail does to the places of k.
TakenAt(s, k) ==
  IF k = Head(s) THEN At(s, k) # {} /\ (Once(At(s, k)) => At(Tail(s), k) = {})
                 ELSE SameCount(At(Tail(s), k), At(s, k))

\* Taking the head takes its only place, and leaves the others theirs.
LEMMA AtTail ==
  ASSUME NEW s \in Seq(Job), s # <<>>, NEW k
  PROVE  TakenAt(s, k)
<1> DEFINE t == Tail(s)
<1>1. /\ Len(s) \in Nat /\ Len(s) > 0
      /\ DOMAIN s = 1..Len(s) /\ DOMAIN t = 1..(Len(s) - 1)
      /\ Head(s) = s[1]
      /\ \A i \in 1..(Len(s) - 1) : t[i] = s[i + 1]
  OBVIOUS
<1> HIDE DEF t
<1>2. \A i \in DOMAIN t : i + 1 \in DOMAIN s /\ i + 1 # 1 /\ t[i] = s[i + 1] /\ i = (i + 1) - 1
  BY <1>1
<1>3. \A i \in DOMAIN s : i = 1 \/ (i - 1 \in DOMAIN t /\ s[i] = t[i - 1])
  BY <1>1
<1>4. 1 \in DOMAIN s
  BY <1>1
<1>5. CASE k = Head(s)
  <2>1. 1 \in At(s, k)
    BY <1>1, <1>4, <1>5 DEF At
  <2>2. ASSUME Once(At(s, k)) PROVE At(t, k) = {}
    <3>1. At(s, k) = {1}
      BY <2>1, <2>2 DEF Once
    <3>2. ASSUME NEW i \in At(t, k) PROVE FALSE
      BY <1>2, <3>1, <3>2 DEF At
    <3> QED
      BY <3>2
  <2> QED
    BY <1>5, <2>1, <2>2 DEF TakenAt, t
<1>6. CASE k # Head(s)
  <2>1. ASSUME At(s, k) = {} PROVE At(t, k) = {}
    BY <1>2, <2>1 DEF At
  <2>2. ASSUME Once(At(s, k)) PROVE Once(At(t, k))
    <3>1. PICK x : At(s, k) = {x}
      BY <2>2 DEF Once
    <3>2. x \in DOMAIN s /\ s[x] = k /\ \A i \in DOMAIN s : s[i] = k => i = x
      BY <3>1 DEF At
    <3>3. x - 1 \in DOMAIN t /\ t[x - 1] = k
      BY <1>1, <1>3, <1>6, <3>2
    <3>4. \A i \in DOMAIN t : t[i] = k => i = x - 1
      BY <1>2, <3>2
    <3>5. At(t, k) = {x - 1}
      BY <3>3, <3>4 DEF At
    <3> QED
      BY <3>5 DEF Once
  <2> QED
    BY <1>6, <2>1, <2>2 DEF TakenAt, SameCount, t
<1> QED
  BY <1>5, <1>6

(***************************************************************************)
(* The places of a job                                                     *)
(***************************************************************************)

QueueAt(j) == At(wq, j)
RunAt(j) == {w \in Worker : run[w] = j /\ (j.type = "data" \/ ~ran[w])}
DoneAt(j) == {i \in DOMAIN wdone : wdone[i] = j /\ j.type = "data"}
WriteAt(j) == At(writes[j.client], j)

OneOf(Q, R, D, W) == \/ Once(Q) /\ R = {} /\ D = {} /\ W = {}
                     \/ Q = {} /\ Once(R) /\ D = {} /\ W = {}
                     \/ Q = {} /\ R = {} /\ Once(D) /\ W = {}
                     \/ Q = {} /\ R = {} /\ D = {} /\ Once(W)

NoneOf(Q, R, D, W) == Q = {} /\ R = {} /\ D = {} /\ W = {}

Owned(j) == IF j \in data THEN OneOf(QueueAt(j), RunAt(j), DoneAt(j), WriteAt(j))
                          ELSE NoneOf(QueueAt(j), RunAt(j), DoneAt(j), WriteAt(j))

\* Allocated work data belongs to a read that has been, and a write to its client.
DataIsOld == \A j \in data : j.n <= reads[j.client]

WritesAreTheirs == \A c \in Client : \A i \in DOMAIN writes[c] : writes[c][i].client = c

OwnInv == Types /\ DataIsOld /\ WritesAreTheirs /\ \A j \in Job : Owned(j)

\* A job keeps its place if each of its four sets of places does.
KeepsPlaces(j) ==
  /\ SameCount(QueueAt(j)', QueueAt(j)) /\ SameCount(RunAt(j)', RunAt(j))
  /\ SameCount(DoneAt(j)', DoneAt(j)) /\ SameCount(WriteAt(j)', WriteAt(j))
  /\ j \in data' <=> j \in data

\* A job that keeps its places keeps its owner.
LEMMA KeptOwned == ASSUME NEW j \in Job, Owned(j), KeepsPlaces(j) PROVE Owned(j)'
<1> DEFINE Q == QueueAt(j)
           R == RunAt(j)
           D == DoneAt(j)
           W == WriteAt(j)
           Q1 == QueueAt(j)'
           R1 == RunAt(j)'
           D1 == DoneAt(j)'
           W1 == WriteAt(j)'
<1>1. SameCount(Q1, Q) /\ SameCount(R1, R) /\ SameCount(D1, D) /\ SameCount(W1, W)
  BY DEF KeepsPlaces
<1>2. IF j \in data THEN OneOf(Q, R, D, W) ELSE NoneOf(Q, R, D, W)
  BY DEF Owned
<1> HIDE DEF Q, R, D, W, Q1, R1, D1, W1
<1>3. IF j \in data THEN OneOf(Q1, R1, D1, W1) ELSE NoneOf(Q1, R1, D1, W1)
  BY <1>1, <1>2 DEF SameCount, OneOf, NoneOf
<1> QED
  BY <1>3 DEF KeepsPlaces, Owned, Q1, R1, D1, W1

\* The four sets do not change by themselves.
LEMMA SamePlaces ==
  ASSUME NEW j \in Job
  PROVE  /\ wq' = wq => QueueAt(j)' = QueueAt(j)
         /\ run' = run /\ ran' = ran => RunAt(j)' = RunAt(j)
         /\ wdone' = wdone => DoneAt(j)' = DoneAt(j)
         /\ writes' = writes => WriteAt(j)' = WriteAt(j)
BY DEF QueueAt, RunAt, DoneAt, WriteAt, At

\* A set has as many members as it has.
LEMMA SameCountSelf == \A S : SameCount(S, S)
BY DEF SameCount

\* A step that moves no job and frees no work data keeps every owner.
LEMMA StillOwned ==
  ASSUME OwnInv, UNCHANGED <<wq, run, ran, wdone, writes, data, reads>>
  PROVE  (DataIsOld /\ WritesAreTheirs)' /\ \A j \in Job : Owned(j)'
<1>1. (DataIsOld /\ WritesAreTheirs)'
  BY DEF OwnInv, DataIsOld, WritesAreTheirs
<1>2. ASSUME NEW j \in Job PROVE Owned(j)'
  <2>1. KeepsPlaces(j)
    BY SamePlaces, SameCountSelf DEF KeepsPlaces
  <2> QED
    BY <2>1, KeptOwned DEF OwnInv
<1> QED
  BY <1>1, <1>2

\* An owned job that is somewhere has that one place, and work data.
LEMMA ThePlace ==
  ASSUME NEW j \in Job, Owned(j)
  PROVE  /\ QueueAt(j) # {} => /\ j \in data /\ Once(QueueAt(j))
                              /\ RunAt(j) = {} /\ DoneAt(j) = {} /\ WriteAt(j) = {}
         /\ RunAt(j) # {} => /\ j \in data /\ Once(RunAt(j))
                            /\ QueueAt(j) = {} /\ DoneAt(j) = {} /\ WriteAt(j) = {}
         /\ DoneAt(j) # {} => /\ j \in data /\ Once(DoneAt(j))
                             /\ QueueAt(j) = {} /\ RunAt(j) = {} /\ WriteAt(j) = {}
         /\ WriteAt(j) # {} => /\ j \in data /\ Once(WriteAt(j))
                              /\ QueueAt(j) = {} /\ RunAt(j) = {} /\ DoneAt(j) = {}
BY DEF Owned, OneOf, NoneOf, Once

(***************************************************************************)
(* The steps                                                               *)
(***************************************************************************)

\* What is submitted is new, and the queue owns it.
LEMMA SubmitOwned ==
  ASSUME OwnInv, NEW c \in Client, NEW type \in {"data", "close"}, Submit(c, type),
         writes' = writes
  PROVE  (DataIsOld /\ WritesAreTheirs)' /\ \A j \in Job : Owned(j)'
<1> DEFINE new == [client |-> c, n |-> reads[c] + 1, type |-> type]
<1>1. /\ wq \in Seq(Job) /\ wq' = Append(wq, new) /\ data' = data \cup {new} /\ data \subseteq Job
      /\ run' = run /\ ran' = ran /\ wdone' = wdone
      /\ reads' = [reads EXCEPT ![c] = @ + 1] /\ reads \in [Client -> 0..MaxReads]
  BY DEF Submit, OwnInv, Types
<1>2. reads[c] \in Nat /\ reads[c] + 1 \in 1..MaxReads /\ \A d \in Client : reads[d] \in Nat
  BY <1>1, ServerAssumption DEF Submit
<1>3. new \in Job /\ new.client = c /\ new.n = reads[c] + 1
  BY <1>2 DEF Job
<1> HIDE DEF new
<1>4. new \notin data
  <2> SUFFICES ASSUME new \in data PROVE FALSE
    OBVIOUS
  <2>1. reads[c] + 1 <= reads[c]
    BY <1>3 DEF OwnInv, DataIsOld
  <2> QED
    BY <1>2, <2>1
<1>5. \A j \in Job : j.client \in Client /\ j.n \in Nat
  BY DEF Job
<1>6. DataIsOld'
  <2> SUFFICES ASSUME NEW j \in data' PROVE j.n <= reads'[j.client]
    BY DEF DataIsOld
  <2>1. CASE j = new
    BY <1>1, <1>2, <1>3, <2>1
  <2>2. CASE j \in data
    <3>1. j.n <= reads[j.client] /\ j \in Job
      BY <1>1, <2>2 DEF OwnInv, DataIsOld
    <3> QED
      BY <1>1, <1>2, <1>5, <3>1
  <2> QED
    BY <1>1, <2>1, <2>2
<1>7. ASSUME NEW j \in Job PROVE Owned(j)'
  <2>1. Owned(j) /\ AppendedAt(wq, new, j) /\ QueueAt(j)' = At(Append(wq, new), j)
    BY <1>1, <1>3, AtAppend DEF OwnInv, QueueAt, At
  <2>2. RunAt(j)' = RunAt(j) /\ DoneAt(j)' = DoneAt(j) /\ WriteAt(j)' = WriteAt(j)
    BY <1>1, SamePlaces
  <2>3. CASE j = new
    <3>1. NoneOf(QueueAt(j), RunAt(j), DoneAt(j), WriteAt(j))
      BY <1>4, <2>1, <2>3 DEF Owned
    <3>2. Once(QueueAt(j)')
      BY <2>1, <2>3, <3>1 DEF AppendedAt, NoneOf, QueueAt
    <3>3. j \in data'
      BY <1>1, <2>3
    <3> QED
      BY <2>2, <3>1, <3>2, <3>3 DEF Owned, OneOf, NoneOf
  <2>4. CASE j # new
    <3>1. QueueAt(j)' = QueueAt(j)
      BY <2>1, <2>4 DEF AppendedAt, QueueAt
    <3>2. KeepsPlaces(j)
      BY <1>1, <2>2, <2>4, <3>1, SameCountSelf DEF KeepsPlaces
    <3> QED
      BY <2>1, <3>2, KeptOwned
  <2> QED
    BY <2>3, <2>4
<1> QED
  BY <1>6, <1>7 DEF OwnInv, WritesAreTheirs

\* A job that is taken goes from the queue to the thread.
LEMMA TakeOwned ==
  ASSUME OwnInv, NEW w \in Worker, WorkerTake(w)
  PROVE  (DataIsOld /\ WritesAreTheirs)' /\ \A j \in Job : Owned(j)'
<1> DEFINE h == Head(wq)
<1>1. /\ wq \in Seq(Job) /\ wq # <<>> /\ wq' = Tail(wq)
      /\ run \in [Worker -> Job \cup {None}] /\ run[w] = None /\ run' = [run EXCEPT ![w] = h]
      /\ ran \in [Worker -> BOOLEAN] /\ ran' = [ran EXCEPT ![w] = FALSE]
      /\ wdone' = wdone /\ writes' = writes /\ data' = data /\ reads' = reads
  BY DEF WorkerTake, OwnInv, Types, dataVars, loopVars
<1> HIDE DEF h
<1>2. (DataIsOld /\ WritesAreTheirs)'
  BY <1>1 DEF OwnInv, DataIsOld, WritesAreTheirs
<1>3. ASSUME NEW j \in Job PROVE Owned(j)'
  <2>1. Owned(j) /\ TakenAt(wq, j) /\ QueueAt(j)' = At(Tail(wq), j)
    BY <1>1, AtTail DEF OwnInv, QueueAt, At
  <2>2. DoneAt(j)' = DoneAt(j) /\ WriteAt(j)' = WriteAt(j) /\ j # None
    BY <1>1, SamePlaces, NoneAssumption
  <2>3. CASE j = h
    <3>1. QueueAt(j) # {}
      BY <2>1, <2>3 DEF TakenAt, QueueAt, h
    <3>2. /\ j \in data /\ Once(QueueAt(j)) /\ RunAt(j) = {}
          /\ DoneAt(j) = {} /\ WriteAt(j) = {}
      BY <2>1, <3>1, ThePlace
    <3>3. QueueAt(j)' = {}
      BY <2>1, <2>3, <3>2 DEF TakenAt, QueueAt, h
    <3>4. RunAt(j)' = {w}
      <4>1. run'[w] = j /\ ran'[w] = FALSE
        BY <1>1, <2>3
      <4>2. \A v \in Worker : v # w => run'[v] = run[v] /\ ran'[v] = ran[v]
        BY <1>1
      <4> QED
        BY <3>2, <4>1, <4>2 DEF RunAt
    <3> QED
      BY <1>1, <2>2, <3>2, <3>3, <3>4 DEF Owned, OneOf, Once
  <2>4. CASE j # h
    <3>1. SameCount(QueueAt(j)', QueueAt(j))
      BY <2>1, <2>4 DEF TakenAt, QueueAt, h
    <3>2. RunAt(j)' = RunAt(j)
      <4>1. run'[w] # j /\ run[w] # j
        BY <1>1, <2>2, <2>4
      <4>2. \A v \in Worker : v # w => run'[v] = run[v] /\ ran'[v] = ran[v]
        BY <1>1
      <4> QED
        BY <4>1, <4>2 DEF RunAt
    <3>3. KeepsPlaces(j)
      BY <1>1, <2>2, <3>1, <3>2, SameCountSelf DEF KeepsPlaces
    <3> QED
      BY <2>1, <3>3, KeptOwned
  <2> QED
    BY <2>3, <2>4
<1> QED
  BY <1>2, <1>3

\* What a thread hands back is the loop's, if it has work data still.
LEMMA PostOwned ==
  ASSUME OwnInv, NEW w \in Worker, WorkerPost(w)
  PROVE  (DataIsOld /\ WritesAreTheirs)' /\ \A j \in Job : Owned(j)'
<1> DEFINE h == run[w]
<1>1. /\ wdone \in Seq(Job) /\ h \in Job /\ ran[w] /\ wdone' = Append(wdone, h)
      /\ run \in [Worker -> Job \cup {None}] /\ run' = [run EXCEPT ![w] = None] /\ ran' = ran
      /\ wq' = wq /\ writes' = writes /\ data' = data /\ reads' = reads
  BY DEF WorkerPost, OwnInv, Types, dataVars, loopVars
<1>2. (DataIsOld /\ WritesAreTheirs)'
  BY <1>1 DEF OwnInv, DataIsOld, WritesAreTheirs
<1>3. run[w] = h /\ run'[w] = None /\ \A v \in Worker : v # w => run'[v] = run[v]
  BY <1>1
<1> HIDE DEF h
<1>4. ASSUME NEW j \in Job PROVE Owned(j)'
  <2>1. Owned(j) /\ AppendedAt(wdone, h, j) /\ j # None
    BY <1>1, AtAppend, NoneAssumption DEF OwnInv
  <2>2. QueueAt(j)' = QueueAt(j) /\ WriteAt(j)' = WriteAt(j)
    BY <1>1, SamePlaces
  <2>3. /\ j.type = "data" => DoneAt(j) = At(wdone, j) /\ DoneAt(j)' = At(Append(wdone, h), j)
        /\ j.type # "data" => DoneAt(j) = {} /\ DoneAt(j)' = {}
    BY <1>1 DEF DoneAt, At
  <2>4. CASE j = h /\ j.type = "data"
    <3>1. w \in RunAt(j)
      BY <1>3, <2>4 DEF RunAt
    <3>2. /\ j \in data /\ QueueAt(j) = {} /\ Once(RunAt(j))
          /\ DoneAt(j) = {} /\ WriteAt(j) = {}
      BY <2>1, <3>1, ThePlace
    <3>3. RunAt(j) = {w}
      BY <3>1, <3>2 DEF Once
    <3>4. RunAt(j)' = {}
      BY <1>1, <1>3, <2>1, <3>3 DEF RunAt
    <3>5. Once(DoneAt(j)')
      BY <2>1, <2>3, <2>4, <3>2 DEF AppendedAt
    <3> QED
      BY <1>1, <2>2, <3>2, <3>4, <3>5 DEF Owned, OneOf
  <2>5. CASE ~(j = h /\ j.type = "data")
    <3>1. DoneAt(j)' = DoneAt(j)
      BY <2>1, <2>3, <2>5 DEF AppendedAt
    <3>2. w \notin RunAt(j) /\ w \notin RunAt(j)'
      BY <1>1, <1>3, <2>1, <2>5 DEF RunAt
    <3>3. RunAt(j)' = RunAt(j)
      BY <1>1, <1>3, <3>2 DEF RunAt
    <3>4. KeepsPlaces(j)
      BY <1>1, <2>2, <3>1, <3>3, SameCountSelf DEF KeepsPlaces
    <3> QED
      BY <2>1, <3>4, KeptOwned
  <2> QED
    BY <2>4, <2>5
<1> QED
  BY <1>2, <1>4

\* A data job stays with its thread when its callback returns.
LEMMA SubmittedOwned ==
  ASSUME OwnInv, NEW w \in Worker, OnWorkSubmitted(w)
  PROVE  (DataIsOld /\ WritesAreTheirs)' /\ \A j \in Job : Owned(j)'
<1>1. /\ run[w].type = "data" /\ ran \in [Worker -> BOOLEAN] /\ ran' = [ran EXCEPT ![w] = TRUE]
      /\ wq' = wq /\ run' = run /\ wdone' = wdone /\ writes' = writes
      /\ data' = data /\ reads' = reads
  BY DEF OnWorkSubmitted, Due, OwnInv, Types, loopVars
<1>2. (DataIsOld /\ WritesAreTheirs)'
  BY <1>1 DEF OwnInv, DataIsOld, WritesAreTheirs
<1>3. ASSUME NEW j \in Job PROVE Owned(j)'
  <2>1. QueueAt(j)' = QueueAt(j) /\ DoneAt(j)' = DoneAt(j) /\ WriteAt(j)' = WriteAt(j)
    BY <1>1, SamePlaces
  <2>2. RunAt(j)' = RunAt(j)
    BY <1>1 DEF RunAt
  <2>3. KeepsPlaces(j)
    BY <1>1, <2>1, <2>2, SameCountSelf DEF KeepsPlaces
  <2> QED
    BY <2>3, KeptOwned DEF OwnInv
<1> QED
  BY <1>2, <1>3

\* Freeing the work data of a job that has no place left keeps every owner.
LEMMA FreedOwned ==
  ASSUME OwnInv, NEW h \in Job, data' = data \ {h},
         NEW j \in Job,
         j = h => NoneOf(QueueAt(j)', RunAt(j)', DoneAt(j)', WriteAt(j)'),
         j # h => /\ SameCount(QueueAt(j)', QueueAt(j)) /\ SameCount(RunAt(j)', RunAt(j))
                  /\ SameCount(DoneAt(j)', DoneAt(j)) /\ SameCount(WriteAt(j)', WriteAt(j))
  PROVE  Owned(j)'
<1>1. CASE j = h
  BY <1>1 DEF Owned
<1>2. CASE j # h
  <2>1. KeepsPlaces(j)
    BY <1>2 DEF KeepsPlaces
  <2> QED
    BY <2>1, KeptOwned DEF OwnInv
<1> QED
  BY <1>1, <1>2

\* The teardown job frees its own work data on the thread.
LEMMA ClosedOwned ==
  ASSUME OwnInv, NEW w \in Worker, OnWorkClientClosed(w)
  PROVE  (DataIsOld /\ WritesAreTheirs)' /\ \A j \in Job : Owned(j)'
<1> DEFINE h == run[w]
<1>1. /\ h \in Job /\ h.type = "close" /\ ~ran[w]
      /\ ran \in [Worker -> BOOLEAN] /\ ran' = [ran EXCEPT ![w] = TRUE]
      /\ wq' = wq /\ run' = run /\ wdone' = wdone /\ writes' = writes
      /\ data' = data \ {h} /\ reads' = reads
  BY DEF OnWorkClientClosed, FreeWorkData, Due, OwnInv, Types
<1>2. (DataIsOld /\ WritesAreTheirs)'
  BY <1>1 DEF OwnInv, DataIsOld, WritesAreTheirs
<1>3. run[w] = h /\ ran'[w] = TRUE /\ \A v \in Worker : v # w => ran'[v] = ran[v]
  BY <1>1
<1> HIDE DEF h
<1>4. ASSUME NEW j \in Job PROVE Owned(j)'
  <2>1. QueueAt(j)' = QueueAt(j) /\ DoneAt(j)' = DoneAt(j) /\ WriteAt(j)' = WriteAt(j)
    BY <1>1, SamePlaces
  <2>2. ASSUME j = h PROVE NoneOf(QueueAt(j)', RunAt(j)', DoneAt(j)', WriteAt(j)')
    <3>1. w \in RunAt(j) /\ Owned(j)
      BY <1>1, <1>3, <2>2 DEF RunAt, OwnInv
    <3>2. QueueAt(j) = {} /\ Once(RunAt(j)) /\ DoneAt(j) = {} /\ WriteAt(j) = {}
      BY <3>1, ThePlace
    <3>3. RunAt(j) = {w}
      BY <3>1, <3>2 DEF Once
    <3>4. RunAt(j)' = {}
      BY <1>1, <1>3, <2>2, <3>3 DEF RunAt
    <3> QED
      BY <2>1, <3>2, <3>4 DEF NoneOf
  <2>3. ASSUME j # h PROVE RunAt(j)' = RunAt(j)
    BY <1>1, <1>3, <2>3 DEF RunAt
  <2> QED
    BY <1>1, <2>1, <2>2, <2>3, FreedOwned, SameCountSelf
<1> QED
  BY <1>2, <1>4

\* A teardown job leaves the finished work without any work data.
LEMMA UnregisteredOwned ==
  ASSUME OwnInv, OnWorkUnregistered
  PROVE  (DataIsOld /\ WritesAreTheirs)' /\ \A j \in Job : Owned(j)'
<1>1. /\ wdone \in Seq(Job) /\ wdone # <<>> /\ wdone' = Tail(wdone) /\ Head(wdone).type = "close"
      /\ wq' = wq /\ run' = run /\ ran' = ran /\ writes' = writes /\ data' = data /\ reads' = reads
  BY DEF OnWorkUnregistered, OwnInv, Types, dataVars, loopVars
<1>2. (DataIsOld /\ WritesAreTheirs)'
  BY <1>1 DEF OwnInv, DataIsOld, WritesAreTheirs
<1>3. ASSUME NEW j \in Job PROVE Owned(j)'
  <2>1. QueueAt(j)' = QueueAt(j) /\ RunAt(j)' = RunAt(j) /\ WriteAt(j)' = WriteAt(j)
    BY <1>1, SamePlaces
  <2>2. SameCount(DoneAt(j)', DoneAt(j))
    <3>1. CASE j.type = "data"
      <4>1. DoneAt(j) = At(wdone, j) /\ DoneAt(j)' = At(Tail(wdone), j)
        BY <1>1, <3>1 DEF DoneAt, At
      <4>2. j # Head(wdone) /\ TakenAt(wdone, j)
        BY <1>1, <3>1, AtTail
      <4> QED
        BY <4>1, <4>2 DEF TakenAt
    <3>2. CASE j.type # "data"
      BY <3>2 DEF DoneAt, SameCount
    <3> QED
      BY <3>1, <3>2
  <2>3. KeepsPlaces(j)
    BY <1>1, <2>1, <2>2, SameCountSelf DEF KeepsPlaces
  <2> QED
    BY <2>3, KeptOwned DEF OwnInv
<1> QED
  BY <1>2, <1>3

\* What the loop takes from the finished work: the one place of h, a data job.
LEMMA DonePlaces ==
  ASSUME OwnInv, wdone # <<>>, wdone' = Tail(wdone), Head(wdone).type = "data", NEW j \in Job
  PROVE  /\ j = Head(wdone) => /\ DoneAt(j)' = {} /\ j \in data
                               /\ QueueAt(j) = {} /\ RunAt(j) = {} /\ WriteAt(j) = {}
         /\ j # Head(wdone) => SameCount(DoneAt(j)', DoneAt(j))
<1> DEFINE h == Head(wdone)
<1>1. wdone \in Seq(Job) /\ Owned(j)
  BY DEF OwnInv, Types
<1>2. TakenAt(wdone, j)
  BY <1>1, AtTail
<1>3. /\ j.type = "data" => DoneAt(j) = At(wdone, j) /\ DoneAt(j)' = At(Tail(wdone), j)
      /\ j.type # "data" => DoneAt(j) = {} /\ DoneAt(j)' = {}
  BY DEF DoneAt, At
<1>4. CASE j = h
  <2>1. DoneAt(j) # {}
    BY <1>2, <1>3, <1>4 DEF TakenAt
  <2>2. /\ j \in data /\ QueueAt(j) = {} /\ RunAt(j) = {}
        /\ Once(DoneAt(j)) /\ WriteAt(j) = {}
    BY <1>1, <2>1, ThePlace
  <2> QED
    BY <1>2, <1>3, <1>4, <2>2 DEF TakenAt
<1>5. CASE j # h
  BY <1>2, <1>3, <1>5, SameCountSelf DEF TakenAt
<1> QED
  BY <1>4, <1>5

\* A finished job without a response is freed by the loop.
LEMMA NoResponseOwned ==
  ASSUME OwnInv, OnWorkNoResponse
  PROVE  (DataIsOld /\ WritesAreTheirs)' /\ \A j \in Job : Owned(j)'
<1> DEFINE h == Head(wdone)
<1>1. /\ wdone \in Seq(Job) /\ wdone # <<>> /\ wdone' = Tail(wdone) /\ h.type = "data"
      /\ wq' = wq /\ run' = run /\ ran' = ran /\ writes' = writes
      /\ data' = data \ {h} /\ reads' = reads
  BY DEF OnWorkNoResponse, FreeWorkData, OwnInv, Types, loopVars
<1>2. (DataIsOld /\ WritesAreTheirs)'
  BY <1>1 DEF OwnInv, DataIsOld, WritesAreTheirs
<1>3. h \in Job
  BY <1>1
<1>4. ASSUME NEW j \in Job PROVE Owned(j)'
  <2>1. QueueAt(j)' = QueueAt(j) /\ RunAt(j)' = RunAt(j) /\ WriteAt(j)' = WriteAt(j)
    BY <1>1, SamePlaces
  <2>2. /\ j = h => /\ DoneAt(j)' = {} /\ QueueAt(j) = {} /\ RunAt(j) = {} /\ WriteAt(j) = {}
        /\ j # h => SameCount(DoneAt(j)', DoneAt(j))
    BY <1>1, DonePlaces
  <2> HIDE DEF h
  <2>3. j = h => NoneOf(QueueAt(j)', RunAt(j)', DoneAt(j)', WriteAt(j)')
    BY <2>1, <2>2 DEF NoneOf
  <2> QED
    BY <1>1, <1>3, <2>1, <2>2, <2>3, FreedOwned, SameCountSelf
<1> QED
  BY <1>2, <1>4

\* A finished job with a response becomes a write of its client.
LEMMA CompletedOwned ==
  ASSUME OwnInv, OnWorkCompleted
  PROVE  (DataIsOld /\ WritesAreTheirs)' /\ \A j \in Job : Owned(j)'
<1> DEFINE h == Head(wdone)
<1>1. /\ wdone \in Seq(Job) /\ wdone # <<>> /\ wdone' = Tail(wdone) /\ h.type = "data"
      /\ wq' = wq /\ run' = run /\ ran' = ran /\ data' = data /\ reads' = reads
      /\ writes \in [Client -> Seq(Job)]
      /\ writes' = [writes EXCEPT ![h.client] = Append(@, h)]
  BY DEF OnWorkCompleted, OwnInv, Types, loopVars
<1>2. h \in Job /\ h.client \in Client
  <2>1. h \in Job
    BY <1>1
  <2> QED
    BY <2>1 DEF Job
<1> DEFINE s == writes[h.client]
<1>3. s \in Seq(Job) /\ writes'[h.client] = Append(s, h)
  BY <1>1, <1>2
<1>4. \A c \in Client : c # h.client => writes'[c] = writes[c]
  BY <1>1
<1>5. WritesAreTheirs'
  <2> SUFFICES ASSUME NEW c \in Client, NEW i \in DOMAIN writes'[c]
               PROVE  writes'[c][i].client = c
    BY DEF WritesAreTheirs
  <2>1. CASE c # h.client
    BY <1>4, <2>1 DEF OwnInv, WritesAreTheirs
  <2>2. CASE c = h.client
    <3>1. \A k \in DOMAIN s : s[k].client = c
      BY <2>2 DEF OwnInv, WritesAreTheirs
    <3>2. \A k \in DOMAIN Append(s, h) :
            Append(s, h)[k] = h \/ (k \in DOMAIN s /\ Append(s, h)[k] = s[k])
      BY <1>2, <1>3
    <3>3. writes'[c] = Append(s, h)
      BY <1>3, <2>2
    <3> HIDE DEF s
    <3> QED
      BY <2>2, <3>1, <3>2, <3>3
  <2> QED
    BY <2>1, <2>2
<1>6. DataIsOld'
  BY <1>1 DEF OwnInv, DataIsOld
<1>7. ASSUME NEW j \in Job PROVE Owned(j)'
  <2>1. QueueAt(j)' = QueueAt(j) /\ RunAt(j)' = RunAt(j) /\ Owned(j) /\ j.client \in Client
    BY <1>1, SamePlaces DEF OwnInv, Job
  <2>2. /\ j = h => /\ DoneAt(j)' = {} /\ j \in data
                    /\ QueueAt(j) = {} /\ RunAt(j) = {} /\ WriteAt(j) = {}
        /\ j # h => SameCount(DoneAt(j)', DoneAt(j))
    BY <1>1, DonePlaces
  <2>3. AppendedAt(s, h, j)
    BY <1>2, <1>3, AtAppend
  <2>4. j.client = h.client => WriteAt(j) = At(s, j) /\ WriteAt(j)' = At(Append(s, h), j)
    BY <1>3 DEF WriteAt, At
  <2>5. j.client # h.client => WriteAt(j)' = WriteAt(j)
    BY <1>4, <2>1 DEF WriteAt, At
  <2> HIDE DEF h, s
  <2>6. CASE j = h
    <3>1. Once(WriteAt(j)')
      BY <2>2, <2>3, <2>4, <2>6 DEF AppendedAt
    <3> QED
      BY <1>1, <2>1, <2>2, <2>6, <3>1 DEF Owned, OneOf
  <2>7. CASE j # h
    <3>1. WriteAt(j)' = WriteAt(j)
      BY <2>3, <2>4, <2>5, <2>7 DEF AppendedAt
    <3>2. KeepsPlaces(j)
      BY <1>1, <2>1, <2>2, <2>7, <3>1, SameCountSelf DEF KeepsPlaces
    <3> QED
      BY <2>1, <3>2, KeptOwned
  <2> QED
    BY <2>6, <2>7
<1> QED
  BY <1>5, <1>6, <1>7

\* A completed write frees its own work data.
LEMMA SentOwned ==
  ASSUME OwnInv, NEW c \in Client, OnSentResponse(c)
  PROVE  (DataIsOld /\ WritesAreTheirs)' /\ \A j \in Job : Owned(j)'
<1> DEFINE s == writes[c]
           h == Head(s)
<1>1. /\ writes \in [Client -> Seq(Job)] /\ s # <<>> /\ writes' = [writes EXCEPT ![c] = Tail(@)]
      /\ wq' = wq /\ run' = run /\ ran' = ran /\ wdone' = wdone
      /\ data' = data \ {h} /\ reads' = reads
  BY DEF OnSentResponse, FreeWorkData, OwnInv, Types, loopVars, workVars
<1>2. s \in Seq(Job) /\ writes'[c] = Tail(s) /\ \A d \in Client : d # c => writes'[d] = writes[d]
  BY <1>1
<1>3. h \in Job /\ h.client = c
  <2>1. h \in Job /\ h = s[1] /\ 1 \in DOMAIN s
    BY <1>1, <1>2
  <2> QED
    BY <2>1 DEF OwnInv, WritesAreTheirs
<1>4. WritesAreTheirs'
  <2> SUFFICES ASSUME NEW d \in Client, NEW i \in DOMAIN writes'[d]
               PROVE  writes'[d][i].client = d
    BY DEF WritesAreTheirs
  <2>1. CASE d # c
    BY <1>2, <2>1 DEF OwnInv, WritesAreTheirs
  <2>2. CASE d = c
    <3>1. \A k \in DOMAIN s : s[k].client = c
      BY DEF OwnInv, WritesAreTheirs
    <3>2. \A k \in DOMAIN Tail(s) : k + 1 \in DOMAIN s /\ Tail(s)[k] = s[k + 1]
      BY <1>1, <1>2
    <3>3. writes'[d] = Tail(s)
      BY <1>2, <2>2
    <3> HIDE DEF s
    <3> QED
      BY <2>2, <3>1, <3>2, <3>3
  <2> QED
    BY <2>1, <2>2
<1>5. DataIsOld'
  BY <1>1 DEF OwnInv, DataIsOld
<1>6. ASSUME NEW j \in Job PROVE Owned(j)'
  <2>1. QueueAt(j)' = QueueAt(j) /\ RunAt(j)' = RunAt(j) /\ DoneAt(j)' = DoneAt(j)
    BY <1>1, SamePlaces
  <2>2. Owned(j) /\ TakenAt(s, j) /\ j.client \in Client
    BY <1>1, <1>2, AtTail DEF OwnInv, Job
  <2>3. j.client = c => WriteAt(j) = At(s, j) /\ WriteAt(j)' = At(Tail(s), j)
    BY <1>2 DEF WriteAt, At
  <2>4. j.client # c => WriteAt(j)' = WriteAt(j)
    BY <1>2, <2>2 DEF WriteAt, At
  <2>5. j # h => SameCount(WriteAt(j)', WriteAt(j))
    BY <2>2, <2>3, <2>4, SameCountSelf DEF TakenAt
  <2>6. ASSUME j = h PROVE NoneOf(QueueAt(j)', RunAt(j)', DoneAt(j)', WriteAt(j)')
    <3>1. WriteAt(j) # {}
      BY <1>3, <2>2, <2>3, <2>6 DEF TakenAt
    <3>2. QueueAt(j) = {} /\ RunAt(j) = {} /\ DoneAt(j) = {} /\ Once(WriteAt(j))
      BY <2>2, <3>1, ThePlace
    <3>3. WriteAt(j)' = {}
      BY <1>3, <2>2, <2>3, <2>6, <3>2 DEF TakenAt
    <3> QED
      BY <2>1, <3>2, <3>3 DEF NoneOf
  <2> HIDE DEF h, s
  <2> QED
    BY <1>1, <1>3, <2>1, <2>5, <2>6, FreedOwned, SameCountSelf
<1> QED
  BY <1>4, <1>5, <1>6

\* Every step of the loop and of the pool keeps every owner.
LEMMA NextOwn == OwnInv /\ [Next]_vars => OwnInv'
<1> SUFFICES ASSUME OwnInv, [Next]_vars PROVE OwnInv'
  OBVIOUS
<1> USE DEF loopVars, workVars, dataVars
<1>1. Types'
  BY NextTypes DEF OwnInv
<1> DEFINE Goal == (DataIsOld /\ WritesAreTheirs)' /\ \A j \in Job : Owned(j)'
<1> SUFFICES Goal
  BY <1>1 DEF OwnInv
<1>2. CASE UNCHANGED <<wq, run, ran, wdone, writes, data, reads>>
  BY <1>2, StillOwned
<1>3. ASSUME NEW c \in Client, OnPeerRead(c) \/ OnPeerEnd(c) PROVE Goal
  <2>1. writes' = writes /\ (Submit(c, "data") \/ Submit(c, "close"))
    BY <1>3 DEF OnPeerRead, OnPeerEnd
  <2> QED
    BY <2>1, SubmitOwned
<1>4. ASSUME NEW w \in Worker, WorkerTake(w) PROVE Goal
  BY <1>4, TakeOwned
<1>5. ASSUME NEW w \in Worker, WorkerPost(w) PROVE Goal
  BY <1>5, PostOwned
<1>6. ASSUME NEW w \in Worker, OnWorkSubmitted(w) PROVE Goal
  BY <1>6, SubmittedOwned
<1>7. ASSUME NEW w \in Worker, OnWorkClientClosed(w) PROVE Goal
  BY <1>7, ClosedOwned
<1>8. CASE OnWorkUnregistered
  BY <1>8, UnregisteredOwned
<1>9. CASE OnWorkNoResponse
  BY <1>9, NoResponseOwned
<1>10. CASE OnWorkCompleted
  BY <1>10, CompletedOwned
<1>11. ASSUME NEW c \in Client, OnSentResponse(c) PROVE Goal
  BY <1>11, SentOwned
<1>12. ASSUME NEW c \in Client,
              \/ OnPeerConnected(c) \/ OnPeerNameFails(c) \/ OnAcceptFailed(c)
              \/ OnClientClosed(c) \/ OnPeerReadCopyFails(c) \/ OnWriteError(c)
       PROVE  Goal
  <2>1. UNCHANGED <<wq, run, ran, wdone, writes, data, reads>>
    BY <1>12 DEF OnPeerConnected, OnPeerNameFails, OnAcceptFailed, OnClientClosed,
                 OnPeerReadCopyFails, OnWriteError
  <2> QED
    BY <2>1, StillOwned
<1>13. ASSUME NEW w \in Worker, OnSecondResponse(w) PROVE Goal
  <2>1. UNCHANGED <<wq, run, ran, wdone, writes, data, reads>>
    BY <1>13 DEF OnSecondResponse
  <2> QED
    BY <2>1, StillOwned
<1>14. UNCHANGED vars \/ OnWriteRefused => UNCHANGED <<wq, run, ran, wdone, writes, data, reads>>
  BY DEF vars, OnWriteRefused
<1> QED
  BY <1>2, <1>3, <1>4, <1>5, <1>6, <1>7, <1>8, <1>9, <1>10, <1>11, <1>12, <1>13, <1>14
     DEF Next, Loop, Pool

\* The server starts without jobs.
LEMMA InitOwn == Init => OwnInv
<1> SUFFICES ASSUME Init PROVE OwnInv
  OBVIOUS
<1>1. Types
  BY InitTypes
<1>2. DataIsOld /\ WritesAreTheirs
  BY DEF Init, DataIsOld, WritesAreTheirs
<1>3. ASSUME NEW j \in Job PROVE Owned(j)
  <2>1. j # None /\ j.client \in Client
    BY NoneAssumption DEF Job
  <2>2. QueueAt(j) = {} /\ RunAt(j) = {} /\ DoneAt(j) = {} /\ WriteAt(j) = {}
    BY <2>1 DEF Init, QueueAt, RunAt, DoneAt, WriteAt, At
  <2> QED
    BY <2>2 DEF Init, Owned, NoneOf
<1> QED
  BY <1>1, <1>2, <1>3 DEF OwnInv

\* One place is one owner, and none is none.
LEMMA OwnersCounted == OwnInv => WorkDataOwnedOnce
<1> SUFFICES ASSUME OwnInv, NEW j \in Job
             PROVE  Cardinality(
                 {<<"wq", i>> : i \in {i \in DOMAIN wq : wq[i] = j}}
                   \cup {<<"run", w>> :
                           w \in {w \in Worker : run[w] = j /\ (j.type = "data" \/ ~ran[w])}}
                   \cup {<<"wdone", i>> :
                           i \in {i \in DOMAIN wdone : wdone[i] = j /\ j.type = "data"}}
                   \cup {<<"writes", i>> :
                           i \in {i \in DOMAIN writes[j.client] : writes[j.client][i] = j}})
                      = IF j \in data THEN 1 ELSE 0
  BY DEF WorkDataOwnedOnce
<1> DEFINE O == {<<"wq", i>> : i \in QueueAt(j)} \cup {<<"run", w>> : w \in RunAt(j)}
                  \cup {<<"wdone", i>> : i \in DoneAt(j)} \cup {<<"writes", i>> : i \in WriteAt(j)}
<1> SUFFICES Cardinality(O) = IF j \in data THEN 1 ELSE 0
  BY DEF QueueAt, RunAt, DoneAt, WriteAt, At
<1>1. IF j \in data THEN OneOf(QueueAt(j), RunAt(j), DoneAt(j), WriteAt(j))
                    ELSE NoneOf(QueueAt(j), RunAt(j), DoneAt(j), WriteAt(j))
  BY DEF OwnInv, Owned
<1>2. CASE j \in data
  <2>1. \E o : O = {o}
    <3> DEFINE Q == QueueAt(j)
               R == RunAt(j)
               D == DoneAt(j)
               W == WriteAt(j)
    <3>1. OneOf(Q, R, D, W)
      BY <1>1, <1>2
    <3> HIDE DEF Q, R, D, W
    <3>2. CASE Once(Q) /\ R = {} /\ D = {} /\ W = {}
      <4>1. PICK x : Q = {x}
        BY <3>2 DEF Once
      <4>2. O = {<<"wq", x>>}
        BY <3>2, <4>1 DEF Q, R, D, W
      <4> QED
        BY <4>2
    <3>3. CASE Q = {} /\ Once(R) /\ D = {} /\ W = {}
      <4>1. PICK x : R = {x}
        BY <3>3 DEF Once
      <4>2. O = {<<"run", x>>}
        BY <3>3, <4>1 DEF Q, R, D, W
      <4> QED
        BY <4>2
    <3>4. CASE Q = {} /\ R = {} /\ Once(D) /\ W = {}
      <4>1. PICK x : D = {x}
        BY <3>4 DEF Once
      <4>2. O = {<<"wdone", x>>}
        BY <3>4, <4>1 DEF Q, R, D, W
      <4> QED
        BY <4>2
    <3>5. CASE Q = {} /\ R = {} /\ D = {} /\ Once(W)
      <4>1. PICK x : W = {x}
        BY <3>5 DEF Once
      <4>2. O = {<<"writes", x>>}
        BY <3>5, <4>1 DEF Q, R, D, W
      <4> QED
        BY <4>2
    <3> QED
      BY <3>1, <3>2, <3>3, <3>4, <3>5 DEF OneOf
  <2>2. Cardinality(O) = 1
    BY <2>1, FS_Singleton
  <2> QED
    BY <1>2, <2>2
<1>3. CASE j \notin data
  <2>1. O = {}
    BY <1>1, <1>3 DEF NoneOf
  <2>2. Cardinality(O) = 0
    BY <2>1, FS_EmptySet
  <2> QED
    BY <1>3, <2>2
<1> QED
  BY <1>2, <1>3

\* Every work data has one owner until it is freed, and none after, for any number
\* of connections, reads and pool threads: none is lost, shared or freed twice.
THEOREM WorkOwnedOnce == Spec => []WorkDataOwnedOnce
BY InitOwn, NextOwn, OwnersCounted, PTL DEF Spec

(***************************************************************************)
(* Type correctness                                                        *)
(***************************************************************************)

\* A response is written by the thread that owns the work data, and freed with it.
LEMMA NextResponses ==
  ASSUME OwnInv, response \subseteq data, [Next]_vars
  PROVE  (response \subseteq data)'
<1> USE DEF loopVars, workVars, dataVars
<1>1. CASE UNCHANGED <<data, response>>
  BY <1>1
<1>2. ASSUME NEW c \in Client, OnPeerRead(c) \/ OnPeerEnd(c) PROVE (response \subseteq data)'
  BY <1>2 DEF OnPeerRead, OnPeerEnd, Submit
<1>3. ASSUME NEW w \in Worker, OnWorkSubmitted(w) PROVE (response \subseteq data)'
  <2>1. run[w] \in Job
    BY <1>3 DEF OnWorkSubmitted, Due, OwnInv, Types
  <2>2. w \in RunAt(run[w]) /\ Owned(run[w])
    BY <1>3, <2>1 DEF OnWorkSubmitted, Due, RunAt, OwnInv
  <2>3. run[w] \in data
    BY <2>1, <2>2, ThePlace
  <2> QED
    BY <1>3, <2>3 DEF OnWorkSubmitted
<1>4. ASSUME NEW j, FreeWorkData(j) PROVE (response \subseteq data)'
  BY <1>4 DEF FreeWorkData
<1>5. ASSUME NEW c \in Client, OnSentResponse(c) PROVE (response \subseteq data)'
  BY <1>4, <1>5 DEF OnSentResponse
<1>6. ASSUME NEW w \in Worker, OnWorkClientClosed(w) PROVE (response \subseteq data)'
  BY <1>4, <1>6 DEF OnWorkClientClosed
<1>7. CASE OnWorkNoResponse
  BY <1>4, <1>7 DEF OnWorkNoResponse
<1>8. CASE OnWorkCompleted
  BY <1>1, <1>8 DEF OnWorkCompleted
<1>9. ASSUME NEW c \in Client,
             \/ OnPeerConnected(c) \/ OnPeerNameFails(c) \/ OnAcceptFailed(c)
             \/ OnClientClosed(c) \/ OnPeerReadCopyFails(c) \/ OnWriteError(c)
      PROVE  (response \subseteq data)'
  <2>1. UNCHANGED <<data, response>>
    BY <1>9 DEF OnPeerConnected, OnPeerNameFails, OnAcceptFailed, OnClientClosed,
                OnPeerReadCopyFails, OnWriteError
  <2> QED
    BY <1>1, <2>1
<1>10. ASSUME NEW w \in Worker, WorkerTake(w) \/ WorkerPost(w) \/ OnSecondResponse(w)
       PROVE  (response \subseteq data)'
  <2>1. UNCHANGED <<data, response>>
    BY <1>10 DEF WorkerTake, WorkerPost, OnSecondResponse
  <2> QED
    BY <1>1, <2>1
<1>11. OnWorkUnregistered \/ OnWriteRefused \/ UNCHANGED vars => UNCHANGED <<data, response>>
  BY DEF OnWorkUnregistered, OnWriteRefused, vars
<1> QED
  BY <1>1, <1>2, <1>3, <1>5, <1>6, <1>7, <1>8, <1>9, <1>10, <1>11 DEF Next, Loop, Pool

\* Every variable of the server keeps its type, and no response outlives its work
\* data, for every set of connections and pool threads.
THEOREM TypeCorrect == Spec => []TypeOK
<1> DEFINE Inv == OwnInv /\ response \subseteq data
<1>1. Init => Inv
  BY InitOwn DEF Init
<1>2. Inv /\ [Next]_vars => Inv'
  BY NextOwn, NextResponses
<1>3. Inv => TypeOK
  BY DEF OwnInv, TypeOK
<1> QED
  BY <1>1, <1>2, <1>3, PTL DEF Spec
=============================================================================
