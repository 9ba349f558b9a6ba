------------------------------- MODULE UvServer -------------------------------
(***************************************************************************)
(* The demo server (main.cpp) on libuv: the event loop thread that         *)
(* accepts, reads and writes, and the pool threads that run the endpoints. *)
(* Every pointer that crosses between them is here as the state of the     *)
(* memory behind it; what an endpoint computes is not.  How often          *)
(* process() calls on_write_response for one read is left open.            *)
(*                                                                         *)
(* A work request, its uv_work_t and its peer_work_data_t have one name,   *)
(* the job: the n-th read callback of a client that queued work, of type   *)
(* "data" (type 1) or "close" (type 0).  libuv is external: it takes work  *)
(* from the head of one queue, hands it back to the loop in the order in   *)
(* which it was finished, calls the write callbacks of a stream in order,  *)
(* and does not call on_peer_read again after an error or EOF.  A write    *)
(* callback may never come: the peer need not read what it is sent.        *)
(***************************************************************************)
EXTENDS Naturals, Sequences, FiniteSets

CONSTANTS Client,     \* connections
          Worker,     \* pool threads; set_thread_pool_size asks for one
          None,       \* no job
          MaxReads    \* bound on the work one connection queues

ASSUME ServerAssumption == MaxReads \in Nat \ {0}

Job == [client : Client, n : 1..MaxReads, type : {"data", "close"}]

ASSUME NoneAssumption == None \notin Job

VARIABLES
  status,    \* "up", "exited" by fail(), or "crashed"
  handle,    \* the uv_tcp_t of a client
  reading,   \* whether libuv may call on_peer_read for it
  peer,      \* its peer_state_t and WebSocketEndpoint
  reads,     \* how much work it has queued
  wq,        \* submitted work, libuv's threadpool queue
  run, ran,  \* the job of a worker, and whether its callback has returned
  wdone,     \* finished work the loop has to complete, loop->wq
  writes,    \* uv_write requests of a client whose callback is due
  data,      \* the jobs whose peer_work_data_t is allocated
  reqs,      \* the jobs whose uv_work_t is allocated
  response,  \* the jobs whose response.base is not NULL
  wild,      \* freed memory that was used: "handle", "request", "queue"
  answered   \* the reads of a client whose answer went into uv_write

loopVars == <<handle, reading, reads>>
workVars == <<wq, run, ran, wdone>>
dataVars == <<data, reqs, response>>
vars == <<status, loopVars, peer, workVars, writes, dataVars, wild, answered>>

Init ==
  /\ status = "up"
  /\ handle = [c \in Client |-> "none"]
  /\ reading = [c \in Client |-> FALSE]
  /\ peer = [c \in Client |-> "none"]
  /\ reads = [c \in Client |-> 0]
  /\ wq = <<>> /\ wdone = <<>>
  /\ run = [w \in Worker |-> None]
  /\ ran = [w \in Worker |-> FALSE]
  /\ writes = [c \in Client |-> <<>>]
  /\ data = {} /\ reqs = {} /\ response = {}
  /\ wild = {}
  /\ answered = [c \in Client |-> <<>>]

-----------------------------------------------------------------------------
(* The event loop *)

(***************************************************************************)
(* OnWorkClientClosed frees the memory of a handle and never passes it to  *)
(* uv_close: its descriptor stays open ("dangling", never "freed"), and it *)
(* stays linked in the loop's queue of handles.  uv_tcp_init links a new   *)
(* handle in behind the last, and libuv takes a closed one out: either may *)
(* write into freed memory.                                                *)
(***************************************************************************)
UseHandleQueue ==
  \/ UNCHANGED <<wild, status>>
  \/ /\ \E c \in Client : handle[c] = "dangling"
     /\ wild' = wild \cup {"queue"}
     /\ status' \in {"up", "crashed"}

OnPeerConnected(c) ==
  /\ status = "up" /\ handle[c] = "none"
  /\ handle' = [handle EXCEPT ![c] = "open"]
  /\ peer' = [peer EXCEPT ![c] = "live"]
  /\ reading' = [reading EXCEPT ![c] = TRUE]
  /\ UseHandleQueue
  /\ UNCHANGED <<reads, workVars, writes, dataVars, answered>>

\* The peer is gone when on_peer_connected asks for its name: fail().
OnPeerNameFails(c) ==
  /\ status = "up" /\ handle[c] = "none"
  /\ status' = "exited"
  /\ UNCHANGED <<loopVars, peer, workVars, writes, dataVars, wild, answered>>

\* uv_accept failed: uv_close, with client->data still NULL
OnAcceptFailed(c) ==
  /\ status = "up" /\ handle[c] = "none"
  /\ handle' = [handle EXCEPT ![c] = "closing"]
  /\ UseHandleQueue
  /\ UNCHANGED <<peer, reading, reads, workVars, writes, dataVars, answered>>

\* peer[c] is "none" for every handle that comes here: nothing but the handle is freed.
OnClientClosed(c) ==
  /\ status = "up" /\ handle[c] = "closing"
  /\ handle' = [handle EXCEPT ![c] = "freed"]
  /\ peer' = [peer EXCEPT ![c] = IF @ = "none" THEN @ ELSE "freed"]
  /\ UseHandleQueue
  /\ UNCHANGED <<reading, reads, workVars, writes, dataVars, answered>>

\* Mutant: the newest work goes first.
SubmitFirst(c, type) ==
  LET j == [client |-> c, n |-> reads[c] + 1, type |-> type]
  IN  /\ reads[c] < MaxReads
      /\ reads' = [reads EXCEPT ![c] = @ + 1]
      /\ wq' = <<j>> \o wq
      /\ data' = data \cup {j}
      /\ reqs' = reqs \cup {j}
      /\ UNCHANGED <<run, ran, wdone, response>>

\* alloc_work_req and uv_queue_work
Submit(c, type) ==
  LET j == [client |-> c, n |-> reads[c] + 1, type |-> type]
  IN  /\ reads[c] < MaxReads
      /\ reads' = [reads EXCEPT ![c] = @ + 1]
      /\ wq' = Append(wq, j)
      /\ data' = data \cup {j}
      /\ reqs' = reqs \cup {j}
      /\ UNCHANGED <<run, ran, wdone, response>>

\* A read of some bytes leaves room for the work that EOF will queue.
OnPeerRead(c) ==
  /\ status = "up" /\ reading[c]
  /\ reads[c] + 1 < MaxReads
  /\ Submit(c, "data")
  /\ UNCHANGED <<status, handle, reading, peer, writes, wild, answered>>

\* uv_buf_alloc_cpy ends without a return value.  If what it leaves behind is
\* negative, alloc_work_req frees a pointer it never set and returns NULL, which
\* goes into uv_queue_work.
OnPeerReadCopyFails(c) ==
  /\ status = "up" /\ reading[c]
  /\ status' = "crashed"
  /\ UNCHANGED <<loopVars, peer, workVars, writes, dataVars, wild, answered>>

\* Mutant: the loop frees the peer state itself, and queues the rest.
OnPeerEndFreesPeer(c) ==
  /\ status = "up" /\ reading[c]
  /\ reading' = [reading EXCEPT ![c] = FALSE]
  /\ peer' = [peer EXCEPT ![c] = "freed"]
  /\ Submit(c, "close")
  /\ UNCHANGED <<status, handle, writes, wild, answered>>

\* Mutant: libuv goes on reading.
OnPeerEndKeepsReading(c) ==
  /\ status = "up" /\ reading[c]
  /\ Submit(c, "close")
  /\ UNCHANGED <<status, handle, reading, peer, writes, wild, answered>>

\* Mutant: the end of a connection queues no work.
OnPeerEndForgets(c) ==
  /\ status = "up" /\ reading[c]
  /\ reading' = [reading EXCEPT ![c] = FALSE]
  /\ UNCHANGED <<status, handle, reads, peer, workVars, writes, dataVars, wild, answered>>

\* EOF or a read error: the connection is torn down by a job.
OnPeerEnd(c) ==
  /\ status = "up" /\ reading[c]
  /\ reading' = [reading EXCEPT ![c] = FALSE]
  /\ Submit(c, "close")
  /\ UNCHANGED <<status, handle, peer, writes, wild, answered>>

\* What the loop does with a handle whose memory is freed: it finds the old
\* contents, or some that make uv_write fail, or the process dies.
UseHandle(c) ==
  IF handle[c] = "dangling"
  THEN wild' = wild \cup {"handle"} /\ status' \in {"up", "exited", "crashed"}
  ELSE UNCHANGED <<wild, status>>

\* The after-work callback of the oldest finished job.  There is none for a job
\* of type "close": libuv only unregisters the request, which was freed.
OnWorkUnregistered ==
  /\ status = "up" /\ wdone # <<>> /\ Head(wdone).type = "close"
  /\ wdone' = Tail(wdone)
  /\ wild' = wild \cup {"request"}
  /\ status' \in {"up", "crashed"}
  /\ UNCHANGED <<loopVars, peer, wq, run, ran, writes, dataVars, answered>>

\* Mutant: free(response.base) is forgotten.
FreeAllButResponse(j) == data' = data \ {j} /\ UNCHANGED response

\* free_work_data: the work data of j with its request and response
FreeWorkData(j) == data' = data \ {j} /\ response' = response \ {j}

\* Mutant: the early return forgets free_work_data.
OnWorkNoResponseKeepsData ==
  /\ status = "up" /\ wdone # <<>>
  /\ Head(wdone).type = "data" /\ Head(wdone) \notin response
  /\ wdone' = Tail(wdone)
  /\ reqs' = reqs \ {Head(wdone)}
  /\ UNCHANGED <<status, loopVars, peer, wq, run, ran, writes, data, response, wild, answered>>

\* Mutant: the early return forgets free(req).
OnWorkNoResponseKeepsRequest ==
  /\ status = "up" /\ wdone # <<>>
  /\ Head(wdone).type = "data" /\ Head(wdone) \notin response
  /\ wdone' = Tail(wdone)
  /\ data' = data \ {Head(wdone)}
  /\ UNCHANGED <<status, loopVars, peer, wq, run, ran, writes, reqs, response, wild, answered>>

\* on_work_completed without a response
OnWorkNoResponse ==
  /\ status = "up" /\ wdone # <<>>
  /\ Head(wdone).type = "data" /\ Head(wdone) \notin response
  /\ wdone' = Tail(wdone)
  /\ FreeWorkData(Head(wdone))
  /\ reqs' = reqs \ {Head(wdone)}
  /\ UNCHANGED <<status, loopVars, peer, wq, run, ran, writes, wild, answered>>

\* on_work_completed with one: it goes into uv_write on the client's handle.
OnWorkCompleted ==
  LET j == Head(wdone)
  IN  /\ status = "up" /\ wdone # <<>>
      /\ j.type = "data" /\ j \in response
      /\ wdone' = Tail(wdone)
      /\ writes' = [writes EXCEPT ![j.client] = Append(@, j)]
      /\ reqs' = reqs \ {j}
      /\ answered' = [answered EXCEPT ![j.client] = Append(@, j.n)]
      /\ UseHandle(j.client)
      /\ UNCHANGED <<loopVars, peer, wq, run, ran, data, response>>

\* uv_write refuses the response on a handle that is not freed: fail().
OnWriteRefused ==
  /\ status = "up" /\ wdone # <<>>
  /\ Head(wdone).type = "data" /\ Head(wdone) \in response
  /\ handle[Head(wdone).client] # "dangling"
  /\ status' = "exited"
  /\ UNCHANGED <<loopVars, peer, workVars, writes, dataVars, wild, answered>>

OnSentResponse(c) ==
  /\ status = "up" /\ writes[c] # <<>>
  /\ writes' = [writes EXCEPT ![c] = Tail(@)]
  /\ FreeWorkData(Head(writes[c]))
  /\ UseHandle(c)
  /\ UNCHANGED <<loopVars, peer, workVars, reqs, answered>>

\* on_sent_response with a status: fail().
OnWriteError(c) ==
  /\ status = "up" /\ writes[c] # <<>>
  /\ status' = "exited"
  /\ UNCHANGED <<loopVars, peer, workVars, writes, dataVars, wild, answered>>

-----------------------------------------------------------------------------
(* The pool *)

WorkerTake(w) ==
  /\ status = "up" /\ run[w] = None /\ wq # <<>>
  /\ run' = [run EXCEPT ![w] = Head(wq)]
  /\ ran' = [ran EXCEPT ![w] = FALSE]
  /\ wq' = Tail(wq)
  /\ UNCHANGED <<status, loopVars, peer, wdone, writes, dataVars, wild, answered>>

\* The callback of w's job is due.
Due(w, type) == status = "up" /\ run[w] # None /\ ~ran[w] /\ run[w].type = type

\* process() has called on_write_response once, or not at all.
OnWorkSubmitted(w) ==
  /\ Due(w, "data")
  /\ ran' = [ran EXCEPT ![w] = TRUE]
  /\ response' \in {response, response \cup {run[w]}}
  /\ UNCHANGED <<status, loopVars, peer, wq, run, wdone, writes, data, reqs, wild, answered>>

\* process() called it a second time: "Work data response is not NULL!"
OnSecondResponse(w) ==
  /\ Due(w, "data")
  /\ status' = "exited"
  /\ UNCHANGED <<loopVars, peer, workVars, writes, dataVars, wild, answered>>

\* Frees the endpoint, the peer state, the memory of the handle without uv_close,
\* the work data and the request.
OnWorkClientClosed(w) ==
  LET j == run[w]
  IN  /\ Due(w, "close")
      /\ ran' = [ran EXCEPT ![w] = TRUE]
      /\ peer' = [peer EXCEPT ![j.client] = "freed"]
      /\ handle' = [handle EXCEPT ![j.client] = "dangling"]
      /\ FreeWorkData(j)
      /\ reqs' = reqs \ {j}
      /\ UNCHANGED <<status, reading, reads, wq, run, wdone, writes, wild, answered>>

\* Back in libuv's worker: the request is linked into loop->wq.
WorkerPost(w) ==
  LET j == run[w]
  IN  /\ status = "up" /\ j # None /\ ran[w]
      /\ wdone' = Append(wdone, j)
      /\ run' = [run EXCEPT ![w] = None]
      /\ IF j \in reqs THEN UNCHANGED <<wild, status>>
         ELSE wild' = wild \cup {"request"} /\ status' \in {"up", "crashed"}
      /\ UNCHANGED <<loopVars, peer, wq, ran, writes, dataVars, answered>>

-----------------------------------------------------------------------------
Loop == \/ \E c \in Client : \/ OnPeerConnected(c) \/ OnPeerNameFails(c)
                             \/ OnAcceptFailed(c) \/ OnClientClosed(c)
                             \/ OnPeerRead(c) \/ OnPeerReadCopyFails(c) \/ OnPeerEnd(c)
                             \/ OnSentResponse(c) \/ OnWriteError(c)
        \/ OnWorkUnregistered \/ OnWorkNoResponse \/ OnWorkCompleted \/ OnWriteRefused

Pool(w) == \/ WorkerTake(w) \/ WorkerPost(w)
           \/ OnWorkSubmitted(w) \/ OnSecondResponse(w) \/ OnWorkClientClosed(w)

Next == Loop \/ \E w \in Worker : Pool(w)

Spec == Init /\ [][Next]_vars

(***************************************************************************)
(* The loop completes finished work and delivers close callbacks; a worker *)
(* that has work goes on with it.  Peers owe nothing: a write callback may *)
(* never come.                                                             *)
(***************************************************************************)
Fairness ==
  /\ WF_vars(OnWorkUnregistered \/ OnWorkNoResponse \/ OnWorkCompleted \/ OnWriteRefused)
  /\ \A c \in Client : WF_vars(OnClientClosed(c))
  /\ \A w \in Worker : WF_vars(Pool(w))

FairSpec == Spec /\ Fairness
-----------------------------------------------------------------------------
(* Properties                                                              *)

Types ==
  /\ status \in {"up", "exited", "crashed"}
  /\ handle \in [Client -> {"none", "open", "closing", "freed", "dangling"}]
  /\ reading \in [Client -> BOOLEAN]
  /\ peer \in [Client -> {"none", "live", "freed"}]
  /\ reads \in [Client -> 0..MaxReads]
  /\ wq \in Seq(Job) /\ wdone \in Seq(Job)
  /\ run \in [Worker -> Job \cup {None}]
  /\ ran \in [Worker -> BOOLEAN]
  /\ writes \in [Client -> Seq(Job)]
  /\ data \subseteq Job /\ reqs \subseteq Job /\ response \subseteq Job
  /\ wild \subseteq {"handle", "request", "queue"}
  /\ answered \in [Client -> Seq(1..MaxReads)]

\* Every variable has its type, and no response outlives its work data.
TypeOK == Types /\ response \subseteq data

\* The callback a worker is about to run finds the client's peer state and
\* endpoint: no job outlives the job that frees them, and none frees them twice.
EndpointAlive ==
  \A w \in Worker : run[w] # None /\ ~ran[w] => peer[run[w].client] = "live"

\* Why EndpointAlive holds with one pool thread: in the queue, and between it and
\* the thread, nothing of a client comes after the job that frees its peer state,
\* and whatever waits has a peer state.
CloseComesLast ==
  /\ \A i, k \in DOMAIN wq :
       i < k /\ wq[i].type = "close" => wq[k].client # wq[i].client
  /\ \A w \in Worker, k \in DOMAIN wq :
       run[w] # None /\ ~ran[w] /\ run[w].type = "close" => wq[k].client # run[w].client

WorkHasPeer ==
  /\ \A i \in DOMAIN wq : peer[wq[i].client] = "live"
  /\ EndpointAlive

\* Every peer_work_data_t has one owner, and what no one owns has been freed:
\* work is neither lost, nor freed twice, nor shared between loop and pool.
WorkDataOwnedOnce ==
  LET Owners(j) ==
        {<<"wq", i>> : i \in {i \in DOMAIN wq : wq[i] = j}}
          \cup {<<"run", w>> : w \in {w \in Worker : run[w] = j /\ (j.type = "data" \/ ~ran[w])}}
          \cup {<<"wdone", i>> : i \in {i \in DOMAIN wdone : wdone[i] = j /\ j.type = "data"}}
          \cup {<<"writes", i>> : i \in {i \in DOMAIN writes[j.client] : writes[j.client][i] = j}}
  IN  \A j \in Job : Cardinality(Owners(j)) = IF j \in data THEN 1 ELSE 0

\* A client is answered in the order in which its bytes were read.
AnswersInOrder ==
  \A c \in Client : \A i, k \in DOMAIN answered[c] : i < k => answered[c][i] < answered[c][k]

\* libuv reads from a connection only as long as its handle and peer state exist
\* and nothing that will free them is under way.
ReadingIsSafe ==
  \A c \in Client : reading[c] =>
    /\ handle[c] = "open" /\ peer[c] = "live"
    /\ \A i \in DOMAIN wq : ~(wq[i].client = c /\ wq[i].type = "close")
    /\ \A w \in Worker : run[w] # None => ~(run[w].client = c /\ run[w].type = "close")

\* The memory of a connection that ended is freed, unless the process ends first
\* (the memory only: the descriptor of an accepted one is never closed).
ConnectionsReleased ==
  \A c \in Client : (handle[c] \in {"open", "closing"} /\ ~reading[c])
                      ~> (handle[c] \in {"freed", "dangling"} \/ status # "up")

\* The request of a job is freed in the end, and so is its work data, unless it is
\* in a write whose callback has yet to come, or the process ends first.
WorkReleased ==
  \A j \in Job : (j \in data \cup reqs)
                  ~> \/ status # "up"
                     \/ /\ j \notin reqs
                        /\ j \notin data \/ \E i \in DOMAIN writes[j.client] : writes[j.client][i] = j

\* "you must add some protection codes in main.cpp [...] in multi-working-thread
\* situation" (README.md): with a single one it needs none.  So no write is
\* started, and none completes, on a handle that the pool has freed.
NoWriteOnFreedHandle == "handle" \notin wild
===============================================================================
