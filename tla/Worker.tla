------------------------------- MODULE Worker -------------------------------
(***************************************************************************)
(* The threads of a worker process while it serves one connection.         *)
(*                                                                         *)
(* The reader puts a node into the request queue, reads a request into it, *)
(* creates a request thread for it, and goes round.  A request thread gets *)
(* the response from the server, with the mutex of its node held until the *)
(* header is there.  The writer takes the front of the queue, waits for    *)
(* its header, sends header and body, dequeues the node and destroys it.   *)
(* The watchdog and the reader tell the main thread when it is over.       *)
(*                                                                         *)
(* The queue is a linked list without a lock: each access of its fields by *)
(* the reader and by the writer is an action (back is read once in         *)
(* enqueue, as an optimising build does).  The exchange of the body is     *)
(* ChunkPipe; here it ends or it does not.                                 *)
(***************************************************************************)
EXTENDS Integers, Sequences, FiniteSets

CONSTANTS MaxRequests,        \* bound: requests the client sends
          max_thread_pchild   \* in heimdall_config.conf

ASSUME WorkerAssumption == MaxRequests \in Nat /\ max_thread_pchild \in Nat

\* The n-th node is for the n-th request; the last one waits for one that never comes.
Nodes == 1 .. MaxRequests + 1
NULL  == 0

VARIABLES
    client,                    \* whether the client still holds the connection
    mainpc, await_flag,        \* start_worker; TRUE is WATCH_OVER
    wdpc,                      \* enable_watchdog
    readpc, rnode, rback,      \* read_work: where, its node, back as enqueue read it
    max_thr_request,
    front, back, next,         \* the queue, and each node's link
    writepc, wnode, wnext,     \* write_work: where, its node, next as dequeue read it
    request,                   \* request_work: the thread of each node
    header, node_mutex, alive, \* each node
    answered                   \* history: the nodes whose header went to the client

queueVars  == <<front, back, next>>
readerVars == <<readpc, rnode, rback, max_thr_request>>
writerVars == <<writepc, wnode, wnext, answered>>
nodeVars   == <<request, header, node_mutex, alive>>
endVars    == <<client, mainpc, await_flag, wdpc>>
vars == <<endVars, readerVars, queueVars, writerVars, nodeVars>>

\* start_worker has created the watchdog, the writer and the reader.
Init ==
    /\ client = "here"
    /\ mainpc = "test" /\ await_flag = FALSE
    /\ wdpc = "sleep"
    /\ readpc = "limit" /\ rnode = NULL /\ rback = NULL /\ max_thr_request = 0
    /\ front = NULL /\ back = NULL /\ next = [n \in Nodes |-> NULL]
    /\ writepc = "front" /\ wnode = NULL /\ wnext = NULL /\ answered = <<>>
    /\ request = [n \in Nodes |-> "none"]
    /\ header = [n \in Nodes |-> "none"]
    /\ node_mutex = [n \in Nodes |-> "none"]
    /\ alive = [n \in Nodes |-> FALSE]
-----------------------------------------------------------------------------
(* The main thread and what ends the connection                            *)

ClientLeaves ==
    /\ client = "here"
    /\ client' = "gone"
    /\ UNCHANGED <<mainpc, await_flag, wdpc, readerVars, queueVars, writerVars, nodeVars>>

\* It tests the flag with await_mtx held, which no other thread ever takes.
MainTests ==
    /\ mainpc = "test"
    /\ mainpc' = IF await_flag THEN "close" ELSE "about"
    /\ UNCHANGED <<client, await_flag, wdpc, readerVars, queueVars, writerVars, nodeVars>>

\* pthread_cond_wait; a signal that came between test and wait woke no one.
MainWaits ==
    /\ mainpc = "about"
    /\ mainpc' = "wait"
    /\ UNCHANGED <<client, await_flag, wdpc, readerVars, queueVars, writerVars, nodeVars>>

\* close_connection; the model ends here.
MainCloses ==
    /\ mainpc = "close"
    /\ mainpc' = "closed"
    /\ client' = "gone"
    /\ UNCHANGED <<await_flag, wdpc, readerVars, queueVars, writerVars, nodeVars>>

SignalMain == mainpc' = IF mainpc = "wait" THEN "test" ELSE mainpc

\* watch_over: no request for longer than timeout_worker.  The watchdog first looks
\* killer_time after it was started, when the main thread is waiting.
WatchOverForgetsFlag ==
    /\ wdpc = "sleep"
    /\ mainpc \notin {"test", "about"}
    /\ wdpc' = "signal"
    /\ UNCHANGED <<client, mainpc, await_flag, readerVars, queueVars, writerVars, nodeVars>>

WatchOver ==
    /\ wdpc = "sleep"
    /\ mainpc \notin {"test", "about"}
    /\ await_flag' = TRUE
    /\ wdpc' = "signal"
    /\ UNCHANGED <<client, mainpc, readerVars, queueVars, writerVars, nodeVars>>

WatchdogSignals ==
    /\ wdpc = "signal"
    /\ SignalMain
    /\ wdpc' = "gone"
    /\ UNCHANGED <<client, await_flag, readerVars, queueVars, writerVars, nodeVars>>
-----------------------------------------------------------------------------
(* The reader: read_work, enqueue_request_queue                            *)

\* The counter is only ever increased, and nobody signals a reader that waits.
ReaderLimit ==
    /\ readpc = "limit"
    /\ IF max_thr_request > max_thread_pchild
       THEN readpc' = "limited" /\ UNCHANGED <<rnode, alive>>
       ELSE /\ readpc' = "enqueue"
            /\ rnode' = rnode + 1
            /\ alive' = [alive EXCEPT ![rnode'] = TRUE]
    /\ UNCHANGED <<endVars, rback, max_thr_request, queueVars, writerVars, request, header,
                   node_mutex>>

\* enqueue reads back.
EnqueueReads ==
    /\ readpc = "enqueue"
    /\ rback' = back
    /\ readpc' = "link"
    /\ UNCHANGED <<endVars, rnode, max_thr_request, queueVars, writerVars, nodeVars>>

\* The node becomes the front, or the next of the node that was at the back.
EnqueueLinks ==
    /\ readpc = "link"
    /\ IF rback = NULL THEN front' = rnode /\ UNCHANGED next
                       ELSE next' = [next EXCEPT ![rback] = rnode] /\ UNCHANGED front
    /\ readpc' = "back"
    /\ UNCHANGED <<endVars, rnode, rback, max_thr_request, back, writerVars, nodeVars>>

EnqueueEnds ==
    /\ readpc = "back"
    /\ back' = rnode
    /\ rback' = NULL
    /\ readpc' = "receive"
    /\ UNCHANGED <<endVars, rnode, max_thr_request, front, next, writerVars, nodeVars>>

\* receive_http_request returns a request: create its thread.
ReceiveRequest ==
    /\ readpc = "receive"
    /\ client = "here" /\ rnode <= MaxRequests
    /\ request' = [request EXCEPT ![rnode] = "lock"]
    /\ readpc' = "count"
    /\ UNCHANGED <<endVars, rnode, rback, max_thr_request, queueVars, writerVars, header,
                   node_mutex, alive>>

CountRequest ==
    /\ readpc = "count"
    /\ max_thr_request' = max_thr_request + 1
    /\ readpc' = "limit"
    /\ UNCHANGED <<endVars, rnode, rback, queueVars, writerVars, nodeVars>>

\* The client is gone: set the flag, without the mutex, and signal.
ReceiveFails ==
    /\ readpc = "receive"
    /\ client = "gone"
    /\ await_flag' = TRUE
    /\ readpc' = "tell"
    /\ UNCHANGED <<client, mainpc, wdpc, rnode, rback, max_thr_request, queueVars, writerVars,
                   nodeVars>>

ReaderSignals ==
    /\ readpc = "tell"
    /\ SignalMain
    /\ readpc' = "gone"
    /\ UNCHANGED <<client, await_flag, wdpc, rnode, rback, max_thr_request, queueVars,
                   writerVars, nodeVars>>
-----------------------------------------------------------------------------
(* The request threads: request_work                                       *)

RequestLocks(n) ==
    /\ request[n] = "lock"
    /\ node_mutex[n] = "none"
    /\ node_mutex' = [node_mutex EXCEPT ![n] = "request"]
    /\ request' = [request EXCEPT ![n] = "work"]
    /\ UNCHANGED <<endVars, readerVars, queueVars, writerVars, header, alive>>

\* The header is there: signal, unlock, and on to the body.
RequestGetsHeader(n) ==
    /\ request[n] = "work"
    /\ header' = [header EXCEPT ![n] = "whole"]
    /\ writepc' = IF writepc = "wait" /\ wnode = n THEN "lock" ELSE writepc
    /\ node_mutex' = [node_mutex EXCEPT ![n] = "none"]
    /\ request' = [request EXCEPT ![n] = "chunks"]
    /\ UNCHANGED <<endVars, readerVars, queueVars, wnode, wnext, answered, alive>>

\* receive_http_header2 fails without a buffer or with one that it has not filled.
HeaderLeft == {"none", "part"}

\* The server is BROKEN or cannot be reached, or its header breaks off after its
\* buffer was allocated: unlock, without a signal.
RequestFails(n) ==
    /\ request[n] = "work"
    /\ \E h \in HeaderLeft : header' = [header EXCEPT ![n] = h]
    /\ node_mutex' = [node_mutex EXCEPT ![n] = "none"]
    /\ request' = [request EXCEPT ![n] = "failed"]
    /\ UNCHANGED <<endVars, readerVars, queueVars, writerVars, alive>>

\* The body is there to its end, or it never will be (no length, no bytes, an early end).
RequestEnds(n) ==
    /\ request[n] = "chunks"
    /\ \E end \in {"done", "failed"} : request' = [request EXCEPT ![n] = end]
    /\ UNCHANGED <<endVars, readerVars, queueVars, writerVars, header, node_mutex, alive>>
-----------------------------------------------------------------------------
(* The writer: write_work, dequeue_request_queue                           *)

WriterGetsFrontUnchecked ==
    /\ writepc = "front"
    /\ wnode' = front
    /\ writepc' = "lock"
    /\ UNCHANGED <<endVars, readerVars, queueVars, wnext, answered, nodeVars>>

\* It spins while the queue looks empty.
WriterGetsFront ==
    /\ writepc = "front"
    /\ front # NULL
    /\ wnode' = front
    /\ writepc' = "lock"
    /\ UNCHANGED <<endVars, readerVars, queueVars, wnext, answered, nodeVars>>

\* Lock, and wait until there is a header (cond_wait unlocks).
WriterSkipsWait ==
    /\ writepc = "lock"
    /\ node_mutex[wnode] = "none"
    /\ node_mutex' = [node_mutex EXCEPT ![wnode] = "writer"]
    /\ writepc' = "send"
    /\ UNCHANGED <<endVars, readerVars, queueVars, wnode, wnext, answered, request, header, alive>>

WriterLocks ==
    /\ writepc = "lock"
    /\ node_mutex[wnode] = "none"
    /\ IF header[wnode] = "none"
       THEN writepc' = "wait" /\ UNCHANGED node_mutex
       ELSE writepc' = "send" /\ node_mutex' = [node_mutex EXCEPT ![wnode] = "writer"]
    /\ UNCHANGED <<endVars, readerVars, queueVars, wnode, wnext, answered, request, header, alive>>

\* cond_wait may return without a signal, and the header is tested again.  (The main
\* thread's own wait is taken to return on a signal only: see WatchOver.)
SpuriousWakeup ==
    /\ writepc = "wait"
    /\ writepc' = "lock"
    /\ UNCHANGED <<endVars, readerVars, queueVars, wnode, wnext, answered, nodeVars>>

\* send_http_response_header, and unlock; the writer returns if it fails.
WriterSendsHeader ==
    /\ writepc = "send"
    /\ node_mutex' = [node_mutex EXCEPT ![wnode] = "none"]
    /\ \/ writepc' = "chunks" /\ answered' = Append(answered, wnode)
       \/ client = "gone" /\ writepc' = "gone" /\ UNCHANGED answered
    /\ UNCHANGED <<endVars, readerVars, queueVars, wnode, wnext, request, header, alive>>

\* send_http_chunks returns when the body has been sent to its end, or with an error.
WriterSendsBodyUnfinished ==
    /\ writepc = "chunks"
    /\ writepc' = "dequeue"
    /\ UNCHANGED <<endVars, readerVars, queueVars, wnode, wnext, answered, nodeVars>>

WriterSendsBody ==
    /\ writepc = "chunks"
    /\ \/ request[wnode] = "done" /\ writepc' = "dequeue"
       \/ client = "gone" /\ writepc' = "gone"
    /\ UNCHANGED <<endVars, readerVars, queueVars, wnode, wnext, answered, nodeVars>>

\* dequeue reads the front, which is still wnode, and its next ...
DequeueReads ==
    /\ writepc = "dequeue"
    /\ wnext' = next[wnode]
    /\ writepc' = "unlink"
    /\ UNCHANGED <<endVars, readerVars, queueVars, wnode, answered, nodeVars>>

DequeueUnlinks ==
    /\ writepc = "unlink"
    /\ next' = [next EXCEPT ![wnode] = NULL]
    /\ writepc' = "back"
    /\ UNCHANGED <<endVars, readerVars, front, back, wnode, wnext, answered, nodeVars>>

\* ... and clears back if there was no next ...
DequeueClearsBack ==
    /\ writepc = "back"
    /\ back' = IF wnext = NULL THEN NULL ELSE back
    /\ writepc' = "setfront"
    /\ UNCHANGED <<endVars, readerVars, front, next, wnode, wnext, answered, nodeVars>>

\* ... then the next is the front.
DequeueKeepsFront ==
    /\ writepc = "setfront"
    /\ wnext' = NULL
    /\ writepc' = "destroy"
    /\ UNCHANGED <<endVars, readerVars, queueVars, wnode, answered, nodeVars>>

DequeueSetsFront ==
    /\ writepc = "setfront"
    /\ front' = wnext
    /\ wnext' = NULL
    /\ writepc' = "destroy"
    /\ UNCHANGED <<endVars, readerVars, back, next, wnode, answered, nodeVars>>

\* destroy_request_node, and round again.
DestroyNode ==
    /\ writepc = "destroy"
    /\ alive' = [alive EXCEPT ![wnode] = FALSE]
    /\ wnode' = NULL
    /\ writepc' = "front"
    /\ UNCHANGED <<endVars, readerVars, queueVars, wnext, answered, request, header, node_mutex>>
-----------------------------------------------------------------------------
Main     == MainTests \/ MainWaits \/ MainCloses
Watchdog == WatchOver \/ WatchdogSignals
Reader   == \/ ReaderLimit \/ EnqueueReads \/ EnqueueLinks \/ EnqueueEnds
            \/ ReceiveRequest \/ CountRequest \/ ReceiveFails \/ ReaderSignals
RequestThread(n) == RequestLocks(n) \/ RequestGetsHeader(n) \/ RequestFails(n) \/ RequestEnds(n)
Writer   == \/ WriterGetsFront \/ WriterLocks \/ SpuriousWakeup \/ WriterSendsHeader
            \/ WriterSendsBody
            \/ DequeueReads \/ DequeueUnlinks \/ DequeueClearsBack \/ DequeueSetsFront
            \/ DestroyNode

Next == \/ ClientLeaves \/ Main \/ Watchdog \/ Reader \/ Writer
        \/ \E n \in Nodes : RequestThread(n)
Spec == Init /\ [][Next]_vars

\* The threads that end a connection run; nothing is assumed of clients and servers.
FairSpec == /\ Spec
            /\ WF_vars(Main)
            /\ WF_vars(Watchdog)
-----------------------------------------------------------------------------
(* What the threads keep true                                              *)

TypeOK ==
    /\ client \in {"here", "gone"}
    /\ mainpc \in {"test", "about", "wait", "close", "closed"}
    /\ await_flag \in BOOLEAN
    /\ wdpc \in {"sleep", "signal", "gone"}
    /\ readpc \in {"limit", "limited", "enqueue", "link", "back", "receive", "count", "tell",
                   "gone"}
    /\ rnode \in Nodes \cup {NULL} /\ rback \in Nodes \cup {NULL}
    /\ max_thr_request \in 0 .. MaxRequests
    /\ front \in Nodes \cup {NULL} /\ back \in Nodes \cup {NULL}
    /\ next \in [Nodes -> Nodes \cup {NULL}]
    /\ writepc \in {"front", "lock", "wait", "send", "chunks", "dequeue", "unlink", "back",
                    "setfront", "destroy", "gone"}
    /\ wnode \in Nodes \cup {NULL} /\ wnext \in Nodes \cup {NULL}
    /\ writepc \in {"lock", "wait", "send", "chunks", "dequeue", "unlink", "back", "setfront",
                    "destroy"} => wnode # NULL
    /\ request \in [Nodes -> {"none", "lock", "work", "chunks", "done", "failed"}]
    /\ header \in [Nodes -> {"none", "part", "whole"}]
    /\ node_mutex \in [Nodes -> {"none", "request", "writer"}]
    /\ alive \in [Nodes -> BOOLEAN]
    /\ answered \in Seq(Nodes)

\* The responses go out in the order of the requests and none goes out twice, whatever the
\* reader does to the queue meanwhile.
AnsweredInOrder == \A j, k \in DOMAIN answered : j < k => answered[j] < answered[k]

\* The k-th response is that of the k-th request, which is how a client of a pipelined
\* connection takes it: no request is left out between two others.
NoAnswerLeftOut == \A k \in DOMAIN answered : answered[k] = k

\* The writer sends a header that a request thread has begun to write, never that of
\* a node whose request has not been read.
AnswersARequest == \A k \in DOMAIN answered : request[answered[k]] \in {"chunks", "done", "failed"}

\* destroy_request_node frees a node only when its request thread no longer uses it.
NodesOutliveRequests ==
    \A n \in Nodes : request[n] \in {"lock", "work", "chunks"} => alive[n]

\* The connection is closed in the end, even if the reader's signal comes between
\* the test of the flag and the wait: then the watchdog's wakes the main thread.
ConnectionEnds == <>(mainpc = "closed")
=============================================================================
