---------------------------- MODULE WorkerProofs ----------------------------
(***************************************************************************)
(* What Worker keeps true, for every number of requests and every limit of *)
(* threads.                                                                *)
(*                                                                         *)
(* Reader and writer break the queue, but only in one direction: a link    *)
(* goes from a node to a later one, and so does each step of the front.    *)
(* That is why a response may be left out and none is early or repeated.   *)
(***************************************************************************)
EXTENDS Worker, TLAPS

\* The last node that the reader has linked.
Last == IF readpc \in {"enqueue", "link"} THEN rnode - 1 ELSE rnode

\* Where the writer has a node, has sent its header, has seen the end of its request.
Holding  == {"lock", "wait", "send", "chunks", "dequeue", "unlink", "back", "setfront", "destroy"}
Sent     == {"chunks", "dequeue", "unlink", "back", "setfront", "destroy"}
Finished == {"dequeue", "unlink", "back", "setfront", "destroy"}

\* The reader counts each node once, after its request has come.
ReaderInv ==
    /\ readpc \in {"limit", "limited"} => max_thr_request = rnode
    /\ readpc \notin {"limit", "limited"} => rnode # NULL /\ max_thr_request = rnode - 1
    /\ readpc \in {"limit", "limited", "count"} => rnode <= MaxRequests
    /\ readpc \in {"link", "back"} => rback < rnode
    /\ readpc \notin {"link", "back"} => rback = NULL

\* The queue leads from a node to later ones.
QueueInv ==
    /\ front <= Last /\ back <= Last
    /\ \A n \in Nodes : next[n] # NULL => n < next[n] /\ next[n] <= Last

\* What the writer holds comes after all it has answered.
WriterInv ==
    /\ writepc \in Holding => wnode \in 1 .. Last
    /\ wnext # NULL => wnode < wnext /\ wnext <= Last
    /\ writepc \notin {"unlink", "back", "setfront"} => wnext = NULL
    /\ \A k \in DOMAIN answered :
          /\ answered[k] <= Last
          /\ writepc \in Holding \ Sent => answered[k] < wnode
          /\ writepc \in Sent => answered[k] <= wnode
          /\ writepc = "front" /\ front # NULL => answered[k] < front
    /\ writepc = "destroy" /\ front # NULL => wnode < front

\* A node lives from the reader's work on it to the end of its request.
NodeInv ==
    /\ \A n \in Nodes :
          /\ n <= rnode => alive[n] \/ request[n] = "done"
          /\ n > rnode => request[n] = "none"
          /\ n = rnode /\ readpc \notin {"count", "limit", "limited"} => request[n] = "none"
          /\ header[n] # "none" => request[n] \in {"chunks", "done", "failed"}
    /\ writepc \in {"send"} \cup Sent => header[wnode] # "none"
    /\ writepc \in Finished => request[wnode] = "done"
    /\ \A k \in DOMAIN answered : header[answered[k]] # "none"

IInv == TypeOK /\ ReaderInv /\ QueueInv /\ WriterInv /\ AnsweredInOrder /\ NodeInv
-----------------------------------------------------------------------------
LEMMA InitInv == Init => IInv
<1> USE WorkerAssumption DEF Init, Last, Nodes, NULL, Holding, Sent, Finished
<1>1. Init => TypeOK
  <2>1. Init => answered \in Seq(Nodes)
        OBVIOUS
  <2>2. Init => /\ request \in [Nodes -> {"none", "lock", "work", "chunks", "done", "failed"}]
                /\ header \in [Nodes -> {"none", "part", "whole"}]
                /\ node_mutex \in [Nodes -> {"none", "request", "writer"}]
                /\ alive \in [Nodes -> BOOLEAN]
                /\ next \in [Nodes -> Nodes \cup {NULL}]
        OBVIOUS
  <2>3. Init => client \in {"here", "gone"} /\ max_thr_request \in 0 .. MaxRequests
        OBVIOUS
  <2> QED
      BY <2>1, <2>2, <2>3 DEF TypeOK
<1>2. Init => ReaderInv /\ QueueInv
      BY DEF ReaderInv, QueueInv
<1>3. Init => WriterInv /\ AnsweredInOrder
      BY DEF WriterInv, AnsweredInOrder
<1>4. Init => NodeInv
      BY DEF NodeInv
<1> QED
    BY <1>1, <1>2, <1>3, <1>4 DEF IInv

LEMMA EndsPreserve == IInv /\ (ClientLeaves \/ Main \/ Watchdog) => IInv'
<1> SUFFICES ASSUME IInv, ClientLeaves \/ Main \/ Watchdog PROVE IInv'
    OBVIOUS
<1>1. UNCHANGED <<readerVars, queueVars, writerVars, nodeVars>>
      BY DEF ClientLeaves, Main, MainTests, MainWaits, MainCloses, Watchdog, WatchOver, WatchdogSignals
<1>2. TypeOK'
  <2>1. /\ client' \in {"here", "gone"}
        /\ mainpc' \in {"test", "about", "wait", "close", "closed"}
        /\ await_flag' \in BOOLEAN
        /\ wdpc' \in {"sleep", "signal", "gone"}
        BY DEF IInv, TypeOK, ClientLeaves, Main, MainTests, MainWaits, MainCloses, Watchdog, WatchOver,
               WatchdogSignals, SignalMain
  <2> QED
      BY <1>1, <2>1 DEF IInv, TypeOK, readerVars, queueVars, writerVars, nodeVars
<1>3. ReaderInv' /\ QueueInv' /\ WriterInv' /\ AnsweredInOrder' /\ NodeInv'
      BY <1>1 DEF IInv, ReaderInv, QueueInv, WriterInv, AnsweredInOrder, NodeInv, Last,
                  readerVars, queueVars, writerVars, nodeVars
<1> QED
    BY <1>2, <1>3 DEF IInv

LEMMA ReaderPreserves == IInv /\ Reader => IInv'
<1> SUFFICES ASSUME IInv, Reader PROVE IInv'
    OBVIOUS
<1> USE WorkerAssumption DEF IInv, TypeOK, ReaderInv, QueueInv, WriterInv, AnsweredInOrder, NodeInv,
        Last, Nodes, NULL, Holding, Sent, Finished, endVars, readerVars, queueVars, writerVars, nodeVars
<1>1. CASE ReaderLimit
  <2>1. CASE readpc' = "limited" /\ UNCHANGED <<rnode, alive>>
        BY <1>1, <2>1 DEF ReaderLimit
  <2>2. CASE readpc' = "enqueue" /\ rnode' = rnode + 1 /\ alive' = [alive EXCEPT ![rnode'] = TRUE]
    <3>1. rnode' \in Nodes /\ Last' = Last /\ Last = rnode
          BY <1>1, <2>2 DEF ReaderLimit
    <3>2. TypeOK'
          BY <1>1, <2>2, <3>1 DEF ReaderLimit
    <3>3. ReaderInv' /\ QueueInv'
          BY <1>1, <2>2 DEF ReaderLimit
    <3>4. WriterInv' /\ AnsweredInOrder'
          BY <1>1, <2>2 DEF ReaderLimit
    <3>5. NodeInv'
          BY <1>1, <2>2 DEF ReaderLimit
    <3> QED
        BY <3>2, <3>3, <3>4, <3>5
  <2> QED
      BY <1>1, <2>1, <2>2 DEF ReaderLimit
<1>2. CASE EnqueueReads
      BY <1>2 DEF EnqueueReads
<1>3. CASE EnqueueLinks
  <2>1. TypeOK' /\ ReaderInv' /\ NodeInv'
        BY <1>3 DEF EnqueueLinks
  <2>2. QueueInv'
    <3>1. Last = rnode - 1 /\ Last' = rnode /\ rnode \in Nodes /\ rback < rnode /\ back' = back
          BY <1>3 DEF EnqueueLinks
    <3>2. front' <= Last'
          BY <1>3, <3>1 DEF EnqueueLinks
    <3>3. ASSUME NEW n \in Nodes PROVE next'[n] = next[n] \/ (n = rback /\ next'[n] = rnode)
      <4>1. CASE rback = NULL
            BY <1>3, <4>1 DEF EnqueueLinks
      <4>2. CASE rback # NULL
        <5>1. next' = [next EXCEPT ![rback] = rnode] /\ next \in [Nodes -> Nodes \cup {NULL}]
              BY <1>3, <4>2 DEF EnqueueLinks
        <5> QED
            BY <5>1
      <4> QED
          BY <4>1, <4>2
    <3>4. ASSUME NEW n \in Nodes, next'[n] # NULL PROVE n < next'[n] /\ next'[n] <= Last'
      <4>1. CASE next'[n] = next[n]
        <5>1. n < next[n] /\ next[n] <= Last /\ next[n] \in Nodes
              BY <3>4, <4>1
        <5> QED
            BY <3>1, <4>1, <5>1
      <4>2. CASE n = rback /\ next'[n] = rnode
            BY <3>1, <4>2
      <4> QED
          BY <3>3, <4>1, <4>2
    <3> QED
        BY <3>1, <3>2, <3>4
  <2>3. WriterInv' /\ AnsweredInOrder'
        BY <1>3 DEF EnqueueLinks
  <2> QED
      BY <2>1, <2>2, <2>3
<1>4. CASE EnqueueEnds
      BY <1>4 DEF EnqueueEnds
<1>5. CASE ReceiveRequest
  <2>1. TypeOK'
        BY <1>5 DEF ReceiveRequest
  <2>2. ReaderInv' /\ QueueInv'
        BY <1>5 DEF ReceiveRequest
  <2>3. WriterInv'
        BY <1>5 DEF ReceiveRequest
  <2>4. AnsweredInOrder'
        BY <1>5 DEF ReceiveRequest
  <2>5. NodeInv'
        BY <1>5 DEF ReceiveRequest
  <2> QED
      BY <2>1, <2>2, <2>3, <2>4, <2>5
<1>6. CASE CountRequest
      BY <1>6 DEF CountRequest
<1>7. CASE ReceiveFails
      BY <1>7 DEF ReceiveFails
<1>8. CASE ReaderSignals
      BY <1>8 DEF ReaderSignals, SignalMain
<1> QED
    BY <1>1, <1>2, <1>3, <1>4, <1>5, <1>6, <1>7, <1>8 DEF Reader

LEMMA WriterPreserves == IInv /\ Writer => IInv'
<1> SUFFICES ASSUME IInv, Writer PROVE IInv'
    OBVIOUS
<1> USE WorkerAssumption DEF IInv, TypeOK, ReaderInv, QueueInv, WriterInv, AnsweredInOrder, NodeInv,
        Last, Nodes, NULL, Holding, Sent, Finished, endVars, readerVars, queueVars, writerVars, nodeVars
<1>1. CASE WriterGetsFront
  <2>1. TypeOK'
        BY <1>1 DEF WriterGetsFront
  <2>2. ReaderInv' /\ QueueInv'
        BY <1>1 DEF WriterGetsFront
  <2>3. WriterInv'
        BY <1>1 DEF WriterGetsFront
  <2>4. AnsweredInOrder'
        BY <1>1 DEF WriterGetsFront
  <2>5. NodeInv'
        BY <1>1 DEF WriterGetsFront
  <2> QED
      BY <2>1, <2>2, <2>3, <2>4, <2>5
<1>2. CASE WriterLocks
      BY <1>2 DEF WriterLocks
<1>3. CASE SpuriousWakeup
      BY <1>3 DEF SpuriousWakeup
<1>4. CASE WriterSendsHeader
  <2>1. CASE writepc' = "gone" /\ UNCHANGED answered
        BY <1>4, <2>1 DEF WriterSendsHeader
  <2>2. CASE writepc' = "chunks" /\ answered' = Append(answered, wnode)
    <3>1. /\ answered' \in Seq(Nodes) /\ DOMAIN answered' = 1 .. Len(answered) + 1
          /\ \A k \in DOMAIN answered : answered'[k] = answered[k]
          /\ answered'[Len(answered) + 1] = wnode
          /\ DOMAIN answered = 1 .. Len(answered) /\ Len(answered) \in Nat
          BY <1>4, <2>2 DEF WriterSendsHeader
    <3>2. \A k \in DOMAIN answered' : \/ k \in DOMAIN answered /\ answered'[k] = answered[k]
                                      \/ k = Len(answered) + 1 /\ answered'[k] = wnode
          BY <3>1
    <3>3. TypeOK'
          BY <1>4, <2>2, <3>1 DEF WriterSendsHeader
    <3>4. ReaderInv' /\ QueueInv' /\ NodeInv'
          BY <1>4, <2>2, <3>2 DEF WriterSendsHeader
    <3>5. WriterInv' /\ AnsweredInOrder'
          BY <1>4, <2>2, <3>1, <3>2 DEF WriterSendsHeader
    <3> QED
        BY <3>3, <3>4, <3>5
  <2> QED
      BY <1>4, <2>1, <2>2 DEF WriterSendsHeader
<1>5. CASE WriterSendsBody
      BY <1>5 DEF WriterSendsBody
<1>6. CASE DequeueReads
      BY <1>6 DEF DequeueReads
<1>7. CASE DequeueUnlinks
      BY <1>7, SMTT(30) DEF DequeueUnlinks
<1>8. CASE DequeueClearsBack
      BY <1>8 DEF DequeueClearsBack
<1>9. CASE DequeueSetsFront
      BY <1>9 DEF DequeueSetsFront
<1>10. CASE DestroyNode
      BY <1>10 DEF DestroyNode
<1> QED
    BY <1>1, <1>2, <1>3, <1>4, <1>5, <1>6, <1>7, <1>8, <1>9, <1>10 DEF Writer

LEMMA RequestPreserves == IInv /\ (\E n \in Nodes : RequestThread(n)) => IInv'
<1> SUFFICES ASSUME IInv, NEW n \in Nodes, RequestThread(n) PROVE IInv'
    OBVIOUS
<1> USE WorkerAssumption DEF IInv, TypeOK, ReaderInv, QueueInv, WriterInv, AnsweredInOrder, NodeInv,
        Last, Nodes, NULL, Holding, Sent, Finished, endVars, readerVars, queueVars, writerVars, nodeVars
<1>1. CASE RequestLocks(n)
      BY <1>1 DEF RequestLocks
<1>2. CASE RequestGetsHeader(n)
      BY <1>2 DEF RequestGetsHeader
<1>3. CASE RequestFails(n)
  <2>1. PICK h \in HeaderLeft : header' = [header EXCEPT ![n] = h]
        BY <1>3 DEF RequestFails
  <2>2. TypeOK'
        BY <1>3, <2>1 DEF RequestFails, HeaderLeft
  <2>3. ReaderInv' /\ QueueInv' /\ WriterInv' /\ AnsweredInOrder'
        BY <1>3 DEF RequestFails
  <2>4. header[n] = "none" /\ \A m \in Nodes \ {n} : header'[m] = header[m] /\ request'[m] = request[m]
        BY <1>3, <2>1, ZenonT(30) DEF RequestFails
  <2>5. request'[n] = "failed" /\ request[n] = "work"
        BY <1>3 DEF RequestFails
  <2>6. writepc \in {"send"} \cup Sent => wnode # n
        BY <2>4
  <2>7. \A k \in DOMAIN answered : answered[k] \in Nodes \ {n}
        BY <2>4
  <2>8. NodeInv'
        BY <1>3, <2>4, <2>5, <2>6, <2>7 DEF RequestFails
  <2> QED
      BY <2>2, <2>3, <2>8
<1>4. CASE RequestEnds(n)
      BY <1>4 DEF RequestEnds
<1> QED
    BY <1>1, <1>2, <1>3, <1>4 DEF RequestThread

THEOREM Invariance == Spec => []IInv
<1>1. IInv /\ UNCHANGED vars => IInv'
      BY DEF IInv, TypeOK, ReaderInv, QueueInv, WriterInv, AnsweredInOrder, NodeInv, Last, vars,
             endVars, readerVars, queueVars, writerVars, nodeVars
<1>2. IInv /\ [Next]_vars => IInv'
      BY <1>1, EndsPreserve, ReaderPreserves, WriterPreserves, RequestPreserves DEF Next
<1> QED
    BY <1>2, InitInv, PTL DEF Spec

\* The threads of a worker keep to their types: among others, the writer always has a node
\* where it uses one, and the reader never counts more requests than the client sends.
THEOREM TypeCorrect == Spec => []TypeOK
<1> QED
    BY Invariance, PTL DEF IInv

\* write_work, enqueue_request_queue, dequeue_request_queue: with a queue without a lock, and
\* however reader and writer interleave in it, no response is early and none goes out twice.
THEOREM InOrder == Spec => []AnsweredInOrder
<1> QED
    BY Invariance, PTL DEF IInv

\* write_work: no header goes out that its request thread has not begun to write.
THEOREM AnswersRequests == Spec => []AnswersARequest
<1>1. IInv => AnswersARequest
      BY DEF IInv, NodeInv, AnswersARequest, TypeOK
<1> QED
    BY <1>1, Invariance, PTL

\* request_work, destroy_request_node: no node is freed while its request thread uses it.
THEOREM NodesLive == Spec => []NodesOutliveRequests
<1>1. IInv => NodesOutliveRequests
      BY WorkerAssumption DEF IInv, TypeOK, NodeInv, NodesOutliveRequests, Nodes, NULL
<1> QED
    BY <1>1, Invariance, PTL
=============================================================================
