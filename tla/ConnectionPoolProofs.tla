------------------------ MODULE ConnectionPoolProofs ------------------------
(***************************************************************************)
(* Proofs about ConnectionPool, for every number of workers, slots and     *)
(* connections, and with any number of deaths and failed sends: its        *)
(* safety properties, and that it implements Dispatch.                     *)
(*                                                                         *)
(* The inductive invariant says where everything is at each step of the    *)
(* hand-over: what the manager holds (ManagerInv), that a connection       *)
(* waits in one place at most (PlacesInv), what may be in flight to a      *)
(* worker (LinkInv), what a worker holds at each step of its loop          *)
(* (WorkerInv), and that its entry of worker_server follows its            *)
(* connection from the selection on (ServerInv).                           *)
(***************************************************************************)
EXTENDS ConnectionPool, SequenceTheorems, TLAPS

Given(w) == position = w /\ dpc \in {"connect", "sendmsg"}

ManagerInv ==
    /\ dpc \in {"get", "killed"} <=> fd = NoFd
    /\ dpc \in {"connect", "sendmsg", "close"} => position \in Workers
    /\ dpc = "killed" => new_sockfd = NoFd /\ \A i \in Slots : fd_array[i] = NoFd

PlacesInv ==
    /\ \A i, j \in Slots : fd_array[i] = fd_array[j] /\ fd_array[i] # NoFd => i = j
    /\ \A i \in Slots : fd_array[i] # NoFd => fd_array[i] # new_sockfd /\ fd_array[i] # fd
    /\ fd # NoFd => fd # new_sockfd
    /\ pending \cap main_fds = {}

LinkAt(w) ==
    /\ Given(w) => \A k \in DOMAIN link[w] : link[w][k] = NoFd
    /\ dpc = "sendmsg" /\ position = w /\ wpc[w] # "dead" => link[w] # <<>>
    /\ link[w] # <<>> /\ link[w][1] # NoFd => Len(link[w]) = 1
    /\ \A k \in DOMAIN link[w] :
         link[w][k] # NoFd => /\ link[w][k] \notin pending
                              /\ ~Queued(link[w][k])
                              /\ link[w][k] = fd => dpc = "close"
                              /\ worker_server[w] = scheduled[link[w][k]]

LinkInv == \A w \in Workers : LinkAt(w)

WorkerInv == \A w \in Workers :
    /\ path[w] = "listening" => wpc[w] \in {"accept", "recv", "serve", "close", "unlink"}
    /\ wpc[w] = "recv" => link[w] # <<>>
    /\ link[w] # <<>> => wpc[w] \in {"accept", "recv"}
    /\ wpc[w] \in {"serve", "close", "unlink", "wait", "free"} => ~Given(w)
    /\ wpc[w] \in {"serve", "close"} <=> sockfd[w] # NoFd
    /\ worker_busy[w] = 0 => /\ wpc[w] \in {"remove", "bind", "listen", "accept", "dead"}
                             /\ link[w] = <<>>
                             /\ ~Given(w)

ServerInv ==
    /\ dpc \in {"connect", "sendmsg"} => worker_server[position] = scheduled[fd]
    /\ \A w \in Workers :
         sockfd[w] # NoFd => /\ sockfd[w] \notin pending
                             /\ ~Queued(sockfd[w])
                             /\ sockfd[w] = fd => dpc = "close"
                             /\ worker_server[w] = scheduled[sockfd[w]]

\* A request thread runs in a worker process.
RequestInv == \A c \in Conns :
    request[c].pc \in {"start", "lookup", "remote"} => request[c].proc \in Workers

IInv == /\ TypeOK
        /\ SemaphoreExcludes
        /\ ManagerInv
        /\ PlacesInv
        /\ NoDescriptorLeak
        /\ LinkInv
        /\ WorkerInv
        /\ ServerInv
        /\ RequestInv
-----------------------------------------------------------------------------
\* A request thread moves to another step, or learns its server.
LEMMA RequestMoves ==
    ASSUME NEW r \in RequestThreads, NEW p \in RequestPcs, NEW s \in Servers \cup {NoServer}
    PROVE  /\ [r EXCEPT !.pc = p] \in RequestThreads
           /\ [r EXCEPT !.pc = p, !.server = s] \in RequestThreads
BY DEF RequestThreads

\* No other request thread is touched by it, and it stays in its process.
LEMMA RequestMoved ==
    ASSUME NEW f \in [Conns -> RequestThreads], NEW c \in Conns, NEW p \in RequestPcs
    PROVE  /\ [f EXCEPT ![c].pc = p][c].pc = p
           /\ \A d \in Conns : d # c => [f EXCEPT ![c].pc = p][d] = f[d]
           /\ [f EXCEPT ![c].pc = p][c].proc = f[c].proc
BY DEF RequestThreads

\* A request thread that has connected is done; the others are as they were.
LEMMA RequestConnected ==
    ASSUME NEW f \in [Conns -> RequestThreads], NEW c \in Conns,
           NEW s \in Servers \cup {NoServer}, NEW g,
           g = [f EXCEPT ![c].pc = "done", ![c].server = s]
    PROVE  /\ g[c].pc = "done"
           /\ \A d \in Conns : d # c => g[d] = f[d]
BY DEF RequestThreads

\* IInv holds after do_prefork.
LEMMA InitIInv == Init => IInv
<1> SUFFICES ASSUME Init PROVE IInv
    OBVIOUS
<1> USE PoolAssumption DEF Init
<1>1. TypeOK
      BY DEF TypeOK, Fds, Idle, Slots, Workers, RequestThreads, RequestPcs
<1>2. SemaphoreExcludes
      BY DEF SemaphoreExcludes, Freeing, LookingUp, Idle
<1>3. ManagerInv /\ PlacesInv /\ NoDescriptorLeak
      BY DEF ManagerInv, PlacesInv, NoDescriptorLeak, Queued, Slots
<1>4. LinkInv
      BY DEF LinkInv, LinkAt, Given
<1>5. WorkerInv
      BY DEF WorkerInv, Given
<1>6. ServerInv
      BY DEF ServerInv
<1>7. RequestInv
      BY DEF RequestInv, Idle
<1> QED
    BY <1>1, <1>2, <1>3, <1>4, <1>5, <1>6, <1>7 DEF IInv

\* No step takes a variable out of its type.
LEMMA TypeStep == IInv /\ [Next]_vars => TypeOK'
<1> SUFFICES ASSUME IInv, [Next]_vars PROVE TypeOK'
    OBVIOUS
<1> USE PoolAssumption DEF IInv, TypeOK, Fds, mainVars, poolVars, shmVars, procVars
<1>1. CASE UNCHANGED vars
      BY <1>1 DEF vars
<1>2. CASE AddFdToArray
      BY <1>2 DEF AddFdToArray
<1>3. CASE Pool
  <2>1. CASE GetFd
        BY <2>1 DEF GetFd, ClearSlot
  <2>2. CASE PoolSemWait
        BY <2>2 DEF PoolSemWait, SemWait
  <2>3. CASE NoWorkerAvailable
        BY <2>3 DEF NoWorkerAvailable, SemPost, SemaphoreExcludes, Freeing, LookingUp
  <2>4. CASE SelectWorker
        BY <2>4, SMTT(30) DEF SelectWorker, SemPost, SemaphoreExcludes, Freeing, LookingUp, LeastUsed, Ready,
                    SetBusy, StoreServer, Scanned, Workers, ManagerInv
  <2>5. CASE ConnectWorker
        BY <2>5 DEF ConnectWorker, ManagerInv
  <2>6. CASE SendMsg
        BY <2>6 DEF SendMsg, ManagerInv, LinkInv, LinkAt
  <2>7. CASE SendMsgFails
        BY <2>7 DEF SendMsgFails
  <2>8. CASE SendMsgKills
        BY <2>8 DEF SendMsgKills
  <2>9. CASE CloseMainSide
        BY <2>9 DEF CloseMainSide, CloseInMain
  <2> QED
      BY <1>3, <2>1, <2>2, <2>3, <2>4, <2>5, <2>6, <2>7, <2>8, <2>9 DEF Pool
<1>4. ASSUME NEW c \in Conns, AcceptConnection(c) PROVE TypeOK'
      BY <1>4 DEF AcceptConnection
<1>5. ASSUME NEW c \in Conns, Request(c) PROVE TypeOK'
  <2>0. request[c] \in RequestThreads /\ \A p \in RequestPcs :
             [request EXCEPT ![c].pc = p] \in [Conns -> RequestThreads]
        BY RequestMoves
  <2>1. CASE RequestSemWait(c)
        BY <2>0, <2>1 DEF RequestSemWait, SemWait, RequestPcs
  <2>2. CASE RequestSemPost(c)
        BY <2>0, <2>2 DEF RequestSemPost, SemPost, SemaphoreExcludes, LookingUp, RequestPcs
  <2>3. CASE RequestConnect(c)
    <3>1. request[c].proc \in Workers
          BY <2>3 DEF RequestConnect, RequestInv
    <3>2. request' \in [Conns -> RequestThreads]
          BY <2>0, <2>3, <3>1, RequestMoves DEF RequestConnect, RequestPcs
    <3> QED
        BY <2>3, <3>2 DEF RequestConnect
  <2> QED
      BY <1>5, <2>1, <2>2, <2>3 DEF Request
<1>6. ASSUME NEW w \in Workers, Worker(w) PROVE TypeOK'
  <2> USE DEF Step
  <2>1. CASE RemovePath(w) \/ Bind(w) \/ AcceptLink(w) \/ EndServe(w) \/ CloseClient(w) \/ UnlinkPath(w)
        BY <2>1, ZenonT(30) DEF RemovePath, Bind, AcceptLink, EndServe, CloseClient, UnlinkPath
  <2>2. CASE Listen(w)
        BY <2>2 DEF Listen
  <2>3. CASE ReceiveFd(w)
        BY <2>3 DEF ReceiveFd, WorkerInv
  <2>4. CASE StartRequest(w)
        BY <2>4 DEF StartRequest, WorkerInv, RequestThreads, RequestPcs
  <2>5. CASE WorkerSemWait(w)
        BY <2>5 DEF WorkerSemWait, SemWait
  <2>6. CASE FreeWorker(w)
    <3>1. worker_busy' \in [Workers -> {0, 1}]
      <4>1. CASE w \in Scanned
            BY <2>6, <4>1 DEF FreeWorker, ClearBusy
      <4>2. CASE w \notin Scanned
            BY <2>6, <4>2 DEF FreeWorker
      <4> QED
          BY <4>1, <4>2
    <3>2. sem' \in {0, 1}
          BY <2>6 DEF FreeWorker, SemPost, SemaphoreExcludes, Freeing
    <3> QED
        BY <2>6, <3>1, <3>2 DEF FreeWorker
  <2>7. CASE Exit(w)
    <3>1. request' \in [Conns -> RequestThreads]
          BY <2>7, RequestMoves DEF Exit, RequestPcs
    <3>2. /\ sockfd' \in [Workers -> Conns \cup {NoFd}]
          /\ link' \in [Workers -> Seq(Conns \cup {NoFd})]
          /\ path' \in [Workers -> {"absent", "bound", "listening"}]
          BY <2>7 DEF Exit
    <3> QED
        BY <2>7, <3>1, <3>2 DEF Exit
  <2> QED
      BY <1>6, <2>1, <2>2, <2>3, <2>4, <2>5, <2>6, <2>7 DEF Worker, WorkerDies, ReceiveEof
<1> QED
    BY <1>1, <1>2, <1>3, <1>4, <1>5, <1>6 DEF Next

\* A request thread that exists belongs to a worker, and keeps to it.
LEMMA RequestStep == IInv /\ [Next]_vars => RequestInv'
<1> SUFFICES ASSUME IInv, [Next]_vars PROVE RequestInv'
    OBVIOUS
<1> USE DEF IInv, TypeOK, RequestInv, mainVars, poolVars, shmVars, procVars
<1>1. CASE UNCHANGED request
      BY <1>1
<1>2. ASSUME NEW c \in Conns, Request(c) PROVE RequestInv'
  <2>1. request[c].proc \in Workers
        BY <1>2 DEF Request, RequestSemWait, RequestSemPost, RequestConnect
  <2>2. CASE RequestSemWait(c)
        BY <2>1, <2>2, RequestMoved DEF RequestSemWait, RequestPcs
  <2>3. CASE RequestSemPost(c)
        BY <2>1, <2>3, RequestMoved DEF RequestSemPost, RequestPcs
  <2>4. CASE RequestConnect(c)
        BY <2>1, <2>4, RequestConnected DEF RequestConnect, RequestPcs
  <2> QED
      BY <1>2, <2>2, <2>3, <2>4 DEF Request
<1>3. ASSUME NEW w \in Workers, StartRequest(w) PROVE RequestInv'
      BY <1>3 DEF StartRequest
<1>4. ASSUME NEW w \in Workers, Exit(w) PROVE RequestInv'
      BY <1>4 DEF Exit, RequestThreads
<1> QED
    BY <1>1, <1>2, <1>3, <1>4
    DEF Next, vars, AddFdToArray, AcceptConnection, Pool, GetFd, PoolSemWait, NoWorkerAvailable,
        SelectWorker, ConnectWorker, SendMsg, SendMsgFails, SendMsgKills, CloseMainSide, Worker,
        RemovePath, Bind, Listen, AcceptLink, ReceiveFd, EndServe, CloseClient, UnlinkPath,
        WorkerSemWait, FreeWorker, WorkerDies, ReceiveEof

\* Only sem_wait takes a thread inside, when no other is.
LEMMA SemStep == IInv /\ [Next]_vars => SemaphoreExcludes'
<1> SUFFICES ASSUME IInv, [Next]_vars PROVE SemaphoreExcludes'
    OBVIOUS
<1> USE DEF IInv, TypeOK, SemaphoreExcludes, Freeing, LookingUp, mainVars, poolVars, shmVars, procVars
<1>1. CASE UNCHANGED <<dpc, sem, wpc, request>>
      BY <1>1
<1>2. CASE Pool
  <2>1. CASE PoolSemWait
        BY <2>1 DEF PoolSemWait, SemWait
  <2>2. CASE NoWorkerAvailable
        BY <2>2 DEF NoWorkerAvailable, SemPost
  <2>4. CASE SelectWorker
        BY <2>4 DEF SelectWorker, SemPost
  <2>3. CASE GetFd \/ ConnectWorker \/ SendMsg \/ SendMsgFails \/ SendMsgKills \/ CloseMainSide
        BY <2>3 DEF GetFd, ConnectWorker, SendMsg, SendMsgFails, SendMsgKills, CloseMainSide
  <2> QED
      BY <1>2, <2>1, <2>2, <2>3, <2>4 DEF Pool
<1>3. ASSUME NEW c \in Conns, Request(c) PROVE SemaphoreExcludes'
  <2>1. CASE RequestSemWait(c)
    <3>1. \A d \in Conns : d # c => request'[d].pc = request[d].pc
          BY <2>1, RequestMoved DEF RequestSemWait, RequestPcs
    <3> QED
        BY <2>1, <3>1 DEF RequestSemWait, SemWait
  <2>2. CASE RequestSemPost(c)
    <3>1. request'[c].pc = "remote" /\ \A d \in Conns : d # c => request'[d].pc = request[d].pc
          BY <2>2, RequestMoved DEF RequestSemPost, RequestPcs
    <3> QED
        BY <2>2, <3>1 DEF RequestSemPost, SemPost
  <2>3. CASE RequestConnect(c)
    <3>1. worker_server[request[c].proc] \in Servers \cup {NoServer}
          BY <2>3 DEF RequestConnect, RequestInv
    <3>2. request'[c].pc = "done" /\ \A d \in Conns : d # c => request'[d].pc = request[d].pc
          BY <2>3, <3>1, RequestConnected DEF RequestConnect
    <3> QED
        BY <2>3, <3>2 DEF RequestConnect
  <2> QED
      BY <1>3, <2>1, <2>2, <2>3 DEF Request
<1>4. ASSUME NEW w \in Workers, Worker(w) PROVE SemaphoreExcludes'
  <2> USE DEF Step
  <2>1. CASE WorkerSemWait(w)
        BY <2>1 DEF WorkerSemWait, SemWait
  <2>2. CASE FreeWorker(w)
        BY <2>2 DEF FreeWorker, SemPost
  <2>3. CASE StartRequest(w)
        BY <2>3 DEF StartRequest
  <2>4. CASE Exit(w)
    <3>1. \A c \in Conns : request'[c].pc = "lookup" => request[c].pc = "lookup"
          BY <2>4 DEF Exit, RequestThreads
    <3> QED
        BY <2>4, <3>1 DEF Exit
  <2>5. CASE \/ RemovePath(w) \/ Bind(w) \/ Listen(w) \/ AcceptLink(w) \/ ReceiveFd(w)
             \/ EndServe(w) \/ CloseClient(w) \/ UnlinkPath(w)
    <3>1. /\ UNCHANGED <<dpc, sem, request>>
          /\ \A v \in Workers : wpc'[v] = "free" => wpc[v] = "free"
          BY <2>5 DEF RemovePath, Bind, Listen, AcceptLink, ReceiveFd, EndServe, CloseClient,
                      UnlinkPath
    <3> QED
        BY <3>1
  <2> QED
      BY <1>4, <2>1, <2>2, <2>3, <2>4, <2>5 DEF Worker, WorkerDies, ReceiveEof
<1> QED
    BY <1>1, <1>2, <1>3, <1>4 DEF Next, vars, AddFdToArray, AcceptConnection

\* The manager has a connection in hand, and a worker for it, just when its place
\* in the loop says so.
LEMMA ManagerStep == IInv /\ [Next]_vars => ManagerInv'
<1> SUFFICES ASSUME IInv, [Next]_vars PROVE ManagerInv'
    OBVIOUS
<1> USE PoolAssumption DEF IInv, TypeOK, ManagerInv, Fds, mainVars, poolVars, shmVars, procVars
<1>1. CASE UNCHANGED <<dpc, fd, position, new_sockfd, fd_array>>
      BY <1>1
<1>2. CASE AddFdToArray
      BY <1>2 DEF AddFdToArray
<1>3. CASE GetFd
      BY <1>3 DEF GetFd, ClearSlot
<1>4. CASE SelectWorker
      BY <1>4 DEF SelectWorker, LeastUsed, Ready, Scanned, Workers
<1>5. CASE \/ PoolSemWait \/ NoWorkerAvailable \/ ConnectWorker \/ SendMsg
           \/ SendMsgFails \/ SendMsgKills \/ CloseMainSide
      BY <1>5 DEF PoolSemWait, NoWorkerAvailable, ConnectWorker, SendMsg, SendMsgFails,
                  SendMsgKills, CloseMainSide
<1>6. ASSUME NEW c \in Conns, AcceptConnection(c) PROVE ManagerInv'
      BY <1>6 DEF AcceptConnection
<1> QED
    BY <1>1, <1>2, <1>3, <1>4, <1>5, <1>6
    DEF Next, vars, Pool, Request, RequestSemWait, RequestSemPost, RequestConnect, Worker,
        RemovePath, Bind, Listen, AcceptLink, ReceiveFd, StartRequest, EndServe, CloseClient,
        UnlinkPath, WorkerSemWait, FreeWorker, WorkerDies, ReceiveEof, Exit

\* A connection is in at most one place in the main process, which holds its
\* descriptor just while it is in one.
LEMMA PlacesStep == IInv /\ [Next]_vars => PlacesInv' /\ NoDescriptorLeak'
<1> SUFFICES ASSUME IInv, [Next]_vars PROVE PlacesInv' /\ NoDescriptorLeak'
    OBVIOUS
<1> USE PoolAssumption DEF IInv, TypeOK, ManagerInv, PlacesInv, NoDescriptorLeak, Queued, Fds,
                           mainVars, poolVars, shmVars, procVars
<1>1. CASE UNCHANGED <<pending, new_sockfd, main_fds, fd_array, fd>>
      BY <1>1
<1>2. CASE AddFdToArray
      BY <1>2 DEF AddFdToArray
<1>3. CASE GetFd
      BY <1>3 DEF GetFd, ClearSlot
<1>4. CASE CloseMainSide
      BY <1>4 DEF CloseMainSide, CloseInMain
<1>5. CASE SendMsgKills
      BY <1>5 DEF SendMsgKills
<1>6. ASSUME NEW c \in Conns, AcceptConnection(c) PROVE PlacesInv' /\ NoDescriptorLeak'
      BY <1>6 DEF AcceptConnection
<1> QED
    BY <1>1, <1>2, <1>3, <1>4, <1>5, <1>6
    DEF Next, vars, Pool, PoolSemWait, NoWorkerAvailable, SelectWorker, ConnectWorker, SendMsg,
        SendMsgFails, Request, RequestSemWait, RequestSemPost, RequestConnect, Worker,
        RemovePath, Bind, Listen, AcceptLink, ReceiveFd, StartRequest, EndServe, CloseClient,
        UnlinkPath, WorkerSemWait, FreeWorker, WorkerDies, ReceiveEof, Exit

\* The connections that a connect, a sendmsg and a recvmsg leave at a listening
\* socket.
LEMMA LinkAppend ==
    ASSUME NEW q \in Seq(Fds)
    PROVE  /\ Append(q, NoFd) \in Seq(Fds)
           /\ Append(q, NoFd) # <<>>
           /\ (\A k \in DOMAIN q : q[k] = NoFd)
                => \A k \in DOMAIN Append(q, NoFd) : Append(q, NoFd)[k] = NoFd
<1>1. NoFd \in Fds
      BY DEF Fds
<1> DEFINE r == Append(q, NoFd)
<1>2. /\ r \in Seq(Fds) /\ r # <<>> /\ Len(r) = Len(q) + 1
      /\ \A k \in 1 .. Len(q) : r[k] = q[k]
      /\ r[Len(q) + 1] = NoFd
      BY <1>1, AppendProperties
<1> HIDE DEF r
<1>3. DOMAIN r = 1 .. Len(q) + 1 /\ DOMAIN q = 1 .. Len(q) /\ Len(q) \in Nat
      BY <1>2
<1>4. (\A k \in DOMAIN q : q[k] = NoFd) => \A k \in DOMAIN r : r[k] = NoFd
      BY <1>2, <1>3
<1> QED
    BY <1>2, <1>4 DEF r

\* recvmsg takes the oldest connection: the others keep their order.
LEMMA LinkHead ==
    ASSUME NEW q \in Seq(Fds), q # <<>>
    PROVE  /\ Len(q) \in DOMAIN q /\ 1 \in DOMAIN q
           /\ Head(q) = q[1]
           /\ Len(q) = 1 => Tail(q) = <<>>
<1>1. Len(q) \in Nat /\ Len(q) # 0 /\ DOMAIN q = 1 .. Len(q)
      OBVIOUS
<1>2. Head(q) = q[1]
      BY <1>1
<1>3. Len(q) = 1 => Tail(q) = <<>>
  <2>1. Tail(q) \in Seq(Fds) /\ Len(Tail(q)) = Len(q) - 1
        BY HeadTailProperties
  <2>2. Len(q) = 1 => Len(Tail(q)) = 0
        BY <2>1
  <2> QED
      BY <2>1, <2>2, EmptySeq
<1> QED
    BY <1>1, <1>2, <1>3

\* sendmsg fills the last connection and leaves the others alone.
LEMMA LinkFill ==
    ASSUME NEW q \in Seq(Fds), q # <<>>, NEW x \in Fds, NEW r, r = [q EXCEPT ![Len(q)] = x]
    PROVE  /\ r # <<>> /\ DOMAIN r = DOMAIN q /\ Len(r) = Len(q)
           /\ r[Len(q)] = x
           /\ \A k \in DOMAIN q : k # Len(q) => r[k] = q[k]
<1>1. Len(q) \in Nat /\ Len(q) # 0 /\ DOMAIN q = 1 .. Len(q)
      OBVIOUS
<1>2. r \in Seq(Fds)
      BY <1>1
<1>3. DOMAIN r = DOMAIN q /\ Len(r) = Len(q)
      BY <1>1, <1>2
<1>4. r[Len(q)] = x /\ \A k \in DOMAIN q : k # Len(q) => r[k] = q[k]
      BY <1>1
<1> QED
    BY <1>1, <1>2, <1>3, <1>4

\* The descriptors in flight to a worker stay consistent with what it is doing.
LEMMA LinkStep == IInv /\ [Next]_vars => LinkInv'
<1> SUFFICES ASSUME IInv, [Next]_vars PROVE LinkInv'
    OBVIOUS
<1> USE PoolAssumption DEF IInv, TypeOK, ManagerInv, LinkInv, LinkAt, Given, Queued,
                           mainVars, poolVars, shmVars, procVars
<1>1. CASE UNCHANGED <<pending, new_sockfd, fd_array, dpc, fd, position, worker_server, wpc, link,
                       scheduled>>
      BY <1>1
<1>2. CASE AddFdToArray
      BY <1>2 DEF AddFdToArray, PlacesInv
<1>3. ASSUME NEW c \in Conns, AcceptConnection(c) PROVE LinkInv'
      BY <1>3 DEF AcceptConnection
<1>4. CASE Pool
  <2>1. CASE GetFd
        BY <2>1 DEF GetFd, ClearSlot
  <2>2. CASE PoolSemWait \/ NoWorkerAvailable \/ SendMsgFails
        BY <2>2 DEF PoolSemWait, NoWorkerAvailable, SendMsgFails
  <2>3. CASE SelectWorker
    <3>1. PICK w \in LeastUsed, s \in Servers :
            /\ position' = w
            /\ worker_server' = [worker_server EXCEPT ![w] = s]
            /\ scheduled' = [scheduled EXCEPT ![fd] = s]
          BY <2>3 DEF SelectWorker, StoreServer
    <3>2. w \in Workers /\ link[w] = <<>>
          BY DEF LeastUsed, Ready, Scanned, Workers, WorkerInv
    <3> QED
        BY <2>3, <3>1, <3>2 DEF SelectWorker
  <2>4. CASE ConnectWorker
    <3> DEFINE r == Append(link[position], NoFd)
    <3>1. position \in Workers /\ link[position] \in Seq(Fds)
          BY <2>4 DEF ConnectWorker
    <3>2. \A k \in DOMAIN link[position] : link[position][k] = NoFd
          BY <2>4, <3>1 DEF ConnectWorker
    <3>5. r \in Seq(Fds) /\ r # <<>> /\ \A k \in DOMAIN r : r[k] = NoFd
          BY <3>1, <3>2, LinkAppend
    <3>3. r[1] = NoFd
          BY <3>5, LinkHead
    <3>4. link' = [link EXCEPT ![position] = r]
          BY <2>4 DEF ConnectWorker
    <3> HIDE DEF r
    <3> QED
      <4>1. /\ UNCHANGED <<pending, new_sockfd, fd_array, fd, position, worker_server, scheduled, wpc>>
            /\ dpc = "connect" /\ dpc' = "sendmsg"
            BY <2>4 DEF ConnectWorker
      <4>2. link'[position] = r /\ \A w \in Workers : w # position => link'[w] = link[w]
            BY <3>1, <3>4
      <4>3. ASSUME NEW w \in Workers, w # position PROVE LinkAt(w)'
            BY <4>1, <4>2, <4>3
      <4>4. LinkAt(position)'
            BY <3>3, <3>5, <4>1, <4>2
      <4> QED
          BY <3>1, <4>1, <4>3, <4>4
  <2>5. CASE SendMsg
    <3>1. position \in Workers /\ link[position] # <<>> /\ fd \in Conns
          BY <2>5 DEF SendMsg, Fds
    <3>2. fd \notin pending /\ ~Queued(fd) /\ worker_server[position] = scheduled[fd]
          BY <2>5, <3>1 DEF SendMsg, PlacesInv, NoDescriptorLeak, ServerInv
    <3> DEFINE q == link[position]
               r == [q EXCEPT ![Len(q)] = fd]
    <3>3. link' = [link EXCEPT ![position] = r]
          BY <2>5 DEF SendMsg
    <3>4. /\ DOMAIN r = DOMAIN q /\ Len(r) = Len(q) /\ r # <<>>
          /\ r[Len(q)] = fd /\ \A k \in DOMAIN q : k # Len(q) => r[k] = q[k]
          BY <3>1, LinkFill DEF Fds
    <3>5. \A k \in DOMAIN q : q[k] = NoFd
          BY <2>5 DEF SendMsg
    <3>6. r[1] # NoFd => Len(r) = 1
          BY <3>1, <3>4, <3>5, LinkHead
    <3> HIDE DEF r
    <3> QED
        BY <2>5, <3>1, <3>2, <3>3, <3>4, <3>5, <3>6 DEF SendMsg
  <2>6. CASE SendMsgKills
        BY <2>6 DEF SendMsgKills
  <2>7. CASE CloseMainSide
        BY <2>7 DEF CloseMainSide
  <2> QED
      BY <1>4, <2>1, <2>2, <2>3, <2>4, <2>5, <2>6, <2>7 DEF Pool
<1>5. ASSUME NEW w \in Workers, Worker(w) PROVE LinkInv'
  <2> USE DEF Step
  <2>1. CASE Listen(w)
    <3>1. link[w] = <<>> /\ link' = link
          BY <2>1, ZenonT(30) DEF Listen, WorkerInv
    <3>2. \A v \in Workers : wpc'[v] # "dead" => wpc[v] # "dead"
          BY <2>1 DEF Listen
    <3> QED
        BY <2>1, <3>1, <3>2 DEF Listen
  <2>2. CASE ReceiveFd(w)
    <3>1. link[w] # <<>> /\ link[w][1] # NoFd /\ Len(link[w]) = 1
          BY <2>2, LinkHead DEF ReceiveFd, WorkerInv
    <3>2. link' = [link EXCEPT ![w] = <<>>] /\ ~Given(w)
          BY <2>2, <3>1, LinkHead DEF ReceiveFd
    <3> QED
        BY <2>2, <3>2 DEF ReceiveFd
  <2>3. CASE Exit(w)
        BY <2>3 DEF Exit
  <2>4. CASE \/ RemovePath(w) \/ Bind(w) \/ AcceptLink(w) \/ EndServe(w) \/ CloseClient(w)
             \/ UnlinkPath(w) \/ WorkerSemWait(w) \/ FreeWorker(w) \/ StartRequest(w)
    <3>1. /\ UNCHANGED <<pending, new_sockfd, fd_array, dpc, fd, position, worker_server, link,
                         scheduled>>
          /\ \A v \in Workers : wpc'[v] # "dead" => wpc[v] # "dead"
          BY <2>4 DEF RemovePath, Bind, AcceptLink, EndServe, CloseClient, UnlinkPath,
                      WorkerSemWait, FreeWorker, StartRequest
    <3> QED
        BY <3>1
  <2> QED
      BY <1>5, <2>1, <2>2, <2>3, <2>4 DEF Worker, WorkerDies, ReceiveEof
<1> QED
    BY <1>1, <1>2, <1>3, <1>4, <1>5
    DEF Next, vars, Request, RequestSemWait, RequestSemPost, RequestConnect

\* A worker is chosen only when nothing of its last connection is left.
LEMMA WorkerStep == IInv /\ [Next]_vars => WorkerInv'
<1> SUFFICES ASSUME IInv, [Next]_vars PROVE WorkerInv'
    OBVIOUS
<1> USE PoolAssumption DEF IInv, TypeOK, WorkerInv, Given, mainVars, poolVars, shmVars, procVars
<1>1. CASE UNCHANGED <<dpc, position, worker_busy, wpc, path, link, sockfd>>
      BY <1>1
<1>2. CASE Pool
  <2>1. CASE GetFd \/ PoolSemWait \/ NoWorkerAvailable \/ SendMsgKills \/ CloseMainSide
    <3>1. /\ UNCHANGED <<worker_busy, wpc, path, link, sockfd>>
          /\ dpc' \notin {"connect", "sendmsg"}
          BY <2>1 DEF GetFd, PoolSemWait, NoWorkerAvailable, SendMsgKills, CloseMainSide
    <3> QED
        BY <3>1
  <2>2. CASE SelectWorker
    <3>1. PICK w \in LeastUsed :
            /\ position' = w
            /\ worker_busy' = [worker_busy EXCEPT ![w] = 1]
          BY <2>2 DEF SelectWorker, SetBusy
    <3>2. w \in Workers /\ worker_busy[w] = 0
          BY DEF LeastUsed, Ready, Scanned, Workers
    <3> QED
        BY <2>2, <3>1, <3>2 DEF SelectWorker
  <2>3. CASE ConnectWorker
    <3>1. position \in Workers /\ wpc[position] \in {"accept", "recv"}
          BY <2>3 DEF ConnectWorker, ManagerInv
    <3>2. \A v \in Workers : v # position => link'[v] = link[v]
          BY <2>3 DEF ConnectWorker
    <3>3. link'[position] # <<>>
      <4>1. link[position] \in Seq(Fds) /\ link'[position] = Append(link[position], NoFd)
            BY <2>3, <3>1 DEF ConnectWorker
      <4> QED
          BY <4>1, LinkAppend
    <3> QED
        BY <2>3, <3>1, <3>2, <3>3 DEF ConnectWorker
  <2>4. CASE SendMsg
    <3>1. position \in Workers /\ link[position] # <<>> /\ fd \in Fds
          BY <2>4 DEF SendMsg, ManagerInv, LinkInv, LinkAt
    <3>2. \A v \in Workers : link'[v] = <<>> <=> link[v] = <<>>
          BY <2>4, <3>1, LinkFill DEF SendMsg
    <3> QED
        BY <2>4, <3>1, <3>2 DEF SendMsg
  <2>5. CASE SendMsgFails
        BY <2>5 DEF SendMsgFails
  <2> QED
      BY <1>2, <2>1, <2>2, <2>3, <2>4, <2>5 DEF Pool
<1>3. ASSUME NEW w \in Workers, Worker(w) PROVE WorkerInv'
  <2> USE DEF Step
  <2>1. CASE RemovePath(w) \/ Bind(w)
        BY <2>1 DEF RemovePath, Bind
  <2>9. CASE EndServe(w)
        BY <2>9 DEF EndServe
  <2>10. CASE UnlinkPath(w)
        BY <2>10 DEF UnlinkPath
  <2>11. CASE WorkerSemWait(w)
        BY <2>11 DEF WorkerSemWait
  <2>2. CASE Listen(w)
        BY <2>2 DEF Listen
  <2>3. CASE AcceptLink(w)
        BY <2>3 DEF AcceptLink
  <2>4. CASE ReceiveFd(w)
    <3>1. link[w] # <<>> /\ link[w][1] # NoFd /\ Len(link[w]) = 1
          BY <2>4, LinkHead DEF ReceiveFd, LinkInv, LinkAt
    <3>2. 1 \in DOMAIN link[w] /\ Head(link[w]) = link[w][1]
          BY <3>1, LinkHead
    <3>3. link' = [link EXCEPT ![w] = <<>>]
          BY <2>4, <3>1, LinkHead DEF ReceiveFd
    <3>4. ~Given(w)
          BY <3>1, <3>2 DEF LinkInv, LinkAt
    <3> QED
        BY <2>4, <3>1, <3>2, <3>3, <3>4 DEF ReceiveFd
  <2>5. CASE StartRequest(w)
        BY <2>5 DEF StartRequest
  <2>6. CASE CloseClient(w)
        BY <2>6 DEF CloseClient
  <2>7. CASE FreeWorker(w)
    <3>1. \A v \in Workers : v # w => worker_busy'[v] = worker_busy[v]
      <4>1. CASE w \in Scanned
            BY <2>7, <4>1 DEF FreeWorker, ClearBusy
      <4>2. CASE w \notin Scanned
            BY <2>7, <4>2 DEF FreeWorker
      <4> QED
          BY <4>1, <4>2
    <3>2. /\ wpc[w] = "free" /\ wpc' = [wpc EXCEPT ![w] = "remove"]
          /\ UNCHANGED <<dpc, position, path, link, sockfd>>
          BY <2>7 DEF FreeWorker
    <3> QED
        BY <3>1, <3>2
  <2>8. CASE Exit(w)
        BY <2>8 DEF Exit
  <2> QED
      BY <1>3, <2>1, <2>2, <2>3, <2>4, <2>5, <2>6, <2>7, <2>8, <2>9, <2>10, <2>11 DEF Worker, WorkerDies, ReceiveEof
<1> QED
    BY <1>1, <1>2, <1>3
    DEF Next, vars, AddFdToArray, AcceptConnection, Request, RequestSemWait, RequestSemPost,
        RequestConnect

\* From the selection to the close, no other connection is scheduled on a worker.
LEMMA ServerStep == IInv /\ [Next]_vars => ServerInv'
<1> SUFFICES ASSUME IInv, [Next]_vars PROVE ServerInv'
    OBVIOUS
<1> USE PoolAssumption DEF IInv, TypeOK, ServerInv, Queued, mainVars, poolVars, shmVars, procVars
<1>1. CASE UNCHANGED <<pending, new_sockfd, fd_array, dpc, fd, position, worker_server, sockfd,
                       scheduled>>
      BY <1>1
<1>2. CASE AddFdToArray
      BY <1>2 DEF AddFdToArray
<1>3. ASSUME NEW c \in Conns, AcceptConnection(c) PROVE ServerInv'
      BY <1>3 DEF AcceptConnection
<1>4. CASE Pool
  <2>1. CASE GetFd
        BY <2>1 DEF GetFd, ClearSlot
  <2>2. CASE PoolSemWait \/ NoWorkerAvailable
        BY <2>2 DEF PoolSemWait, NoWorkerAvailable
  <2>3. CASE SelectWorker
    <3>1. PICK w \in LeastUsed, s \in Servers :
            /\ position' = w
            /\ worker_server' = [worker_server EXCEPT ![w] = s]
            /\ scheduled' = [scheduled EXCEPT ![fd] = s]
          BY <2>3 DEF SelectWorker, StoreServer
    <3>2. w \in Workers /\ sockfd[w] = NoFd
      <4>1. w \in Workers /\ worker_busy[w] = 0
            BY DEF LeastUsed, Ready, Scanned, Workers
      <4> QED
          BY <4>1 DEF WorkerInv
    <3>3. fd \in Conns
          BY <2>3 DEF SelectWorker, ManagerInv, Fds
    <3> QED
        BY <2>3, <3>1, <3>2, <3>3 DEF SelectWorker
  <2>4. CASE ConnectWorker \/ SendMsg \/ SendMsgFails
        BY <2>4 DEF ConnectWorker, SendMsg, SendMsgFails
  <2>5. CASE SendMsgKills
        BY <2>5 DEF SendMsgKills
  <2>6. CASE CloseMainSide
        BY <2>6 DEF CloseMainSide
  <2> QED
      BY <1>4, <2>1, <2>2, <2>3, <2>4, <2>5, <2>6 DEF Pool
<1>5. ASSUME NEW w \in Workers, Worker(w) PROVE ServerInv'
  <2> USE DEF Step
  <2>1. CASE ReceiveFd(w)
    <3>1. 1 \in DOMAIN link[w] /\ Head(link[w]) = link[w][1] /\ link[w][1] # NoFd
          BY <2>1, LinkHead DEF ReceiveFd, WorkerInv
    <3> DEFINE c == link[w][1]
    <3>2. /\ c \notin pending /\ ~Queued(c)
          /\ c = fd => dpc = "close"
          /\ worker_server[w] = scheduled[c]
          BY <3>1 DEF LinkInv, LinkAt
    <3>3. sockfd' = [sockfd EXCEPT ![w] = c]
          BY <2>1, <3>1 DEF ReceiveFd
    <3> HIDE DEF c
    <3> QED
        BY <2>1, <3>2, <3>3 DEF ReceiveFd
  <2>2. CASE CloseClient(w)
        BY <2>2 DEF CloseClient
  <2>3. CASE Exit(w)
        BY <2>3 DEF Exit
  <2>4. CASE \/ RemovePath(w) \/ Bind(w) \/ Listen(w) \/ AcceptLink(w) \/ StartRequest(w)
             \/ EndServe(w) \/ UnlinkPath(w) \/ WorkerSemWait(w) \/ FreeWorker(w)
        BY <1>1, <2>4 DEF RemovePath, Bind, Listen, AcceptLink, StartRequest, EndServe, UnlinkPath,
                          WorkerSemWait, FreeWorker
  <2> QED
      BY <1>5, <2>1, <2>2, <2>3, <2>4 DEF Worker, WorkerDies, ReceiveEof
<1> QED
    BY <1>1, <1>2, <1>3, <1>4, <1>5
    DEF Next, vars, Request, RequestSemWait, RequestSemPost, RequestConnect
-----------------------------------------------------------------------------
\* IInv is inductive.
LEMMA Inductive == IInv /\ [Next]_vars => IInv'
BY TypeStep, SemStep, ManagerStep, PlacesStep, LinkStep, WorkerStep, ServerStep, RequestStep
DEF IInv

\* Every reachable state satisfies IInv.
LEMMA Invariance == Spec => []IInv
BY InitIInv, Inductive, PTL DEF Spec
-----------------------------------------------------------------------------
\* Every variable keeps its type; above all the semaphore is never posted above 1
\* and a link is only ever a sequence of descriptors.
THEOREM TypeCorrect == Spec => []TypeOK
<1>1. IInv => TypeOK
      BY DEF IInv
<1> QED
    BY <1>1, Invariance, PTL

\* One thread of all the processes at a time is between sem_wait and sem_post,
\* although processes die inside.
THEOREM Exclusion == Spec => []SemaphoreExcludes
<1>1. IInv => SemaphoreExcludes
      BY DEF IInv
<1> QED
    BY <1>1, Invariance, PTL

\* The main process neither leaks a client descriptor nor closes one too early.
THEOREM DescriptorsKept == Spec => []NoDescriptorLeak
<1>1. IInv => NoDescriptorLeak
      BY DEF IInv
<1> QED
    BY <1>1, Invariance, PTL

\* A live worker that the manager may pick has nothing of its last connection left.
THEOREM FreeWorkersClean == Spec => []FreeWorkerIsClean
<1>1. IInv => FreeWorkerIsClean
  <2> SUFFICES ASSUME IInv, NEW w \in Scanned, worker_busy[w] = 0
               PROVE  ~Engaged(w) /\ (path[w] = "listening" => wpc[w] = "accept")
      BY DEF FreeWorkerIsClean
  <2>1. w \in Workers
        BY PoolAssumption DEF Scanned, Workers
  <2>2. wpc[w] \in {"remove", "bind", "listen", "accept", "dead"} /\ link[w] = <<>> /\ ~Given(w)
        BY <2>1 DEF IInv, WorkerInv
  <2>3. sockfd[w] = NoFd
        BY <2>1, <2>2 DEF IInv, WorkerInv
  <2>4. path[w] = "listening" => wpc[w] = "accept"
        BY <2>1, <2>2 DEF IInv, WorkerInv
  <2> QED
      BY <2>2, <2>3, <2>4 DEF Engaged, Given
<1> QED
    BY <1>1, Invariance, PTL

\* send_fd never connects to the listener of an earlier connection first.
THEOREM FreshListener == Spec => []HandoverToFreshListener
<1>1. IInv => HandoverToFreshListener
      BY DEF IInv, WorkerInv, Given, HandoverToFreshListener
<1> QED
    BY <1>1, Invariance, PTL

\* While a worker serves a connection its entry of worker_server stays that of the
\* connection.
THEOREM ServedByScheduled == Spec => []ServedByItsServer
<1>1. IInv => ServedByItsServer
      BY DEF IInv, ServerInv, ServedByItsServer
<1> QED
    BY <1>1, Invariance, PTL
-----------------------------------------------------------------------------
(* The pool implements Dispatch.  A connection is in one stage at a time,  *)
(* with one owner at most (SingleOwner); then each step of the pool either *)
(* leaves every connection where it shows (Same), or is the step of        *)
(* Dispatch of the same meaning.                                           *)

Waits(c)     == Queued(c) \/ InHand(c)
Handed(c, w) == Offered(c, w) \/ InFlight(c, w)
OwnerAt(c)   == IF OwnerOf(c) = {} THEN -1 ELSE CHOOSE w \in OwnerOf(c) : TRUE

\* A connection is with one worker at most.
SingleOwner == \A c \in Conns : \A v, w \in OwnerOf(c) : v = w

\* Where a connection is, is what its stage and its owner say.
Told(c) ==
    /\ StageOf(c) = "pending" <=> c \in pending
    /\ StageOf(c) = "waiting" <=> Waits(c)
    /\ StageOf(c) = "served"  <=> \E w \in Workers : sockfd[w] = c
    /\ StageOf(c) = "given"   <=> \E w \in Workers : Handed(c, w)
    /\ StageOf(c) \in {"pending", "waiting", "given", "served", "closed"}
    /\ StageOf(c) \in {"given", "served"} <=> OwnerOf(c) # {}
    /\ \A w \in OwnerOf(c) : OwnerAt(c) = w
    /\ OwnerOf(c) = {} => OwnerAt(c) = -1

\* A step that leaves a connection in its place.
Same(c) ==
    /\ c \in pending' <=> c \in pending
    /\ Waits(c)' <=> Waits(c)
    /\ \A w \in Workers : /\ Handed(c, w)' <=> Handed(c, w)
                          /\ sockfd'[w] = c <=> sockfd[w] = c

LEMMA StagesTell == IInv /\ SingleOwner => \A c \in Conns : Told(c)
<1> SUFFICES ASSUME IInv, SingleOwner, NEW c \in Conns PROVE Told(c)
    OBVIOUS
<1> USE PoolAssumption DEF IInv
<1>1. c \in pending => ~Waits(c) /\ \A w \in Workers : ~Handed(c, w) /\ sockfd[w] # c
      BY DEF Waits, Handed, Offered, InFlight, InHand, PlacesInv, NoDescriptorLeak, LinkInv, LinkAt,
             ServerInv
<1>2. Waits(c) => \A w \in Workers : ~Handed(c, w) /\ sockfd[w] # c
      BY DEF Waits, Handed, Offered, InFlight, InHand, PlacesInv, Queued, LinkInv, LinkAt, ServerInv
<1>3. ASSUME NEW v \in Workers, NEW w \in Workers, sockfd[v] = c, Handed(c, w) PROVE FALSE
  <2>1. v = w
        BY <1>3 DEF SingleOwner, OwnerOf, Handed
  <2>2. ~Offered(c, w)
        BY <1>3 DEF Offered, ServerInv
  <2>3. link[w] # <<>>
        BY <1>3, <2>2 DEF Handed, InFlight
  <2> QED
      BY <1>3, <2>1, <2>3 DEF WorkerInv
<1>4. OwnerOf(c) = {w \in Workers : Handed(c, w) \/ sockfd[w] = c}
      BY DEF OwnerOf, Handed
<1>5. \A w \in OwnerOf(c) : OwnerAt(c) = w
      BY DEF SingleOwner, OwnerAt
<1>6. OwnerOf(c) = {} => OwnerAt(c) = -1
      BY DEF OwnerAt
<1> HIDE DEF IInv
<1> QED
    BY <1>1, <1>2, <1>3, <1>4, <1>5, <1>6 DEF Told, StageOf, Waits, Handed

LEMMA SameStage ==
    ASSUME NEW c \in Conns, Same(c)
    PROVE  StageOf(c)' = StageOf(c) /\ OwnerOf(c)' = OwnerOf(c) /\ OwnerAt(c)' = OwnerAt(c)
<1>1. OwnerOf(c)' = OwnerOf(c)
      BY DEF Same, OwnerOf, Handed
<1>2. StageOf(c)' = StageOf(c)
      BY DEF Same, StageOf, Waits, Handed
<1> QED
    BY <1>1, <1>2 DEF OwnerAt

\* A step that Dispatch does not see.
Unseen ==
    /\ \A c \in Conns : Same(c)
    /\ Dead' = Dead
    /\ dpc' = "killed" <=> dpc = "killed"

LEMMA MainUnseen == IInv /\ (AddFdToArray \/ GetFd) => Unseen
<1>0. AddFdToArray \/ GetFd => Dead' = Dead /\ (dpc' = "killed" <=> dpc = "killed")
      BY DEF AddFdToArray, GetFd, Dead, poolVars, procVars
<1> SUFFICES ASSUME IInv, NEW c \in Conns, AddFdToArray \/ GetFd PROVE Same(c)
    BY <1>0 DEF Unseen
<1> USE PoolAssumption DEF IInv, TypeOK, ManagerInv, Fds, poolVars, shmVars, procVars, mainVars,
                           Same, Waits, Handed, Queued, InHand, Offered, InFlight, Dead
<1>1. CASE AddFdToArray
      BY <1>1 DEF AddFdToArray
<1>2. CASE GetFd
      BY <1>2 DEF GetFd, ClearSlot
<1> QED
    BY <1>1, <1>2

LEMMA ManagerUnseen ==
    IInv /\ (\/ PoolSemWait \/ NoWorkerAvailable \/ ConnectWorker \/ SendMsg \/ SendMsgFails
             \/ CloseMainSide) => Unseen
<1> DEFINE A == \/ PoolSemWait \/ NoWorkerAvailable \/ ConnectWorker \/ SendMsg
                \/ SendMsgFails \/ CloseMainSide
<1>0. A => Dead' = Dead /\ (dpc' = "killed" <=> dpc = "killed")
      BY DEF PoolSemWait, NoWorkerAvailable, ConnectWorker, SendMsg, SendMsgFails, CloseMainSide, Dead,
             procVars
<1> SUFFICES ASSUME IInv, NEW c \in Conns, A PROVE Same(c)
    BY <1>0 DEF Unseen
<1> USE PoolAssumption DEF IInv, TypeOK, ManagerInv, Fds, poolVars, shmVars, procVars, mainVars,
                           Same, Waits, Handed, Queued, InHand, Offered, InFlight, Dead
<1>1. CASE PoolSemWait \/ NoWorkerAvailable \/ SendMsgFails \/ CloseMainSide
      BY <1>1 DEF PoolSemWait, NoWorkerAvailable, SendMsgFails, CloseMainSide
<1>2. CASE ConnectWorker
  <2> DEFINE q == link[position]
             r == Append(q, NoFd)
  <2>1. position \in Workers /\ q \in Seq(Fds)
        BY <1>2 DEF ConnectWorker
  <2>2. /\ \A k \in DOMAIN q : q[k] = NoFd
        /\ \A k \in DOMAIN r : r[k] = NoFd
        BY <1>2, <2>1, LinkAppend DEF ConnectWorker, LinkInv, LinkAt, Given
  <2>3. link' = [link EXCEPT ![position] = r]
        BY <1>2 DEF ConnectWorker
  <2> HIDE DEF r
  <2>4. \A w \in Workers : InFlight(c, w)' <=> InFlight(c, w)
        BY <2>1, <2>2, <2>3
  <2>5. \A w \in Workers : Offered(c, w)' <=> Offered(c, w)
        BY <1>2 DEF ConnectWorker
  <2> QED
      BY <1>2, <2>4, <2>5 DEF ConnectWorker
<1>3. CASE SendMsg
  <2> DEFINE q == link[position]
             r == [q EXCEPT ![Len(q)] = fd]
  <2>1. position \in Workers /\ q \in Seq(Fds) /\ q # <<>> /\ fd \in Conns
        BY <1>3 DEF SendMsg, LinkInv, LinkAt
  <2>2. /\ DOMAIN r = DOMAIN q /\ Len(q) \in DOMAIN q
        /\ r[Len(q)] = fd /\ \A k \in DOMAIN q : k # Len(q) => r[k] = q[k]
        BY <2>1, LinkFill, LinkHead
  <2>3. \A k \in DOMAIN q : q[k] = NoFd
        BY <1>3, <2>1 DEF SendMsg, LinkInv, LinkAt, Given
  <2>4. link' = [link EXCEPT ![position] = r]
        BY <1>3 DEF SendMsg
  <2> HIDE DEF r
  <2>5. \A w \in Workers : w # position => /\ InFlight(c, w)' <=> InFlight(c, w)
                                           /\ ~Offered(c, w)' /\ ~Offered(c, w)
        BY <1>3, <2>1, <2>4 DEF SendMsg
  <2>6. /\ InFlight(c, position)' <=> c = fd
        /\ ~InFlight(c, position)
        BY <2>1, <2>2, <2>3, <2>4, <1>3 DEF SendMsg
  <2>7. /\ Offered(c, position) <=> c = fd
        /\ ~Offered(c, position)'
        /\ position' = position
        BY <1>3, <2>1 DEF SendMsg
  <2>8. \A w \in Workers : Handed(c, w)' <=> Handed(c, w)
        BY <2>1, <2>5, <2>6, <2>7
  <2> QED
      BY <1>3, <2>8 DEF SendMsg
<1> QED
    BY <1>1, <1>2, <1>3

LEMMA WorkerUnseen ==
    ASSUME IInv, NEW w \in Workers,
           \/ RemovePath(w) \/ Bind(w) \/ Listen(w) \/ AcceptLink(w) \/ StartRequest(w)
           \/ EndServe(w) \/ UnlinkPath(w) \/ WorkerSemWait(w) \/ FreeWorker(w)
    PROVE  Unseen
<1>1. link' = link
  <2>1. CASE Listen(w)
        BY <2>1 DEF Listen, Step, IInv, TypeOK, WorkerInv
  <2> QED
      BY <2>1 DEF RemovePath, Bind, AcceptLink, StartRequest, EndServe, UnlinkPath, WorkerSemWait,
                  FreeWorker
<1>2. UNCHANGED <<pending, new_sockfd, fd_array, dpc, fd, position, sockfd>>
      BY DEF RemovePath, Bind, Listen, AcceptLink, StartRequest, EndServe, UnlinkPath, WorkerSemWait,
             FreeWorker, mainVars, poolVars, procVars
<1>3. Dead' = Dead
      BY DEF RemovePath, Bind, Listen, AcceptLink, StartRequest, EndServe, UnlinkPath, WorkerSemWait,
             FreeWorker, procVars, Step, Dead, IInv, TypeOK
<1> QED
    BY <1>1, <1>2, <1>3 DEF Unseen, Same, Waits, Handed, Queued, InHand, Offered, InFlight

LEMMA OtherUnseen ==
    ASSUME UNCHANGED vars \/ \E c \in Conns : Request(c)
    PROVE  Unseen
<1>1. UNCHANGED <<pending, new_sockfd, fd_array, dpc, fd, position, sockfd, link, wpc>>
      BY DEF vars, Request, RequestSemWait, RequestSemPost, RequestConnect, mainVars, poolVars,
             procVars
<1> QED
    BY <1>1 DEF Unseen, Same, Waits, Handed, Queued, InHand, Offered, InFlight, Dead
-----------------------------------------------------------------------------
(* The steps that Dispatch sees                                            *)

KeepsProcesses == Dead' = Dead /\ (dpc' = "killed" <=> dpc = "killed")

LEMMA AcceptMoves ==
    ASSUME IInv, NEW c \in Conns, AcceptConnection(c)
    PROVE  /\ c \in pending /\ c \notin pending' /\ Waits(c)' /\ dpc # "killed"
           /\ \A w \in Workers : Handed(c, w)' <=> Handed(c, w)
           /\ UNCHANGED sockfd
           /\ \A d \in Conns \ {c} : Same(d)
           /\ KeepsProcesses
BY PoolAssumption
DEF IInv, TypeOK, Fds, AcceptConnection, Same, Waits, Handed, Queued, InHand, Offered, InFlight, Dead,
    KeepsProcesses, poolVars, procVars

LEMMA GiveMoves ==
    ASSUME IInv, SelectWorker, NEW c, c = fd
    PROVE  /\ c \in Conns /\ Waits(c) /\ ~Waits(c)' /\ dpc # "killed"
           /\ position' \in Workers /\ ~Engaged(position')
           /\ \A w \in Workers : Handed(c, w)' <=> w = position'
           /\ UNCHANGED <<pending, sockfd>>
           /\ \A d \in Conns \ {c} : Same(d)
           /\ KeepsProcesses
<1>1. PICK w \in LeastUsed : position' = w
      BY DEF SelectWorker
<1>2. w \in Workers /\ ~Engaged(w)
      BY <1>1 DEF LeastUsed, Ready, Scanned, Workers, IInv, WorkerInv, Engaged, Given
<1>3. c \in Conns /\ ~Queued(c)
      BY DEF SelectWorker, IInv, TypeOK, ManagerInv, PlacesInv, Fds, Queued
<1>4. \A v \in Workers : ~InFlight(c, v)
      BY <1>3, PoolAssumption DEF SelectWorker, IInv, LinkInv, LinkAt, InFlight
<1>5. UNCHANGED <<pending, new_sockfd, fd_array, fd, link, sockfd, wpc>> /\ dpc = "scan" /\ dpc' = "connect"
      BY DEF SelectWorker, mainVars, procVars
<1>6. \A d \in Conns \ {c} : Same(d)
      BY <1>5 DEF Same, Waits, Handed, Queued, InHand, Offered, InFlight
<1>7. \A v \in Workers : Handed(c, v)' <=> v = position'
      BY <1>4, <1>5 DEF Handed, Offered, InFlight
<1>8. Waits(c) /\ ~Waits(c)'
      BY <1>3, <1>5 DEF Waits, InHand, Queued
<1> QED
    BY <1>1, <1>2, <1>3, <1>5, <1>6, <1>7, <1>8 DEF KeepsProcesses, Dead

LEMMA ReceiveMoves ==
    ASSUME IInv, NEW w \in Workers, ReceiveFd(w), NEW c, c = Head(link[w])
    PROVE  /\ c \in Conns /\ Handed(c, w) /\ w \notin Dead
           /\ \A v \in Workers : Handed(c, v)' <=> Handed(c, v) /\ v # w
           /\ sockfd[w] = NoFd /\ sockfd' = [sockfd EXCEPT ![w] = c]
           /\ UNCHANGED pending /\ Waits(c)' <=> Waits(c)
           /\ \A d \in Conns \ {c} : Same(d)
           /\ KeepsProcesses
<1> USE DEF IInv, TypeOK
<1>1. wpc[w] = "recv" /\ link[w] # <<>> /\ link[w] \in Seq(Fds)
      BY DEF ReceiveFd, Step, WorkerInv
<1>2. c = link[w][1] /\ 1 \in DOMAIN link[w] /\ c # NoFd /\ c \in Conns
      BY <1>1, LinkHead DEF ReceiveFd, Fds
<1>3. Len(link[w]) = 1 /\ Tail(link[w]) = <<>>
      BY <1>1, <1>2, LinkHead DEF LinkInv, LinkAt
<1>4. DOMAIN link[w] = {1}
      BY <1>1, <1>3
<1>5. UNCHANGED <<pending, new_sockfd, fd_array, dpc, fd, position>>
      BY DEF ReceiveFd, mainVars, poolVars
<1>6. /\ link'[w] = <<>> /\ \A v \in Workers \ {w} : link'[v] = link[v]
      /\ sockfd' = [sockfd EXCEPT ![w] = c]
      /\ sockfd'[w] = c /\ \A v \in Workers \ {w} : sockfd'[v] = sockfd[v]
      /\ Dead' = Dead /\ w \notin Dead
      BY <1>3 DEF ReceiveFd, Step, Dead
<1>7. sockfd[w] = NoFd
      BY <1>1 DEF WorkerInv
<1>8. \A d \in Conns : Offered(d, w)' <=> Offered(d, w)
      BY <1>5 DEF Offered
<1>9. ~Offered(c, w)
      BY <1>2 DEF Offered, LinkInv, LinkAt
<1> HIDE DEF IInv, TypeOK
<1>10. \A v \in Workers : Handed(c, v)' <=> Handed(c, v) /\ v # w
      BY <1>5, <1>6, <1>9 DEF Handed, Offered, InFlight
<1>11. ASSUME NEW d \in Conns \ {c} PROVE Same(d)
  <2>1. \A v \in Workers : InFlight(d, v)' <=> InFlight(d, v)
        BY <1>2, <1>4, <1>6 DEF InFlight
  <2>2. \A v \in Workers : sockfd'[v] = d <=> sockfd[v] = d
        BY <1>6, <1>7, PoolAssumption
  <2> QED
      BY <1>5, <2>1, <2>2 DEF Same, Waits, Queued, InHand, Handed, Offered
<1>12. Handed(c, w) /\ w \notin Dead /\ KeepsProcesses
      BY <1>1, <1>2, <1>5, <1>6 DEF Handed, InFlight, KeepsProcesses
<1>13. Waits(c)' <=> Waits(c)
      BY <1>5 DEF Waits, Queued, InHand
<1> QED
    BY <1>2, <1>5, <1>6, <1>7, <1>10, <1>11, <1>12, <1>13

LEMMA CloseMoves ==
    ASSUME IInv, NEW w \in Workers, CloseClient(w)
    PROVE  /\ sockfd[w] \in Conns /\ w \notin Dead
           /\ sockfd' = [sockfd EXCEPT ![w] = NoFd]
           /\ UNCHANGED pending
           /\ \A d \in Conns : /\ Waits(d)' <=> Waits(d)
                               /\ \A v \in Workers : Handed(d, v)' <=> Handed(d, v)
           /\ KeepsProcesses
BY DEF IInv, TypeOK, WorkerInv, Fds, CloseClient, Step, Waits, Queued, InHand, Handed, Offered,
       InFlight, Dead, KeepsProcesses, mainVars, poolVars

LEMMA DeathMoves ==
    ASSUME IInv, NEW w \in Workers, Exit(w)
    PROVE  /\ sockfd' = [sockfd EXCEPT ![w] = NoFd]
           /\ UNCHANGED pending
           /\ \A d \in Conns : /\ Waits(d)' <=> Waits(d)
                               /\ \A v \in Workers \ {w} : Handed(d, v)' <=> Handed(d, v)
                               /\ Handed(d, w)' => Handed(d, w)
           /\ Dead' = Dead \cup {w}
           /\ dpc' = dpc
<1> USE DEF IInv, TypeOK, Exit, mainVars, poolVars
<1>1. \A d \in Conns : Waits(d)' <=> Waits(d)
      BY DEF Waits, Queued, InHand
<1>2. \A d \in Conns : \A v \in Workers : Offered(d, v)' <=> Offered(d, v)
      BY DEF Offered
<1>3. \A d \in Conns : \A v \in Workers \ {w} : InFlight(d, v)' <=> InFlight(d, v)
      BY DEF InFlight
<1>4. \A d \in Conns : ~InFlight(d, w)'
      BY DEF InFlight
<1>5. Dead' = Dead \cup {w}
      BY DEF Dead
<1> QED
    BY <1>1, <1>2, <1>3, <1>4, <1>5 DEF Handed

LEMMA KillMoves ==
    ASSUME IInv, SendMsgKills, NEW c, c = fd
    PROVE  /\ UNCHANGED <<pending, sockfd>>
           /\ \A d \in Conns : /\ ~Waits(d)'
                               /\ \A w \in Workers : Handed(d, w)' => Handed(d, w)
                               /\ d # c => \A w \in Workers : Handed(d, w) => Handed(d, w)'
           /\ c \in Conns /\ (\E w \in Workers : Handed(c, w))
           /\ \A w \in Workers : ~Handed(c, w)'
           /\ Dead' = Dead
           /\ dpc # "killed" /\ dpc' = "killed"
<1> USE PoolAssumption DEF IInv, TypeOK, ManagerInv, Fds, SendMsgKills, procVars
<1>1. \A d \in Conns : ~Waits(d)'
      BY DEF Waits, Queued, InHand
<1>2. \A d \in Conns, w \in Workers : Handed(d, w)' <=> InFlight(d, w)
      BY DEF Handed, Offered, InFlight
<1>3. \A w \in Workers : ~InFlight(c, w)
      BY DEF InFlight, LinkInv, LinkAt
<1>4. \A d \in Conns, w \in Workers : Handed(d, w) => InFlight(d, w) \/ d = c
      BY DEF Handed, Offered
<1>5. c \in Conns /\ \E w \in Workers : Handed(c, w)
      BY DEF Handed, Offered
<1>6. /\ UNCHANGED <<pending, sockfd>> /\ Dead' = Dead
      /\ dpc # "killed" /\ dpc' = "killed"
      BY DEF Dead
<1> HIDE DEF IInv, TypeOK, ManagerInv, Fds, SendMsgKills
<1>7. \A d \in Conns, w \in Workers : InFlight(d, w) => Handed(d, w)
      BY DEF Handed
<1> QED
    BY <1>1, <1>2, <1>3, <1>4, <1>5, <1>6, <1>7
-----------------------------------------------------------------------------
\* A step of the pool is one that Dispatch does not see, or one of six.
LEMMA KindsOfStep ==
    ASSUME IInv, [Next]_vars
    PROVE  \/ Unseen
           \/ \E c \in Conns : AcceptConnection(c)
           \/ SelectWorker
           \/ \E w \in Workers : ReceiveFd(w) \/ CloseClient(w)
           \/ \E w \in Workers : Exit(w) /\ w \notin Dead
           \/ SendMsgKills
<1>1. CASE \E w \in Workers : WorkerDies(w) \/ ReceiveEof(w)
      BY <1>1 DEF WorkerDies, ReceiveEof, Dead
<1> QED
    BY <1>1, MainUnseen, ManagerUnseen, WorkerUnseen, OtherUnseen DEF Next, Pool, Worker

\* No step gives a connection to a second worker.
LEMMA SingleStep == IInv /\ SingleOwner /\ [Next]_vars => SingleOwner'
<1> SUFFICES ASSUME IInv, SingleOwner, [Next]_vars PROVE SingleOwner'
    OBVIOUS
<1> USE DEF SingleOwner
<1>0. /\ \A d \in Conns : Told(d)
      /\ \A d \in Conns : OwnerOf(d) = {w \in Workers : Handed(d, w) \/ sockfd[w] = d}
      /\ \A d \in Conns : OwnerOf(d)' = {w \in Workers : Handed(d, w)' \/ sockfd'[w] = d}
      /\ sockfd \in [Workers -> Fds] /\ NoFd \notin Conns
      BY StagesTell, PoolAssumption DEF OwnerOf, Handed, IInv, TypeOK
<1>1. CASE Unseen
      BY <1>1, SameStage DEF Unseen
<1>2. ASSUME NEW c \in Conns, AcceptConnection(c) PROVE SingleOwner'
      BY <1>0, <1>2, AcceptMoves DEF Same
<1>3. CASE SelectWorker
  <2>1. PICK c : c = fd
        OBVIOUS
  <2>2. /\ c \in Conns /\ Waits(c)
        /\ \A w \in Workers : Handed(c, w)' <=> w = position'
        /\ UNCHANGED sockfd
        /\ \A d \in Conns \ {c} : Same(d)
        BY <1>3, <2>1, GiveMoves
  <2>3. OwnerOf(c) = {}
        BY <1>0, <2>2 DEF Told
  <2> QED
      BY <1>0, <2>2, <2>3, SameStage
<1>4. ASSUME NEW w \in Workers, ReceiveFd(w) PROVE SingleOwner'
  <2>1. PICK c : c = Head(link[w])
        OBVIOUS
  <2>2. /\ c \in Conns /\ Handed(c, w)
        /\ \A v \in Workers : Handed(c, v)' <=> Handed(c, v) /\ v # w
        /\ sockfd' = [sockfd EXCEPT ![w] = c]
        /\ \A d \in Conns \ {c} : Same(d)
        BY <1>4, <2>1, ReceiveMoves
  <2> QED
      BY <1>0, <2>2, SameStage
<1>5. ASSUME NEW w \in Workers, CloseClient(w) PROVE SingleOwner'
      BY <1>0, <1>5, CloseMoves
<1>6. ASSUME NEW w \in Workers, Exit(w) PROVE SingleOwner'
      BY <1>0, <1>6, DeathMoves
<1>7. CASE SendMsgKills
      BY <1>0, <1>7, KillMoves
<1> QED
    BY <1>1, <1>2, <1>3, <1>4, <1>5, <1>6, <1>7, KindsOfStep

LEMMA InitSingle == Init => SingleOwner
BY PoolAssumption DEF Init, SingleOwner, OwnerOf, Offered, InFlight

LEMMA OwnerInvariance == Spec => [](IInv /\ SingleOwner)
<1>1. Init => IInv /\ SingleOwner
      BY InitIInv, InitSingle
<1>2. IInv /\ SingleOwner /\ [Next]_vars => (IInv /\ SingleOwner)'
      BY Inductive, SingleStep
<1> QED
    BY <1>1, <1>2, PTL DEF Spec
-----------------------------------------------------------------------------
(* The refinement                                                          *)

stage == [c \in Conns |-> StageOf(c)]
owner == [c \in Conns |-> OwnerAt(c)]
dead  == Dead \cup (IF dpc = "killed" THEN {0} ELSE {})

LEMMA InitRefines == Init => Promise!DInit
<1> SUFFICES ASSUME Init PROVE Promise!DInit
    OBVIOUS
<1>1. \A c \in Conns : Told(c)
      BY InitIInv, InitSingle, StagesTell
<1>2. \A c \in Conns : c \in pending
      BY DEF Init
<1>3. \A c \in Conns : StageOf(c) = "pending" /\ OwnerOf(c) = {}
      BY <1>1, <1>2 DEF Told
<1>4. Dead \subseteq Workers /\ dpc = "get"
      BY DEF Init, Dead
<1> QED
    BY <1>3, <1>4 DEF Promise!DInit

LEMMA StepRefines ==
    ASSUME IInv, SingleOwner, IInv', SingleOwner', [Next]_vars
    PROVE  [Promise!DNext]_(Promise!dvars)
<1> DEFINE Goal == [Promise!DNext]_(Promise!dvars)
<1>1. (\A c \in Conns : Told(c)) /\ \A c \in Conns : Told(c)'
  <2>1. IInv' /\ SingleOwner' => (\A c \in Conns : Told(c))'
        BY StagesTell, PTL
  <2> QED
      BY <2>1, StagesTell
<1>2. /\ \A c \in Conns : OwnerOf(c) = {w \in Workers : Handed(c, w) \/ sockfd[w] = c}
      /\ \A c \in Conns : OwnerOf(c)' = {w \in Workers : Handed(c, w)' \/ sockfd'[w] = c}
      /\ sockfd \in [Workers -> Fds] /\ NoFd \notin Conns
      /\ Workers \subseteq Int \ {0} /\ -1 \notin Workers
      BY PoolAssumption DEF OwnerOf, Handed, IInv, TypeOK, Workers
<1>3. CASE Unseen
  <2>1. UNCHANGED <<stage, owner, dead>>
        BY <1>3, SameStage DEF Unseen, stage, owner, dead
  <2> QED
      BY <2>1 DEF Promise!dvars, stage, owner, dead, OwnerAt
<1>4. ASSUME NEW c \in Conns, AcceptConnection(c) PROVE Goal
  <2>1. StageOf(c) = "pending" /\ StageOf(c)' = "waiting"
        BY <1>1, <1>4, AcceptMoves DEF Told
  <2>2. OwnerOf(c) = {} /\ OwnerOf(c)' = {} /\ OwnerAt(c) = -1 /\ OwnerAt(c)' = -1
        BY <1>1, <2>1 DEF Told
  <2>3. \A d \in Conns \ {c} : StageOf(d)' = StageOf(d) /\ OwnerAt(d)' = OwnerAt(d)
        BY <1>4, AcceptMoves, SameStage
  <2>4. 0 \notin dead /\ dead' = dead
        BY <1>2, <1>4, AcceptMoves DEF dead, KeepsProcesses, Dead
  <2>5. stage[c] = "pending" /\ stage' = [stage EXCEPT ![c] = "waiting"] /\ owner' = owner
        BY <2>1, <2>2, <2>3 DEF stage, owner
  <2>6. Promise!Accept(c)
        BY <2>4, <2>5 DEF Promise!Accept, stage, owner, dead, OwnerAt
  <2> QED
      BY <2>6 DEF Promise!DNext
<1>5. CASE SelectWorker
  <2>1. PICK c : c = fd
        OBVIOUS
  <2>2. PICK w \in Workers : w = position'
        BY <1>5, <2>1, GiveMoves
  <2>3. /\ c \in Conns /\ Waits(c) /\ ~Engaged(w)
        /\ \A v \in Workers : Handed(c, v)' <=> v = w
        /\ \A d \in Conns \ {c} : Same(d)
        BY <1>5, <2>1, <2>2, GiveMoves
  <2>4. StageOf(c) = "waiting" /\ StageOf(c)' = "given" /\ w \in OwnerOf(c)' /\ OwnerAt(c)' = w
        BY <1>1, <1>2, <2>3 DEF Told
  <2>5. \A d \in Conns \ {c} : StageOf(d)' = StageOf(d) /\ OwnerAt(d)' = OwnerAt(d)
        BY <2>3, SameStage
  <2>6. \A d \in Conns : w \notin OwnerOf(d)
        BY <2>3, <1>2 DEF Engaged, Handed, Offered, InFlight
  <2>7. \A d \in Conns : ~(OwnerAt(d) = w /\ StageOf(d) \in {"given", "served"})
        BY <1>1, <2>6 DEF Told
  <2>8. 0 \notin dead /\ dead' = dead
        BY <1>2, <1>5, <2>1, GiveMoves DEF dead, KeepsProcesses, Dead
  <2>9. /\ stage[c] = "waiting"
        /\ \A d \in Conns : ~(owner[d] = w /\ stage[d] \in {"given", "served"})
        /\ stage' = [stage EXCEPT ![c] = "given"] /\ owner' = [owner EXCEPT ![c] = w]
        BY <2>3, <2>4, <2>5, <2>7 DEF stage, owner
  <2>10. Promise!Owned(w) = {}
         BY <2>9 DEF Promise!Owned, stage, owner, OwnerAt
  <2>11. Promise!Give(c, w)
         BY <2>8, <2>9, <2>10 DEF Promise!Give, stage, owner, dead, OwnerAt
  <2> QED
      BY <2>3, <2>11 DEF Promise!DNext
<1>6. ASSUME NEW w \in Workers, ReceiveFd(w) PROVE Goal
  <2>1. PICK c : c = Head(link[w])
        OBVIOUS
  <2>2. /\ c \in Conns /\ Handed(c, w) /\ w \notin Dead
        /\ sockfd' = [sockfd EXCEPT ![w] = c]
        /\ \A d \in Conns \ {c} : Same(d)
        /\ KeepsProcesses
        BY <1>6, <2>1, ReceiveMoves
  <2>3. /\ StageOf(c) = "given" /\ StageOf(c)' = "served"
        /\ OwnerAt(c) = w /\ OwnerAt(c)' = w
        BY <1>1, <1>2, <2>2 DEF Told
  <2>4. \A d \in Conns \ {c} : StageOf(d)' = StageOf(d) /\ OwnerAt(d)' = OwnerAt(d)
        BY <2>2, SameStage
  <2>5. w \notin dead /\ dead' = dead
        BY <1>2, <2>2 DEF dead, KeepsProcesses
  <2>6. /\ stage[c] = "given" /\ owner[c] \notin dead /\ owner' = owner
        /\ stage' = [stage EXCEPT ![c] = "served"]
        BY <2>2, <2>3, <2>4, <2>5 DEF stage, owner
  <2>7. Promise!Serve(c)
        BY <2>5, <2>6 DEF Promise!Serve, stage, owner, dead, OwnerAt
  <2> QED
      BY <2>2, <2>7 DEF Promise!DNext
<1>7. ASSUME NEW w \in Workers, CloseClient(w) PROVE Goal
  <2>1. PICK c \in Conns : c = sockfd[w]
        BY <1>7, CloseMoves
  <2>2. /\ w \notin Dead
        /\ sockfd' = [sockfd EXCEPT ![w] = NoFd]
        /\ UNCHANGED pending
        /\ \A d \in Conns : /\ Waits(d)' <=> Waits(d)
                            /\ \A v \in Workers : Handed(d, v)' <=> Handed(d, v)
        /\ KeepsProcesses
        BY <1>7, CloseMoves
  <2>3. StageOf(c) = "served" /\ OwnerAt(c) = w /\ \A v \in OwnerOf(c) : v = w
        BY <1>1, <1>2, <2>1 DEF Told, SingleOwner
  <2>4. ~Handed(c, w)
        BY <1>1, <2>3 DEF Told
  <2>5. OwnerOf(c)' = {}
    <3>1. \A v \in Workers : ~Handed(c, v)
          BY <1>2, <2>3, <2>4
    <3>2. \A v \in Workers : sockfd'[v] # c
          BY <1>2, <2>2, <2>3
    <3>3. \A v \in Workers : v \notin OwnerOf(c)'
          BY <1>2, <2>2, <3>1, <3>2
    <3> QED
        BY <1>2, <3>3
  <2>6. StageOf(c)' = "closed" /\ OwnerAt(c)' = -1
        BY <1>1, <2>2, <2>3, <2>5 DEF Told
  <2>7. ASSUME NEW d \in Conns \ {c} PROVE Same(d)
        BY <1>2, <2>1, <2>2 DEF Same
  <2>8. \A d \in Conns \ {c} : StageOf(d)' = StageOf(d) /\ OwnerAt(d)' = OwnerAt(d)
        BY <2>7, SameStage
  <2>9. w \notin dead /\ dead' = dead
        BY <1>2, <2>2 DEF dead, KeepsProcesses
  <2>10. /\ stage[c] = "served" /\ owner[c] \notin dead
         /\ stage' = [stage EXCEPT ![c] = "closed"] /\ owner' = [owner EXCEPT ![c] = -1]
         BY <2>3, <2>6, <2>8, <2>9 DEF stage, owner
  <2>11. Promise!Close(c)
         BY <2>9, <2>10 DEF Promise!Close, stage, owner, dead, OwnerAt
  <2> QED
      BY <2>11 DEF Promise!DNext
<1>8. ASSUME NEW w \in Workers, Exit(w), w \notin Dead PROVE Goal
  <2> DEFINE lost == {c \in Conns : w \in OwnerOf(c) /\ w \notin OwnerOf(c)'}
  <2>1. /\ sockfd' = [sockfd EXCEPT ![w] = NoFd]
        /\ UNCHANGED pending
        /\ \A d \in Conns : /\ Waits(d)' <=> Waits(d)
                            /\ \A v \in Workers \ {w} : Handed(d, v)' <=> Handed(d, v)
                            /\ Handed(d, w)' => Handed(d, w)
        /\ Dead' = Dead \cup {w}
        /\ dpc' = dpc
        BY <1>8, DeathMoves
  <2>2. ASSUME NEW c \in Conns, c \in lost
        PROVE  /\ StageOf(c) \in {"given", "served"} /\ OwnerAt(c) = w
               /\ StageOf(c)' = "closed" /\ OwnerAt(c)' = -1
    <3>1. StageOf(c) \in {"given", "served"} /\ OwnerAt(c) = w
          BY <1>1, <2>2 DEF Told
    <3>2. \A v \in Workers \ {w} : ~Handed(c, v) /\ sockfd[v] # c
          BY <1>2, <2>2 DEF SingleOwner
    <3>3. \A v \in Workers \ {w} : ~Handed(c, v)' /\ sockfd'[v] # c
          BY <1>2, <2>1, <3>2
    <3>4. ~Handed(c, w)' /\ sockfd'[w] # c
          BY <1>2, <2>2
    <3>5. \A v \in Workers : v \notin OwnerOf(c)'
          BY <1>2, <3>3, <3>4
    <3>6. OwnerOf(c)' = {}
          BY <1>2, <3>5
    <3> QED
        BY <1>1, <2>1, <3>1, <3>6 DEF Told
  <2>3. ASSUME NEW c \in Conns, c \notin lost
        PROVE  StageOf(c)' = StageOf(c) /\ OwnerAt(c)' = OwnerAt(c)
    <3>1. ~(sockfd[w] = c)
      <4>1. SUFFICES ASSUME sockfd[w] = c PROVE FALSE
            OBVIOUS
      <4>2. w \in OwnerOf(c)' /\ StageOf(c) = "served"
            BY <1>1, <1>2, <2>3, <4>1 DEF Told
      <4>3. Handed(c, w)
            BY <1>2, <2>1, <4>2
      <4> QED
          BY <1>1, <4>2, <4>3 DEF Told
    <3>2. Same(c)
          BY <1>2, <2>1, <2>3, <3>1 DEF Same
    <3> QED
        BY <3>2, SameStage
  <2>4. w \notin dead /\ dead' = dead \cup {w}
        BY <1>2, <1>8, <2>1 DEF dead
  <2>5. /\ lost \subseteq Conns
        /\ \A d \in lost : owner[d] = w /\ stage[d] \in {"given", "served"}
        /\ stage' = [d \in Conns |-> IF d \in lost THEN "closed" ELSE stage[d]]
        /\ owner' = [d \in Conns |-> IF d \in lost THEN -1 ELSE owner[d]]
        BY <2>2, <2>3 DEF stage, owner
  <2> HIDE DEF lost
  <2>6. lost \subseteq Promise!Held(w)
        BY <1>2, <2>5 DEF Promise!Held, Promise!Owned, stage, owner, OwnerAt
  <2>7. Promise!Die(w)
        BY <2>4, <2>5, <2>6, ZenonT(30) DEF Promise!Die, stage, owner, dead, OwnerAt
  <2> QED
      BY <2>7 DEF Promise!DNext
<1>9. CASE SendMsgKills
  <2>1. PICK f : f = fd
        OBVIOUS
  <2>2. /\ UNCHANGED <<pending, sockfd>>
        /\ \A d \in Conns : /\ ~Waits(d)'
                            /\ \A w \in Workers : Handed(d, w)' => Handed(d, w)
                            /\ d # f => \A w \in Workers : Handed(d, w) => Handed(d, w)'
        /\ f \in Conns /\ (\E w \in Workers : Handed(f, w))
        /\ \A w \in Workers : ~Handed(f, w)'
        /\ Dead' = Dead
        /\ dpc # "killed" /\ dpc' = "killed"
        BY <1>9, <2>1, KillMoves
  <2> DEFINE lost == {c \in Conns : Waits(c) \/ c = f}
  <2>3. ASSUME NEW c \in Conns, c \in lost
        PROVE  /\ StageOf(c) \in {"waiting", "given"}
               /\ StageOf(c)' = "closed" /\ OwnerAt(c)' = -1
    <3>1. StageOf(c) \in {"waiting", "given"}
          BY <1>1, <2>2, <2>3 DEF Told
    <3>2. c \notin pending /\ \A w \in Workers : ~Handed(c, w)' /\ sockfd'[w] # c
          BY <1>1, <2>2, <2>3, <3>1 DEF Told
    <3>3. OwnerOf(c)' = {}
          BY <1>2, <3>2
    <3> QED
        BY <1>1, <2>2, <3>1, <3>2, <3>3 DEF Told
  <2>4. ASSUME NEW c \in Conns, c \notin lost PROVE Same(c)
        BY <2>2, <2>4 DEF Same
  <2>5. 0 \notin dead /\ dead' = dead \cup {0}
        BY <1>2, <2>2 DEF dead, Dead
  <2>6. /\ lost \subseteq Conns
        /\ \A d \in lost : stage[d] \in {"waiting", "given"}
        /\ stage' = [d \in Conns |-> IF d \in lost THEN "closed" ELSE stage[d]]
        /\ owner' = [d \in Conns |-> IF d \in lost THEN -1 ELSE owner[d]]
        BY <2>3, <2>4, SameStage DEF stage, owner
  <2> HIDE DEF lost
  <2>7. lost \subseteq Promise!Held(0)
        BY <2>6 DEF Promise!Held, stage
  <2>8. Promise!Die(0)
        BY <2>5, <2>6, <2>7 DEF Promise!Die, stage, owner, dead, OwnerAt
  <2> QED
      BY <2>8 DEF Promise!DNext
<1> QED
    BY <1>3, <1>4, <1>5, <1>6, <1>7, <1>8, <1>9, KindsOfStep

\* The pool keeps the promise: a connection is given to one worker, once, by a manager that is
\* alive and to a worker that has no other; it is served by that worker and closed, and it is
\* lost only with a process that held it (thread_pool_loop, send_fd, receive_fd, start_worker).
THEOREM PoolImplementsDispatch == Spec => ImplementsDispatch
<1>1. Init => Promise!DInit
      BY InitRefines
<1>2. (IInv /\ SingleOwner) /\ (IInv /\ SingleOwner)' /\ [Next]_vars
        => [Promise!DNext]_(Promise!dvars)
      BY StepRefines
<1> QED
    BY <1>1, <1>2, OwnerInvariance, PTL DEF Spec, ImplementsDispatch, Promise!DSpec
=============================================================================
