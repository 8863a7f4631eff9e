--------------------------- MODULE ConnectionPool ---------------------------
(***************************************************************************)
(* The path of a client connection through Heimdall's processes.           *)
(*                                                                         *)
(* The main thread accepts a connection and puts its descriptor in         *)
(* fd_array.  The pool manager thread takes a descriptor out of it, picks  *)
(* a free worker in shared memory under the semaphore, notes the server    *)
(* the scheduler returns for it, and passes the descriptor to that worker  *)
(* over the worker's UNIX socket, as often as it takes.  A worker process  *)
(* receives one descriptor, serves the connection, closes it, removes its  *)
(* socket and declares itself free.  While it serves, its request threads  *)
(* read the server from shared memory; nothing joins or cancels them when  *)
(* the worker moves on.                                                    *)
(*                                                                         *)
(* A lock held for one uninterrupted scan (mtx_wait_request) makes that    *)
(* scan one action.  The semaphore is a variable of its own, because a     *)
(* process may die between its sem_wait and its sem_post.                  *)
(***************************************************************************)
EXTENDS Integers, Sequences, FiniteSets

CONSTANTS Conns,          \* the client connections that arrive (finitely many)
          Servers,        \* the servers the scheduler may return
          PreFork,        \* pre_fork in heimdall_config.conf
          MaxFd,          \* max_fd in heimdall_config.conf: the slots of fd_array
          NoFd,           \* 0 in fd_array, and a local descriptor not set
          NoServer,       \* a worker_server entry never written
          MaxDeaths,      \* bound: worker processes that die or are never forked
          MaxSendFaults   \* bound: sendmsg calls that fail

ASSUME PoolAssumption ==
    /\ NoFd \notin Conns
    /\ NoServer \notin Servers
    /\ Servers # {}
    /\ PreFork \in Nat
    /\ MaxFd \in Nat \ {0}
    /\ MaxDeaths \in Nat
    /\ MaxSendFaults \in Nat

\* do_prefork creates one process even when pre_fork is 0; worker i is the
\* process whose pid is in worker_array[i].
Workers == 1 .. (IF PreFork = 0 THEN 1 ELSE PreFork)

\* thread_pool_loop, request_work and start_worker scan pre_fork entries.
Scanned == 1 .. PreFork

Slots == 0 .. MaxFd - 1
Fds   == Conns \cup {NoFd}

VARIABLES
    pending,         \* connections in the listen backlog of the web switch
    new_sockfd,      \* main: the connection accepted and not yet queued
    main_fds,        \* client descriptors open in the main process
    fd_array,        \* the waiting connections
    dpc,             \* thread_pool_loop: where it is
    fd,              \* thread_pool_loop: the connection being handed over
    position,        \* thread_pool_loop: the worker chosen for it
    faults,          \* sendmsg failures so far
    sem,             \* the POSIX semaphore WRK_SEM_PATH
    worker_busy, worker_counter, worker_server,   \* THPSharedMem
    wpc,             \* start_worker and receive_fd: where each worker is
    path,            \* the file of each worker's UNIX socket
    link,            \* the connections made to the listening socket, oldest first
    sockfd,          \* worker->sockfd
    request,         \* the request thread working for each connection
    scheduled        \* history: the server chosen for each connection

mainVars   == <<pending, new_sockfd>>
poolVars   == <<dpc, fd, position>>
shmVars    == <<worker_busy, worker_counter, worker_server>>
procVars   == <<wpc, path, sockfd>>
vars == <<pending, new_sockfd, main_fds, fd_array, dpc, fd, position, faults, sem,
          worker_busy, worker_counter, worker_server, wpc, path, link, sockfd,
          request, scheduled>>

\* sem_wait and sem_post.
SemWaitNoBlock == sem' = 0
SemWait == sem = 1 /\ sem' = 0
SemPost == sem' = sem + 1

\* The effects of get_fd's scan, of the selection, of the release and of close.
ClearSlotForgotten(i) == UNCHANGED fd_array
ClearSlot(i) == fd_array' = [fd_array EXCEPT ![i] = NoFd]
SetBusyForgotten(w) == UNCHANGED worker_busy
SetBusy(w) == worker_busy' = [worker_busy EXCEPT ![w] = 1]
ClearBusyForgotten(w) == UNCHANGED worker_busy
ClearBusy(w) == worker_busy' = [worker_busy EXCEPT ![w] = 0]
StoreServerForgotten(w, s) == UNCHANGED worker_server
StoreServer(w, s) == worker_server' = [worker_server EXCEPT ![w] = s]
CloseInMainForgotten(c) == UNCHANGED main_fds
CloseInMain(c) == main_fds' = main_fds \ {c}

Idle == [pc |-> "none", proc |-> 0, server |-> NoServer]
Dead == {w \in Workers : wpc[w] = "dead"}
-----------------------------------------------------------------------------
\* After do_prefork: every slot free, the workers about to enter receive_fd.  A
\* fork that fails leaves pid -1 in its slot, which is a worker that never lives.
Init ==
    /\ pending = Conns
    /\ new_sockfd = NoFd
    /\ main_fds = {}
    /\ fd_array = [i \in Slots |-> NoFd]
    /\ dpc = "get" /\ fd = NoFd /\ position = 0
    /\ faults = 0
    /\ sem = 1
    /\ worker_busy = [w \in Workers |-> 0]
    /\ worker_counter = [w \in Workers |-> 0]
    /\ worker_server = [w \in Workers |-> NoServer]
    /\ wpc \in [Workers -> {"remove", "dead"}]
    /\ Cardinality(Dead) <= MaxDeaths
    /\ path = [w \in Workers |-> "absent"]
    /\ link = [w \in Workers |-> <<>>]
    /\ sockfd = [w \in Workers |-> NoFd]
    /\ request = [c \in Conns |-> Idle]
    /\ scheduled = [c \in Conns |-> NoServer]
-----------------------------------------------------------------------------
(* The main thread                                                         *)

\* main: accept_connection returns a connection.
AcceptConnection(c) ==
    /\ dpc # "killed"
    /\ new_sockfd = NoFd
    /\ c \in pending
    /\ pending' = pending \ {c}
    /\ new_sockfd' = c
    /\ main_fds' = main_fds \cup {c}
    /\ UNCHANGED <<fd_array, faults, sem, link, request, scheduled>>
    /\ UNCHANGED <<poolVars, shmVars, procVars>>

\* add_fd_to_array, called by main until it finds an empty slot.
AddFdToArray ==
    /\ new_sockfd # NoFd
    /\ \E i \in Slots :
         /\ fd_array[i] = NoFd
         /\ \A j \in Slots : j < i => fd_array[j] # NoFd
         /\ fd_array' = [fd_array EXCEPT ![i] = new_sockfd]
    /\ new_sockfd' = NoFd
    /\ UNCHANGED <<pending, main_fds, faults, sem, link, request, scheduled>>
    /\ UNCHANGED <<poolVars, shmVars, procVars>>
-----------------------------------------------------------------------------
(* The pool manager thread: thread_pool_loop                               *)

\* get_fd takes the first occupied slot; the loop polls until there is one.
GetFd ==
    /\ dpc = "get"
    /\ \E i \in Slots :
         /\ fd_array[i] # NoFd
         /\ \A j \in Slots : j < i => fd_array[j] = NoFd
         /\ fd' = fd_array[i]
         /\ ClearSlot(i)
    /\ dpc' = "wait"
    /\ UNCHANGED <<main_fds, position, faults, sem, link, request, scheduled>>
    /\ UNCHANGED <<mainVars, shmVars, procVars>>

PoolSemWait ==
    /\ dpc = "wait"
    /\ SemWait
    /\ dpc' = "scan"
    /\ UNCHANGED <<main_fds, fd_array, fd, position, faults, link, request, scheduled>>
    /\ UNCHANGED <<mainVars, shmVars, procVars>>

Ready == {w \in Scanned : worker_busy[w] = 0}

\* The scan keeps the last of the free workers with the smallest counter (<=).
LeastUsed ==
    {w \in Ready : \A v \in Ready : /\ worker_counter[w] <= worker_counter[v]
                                    /\ worker_counter[w] = worker_counter[v] => v <= w}

\* No worker is free: sem_post, and round the loop again.
NoWorkerAvailableKeepsSem ==
    /\ dpc = "scan"
    /\ Ready = {}
    /\ dpc' = "wait"
    /\ UNCHANGED <<sem, main_fds, fd_array, fd, position, faults, link, request, scheduled>>
    /\ UNCHANGED <<mainVars, shmVars, procVars>>

NoWorkerAvailable ==
    /\ dpc = "scan"
    /\ Ready = {}
    /\ SemPost
    /\ dpc' = "wait"
    /\ UNCHANGED <<main_fds, fd_array, fd, position, faults, link, request, scheduled>>
    /\ UNCHANGED <<mainVars, shmVars, procVars>>

\* A worker is free: mark it, store the server the scheduler returns, sem_post.
SelectWorker ==
    /\ dpc = "scan"
    /\ \E w \in LeastUsed, s \in Servers :
         /\ position' = w
         /\ SetBusy(w)
         /\ worker_counter' = [worker_counter EXCEPT ![w] = @ + 1]
         /\ StoreServer(w, s)
         /\ scheduled' = [scheduled EXCEPT ![fd] = s]
    /\ SemPost
    /\ dpc' = "connect"
    /\ UNCHANGED <<main_fds, fd_array, fd, faults, link, request>>
    /\ UNCHANGED <<mainVars, procVars>>

\* send_fd: unix_connect succeeds once the chosen worker listens (it fails, and
\* the loop tries again for ever, as long as it does not).
ConnectWorker ==
    /\ dpc = "connect"
    /\ path[position] = "listening"
    /\ link' = [link EXCEPT ![position] = Append(@, NoFd)]
    /\ dpc' = "sendmsg"
    /\ UNCHANGED <<main_fds, fd_array, fd, position, faults, sem, request, scheduled>>
    /\ UNCHANGED <<mainVars, shmVars, procVars>>

\* send_fd: sendmsg puts the descriptor in flight on the connection just made.
SendMsg ==
    /\ dpc = "sendmsg"
    /\ wpc[position] # "dead"
    /\ link' = [link EXCEPT ![position][Len(link[position])] = fd]
    /\ dpc' = "close"
    /\ UNCHANGED <<main_fds, fd_array, fd, position, faults, sem, request, scheduled>>
    /\ UNCHANGED <<mainVars, shmVars, procVars>>

\* send_fd: sendmsg fails; the connection stays open and another is tried.
SendMsgFails ==
    /\ dpc = "sendmsg"
    /\ wpc[position] # "dead"
    /\ faults < MaxSendFaults
    /\ faults' = faults + 1
    /\ dpc' = "connect"
    /\ UNCHANGED <<main_fds, fd_array, fd, position, sem, link, request, scheduled>>
    /\ UNCHANGED <<mainVars, shmVars, procVars>>

\* send_fd: the worker died after it was connected to.  No one ignores SIGPIPE
\* and sendmsg has no MSG_NOSIGNAL, so the main process is killed.
SendMsgKills ==
    /\ dpc = "sendmsg"
    /\ wpc[position] = "dead"
    /\ dpc' = "killed"
    /\ fd' = NoFd
    /\ position' = 0
    /\ new_sockfd' = NoFd
    /\ main_fds' = {}
    /\ fd_array' = [i \in Slots |-> NoFd]
    /\ UNCHANGED <<pending, faults, sem, link, request, scheduled>>
    /\ UNCHANGED <<shmVars, procVars>>

\* close_connection on the manager's side, and back to get_fd.
CloseMainSide ==
    /\ dpc = "close"
    /\ CloseInMain(fd)
    /\ fd' = NoFd
    /\ position' = 0
    /\ dpc' = "get"
    /\ UNCHANGED <<fd_array, faults, sem, link, request, scheduled>>
    /\ UNCHANGED <<mainVars, shmVars, procVars>>
-----------------------------------------------------------------------------
(* A worker process: receive_fd, then start_worker                         *)

\* Worker w goes from one step of its loop to the next.
Step(w, from, to) == wpc[w] = from /\ wpc' = [wpc EXCEPT ![w] = to]

\* receive_fd removes what is left at its path.
RemovePath(w) ==
    /\ Step(w, "remove", "bind")
    /\ path' = [path EXCEPT ![w] = "absent"]
    /\ UNCHANGED <<main_fds, fd_array, faults, sem, link, sockfd, request, scheduled>>
    /\ UNCHANGED <<mainVars, poolVars, shmVars>>

\* unix_passive_socket: bind makes the file; a connect is refused until listen.
Bind(w) ==
    /\ Step(w, "bind", "listen")
    /\ path' = [path EXCEPT ![w] = "bound"]
    /\ UNCHANGED <<main_fds, fd_array, faults, sem, link, sockfd, request, scheduled>>
    /\ UNCHANGED <<mainVars, poolVars, shmVars>>

\* A fresh listening socket: what was queued on an older one is out of reach.
Listen(w) ==
    /\ Step(w, "listen", "accept")
    /\ path' = [path EXCEPT ![w] = "listening"]
    /\ link' = [link EXCEPT ![w] = <<>>]
    /\ UNCHANGED <<main_fds, fd_array, faults, sem, sockfd, request, scheduled>>
    /\ UNCHANGED <<mainVars, poolVars, shmVars>>

\* accept returns the oldest connection, and receive_fd accepts no other.
AcceptLink(w) ==
    /\ Step(w, "accept", "recv")
    /\ link[w] # <<>>
    /\ UNCHANGED <<main_fds, fd_array, faults, sem, path, link, sockfd, request, scheduled>>
    /\ UNCHANGED <<mainVars, poolVars, shmVars>>

\* recvmsg on that connection blocks until a descriptor arrives on it; then
\* start_worker builds the worker and starts its threads.
ReceiveFd(w) ==
    /\ Step(w, "recv", "serve")
    /\ Head(link[w]) # NoFd
    /\ sockfd' = [sockfd EXCEPT ![w] = Head(link[w])]
    /\ link' = [link EXCEPT ![w] = Tail(@)]
    /\ UNCHANGED <<main_fds, fd_array, faults, sem, path, request, scheduled>>
    /\ UNCHANGED <<mainVars, poolVars, shmVars>>

\* read_work has read a request and creates its request thread (one for each
\* connection in this model).  The reader is only cancelled after the close.
StartRequest(w) ==
    /\ wpc[w] \in {"serve", "close"}
    /\ LET c == sockfd[w] IN
         /\ request[c].pc = "none"
         /\ request' = [request EXCEPT ![c] =
                           [pc |-> "start", proc |-> w, server |-> NoServer]]
    /\ UNCHANGED <<main_fds, fd_array, faults, sem, link, scheduled>>
    /\ UNCHANGED <<mainVars, poolVars, shmVars, procVars>>

\* worker_await_flag became WATCH_OVER: the client left or the watchdog struck.
EndServe(w) ==
    /\ Step(w, "serve", "close")
    /\ UNCHANGED <<main_fds, fd_array, faults, sem, path, link, sockfd, request, scheduled>>
    /\ UNCHANGED <<mainVars, poolVars, shmVars>>

CloseClient(w) ==
    /\ Step(w, "close", "unlink")
    /\ sockfd' = [sockfd EXCEPT ![w] = NoFd]
    /\ UNCHANGED <<main_fds, fd_array, faults, sem, path, link, request, scheduled>>
    /\ UNCHANGED <<mainVars, poolVars, shmVars>>

\* remove(pathname) before the worker declares itself free.
UnlinkPathForgotten(w) ==
    /\ Step(w, "unlink", "wait")
    /\ UNCHANGED <<main_fds, fd_array, faults, sem, path, link, sockfd, request, scheduled>>
    /\ UNCHANGED <<mainVars, poolVars, shmVars>>

UnlinkPath(w) ==
    /\ Step(w, "unlink", "wait")
    /\ path' = [path EXCEPT ![w] = "absent"]
    /\ UNCHANGED <<main_fds, fd_array, faults, sem, link, sockfd, request, scheduled>>
    /\ UNCHANGED <<mainVars, poolVars, shmVars>>

WorkerSemWait(w) ==
    /\ Step(w, "wait", "free")
    /\ SemWait
    /\ UNCHANGED <<main_fds, fd_array, faults, path, link, sockfd, request, scheduled>>
    /\ UNCHANGED <<mainVars, poolVars, shmVars>>

\* The worker clears its own flag, found by its pid among the entries it scans,
\* posts the semaphore and goes back to receive_fd.
FreeWorker(w) ==
    /\ Step(w, "free", "remove")
    /\ IF w \in Scanned THEN ClearBusy(w) ELSE UNCHANGED worker_busy
    /\ SemPost
    /\ UNCHANGED <<main_fds, fd_array, faults, path, link, sockfd, request, scheduled>>
    /\ UNCHANGED <<worker_counter, worker_server, mainVars, poolVars>>

\* A process that ends: its sockets close, its threads are gone; shared memory
\* and the semaphore stay as they are.
Exit(w) ==
    /\ wpc' = [wpc EXCEPT ![w] = "dead"]
    /\ path' = [path EXCEPT ![w] = IF @ = "listening" THEN "bound" ELSE @]
    /\ link' = [link EXCEPT ![w] = <<>>]
    /\ sockfd' = [sockfd EXCEPT ![w] = NoFd]
    /\ request' = [c \in Conns |-> IF request[c].proc = w THEN [request[c] EXCEPT !.pc = "done"]
                                                        ELSE request[c]]
    /\ UNCHANGED <<main_fds, fd_array, faults, sem, scheduled>>
    /\ UNCHANGED <<mainVars, poolVars, shmVars>>

\* A call of the worker failed (exit), or a signal struck, SIGPIPE on a client
\* that has left above all.
WorkerDies(w) ==
    /\ wpc[w] # "dead"
    /\ Cardinality(Dead) < MaxDeaths
    /\ Exit(w)

\* The main process is gone without having sent anything on the connection that
\* was accepted: recvmsg returns no control message, and start_worker exits.
ReceiveEof(w) ==
    /\ wpc[w] = "recv"
    /\ Head(link[w]) = NoFd
    /\ dpc = "killed"
    /\ Exit(w)
-----------------------------------------------------------------------------
(* A request thread: the part of request_work that uses shared memory      *)

RequestSemWait(c) ==
    /\ request[c].pc = "start"
    /\ SemWait
    /\ request' = [request EXCEPT ![c].pc = "lookup"]
    /\ UNCHANGED <<main_fds, fd_array, faults, link, scheduled>>
    /\ UNCHANGED <<mainVars, poolVars, shmVars, procVars>>

\* It keeps the address of its worker's entry of worker_server, and posts.
RequestSemPost(c) ==
    /\ request[c].pc = "lookup"
    /\ SemPost
    /\ request' = [request EXCEPT ![c].pc = "remote"]
    /\ UNCHANGED <<main_fds, fd_array, faults, link, scheduled>>
    /\ UNCHANGED <<mainVars, poolVars, shmVars, procVars>>

\* Only then does it read the entry, and connects to the server it finds there.
RequestConnect(c) ==
    /\ request[c].pc = "remote"
    /\ request' = [request EXCEPT ![c].pc = "done",
                                  ![c].server = worker_server[request[c].proc]]
    /\ UNCHANGED <<main_fds, fd_array, faults, sem, link, scheduled>>
    /\ UNCHANGED <<mainVars, poolVars, shmVars, procVars>>
-----------------------------------------------------------------------------
Pool == \/ GetFd \/ PoolSemWait \/ NoWorkerAvailable \/ SelectWorker
        \/ ConnectWorker \/ SendMsg \/ SendMsgFails \/ SendMsgKills \/ CloseMainSide

Worker(w) == \/ RemovePath(w) \/ Bind(w) \/ Listen(w) \/ AcceptLink(w) \/ ReceiveFd(w)
             \/ StartRequest(w) \/ EndServe(w) \/ CloseClient(w) \/ UnlinkPath(w)
             \/ WorkerSemWait(w) \/ FreeWorker(w) \/ WorkerDies(w) \/ ReceiveEof(w)

Request(c) == RequestSemWait(c) \/ RequestSemPost(c) \/ RequestConnect(c)

Next == \/ AddFdToArray
        \/ Pool
        \/ \E c \in Conns : AcceptConnection(c) \/ Request(c)
        \/ \E w \in Workers : Worker(w)

Spec == Init /\ [][Next]_vars
-----------------------------------------------------------------------------
(* Fairness.  A thread that can run does run.  A thread that waits on the    *)
(* semaphore is not overtaken for ever, although the manager takes it again  *)
(* and again while no worker is free.  Every connection ends: EndServe is    *)
(* what the watchdog and the reader are there for.  Nothing is assumed of    *)
(* clients, of failures or of deaths.                                        *)
Fairness ==
    /\ WF_vars(AddFdToArray)
    /\ WF_vars(Pool /\ ~SendMsgFails)
    /\ SF_vars(PoolSemWait)
    /\ \A w \in Workers :
         /\ WF_vars(\/ RemovePath(w) \/ Bind(w) \/ Listen(w) \/ AcceptLink(w)
                   \/ ReceiveFd(w) \/ EndServe(w) \/ CloseClient(w)
                   \/ UnlinkPath(w) \/ FreeWorker(w) \/ ReceiveEof(w))
         /\ SF_vars(WorkerSemWait(w))
    /\ \A c \in Conns : /\ WF_vars(RequestSemPost(c) \/ RequestConnect(c))
                        /\ SF_vars(RequestSemWait(c))

FairSpec == Spec /\ Fairness
-----------------------------------------------------------------------------
(* What the pool keeps true                                                  *)

RequestPcs == {"none", "start", "lookup", "remote", "done"}
RequestThreads == [pc : RequestPcs, proc : Workers \cup {0}, server : Servers \cup {NoServer}]

TypeOK ==
    /\ pending \in SUBSET Conns
    /\ new_sockfd \in Fds
    /\ main_fds \in SUBSET Conns
    /\ fd_array \in [Slots -> Fds]
    /\ dpc \in {"get", "wait", "scan", "connect", "sendmsg", "close", "killed"}
    /\ fd \in Fds
    /\ position \in Workers \cup {0}
    /\ faults \in 0 .. MaxSendFaults
    /\ sem \in {0, 1}
    /\ worker_busy \in [Workers -> {0, 1}]
    /\ worker_counter \in [Workers -> Nat]
    /\ worker_server \in [Workers -> Servers \cup {NoServer}]
    /\ wpc \in [Workers -> {"remove", "bind", "listen", "accept", "recv", "serve",
                            "close", "unlink", "wait", "free", "dead"}]
    /\ path \in [Workers -> {"absent", "bound", "listening"}]
    /\ link \in [Workers -> Seq(Fds)]
    /\ sockfd \in [Workers -> Fds]
    /\ request \in [Conns -> RequestThreads]
    /\ scheduled \in [Conns -> Servers \cup {NoServer}]

\* Where a connection is.
Queued(c)   == new_sockfd = c \/ \E i \in Slots : fd_array[i] = c
InHand(c)   == fd = c /\ dpc \in {"wait", "scan"}
Offered(c, w)  == fd = c /\ position = w /\ dpc \in {"connect", "sendmsg"}
InFlight(c, w) == \E k \in DOMAIN link[w] : link[w][k] = c

\* Worker w has been chosen and not offered its connection, or is not done with it.
Engaged(w) == \/ position = w /\ dpc \in {"connect", "sendmsg"}
              \/ link[w] # <<>>
              \/ sockfd[w] # NoFd
              \/ wpc[w] \in {"recv", "serve", "close", "unlink", "wait", "free"}

\* add_fd_to_array, get_fd, send_fd, close_connection: the main process has a
\* descriptor of a connection open exactly while the connection is queued or in
\* the manager's hands.  None is closed before the worker has been sent it, and
\* none is left open for ever.
NoDescriptorLeak ==
    main_fds = {c \in Conns : Queued(c) \/ fd = c}

\* worker_busy (types.h: ready 0, busy 1): a live worker that the manager may
\* pick has nothing of an earlier connection left, neither a descriptor, nor one
\* in flight to it, nor the socket file of the listener it no longer reads.
FreeWorkerIsClean ==
    \A w \in Scanned : worker_busy[w] = 0 =>
        /\ ~Engaged(w)
        /\ path[w] = "listening" => wpc[w] = "accept"

\* A first connect of send_fd reaches the listener the worker is about to accept
\* on, never the one left over from its previous connection.
HandoverToFreshListener ==
    \A w \in Workers :
        dpc = "connect" /\ position = w /\ path[w] = "listening" /\ link[w] = <<>>
            => wpc[w] = "accept"

\* The semaphore admits one thread of all the processes to shared memory, and is
\* at 0 while one is inside; after a death it may stay at 0.
Freeing(w)   == wpc[w] = "free"
LookingUp(c) == request[c].pc = "lookup"

SemaphoreExcludes ==
    /\ dpc = "scan" =>
         /\ sem = 0
         /\ \A w \in Workers : ~Freeing(w)
         /\ \A c \in Conns : ~LookingUp(c)
    /\ \A w \in Workers : Freeing(w) =>
         /\ sem = 0
         /\ \A v \in Workers : Freeing(v) => v = w
         /\ \A c \in Conns : ~LookingUp(c)
    /\ \A c \in Conns : LookingUp(c) =>
         /\ sem = 0
         /\ \A d \in Conns : LookingUp(d) => d = c

\* While a worker serves a connection, its entry of worker_server is the server
\* the scheduler returned for that connection: the manager does not reuse it.
ServedByItsServer ==
    \A w \in Workers : sockfd[w] # NoFd => worker_server[w] = scheduled[sockfd[w]]
-----------------------------------------------------------------------------
(* The pool implements Dispatch                                              *)

OwnerOf(c) == {w \in Workers : Offered(c, w) \/ InFlight(c, w) \/ sockfd[w] = c}

StageOf(c) == CASE c \in pending                          -> "pending"
                [] Queued(c) \/ InHand(c)                  -> "waiting"
                [] \E w \in Workers : sockfd[w] = c       -> "served"
                [] \E w \in Workers : Offered(c, w) \/ InFlight(c, w) -> "given"
                [] OTHER                                   -> "closed"

Promise == INSTANCE Dispatch WITH
    Procs   <- Workers,
    Manager <- 0,
    NoProc  <- -1,
    stage   <- [c \in Conns |-> StageOf(c)],
    owner   <- [c \in Conns |-> IF OwnerOf(c) = {} THEN -1 ELSE CHOOSE w \in OwnerOf(c) : TRUE],
    dead    <- Dead \cup (IF dpc = "killed" THEN {0} ELSE {})

\* Every step of the pool is a step of Dispatch or changes nothing it shows: a
\* connection is given to one worker, once, and is lost only with a process.
ImplementsDispatch == Promise!DSpec
-----------------------------------------------------------------------------
(* What must eventually happen                                               *)

\* An accepted connection is handed to a worker, served and closed.
EveryConnectionServed ==
    \A c \in Conns : new_sockfd = c ~> StageOf(c) = "closed" /\ c \notin main_fds

\* A worker that was marked busy becomes free again.
EveryWorkerReturns ==
    \A w \in Workers : worker_busy[w] = 1 ~> worker_busy[w] = 0

\* send_fd keeps trying only because the worker may not be ready yet: the manager
\* gets rid of every connection it takes, and goes on to the next.
ManagerMovesOn ==
    \A c \in Conns : fd = c ~> fd # c
=============================================================================
