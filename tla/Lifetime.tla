------------------------------ MODULE Lifetime ------------------------------
(***************************************************************************)
(* A worker process from one connection to the next.                       *)
(*                                                                         *)
(* start_worker receives the descriptor of a connection, starts its        *)
(* threads, waits for its end, closes the descriptor, destroys and cancels *)
(* what it has started, and receives the next one.  Descriptors are        *)
(* numbers, the lowest free one is taken, and a number that is closed may  *)
(* be another file soon; the Worker structure is memory that may be        *)
(* another connection's soon.  A cancelled thread ends where it next calls *)
(* read, write, pthread_cond_wait or nanosleep; request threads are not    *)
(* cancelled, and an error of any kind leaves their socket open.           *)
(*                                                                         *)
(* What the threads do with requests, locks and signals while their        *)
(* connection lasts is in Worker.                                          *)
(***************************************************************************)
EXTENDS Integers, FiniteSets, FiniteSetsExt

CONSTANTS MaxConns,           \* bound: connections handed to this worker
          MaxRequests,        \* bound: requests of one connection
          Limit,              \* descriptors a worker may have open, besides those it starts with
          max_thread_pchild   \* in heimdall_config.conf

ASSUME LifetimeAssumption == {MaxConns, MaxRequests, Limit, max_thread_pchild} \subseteq Nat

Conns    == 1 .. MaxConns
Requests == Conns \X (1 .. MaxRequests)
Blocks   == Conns              \* where malloc may put a Worker: where one was before, or not
Numbers  == 0 .. Limit         \* descriptors; 0 is none

\* An open file: what it is, for which connection, for which of its requests.
File(kind, c, k) == [kind |-> kind, conn |-> c, req |-> k]
NoFile    == File("none", 0, 0)
Client(c) == File("client", c, 0)

VARIABLES
    mainpc,       \* start_worker and receive_fd: where the main thread is
    conn,         \* the connection it is serving or has served last
    table,        \* the file behind each descriptor of the process
    block,        \* the block of each connection's Worker; 0 before it is given one
    sockfd, worker_await_flag,  \* two of the fields of each block
    cancelled,    \* the connections whose threads have been cancelled
    max_thr_request, ready,     \* the counter, and whether its mutex can be locked
    watchdog,     \* enable_watchdog of each connection
    reader, reading,            \* read_work: where it is, and the file it is blocked on
    writer,       \* write_work
    enqueued, dequeued,         \* the nodes each reader has put in, each writer taken out
    request, server             \* request_work: where each thread is, its descriptor

mainVars   == <<mainpc, conn, block, sockfd, cancelled, ready>>
readerVars == <<reader, reading, enqueued, max_thr_request>>
writerVars == <<writer, dequeued>>
vars == <<mainVars, table, worker_await_flag, readerVars, writerVars, watchdog, request, server>>

Init ==
    /\ mainpc = "listen" /\ conn = 0
    /\ table = [n \in 1 .. Limit |-> NoFile]
    /\ block = [c \in Conns |-> 0]
    /\ sockfd = [b \in Blocks |-> 0] /\ worker_await_flag = [b \in Blocks |-> FALSE]
    /\ cancelled = {}
    /\ max_thr_request = 0 /\ ready = FALSE
    /\ watchdog = [c \in Conns |-> "none"]
    /\ reader = [c \in Conns |-> "none"] /\ reading = [c \in Conns |-> NoFile]
    /\ writer = [c \in Conns |-> "none"]
    /\ enqueued = [c \in Conns |-> 0] /\ dequeued = [c \in Conns |-> 0]
    /\ request = [t \in Requests |-> "none"] /\ server = [t \in Requests |-> 0]

Full    == \A n \in DOMAIN table : table[n] # NoFile
Lowest  == Min({n \in DOMAIN table : table[n] = NoFile})
Open(f) == table' = [table EXCEPT ![Lowest] = f]
Close(n) == table' = [table EXCEPT ![n] = NoFile]
-----------------------------------------------------------------------------
(* The main thread                                                         *)

\* receive_fd opens a socket, accepts the pool manager's connection, and receives the
\* client.  It closes neither of the two.  Where the table is full the worker exits.
Receive(at, next, f) ==
    /\ mainpc = at
    /\ IF Full THEN mainpc' = "exited" /\ UNCHANGED table
               ELSE mainpc' = next /\ Open(f)
    /\ UNCHANGED <<conn, block, sockfd, cancelled, ready, worker_await_flag, readerVars,
                   writerVars, watchdog, request, server>>

UnixListen  == conn < MaxConns /\ Receive("listen", "accept", File("listener", conn + 1, 0))
UnixAccept  == Receive("accept", "receive", File("link", conn + 1, 0))
ReceiveFd   == Receive("receive", "start", Client(conn + 1))

NewWorkerUnset(c) ==
    \E b \in {c} \cup {block[d] : d \in 1 .. c - 1} :
        /\ block' = [block EXCEPT ![c] = b]
        /\ sockfd' = [sockfd EXCEPT ![b] = 0]
        /\ worker_await_flag' = [worker_await_flag EXCEPT ![b] = FALSE]

\* new_worker, in memory never used before or that of a Worker that has been freed, and
\* the descriptor it is given.
NewWorker(c) ==
    \E b \in {c} \cup {block[d] : d \in 1 .. c - 1} :
        /\ block' = [block EXCEPT ![c] = b]
        /\ sockfd' = [sockfd EXCEPT ![b] = CHOOSE n \in DOMAIN table : table[n] = Client(c)]
        /\ worker_await_flag' = [worker_await_flag EXCEPT ![b] = FALSE]

\* new_worker, and the three threads.
StartThreads ==
    LET c == conn + 1 IN
    /\ mainpc = "start"
    /\ mainpc' = "await" /\ conn' = c
    /\ NewWorker(c)
    /\ ready' = TRUE
    /\ watchdog' = [watchdog EXCEPT ![c] = "sleep"]
    /\ reader' = [reader EXCEPT ![c] = "loop"]
    /\ writer' = [writer EXCEPT ![c] = "look"]
    /\ UNCHANGED <<table, cancelled, reading, enqueued, max_thr_request, dequeued, request, server>>

\* The flag is up: close_connection.
CloseClient ==
    /\ mainpc = "await" /\ worker_await_flag[block[conn]]
    /\ mainpc' = "destroy"
    /\ Close(sockfd[block[conn]])
    /\ UNCHANGED <<conn, block, sockfd, cancelled, ready, worker_await_flag, readerVars,
                   writerVars, watchdog, request, server>>

\* The destruction of a condition waits for the threads that wait for it: a reader at its
\* limit, whom nobody signals any more.
DestroyLimit ==
    /\ mainpc = "destroy" /\ reader[conn] # "limited"
    /\ mainpc' = "cancel"
    /\ max_thr_request' = 0 /\ ready' = FALSE
    /\ UNCHANGED <<conn, block, sockfd, cancelled, table, worker_await_flag, reader, reading,
                   enqueued, writerVars, watchdog, request, server>>

CancelNobody ==
    /\ mainpc = "cancel"
    /\ mainpc' = "listen"
    /\ UNCHANGED <<conn, block, sockfd, cancelled, ready, table, worker_await_flag, readerVars,
                   writerVars, watchdog, request, server>>

CancelAndJoin ==
    /\ mainpc = "cancel"
    /\ writer[conn] = "ended"
    /\ mainpc' = "listen"
    /\ cancelled' = cancelled \cup {conn}
    /\ UNCHANGED <<conn, block, sockfd, ready, table, worker_await_flag, readerVars,
                   writerVars, watchdog, request, server>>

\* pthread_cancel of the three, free(worker), worker_busy.
CancelThreads ==
    /\ mainpc = "cancel"
    /\ mainpc' = "listen"
    /\ cancelled' = cancelled \cup {conn}
    /\ UNCHANGED <<conn, block, sockfd, ready, table, worker_await_flag, readerVars,
                   writerVars, watchdog, request, server>>

MainStep == UnixListen \/ UnixAccept \/ ReceiveFd \/ StartThreads
            \/ CloseClient \/ DestroyLimit \/ CancelThreads
-----------------------------------------------------------------------------
(* The watchdog, and the end a connection is given                         *)

\* The Worker of c is wherever it was, and may be another connection's.
EndConnection(c) == worker_await_flag' = [worker_await_flag EXCEPT ![block[c]] = TRUE]

\* nanosleep returns, and the timeout is over.
WatchdogWakes(c) ==
    /\ watchdog[c] = "sleep" /\ c \notin cancelled
    /\ watchdog' = [watchdog EXCEPT ![c] = "over"]
    /\ UNCHANGED <<mainVars, table, worker_await_flag, readerVars, writerVars, request, server>>

WatchOver(c) ==
    /\ watchdog[c] = "over"
    /\ watchdog' = [watchdog EXCEPT ![c] = "ended"]
    /\ EndConnection(c)
    /\ UNCHANGED <<mainVars, table, readerVars, writerVars, request, server>>
-----------------------------------------------------------------------------
(* The reader                                                              *)

ReadLimit(c) ==
    /\ reader[c] = "loop"
    /\ IF max_thr_request > max_thread_pchild
       THEN reader' = [reader EXCEPT ![c] = "limited"] /\ UNCHANGED enqueued
       ELSE /\ reader' = [reader EXCEPT ![c] = "read"]
            /\ enqueued' = [enqueued EXCEPT ![c] = @ + 1]
    /\ UNCHANGED <<mainVars, table, worker_await_flag, reading, max_thr_request, writerVars, watchdog,
                   request, server>>

\* read is called with the descriptor the Worker holds now.  What it blocks on stays the
\* same, whatever becomes of the number.
CallRead(c) ==
    LET file == table[sockfd[block[c]]] IN
    /\ reader[c] = "read" /\ c \notin cancelled
    /\ reader' = [reader EXCEPT ![c] = IF file = NoFile THEN "failed" ELSE "blocked"]
    /\ reading' = [reading EXCEPT ![c] = file]
    /\ UNCHANGED <<mainVars, table, worker_await_flag, enqueued, max_thr_request, writerVars, watchdog,
                   request, server>>

\* A request has come, or the end of the stream or an error.
ReadReturns(c) ==
    /\ reader[c] = "blocked"
    /\ \E end \in {"failed"} \cup IF enqueued[c] <= MaxRequests THEN {"got"} ELSE {} :
         reader' = [reader EXCEPT ![c] = end]
    /\ reading' = [reading EXCEPT ![c] = NoFile]
    /\ UNCHANGED <<mainVars, table, worker_await_flag, enqueued, max_thr_request, writerVars, watchdog,
                   request, server>>

\* A mutex that has been destroyed cannot be locked.
StartRequest(c) ==
    /\ reader[c] = "got"
    /\ request' = [request EXCEPT ![<<c, enqueued[c]>>] = "started"]
    /\ IF ready THEN max_thr_request' = max_thr_request + 1 /\ reader' = [reader EXCEPT ![c] = "loop"]
                ELSE UNCHANGED max_thr_request /\ reader' = [reader EXCEPT ![c] = "ended"]
    /\ UNCHANGED <<mainVars, table, worker_await_flag, reading, enqueued, writerVars, watchdog, server>>

ReadFails(c) ==
    /\ reader[c] = "failed"
    /\ reader' = [reader EXCEPT ![c] = "ended"]
    /\ EndConnection(c)
    /\ UNCHANGED <<mainVars, table, reading, enqueued, max_thr_request, writerVars, watchdog, request,
                   server>>
-----------------------------------------------------------------------------
(* The writer                                                              *)

\* get_front.  An empty queue is looked at again and again, and nothing there ends a
\* thread that has been cancelled.
LookAtQueue(c) ==
    /\ writer[c] = "look" /\ dequeued[c] < enqueued[c]
    /\ writer' = [writer EXCEPT ![c] = "wait"]
    /\ UNCHANGED <<mainVars, table, worker_await_flag, readerVars, dequeued, watchdog, request, server>>

\* The header of the front node is there: write, with the descriptor the Worker holds now.
Write(c) ==
    LET file == table[sockfd[block[c]]] IN
    /\ writer[c] = "wait" /\ c \notin cancelled
    /\ dequeued[c] < MaxRequests /\ request[<<c, dequeued[c] + 1>>] \in {"answered", "closed"}
    /\ writer' = [writer EXCEPT ![c] = IF file = NoFile THEN "ended" ELSE "look"]
    /\ dequeued' = [dequeued EXCEPT ![c] = IF file = NoFile THEN @ ELSE @ + 1]
    /\ UNCHANGED <<mainVars, table, worker_await_flag, readerVars, watchdog, request, server>>

\* Where each of the three may be when it is cancelled.
ThreadCancelled(c) ==
    /\ c \in cancelled
    /\ \/ /\ reader[c] \in {"read", "blocked", "limited"}
          /\ reader' = [reader EXCEPT ![c] = "ended"]
          /\ reading' = [reading EXCEPT ![c] = NoFile]
          /\ UNCHANGED <<writer, watchdog>>
       \/ /\ writer[c] = "wait"
          /\ writer' = [writer EXCEPT ![c] = "ended"]
          /\ UNCHANGED <<reader, reading, watchdog>>
       \/ /\ watchdog[c] = "sleep"
          /\ watchdog' = [watchdog EXCEPT ![c] = "ended"]
          /\ UNCHANGED <<reader, reading, writer>>
    /\ UNCHANGED <<mainVars, table, worker_await_flag, enqueued, max_thr_request, dequeued, request,
                   server>>
-----------------------------------------------------------------------------
(* The request threads                                                     *)

\* create_client_socket, if there is a descriptor left.
OpenServer(t) ==
    /\ request[t] = "started"
    /\ IF Full
       THEN request' = [request EXCEPT ![t] = "refused"] /\ UNCHANGED <<table, server>>
       ELSE /\ request' = [request EXCEPT ![t] = "open"]
            /\ server' = [server EXCEPT ![t] = Lowest]
            /\ Open(File("server", t[1], t[2]))
    /\ UNCHANGED <<mainVars, worker_await_flag, readerVars, writerVars, watchdog>>

\* The header comes.  On any error, here or in the body, the thread returns and its socket
\* is left open: it stays in the state it is in.
Answer(t) ==
    /\ request[t] = "open"
    /\ request' = [request EXCEPT ![t] = "answered"]
    /\ UNCHANGED <<mainVars, table, worker_await_flag, readerVars, writerVars, watchdog, server>>

CloseServerForgotten(t) ==
    /\ request[t] = "answered"
    /\ request' = [request EXCEPT ![t] = "closed"]
    /\ server' = [server EXCEPT ![t] = 0]
    /\ UNCHANGED <<mainVars, table, worker_await_flag, readerVars, writerVars, watchdog>>

\* The body has come.
CloseServer(t) ==
    /\ request[t] = "answered"
    /\ request' = [request EXCEPT ![t] = "closed"]
    /\ server' = [server EXCEPT ![t] = 0]
    /\ Close(server[t])
    /\ UNCHANGED <<mainVars, worker_await_flag, readerVars, writerVars, watchdog>>
-----------------------------------------------------------------------------
Next == \/ MainStep
        \/ \E c \in Conns : \/ WatchdogWakes(c) \/ WatchOver(c)
                            \/ ReadLimit(c) \/ CallRead(c) \/ ReadReturns(c) \/ StartRequest(c)
                            \/ ReadFails(c) \/ LookAtQueue(c) \/ Write(c) \/ ThreadCancelled(c)
        \/ \E t \in Requests : OpenServer(t) \/ Answer(t) \/ CloseServer(t)

Spec == Init /\ [][Next]_vars

\* The main thread goes on where nothing holds it up.
FairSpec == Spec /\ WF_vars(MainStep)
-----------------------------------------------------------------------------
(* What a worker keeps from one connection to the next                     *)

Files == {NoFile} \cup {File(kind, c, 0) : kind \in {"listener", "link", "client"}, c \in Conns}
         \cup {File("server", t[1], t[2]) : t \in Requests}

TypeOK ==
    /\ mainpc \in {"listen", "accept", "receive", "start", "await", "destroy", "cancel",
                   "exited"}
    /\ conn \in 0 .. MaxConns
    /\ table \in [1 .. Limit -> Files]
    /\ block \in [Conns -> Blocks \cup {0}] /\ \A c \in 1 .. conn : block[c] # 0
    /\ sockfd \in [Blocks -> Numbers] /\ \A c \in 1 .. conn : sockfd[block[c]] \in DOMAIN table
    /\ worker_await_flag \in [Blocks -> BOOLEAN]
    /\ cancelled \subseteq 1 .. conn /\ ready \in BOOLEAN
    /\ max_thr_request \in 0 .. MaxConns * MaxRequests
    /\ watchdog \in [Conns -> {"none", "sleep", "over", "ended"}]
    /\ reader \in [Conns -> {"none", "loop", "limited", "read", "blocked", "got", "failed", "ended"}]
    /\ reading \in [Conns -> Files]
    /\ writer \in [Conns -> {"none", "look", "wait", "ended"}]
    /\ enqueued \in [Conns -> 0 .. MaxRequests + 1]
    /\ \A c \in Conns : dequeued[c] \in 0 .. enqueued[c]
    /\ request \in [Requests -> {"none", "started", "refused", "open", "answered", "closed"}]
    /\ server \in [Requests -> Numbers]

\* receive_fd, close_connection, request_work: the descriptors in use are the two that each
\* connection leaves behind, the client of the connection that is served, and the sockets
\* of the request threads that have not come to their end, each once; nothing else is lost, and no
\* thread closes what has become another's.
DescriptorsAccounted ==
    LET left == {File("listener", c, 0) : c \in 1 .. conn} \cup {File("link", c, 0) : c \in 1 .. conn}
        next == CASE mainpc = "accept"  -> {File("listener", conn + 1, 0)}
                  [] mainpc = "receive" -> {File(kind, conn + 1, 0) : kind \in {"listener", "link"}}
                  [] mainpc = "start"   -> {File(kind, conn + 1, 0) :
                                              kind \in {"listener", "link", "client"}}
                  [] mainpc = "await" -> {Client(conn)}
                  [] OTHER -> {}
        servers == {File("server", t[1], t[2]) :
                      t \in {t \in Requests : request[t] \in {"open", "answered"}}}
    IN  \A f \in Files \ {NoFile} :
            mainpc # "exited" =>
                Cardinality({n \in DOMAIN table : table[n] = f}) =
                    IF f \in left \cup next \cup servers THEN 1 ELSE 0

\* start_worker, read_work, write_work: whatever number a client has been given in this
\* process before, and wherever its Worker is, no thread reads, or is about to read or
\* write, the client of another connection.
ThreadsKeepToTheirClient ==
    \A c \in Conns :
        /\ reading[c].kind = "client" => reading[c] = Client(c)
        /\ c \notin cancelled /\ (reader[c] = "read" \/ writer[c] = "wait") =>
              \A d \in Conns \ {c} : table[sockfd[block[c]]] # Client(d)

\* start_worker: once a connection is over the worker comes to receive the next one, unless
\* its reader has run into max_thread_pchild.
WorkerReturns ==
    mainpc = "destroy" ~> \/ mainpc \in {"listen", "exited"}
                          \/ mainpc = "destroy" /\ reader[conn] = "limited"
=============================================================================
