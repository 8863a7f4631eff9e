--------------------------- MODULE LifetimeProofs ---------------------------
(***************************************************************************)
(* What Lifetime keeps true, for every number of connections, requests and *)
(* descriptors, and every limit of threads.                                *)
(*                                                                         *)
(* The file table holds exactly the files that the main thread and the     *)
(* request threads account for, each once (TableInv), and a thread that    *)
(* has not been cancelled is one of the connection being served (MainInv): *)
(* its client is the only one in the table.                                *)
(***************************************************************************)
EXTENDS Lifetime, FiniteSetTheorems, WellFoundedInduction, TLAPS

\* The states in which the main thread has a connection, and is getting one.
Serving == {"await", "destroy", "cancel"}
Getting == {"accept", "receive", "start"}

MainInv ==
    /\ mainpc \in Getting => conn < MaxConns
    /\ mainpc \in Serving => conn >= 1 /\ cancelled = 1 .. conn - 1
    /\ mainpc \notin Serving => cancelled = 1 .. conn
    /\ \A c \in Conns : reader[c] # "none" \/ writer[c] # "none" \/ watchdog[c] # "none" => c <= conn

\* Where the reader has a node without a request.
Reading == {"read", "blocked", "got", "failed"}

ThreadInv ==
    /\ dequeued \in [Conns -> 0 .. MaxRequests + 1]
    /\ \A c \in Conns :
          /\ reader[c] = "none" => enqueued[c] = 0
          /\ reader[c] \in {"loop", "got"} => enqueued[c] <= MaxRequests
          /\ reader[c] \in Reading => enqueued[c] >= 1
          /\ writer[c] = "wait" => dequeued[c] < enqueued[c]
          /\ reading[c].kind = "client" => reading[c] = Client(c)

\* A node has a request once the reader has read it, and each request is counted once at most.
Asked == {t \in Requests : request[t] # "none"}
RequestInv ==
    /\ \A t \in Requests :
          \/ t[2] > enqueued[t[1]]
          \/ t[2] = enqueued[t[1]] /\ reader[t[1]] \in Reading
          => request[t] = "none"
    /\ max_thr_request <= Cardinality(Asked)

\* The files somebody accounts for.
InUse(f) ==
    \/ f.kind \in {"listener", "link"} /\ f.conn <= conn
    \/ f.kind = "listener" /\ f.conn = conn + 1 /\ mainpc \in Getting
    \/ f.kind = "link"     /\ f.conn = conn + 1 /\ mainpc \in {"receive", "start"}
    \/ f.kind = "client"   /\ f.conn = conn + 1 /\ mainpc = "start"
    \/ f.kind = "client"   /\ f.conn = conn     /\ mainpc = "await"
    \/ f.kind = "server"   /\ request[<<f.conn, f.req>>] \in {"open", "answered"}

\* No file is in the table twice.
Once == \A m, n \in 1 .. Limit : table[m] = table[n] /\ table[m] # NoFile => m = n
Present(f) == \E n \in 1 .. Limit : table[n] = f

TableInv ==
    mainpc # "exited" =>
        /\ Once
        /\ \A f \in Files \ {NoFile} : Present(f) <=> InUse(f)
        /\ \A t \in Requests : request[t] \in {"open", "answered"} =>
              server[t] \in 1 .. Limit /\ table[server[t]] = File("server", t[1], t[2])
        /\ mainpc = "await" => table[sockfd[block[conn]]] = Client(conn)

IInv == TypeOK /\ MainInv /\ ThreadInv /\ RequestInv /\ TableInv
-----------------------------------------------------------------------------
LEMMA Params ==
    /\ MaxConns \in Nat /\ MaxRequests \in Nat /\ Limit \in Nat /\ max_thread_pchild \in Nat
    /\ Requests = Conns \X (1 .. MaxRequests) /\ Conns = 1 .. MaxConns
    /\ Blocks = Conns /\ Numbers = 0 .. Limit
BY LifetimeAssumption DEF Requests, Conns, Blocks, Numbers

LEMMA BlockFacts ==
    TypeOK => /\ conn \in 0 .. MaxConns /\ DOMAIN table = 1 .. Limit
              /\ block \in [Conns -> Blocks \cup {0}] /\ sockfd \in [Blocks -> Numbers]
              /\ worker_await_flag \in [Blocks -> BOOLEAN]
              /\ \A d \in 1 .. conn : /\ d \in Conns /\ block[d] \in Blocks
                                     /\ sockfd[block[d]] \in 1 .. Limit
<1> SUFFICES ASSUME TypeOK
             PROVE  \A d \in 1 .. conn : /\ d \in Conns /\ block[d] \in Blocks
                                        /\ sockfd[block[d]] \in 1 .. Limit
    BY DEF TypeOK
<1>1. /\ conn \in 0 .. MaxConns /\ DOMAIN table = 1 .. Limit
      /\ block \in [Conns -> Blocks \cup {0}]
      /\ \A d \in 1 .. conn : block[d] # 0 /\ sockfd[block[d]] \in DOMAIN table
      BY DEF TypeOK
<1> QED
    BY <1>1, Params

LEMMA RequestsFinite ==
    \A S \in SUBSET Requests : IsFiniteSet(S) /\ Cardinality(S) <= MaxConns * MaxRequests
<1> USE Params
<1>1. ASSUME NEW n \in Nat PROVE IsFiniteSet(1 .. n) /\ Cardinality(1 .. n) = n
  <2>1. 1 \in Int /\ n \in Int
        OBVIOUS
  <2>2. IsFiniteSet(1 .. n) /\ Cardinality(1 .. n) = IF 1 > n THEN 0 ELSE n - 1 + 1
        BY <2>1, FS_Interval
  <2> QED
      BY <2>2
<1>2. IsFiniteSet(Requests) /\ Cardinality(Requests) = MaxConns * MaxRequests
  <2>1. IsFiniteSet(Conns) /\ Cardinality(Conns) = MaxConns
        BY <1>1
  <2>2. IsFiniteSet(1 .. MaxRequests) /\ Cardinality(1 .. MaxRequests) = MaxRequests
        BY <1>1
  <2>3. /\ IsFiniteSet(Conns \X (1 .. MaxRequests))
        /\ Cardinality(Conns \X (1 .. MaxRequests)) = Cardinality(Conns) * Cardinality(1 .. MaxRequests)
        BY <2>1, <2>2, FS_Product
  <2> QED
      BY <2>1, <2>2, <2>3
<1> QED
    BY <1>2, FS_Subset
-----------------------------------------------------------------------------
(* The table of files                                                      *)

LEMMA NatMin ==
    ASSUME NEW T, T \subseteq Nat, T # {}
    PROVE  \E x \in T : \A y \in T : x <= y
<1> DEFINE R == {ss \in Nat \X Nat : ss[1] < ss[2]}
<1>1. IsWellFoundedOn(R, Nat)
      BY NatLessThanWellFounded DEF OpToRel
<1>2. PICK x \in T : \A y \in T : ~ (<<y, x>> \in R)
      BY <1>1, WFMin
<1>3. \A y \in T : ~(y < x)
  <2> SUFFICES ASSUME NEW y \in T, y < x PROVE FALSE
      OBVIOUS
  <2>1. <<y, x>> \in Nat \X Nat
        OBVIOUS
  <2>2. <<y, x>> \in R
        BY <2>1
  <2> QED
      BY <1>2, <2>2
<1>4. x \in Nat /\ \A y \in T : y \in Nat
      OBVIOUS
<1> QED
    BY <1>3, <1>4

\* The lowest descriptor is a free one, if there is one.
LEMMA LowestIsFree ==
    ASSUME TypeOK, ~Full
    PROVE  Lowest \in 1 .. Limit /\ table[Lowest] = NoFile
<1> DEFINE T == {n \in DOMAIN table : table[n] = NoFile}
<1>1. DOMAIN table = 1 .. Limit
      BY DEF TypeOK
<1>2. T \subseteq Nat /\ T # {}
      BY <1>1 DEF Full
<1> HIDE DEF T
<1>3. \E x \in T : \A y \in T : x <= y
      BY <1>2, NatMin
<1>4. Min(T) \in T
      BY <1>3 DEF Min
<1> QED
    BY <1>1, <1>4 DEF T, Lowest

LEMMA FilesAre ==
    \A f \in Files \ {NoFile} :
        \/ f.kind \in {"listener", "link", "client"} /\ f.conn \in Conns /\ f.req = 0
           /\ f = File(f.kind, f.conn, 0)
        \/ f.kind = "server" /\ <<f.conn, f.req>> \in Requests /\ f = File("server", f.conn, f.req)
BY DEF Files, NoFile, File, Requests

LEMMA FilesHave ==
    /\ NoFile \in Files
    /\ \A c \in Conns : \A kind \in {"listener", "link", "client"} :
          File(kind, c, 0) \in Files \ {NoFile}
    /\ \A t \in Requests : File("server", t[1], t[2]) \in Files \ {NoFile}
<1>1. \A kind, c, k : kind # "none" => File(kind, c, k) # NoFile
      BY DEF File, NoFile
<1>2. \A c \in Conns : \A kind \in {"listener", "link", "client"} : File(kind, c, 0) \in Files
      BY DEF Files
<1>3. \A t \in Requests : File("server", t[1], t[2]) \in Files
      BY DEF Files
<1> QED
    BY <1>1, <1>2, <1>3 DEF Files

\* What opening a file that is not there does to the table, and closing one that is.
LEMMA Opens ==
    ASSUME TypeOK, Once, ~Full, NEW f \in Files \ {NoFile}, ~Present(f), Open(f)
    PROVE  /\ table' \in [1 .. Limit -> Files]
           /\ Once'
           /\ \A g \in Files \ {NoFile} : Present(g)' <=> Present(g) \/ g = f
           /\ \A n \in 1 .. Limit : table[n] # NoFile => table'[n] = table[n]
           /\ Lowest \in 1 .. Limit /\ table'[Lowest] = f
<1> DEFINE low == Lowest
<1>1. low \in 1 .. Limit /\ table[low] = NoFile
      BY LowestIsFree
<1>2. table' = [table EXCEPT ![low] = f] /\ table \in [1 .. Limit -> Files]
      BY DEF Open, TypeOK
<1> HIDE DEF low
<1>3. table'[low] = f /\ \A n \in 1 .. Limit \ {low} : table'[n] = table[n]
      BY <1>1, <1>2
<1>4. Once'
      BY <1>3 DEF Once, Present
<1>5. \A g \in Files \ {NoFile} : Present(g)' <=> Present(g) \/ g = f
      BY <1>1, <1>3 DEF Present
<1>6. table' \in [1 .. Limit -> Files]
      BY <1>1, <1>2
<1> QED
    BY <1>1, <1>3, <1>4, <1>5, <1>6 DEF low

LEMMA Closes ==
    ASSUME TypeOK, Once, NEW n \in 1 .. Limit, table[n] # NoFile, Close(n)
    PROVE  /\ table' \in [1 .. Limit -> Files]
           /\ Once'
           /\ \A g \in Files \ {NoFile} : Present(g)' <=> Present(g) /\ g # table[n]
           /\ \A m \in 1 .. Limit \ {n} : table'[m] = table[m]
<1>1. table' = [table EXCEPT ![n] = NoFile] /\ table \in [1 .. Limit -> Files]
      BY DEF Close, TypeOK
<1>2. table'[n] = NoFile /\ \A m \in 1 .. Limit \ {n} : table'[m] = table[m]
      BY <1>1
<1>3. Once'
      BY <1>2 DEF Once
<1>4. \A g \in Files \ {NoFile} : Present(g)' <=> Present(g) /\ g # table[n]
      BY <1>2 DEF Present, Once
<1>5. table' \in [1 .. Limit -> Files]
      BY <1>1, FilesHave
<1> QED
    BY <1>2, <1>3, <1>4, <1>5
-----------------------------------------------------------------------------
(* The main thread                                                         *)

LEMMA ReceivePreserves ==
    ASSUME IInv, NEW at, NEW next, NEW kind,
           \/ at = "listen"  /\ next = "accept"  /\ kind = "listener" /\ conn < MaxConns
           \/ at = "accept"  /\ next = "receive" /\ kind = "link"
           \/ at = "receive" /\ next = "start"   /\ kind = "client",
           Receive(at, next, File(kind, conn + 1, 0))
    PROVE  IInv'
<1> USE Params
<1>1. PICK f : f = File(kind, conn + 1, 0)
      OBVIOUS
<1>2. /\ UNCHANGED <<conn, block, sockfd, cancelled, ready, worker_await_flag, readerVars,
                     writerVars, watchdog, request, server>>
      /\ mainpc = at
      BY DEF Receive
<1>3. conn \in 0 .. MaxConns - 1 /\ conn + 1 \in Conns
  <2>1. conn \in 0 .. MaxConns
        BY DEF IInv, TypeOK
  <2>2. conn < MaxConns
        BY <1>2 DEF IInv, MainInv, Getting
  <2> QED
      BY <2>1, <2>2
<1>4. CASE mainpc' = "exited" /\ UNCHANGED table
  <2>1. TypeOK'
        BY <1>2, <1>4 DEF IInv, TypeOK, readerVars, writerVars
  <2>2. MainInv' /\ ThreadInv' /\ RequestInv'
        BY <1>2, <1>4 DEF IInv, MainInv, ThreadInv, RequestInv, Asked, Serving, Getting, readerVars, writerVars
  <2> QED
      BY <1>4, <2>1, <2>2 DEF IInv, TableInv
<1>5. CASE mainpc' = next /\ ~Full /\ Open(f)
  <2>1. f \in Files \ {NoFile}
        BY <1>1, <1>3, FilesHave
  <2>2. ~InUse(f)
    <3>1. f.kind = kind /\ f.conn = conn + 1
          BY <1>1 DEF File
    <3> QED
        BY <1>2, <1>3, <3>1 DEF InUse, Getting
  <2>3. mainpc # "exited"
        BY <1>2
  <2>4. Once /\ ~Present(f)
        BY <2>1, <2>2, <2>3 DEF IInv, TableInv
  <2>5. /\ table' \in [1 .. Limit -> Files]
        /\ Once'
        /\ \A g \in Files \ {NoFile} : Present(g)' <=> Present(g) \/ g = f
        /\ \A n \in 1 .. Limit : table[n] # NoFile => table'[n] = table[n]
        BY <1>5, <2>1, <2>4, Opens DEF IInv
  <2>6. TypeOK'
        BY <1>2, <1>5, <2>5 DEF IInv, TypeOK, readerVars, writerVars
  <2>7. MainInv' /\ ThreadInv' /\ RequestInv'
        BY <1>2, <1>3, <1>5, ZenonT(30) DEF IInv, TypeOK, MainInv, ThreadInv, RequestInv, Asked, Serving, Getting, readerVars, writerVars
  <2>8. ASSUME NEW g \in Files \ {NoFile} PROVE Present(g)' <=> InUse(g)'
    <3>1. InUse(g)' <=> InUse(g) \/ g = f
          BY <1>1, <1>2, <1>3, <1>5, FilesAre DEF InUse, Getting, File
    <3> QED
        BY <2>3, <2>5, <3>1 DEF IInv, TableInv
  <2>9. \A t \in Requests : request'[t] \in {"open", "answered"} =>
              server'[t] \in 1 .. Limit /\ table'[server'[t]] = File("server", t[1], t[2])
        BY <1>2, <2>3, <2>5, FilesHave DEF IInv, TableInv
  <2> QED
      BY <1>5, <2>5, <2>6, <2>7, <2>8, <2>9 DEF IInv, TableInv
<1> QED
    BY <1>1, <1>4, <1>5 DEF Receive

LEMMA StartPreserves == ASSUME IInv, StartThreads PROVE IInv'
<1> USE Params
<1>1. PICK c : c = conn + 1
      OBVIOUS
<1>2. /\ mainpc = "start" /\ mainpc' = "await" /\ conn' = c /\ ready' = TRUE
      /\ watchdog' = [watchdog EXCEPT ![c] = "sleep"]
      /\ reader' = [reader EXCEPT ![c] = "loop"]
      /\ writer' = [writer EXCEPT ![c] = "look"]
      /\ UNCHANGED <<table, cancelled, reading, enqueued, max_thr_request, dequeued, request, server>>
      BY <1>1 DEF StartThreads
<1>3. PICK b \in {c} \cup {block[d] : d \in 1 .. c - 1} :
        /\ block' = [block EXCEPT ![c] = b]
        /\ sockfd' = [sockfd EXCEPT ![b] = CHOOSE n \in DOMAIN table : table[n] = Client(c)]
        /\ worker_await_flag' = [worker_await_flag EXCEPT ![b] = FALSE]
      BY <1>1, ZenonT(30) DEF StartThreads, NewWorker
<1>4. c \in Conns /\ c = conn + 1 /\ conn \in 0 .. MaxConns
  <2>1. conn \in 0 .. MaxConns
        BY DEF IInv, TypeOK
  <2>2. conn < MaxConns
        BY <1>2 DEF IInv, MainInv, Getting
  <2> QED
      BY <1>1, <2>1, <2>2
<1>5. b \in Blocks
  <2>1. \A d \in 1 .. conn : block[d] \in Blocks
        BY BlockFacts DEF IInv
  <2> QED
      BY <1>3, <1>4, <2>1
<1>6. PICK n : n = CHOOSE m \in DOMAIN table : table[m] = Client(c)
      OBVIOUS
<1>7. n \in 1 .. Limit /\ table[n] = Client(c)
  <2>1. Client(c) \in Files \ {NoFile}
        BY <1>4, FilesHave DEF Client
  <2>2. InUse(Client(c))
        BY <1>1, <1>2 DEF InUse, Client, File
  <2>3. Present(Client(c))
        BY <1>2, <2>1, <2>2 DEF IInv, TableInv
  <2>4. DOMAIN table = 1 .. Limit
        BY DEF IInv, TypeOK
  <2> QED
      BY <1>6, <2>3, <2>4 DEF Present
<1>8. /\ block' \in [Conns -> Blocks \cup {0}] /\ block'[c] = b
      /\ sockfd' \in [Blocks -> Numbers] /\ sockfd'[b] = n
      /\ \A d \in 1 .. conn : block'[d] = block[d] /\ d \in Conns
      /\ \A e \in Blocks \ {b} : sockfd'[e] = sockfd[e]
      /\ worker_await_flag' \in [Blocks -> BOOLEAN]
  <2>1. /\ block \in [Conns -> Blocks \cup {0}] /\ sockfd \in [Blocks -> Numbers]
        /\ worker_await_flag \in [Blocks -> BOOLEAN]
        BY BlockFacts DEF IInv
  <2>2. sockfd' = [sockfd EXCEPT ![b] = n]
        BY <1>3, <1>6
  <2>3. \A d \in 1 .. conn : d \in Conns /\ d # c
        BY <1>4
  <2>4. block' \in [Conns -> Blocks \cup {0}] /\ block'[c] = b /\ \A d \in 1 .. conn : block'[d] = block[d]
        BY <1>3, <1>4, <1>5, <2>1, <2>3
  <2>5. sockfd' \in [Blocks -> Numbers] /\ sockfd'[b] = n /\ \A e \in Blocks \ {b} : sockfd'[e] = sockfd[e]
        BY <1>5, <1>7, <2>1, <2>2
  <2>6. worker_await_flag' \in [Blocks -> BOOLEAN]
        BY <1>3, <1>5, <2>1
  <2> QED
      BY <2>3, <2>4, <2>5, <2>6
<1>9. \A d \in 1 .. conn' : block'[d] # 0 /\ sockfd'[block'[d]] \in DOMAIN table'
  <2>1. DOMAIN table' = 1 .. Limit
        BY <1>2 DEF IInv, TypeOK
  <2>2. \A d \in 1 .. conn : block[d] \in Blocks /\ sockfd[block[d]] \in 1 .. Limit
        BY BlockFacts DEF IInv
  <2>3. \A d \in 1 .. conn' : d = c \/ d \in 1 .. conn
        BY <1>2, <1>4
  <2>4. ASSUME NEW d \in 1 .. conn
        PROVE  block'[d] \in Blocks /\ sockfd'[block'[d]] \in 1 .. Limit
    <3>1. block'[d] = block[d] /\ block[d] \in Blocks /\ sockfd[block[d]] \in 1 .. Limit
          BY <1>8, <2>2
    <3>2. sockfd'[block[d]] \in 1 .. Limit
          BY <1>7, <1>8, <3>1
    <3> QED
        BY <3>1, <3>2
  <2>5. 0 \notin Blocks
        OBVIOUS
  <2> QED
      BY <1>5, <1>7, <1>8, <2>1, <2>3, <2>4, <2>5
<1>10. TypeOK'
  <2>1. /\ watchdog' \in [Conns -> {"none", "sleep", "over", "ended"}]
        /\ reader' \in [Conns -> {"none", "loop", "limited", "read", "blocked", "got", "failed", "ended"}]
        /\ writer' \in [Conns -> {"none", "look", "wait", "ended"}]
        BY <1>2, <1>4 DEF IInv, TypeOK
  <2>2. conn' \in 0 .. MaxConns /\ cancelled' \subseteq 1 .. conn'
    <3>1. conn \in 0 .. MaxConns /\ cancelled \subseteq 1 .. conn
          BY DEF IInv, TypeOK
    <3> QED
        BY <1>2, <1>4, <3>1
  <2> QED
      BY <1>2, <1>8, <1>9, <2>1, <2>2 DEF IInv, TypeOK
<1>11. MainInv'
  <2>1. cancelled = 1 .. conn
        BY <1>2 DEF IInv, MainInv, Serving
  <2>2. \A d \in Conns : d # c => reader'[d] = reader[d] /\ writer'[d] = writer[d] /\ watchdog'[d] = watchdog[d]
        BY <1>2 DEF IInv, TypeOK
  <2> QED
      BY <1>2, <1>4, <2>1, <2>2 DEF IInv, MainInv, Serving, Getting
<1>12. ThreadInv' /\ RequestInv'
  <2>1. reader[c] = "none" /\ enqueued[c] = 0
    <3>1. ~(c <= conn)
          BY <1>4
    <3> QED
        BY <1>4, <3>1 DEF IInv, MainInv, ThreadInv
  <2>2. \A d \in Conns : \/ d # c /\ reader'[d] = reader[d] /\ writer'[d] = writer[d]
                         \/ d = c /\ reader'[d] = "loop" /\ writer'[d] = "look"
        BY <1>2, <1>4 DEF IInv, TypeOK
  <2>3. ThreadInv'
    <3> SUFFICES ASSUME NEW d \in Conns
                 PROVE  /\ reader'[d] = "none" => enqueued[d] = 0
                        /\ reader'[d] \in {"loop", "got"} => enqueued[d] <= MaxRequests
                        /\ reader'[d] \in Reading => enqueued[d] >= 1
                        /\ writer'[d] = "wait" => dequeued[d] < enqueued[d]
        BY <1>2 DEF IInv, ThreadInv
    <3>1. CASE d # c
      <4>1. reader'[d] = reader[d] /\ writer'[d] = writer[d]
            BY <2>2, <3>1
      <4> QED
          BY <4>1 DEF IInv, ThreadInv
    <3>2. CASE d = c
      <4>1. reader'[d] = "loop" /\ writer'[d] = "look" /\ enqueued[d] = 0
            BY <2>1, <2>2, <3>2
      <4> QED
          BY <4>1 DEF Reading
    <3> QED
        BY <3>1, <3>2
  <2>4. ASSUME NEW u \in Requests,
               u[2] > enqueued'[u[1]] \/ (u[2] = enqueued'[u[1]] /\ reader'[u[1]] \in Reading)
        PROVE  request'[u] = "none"
    <3>1. /\ u[1] \in Conns /\ u[2] >= 1 /\ enqueued' = enqueued /\ request' = request
          BY <1>2
    <3>2. u[2] > enqueued[u[1]] \/ (u[2] = enqueued[u[1]] /\ reader[u[1]] \in Reading)
      <4>1. CASE u[1] # c
        <5>1. reader'[u[1]] = reader[u[1]]
              BY <2>2, <3>1, <4>1
        <5> QED
            BY <2>4, <3>1, <5>1
      <4>2. CASE u[1] = c
            BY <2>1, <3>1, <4>2
      <4> QED
          BY <4>1, <4>2
    <3> QED
        BY <3>1, <3>2 DEF IInv, RequestInv
  <2>5. RequestInv'
        BY <1>2, <2>4 DEF IInv, RequestInv, Asked
  <2> QED
      BY <2>3, <2>5
<1>13. TableInv'
  <2>1. \A g \in Files \ {NoFile} : Present(g)' <=> InUse(g)'
    <3> SUFFICES ASSUME NEW g \in Files \ {NoFile} PROVE Present(g)' <=> InUse(g)'
        OBVIOUS
    <3>1. InUse(g)' <=> InUse(g)
          BY <1>2, <1>4, FilesAre DEF InUse, Getting, Conns, Requests
    <3> QED
        BY <1>2, <3>1 DEF IInv, TableInv, Present
  <2>2. table'[sockfd'[block'[conn']]] = Client(c)
        BY <1>2, <1>7, <1>8
  <2> QED
      BY <1>2, <2>1, <2>2 DEF IInv, TableInv, Once
<1> QED
    BY <1>10, <1>11, <1>12, <1>13 DEF IInv

LEMMA CloseClientPreserves == ASSUME IInv, CloseClient PROVE IInv'
<1> USE Params
<1>1. PICK n : n = sockfd[block[conn]]
      OBVIOUS
<1>2. /\ mainpc = "await" /\ mainpc' = "destroy" /\ Close(n)
      /\ UNCHANGED <<conn, block, sockfd, cancelled, ready, worker_await_flag, readerVars,
                     writerVars, watchdog, request, server>>
      BY <1>1 DEF CloseClient
<1>3. conn \in 1 .. MaxConns /\ conn \in Conns /\ n \in 1 .. Limit /\ table[n] = Client(conn)
      BY <1>1, <1>2, BlockFacts DEF IInv, MainInv, Serving, TableInv
<1>4. Client(conn) \in Files \ {NoFile} /\ Once
      BY <1>2, <1>3, FilesHave DEF Client, IInv, TableInv
<1>5. /\ table' \in [1 .. Limit -> Files]
      /\ Once'
      /\ \A g \in Files \ {NoFile} : Present(g)' <=> Present(g) /\ g # table[n]
      /\ \A m \in 1 .. Limit \ {n} : table'[m] = table[m]
      BY <1>2, <1>3, <1>4, Closes DEF IInv
<1>6. TypeOK'
  <2>1. DOMAIN table' = DOMAIN table
        BY <1>5, BlockFacts DEF IInv
  <2> QED
      BY <1>2, <1>5, <2>1 DEF IInv, TypeOK, readerVars, writerVars
<1>7. MainInv' /\ ThreadInv' /\ RequestInv'
      BY <1>2 DEF IInv, MainInv, ThreadInv, RequestInv, Asked, Serving, Getting, readerVars, writerVars
<1>8. ASSUME NEW g \in Files \ {NoFile} PROVE Present(g)' <=> InUse(g)'
  <2>1. InUse(g)' <=> InUse(g) /\ g # Client(conn)
        BY <1>2, <1>3, FilesAre DEF InUse, Getting, Client, File
  <2> QED
      BY <1>2, <1>3, <1>5, <2>1 DEF IInv, TableInv
<1>9. ASSUME NEW t \in Requests, request'[t] \in {"open", "answered"}
      PROVE  server'[t] \in 1 .. Limit /\ table'[server'[t]] = File("server", t[1], t[2])
  <2>1. server[t] \in 1 .. Limit /\ table[server[t]] = File("server", t[1], t[2])
        BY <1>2, <1>9 DEF IInv, TableInv
  <2>2. server[t] # n
        BY <1>3, <2>1 DEF Client, File
  <2> QED
      BY <1>2, <1>5, <2>1, <2>2
<1> QED
    BY <1>2, <1>5, <1>6, <1>7, <1>8, <1>9 DEF IInv, TableInv

LEMMA EndPreserves == IInv /\ (DestroyLimit \/ CancelThreads) => IInv'
<1> SUFFICES ASSUME IInv, DestroyLimit \/ CancelThreads PROVE IInv'
    OBVIOUS
<1> USE Params
<1>1. /\ mainpc \in {"destroy", "cancel"} /\ mainpc' \in {"cancel", "listen"}
      /\ UNCHANGED <<conn, block, sockfd, table, worker_await_flag, reader, reading, enqueued,
                     writerVars, watchdog, request, server>>
      BY DEF DestroyLimit, CancelThreads, readerVars
<1>2. IsFiniteSet(Asked) /\ Cardinality(Asked) \in Nat
      BY RequestsFinite, FS_CardinalityType DEF Asked
<1>3. max_thr_request' \in 0 .. MaxConns * MaxRequests /\ max_thr_request' <= Cardinality(Asked)
  <2>1. max_thr_request' = 0 \/ max_thr_request' = max_thr_request
        BY DEF DestroyLimit, CancelThreads, readerVars
  <2>2. max_thr_request \in 0 .. MaxConns * MaxRequests /\ max_thr_request <= Cardinality(Asked)
        BY DEF IInv, TypeOK, RequestInv
  <2>3. MaxConns * MaxRequests \in Nat
        OBVIOUS
  <2> QED
      BY <1>2, <2>1, <2>2, <2>3
<1>4. cancelled' \subseteq 1 .. conn' /\ ready' \in BOOLEAN
  <2>1. cancelled \subseteq 1 .. conn /\ conn \in 0 .. MaxConns /\ conn >= 1 /\ ready \in BOOLEAN
        BY <1>1 DEF IInv, TypeOK, MainInv, Serving
  <2>2. cancelled' = cancelled \/ cancelled' = cancelled \cup {conn}
        BY DEF DestroyLimit, CancelThreads
  <2>3. ready' = FALSE \/ ready' = ready
        BY DEF DestroyLimit, CancelThreads
  <2>4. conn \in 1 .. conn /\ conn' = conn
        BY <1>1, <2>1
  <2> QED
      BY <2>1, <2>2, <2>3, <2>4
<1>5. TypeOK'
      BY <1>1, <1>3, <1>4 DEF IInv, TypeOK, writerVars
<1>6. MainInv'
  <2>1. conn \in 0 .. MaxConns
        BY BlockFacts DEF IInv
  <2>2. CASE DestroyLimit
        BY <1>1, <2>2 DEF DestroyLimit, IInv, MainInv, Serving, Getting, writerVars
  <2>3. CASE CancelThreads
    <3>1. conn >= 1 /\ cancelled = 1 .. conn - 1
          BY <2>3 DEF CancelThreads, IInv, MainInv, Serving
    <3>2. cancelled' = 1 .. conn'
          BY <2>1, <2>3, <3>1 DEF CancelThreads
    <3> QED
        BY <1>1, <2>3, <3>2 DEF CancelThreads, IInv, MainInv, Serving, Getting, writerVars
  <2> QED
      BY <2>2, <2>3
<1>7. ThreadInv' /\ RequestInv'
      BY <1>1, <1>3 DEF IInv, ThreadInv, RequestInv, Asked, writerVars
<1>8. TableInv'
  <2>1. \A g \in Files \ {NoFile} : InUse(g)' <=> InUse(g)
        BY <1>1 DEF InUse, Getting
  <2> QED
      BY <1>1, <2>1 DEF IInv, TableInv, Once, Present
<1> QED
    BY <1>5, <1>6, <1>7, <1>8 DEF IInv
-----------------------------------------------------------------------------
(* The threads of a connection                                             *)

LEMMA SameTable ==
    ASSUME TableInv, UNCHANGED <<mainpc, conn, table, block, sockfd, server>>,
           \A t \in Requests :
              request'[t] \in {"open", "answered"} <=> request[t] \in {"open", "answered"}
    PROVE  TableInv'
<1>1. ASSUME NEW g \in Files \ {NoFile} PROVE InUse(g)' <=> InUse(g)
      BY FilesAre DEF InUse, Getting
<1> QED
    BY <1>1 DEF TableInv, Once, Present

\* A thread that has not been cancelled finds no client but its own.
LEMMA OnlyItsClient ==
    ASSUME IInv, NEW c \in Conns, c \notin cancelled, c <= conn, NEW n \in 1 .. Limit,
           table[n].kind = "client"
    PROVE  table[n] = Client(c)
<1> USE Params
<1>1. conn \in 0 .. MaxConns
      BY BlockFacts DEF IInv
<1>2. mainpc \in Serving /\ c = conn
      BY <1>1 DEF IInv, MainInv
<1>3. table[n] \in Files \ {NoFile} /\ Present(table[n])
  <2>1. table[n] \in Files
        BY DEF IInv, TypeOK
  <2>2. table[n] # NoFile
        BY DEF NoFile, File
  <2> QED
      BY <2>1, <2>2 DEF Present
<1>4. InUse(table[n])
      BY <1>2, <1>3 DEF IInv, TableInv, Serving
<1>5. table[n].conn = c
      BY <1>2, <1>4 DEF InUse, Serving
<1> QED
    BY <1>3, <1>5, FilesAre DEF Client

LEMMA WatchdogPreserves ==
    ASSUME IInv, NEW c \in Conns, WatchdogWakes(c) \/ WatchOver(c)
    PROVE  IInv'
<1> USE Params
<1>1. UNCHANGED <<mainVars, table, readerVars, writerVars, request, server>>
      BY DEF WatchdogWakes, WatchOver
<1>2. \A d \in Conns : watchdog'[d] # "none" => watchdog[d] # "none"
      BY DEF WatchdogWakes, WatchOver, IInv, TypeOK
<1>3. /\ watchdog' \in [Conns -> {"none", "sleep", "over", "ended"}]
      /\ worker_await_flag' \in [Blocks -> BOOLEAN]
      BY DEF WatchdogWakes, WatchOver, EndConnection, IInv, TypeOK
<1>4. TypeOK'
      BY <1>1, <1>3 DEF IInv, TypeOK, mainVars, readerVars, writerVars
<1>5. MainInv' /\ ThreadInv' /\ RequestInv'
      BY <1>1, <1>2 DEF IInv, MainInv, ThreadInv, RequestInv, Asked, mainVars, readerVars, writerVars
<1>6. TableInv'
      BY <1>1, SameTable DEF IInv, mainVars
<1> QED
    BY <1>4, <1>5, <1>6 DEF IInv

LEMMA WriterPreserves ==
    ASSUME IInv, NEW c \in Conns, LookAtQueue(c) \/ Write(c)
    PROVE  IInv'
<1> USE Params
<1>1. /\ UNCHANGED <<mainVars, table, worker_await_flag, readerVars, watchdog, request, server>>
      BY DEF LookAtQueue, Write
<1>2. PICK v \in Int, pc \in {"look", "wait", "ended"} :
                   /\ writer[c] \in {"look", "wait"}
                   /\ writer' = [writer EXCEPT ![c] = pc]
                   /\ dequeued' = [dequeued EXCEPT ![c] = v]
                   /\ v = dequeued[c] \/ (v = dequeued[c] + 1 /\ writer[c] = "wait" /\ pc = "look")
                   /\ pc = "wait" => dequeued[c] < enqueued[c]
  <2>1. dequeued = [dequeued EXCEPT ![c] = dequeued[c]] /\ dequeued[c] \in Int
        BY DEF IInv, ThreadInv
  <2>2. CASE LookAtQueue(c)
        BY <2>1, <2>2 DEF LookAtQueue
  <2>3. CASE Write(c)
    <3>1. CASE table[sockfd[block[c]]] = NoFile
      <4>1. writer' = [writer EXCEPT ![c] = "ended"] /\ dequeued' = [dequeued EXCEPT ![c] = dequeued[c]]
            BY <2>3, <3>1 DEF Write
      <4> QED
          BY <2>1, <2>3, <4>1 DEF Write
    <3>2. CASE table[sockfd[block[c]]] # NoFile
      <4>1. writer' = [writer EXCEPT ![c] = "look"] /\ dequeued' = [dequeued EXCEPT ![c] = dequeued[c] + 1]
            BY <2>3, <3>2 DEF Write
      <4>2. writer[c] = "wait"
            BY <2>3 DEF Write
      <4>3. dequeued[c] + 1 \in Int
            BY <2>1
      <4> QED
          BY <4>1, <4>2, <4>3
    <3> QED
        BY <3>1, <3>2
  <2> QED
      BY <2>2, <2>3
<1>3. \A d \in Conns : /\ dequeued[d] \in 0 .. enqueued[d] /\ enqueued[d] \in 0 .. MaxRequests + 1
                       /\ dequeued[d] \in 0 .. MaxRequests + 1
                       /\ writer[d] = "wait" => dequeued[d] < enqueued[d]
      BY DEF IInv, TypeOK, ThreadInv
<1>4. /\ dequeued \in [Conns -> 0 .. MaxRequests + 1]
      /\ writer \in [Conns -> {"none", "look", "wait", "ended"}]
      BY DEF IInv, TypeOK, ThreadInv
<1>5. /\ v \in 0 .. enqueued[c] /\ dequeued' \in [Conns -> 0 .. MaxRequests + 1]
      /\ \A d \in Conns : dequeued'[d] = IF d = c THEN v ELSE dequeued[d]
      /\ \A d \in Conns : writer'[d] = IF d = c THEN pc ELSE writer[d]
      /\ writer' \in [Conns -> {"none", "look", "wait", "ended"}]
      BY <1>2, <1>3, <1>4
<1>6. TypeOK'
      BY <1>1, <1>3, <1>5 DEF IInv, TypeOK, mainVars, readerVars
<1>7. MainInv' /\ RequestInv'
      BY <1>1, <1>2, <1>5 DEF IInv, MainInv, RequestInv, Asked, mainVars, readerVars
<1>8. ThreadInv'
  <2>1. ASSUME NEW d \in Conns, writer'[d] = "wait" PROVE dequeued'[d] < enqueued'[d]
        BY <1>1, <1>2, <1>3, <1>5, <2>1 DEF readerVars
  <2> QED
      BY <1>1, <1>5, <2>1 DEF IInv, ThreadInv, readerVars
<1>9. TableInv'
      BY <1>1, SameTable DEF IInv, mainVars
<1> QED
    BY <1>6, <1>7, <1>8, <1>9 DEF IInv

LEMMA ReaderPreserves ==
    ASSUME IInv, NEW c \in Conns, ReadLimit(c) \/ CallRead(c) \/ ReadReturns(c) \/ ReadFails(c)
    PROVE  IInv'
<1> USE Params
<1>1. UNCHANGED <<mainVars, table, max_thr_request, writerVars, watchdog, request, server>>
      BY DEF ReadLimit, CallRead, ReadReturns, ReadFails
<1>2. /\ reader \in [Conns -> {"none", "loop", "limited", "read", "blocked", "got", "failed", "ended"}]
      /\ reading \in [Conns -> Files] /\ enqueued \in [Conns -> 0 .. MaxRequests + 1]
      /\ worker_await_flag \in [Blocks -> BOOLEAN]
      /\ \A d \in Conns : dequeued[d] \in 0 .. enqueued[d]
      BY DEF IInv, TypeOK
<1>3. PICK pc \in {"limited", "read", "blocked", "got", "failed", "ended"}, f \in Files, k \in Int :
        /\ reader' = [reader EXCEPT ![c] = pc]
        /\ reading' = [reading EXCEPT ![c] = f]
        /\ f.kind = "client" => f = Client(c)
        /\ enqueued' = [enqueued EXCEPT ![c] = k]
        /\ \/ k = enqueued[c] /\ reader[c] = "loop" /\ pc = "limited"
           \/ k = enqueued[c] + 1 /\ reader[c] = "loop" /\ pc = "read"
           \/ k = enqueued[c] /\ reader[c] = "read" /\ pc \in {"failed", "blocked"}
           \/ k = enqueued[c] /\ reader[c] = "blocked" /\ pc = "failed"
           \/ k = enqueued[c] /\ reader[c] = "blocked" /\ pc = "got" /\ k <= MaxRequests
           \/ k = enqueued[c] /\ reader[c] = "failed" /\ pc = "ended"
  <2>1. /\ reading = [reading EXCEPT ![c] = reading[c]] /\ reading[c] \in Files
        /\ enqueued = [enqueued EXCEPT ![c] = enqueued[c]] /\ enqueued[c] \in Int
        BY <1>2
  <2>2. reading[c].kind = "client" => reading[c] = Client(c)
        BY DEF IInv, ThreadInv
  <2>3. CASE ReadLimit(c)
    <3>1. reader[c] = "loop" /\ reading' = reading
          BY <2>3 DEF ReadLimit
    <3>2. CASE max_thr_request > max_thread_pchild
          BY <2>1, <2>2, <2>3, <3>1, <3>2 DEF ReadLimit
    <3>3. CASE ~(max_thr_request > max_thread_pchild)
      <4>1. /\ reader' = [reader EXCEPT ![c] = "read"]
            /\ enqueued' = [enqueued EXCEPT ![c] = enqueued[c] + 1]
            BY <2>3, <3>3 DEF ReadLimit
      <4>2. enqueued[c] + 1 \in Int
            BY <2>1
      <4> QED
          BY <2>1, <2>2, <3>1, <4>1, <4>2
    <3> QED
        BY <3>2, <3>3
  <2>4. CASE CallRead(c)
    <3>1. PICK f : f = table[sockfd[block[c]]]
          OBVIOUS
    <3>2. reader[c] = "read" /\ c \notin cancelled
          BY <2>4 DEF CallRead
    <3>3. c <= conn /\ conn \in 0 .. MaxConns
          BY <3>2, BlockFacts DEF IInv, MainInv
    <3>4. sockfd[block[c]] \in 1 .. Limit
          BY <3>3, BlockFacts DEF IInv
    <3>5. f \in Files
          BY <3>1, <3>4 DEF IInv, TypeOK
    <3>6. f.kind = "client" => f = Client(c)
          BY <3>1, <3>2, <3>3, <3>4, OnlyItsClient
    <3> QED
        BY <2>1, <2>4, <3>1, <3>2, <3>5, <3>6 DEF CallRead
  <2>5. CASE ReadReturns(c)
    <3>1. NoFile \in Files /\ NoFile.kind # "client"
          BY FilesHave DEF NoFile, File
    <3> QED
        BY <2>1, <2>5, <3>1 DEF ReadReturns
  <2>6. CASE ReadFails(c)
        BY <1>2, <2>1, <2>2, <2>6 DEF ReadFails
  <2> QED
      BY <2>3, <2>4, <2>5, <2>6
<1>4. worker_await_flag' \in [Blocks -> BOOLEAN]
      BY <1>2 DEF ReadLimit, CallRead, ReadReturns, ReadFails, EndConnection
<1>5. enqueued[c] \in 0 .. MaxRequests + 1 /\ (reader[c] = "loop" => enqueued[c] <= MaxRequests)
      BY <1>2 DEF IInv, ThreadInv
<1>6. /\ enqueued[c] <= k /\ k <= MaxRequests + 1
      BY <1>3, <1>5
<1>7. k \in 0 .. MaxRequests + 1
      BY <1>5, <1>6
<1>8. /\ reader' \in [Conns -> {"none", "loop", "limited", "read", "blocked", "got", "failed", "ended"}]
      /\ reading' \in [Conns -> Files] /\ enqueued' \in [Conns -> 0 .. MaxRequests + 1]
  <2>1. reader' \in [Conns -> {"none", "loop", "limited", "read", "blocked", "got", "failed", "ended"}]
        BY <1>2, <1>3
  <2>2. reading' \in [Conns -> Files]
        BY <1>2, <1>3
  <2>3. enqueued' \in [Conns -> 0 .. MaxRequests + 1]
        BY <1>2, <1>3, <1>7
  <2> QED
      BY <2>1, <2>2, <2>3
<1>9. /\ reader'[c] = pc /\ reading'[c] = f /\ enqueued'[c] = k
       /\ \A d \in Conns \ {c} : /\ reader'[d] = reader[d] /\ reading'[d] = reading[d]
                                /\ enqueued'[d] = enqueued[d]
       BY <1>2, <1>3
<1>10. \A d \in Conns : dequeued'[d] \in 0 .. enqueued'[d]
  <2>1. \A d \in Conns : dequeued'[d] = dequeued[d] /\ enqueued[d] \in Nat
        BY <1>1, <1>2 DEF writerVars
  <2>2. CASE enqueued'[c] = k /\ enqueued[c] <= k /\ k \in Int
    <3> SUFFICES ASSUME NEW d \in Conns PROVE dequeued[d] \in 0 .. enqueued'[d]
        BY <2>1
    <3>1. dequeued[d] \in 0 .. enqueued[d] /\ enqueued[d] \in Nat
          BY <1>2, <2>1
    <3>2. CASE d = c
          BY <2>2, <3>1, <3>2
    <3>3. CASE d # c
          BY <1>9, <3>1, <3>3
    <3> QED
        BY <3>2, <3>3
  <2> QED
      BY <1>6, <1>9, <2>2
<1>11. TypeOK'
       BY <1>1, <1>4, <1>8, <1>10 DEF IInv, TypeOK, mainVars, writerVars
<1>12. MainInv'
       BY <1>1, <1>3, <1>9 DEF IInv, MainInv, mainVars, writerVars
<1>13. ThreadInv'
  <2>1. /\ dequeued' \in [Conns -> 0 .. MaxRequests + 1] /\ writer' = writer
        BY <1>1 DEF IInv, ThreadInv, writerVars
  <2>2. ASSUME NEW d \in Conns
        PROVE  /\ reader'[d] = "none" => enqueued'[d] = 0
               /\ reader'[d] \in {"loop", "got"} => enqueued'[d] <= MaxRequests
               /\ reader'[d] \in Reading => enqueued'[d] >= 1
               /\ writer'[d] = "wait" => dequeued'[d] < enqueued'[d]
               /\ reading'[d].kind = "client" => reading'[d] = Client(d)
    <3>1. /\ reader[d] = "none" => enqueued[d] = 0
          /\ reader[d] \in {"loop", "got"} => enqueued[d] <= MaxRequests
          /\ reader[d] \in Reading => enqueued[d] >= 1
          /\ writer[d] = "wait" => dequeued[d] < enqueued[d]
          /\ reading[d].kind = "client" => reading[d] = Client(d)
          /\ dequeued[d] \in 0 .. enqueued[d] /\ enqueued[d] \in 0 .. MaxRequests + 1
          BY <1>2 DEF IInv, ThreadInv
    <3>2. CASE d # c
          BY <1>1, <1>9, <3>1, <3>2 DEF writerVars
    <3>3. CASE d = c
      <4>1. reader'[c] = pc /\ reading'[c] = f /\ enqueued'[c] = k /\ writer'[c] = writer[c] /\ dequeued'[c] = dequeued[c]
            BY <1>1, <1>9 DEF writerVars
      <4> QED
          BY <1>3, <1>6, <3>1, <3>3, <4>1 DEF Reading
    <3> QED
        BY <3>2, <3>3
  <2> QED
      BY <2>1, <2>2 DEF ThreadInv
<1>14. RequestInv'
  <2>1. ASSUME NEW t \in Requests,
               t[2] > enqueued'[t[1]] \/ (t[2] = enqueued'[t[1]] /\ reader'[t[1]] \in Reading)
        PROVE  request[t] = "none"
    <3>1. t[1] \in Conns /\ t[2] \in 1 .. MaxRequests /\ enqueued[t[1]] \in Nat
          BY <1>2
    <3>2. \/ t[2] > enqueued[t[1]]
          \/ t[2] = enqueued[t[1]] /\ reader[t[1]] \in Reading
          => request[t] = "none"
          BY DEF IInv, RequestInv
    <3>3. CASE t[1] # c
          BY <1>9, <2>1, <3>1, <3>2, <3>3
    <3>4. CASE t[1] = c
      <4>1. reader'[c] = pc /\ enqueued'[c] = k
            BY <1>9
      <4> QED
          BY <1>3, <1>6, <2>1, <3>1, <3>2, <3>4, <4>1 DEF Reading
    <3> QED
        BY <3>3, <3>4
  <2> QED
      BY <1>1, <2>1 DEF IInv, RequestInv, Asked
<1>15. TableInv'
       BY <1>1, SameTable DEF IInv, mainVars
<1> QED
    BY <1>11, <1>12, <1>13, <1>14, <1>15 DEF IInv

LEMMA StartRequestPreserves == ASSUME IInv, NEW c \in Conns, StartRequest(c) PROVE IInv'
<1> USE Params
<1>1. PICK t : t = <<c, enqueued[c]>>
      OBVIOUS
<1>2. /\ reader[c] = "got" /\ request' = [request EXCEPT ![t] = "started"]
      /\ \/ max_thr_request' = max_thr_request + 1 /\ reader' = [reader EXCEPT ![c] = "loop"]
         \/ max_thr_request' = max_thr_request     /\ reader' = [reader EXCEPT ![c] = "ended"]
      /\ UNCHANGED <<mainVars, table, worker_await_flag, reading, enqueued, writerVars, watchdog, server>>
      BY <1>1 DEF StartRequest
<1>3. /\ reader \in [Conns -> {"none", "loop", "limited", "read", "blocked", "got", "failed", "ended"}]
      /\ request \in [Requests -> {"none", "started", "refused", "open", "answered", "closed"}]
      /\ enqueued \in [Conns -> 0 .. MaxRequests + 1]
      /\ max_thr_request \in 0 .. MaxConns * MaxRequests
      BY DEF IInv, TypeOK
<1>4. enqueued[c] \in 1 .. MaxRequests
  <2>1. enqueued[c] \in Nat /\ reader[c] \in {"loop", "got"} /\ reader[c] \in Reading
        BY <1>2, <1>3 DEF Reading
  <2>2. enqueued[c] <= MaxRequests /\ enqueued[c] >= 1
        BY <2>1 DEF IInv, ThreadInv
  <2> QED
      BY <2>1, <2>2
<1>5. t \in Requests /\ t[1] = c /\ t[2] = enqueued[c]
      BY <1>1, <1>4
<1>6. request[t] = "none"
      BY <1>2, <1>5 DEF IInv, RequestInv, Reading
<1>7. /\ request' \in [Requests -> {"none", "started", "refused", "open", "answered", "closed"}]
      /\ request'[t] = "started" /\ \A u \in Requests \ {t} : request'[u] = request[u]
      BY <1>2, <1>3, <1>5
<1>8. /\ reader' \in [Conns -> {"none", "loop", "limited", "read", "blocked", "got", "failed", "ended"}]
      /\ reader'[c] \in {"loop", "ended"} /\ \A d \in Conns \ {c} : reader'[d] = reader[d]
      BY <1>2, <1>3
<1>9. max_thr_request' \in 0 .. MaxConns * MaxRequests /\ max_thr_request' <= Cardinality(Asked')
  <2>1. Asked' = Asked \cup {t} /\ t \notin Asked
        BY <1>5, <1>6, <1>7 DEF Asked
  <2>2. IsFiniteSet(Asked) /\ Asked' \subseteq Requests
        BY RequestsFinite DEF Asked
  <2>3. Cardinality(Asked') = Cardinality(Asked) + 1 /\ Cardinality(Asked) \in Nat
        BY <2>1, <2>2, FS_AddElement, FS_CardinalityType
  <2>4. Cardinality(Asked') <= MaxConns * MaxRequests /\ MaxConns * MaxRequests \in Nat
        BY <2>2, RequestsFinite
  <2>5. max_thr_request <= Cardinality(Asked)
        BY DEF IInv, RequestInv
  <2>6. max_thr_request' \in Nat /\ max_thr_request' <= Cardinality(Asked')
        BY <1>2, <1>3, <2>3, <2>5
  <2> QED
      BY <2>3, <2>4, <2>6
<1>10. TypeOK'
       BY <1>2, <1>7, <1>8, <1>9 DEF IInv, TypeOK, mainVars, writerVars
<1>11. MainInv'
       BY <1>2, <1>8 DEF IInv, MainInv, mainVars, writerVars
<1>12. ThreadInv'
  <2>1. ASSUME NEW d \in Conns
        PROVE  /\ reader'[d] = "none" => enqueued'[d] = 0
               /\ reader'[d] \in {"loop", "got"} => enqueued'[d] <= MaxRequests
               /\ reader'[d] \in Reading => enqueued'[d] >= 1
    <3>1. CASE d # c
          BY <1>2, <1>8, <3>1 DEF IInv, ThreadInv
    <3>2. CASE d = c
          BY <1>2, <1>4, <1>8, <3>2 DEF Reading
    <3> QED
        BY <3>1, <3>2
  <2> QED
      BY <1>2, <2>1 DEF IInv, ThreadInv, writerVars
<1>13. RequestInv'
  <2>1. ASSUME NEW u \in Requests,
               u[2] > enqueued'[u[1]] \/ (u[2] = enqueued'[u[1]] /\ reader'[u[1]] \in Reading)
        PROVE  request'[u] = "none"
    <3>1. u[1] \in Conns /\ u # t
          BY <1>2, <1>4, <1>5, <1>8, <2>1 DEF Reading
    <3>2. u[2] > enqueued[u[1]] \/ (u[2] = enqueued[u[1]] /\ reader[u[1]] \in Reading)
          BY <1>2, <1>8, <2>1, <3>1 DEF Reading
    <3> QED
        BY <1>7, <3>1, <3>2 DEF IInv, RequestInv
  <2> QED
      BY <1>9, <2>1 DEF RequestInv
<1>14. TableInv'
  <2>1. \A u \in Requests : request'[u] \in {"open", "answered"} <=> request[u] \in {"open", "answered"}
        BY <1>6, <1>7
  <2> QED
      BY <1>2, <2>1, SameTable DEF IInv, mainVars
<1> QED
    BY <1>10, <1>11, <1>12, <1>13, <1>14 DEF IInv

LEMMA CancelledPreserves == ASSUME IInv, NEW c \in Conns, ThreadCancelled(c) PROVE IInv'
<1> USE Params
<1>1. UNCHANGED <<mainVars, table, worker_await_flag, enqueued, max_thr_request, dequeued, request, server>>
      BY DEF ThreadCancelled
<1>2. /\ reader' \in [Conns -> {"none", "loop", "limited", "read", "blocked", "got", "failed", "ended"}]
      /\ \A d \in Conns : reader'[d] = reader[d] \/ (reader'[d] = "ended" /\ reader[d] # "none")
      BY DEF ThreadCancelled, IInv, TypeOK
<1>3. /\ writer' \in [Conns -> {"none", "look", "wait", "ended"}]
      /\ \A d \in Conns : writer'[d] = writer[d] \/ (writer'[d] = "ended" /\ writer[d] # "none")
      BY DEF ThreadCancelled, IInv, TypeOK
<1>4. /\ watchdog' \in [Conns -> {"none", "sleep", "over", "ended"}]
      /\ \A d \in Conns : watchdog'[d] # "none" => watchdog[d] # "none"
      BY DEF ThreadCancelled, IInv, TypeOK
<1>5. /\ reading' \in [Conns -> Files]
      /\ \A d \in Conns : reading'[d] = reading[d] \/ reading'[d] = NoFile
  <2>1. reading \in [Conns -> Files] /\ NoFile \in Files
        BY FilesHave DEF IInv, TypeOK
  <2>2. reading' = reading \/ reading' = [reading EXCEPT ![c] = NoFile]
        BY DEF ThreadCancelled
  <2> QED
      BY <2>1, <2>2
<1>6. TypeOK'
      BY <1>1, <1>2, <1>3, <1>4, <1>5 DEF IInv, TypeOK, mainVars
<1>7. MainInv'
      BY <1>1, <1>2, <1>3, <1>4 DEF IInv, MainInv, mainVars
<1>8. ThreadInv'
  <2>1. NoFile.kind # "client"
        BY DEF NoFile, File
  <2> QED
      BY <1>1, <1>2, <1>3, <1>5, <2>1 DEF IInv, ThreadInv, Reading
<1>9. RequestInv'
  <2>1. ASSUME NEW u \in Requests,
               u[2] > enqueued'[u[1]] \/ (u[2] = enqueued'[u[1]] /\ reader'[u[1]] \in Reading)
        PROVE  request'[u] = "none"
    <3>1. u[1] \in Conns
          OBVIOUS
    <3>2. u[2] > enqueued[u[1]] \/ (u[2] = enqueued[u[1]] /\ reader[u[1]] \in Reading)
          BY <1>1, <1>2, <2>1, <3>1 DEF Reading
    <3> QED
        BY <1>1, <3>2 DEF IInv, RequestInv
  <2> QED
      BY <1>1, <2>1 DEF IInv, RequestInv, Asked
<1>10. TableInv'
       BY <1>1, SameTable DEF IInv, mainVars
<1> QED
    BY <1>6, <1>7, <1>8, <1>9, <1>10 DEF IInv
-----------------------------------------------------------------------------
(* The request threads                                                     *)

LEMMA OpenServerPreserves == ASSUME IInv, NEW t \in Requests, OpenServer(t) PROVE IInv'
<1> USE Params
<1>1. /\ request[t] = "started"
      /\ UNCHANGED <<mainVars, worker_await_flag, readerVars, writerVars, watchdog>>
      BY DEF OpenServer
<1>2. /\ request \in [Requests -> {"none", "started", "refused", "open", "answered", "closed"}]
      /\ server \in [Requests -> Numbers] /\ table \in [1 .. Limit -> Files]
      BY DEF IInv, TypeOK
<1>3. CASE Full /\ request' = [request EXCEPT ![t] = "refused"] /\ UNCHANGED <<table, server>>
  <2>1. /\ request' \in [Requests -> {"none", "started", "refused", "open", "answered", "closed"}]
        /\ \A u \in Requests : request'[u] = IF u = t THEN "refused" ELSE request[u]
        BY <1>2, <1>3
  <2>2. TypeOK'
        BY <1>1, <1>3, <2>1 DEF IInv, TypeOK, mainVars, readerVars, writerVars
  <2>3. MainInv' /\ ThreadInv'
        BY <1>1 DEF IInv, MainInv, ThreadInv, mainVars, readerVars, writerVars
  <2>4. RequestInv'
    <3>1. Asked' = Asked
          BY <1>1, <2>1 DEF Asked
    <3> QED
        BY <1>1, <2>1, <3>1 DEF IInv, RequestInv, readerVars
  <2>5. TableInv'
        BY <1>1, <1>3, <2>1, SameTable DEF IInv, mainVars
  <2> QED
      BY <2>2, <2>3, <2>4, <2>5 DEF IInv
<1>4. CASE ~Full /\ /\ request' = [request EXCEPT ![t] = "open"]
                   /\ server' = [server EXCEPT ![t] = Lowest]
                   /\ Open(File("server", t[1], t[2]))
  <2>1. PICK f : f = File("server", t[1], t[2])
        OBVIOUS
  <2>2. PICK n : n = Lowest
        OBVIOUS
  <2>3. /\ request' \in [Requests -> {"none", "started", "refused", "open", "answered", "closed"}]
        /\ \A u \in Requests : request'[u] = IF u = t THEN "open" ELSE request[u]
        BY <1>2, <1>4
  <2>4. n \in 1 .. Limit /\ table[n] = NoFile
        BY <1>4, <2>2, LowestIsFree DEF IInv
  <2>5. /\ server' \in [Requests -> Numbers]
        /\ \A u \in Requests : server'[u] = IF u = t THEN n ELSE server[u]
        BY <1>2, <1>4, <2>2, <2>4
  <2>6. f \in Files \ {NoFile} /\ f.kind = "server" /\ <<f.conn, f.req>> = t
        BY <2>1, FilesHave DEF File
  <2>7. Open(f)
        BY <1>4, <2>1
  <2>8. table' \in [1 .. Limit -> Files] /\ DOMAIN table' = DOMAIN table
    <3>1. table' = [table EXCEPT ![n] = f]
          BY <2>2, <2>7 DEF Open
    <3> QED
        BY <1>2, <2>6, <3>1
  <2>9. TypeOK'
        BY <1>1, <2>3, <2>5, <2>8 DEF IInv, TypeOK, mainVars, readerVars, writerVars
  <2>10. MainInv' /\ ThreadInv'
         BY <1>1 DEF IInv, MainInv, ThreadInv, mainVars, readerVars, writerVars
  <2>11. RequestInv'
    <3>1. Asked' = Asked
          BY <1>1, <2>3 DEF Asked
    <3> QED
        BY <1>1, <2>3, <3>1 DEF IInv, RequestInv, readerVars
  <2>12. ASSUME mainpc # "exited"
         PROVE  /\ Once'
                /\ \A g \in Files \ {NoFile} : Present(g)' <=> InUse(g)'
                /\ \A u \in Requests : request'[u] \in {"open", "answered"} =>
                      server'[u] \in 1 .. Limit /\ table'[server'[u]] = File("server", u[1], u[2])
                /\ mainpc' = "await" => table'[sockfd'[block'[conn']]] = Client(conn')
    <3>1. Once /\ ~Present(f)
          BY <1>1, <2>6, <2>12 DEF IInv, TableInv, InUse
    <3>2. /\ Once'
          /\ \A g \in Files \ {NoFile} : Present(g)' <=> Present(g) \/ g = f
          /\ \A m \in 1 .. Limit : table[m] # NoFile => table'[m] = table[m]
          /\ table'[n] = f
          BY <1>4, <2>2, <2>6, <2>7, <3>1, Opens DEF IInv
    <3>3. ASSUME NEW g \in Files \ {NoFile} PROVE InUse(g)' <=> InUse(g) \/ g = f
      <4>1. CASE g.kind # "server"
            BY <1>1, <2>6, <4>1 DEF InUse, mainVars, Getting
      <4>2. CASE g.kind = "server"
        <5>1. <<g.conn, g.req>> \in Requests /\ g = File("server", g.conn, g.req)
              BY <4>2, FilesAre
        <5>2. g = f <=> <<g.conn, g.req>> = t
              BY <2>1, <2>6, <5>1 DEF File
        <5> QED
            BY <2>3, <4>2, <5>1, <5>2 DEF InUse
      <4> QED
          BY <4>1, <4>2
    <3>4. ASSUME NEW u \in Requests, request'[u] \in {"open", "answered"}
          PROVE  server'[u] \in 1 .. Limit /\ table'[server'[u]] = File("server", u[1], u[2])
      <4>1. CASE u = t
            BY <2>1, <2>4, <2>5, <3>2, <4>1
      <4>2. CASE u # t
        <5>1. server[u] \in 1 .. Limit /\ table[server[u]] = File("server", u[1], u[2])
              BY <2>3, <2>12, <3>4, <4>2 DEF IInv, TableInv
        <5>2. table[server[u]] # NoFile
              BY <5>1, FilesHave
        <5> QED
            BY <2>5, <3>2, <4>2, <5>1, <5>2
      <4> QED
          BY <4>1, <4>2
    <3>5. ASSUME mainpc' = "await" PROVE table'[sockfd'[block'[conn']]] = Client(conn')
      <4>1. /\ conn \in 1 .. conn /\ sockfd[block[conn]] \in 1 .. Limit
            /\ table[sockfd[block[conn]]] = Client(conn)
        <5>1. mainpc = "await" /\ conn \in 0 .. MaxConns
              BY <1>1, <3>5, BlockFacts DEF IInv, mainVars
        <5>2. conn \in 1 .. conn
              BY <5>1 DEF IInv, MainInv, Serving
        <5> QED
            BY <5>1, <5>2, BlockFacts DEF IInv, TableInv
      <4>2. Client(conn) # NoFile
            BY DEF Client, NoFile, File
      <4> QED
          BY <1>1, <3>2, <4>1, <4>2 DEF mainVars
    <3> QED
        BY <2>12, <3>2, <3>3, <3>4, <3>5 DEF IInv, TableInv
  <2> QED
      BY <1>1, <2>9, <2>10, <2>11, <2>12 DEF IInv, TableInv, mainVars
<1> QED
    BY <1>3, <1>4 DEF OpenServer

LEMMA AnswerPreserves == ASSUME IInv, NEW t \in Requests, Answer(t) PROVE IInv'
<1> USE Params
<1>1. /\ request[t] = "open" /\ request' = [request EXCEPT ![t] = "answered"]
      /\ UNCHANGED <<mainVars, table, worker_await_flag, readerVars, writerVars, watchdog, server>>
      BY DEF Answer
<1>2. request \in [Requests -> {"none", "started", "refused", "open", "answered", "closed"}]
      BY DEF IInv, TypeOK
<1>3. /\ request' \in [Requests -> {"none", "started", "refused", "open", "answered", "closed"}]
      /\ \A u \in Requests : request'[u] = IF u = t THEN "answered" ELSE request[u]
      BY <1>1, <1>2
<1>4. TypeOK'
      BY <1>1, <1>3 DEF IInv, TypeOK, mainVars, readerVars, writerVars
<1>5. MainInv' /\ ThreadInv'
      BY <1>1 DEF IInv, MainInv, ThreadInv, mainVars, readerVars, writerVars
<1>6. RequestInv'
  <2>1. Asked' = Asked
        BY <1>1, <1>3 DEF Asked
  <2> QED
      BY <1>1, <1>3, <2>1 DEF IInv, RequestInv, readerVars
<1>7. TableInv'
      BY <1>1, <1>3, SameTable DEF IInv, mainVars
<1> QED
    BY <1>4, <1>5, <1>6, <1>7 DEF IInv

LEMMA CloseServerPreserves == ASSUME IInv, NEW t \in Requests, CloseServer(t) PROVE IInv'
<1> USE Params
<1>1. PICK n : n = server[t]
      OBVIOUS
<1>2. /\ request[t] = "answered"
      /\ request' = [request EXCEPT ![t] = "closed"]
      /\ server' = [server EXCEPT ![t] = 0]
      /\ Close(n)
      /\ UNCHANGED <<mainVars, worker_await_flag, readerVars, writerVars, watchdog>>
      BY <1>1 DEF CloseServer
<1>3. /\ request \in [Requests -> {"none", "started", "refused", "open", "answered", "closed"}]
      /\ server \in [Requests -> Numbers] /\ table \in [1 .. Limit -> Files]
      BY DEF IInv, TypeOK
<1>4. /\ request' \in [Requests -> {"none", "started", "refused", "open", "answered", "closed"}]
      /\ \A u \in Requests : request'[u] = IF u = t THEN "closed" ELSE request[u]
      BY <1>2, <1>3
<1>5. /\ server' \in [Requests -> Numbers]
      /\ \A u \in Requests : server'[u] = IF u = t THEN 0 ELSE server[u]
      BY <1>2, <1>3
<1>6. table' \in [1 .. Limit -> Files] /\ DOMAIN table' = DOMAIN table
      BY <1>2, <1>3, FilesHave DEF Close
<1>7. TypeOK'
      BY <1>2, <1>4, <1>5, <1>6 DEF IInv, TypeOK, mainVars, readerVars, writerVars
<1>8. MainInv' /\ ThreadInv'
      BY <1>2 DEF IInv, MainInv, ThreadInv, mainVars, readerVars, writerVars
<1>9. RequestInv'
  <2>1. Asked' = Asked
        BY <1>2, <1>4 DEF Asked
  <2> QED
      BY <1>2, <1>4, <2>1 DEF IInv, RequestInv, readerVars
<1>10. ASSUME mainpc # "exited"
       PROVE  /\ Once'
              /\ \A g \in Files \ {NoFile} : Present(g)' <=> InUse(g)'
              /\ \A u \in Requests : request'[u] \in {"open", "answered"} =>
                    server'[u] \in 1 .. Limit /\ table'[server'[u]] = File("server", u[1], u[2])
              /\ mainpc' = "await" => table'[sockfd'[block'[conn']]] = Client(conn')
  <2>1. PICK f : f = File("server", t[1], t[2])
        OBVIOUS
  <2>2. Once /\ n \in 1 .. Limit /\ table[n] = f
        BY <1>1, <1>2, <1>10, <2>1 DEF IInv, TableInv
  <2>3. f \in Files \ {NoFile} /\ f.kind = "server" /\ <<f.conn, f.req>> = t
        BY <2>1, FilesHave DEF File
  <2>4. /\ Once'
        /\ \A g \in Files \ {NoFile} : Present(g)' <=> Present(g) /\ g # f
        /\ \A m \in 1 .. Limit \ {n} : table'[m] = table[m]
        BY <1>2, <2>2, <2>3, Closes DEF IInv
  <2>5. ASSUME NEW g \in Files \ {NoFile} PROVE InUse(g)' <=> InUse(g) /\ g # f
    <3>1. CASE g.kind # "server"
          BY <1>2, <2>3, <3>1 DEF InUse, mainVars, Getting
    <3>2. CASE g.kind = "server"
      <4>1. <<g.conn, g.req>> \in Requests /\ g = File("server", g.conn, g.req)
            BY <3>2, FilesAre
      <4>2. g = f <=> <<g.conn, g.req>> = t
            BY <2>1, <2>3, <4>1 DEF File
      <4> QED
          BY <1>4, <3>2, <4>1, <4>2 DEF InUse
    <3> QED
        BY <3>1, <3>2
  <2>6. ASSUME NEW u \in Requests, request'[u] \in {"open", "answered"}
        PROVE  server'[u] \in 1 .. Limit /\ table'[server'[u]] = File("server", u[1], u[2])
    <3>1. u # t /\ request[u] \in {"open", "answered"}
          BY <1>4, <2>6
    <3>2. server[u] \in 1 .. Limit /\ table[server[u]] = File("server", u[1], u[2])
          BY <1>10, <3>1 DEF IInv, TableInv
    <3>3. table[server[u]] # f
      <4>1. u = <<u[1], u[2]>> /\ t = <<t[1], t[2]>>
            OBVIOUS
      <4>2. u[1] # t[1] \/ u[2] # t[2]
            BY <3>1, <4>1
      <4> QED
          BY <2>1, <3>2, <4>2 DEF File
    <3> QED
        BY <1>5, <2>2, <2>4, <3>1, <3>2, <3>3
  <2>7. ASSUME mainpc' = "await" PROVE table'[sockfd'[block'[conn']]] = Client(conn')
    <3>1. mainpc = "await" /\ conn \in 0 .. MaxConns
          BY <1>2, <2>7, BlockFacts DEF IInv, mainVars
    <3>2. conn \in 1 .. conn
          BY <3>1 DEF IInv, MainInv, Serving
    <3>3. /\ sockfd[block[conn]] \in 1 .. Limit
          /\ table[sockfd[block[conn]]] = Client(conn)
          BY <3>1, <3>2, BlockFacts DEF IInv, TableInv
    <3>4. Client(conn) # f
          BY <2>3 DEF Client, File
    <3> QED
        BY <1>2, <2>2, <2>4, <3>3, <3>4 DEF mainVars
  <2> QED
      BY <1>10, <2>4, <2>5, <2>6, <2>7 DEF IInv, TableInv
<1> QED
    BY <1>2, <1>7, <1>8, <1>9, <1>10 DEF IInv, TableInv, mainVars
-----------------------------------------------------------------------------
(* The invariant, and what follows from it                                 *)

LEMMA InitInv == Init => IInv
<1> SUFFICES ASSUME Init PROVE IInv
    OBVIOUS
<1> USE Params
<1>1. TypeOK
  <2>1. \A c : c \notin 1 .. 0
        OBVIOUS
  <2>2. NoFile \in Files /\ 0 \in Numbers
        BY FilesHave
  <2>3. 0 \in 0 .. MaxConns * MaxRequests /\ 0 \in 0 .. MaxRequests + 1
    <3>1. MaxConns * MaxRequests \in Nat
          OBVIOUS
    <3> QED
        BY <3>1
  <2>4. /\ mainpc = "listen" /\ conn \in 0 .. MaxConns /\ conn = 0
        /\ table \in [1 .. Limit -> Files]
        /\ block \in [Conns -> Blocks \cup {0}] /\ sockfd \in [Blocks -> Numbers]
        /\ worker_await_flag \in [Blocks -> BOOLEAN]
        /\ cancelled = {} /\ ready = FALSE /\ max_thr_request = 0
        BY <2>2 DEF Init
  <2>5. /\ watchdog \in [Conns -> {"none", "sleep", "over", "ended"}]
        /\ reader \in [Conns -> {"none", "loop", "limited", "read", "blocked", "got", "failed", "ended"}]
        /\ reading \in [Conns -> Files]
        /\ writer \in [Conns -> {"none", "look", "wait", "ended"}]
        BY <2>2 DEF Init
  <2>6. /\ enqueued \in [Conns -> 0 .. MaxRequests + 1]
        /\ \A c \in Conns : dequeued[c] \in 0 .. enqueued[c]
        BY <2>3 DEF Init
  <2>7. /\ request \in [Requests -> {"none", "started", "refused", "open", "answered", "closed"}]
        /\ server \in [Requests -> Numbers]
        BY <2>2 DEF Init
  <2> HIDE DEF Requests, Conns, Blocks, Numbers
  <2> QED
      BY <2>1, <2>3, <2>4, <2>5, <2>6, <2>7 DEF TypeOK
<1>2. MainInv
      BY DEF Init, MainInv, Getting, Serving
<1>3. ThreadInv
      BY DEF Init, ThreadInv, Reading, NoFile, File
<1>4. RequestInv
  <2>1. Asked = {}
        BY DEF Init, Asked
  <2> QED
      BY <2>1, FS_EmptySet DEF Init, RequestInv
<1>5. TableInv
  <2>1. \A n \in 1 .. Limit : table[n] = NoFile
        BY DEF Init
  <2>2. ASSUME NEW f \in Files \ {NoFile} PROVE ~InUse(f)
        BY FilesAre DEF Init, InUse, Getting
  <2>3. \A t \in Requests : request[t] = "none"
        BY DEF Init
  <2> QED
      BY <2>1, <2>2, <2>3 DEF Init, TableInv, Once, Present
<1> QED
    BY <1>1, <1>2, <1>3, <1>4, <1>5 DEF IInv

LEMMA StutterPreserves == IInv /\ UNCHANGED vars => IInv'
<1> SUFFICES ASSUME IInv, UNCHANGED vars PROVE IInv'
    OBVIOUS
<1>1. TypeOK'
      BY DEF IInv, TypeOK, vars, mainVars, readerVars, writerVars
<1>2. MainInv' /\ ThreadInv' /\ RequestInv'
      BY DEF IInv, MainInv, ThreadInv, RequestInv, Asked, vars, mainVars, readerVars, writerVars
<1>3. TableInv'
      BY SameTable DEF IInv, vars, mainVars
<1> QED
    BY <1>1, <1>2, <1>3 DEF IInv

\* The invariant holds in every state of a worker process.
THEOREM Invariance == Spec => []IInv
<1>1. ASSUME IInv, [Next]_vars PROVE IInv'
  <2>1. CASE UnixListen
        BY <1>1, <2>1, ReceivePreserves DEF UnixListen
  <2>2. CASE UnixAccept
        BY <1>1, <2>2, ReceivePreserves DEF UnixAccept
  <2>3. CASE ReceiveFd
        BY <1>1, <2>3, ReceivePreserves DEF ReceiveFd, Client
  <2>4. CASE StartThreads
        BY <1>1, <2>4, StartPreserves
  <2>5. CASE CloseClient
        BY <1>1, <2>5, CloseClientPreserves
  <2>6. CASE DestroyLimit \/ CancelThreads
        BY <1>1, <2>6, EndPreserves
  <2>7. ASSUME NEW c \in Conns, WatchdogWakes(c) \/ WatchOver(c) PROVE IInv'
        BY <1>1, <2>7, WatchdogPreserves
  <2>8. ASSUME NEW c \in Conns, ReadLimit(c) \/ CallRead(c) \/ ReadReturns(c) \/ ReadFails(c)
        PROVE  IInv'
        BY <1>1, <2>8, ReaderPreserves
  <2>9. ASSUME NEW c \in Conns, StartRequest(c) PROVE IInv'
        BY <1>1, <2>9, StartRequestPreserves
  <2>10. ASSUME NEW c \in Conns, LookAtQueue(c) \/ Write(c) PROVE IInv'
         BY <1>1, <2>10, WriterPreserves
  <2>11. ASSUME NEW c \in Conns, ThreadCancelled(c) PROVE IInv'
         BY <1>1, <2>11, CancelledPreserves
  <2>12. ASSUME NEW t \in Requests, OpenServer(t) \/ Answer(t) \/ CloseServer(t) PROVE IInv'
         BY <1>1, <2>12, OpenServerPreserves, AnswerPreserves, CloseServerPreserves
  <2>13. CASE UNCHANGED vars
         BY <1>1, <2>13, StutterPreserves
  <2> QED
      BY <1>1, <2>1, <2>2, <2>3, <2>4, <2>5, <2>6, <2>7, <2>8, <2>9, <2>10, <2>11, <2>12, <2>13
         DEF Next, MainStep
<1> QED
    BY InitInv, <1>1, PTL DEF Spec

\* TypeOK is one conjunct of the invariant: start_worker and its threads never leave the
\* states the model gives them, and the counter of request threads (worker.c, max_thr_request)
\* stays below the number of the requests.
THEOREM TypeCorrect == Spec => []TypeOK
<1>1. IInv => TypeOK
      BY DEF IInv
<1> QED
    BY <1>1, Invariance, PTL

\* receive_fd, close_connection, request_work: however many connections this process has
\* been given, a descriptor is open for each file that somebody accounts for, one each,
\* and for no other.
THEOREM EveryDescriptorAccounted == Spec => []DescriptorsAccounted
<1>1. ASSUME IInv PROVE DescriptorsAccounted
  <2> USE Params
  <2>1. DOMAIN table = 1 .. Limit /\ conn \in 0 .. MaxConns
        BY <1>1, BlockFacts DEF IInv
  <2>2. ASSUME NEW f \in Files \ {NoFile}, mainpc # "exited"
        PROVE  Cardinality({n \in DOMAIN table : table[n] = f}) = IF InUse(f) THEN 1 ELSE 0
    <3>1. Once /\ (Present(f) <=> InUse(f))
          BY <1>1, <2>2 DEF IInv, TableInv
    <3>2. CASE InUse(f)
      <4>1. PICK n \in 1 .. Limit : table[n] = f
            BY <3>1, <3>2 DEF Present
      <4>2. {m \in DOMAIN table : table[m] = f} = {n}
            BY <2>1, <2>2, <3>1, <4>1 DEF Once
      <4> QED
          BY <3>2, <4>2, FS_Singleton
    <3>3. CASE ~InUse(f)
      <4>1. {m \in DOMAIN table : table[m] = f} = {}
            BY <2>1, <3>1, <3>3 DEF Present
      <4> QED
          BY <3>3, <4>1, FS_EmptySet
    <3> QED
        BY <3>2, <3>3
  <2> DEFINE left == {File("listener", c, 0) : c \in 1 .. conn} \cup {File("link", c, 0) : c \in 1 .. conn}
             next == CASE mainpc = "accept"  -> {File("listener", conn + 1, 0)}
                       [] mainpc = "receive" -> {File(kind, conn + 1, 0) : kind \in {"listener", "link"}}
                       [] mainpc = "start"   -> {File(kind, conn + 1, 0) :
                                                   kind \in {"listener", "link", "client"}}
                       [] mainpc = "await" -> {Client(conn)}
                       [] OTHER -> {}
             servers == {File("server", t[1], t[2]) :
                           t \in {t \in Requests : request[t] \in {"open", "answered"}}}
  <2>3. ASSUME NEW f \in Files \ {NoFile} PROVE f \in left \cup next \cup servers <=> InUse(f)
    <3>1. f \in left <=> f.kind \in {"listener", "link"} /\ f.conn <= conn
      <4>1. ASSUME f \in left PROVE f.kind \in {"listener", "link"} /\ f.conn <= conn
        <5>1. PICK c \in 1 .. conn : f = File("listener", c, 0) \/ f = File("link", c, 0)
              BY <4>1
        <5> QED
            BY <2>1, <5>1 DEF File
      <4>2. ASSUME f.kind \in {"listener", "link"}, f.conn <= conn PROVE f \in left
        <5>1. f.conn \in 1 .. conn /\ f = File(f.kind, f.conn, 0)
          <6>1. f.conn \in Conns /\ f = File(f.kind, f.conn, 0)
                BY <2>3, <4>2, FilesAre
          <6>2. f.conn \in 1 .. conn
                BY <2>1, <4>2, <6>1
          <6> QED
              BY <6>1, <6>2
        <5> QED
            BY <4>2, <5>1
      <4> QED
          BY <4>1, <4>2
    <3>2. f \in servers <=> f.kind = "server" /\ request[<<f.conn, f.req>>] \in {"open", "answered"}
      <4>1. ASSUME f \in servers
            PROVE  f.kind = "server" /\ request[<<f.conn, f.req>>] \in {"open", "answered"}
        <5>1. PICK t \in Requests : request[t] \in {"open", "answered"} /\ f = File("server", t[1], t[2])
              BY <4>1
        <5> QED
            BY <5>1 DEF File
      <4>2. ASSUME f.kind = "server", request[<<f.conn, f.req>>] \in {"open", "answered"}
            PROVE  f \in servers
        <5>1. <<f.conn, f.req>> \in Requests /\ f = File("server", f.conn, f.req)
              BY <2>3, <4>2, FilesAre
        <5> QED
            BY <4>2, <5>1
      <4> QED
          BY <4>1, <4>2
    <3>3. f \in next <=> \/ f.kind = "listener" /\ f.conn = conn + 1 /\ mainpc \in Getting
                         \/ f.kind = "link"     /\ f.conn = conn + 1 /\ mainpc \in {"receive", "start"}
                         \/ f.kind = "client"   /\ f.conn = conn + 1 /\ mainpc = "start"
                         \/ f.kind = "client"   /\ f.conn = conn     /\ mainpc = "await"
      <4>1. CASE mainpc = "accept"
            BY <2>3, <4>1, FilesAre DEF File, Getting
      <4>2. CASE mainpc = "receive"
        <5>1. f \in next <=> f = File("listener", conn + 1, 0) \/ f = File("link", conn + 1, 0)
              BY <4>2
        <5> QED
            BY <2>3, <4>2, <5>1, FilesAre DEF File, Getting
      <4>3. CASE mainpc = "start"
        <5>1. f \in next <=> \/ f = File("listener", conn + 1, 0) \/ f = File("link", conn + 1, 0)
                             \/ f = File("client", conn + 1, 0)
              BY <4>3
        <5> QED
            BY <2>3, <4>3, <5>1, FilesAre DEF File, Getting
      <4>4. CASE mainpc = "await"
            BY <2>3, <4>4, FilesAre DEF File, Client, Getting
      <4>5. CASE mainpc \notin Getting \cup {"await"}
            BY <4>5 DEF Getting
      <4> QED
          BY <4>1, <4>2, <4>3, <4>4, <4>5 DEF Getting
    <3> QED
        BY <3>1, <3>2, <3>3 DEF InUse
  <2>4. ASSUME NEW f \in Files \ {NoFile}, mainpc # "exited"
        PROVE  Cardinality({n \in DOMAIN table : table[n] = f}) =
                  IF f \in left \cup next \cup servers THEN 1 ELSE 0
        BY <2>2, <2>3, <2>4
  <2> QED
      BY <2>4 DEF DescriptorsAccounted
<1> QED
    BY <1>1, Invariance, PTL

\* start_worker, read_work, write_work: a thread that has not been cancelled reads and
\* writes the client of its own connection or nothing, whatever number that has had before.
THEOREM ThreadsKeep == Spec => []ThreadsKeepToTheirClient
<1>1. ASSUME IInv PROVE ThreadsKeepToTheirClient
  <2>1. ASSUME NEW c \in Conns PROVE reading[c].kind = "client" => reading[c] = Client(c)
        BY <1>1 DEF IInv, ThreadInv
  <2>2. ASSUME NEW c \in Conns, c \notin cancelled, reader[c] = "read" \/ writer[c] = "wait",
               NEW d \in Conns \ {c}
        PROVE  table[sockfd[block[c]]] # Client(d)
    <3>1. c <= conn /\ conn \in 0 .. MaxConns
          BY <1>1, <2>2, BlockFacts DEF IInv, MainInv
    <3>2. sockfd[block[c]] \in 1 .. Limit
          BY <1>1, <3>1, BlockFacts, Params DEF IInv
    <3>3. table[sockfd[block[c]]].kind = "client" => table[sockfd[block[c]]] = Client(c)
          BY <1>1, <2>2, <3>1, <3>2, OnlyItsClient
    <3>4. Client(d).kind = "client" /\ Client(d) # Client(c)
          BY <2>2 DEF Client, File
    <3> QED
        BY <3>3, <3>4
  <2> QED
      BY <2>1, <2>2 DEF ThreadsKeepToTheirClient
<1> QED
    BY <1>1, Invariance, PTL
=============================================================================
