# A specification of Heimdall

Heimdall is a web switch: it accepts HTTP connections, hands each one to a
pre-forked worker process, and the worker forwards the requests of that
connection to a server of a cluster, chosen by a weighted round robin. These
modules model its dispatch of connections, its scheduler, the threads of a worker,
what becomes of the text of messages, and starting, stopping and restarting it,
check them with TLC on small instances, and prove the main invariants
with TLAPS for every instance. Paths below are relative to `src/code/`.

## The system

| Part | State | Operations | Who uses it, and how |
|---|---|---|---|
| main (`main.c`) | the listening socket, the accepted descriptor | `do_prefork`, accept loop, `cleaning` | forks the workers; calls `add_fd_to_array` until it succeeds |
| pool manager (`web_switch/thread_pool.c`) | `fd_array` (mutex), its chosen worker | `add_fd_to_array`, `get_fd`, `thread_pool_loop` | a thread of main; polls `fd_array`, shared memory under the semaphore, the scheduler, `send_fd` |
| shared memory (`web_switch/shared_mem.c`) | `worker_array`, `worker_busy`, `worker_counter`, `worker_server`, one POSIX semaphore | `init_shm`, `get_shm` | manager, workers and request threads |
| message controller (`web_switch/message_controller.c`, `utils/unix_socket.c`) | one UNIX socket file per worker, the connections queued on it | `send_fd`, `receive_fd` | passes a descriptor from the manager to a worker |
| worker (`web_switch/worker.c`) | `sockfd`, `worker_await_flag`, thread counter | `start_worker`, `read_work`, `write_work`, `request_work` | one process, one connection at a time; main thread, watchdog, writer, reader, a request thread for each request |
| request queue and nodes (`request_queue.c`, `request_node.c`) | a doubly linked list without a lock; in each node a mutex, a condition, request, response, chunk | `enqueue`, `dequeue`, `get_front`, `destroy` | reader and writer |
| chunk (`chunk.c`, `http/connection.c`) | `wrote`, `dimen`, `data`, mutex, condition | `receive_http_chunks`, `send_http_chunks` | request thread and writer |
| watchdog (`watchdog.c`) | a timestamp, `timeout_worker` | `enable_watchdog`, `watch_over` | ends a connection that is idle for too long |
| scheduler (`scheduler.c`, `round_robin.c`, `circular.c`, `server_pool.c`) | the pool of servers (weight, status), a circular buffer with its mutex | `get_server`, `update_server_routine`, `reset_servers`, `weight_servers` | called by the manager; rebuilt by the updater thread |
| Apache status (`apache_status.c`, `http/http_response.c`) | none that lasts | `retrieve`, `parse` | called by the updater |
| HTTP messages (`http/http_request.c`, `http/connection.c`) | an `HTTPRequest` for each request and each response | `receive_http_header2`, `read_headers`, `make_simple_request` | reader and request threads |
| configuration (`config/heimdall_config.c`, `config/server_config.c`) | the values of two files, as strings | `get_config`, `get_server_config` | every part, which converts what it needs |
| conversions, logging, errors (`utils/`) | | `str_to_int`, `get_log()->d`, ... | everywhere |

What is hard here: one semaphore shared by threads of many processes, any of
which may die; a descriptor that travels through a socket which is removed and
made again for each connection; threads that outlive the connection they were
made for; a queue without a lock; condition variables signalled without their
mutex; a buffer freed outside the mutex that protects it; arithmetic on weights;
parsers that work in place and return NULL for what they do not expect; peers that
close at any byte; shared memory and a semaphore that outlive the program.
The list, line by line, is `hazards` in `PROJECT.json`.

What makes the parts correct:

* pool: a connection is given to one worker, once, and is served and closed; the
  main process keeps its descriptor exactly as long as it needs it; a worker
  marked free is free; at most one thread is inside shared memory;
* scheduler: the pattern has each server as often as its weight; a scan does not
  see the buffer change, and says BROKEN only if no server is READY; rounds end;
* chunk: every byte reaches the client once and in order; no signal is missed;
* worker: responses in the order of the requests, no node freed while in use, an end
  to every connection, nothing of an old connection touches the next one, and the
  worker comes back for it;
* messages: a server is asked what the client asked, the client reads what the server
  answered, and a length or a weight is never that of half a number;
* start: the array names the workers of this run, no server of the file is left out,
  and after an orderly end the next run starts.

## The modules

* **`Dispatch`** is what the pool promises, without saying how: a connection is
  pending, waiting, given to a worker that has no other, served, closed; it is
  lost only with a process that held it.
* **`ConnectionPool`** is how the code does it. `dpc` is where
  `thread_pool_loop` stands (`get` for `get_fd`, `wait` and `scan` for the
  semaphore and the scan, `connect` and `sendmsg` for `send_fd`, `close`);
  `wpc[w]` is where worker `w` stands in `receive_fd` (`remove`, `bind`,
  `listen`, `accept`, `recv`) and in `start_worker` (`serve`, `close`, `unlink`,
  `wait`, `free`). `path[w]` and `link[w]` are the file of its socket and the
  connections queued on its current listener; `request[c]` is the request thread
  of connection `c`, of which only the use of shared memory matters here.
  `Promise` is the refinement mapping to `Dispatch`.
* **`RoundRobin`** has the manager's `get_server` and the updater side by side.
  A scan takes one step for each entry. `Sort`, `Pass`, `Pattern` and
  `WeightSum` are `weight_servers`, written as functions: the sum is taken while
  the servers are sorted, as in the code, and the pattern is made of passes over
  the sorted servers. An entry read from freed memory is anything (`Freed`).
* **`ChunkPipe`** is one body on its way from the server to the client. A byte
  is its offset, so that order and loss are visible in `data`, `total_sent` and
  `total_received`. Taking the mutex and testing `wrote`, up to the `cond_wait`
  that gives it back, is one step; so is the work done with the mutex held.
* **`Worker`** is the threads of one worker during one connection. Each access
  of `front`, `back` and `next` is a step of its own. `back` is read once in
  `enqueue_request_queue`, as an optimising build does. The body is one step
  here, which ends or does not; `ChunkPipe` says when.

* **`Lifetime`** is the same worker from one connection to the next: `receive_fd`,
  the threads started, the close, the destruction of conditions and mutexes, the
  cancellation, and the next connection while threads of the last still run. What
  matters here is kept: the table of descriptors, of which the kernel gives the lowest
  free one, and the memory block of each `Worker`, which may be used again. `cancelled`
  is the set of connections whose threads have been cancelled; `ThreadCancelled` says
  where a cancelled thread can end. A request thread that fails stays as it is, with its
  socket open, which is what its return does to the process.
* **`Helper`**, **`HttpText`**, **`StatusPage`**, **`Configuration`** are the program's
  text handling as operators. A text is a sequence of tokens: the characters a parser
  looks at are tokens of their own, a word it does not look into is one. The parsers cut
  their buffer in place, and so do these: `NUL` is written into the sequence.
  `ReadHeaders` gives what was read and how the reading ended, `"crash"` where the code
  dereferences the NULL of a line without a colon. `Headers` are the buffers that
  `receive_http_header2` may leave: at the end of the stream, with whatever lies behind
  the last byte (`"?"`). `StrToInt` has base 0 (a leading zero means octal) and keeps the
  digits read before an error. Their loops are functions from the number of tokens, or of
  lines, that have been read to the state of the parser, so that they can be proved about.
* **`Http`** puts `HttpText` to work on one connection: the reader cuts the client's
  stream, request threads forward and receive, the writer sends. Of a client the module
  assumes the form of a message (`IsMessage`), of a server also that its header lines are
  such as the parser can read and that the length it gives is that of its body
  (`IsAnswer`). `ReadsToTheEnd` is about the clients whose requests are all `WellFormed` and
  without a body, since a body is read as a header, and one without a colon ends the worker.
  `RoundRobin` uses `StatusPage` for what `apache_score` learns, from pages that break off at
  any byte. `IsStatus` says what the page of a server is: each number in decimal, and the
  busy workers before the idle ones, as Apache writes them. Were it the other way round, a
  page broken off between the two would be scored with a busy count of -1, which
  `apache_score` does not look for.
* **`Startup`** uses `Configuration` for the start of a run, and adds what outlives a
  run: the two names, the objects behind them, and workers without a main. An object is
  numbered by the run that created it, so that `attached[p]`, what process `p` has
  opened, tells it from a newer one of the same name. `pointers` is the run whose
  addresses are in the shared memory; a worker of another run that follows them may die
  there (`FollowBadPointer`).

Where modules meet. `EndServe` of `ConnectionPool`, a step that happens in the end, is
`MainCloses` of `Worker`, reached through reader and watchdog; `ConnectionEnds` justifies
its fairness. What follows in `ConnectionPool` up to `ClearBusy` is `DestroyLimit` and
`CancelThreads` of `Lifetime`; `WorkerReturns` says that it is passed, and when not.
`Worker` and `ChunkPipe` meet at `RequestEnds` and `WriterSendsBody`; `Http` takes what
both of them show, order and completeness, to be given. `RoundRobin` and
`ConnectionPool` meet at `SelectWorker`, which takes any server. `Startup` takes of
`ConnectionPool` the critical sections of manager and workers.

## The runs

| Run | Instance | What it shows |
|---|---|---|
| `pool_safety` | 3 connections, 2 workers, 2 slots, 1 death, 1 failing `sendmsg` | types, `NoDescriptorLeak`, `FreeWorkerIsClean`, `HandoverToFreshListener`, `SemaphoreExcludes`, and that the pool implements `Dispatch` |
| `pool_live` | 2 connections, 2 servers, 1 worker, 1 slot, no failures | `EveryConnectionServed`, `EveryWorkerReturns`, `ServedByItsServer` |
| `rr_safety` | 3 servers, 7 status pages and every beginning of them, 3 calls, 2 rounds | `UniformLoad`, `WeightsAreServed`, `PatternFollowsWeights`, `ScanKeepsBuffer`, `SyncedScanIsComplete` |
| `chunk` | lengths -1 to 6, chunks of 2 | `ForwardedInOrder`, `NodeOutlivesReceiver`, `NoMissedSignal`, `BodyIsForwarded` |
| `worker` | 3 requests, `max_thread_pchild` 2 | `AnsweredInOrder`, `AnswersARequest`, `NodesOutliveRequests`, `ConnectionEnds` |
| `lifetime` | 2 connections of one request, 6 descriptors, `max_thread_pchild` 0 | `DescriptorsAccounted`, `ThreadsKeepToTheirClient`, `WorkerReturns` |
| `http` | 4 clients of up to 2 requests, 3 answers, closed at any byte | `ForwardsTheRequest`, `ReadsToTheEnd`, `LengthIsServers`, `ClientReadsAnswers` |
| `startup` | 2 runs, 9 pairs of files, up to 2 workers, 2 connections | `SemaphoreExcludes`, `WorkersRegistered`, `NoServerLeftOut`, `BusyEndsWithItsWorker`, `StartsAfterCleaning` |

Every run also checks the `TypeOK` of its module, but for `pool_live`, whose types
`pool_safety` checks.

Why the bounds are enough. Two workers and three connections let a worker be
reused, be chosen against another, and be short; two slots let `fd_array` fill
up; one death can strike at every step, the steps inside the semaphore included,
and also stands for a fork that failed. In `pool_live` one worker and one slot
make every connection wait for the one before it. Three servers give sorts and
sums with an element in the middle; two rounds give an update that starts from
an updated buffer. `PatternFollowsWeights` is about weights of 0 to 5: a negative one
counts in a sum and in no pass, and such a pattern has some other server once more than
its weight, which the model shows and the code does. Three chunks of two bytes have a first, a middle and a last
one, full and short reads. With three requests and a limit of two the reader
reaches its limit with a request to spare, and the queue goes through empty, one and two
nodes while a third is on its way. In
`lifetime` two connections are what it takes for threads, numbers, memory and the
counter of one to meet the next; the second connection needs two descriptors more
than the first has left, so the table is both short and just large enough; with
`max_thread_pchild` 0 one request brings the reader to its limit, its own or one that a
late reader of the last connection has counted. In `http` a length of two digits can
break off between them, names come in three spellings, and one client each sends a
body, a line without a colon and a length that is no number. `startup` has files of
both parities of the lines before an address, a commented `IP` that is counted, and one
file for each way the start can end; two runs let every leftover of one meet the
next; two connections can be served by a worker and its orphan at once.

Deadlock is not checked, because the instances stop by design: connections, calls,
requests and runs are finitely many, and what is left then is polling.

### Where the code does not do what is said of it

| Run | Property | What happens |
|---|---|---|
| `pool_dead_worker` | `ManagerMovesOn` | the manager sends to a dead worker for ever (`thread_pool.c:220`) |
| `rr_hang` | `UpdateEnds` | the wrong sum of weights makes `weight_servers` loop for ever (`round_robin.c:11`) |
| `chunk_empty` | `WriterGetsThrough` | after an empty or cut-off body the writer waits for ever (`connection.c:268`) |
| `worker_gap` | `NoAnswerLeftOut` | enqueue and dequeue interleave, a node is lost, and the client gets the next response in its place (`request_queue.c:79`) |

The quotations are in `findings` in `PROJECT.json`. More disagreements are in the
models and have no run of their own:

* with `pre_fork` 0 a worker is created that the manager never looks at
  (`thread_pool.c:165`; comment `main.c:80`): `EveryConnectionServed` fails with
  `PreFork` 1 and no entries scanned;
* a request thread of a closed connection reads the server of the worker's next one
  (`worker.c:106`), as `request[c].server` may differ from `scheduled[c]`;
* a server with few workers that are all busy gets weight 0 (five or four workers) or a
  negative one (three or two) and is left out of the buffer, where `scheduler.c:61` says
  "mapping in [w, W]" and `relation.tex:1469` that it occurs at least once; with more than
  five workers it is not (`NobodyLeftOut`);
* `get_server` reads the buffer that `reset_servers` has freed without the mutex
  (`round_robin.c:62`): `touched` becomes TRUE;
* `relation.tex:921` says that a server is returned as BROKEN only if all are, but
  after an update `buffer_position` does not match `head`, and such a scan skips an
  entry (`SyncedScanIsComplete` is stated for the other scans);
* after a `sendmsg` that failed the retry uses a second connection that the worker,
  waiting on the first, never accepts;
* `count_server` counts `IP` at odd places, also in comments, and not at even ones,
  which its comment (`server_config.c:112`, "Count how many lines start with IP") does
  not say; with the lines the parser takes it never counts too few;
* a client that sends a body has its bytes read as the next request, and a header line
  without a colon ends the worker, whose `worker_busy` then stays 1;
* a header that ends in LF LF is never complete;
* a watchdog or reader of an ended connection that is late may end the next one, or
  count towards its limit (`worker.c:584`, `worker.c:322`);
* a worker that outlives its run may die inside the critical section of the next
  (`main.c:101`, `worker.c:593`), and a run that follows a killed one may wait for ever
  for the semaphore (`shared_mem.c:29`).

## Fairness

* A thread that can take a step takes one in the end: each action of the
  manager, the workers, the updater, the pipe and the main thread is weakly fair.
* `sem_wait` is strongly fair, because the manager takes and posts the semaphore
  again and again while no worker is free, so it is not continuously available.
  The same holds for the mutexes of the circular buffer and of the chunk.
* `EndServe` is fair because of the watchdog; see `ConnectionEnds`. In `Worker`
  only the main thread and the watchdog are fair: clients and servers may do
  nothing for ever, and the connection still ends.
* `WatchOver` happens only when the main thread is past its first test or waits:
  the watchdog first looks after `killer_time`, long after it was started. For
  the same reason the main thread's wait returns on a signal only; a spurious
  wakeup just before the watchdog's only signal would lose that signal.
* In `Lifetime` the main thread alone is fair: `WorkerReturns` asks nothing of the other
  threads. In `Startup` each main process is, step by step: it is not stopped for good,
  and no one takes its semaphore from it while it forks, but for the manager of another
  run, which has ended, or its orphans, which `StartsAfterCleaning` excludes.
* Nothing is assumed of failures, deaths, clients, servers, status pages and
  sockets.

## What is proved

Every module named `...Proofs` proves what it states for every value of the constants that
its component's `ASSUME` admits; the run of that component shows the same property, and the
assumption, on a small instance. None of the safety properties is inductive alone. The
invariant of each module, `IInv`, is made of parts that say who has what, and each part has
lemmas of its own which show that a step keeps it.

**`ConnectionPoolProofs`**, for any connections, servers, `pre_fork`, `max_fd` and number
of deaths and failures: `TypeCorrect`, `Exclusion`, `DescriptorsKept`, `FreeWorkersClean`,
`FreshListener`, `ServedByScheduled`. `RequestInv` ties the state of a request thread to its
process; `ManagerInv` ties `fd` and `position` to `dpc`; `PlacesInv` says that a connection
is in one place at a time; `LinkInv` says what may be queued at a worker's listener, for
which the manager's current attempt matters; `WorkerInv` says that a free worker is engaged
in nothing; `ServerInv` ties `worker_server` to the connection offered to the worker or held
by it.

The same module shows that the pool implements `Dispatch` (`PoolImplementsDispatch`). To
`IInv` this adds `SingleOwner`, that no two workers have to do with one connection. Then a
connection is in one of the stages of `Dispatch` (`StagesTell`), and each action either is
one that `Dispatch` does not see, or accepts, gives, receives or closes a connection, or
loses it with a process (`KindsOfStep`).

**`ChunkPipeProofs`**, for every set of lengths and every chunk size: `TypeCorrect`,
`InOrder`, `NodeOutlives`, `SignalsArrive`. The invariant says how the two counters, `wrote`
and `dimen` fit together: the bytes received and not yet sent are those in the chunk. It
also says that a receiver past the end of file has found `wrote` TRUE, which is why its
second unlock, though it may come while the writer holds nothing, does no harm.

**`WorkerProofs`**, for any number of requests and any limit: `TypeCorrect`, `InOrder`,
`AnswersRequests`, `NodesLive`. The queue without a lock does lose nodes, so that the
invariant cannot say which nodes it holds. What survives every interleaving is weaker, and is
enough: a `next` pointer leads to a later node and never past the last one made
(`QueueInv`), and what the writer holds comes after all it has answered (`WriterInv`). The
attempt to prove more, that the k-th answer is that of the k-th request, failed at
`dequeue_request_queue`; what it failed on is now the run `worker_gap`.

**`LifetimeProofs`**, for any number of connections, requests and descriptors and any
limit: `TypeCorrect`, `EveryDescriptorAccounted`, `ThreadsKeep`. `TableInv` says that the
table of descriptors has exactly the files somebody accounts for (`InUse`), each once, and
`MainInv` that a thread that is not cancelled is one of the connection served. Of the files
accounted for then, only one is a client, and it is that thread's own (`OnlyItsClient`).

**`StartupProofs`**, for any number of runs and workers and any files: `TypeCorrect`,
`Exclusion`, `Registration`, `FlagTakenDownByItsWorker`, `ServersKept`. `RunsInv` says that
one main lives at a time, `OpenInv` what a process may still have open, `SemInv` that who is
inside is alone there and the semaphore 0, `ForkInv` that workers are forked in the order of
their numbers. `ServersKept` rests on `EnoughCounted`: each line that `parse_line` takes
begins with a pair that `count_server` counts, so the pool has a place for it, whatever else
is counted.

**`StatusPageProofs`**: whatever a status page holds and wherever it breaks off, the numbers
read from it are numbers (`ReportsTypes`), which the types of the scheduler need; and of a
page that is a status page (`IsStatus`), if the number of idle workers is reported at all, both
numbers are those of the page (`StatusServed`). The invariant of the parser's loop
(`AtByte`) says that its buffer is the page from the line it is at, and that it knows the
busy workers once it is past a line that gives them (`AtNextByte`); `NumberRead` is one
line, `DecimalIs` its number in `str_to_int`, and `BlankOfPart` why the head of a part is
that of the whole. The module also has the two lemmas about loops that all proofs about parsers, sorting and patterns use: `Loop`, that
a loop written as a function exists if its steps stay in a set, and `Induct`, that what a
step keeps holds at the end. The induction theorems of the library cannot be used, since
they take the predicate as an operator; here it is a set, and the induction is the choice of
its least counterexample (`NatLeast`).

**`RoundRobinProofs`**, for any number of servers and any pages: `TypeCorrect`,
`TurnsAreTaken`, `BufferKept`, `ScanIsComplete`, `WeightsAreFollowed`,
`WeightsAreThoseServed`, `NobodyLeftOut`.

* Until the first update the buffer has the servers in their order and the manager is one
  place behind its head (`LoadInv`), so that they take turns; what a scan has passed is the
  arc between `head` and `tail`, counted by `not_available` (`ScanInv`), so that a scan that
  gives up has seen all of it.
* `WeightsAreFollowed` is about `weight_servers`, whose sum of weights is taken during the
  exchanges of the sort and may be wrong. Exchanges rearrange the servers (`SwapArranges`),
  and the sum that results is never less than the true one (`SumIsEnough`). The passes put
  each server in as often as its weight says and then nothing (`PassesHold`). So a loop that
  waits for its pattern to be as long as the sum ends only if the sum is right, and then the
  pattern is right too (`PatternHolds`); where it is not, the loop does not end, which is
  `rr_hang`.
* `WeightsAreThoseServed` rests on `StatusServed`: whatever part of a page has come, the
  numbers `apache_score` is given are those of a page (`RetrievedServed`).
* `NobodyLeftOut` assumes `LargeServers`, that each server has more than five workers; then
  `Score` is in 1 to 5 (`ScoreRange`).

**`HttpProofs`**, for all sessions of requests and all answers: `RequestsAreForwarded`,
`TypeCorrect`, `ReaderReadsToTheEnd`, `LengthsAreServers`, `ClientsReadAnswers`.

* What is forwarded. `HttpAssumption` says what a message is (`IsMessage`): a first line of
  three words, of which none has a line end and the first two no space, and a header that
  ends at its first blank line; nothing is said of the headers of a request. What the reader
  takes of a stream is the header of the next request or its beginning (`HeaderTaken`), and
  the rest of the stream follows (`RemainingIs`). Of a header or its beginning the parser
  makes the three words of the first line, or nothing (`PartRead`): `FirstLineRead` follows
  its loop over the bytes up to the first line end, where the words are cut out (`PiecesAre`),
  and past it, where no line touches them any more (`LineKeeps`). The invariant `IInv` says
  that a reader that has met no body is at the end of a request (`InStep`).
* What is read of a well-formed header (`Lined`), or of its beginning: nothing crashes, and
  the length is one that a whole line gives, or none (`HeaderLinesRead`). `InLoop` is the
  invariant of the parser's loop, byte by byte, `LineIn` its step at a line end, `LineCut` the
  line cut at its colon, and `ParsedIs` what `get_header` makes of it. `DecimalIs` says that
  `str_to_int`, which keeps a running value and chooses its base by the first digit, returns
  the number that a decimal without leading zeros is.
* What a request thread has of its answer follows from these two (`ResponseIs`): a header
  and the length of its body; or a header and no length, whose body is then not received; or
  a beginning of the header, alone or with the byte that `receive_http_header2` has not
  written. The whole invariant, `AInv`, adds to `IInv` that the sequences belong to the same
  threads (`Paired`), what each thread has of its answer (`AsAnswered`), that the output is
  made of whole answers, with the last one perhaps broken off, which stops the writer
  (`AsSent`), and that a reader of plain requests has stopped at the end (`ToTheEnd`).

Only model-checked: liveness (`EveryConnectionServed`, `EveryWorkerReturns`,
`BodyIsForwarded`, `ConnectionEnds`, `WorkerReturns`, `StartsAfterCleaning`), which is out
of the prover's reach, and the counterexamples. Every invariant that a run checks is a theorem.

## What is not modelled

* What messages of the log say, error objects, overflow of numbers, floating point,
  `timestamp` (which shares one buffer between threads).
* `init_pool`'s race with the accept loop. Failures of `malloc`, of mutex, semaphore and
  shared memory calls, except where a negative size is asked for. A second Heimdall
  beside a running one: the port is shared by `SO_REUSEPORT`, so that nothing refuses
  it, and it would take over the names.
* Headers of more than 4096 bytes, where the result of `realloc` is thrown away, and
  configuration lines longer than their buffer; more names than addresses in the server
  file, which overflows an array.
* The rest of the bodies: `Http` takes a response at once, `ChunkPipe` one body.
* In `ConnectionPool` one request thread stands for those of a connection, and its read
  of the server is one step.
* The limit of the UNIX sockets' backlog (5): the manager makes at most one
  connection more than there are failed attempts. The descriptors main leaves open
  in `send_fd` are not counted; those of a worker are, in `Lifetime`.
* A retry of a failed `unix_connect` and a poll of an empty `fd_array` change
  nothing and are stuttering steps.
* In `RoundRobin` the status pages of a run are few; pages that make weights
  negative are left to the constants. `update_time` and the time a transfer takes are
  left out. The values of a status page that are read with `str_to_float` are too.
* The time of the watchdog: `killer_time` of a second or more makes `nanosleep` fail at
  once (`watchdog.c:54`), and a low slot of `fd_array` that is refilled starves a high
  one (`thread_pool.c:97`) only with connections without end.
* The comment at `thread_pool.c:163` says the first worker with minor usage; the
  code (`<=`) takes the last, and so does `LeastUsed`.

## Plan

Done: all modules named above and their runs; the proofs of the pool, its refinement of
`Dispatch`, the pipe, the worker, its lifetime, the start, the scheduler, the pages it reads,
and the messages.

What would come next: `init_pool` beside the accept loop; a count of the descriptors main
leaves open; an abstract specification of a worker that `Worker` and `Lifetime` implement.
