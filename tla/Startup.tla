------------------------------ MODULE Startup ------------------------------
(***************************************************************************)
(* Starting Heimdall, stopping it and starting it again.                   *)
(*                                                                         *)
(* main reads its files, creates the shared memory and its semaphore under *)
(* fixed names, forks and registers the workers, and accepts connections.  *)
(* The two objects outlive the processes: only the handler of SIGINT,      *)
(* which is installed late, unlinks their names, and a run that finds them *)
(* opens what is there.  Workers outlive a main that is killed.  The       *)
(* arrays are reached through pointers kept in the shared memory itself,   *)
(* which are good only in the processes of the run that has written them.  *)
(*                                                                         *)
(* A run starts when the main process of the one before has ended; an      *)
(* object is named after the run that created it.  How connections are     *)
(* handed out in one run is in ConnectionPool; here is what it takes of it *)
(* to be inside of the critical sections, with any free worker chosen.     *)
(***************************************************************************)
EXTENDS Configuration

CONSTANTS MaxRuns,     \* bound: how often Heimdall is started
          Inputs,      \* what the files may hold: [config, servers], servers NULL if the
                       \* file that config names does not exist
          MaxPrefork,  \* bound: workers a run may fork
          MaxServed    \* bound: connections handed to workers

ASSUME StartupAssumption ==
    /\ MaxRuns \in Nat \ {0}
    /\ \A input \in Inputs : Prefork(Config(input.config).values) \in 1 .. MaxPrefork
    /\ \A input \in Inputs : input.servers # NULL =>
          /\ input.servers \in Seq(Seq(STRING))
          /\ Addresses(input.servers) # <<>>
          /\ Len(Values(input.servers, <<"N", "a", "m", "e">>)) <= Len(Addresses(input.servers))
    /\ MaxPrefork \in Nat /\ MaxServed \in Nat

Runs == 1 .. MaxRuns

\* A process is <<run, number>>: main is number 0.
Main(r) == <<r, 0>>
Workers == Runs \X (1 .. MaxPrefork)
Free    == <<0, 0>>            \* 0, in a slot without a worker
Failed  == <<0, 1>>            \* -1, what a fork that fails returns

VARIABLES
    main,        \* where the main process of each run is
    config,      \* the Config of each run: the values its file has given it
    server_pool, \* scheduler->server_pool
    manager,     \* thread_pool_loop of each run: [at, position]
    worker,      \* where each worker is
    attached,    \* the objects a process has opened: [shm, sem]
    name,        \* what the two names refer to, 0 for nothing: [shm, sem]
    sem,         \* the value of each semaphore
    pointers,        \* whose pointers are in each shared memory
    worker_array, worker_busy,   \* the arrays in it
    served,      \* counter for the bound
    clean        \* history: nothing was left behind when the last run ended

fileVars == <<config, server_pool>>
shmVars  == <<pointers, worker_array, worker_busy>>
vars == <<main, fileVars, manager, worker, attached, name, sem, shmVars, served, clean>>

\* What a run may have read.
Unread  == [k \in Keys |-> NULL]
Configs == {Unread} \cup {Config(input.config).values : input \in Inputs}
Pools   == {<<>>} \cup {ServerPool(input.servers) : input \in {i \in Inputs : i.servers # NULL}}

Nothing == [shm |-> 0, sem |-> 0]
Alive   == {"prefork", "fork", "register", "registering", "threads", "handled", "accepting"}
Ended   == {"exited", "crashed", "killed"}
Manager(at, position) == [at |-> at, position |-> position]

\* do_prefork makes one worker where the file says 0; thread_pool_loop and start_worker
\* read the file again, and do not.
n_prefork(r) == Prefork(config[r])
number_of_worker(r) == StrToInt(config[r]["pre_fork"]).value

Living(r) == {w \in Workers : w[1] = r /\ worker[w] \notin {"none", "failed", "dead"}}
Forked(r) == Cardinality({w \in Workers : w[1] = r /\ worker[w] # "none"})
Pid(r, k) == IF worker[<<r, k>>] = "failed" THEN Failed ELSE <<r, k>>

Init ==
    /\ main = [r \in Runs |-> "none"]
    /\ config = [r \in Runs |-> Unread]
    /\ server_pool = [r \in Runs |-> <<>>]
    /\ manager = [r \in Runs |-> Manager("idle", 0)]
    /\ worker = [w \in Workers |-> "none"]
    /\ attached = [p \in Workers \cup {Main(r) : r \in Runs} |-> Nothing]
    /\ name = Nothing
    /\ sem = [r \in Runs |-> 1]
    /\ pointers = [r \in Runs |-> 0]
    /\ worker_array = [r \in Runs |-> <<>>] /\ worker_busy = [r \in Runs |-> <<>>]
    /\ served = 0
    /\ clean = TRUE

SemWait(p) == /\ sem[attached[p].sem] = 1
              /\ sem' = [sem EXCEPT ![attached[p].sem] = 0]
SemPost(p) == sem' = [sem EXCEPT ![attached[p].sem] = @ + 1]
-----------------------------------------------------------------------------
(* The main process                                                        *)

\* main up to do_prefork.
Start(r) ==
    /\ main[r] = "none" /\ (r > 1 => main[r - 1] \in Ended)
    /\ \E input \in Inputs :
       \E read \in {Config(input.config)} :
       \E end \in Configured(read, input.servers) :
         /\ main' = [main EXCEPT ![r] =
                       IF end = "prefork" /\ read.values["pre_fork"] = NULL THEN "crashed" ELSE end]
         /\ config' = [config EXCEPT ![r] = read.values]
         /\ server_pool' = IF end = "prefork"
                           THEN [server_pool EXCEPT ![r] = ServerPool(input.servers)]
                           ELSE server_pool
    /\ UNCHANGED <<manager, worker, attached, name, sem, shmVars, served, clean>>

\* What the names refer to once they have been opened with O_CREAT.
Opened(r) == [object \in {"shm", "sem"} |-> IF name[object] = 0 THEN r ELSE name[object]]

InitShmPosts(r) ==
    /\ main[r] = "prefork"
    /\ main' = [main EXCEPT ![r] = "fork"]
    /\ name' = Opened(r)
    /\ attached' = [attached EXCEPT ![Main(r)] = Opened(r)]
    /\ sem' = [sem EXCEPT ![Opened(r).sem] = 1]
    /\ pointers' = [pointers EXCEPT ![Opened(r).shm] = r]
    /\ worker_array' = [worker_array EXCEPT ![Opened(r).shm] = [i \in 1 .. n_prefork(r) |-> Free]]
    /\ worker_busy' = [worker_busy EXCEPT ![Opened(r).shm] = [i \in 1 .. n_prefork(r) |-> 0]]
    /\ UNCHANGED <<fileVars, manager, worker, served, clean>>

InitShmKeepsArray(r) ==
    /\ main[r] = "prefork"
    /\ main' = [main EXCEPT ![r] = "fork"]
    /\ name' = Opened(r)
    /\ attached' = [attached EXCEPT ![Main(r)] = Opened(r)]
    /\ pointers' = [pointers EXCEPT ![Opened(r).shm] = r]
    /\ worker_array' = [worker_array EXCEPT ![Opened(r).shm] =
                          [i \in 1 .. n_prefork(r) |-> IF i \in DOMAIN @ THEN @[i] ELSE Free]]
    /\ worker_busy' = [worker_busy EXCEPT ![Opened(r).shm] = [i \in 1 .. n_prefork(r) |-> 0]]
    /\ UNCHANGED <<fileVars, manager, worker, sem, served, clean>>

\* init_shm, and the arrays laid out and emptied in what it returns.  A semaphore that
\* exists keeps its value.
InitShm(r) ==
    /\ main[r] = "prefork"
    /\ main' = [main EXCEPT ![r] = "fork"]
    /\ name' = Opened(r)
    /\ attached' = [attached EXCEPT ![Main(r)] = Opened(r)]
    /\ pointers' = [pointers EXCEPT ![Opened(r).shm] = r]
    /\ worker_array' = [worker_array EXCEPT ![Opened(r).shm] = [i \in 1 .. n_prefork(r) |-> Free]]
    /\ worker_busy' = [worker_busy EXCEPT ![Opened(r).shm] = [i \in 1 .. n_prefork(r) |-> 0]]
    /\ UNCHANGED <<fileVars, manager, worker, sem, served, clean>>

\* fork, which may fail.
Fork(r) ==
    /\ main[r] = "fork"
    /\ main' = [main EXCEPT ![r] = "register"]
    /\ \E born \in {"started", "failed"} :
         worker' = [worker EXCEPT ![<<r, Forked(r) + 1>>] = born]
    /\ UNCHANGED <<fileVars, manager, attached, name, sem, shmVars, served, clean>>

RegisterUnlocked(r) ==
    /\ main[r] = "register"
    /\ main' = [main EXCEPT ![r] = "registering"]
    /\ UNCHANGED <<fileVars, manager, worker, attached, name, sem, shmVars, served, clean>>

RegisterWait(r) ==
    /\ main[r] = "register"
    /\ SemWait(Main(r))
    /\ main' = [main EXCEPT ![r] = "registering"]
    /\ UNCHANGED <<fileVars, manager, worker, attached, name, shmVars, served, clean>>

\* The first slot that is 0 takes what fork has returned.
Register(r) ==
    LET shm == attached[Main(r)].shm IN
    /\ main[r] = "registering"
    /\ \E i \in DOMAIN worker_array[shm] :
         /\ worker_array[shm][i] = Free
         /\ \A j \in 1 .. i - 1 : worker_array[shm][j] # Free
         /\ worker_array' = [worker_array EXCEPT ![shm][i] = Pid(r, Forked(r))]
    /\ SemPost(Main(r))
    /\ main' = [main EXCEPT ![r] = IF Forked(r) = n_prefork(r) THEN "threads" ELSE "fork"]
    /\ UNCHANGED <<fileVars, manager, worker, attached, name, pointers, worker_busy, served, clean>>

\* get_thread_pool starts the manager's thread, and SIGINT gets its handler.
HandleSignal(r) ==
    /\ main[r] = "threads"
    /\ main' = [main EXCEPT ![r] = "handled"]
    /\ UNCHANGED <<fileVars, manager, worker, attached, name, sem, shmVars, served, clean>>

\* create_server_socket and listen_to: ends main where the port is taken.
Listen(r) ==
    /\ main[r] = "handled"
    /\ \E end \in IF NULL \in {config[r]["server_main_port"], config[r]["backlog"]}
                  THEN {"crashed"} ELSE {"accepting", "exited"} :
         /\ main' = [main EXCEPT ![r] = end]
         /\ clean' = (clean /\ end = "accepting")
    /\ UNCHANGED <<fileVars, manager, worker, attached, name, sem, shmVars, served>>

\* init_pool, in its own thread, ends the process where max_fd is no number.
InitPoolFails(r) ==
    /\ main[r] \in {"handled", "accepting"}
    /\ ~IsNumber(config[r]["max_fd"])
    /\ main' = [main EXCEPT ![r] = IF config[r]["max_fd"] = NULL THEN "crashed" ELSE "exited"]
    /\ clean' = FALSE
    /\ UNCHANGED <<fileVars, manager, worker, attached, name, sem, shmVars, served>>

MainStep(r) == \/ InitShm(r) \/ Fork(r) \/ RegisterWait(r) \/ Register(r)
               \/ HandleSignal(r) \/ Listen(r)
-----------------------------------------------------------------------------
(* The pool manager                                                        *)

\* A connection waits, and thread_pool_loop looks for a worker.
ManagerWait(r) ==
    /\ main[r] = "accepting" /\ IsNumber(config[r]["max_fd"])
    /\ manager[r].at = "idle" /\ served < MaxServed
    /\ SemWait(Main(r))
    /\ manager' = [manager EXCEPT ![r].at = "inside"]
    /\ UNCHANGED <<main, fileVars, worker, attached, name, shmVars, served, clean>>

PickWorker(r) ==
    LET shm  == attached[Main(r)].shm
        free == {i \in 1 .. number_of_worker(r) : worker_busy[shm][i] = 0}
    IN  /\ main[r] = "accepting" /\ manager[r].at = "inside"
        /\ \/ /\ free = {}
              /\ manager' = [manager EXCEPT ![r].at = "idle"]
              /\ UNCHANGED <<worker_busy, served>>
           \/ \E i \in free :
                /\ manager' = [manager EXCEPT ![r] = Manager("sending", i)]
                /\ worker_busy' = [worker_busy EXCEPT ![shm][i] = 1]
                /\ served' = served + 1
        /\ SemPost(Main(r))
        /\ UNCHANGED <<main, fileVars, worker, attached, name, pointers, worker_array, clean>>

\* send_fd, tried until the worker receives.
SendFd(r) ==
    LET pid == worker_array[attached[Main(r)].shm][manager[r].position] IN
    /\ main[r] = "accepting" /\ manager[r].at = "sending"
    /\ pid \in Workers /\ worker[pid] = "idle"
    /\ worker' = [worker EXCEPT ![pid] = "serving"]
    /\ manager' = [manager EXCEPT ![r].at = "idle"]
    /\ UNCHANGED <<main, fileVars, attached, name, sem, shmVars, served, clean>>
-----------------------------------------------------------------------------
(* The workers                                                             *)

\* start_worker: get_shm and sem_open find what the names refer to now.
StartWorker(w) ==
    /\ worker[w] = "started"
    /\ worker' = [worker EXCEPT ![w] = IF name.shm = 0 THEN "dead" ELSE "idle"]
    /\ attached' = [attached EXCEPT ![w] = name]
    /\ UNCHANGED <<main, fileVars, manager, name, sem, shmVars, served, clean>>

\* The connection has ended.
EndWait(w) ==
    /\ worker[w] = "serving"
    /\ SemWait(w)
    /\ worker' = [worker EXCEPT ![w] = "ending"]
    /\ UNCHANGED <<main, fileVars, manager, attached, name, shmVars, served, clean>>

EndConnectionAtPlace(w) ==
    LET shm == attached[w].shm IN
    /\ worker[w] = "ending"
    /\ worker' = [worker EXCEPT ![w] = "idle"]
    /\ worker_busy' = [worker_busy EXCEPT ![shm] =
                         [i \in DOMAIN @ |-> IF i = w[2] THEN 0 ELSE @[i]]]
    /\ SemPost(w)
    /\ UNCHANGED <<main, fileVars, manager, attached, name, pointers, worker_array, served, clean>>

\* The worker looks for its pid, to clear its flag.  With pointers of another run it
\* still may, if that run has its memory at the same address.
EndConnection(w) ==
    LET shm == attached[w].shm IN
    /\ worker[w] = "ending"
    /\ worker' = [worker EXCEPT ![w] = "idle"]
    /\ worker_busy' = [worker_busy EXCEPT ![shm] =
                         [i \in DOMAIN @ |-> IF i \in 1 .. number_of_worker(w[1])
                                                /\ worker_array[shm][i] = w THEN 0 ELSE @[i]]]
    /\ SemPost(w)
    /\ UNCHANGED <<main, fileVars, manager, attached, name, pointers, worker_array, served, clean>>

\* If it has not, the worker dies, and leaves the semaphore at 0.
FollowBadPointer(w) ==
    /\ worker[w] = "ending" /\ pointers[attached[w].shm] # w[1]
    /\ worker' = [worker EXCEPT ![w] = "dead"]
    /\ UNCHANGED <<main, fileVars, manager, attached, name, sem, shmVars, served, clean>>
-----------------------------------------------------------------------------
(* The end of a run                                                        *)

\* A signal for main alone, or for its whole process group.
Signalled(r) == \E killed \in {{}, Living(r)} :
                   worker' = [w \in Workers |-> IF w \in killed THEN "dead" ELSE worker[w]]

CleaningKeepsSem(r) ==
    /\ main[r] \in {"handled", "accepting"}
    /\ main' = [main EXCEPT ![r] = "exited"]
    /\ Signalled(r)
    /\ name' = [name EXCEPT !.shm = 0]
    /\ clean' = TRUE
    /\ UNCHANGED <<fileVars, manager, attached, sem, shmVars, served>>

\* SIGINT, once it has its handler, whatever the other threads are doing.
Cleaning(r) ==
    /\ main[r] \in {"handled", "accepting"}
    /\ main' = [main EXCEPT ![r] = "exited"]
    /\ Signalled(r)
    /\ name' = Nothing
    /\ clean' = TRUE
    /\ UNCHANGED <<fileVars, manager, attached, sem, shmVars, served>>

\* SIGINT before that, SIGTERM and SIGKILL.
Kill(r) ==
    /\ main[r] \in Alive
    /\ main' = [main EXCEPT ![r] = "killed"]
    /\ Signalled(r)
    /\ clean' = (clean /\ main[r] = "prefork")
    /\ UNCHANGED <<fileVars, manager, attached, name, sem, shmVars, served>>
-----------------------------------------------------------------------------
Next ==
    \/ \E r \in Runs : \/ Start(r) \/ MainStep(r) \/ InitPoolFails(r)
                       \/ ManagerWait(r) \/ PickWorker(r) \/ SendFd(r)
                       \/ Cleaning(r) \/ Kill(r)
    \/ \E w \in Workers : StartWorker(w) \/ EndWait(w) \/ EndConnection(w) \/ FollowBadPointer(w)

Spec == Init /\ [][Next]_vars

\* main is never stopped for good, and a semaphore that main waits for is no one else's
\* while main still forks, unless another run has left it.
FairSpec == Spec /\ \A r \in Runs : WF_vars(MainStep(r))
-----------------------------------------------------------------------------
(* What runs keep true, each for itself and between them                   *)

Objects == [{"shm", "sem"} -> 0 .. MaxRuns]

TypeOK ==
    /\ main \in [Runs -> {"none"} \cup Alive \cup Ended]
    /\ config \in [Runs -> Configs]
    /\ server_pool \in [Runs -> Pools]
    /\ manager \in [Runs -> [at : {"idle", "inside", "sending"}, position : 0 .. MaxPrefork]]
    /\ worker \in [Workers -> {"none", "failed", "started", "idle", "serving", "ending", "dead"}]
    /\ attached \in [Workers \cup {Main(r) : r \in Runs} -> Objects]
    /\ name \in Objects
    /\ sem \in [Runs -> {0, 1}]
    /\ pointers \in [Runs -> 0 .. MaxRuns]
    /\ worker_array \in [Runs -> Seq(Workers \cup {Free, Failed})]
    /\ worker_busy \in [Runs -> Seq({0, 1})]
    /\ \A r \in Runs : Len(worker_array[r]) = Len(worker_busy[r])
    /\ served \in 0 .. MaxServed /\ clean \in BOOLEAN

\* The processes inside of a critical section of semaphore s.
Inside(s) ==
    {w \in Workers : attached[w].sem = s /\ worker[w] = "ending"} \cup
    {Main(r) : r \in {r \in Runs : /\ attached[Main(r)].sem = s
                                   /\ \/ main[r] = "registering"
                                      \/ main[r] = "accepting" /\ manager[r].at = "inside"}}

\* init_shm, sem_wait, sem_post: of the processes of all runs, orphans included, one at a
\* time is inside of the sections a semaphore guards, and then it is 0.
SemaphoreExcludes == \A s \in Runs : sem[s] + Cardinality(Inside(s)) <= 1

\* do_prefork: from the first fork on, the array of a living main holds its own workers in
\* the order they were forked, and none that another run has left there.
WorkersRegistered ==
    \A r \in Runs : main[r] \in Alive \ {"prefork"} =>
        LET registered == Forked(r) - (IF main[r] \in {"register", "registering"} THEN 1 ELSE 0)
        IN  worker_array[attached[Main(r)].shm] =
                [k \in 1 .. n_prefork(r) |-> IF k <= registered THEN Pid(r, k) ELSE Free]

\* count_server, parse_line, init_scheduler: no server of the file is left out, and each is
\* at its place, whatever else the file holds.
NoServerLeftOut ==
    \A r \in Runs : main[r] \in Alive =>
        \E input \in Inputs :
            /\ input.servers # NULL /\ Config(input.config).values = config[r]
            /\ IsPrefix(Addresses(input.servers), server_pool[r])

\* start_worker: while its main lives, the flag of a busy worker is taken down at the end
\* of a connection of that worker, and by no one else.
BusyEndsWithItsWorker ==
    [][\A r \in Runs :
         LET shm == attached[Main(r)].shm IN
         main[r] = "accepting" =>
             \A i \in DOMAIN worker_busy[shm] :
                 worker_busy[shm][i] = 1 /\ worker_busy'[shm][i] = 0 =>
                     \E w \in Workers : /\ worker_array[shm][i] = w
                                       /\ worker[w] = "ending" /\ worker'[w] = "idle"]_vars

\* cleaning, init_shm: a run that starts after one that has cleaned up comes to accept
\* connections, or ends; it is never caught waiting for its own semaphore.
StartsAfterCleaning ==
    \A r \in Runs : main[r] = "prefork" /\ clean ~> main[r] \in {"accepting"} \cup Ended
=============================================================================
