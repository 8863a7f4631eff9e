---------------------------- MODULE StartupProofs ----------------------------
(***************************************************************************)
(* What Startup keeps true, for every number of runs and of workers, and   *)
(* for every pair of files.                                                *)
(***************************************************************************)
EXTENDS Startup, StatusPageProofs, FiniteSetTheorems

MainPCs   == {"none"} \cup Alive \cup Ended
WorkerPCs == {"none", "failed", "started", "idle", "serving", "ending", "dead"}

\* One run at a time: the ones before it have ended.
RunsInv == \A q, r \in Runs : q < r /\ main[r] # "none" => main[q] \in Ended

\* Both names are there or neither; who uses the objects has opened them.
Using(w) == worker[w] \in {"idle", "serving", "ending"}
OpenInv ==
    /\ name.shm = 0 <=> name.sem = 0
    /\ \A r \in Runs : main[r] \in Alive \ {"prefork"} =>
          attached[Main(r)].shm \in Runs /\ attached[Main(r)].sem \in Runs
    /\ \A w \in Workers : Using(w) => attached[w].shm \in Runs /\ attached[w].sem \in Runs

\* Who is inside of a critical section is alone, and the semaphore is 0.
Excluded(s) == /\ sem[s] = 1 => Inside(s) = {}
               /\ \A p, q \in Inside(s) : p = q
SemInv ==
    /\ \A r \in Runs : main[r] \notin {"accepting"} \cup Ended => manager[r].at = "idle"
    /\ \A s \in Runs : Excluded(s)

\* The workers of a run are forked in the order of their numbers.
ForkAt(r) ==
    /\ main[r] \in Alive => n_prefork(r) \in 1 .. MaxPrefork
    /\ \A i \in 1 .. MaxPrefork : worker[<<r, i>>] # "none" <=> i <= Forked(r)
    /\ main[r] \in {"none", "prefork"} => Forked(r) = 0
    /\ main[r] = "fork" => Forked(r) < n_prefork(r)
    /\ main[r] \in {"register", "registering"} => Forked(r) \in 1 .. n_prefork(r)
    /\ main[r] \in {"threads", "handled", "accepting"} => Forked(r) = n_prefork(r)
ForkInv == \A r \in Runs : ForkAt(r)

\* A manager takes the semaphore for a connection it has yet to count.
ServedInv == \A r \in Runs : main[r] = "accepting" /\ manager[r].at = "inside" => served < MaxServed

IInv == TypeOK /\ RunsInv /\ OpenInv /\ SemInv /\ ServedInv
        /\ ForkInv /\ WorkersRegistered
-----------------------------------------------------------------------------
LEMMA Params ==
    /\ MaxRuns \in Nat /\ MaxRuns >= 1 /\ MaxPrefork \in Nat /\ MaxServed \in Nat
    /\ Runs = 1 .. MaxRuns /\ Workers = Runs \X (1 .. MaxPrefork)
BY StartupAssumption DEF Runs, Workers

\* What a process is, and what it has opened.
LEMMA Processes ==
    /\ \A r \in Runs : \A i \in 1 .. MaxPrefork : <<r, i>> \in Workers
    /\ \A w \in Workers : w[1] \in Runs /\ w[2] \in 1 .. MaxPrefork /\ w = <<w[1], w[2]>>
    /\ \A r \in Runs : Main(r) \notin Workers
    /\ \A q, r \in Runs : Main(q) = Main(r) => q = r
    /\ Free \notin Workers /\ Failed \notin Workers /\ Free # Failed
BY Params DEF Main, Free, Failed

LEMMA Types ==
    TypeOK => /\ main \in [Runs -> MainPCs] /\ worker \in [Workers -> WorkerPCs]
              /\ manager \in [Runs -> [at : {"idle", "inside", "sending"}, position : 0 .. MaxPrefork]]
              /\ attached \in [Workers \cup {Main(r) : r \in Runs} -> Objects] /\ name \in Objects
              /\ sem \in [Runs -> {0, 1}]
BY DEF TypeOK, MainPCs, WorkerPCs
-----------------------------------------------------------------------------
(* One run at a time                                                       *)

LEMMA RunsStep ==
    ASSUME TypeOK, RunsInv, [Next]_vars
    PROVE  RunsInv'
<1> USE Params
<1>1. main \in [Runs -> MainPCs]
      BY Types
<1>2. ASSUME NEW r \in Runs, Start(r) PROVE RunsInv'
  <2>1. PICK end : main' = [main EXCEPT ![r] = end]
        BY <1>2 DEF Start
  <2>2. main[r] = "none" /\ (r > 1 => main[r - 1] \in Ended)
        BY <1>2 DEF Start
  <2>3. \A q \in Runs \ {r} : main'[q] = main[q]
        BY <1>1, <2>1
  <2>4. "none" \notin Ended
        BY DEF Ended
  <2>5. \A q \in Runs : q < r => main[q] \in Ended
    <3>1. CASE r = 1
          BY <3>1
    <3>2. CASE r > 1
      <4>1. r - 1 \in Runs /\ main[r - 1] \in Ended
            BY <2>2, <3>2
      <4>2. \A q \in Runs : q < r => q = r - 1 \/ q < r - 1
            OBVIOUS
      <4> QED
          BY <2>4, <4>1, <4>2 DEF RunsInv
    <3> QED
        BY <3>1, <3>2
  <2>6. \A q \in Runs : r < q => main[q] = "none"
        BY <2>2, <2>4 DEF RunsInv
  <2> QED
      BY <2>3, <2>5, <2>6 DEF RunsInv
<1>3. ASSUME NEW r \in Runs, main[r] \in Alive, NEW end \in Alive \cup Ended,
             main' = [main EXCEPT ![r] = end]
      PROVE  RunsInv'
  <2>1. \A q \in Runs : main'[q] = IF q = r THEN end ELSE main[q]
        BY <1>1, <1>3
  <2>2. main[r] # "none" /\ main[r] \notin Ended
        BY <1>3 DEF Alive, Ended
  <2> QED
      BY <2>1, <2>2 DEF RunsInv
<1>4. ASSUME NEW r \in Runs, MainStep(r) \/ InitPoolFails(r) \/ Cleaning(r) \/ Kill(r) PROVE RunsInv'
  <2>1. main[r] \in Alive /\ \E end \in Alive \cup Ended : main' = [main EXCEPT ![r] = end]
        BY <1>4 DEF MainStep, InitShm, Fork, RegisterWait, Register, HandleSignal, Listen,
                    InitPoolFails, Cleaning, Kill, Alive, Ended
  <2> QED
      BY <1>3, <2>1
<1>5. ASSUME main' = main PROVE RunsInv'
      BY <1>5 DEF RunsInv
<1>6. ASSUME NEW r \in Runs, ManagerWait(r) \/ PickWorker(r) \/ SendFd(r) PROVE RunsInv'
      BY <1>5, <1>6 DEF ManagerWait, PickWorker, SendFd
<1>7. ASSUME NEW w \in Workers,
             StartWorker(w) \/ EndWait(w) \/ EndConnection(w) \/ FollowBadPointer(w)
      PROVE  RunsInv'
      BY <1>5, <1>7 DEF StartWorker, EndWait, EndConnection, FollowBadPointer
<1>8. CASE UNCHANGED vars
      BY <1>5, <1>8 DEF vars
<1> QED
    BY <1>2, <1>4, <1>6, <1>7, <1>8 DEF Next

\* Of the runs only one is alive.
LEMMA OneAlive ==
    ASSUME RunsInv, NEW q \in Runs, NEW r \in Runs, main[q] \in Alive, main[r] \in Alive
    PROVE  q = r
<1> USE Params
<1>1. \A pc \in Alive : pc # "none" /\ pc \notin Ended
      BY DEF Alive, Ended
<1>2. ~(q < r) /\ ~(r < q)
      BY <1>1 DEF RunsInv
<1> QED
    BY <1>2
-----------------------------------------------------------------------------
(* The semaphore                                                           *)


InMain(r, s) == /\ attached[Main(r)].sem = s
                /\ main[r] = "registering" \/ (main[r] = "accepting" /\ manager[r].at = "inside")
InWorker(w, s) == attached[w].sem = s /\ worker[w] = "ending"

LEMMA InsideIs ==
    \A s, p : p \in Inside(s) <=> \/ p \in Workers /\ InWorker(p, s)
                                  \/ \E r \in Runs : p = Main(r) /\ InMain(r, s)
BY DEF Inside, InMain, InWorker

\* p may come in, whoever else is inside was there before.
LEMMA InsideStep ==
    ASSUME NEW s \in Runs, NEW P,
           \A w \in Workers : w \notin P /\ InWorker(w, s)' => InWorker(w, s),
           \A r \in Runs : Main(r) \notin P /\ InMain(r, s)' => InMain(r, s)
    PROVE  Inside(s)' \subseteq Inside(s) \cup P
<1> SUFFICES ASSUME NEW p \in Inside(s)', p \notin P PROVE p \in Inside(s)
    OBVIOUS
<1>1. \/ p \in Workers /\ InWorker(p, s)'
      \/ \E r \in Runs : p = Main(r) /\ InMain(r, s)'
      BY DEF Inside, InMain, InWorker
<1>2. CASE p \in Workers /\ InWorker(p, s)'
      BY <1>2, InsideIs
<1>3. CASE \E r \in Runs : p = Main(r) /\ InMain(r, s)'
      BY <1>3, InsideIs
<1> QED
    BY <1>1, <1>2, <1>3

\* A step that takes no semaphore and lets nobody in; one that takes it; one that gives it back.
LEMMA NobodyEnters ==
    ASSUME NEW s \in Runs, Excluded(s), sem' = sem, Inside(s)' \subseteq Inside(s)
    PROVE  Excluded(s)'
BY DEF Excluded

LEMMA OneEnters ==
    ASSUME TypeOK, NEW t \in Runs, NEW p, \A s \in Runs : Excluded(s),
           sem[t] = 1, sem' = [sem EXCEPT ![t] = 0],
           \A s \in Runs : Inside(s)' \subseteq Inside(s) \cup (IF s = t THEN {p} ELSE {})
    PROVE  \A s \in Runs : Excluded(s)'
<1> SUFFICES ASSUME NEW s \in Runs PROVE Excluded(s)'
    OBVIOUS
<1>1. sem \in [Runs -> {0, 1}]
      BY Types
<1>2. CASE s = t
      BY <1>1, <1>2 DEF Excluded
<1>3. CASE s # t
      BY <1>1, <1>3 DEF Excluded
<1> QED
    BY <1>2, <1>3

LEMMA OneLeaves ==
    ASSUME TypeOK, NEW t \in Runs, NEW p, p \in Inside(t), \A s \in Runs : Excluded(s),
           sem' = [sem EXCEPT ![t] = @ + 1],
           \A s \in Runs : Inside(s)' \subseteq Inside(s) \ (IF s = t THEN {p} ELSE {})
    PROVE  sem' \in [Runs -> {0, 1}] /\ \A s \in Runs : Excluded(s)'
<1>1. sem \in [Runs -> {0, 1}]
      BY Types
<1>2. sem[t] = 0
      BY <1>1 DEF Excluded
<1>3. sem' \in [Runs -> {0, 1}] /\ \A s \in Runs \ {t} : sem'[s] = sem[s]
      BY <1>1, <1>2
<1>4. ASSUME NEW s \in Runs PROVE Excluded(s)'
  <2>1. CASE s = t
    <3>1. Inside(t)' = {}
          BY <2>1 DEF Excluded
    <3> QED
        BY <2>1, <3>1 DEF Excluded
  <2>2. CASE s # t
        BY <1>3, <2>2 DEF Excluded
  <2> QED
      BY <2>1, <2>2
<1> QED
    BY <1>3, <1>4

\* main up to do_prefork: what it ends in, and what it has read.
LEMMA StartIs ==
    ASSUME NEW r \in Runs, Start(r)
    PROVE  /\ main[r] = "none"
           /\ \E input \in Inputs, end \in {"prefork", "crashed", "exited"} :
                 /\ main' = [main EXCEPT ![r] = end]
                 /\ config' = [config EXCEPT ![r] = Config(input.config).values]
                 /\ \/ end # "prefork" /\ server_pool' = server_pool
                    \/ /\ input.servers # NULL
                       /\ server_pool' = [server_pool EXCEPT ![r] = ServerPool(input.servers)]
           /\ UNCHANGED <<manager, worker, attached, name, sem, shmVars, served, clean>>
<1>1. \A read, servers : /\ Configured(read, servers) \subseteq {"prefork", "crashed", "exited"}
                         /\ "prefork" \in Configured(read, servers) => servers # NULL
      BY DEF Configured
<1>2. PICK input \in Inputs : \E read \in {Config(input.config)} :
        \E end \in Configured(read, input.servers) :
           /\ main' = [main EXCEPT ![r] =
                         IF end = "prefork" /\ read.values["pre_fork"] = NULL THEN "crashed" ELSE end]
           /\ config' = [config EXCEPT ![r] = read.values]
           /\ server_pool' = IF end = "prefork"
                             THEN [server_pool EXCEPT ![r] = ServerPool(input.servers)]
                             ELSE server_pool
      BY Zenon DEF Start
<1>3. PICK read \in {Config(input.config)} :
        \E end \in Configured(read, input.servers) :
           /\ main' = [main EXCEPT ![r] =
                         IF end = "prefork" /\ read.values["pre_fork"] = NULL THEN "crashed" ELSE end]
           /\ config' = [config EXCEPT ![r] = read.values]
           /\ server_pool' = IF end = "prefork"
                             THEN [server_pool EXCEPT ![r] = ServerPool(input.servers)]
                             ELSE server_pool
      BY <1>2, Zenon
<1>4. PICK end \in Configured(read, input.servers) :
           /\ main' = [main EXCEPT ![r] =
                         IF end = "prefork" /\ read.values["pre_fork"] = NULL THEN "crashed" ELSE end]
           /\ config' = [config EXCEPT ![r] = read.values]
           /\ server_pool' = IF end = "prefork"
                             THEN [server_pool EXCEPT ![r] = ServerPool(input.servers)]
                             ELSE server_pool
      BY <1>3
<1>5. PICK pc : pc = IF end = "prefork" /\ read.values["pre_fork"] = NULL THEN "crashed" ELSE end
      OBVIOUS
<1>6. pc \in {"prefork", "crashed", "exited"} /\ (end = "prefork" => input.servers # NULL)
      BY <1>1, <1>5
<1>7. read.values = Config(input.config).values
  <2>1. read = Config(input.config)
        OBVIOUS
  <2> QED
      BY <2>1, Zenon
<1>8. main' = [main EXCEPT ![r] = pc] /\ config' = [config EXCEPT ![r] = Config(input.config).values]
      BY <1>4, <1>5, <1>7, Zenon
<1>9. \/ pc # "prefork" /\ server_pool' = server_pool
      \/ /\ input.servers # NULL
         /\ server_pool' = [server_pool EXCEPT ![r] = ServerPool(input.servers)]
  <2>1. CASE end = "prefork"
        BY <1>4, <1>6, <2>1
  <2>2. CASE end # "prefork"
        BY <1>4, <1>5, <2>2
  <2> QED
      BY <2>1, <2>2
<1> QED
    BY <1>6, <1>8, <1>9 DEF Start

LEMMA SemMain ==
    ASSUME TypeOK, OpenInv, SemInv, NEW r \in Runs,
           \/ Start(r) \/ InitShm(r) \/ Fork(r) \/ HandleSignal(r) \/ Listen(r)
           \/ InitPoolFails(r) \/ SendFd(r) \/ Cleaning(r) \/ Kill(r)
    PROVE  sem' \in [Runs -> {0, 1}] /\ SemInv'
<1>1. /\ main \in [Runs -> MainPCs] /\ worker \in [Workers -> WorkerPCs]
      /\ manager \in [Runs -> [at : {"idle", "inside", "sending"}, position : 0 .. MaxPrefork]]
      /\ attached \in [Workers \cup {Main(q) : q \in Runs} -> Objects]
      /\ sem \in [Runs -> {0, 1}]
      BY Types
<1>2. sem' = sem
      BY StartIs DEF InitShm, Fork, HandleSignal, Listen, InitPoolFails, SendFd, Cleaning, Kill
<1>3. \A w \in Workers : attached'[w] = attached[w] /\ (worker'[w] = "ending" => worker[w] = "ending")
  <2>1. CASE Start(r) \/ HandleSignal(r) \/ Listen(r) \/ InitPoolFails(r)
        BY <2>1, StartIs DEF HandleSignal, Listen, InitPoolFails
  <2>2. CASE InitShm(r)
        BY <1>1, <2>2, Processes DEF InitShm
  <2>3. CASE Fork(r)
        BY <1>1, <2>3 DEF Fork
  <2>4. CASE SendFd(r)
        BY <1>1, <2>4 DEF SendFd
  <2>5. CASE Cleaning(r) \/ Kill(r)
        BY <1>1, <2>5 DEF Cleaning, Kill, Signalled
  <2> QED
      BY <2>1, <2>2, <2>3, <2>4, <2>5
<1>4. \A q \in Runs \ {r} : attached'[Main(q)] = attached[Main(q)] /\ main'[q] = main[q] /\ manager'[q] = manager[q]
  <2>1. CASE Start(r)
        BY <1>1, <2>1, StartIs
  <2>2. CASE InitShm(r)
        BY <1>1, <2>2, Processes DEF InitShm
  <2>3. CASE Fork(r) \/ HandleSignal(r) \/ Listen(r) \/ InitPoolFails(r)
        BY <1>1, <2>3 DEF Fork, HandleSignal, Listen, InitPoolFails
  <2>4. CASE SendFd(r) \/ Cleaning(r) \/ Kill(r)
        BY <1>1, <2>4 DEF SendFd, Cleaning, Kill
  <2> QED
      BY <2>1, <2>2, <2>3, <2>4
<1>5. /\ main'[r] \notin {"accepting"} \cup Ended => manager'[r].at = "idle"
      /\ main'[r] # "registering"
      /\ main'[r] = "accepting" => manager'[r].at = "idle"
  <2>1. main[r] \notin {"accepting"} \cup Ended => manager[r].at = "idle"
        BY DEF SemInv
  <2>2. CASE Start(r)
        BY <1>1, <2>1, <2>2, StartIs DEF Ended
  <2>3. CASE InitShm(r) \/ Fork(r) \/ HandleSignal(r)
        BY <1>1, <2>1, <2>3 DEF InitShm, Fork, HandleSignal, Ended
  <2>4. CASE Listen(r)
        BY <1>1, <2>1, <2>4 DEF Listen, Ended
  <2>5. CASE InitPoolFails(r)
        BY <1>1, <2>5 DEF InitPoolFails, Ended
  <2>6. CASE SendFd(r)
        BY <1>1, <2>6 DEF SendFd
  <2>7. CASE Cleaning(r) \/ Kill(r)
        BY <1>1, <2>7 DEF Cleaning, Kill, Ended
  <2> QED
      BY <2>2, <2>3, <2>4, <2>5, <2>6, <2>7
<1>6. ASSUME NEW s \in Runs PROVE Excluded(s)'
  <2>1. \A w \in Workers : InWorker(w, s)' => InWorker(w, s)
        BY <1>3 DEF InWorker
  <2>2. \A q \in Runs : InMain(q, s)' => InMain(q, s)
    <3>1. ~InMain(r, s)'
          BY <1>5 DEF InMain
    <3>2. \A q \in Runs \ {r} : InMain(q, s)' => InMain(q, s)
          BY <1>4 DEF InMain, Main
    <3> QED
        BY <3>1, <3>2
  <2>3. Inside(s)' \subseteq Inside(s)
        BY <2>1, <2>2, InsideStep
  <2> QED
      BY <1>2, <2>3, NobodyEnters DEF SemInv
<1>7. \A q \in Runs : main'[q] \notin {"accepting"} \cup Ended => manager'[q].at = "idle"
      BY <1>4, <1>5 DEF SemInv
<1> QED
    BY <1>1, <1>2, <1>6, <1>7 DEF SemInv

LEMMA SemOther ==
    ASSUME TypeOK, SemInv, NEW w \in Workers, StartWorker(w) \/ FollowBadPointer(w)
    PROVE  sem' \in [Runs -> {0, 1}] /\ SemInv'
<1>1. /\ worker \in [Workers -> WorkerPCs]
      /\ attached \in [Workers \cup {Main(q) : q \in Runs} -> Objects]
      /\ sem \in [Runs -> {0, 1}]
      BY Types
<1>2. sem' = sem /\ main' = main /\ manager' = manager
      BY DEF StartWorker, FollowBadPointer
<1>3. \A v \in Workers : worker'[v] = "ending" => worker[v] = "ending" /\ attached'[v] = attached[v]
      BY <1>1 DEF StartWorker, FollowBadPointer
<1>4. \A q \in Runs : attached'[Main(q)] = attached[Main(q)]
      BY <1>1, Processes DEF StartWorker, FollowBadPointer
<1>5. ASSUME NEW s \in Runs PROVE Excluded(s)'
  <2>1. \A v \in Workers : InWorker(v, s)' => InWorker(v, s)
        BY <1>3 DEF InWorker
  <2>2. \A q \in Runs : InMain(q, s)' => InMain(q, s)
        BY <1>2, <1>4 DEF InMain, Main
  <2>3. Inside(s)' \subseteq Inside(s)
        BY <2>1, <2>2, InsideStep
  <2> QED
      BY <1>2, <2>3, NobodyEnters DEF SemInv
<1> QED
    BY <1>1, <1>2, <1>5 DEF SemInv

\* sem_wait: p is main, the manager's thread of main, or a worker.
LEMMA SemEnter ==
    ASSUME TypeOK, OpenInv, SemInv,
           \/ \E r \in Runs : RegisterWait(r) \/ ManagerWait(r)
           \/ \E w \in Workers : EndWait(w)
    PROVE  sem' \in [Runs -> {0, 1}] /\ SemInv'
<1>1. /\ main \in [Runs -> MainPCs] /\ worker \in [Workers -> WorkerPCs]
      /\ manager \in [Runs -> [at : {"idle", "inside", "sending"}, position : 0 .. MaxPrefork]]
      /\ sem \in [Runs -> {0, 1}]
      BY Types
<1>2. ASSUME NEW t \in Runs, NEW p, sem[t] = 1, sem' = [sem EXCEPT ![t] = 0], attached' = attached,
             \A w \in Workers : w # p => (worker'[w] = "ending" => worker[w] = "ending"),
             \A q \in Runs : Main(q) # p => main'[q] = main[q] /\ manager'[q] = manager[q],
             p \in Workers => attached[p].sem = t,
             \A q \in Runs : Main(q) = p => attached[p].sem = t
      PROVE  sem' \in [Runs -> {0, 1}] /\ \A s \in Runs : Excluded(s)'
  <2>1. ASSUME NEW s \in Runs PROVE Inside(s)' \subseteq Inside(s) \cup (IF s = t THEN {p} ELSE {})
    <3>1. CASE s = t
      <4>1. \A w \in Workers : w \notin {p} /\ InWorker(w, s)' => InWorker(w, s)
            BY <1>2 DEF InWorker
      <4>2. \A q \in Runs : Main(q) \notin {p} /\ InMain(q, s)' => InMain(q, s)
            BY <1>2 DEF InMain, Main
      <4>3. Inside(s)' \subseteq Inside(s) \cup {p}
            BY <4>1, <4>2, InsideStep
      <4> QED
          BY <3>1, <4>3
    <3>2. CASE s # t
      <4>1. \A w \in Workers : w \notin {} /\ InWorker(w, s)' => InWorker(w, s)
            BY <1>2, <3>2 DEF InWorker
      <4>2. \A q \in Runs : Main(q) \notin {} /\ InMain(q, s)' => InMain(q, s)
            BY <1>2, <3>2 DEF InMain, Main
      <4>3. Inside(s)' \subseteq Inside(s) \cup {}
            BY <4>1, <4>2, InsideStep
      <4> QED
          BY <3>2, <4>3
    <3> QED
        BY <3>1, <3>2
  <2>2. \A s \in Runs : Excluded(s)'
        BY <1>2, <2>1, OneEnters DEF SemInv
  <2> QED
      BY <1>1, <1>2, <2>2
<1>3. ASSUME NEW r \in Runs, RegisterWait(r) PROVE sem' \in [Runs -> {0, 1}] /\ SemInv'
  <2>1. PICK t : t = attached[Main(r)].sem
        OBVIOUS
  <2>2. /\ t \in Runs /\ sem[t] = 1 /\ sem' = [sem EXCEPT ![t] = 0] /\ attached' = attached
        /\ worker' = worker /\ manager' = manager /\ main[r] = "register"
        /\ main' = [main EXCEPT ![r] = "registering"]
        BY <1>3, <2>1 DEF RegisterWait, SemWait, OpenInv, Alive
  <2>3. \A q \in Runs : Main(q) # Main(r) => main'[q] = main[q]
        BY <1>1, <2>2
  <2>4. sem' \in [Runs -> {0, 1}] /\ \A s \in Runs : Excluded(s)'
        BY <1>2, <2>1, <2>2, <2>3, Processes
  <2>5. \A q \in Runs : main'[q] \notin {"accepting"} \cup Ended => manager'[q].at = "idle"
        BY <1>1, <2>2 DEF SemInv, Ended
  <2> QED
      BY <2>4, <2>5 DEF SemInv
<1>4. ASSUME NEW r \in Runs, ManagerWait(r) PROVE sem' \in [Runs -> {0, 1}] /\ SemInv'
  <2>1. PICK t : t = attached[Main(r)].sem
        OBVIOUS
  <2>2. /\ t \in Runs /\ sem[t] = 1 /\ sem' = [sem EXCEPT ![t] = 0] /\ attached' = attached
        /\ worker' = worker /\ main' = main /\ main[r] = "accepting"
        /\ manager' = [manager EXCEPT ![r].at = "inside"]
        BY <1>4, <2>1 DEF ManagerWait, SemWait, OpenInv, Alive
  <2>3. \A q \in Runs : q # r => manager'[q] = manager[q]
        BY <1>1, <2>2
  <2>4. sem' \in [Runs -> {0, 1}] /\ \A s \in Runs : Excluded(s)'
        BY <1>2, <2>1, <2>2, <2>3, Processes
  <2>5. \A q \in Runs : main'[q] \notin {"accepting"} \cup Ended => manager'[q].at = "idle"
        BY <2>2, <2>3 DEF SemInv
  <2> QED
      BY <2>4, <2>5 DEF SemInv
<1>5. ASSUME NEW w \in Workers, EndWait(w) PROVE sem' \in [Runs -> {0, 1}] /\ SemInv'
  <2>1. PICK t : t = attached[w].sem
        OBVIOUS
  <2>2. /\ t \in Runs /\ sem[t] = 1 /\ sem' = [sem EXCEPT ![t] = 0] /\ attached' = attached
        /\ worker' = [worker EXCEPT ![w] = "ending"] /\ main' = main /\ manager' = manager
        BY <1>5, <2>1 DEF EndWait, SemWait, OpenInv, Using
  <2>3. \A v \in Workers : v # w => worker'[v] = worker[v]
        BY <1>1, <2>2
  <2>4. sem' \in [Runs -> {0, 1}] /\ \A s \in Runs : Excluded(s)'
        BY <1>2, <2>1, <2>2, <2>3, Processes
  <2> QED
      BY <2>2, <2>4 DEF SemInv
<1> QED
    BY <1>3, <1>4, <1>5

\* sem_post, by who is inside.
LEMMA SemLeave ==
    ASSUME TypeOK, OpenInv, SemInv,
           \/ \E r \in Runs : Register(r) \/ PickWorker(r)
           \/ \E w \in Workers : EndConnection(w)
    PROVE  sem' \in [Runs -> {0, 1}] /\ SemInv'
<1>1. /\ main \in [Runs -> MainPCs] /\ worker \in [Workers -> WorkerPCs]
      /\ manager \in [Runs -> [at : {"idle", "inside", "sending"}, position : 0 .. MaxPrefork]]
      BY Types
<1>2. ASSUME NEW t \in Runs, NEW p, p \in Inside(t), sem' = [sem EXCEPT ![t] = @ + 1],
             attached' = attached,
             \A w \in Workers : worker'[w] = "ending" => worker[w] = "ending" /\ w # p,
             \A q \in Runs : Main(q) # p => main'[q] = main[q] /\ manager'[q] = manager[q],
             \A q \in Runs : Main(q) = p => ~InMain(q, t)' /\ attached[Main(q)].sem = t
      PROVE  sem' \in [Runs -> {0, 1}] /\ \A s \in Runs : Excluded(s)'
  <2>1. ASSUME NEW s \in Runs PROVE Inside(s)' \subseteq Inside(s)
    <3>1. \A w \in Workers : w \notin {} /\ InWorker(w, s)' => InWorker(w, s)
          BY <1>2 DEF InWorker
    <3>2. \A q \in Runs : Main(q) \notin {} /\ InMain(q, s)' => InMain(q, s)
          BY <1>2 DEF InMain, Main
    <3>3. Inside(s)' \subseteq Inside(s) \cup {}
          BY <3>1, <3>2, InsideStep
    <3> QED
        BY <3>3
  <2>2. p \notin Inside(t)'
        BY <1>2 DEF Inside, InMain
  <2>3. \A s \in Runs : Inside(s)' \subseteq Inside(s) \ (IF s = t THEN {p} ELSE {})
        BY <2>1, <2>2
  <2> QED
      BY <1>2, <2>3, OneLeaves DEF SemInv
<1>3. ASSUME NEW r \in Runs, Register(r) PROVE sem' \in [Runs -> {0, 1}] /\ SemInv'
  <2>1. PICK t : t = attached[Main(r)].sem
        OBVIOUS
  <2>2. PICK pc \in {"threads", "fork"} : main' = [main EXCEPT ![r] = pc]
        BY <1>3 DEF Register
  <2>3. /\ t \in Runs /\ sem' = [sem EXCEPT ![t] = @ + 1] /\ attached' = attached
        /\ worker' = worker /\ manager' = manager /\ main[r] = "registering"
        BY <1>3, <2>1 DEF Register, SemPost, OpenInv, Alive
  <2>4. \A q \in Runs : main'[q] = IF q = r THEN pc ELSE main[q]
        BY <1>1, <2>2
  <2>5. Main(r) \in Inside(t)
        BY <2>1, <2>3 DEF Inside
  <2>6. ~InMain(r, t)'
        BY <2>4 DEF InMain
  <2>7. \A w \in Workers : w # Main(r)
        BY Processes
  <2>8. /\ \A v \in Workers : worker'[v] = "ending" => worker[v] = "ending" /\ v # Main(r)
        /\ \A q \in Runs : Main(q) # Main(r) => main'[q] = main[q] /\ manager'[q] = manager[q]
        /\ \A q \in Runs : Main(q) = Main(r) => ~InMain(q, t)' /\ attached[Main(q)].sem = t
        BY <2>1, <2>3, <2>4, <2>6, <2>7, Processes
  <2>9. sem' \in [Runs -> {0, 1}] /\ \A s \in Runs : Excluded(s)'
        BY <1>2, <2>3, <2>5, <2>8
  <2>10. \A q \in Runs : main'[q] \notin {"accepting"} \cup Ended => manager'[q].at = "idle"
        BY <2>3, <2>4 DEF SemInv, Ended
  <2> QED
      BY <2>9, <2>10 DEF SemInv
<1>4. ASSUME NEW r \in Runs, PickWorker(r) PROVE sem' \in [Runs -> {0, 1}] /\ SemInv'
  <2>1. PICK t : t = attached[Main(r)].sem
        OBVIOUS
  <2>2. /\ t \in Runs /\ sem' = [sem EXCEPT ![t] = @ + 1] /\ attached' = attached
        /\ worker' = worker /\ main' = main /\ main[r] = "accepting" /\ manager[r].at = "inside"
        BY <1>4, <2>1 DEF PickWorker, SemPost, OpenInv, Alive
  <2>3. manager'[r].at # "inside" /\ \A q \in Runs : q # r => manager'[q] = manager[q]
    <3>1. \/ manager' = [manager EXCEPT ![r].at = "idle"]
          \/ \E i : manager' = [manager EXCEPT ![r] = Manager("sending", i)]
          BY <1>4 DEF PickWorker
    <3> QED
        BY <1>1, <3>1 DEF Manager
  <2>4. Main(r) \in Inside(t)
        BY <2>1, <2>2 DEF Inside
  <2>5. ~InMain(r, t)'
        BY <2>2, <2>3 DEF InMain
  <2>6. \A w \in Workers : w # Main(r)
        BY Processes
  <2>7. /\ \A v \in Workers : worker'[v] = "ending" => worker[v] = "ending" /\ v # Main(r)
        /\ \A q \in Runs : Main(q) # Main(r) => main'[q] = main[q] /\ manager'[q] = manager[q]
        /\ \A q \in Runs : Main(q) = Main(r) => ~InMain(q, t)' /\ attached[Main(q)].sem = t
        BY <2>1, <2>2, <2>3, <2>5, <2>6, Processes
  <2>8. sem' \in [Runs -> {0, 1}] /\ \A s \in Runs : Excluded(s)'
        BY <1>2, <2>2, <2>4, <2>7
  <2>9. \A q \in Runs : main'[q] \notin {"accepting"} \cup Ended => manager'[q].at = "idle"
        BY <2>2, <2>3 DEF SemInv
  <2> QED
      BY <2>8, <2>9 DEF SemInv
<1>5. ASSUME NEW w \in Workers, EndConnection(w) PROVE sem' \in [Runs -> {0, 1}] /\ SemInv'
  <2>1. PICK t : t = attached[w].sem
        OBVIOUS
  <2>2. /\ t \in Runs /\ sem' = [sem EXCEPT ![t] = @ + 1] /\ attached' = attached
        /\ worker' = [worker EXCEPT ![w] = "idle"] /\ worker[w] = "ending"
        /\ main' = main /\ manager' = manager
        BY <1>5, <2>1 DEF EndConnection, SemPost, OpenInv, Using
  <2>3. \A v \in Workers : worker'[v] = IF v = w THEN "idle" ELSE worker[v]
        BY <1>1, <2>2
  <2>4. w \in Inside(t)
        BY <2>1, <2>2 DEF Inside
  <2>5. /\ \A v \in Workers : worker'[v] = "ending" => worker[v] = "ending" /\ v # w
        /\ \A q \in Runs : Main(q) # w => main'[q] = main[q] /\ manager'[q] = manager[q]
        /\ \A q \in Runs : Main(q) = w => ~InMain(q, t)' /\ attached[Main(q)].sem = t
        BY <2>2, <2>3, Processes
  <2>6. sem' \in [Runs -> {0, 1}] /\ \A s \in Runs : Excluded(s)'
        BY <1>2, <2>2, <2>4, <2>5
  <2> QED
      BY <2>2, <2>6 DEF SemInv
<1> QED
    BY <1>3, <1>4, <1>5
-----------------------------------------------------------------------------
(* What is open                                                            *)

LEMMA OpenStep ==
    ASSUME TypeOK, OpenInv, [Next]_vars
    PROVE  OpenInv'
<1>1. /\ main \in [Runs -> MainPCs] /\ worker \in [Workers -> WorkerPCs]
      /\ attached \in [Workers \cup {Main(q) : q \in Runs} -> Objects] /\ name \in Objects
      BY Types
<1>2. ASSUME attached' = attached, name' = name \/ name' = Nothing,
             \A r \in Runs : main'[r] \in Alive \ {"prefork"} => main[r] \in Alive \ {"prefork"},
             \A w \in Workers : Using(w)' => Using(w)
      PROVE  OpenInv'
      BY <1>2 DEF OpenInv, Nothing, Main
<1>3. ASSUME NEW r \in Runs, Start(r) PROVE OpenInv'
  <2>1. PICK pc \in {"prefork", "crashed", "exited"} : main' = [main EXCEPT ![r] = pc]
        BY <1>3, StartIs
  <2>2. \A q \in Runs : main'[q] = IF q = r THEN pc ELSE main[q]
        BY <1>1, <2>1
  <2>3. attached' = attached /\ name' = name /\ worker' = worker
        BY <1>3, StartIs
  <2> QED
      BY <1>2, <2>2, <2>3 DEF Alive, Using
<1>4. ASSUME NEW r \in Runs, InitShm(r) PROVE OpenInv'
  <2>1. PICK o : o = Opened(r)
        OBVIOUS
  <2>2. r \in Runs /\ r # 0 /\ o.shm \in Runs /\ o.sem \in Runs
        BY <1>1, <2>1, Params DEF Opened, Objects
  <2>3. name' = o /\ attached' = [attached EXCEPT ![Main(r)] = o] /\ worker' = worker
        BY <1>4, <2>1 DEF InitShm
  <2>4. /\ attached'[Main(r)] = o /\ \A w \in Workers : attached'[w] = attached[w]
        /\ \A q \in Runs \ {r} : attached'[Main(q)] = attached[Main(q)] /\ main'[q] = main[q]
        BY <1>1, <1>4, <2>3, Processes DEF InitShm
  <2>5. 0 \notin Runs
        BY Params
  <2> QED
      BY <2>2, <2>3, <2>4, <2>5 DEF OpenInv, Using, Main
<1>5. ASSUME NEW r \in Runs, \/ Fork(r) \/ RegisterWait(r) \/ Register(r) \/ HandleSignal(r) \/ Listen(r)
                             \/ InitPoolFails(r)
      PROVE  OpenInv'
  <2>1. attached' = attached /\ name' = name
        BY <1>5 DEF Fork, RegisterWait, Register, HandleSignal, Listen, InitPoolFails
  <2>2. \A q \in Runs : main'[q] \in Alive \ {"prefork"} => main[q] \in Alive \ {"prefork"}
        BY <1>1, <1>5 DEF Fork, RegisterWait, Register, HandleSignal, Listen, InitPoolFails, Alive
  <2>3. \A w \in Workers : Using(w)' => Using(w)
        BY <1>1, <1>5 DEF Fork, RegisterWait, Register, HandleSignal, Listen, InitPoolFails, Using
  <2> QED
      BY <1>2, <2>1, <2>2, <2>3
<1>6. ASSUME NEW r \in Runs, ManagerWait(r) \/ PickWorker(r) \/ SendFd(r) PROVE OpenInv'
  <2>1. attached' = attached /\ name' = name /\ main' = main
        BY <1>6 DEF ManagerWait, PickWorker, SendFd
  <2>2. \A w \in Workers : Using(w)' => Using(w)
        BY <1>1, <1>6 DEF ManagerWait, PickWorker, SendFd, Using
  <2> QED
      BY <1>2, <2>1, <2>2
<1>7. ASSUME NEW r \in Runs, Cleaning(r) \/ Kill(r) PROVE OpenInv'
  <2>1. attached' = attached /\ (name' = name \/ name' = Nothing)
        BY <1>7 DEF Cleaning, Kill
  <2>2. \A q \in Runs : main'[q] \in Alive \ {"prefork"} => main[q] \in Alive \ {"prefork"}
        BY <1>1, <1>7 DEF Cleaning, Kill, Alive
  <2>3. \A w \in Workers : Using(w)' => Using(w)
        BY <1>1, <1>7 DEF Cleaning, Kill, Signalled, Using
  <2> QED
      BY <1>2, <2>1, <2>2, <2>3
<1>8. ASSUME NEW w \in Workers, StartWorker(w) PROVE OpenInv'
  <2>1. /\ worker' = [worker EXCEPT ![w] = IF name.shm = 0 THEN "dead" ELSE "idle"]
        /\ attached' = [attached EXCEPT ![w] = name] /\ main' = main /\ name' = name
        BY <1>8 DEF StartWorker
  <2>2. name.shm # 0 => name.shm \in Runs /\ name.sem \in Runs
        BY <1>1, Params DEF OpenInv, Objects
  <2>3. /\ attached'[w] = name
        /\ \A v \in Workers \ {w} : worker'[v] = worker[v] /\ attached'[v] = attached[v]
        /\ \A q \in Runs : attached'[Main(q)] = attached[Main(q)]
        /\ name.shm = 0 => worker'[w] = "dead"
        BY <1>1, <2>1, Processes
  <2> QED
      BY <2>1, <2>2, <2>3 DEF OpenInv, Using, Main
<1>9. ASSUME NEW w \in Workers, EndWait(w) \/ EndConnection(w) \/ FollowBadPointer(w) PROVE OpenInv'
  <2>1. attached' = attached /\ name' = name /\ main' = main
        BY <1>9 DEF EndWait, EndConnection, FollowBadPointer
  <2>2. \A v \in Workers : Using(v)' => Using(v)
        BY <1>1, <1>9 DEF EndWait, EndConnection, FollowBadPointer, Using
  <2> QED
      BY <1>2, <2>1, <2>2
<1>10. CASE UNCHANGED vars
       BY <1>2, <1>10 DEF vars, fileVars, shmVars, Using
<1> QED
    BY <1>3, <1>4, <1>5, <1>6, <1>7, <1>8, <1>9, <1>10 DEF Next, MainStep

LEMMA SemStep ==
    ASSUME TypeOK, OpenInv, SemInv, [Next]_vars
    PROVE  sem' \in [Runs -> {0, 1}] /\ SemInv'
<1>1. CASE UNCHANGED vars
  <2>1. sem \in [Runs -> {0, 1}]
        BY Types
  <2>2. UNCHANGED <<main, manager, attached, worker, sem>>
        BY <1>1 DEF vars
  <2>3. \A s \in Runs : Inside(s)' = Inside(s)
        BY <2>2 DEF Inside, Main
  <2> QED
      BY <2>1, <2>2, <2>3 DEF SemInv, Excluded
<1> QED
    BY <1>1, SemMain, SemOther, SemEnter, SemLeave DEF Next, MainStep
-----------------------------------------------------------------------------
(* The workers of a run                                                    *)

LEMMA WorkersFinite ==
    \A S \in SUBSET Workers : IsFiniteSet(S) /\ Cardinality(S) \in Nat
<1> USE Params
<1>1. ASSUME NEW n \in Nat PROVE IsFiniteSet(1 .. n)
  <2>1. 1 \in Int /\ n \in Int
        OBVIOUS
  <2> QED
      BY <2>1, FS_Interval
<1>2. IsFiniteSet(Runs) /\ IsFiniteSet(1 .. MaxPrefork)
      BY <1>1
<1>3. IsFiniteSet(Workers)
      BY <1>2, FS_Product
<1> QED
    BY <1>3, FS_Subset, FS_CardinalityType

LEMMA ForkedType == \A r : Forked(r) \in Nat
BY WorkersFinite DEF Forked

LEMMA ForkedSame ==
    ASSUME NEW r \in Runs, \A w \in Workers : w[1] = r => (worker'[w] = "none" <=> worker[w] = "none")
    PROVE  Forked(r)' = Forked(r)
<1>1. {w \in Workers : w[1] = r /\ worker'[w] # "none"} = {w \in Workers : w[1] = r /\ worker[w] # "none"}
      OBVIOUS
<1> QED
    BY <1>1 DEF Forked

LEMMA ForkedGrows ==
    ASSUME NEW r \in Runs, NEW v \in Workers, v[1] = r, worker[v] = "none", worker'[v] # "none",
           \A w \in Workers \ {v} : worker'[w] = worker[w]
    PROVE  Forked(r)' = Forked(r) + 1
<1> DEFINE S == {w \in Workers : w[1] = r /\ worker[w] # "none"}
           T == {w \in Workers : w[1] = r /\ worker'[w] # "none"}
<1>1. T = S \cup {v} /\ v \notin S
      OBVIOUS
<1>2. IsFiniteSet(S)
      BY WorkersFinite
<1>3. Cardinality(T) = Cardinality(S) + 1
  <2> HIDE DEF S, T
  <2> QED
      BY <1>1, <1>2, FS_AddElement
<1> QED
    BY <1>3 DEF Forked

\* A run whose main and workers stay where they are, but for workers that go on or end.
LEMMA ForkKeeps ==
    ASSUME NEW r \in Runs, ForkAt(r),
           \A w \in Workers : w[1] = r => (worker'[w] = "none" <=> worker[w] = "none"),
           main'[r] = main[r] \/ main'[r] \in Ended, config'[r] = config[r]
    PROVE  ForkAt(r)'
<1>1. Forked(r)' = Forked(r)
      BY ForkedSame
<1>2. \A i \in 1 .. MaxPrefork : worker'[<<r, i>>] = "none" <=> worker[<<r, i>>] = "none"
      BY Processes
<1>3. n_prefork(r)' = n_prefork(r)
      BY DEF n_prefork
<1>4. \A i \in 1 .. MaxPrefork : worker'[<<r, i>>] # "none" <=> i <= Forked(r)'
      BY <1>1, <1>2 DEF ForkAt
<1> QED
    BY <1>1, <1>3, <1>4 DEF ForkAt, Alive, Ended

LEMMA ForkStep ==
    ASSUME TypeOK, ForkInv, [Next]_vars
    PROVE  ForkInv'
<1> USE Params
<1>1. /\ main \in [Runs -> MainPCs] /\ worker \in [Workers -> WorkerPCs]
      /\ config \in [Runs -> Configs]
      BY Types DEF TypeOK
<1>2. ASSUME NEW r \in Runs, NEW pc, main' = [main EXCEPT ![r] = pc], config' = config, worker' = worker,
             ForkAt(r)'
      PROVE  ForkInv'
  <2>1. \A q \in Runs \ {r} : main'[q] = main[q]
        BY <1>1, <1>2
  <2>2. \A q \in Runs \ {r} : ForkAt(q)'
        BY <1>2, <2>1, ForkKeeps DEF ForkInv
  <2> QED
      BY <1>2, <2>2 DEF ForkInv
<1>3. ASSUME NEW r \in Runs, Start(r) PROVE ForkInv'
  <2>1. PICK input \in Inputs, end \in {"prefork", "crashed", "exited"} :
           /\ main' = [main EXCEPT ![r] = end]
           /\ config' = [config EXCEPT ![r] = Config(input.config).values]
        BY <1>3, StartIs
  <2>2. worker' = worker /\ main[r] = "none"
        BY <1>3, StartIs
  <2>3. /\ main'[r] = end /\ config'[r] = Config(input.config).values
        /\ \A q \in Runs \ {r} : main'[q] = main[q] /\ config'[q] = config[q]
        BY <1>1, <2>1
  <2>4. n_prefork(r)' \in 1 .. MaxPrefork
        BY <2>3, StartupAssumption DEF n_prefork
  <2>5. Forked(r)' = Forked(r)
        BY <2>2, ForkedSame
  <2>6. ForkAt(r)'
        BY <2>2, <2>3, <2>4, <2>5 DEF ForkInv, ForkAt
  <2>7. \A q \in Runs \ {r} : ForkAt(q)'
        BY <2>2, <2>3, ForkKeeps DEF ForkInv
  <2> QED
      BY <2>6, <2>7 DEF ForkInv
<1>4. ASSUME NEW r \in Runs, InitShm(r) \/ RegisterWait(r) \/ Register(r) \/ HandleSignal(r)
      PROVE  ForkInv'
  <2>1. config' = config /\ worker' = worker
        BY <1>4 DEF InitShm, RegisterWait, Register, HandleSignal, fileVars
  <2>2. n_prefork(r)' = n_prefork(r) /\ Forked(r)' = Forked(r) /\ Forked(r) \in Nat
        BY <2>1, ForkedSame, ForkedType DEF n_prefork
  <2>3. ForkAt(r)
        BY DEF ForkInv
  <2>4. PICK pc : /\ main' = [main EXCEPT ![r] = pc]
                  /\ \/ main[r] = "prefork" /\ pc = "fork"
                     \/ main[r] = "register" /\ pc = "registering"
                     \/ /\ main[r] = "registering"
                        /\ pc = IF Forked(r) = n_prefork(r) THEN "threads" ELSE "fork"
                     \/ main[r] = "threads" /\ pc = "handled"
        BY <1>4 DEF InitShm, RegisterWait, Register, HandleSignal
  <2>5. main'[r] = pc
        BY <1>1, <2>4
  <2>6. n_prefork(r) \in 1 .. MaxPrefork
        BY <2>3, <2>4 DEF ForkAt, Alive
  <2>7. ForkAt(r)'
        BY <2>1, <2>2, <2>3, <2>4, <2>5, <2>6 DEF ForkAt
  <2> QED
      BY <1>2, <2>1, <2>4, <2>7
<1>5. ASSUME NEW r \in Runs, Listen(r) PROVE ForkInv'
  <2>1. PICK end \in {"accepting"} \cup Ended : main' = [main EXCEPT ![r] = end]
        BY <1>5 DEF Listen, Ended
  <2>2. config' = config /\ worker' = worker /\ main[r] = "handled"
        BY <1>5 DEF Listen, fileVars
  <2>3. n_prefork(r)' = n_prefork(r) /\ Forked(r)' = Forked(r)
        BY <2>2, ForkedSame DEF n_prefork
  <2>4. main'[r] = end
        BY <1>1, <2>1
  <2>5. ForkAt(r)'
        BY <2>1, <2>2, <2>3, <2>4 DEF ForkInv, ForkAt, Alive, Ended
  <2> QED
      BY <1>2, <2>1, <2>2, <2>5
<1>6. ASSUME NEW r \in Runs, Fork(r) PROVE ForkInv'
  <2>1. PICK k : k = Forked(r)
        OBVIOUS
  <2>2. PICK v : v = <<r, k + 1>>
        OBVIOUS
  <2>3. PICK born \in {"started", "failed"} : worker' = [worker EXCEPT ![v] = born]
        BY <1>6, <2>1, <2>2 DEF Fork
  <2>4. main[r] = "fork" /\ main' = [main EXCEPT ![r] = "register"] /\ config' = config
        BY <1>6 DEF Fork, fileVars
  <2>5. k \in Nat /\ k < n_prefork(r) /\ n_prefork(r) \in 1 .. MaxPrefork
        BY <2>1, <2>4, ForkedType DEF ForkInv, ForkAt, Alive
  <2>6. k + 1 \in 1 .. MaxPrefork /\ v \in Workers
        BY <2>2, <2>5, Processes
  <2>7. /\ worker'[v] = born /\ \A w \in Workers \ {v} : worker'[w] = worker[w]
        /\ main'[r] = "register" /\ \A q \in Runs \ {r} : main'[q] = main[q]
        BY <1>1, <2>3, <2>4, <2>6
  <2>8. worker[v] = "none"
        BY <2>1, <2>2, <2>5, <2>6 DEF ForkInv, ForkAt
  <2>9. Forked(r)' = k + 1
        BY <2>1, <2>2, <2>6, <2>7, <2>8, ForkedGrows
  <2>10. n_prefork(r)' = n_prefork(r)
         BY <2>4 DEF n_prefork
  <2>11. ASSUME NEW i \in 1 .. MaxPrefork PROVE worker'[<<r, i>>] # "none" <=> i <= k + 1
    <3>1. <<r, i>> \in Workers /\ (<<r, i>> = v <=> i = k + 1)
          BY <2>2, Processes
    <3>2. worker[<<r, i>>] # "none" <=> i <= k
          BY <2>1 DEF ForkInv, ForkAt
    <3> QED
        BY <2>5, <2>7, <3>1, <3>2
  <2>12. ForkAt(r)'
         BY <2>5, <2>7, <2>9, <2>10, <2>11 DEF ForkAt
  <2>13. ASSUME NEW q \in Runs \ {r} PROVE ForkAt(q)'
    <3>1. \A w \in Workers : w[1] = q => worker'[w] = worker[w]
          BY <2>2, <2>7
    <3> QED
        BY <2>4, <2>7, <3>1, ForkKeeps DEF ForkInv
  <2> QED
      BY <2>12, <2>13 DEF ForkInv
<1>7. ASSUME \A w \in Workers : worker'[w] = "none" <=> worker[w] = "none",
             \A q \in Runs : main'[q] = main[q] \/ main'[q] \in Ended, config' = config
      PROVE  ForkInv'
      BY <1>7, ForkKeeps DEF ForkInv
<1>8. ASSUME NEW r \in Runs, InitPoolFails(r) \/ ManagerWait(r) \/ PickWorker(r) \/ SendFd(r)
                             \/ Cleaning(r) \/ Kill(r)
      PROVE  ForkInv'
  <2>1. \A q \in Runs : main'[q] = main[q] \/ main'[q] \in Ended
        BY <1>1, <1>8 DEF InitPoolFails, ManagerWait, PickWorker, SendFd, Cleaning, Kill, Ended
  <2>2. \A w \in Workers : worker'[w] = "none" <=> worker[w] = "none"
    <3>1. CASE InitPoolFails(r) \/ ManagerWait(r) \/ PickWorker(r)
      <4>1. worker' = worker
            BY <3>1 DEF InitPoolFails, ManagerWait, PickWorker
      <4> QED
          BY <4>1
    <3>2. CASE SendFd(r)
      <4>1. PICK pid \in Workers : worker[pid] = "idle" /\ worker' = [worker EXCEPT ![pid] = "serving"]
            BY <3>2 DEF SendFd
      <4> QED
          BY <1>1, <4>1
    <3>3. CASE Cleaning(r) \/ Kill(r)
      <4>1. PICK killed \in {{}, Living(r)} :
              worker' = [w \in Workers |-> IF w \in killed THEN "dead" ELSE worker[w]]
            BY <3>3 DEF Cleaning, Kill, Signalled
      <4>2. \A w \in killed : worker[w] # "none"
            BY DEF Living
      <4> QED
          BY <4>1, <4>2
    <3> QED
        BY <1>8, <3>1, <3>2, <3>3
  <2>3. config' = config
        BY <1>8 DEF InitPoolFails, ManagerWait, PickWorker, SendFd, Cleaning, Kill, fileVars
  <2> QED
      BY <1>7, <2>1, <2>2, <2>3
<1>9. ASSUME NEW w \in Workers,
             StartWorker(w) \/ EndWait(w) \/ EndConnection(w) \/ FollowBadPointer(w)
      PROVE  ForkInv'
  <2>1. \A v \in Workers : worker'[v] = "none" <=> worker[v] = "none"
        BY <1>1, <1>9 DEF StartWorker, EndWait, EndConnection, FollowBadPointer
  <2>2. main' = main /\ config' = config
        BY <1>9 DEF StartWorker, EndWait, EndConnection, FollowBadPointer, fileVars
  <2> QED
      BY <1>7, <2>1, <2>2
<1>10. CASE UNCHANGED vars
       BY <1>7, <1>10 DEF vars, fileVars
<1> QED
    BY <1>3, <1>4, <1>5, <1>6, <1>8, <1>9, <1>10 DEF Next, MainStep
-----------------------------------------------------------------------------
(* Types                                                                   *)

LEMMA StartTypes == ASSUME TypeOK, NEW r \in Runs, Start(r) PROVE TypeOK'
<1>1. PICK input \in Inputs, end \in {"prefork", "crashed", "exited"} :
         /\ main' = [main EXCEPT ![r] = end]
         /\ config' = [config EXCEPT ![r] = Config(input.config).values]
         /\ \/ server_pool' = server_pool
            \/ /\ input.servers # NULL
               /\ server_pool' = [server_pool EXCEPT ![r] = ServerPool(input.servers)]
      BY StartIs
<1>2. UNCHANGED <<manager, worker, attached, name, sem, shmVars, served, clean>>
      BY StartIs
<1>3. main' \in [Runs -> {"none"} \cup Alive \cup Ended]
      BY <1>1 DEF TypeOK, Alive, Ended
<1>4. config' \in [Runs -> Configs]
  <2>1. Config(input.config).values \in Configs
        BY DEF Configs
  <2>2. config \in [Runs -> Configs]
        BY DEF TypeOK
  <2> QED
      BY <1>1, <2>1, <2>2
<1>5. server_pool' \in [Runs -> Pools]
  <2>1. input.servers # NULL => ServerPool(input.servers) \in Pools
        BY DEF Pools
  <2>2. server_pool \in [Runs -> Pools]
        BY DEF TypeOK
  <2> QED
      BY <1>1, <2>1, <2>2
<1> QED
    BY <1>2, <1>3, <1>4, <1>5 DEF TypeOK, shmVars

LEMMA MemoryTypes ==
    ASSUME TypeOK, OpenInv, ForkInv, NEW r \in Runs, InitShm(r) \/ Register(r) \/ PickWorker(r)
    PROVE  /\ worker_array' \in [Runs -> Seq(Workers \cup {Free, Failed})]
           /\ worker_busy' \in [Runs -> Seq({0, 1})]
           /\ \A q \in Runs : Len(worker_array'[q]) = Len(worker_busy'[q])
<1> USE Params
<1>1. /\ worker_array \in [Runs -> Seq(Workers \cup {Free, Failed})]
      /\ worker_busy \in [Runs -> Seq({0, 1})]
      /\ \A q \in Runs : Len(worker_array[q]) = Len(worker_busy[q])
      BY DEF TypeOK
<1>2. CASE InitShm(r)
  <2>1. PICK t : t = Opened(r).shm
        OBVIOUS
  <2>2. PICK n : n = n_prefork(r)
        OBVIOUS
  <2>3. t \in Runs
        BY <2>1, Types DEF Opened, Objects
  <2>4. n \in Nat
        BY <1>2, <2>2 DEF InitShm, ForkInv, ForkAt, Alive
  <2>5. /\ worker_array' = [worker_array EXCEPT ![t] = [i \in 1 .. n |-> Free]]
        /\ worker_busy' = [worker_busy EXCEPT ![t] = [i \in 1 .. n |-> 0]]
        BY <1>2, <2>1, <2>2 DEF InitShm
  <2>6. /\ [i \in 1 .. n |-> Free] \in Seq(Workers \cup {Free, Failed}) /\ Len([i \in 1 .. n |-> Free]) = n
        /\ [i \in 1 .. n |-> 0] \in Seq({0, 1}) /\ Len([i \in 1 .. n |-> 0]) = n
        BY <2>4
  <2> QED
      BY <1>1, <2>3, <2>5, <2>6
<1>3. CASE Register(r)
  <2>1. PICK t : t = attached[Main(r)].shm
        OBVIOUS
  <2>2. PICK p : p = Pid(r, Forked(r))
        OBVIOUS
  <2>3. PICK i \in DOMAIN worker_array[t] : worker_array' = [worker_array EXCEPT ![t][i] = p]
        BY <1>3, <2>1, <2>2 DEF Register
  <2>4. t \in Runs /\ worker_busy' = worker_busy /\ main[r] = "registering"
        BY <1>3, <2>1 DEF Register, OpenInv, Alive
  <2>5. p \in Workers \cup {Failed}
    <3>1. n_prefork(r) \in 1 .. MaxPrefork /\ Forked(r) \in 1 .. n_prefork(r)
          BY <2>4 DEF ForkInv, ForkAt, Alive
    <3>2. Forked(r) \in 1 .. MaxPrefork
          BY <3>1
    <3> QED
        BY <2>2, <3>2, Processes DEF Pid
  <2>6. worker_array[t] \in Seq(Workers \cup {Free, Failed})
        BY <1>1, <2>4
  <2>7. PICK a : a = [worker_array[t] EXCEPT ![i] = p]
        OBVIOUS
  <2>8. a \in Seq(Workers \cup {Free, Failed}) /\ Len(a) = Len(worker_array[t])
        BY <2>3, <2>5, <2>6, <2>7
  <2>9. worker_array' = [worker_array EXCEPT ![t] = a]
        BY <2>3, <2>7
  <2> QED
      BY <1>1, <2>4, <2>8, <2>9
<1>4. CASE PickWorker(r)
  <2>1. PICK t : t = attached[Main(r)].shm
        OBVIOUS
  <2>2. worker_array' = worker_array /\ main[r] = "accepting" /\ t \in Runs
        BY <1>4, <2>1 DEF PickWorker, OpenInv, Alive
  <2>3. \/ worker_busy' = worker_busy
        \/ \E i : worker_busy' = [worker_busy EXCEPT ![t][i] = 1]
        BY <1>4, <2>1 DEF PickWorker
  <2>4. ASSUME NEW i, worker_busy' = [worker_busy EXCEPT ![t][i] = 1]
        PROVE  /\ worker_busy' \in [Runs -> Seq({0, 1})]
               /\ \A q \in Runs : Len(worker_busy'[q]) = Len(worker_busy[q])
    <3>1. worker_busy[t] \in Seq({0, 1})
          BY <1>1, <2>2
    <3>2. PICK b : b = [worker_busy[t] EXCEPT ![i] = 1]
          OBVIOUS
    <3>3. b \in Seq({0, 1}) /\ Len(b) = Len(worker_busy[t])
      <4>1. DOMAIN worker_busy[t] = 1 .. Len(worker_busy[t]) /\ Len(worker_busy[t]) \in Nat
            BY <3>1
      <4>2. DOMAIN b = DOMAIN worker_busy[t] /\ b = [j \in DOMAIN worker_busy[t] |-> b[j]]
            BY <3>2
      <4>3. \A j \in DOMAIN worker_busy[t] : b[j] \in {0, 1}
            BY <3>1, <3>2
      <4> QED
          BY <4>1, <4>2, <4>3
    <3>4. worker_busy' = [worker_busy EXCEPT ![t] = b]
          BY <2>4, <3>2
    <3> QED
        BY <1>1, <2>2, <3>3, <3>4
  <2> QED
      BY <1>1, <2>2, <2>3, <2>4
<1> QED
    BY <1>2, <1>3, <1>4

LEMMA EndTypes ==
    ASSUME TypeOK, OpenInv, NEW w \in Workers, EndConnection(w)
    PROVE  /\ worker_busy' \in [Runs -> Seq({0, 1})]
           /\ \A q \in Runs : Len(worker_busy'[q]) = Len(worker_busy[q])
<1>1. PICK t : t = attached[w].shm
      OBVIOUS
<1>2. PICK b : b = [i \in DOMAIN worker_busy[t] |->
                      IF i \in 1 .. number_of_worker(w[1]) /\ worker_array[t][i] = w
                      THEN 0 ELSE worker_busy[t][i]]
      OBVIOUS
<1>3. worker_busy' = [worker_busy EXCEPT ![t] = b] /\ t \in Runs
      BY <1>1, <1>2 DEF EndConnection, OpenInv, Using
<1>4. worker_busy \in [Runs -> Seq({0, 1})]
      BY DEF TypeOK
<1>5. b \in Seq({0, 1}) /\ Len(b) = Len(worker_busy[t])
  <2>1. worker_busy[t] \in Seq({0, 1})
        BY <1>3, <1>4
  <2>2. DOMAIN worker_busy[t] = 1 .. Len(worker_busy[t]) /\ Len(worker_busy[t]) \in Nat
        BY <2>1
  <2>3. \A i \in 1 .. Len(worker_busy[t]) : b[i] \in {0, 1}
        BY <1>2, <2>1, <2>2
  <2> QED
      BY <1>2, <2>2, <2>3
<1> QED
    BY <1>3, <1>4, <1>5

LEMMA TypeStep ==
    ASSUME TypeOK, OpenInv, SemInv, ServedInv, ForkInv, [Next]_vars
    PROVE  TypeOK'
<1> USE Params
<1>1. sem' \in [Runs -> {0, 1}]
      BY SemStep
<1>2. /\ main \in [Runs -> {"none"} \cup Alive \cup Ended]
      /\ manager \in [Runs -> [at : {"idle", "inside", "sending"}, position : 0 .. MaxPrefork]]
      /\ worker \in [Workers -> {"none", "failed", "started", "idle", "serving", "ending", "dead"}]
      /\ attached \in [Workers \cup {Main(r) : r \in Runs} -> Objects] /\ name \in Objects
      /\ pointers \in [Runs -> 0 .. MaxRuns]
      /\ served \in 0 .. MaxServed /\ clean \in BOOLEAN
      BY DEF TypeOK
<1>3. Nothing \in Objects
      BY DEF Nothing, Objects
<1>4. \A r \in Runs : Opened(r) \in Objects
      BY <1>2 DEF Opened, Objects
<1>5. ASSUME NEW r \in Runs, InitShm(r) PROVE TypeOK'
  <2>1. /\ main' = [main EXCEPT ![r] = "fork"] /\ name' = Opened(r)
        /\ attached' = [attached EXCEPT ![Main(r)] = Opened(r)]
        /\ pointers' = [pointers EXCEPT ![Opened(r).shm] = r]
        /\ UNCHANGED <<fileVars, manager, worker, sem, served, clean>>
        BY <1>5 DEF InitShm
  <2>2. main' \in [Runs -> {"none"} \cup Alive \cup Ended]
        BY <1>2, <2>1 DEF Alive
  <2>3. attached' \in [Workers \cup {Main(q) : q \in Runs} -> Objects] /\ name' \in Objects
        BY <1>2, <1>4, <2>1
  <2>4. pointers' \in [Runs -> 0 .. MaxRuns]
    <3>1. PICK t : t = Opened(r).shm
          OBVIOUS
    <3>2. pointers' = [pointers EXCEPT ![t] = r] /\ r \in 0 .. MaxRuns
          BY <2>1, <3>1
    <3> QED
        BY <1>2, <3>2
  <2>5. {Main(q) : q \in Runs}' = {Main(q) : q \in Runs}
        BY DEF Main
  <2> QED
      BY <1>1, <1>5, <2>1, <2>2, <2>3, <2>4, <2>5, MemoryTypes DEF TypeOK, fileVars
<1>6. ASSUME NEW r \in Runs, Register(r) \/ PickWorker(r) PROVE TypeOK'
  <2>1. UNCHANGED <<config, server_pool, worker, attached, name, pointers, clean>>
        BY <1>6 DEF Register, PickWorker, fileVars
  <2>2. main' \in [Runs -> {"none"} \cup Alive \cup Ended]
        BY <1>2, <1>6 DEF Register, PickWorker, Alive
  <2>3. manager' \in [Runs -> [at : {"idle", "inside", "sending"}, position : 0 .. MaxPrefork]]
    <3>1. CASE manager' = manager
          BY <1>2, <3>1
    <3>2. CASE PickWorker(r) /\ manager' = [manager EXCEPT ![r].at = "idle"]
          BY <1>2, <3>2
    <3>3. ASSUME NEW i \in 1 .. number_of_worker(r), main[r] = "accepting",
                 manager' = [manager EXCEPT ![r] = Manager("sending", i)]
          PROVE  manager' \in [Runs -> [at : {"idle", "inside", "sending"}, position : 0 .. MaxPrefork]]
      <4>1. PICK n : n = number_of_worker(r)
            OBVIOUS
      <4>2. (IF n = 0 THEN 1 ELSE n) \in 1 .. MaxPrefork
            BY <3>3, <4>1 DEF ForkInv, ForkAt, Alive, n_prefork, Prefork, number_of_worker
      <4>3. i \in 1 .. n
            BY <4>1
      <4>4. i \in 0 .. MaxPrefork
            BY <4>2, <4>3
      <4>5. Manager("sending", i) \in [at : {"idle", "inside", "sending"}, position : 0 .. MaxPrefork]
            BY <4>4 DEF Manager
      <4> QED
          BY <1>2, <3>3, <4>5
    <3>4. \/ manager' = manager
          \/ PickWorker(r) /\ manager' = [manager EXCEPT ![r].at = "idle"]
          \/ /\ main[r] = "accepting"
             /\ \E i \in 1 .. number_of_worker(r) : manager' = [manager EXCEPT ![r] = Manager("sending", i)]
          BY <1>6 DEF Register, PickWorker
    <3> QED
        BY <3>1, <3>2, <3>3, <3>4
  <2>4. served' \in 0 .. MaxServed
    <3>1. \/ served' = served
          \/ main[r] = "accepting" /\ manager[r].at = "inside" /\ served' = served + 1
          BY <1>6 DEF Register, PickWorker
    <3>2. served' = served \/ (served < MaxServed /\ served' = served + 1)
          BY <3>1 DEF ServedInv
    <3> QED
        BY <1>2, <3>2
  <2> QED
      BY <1>1, <1>6, <2>1, <2>2, <2>3, <2>4, MemoryTypes DEF TypeOK, Main
<1>7. ASSUME main' \in [Runs -> {"none"} \cup Alive \cup Ended],
             manager' \in [Runs -> [at : {"idle", "inside", "sending"}, position : 0 .. MaxPrefork]],
             worker' \in [Workers -> {"none", "failed", "started", "idle", "serving", "ending", "dead"}],
             attached' \in [Workers \cup {Main(r) : r \in Runs} -> Objects], name' \in Objects,
             clean' \in BOOLEAN,
             UNCHANGED <<config, server_pool, pointers, worker_array, worker_busy, served>>
      PROVE  TypeOK'
      BY <1>1, <1>7 DEF TypeOK, Main
<1>8. ASSUME NEW r \in Runs, \/ Fork(r) \/ RegisterWait(r) \/ HandleSignal(r) \/ Listen(r)
                             \/ InitPoolFails(r)
      PROVE  TypeOK'
  <2>1. UNCHANGED <<config, server_pool, pointers, worker_array, worker_busy, served, manager, attached, name>>
        BY <1>8 DEF Fork, RegisterWait, HandleSignal, Listen, InitPoolFails, fileVars, shmVars
  <2>2. main' \in [Runs -> {"none"} \cup Alive \cup Ended] /\ clean' \in BOOLEAN
        BY <1>2, <1>8 DEF Fork, RegisterWait, HandleSignal, Listen, InitPoolFails, Alive, Ended
  <2>3. worker' \in [Workers -> {"none", "failed", "started", "idle", "serving", "ending", "dead"}]
        BY <1>2, <1>8 DEF Fork, RegisterWait, HandleSignal, Listen, InitPoolFails
  <2> QED
      BY <1>2, <1>7, <2>1, <2>2, <2>3
<1>9. ASSUME NEW r \in Runs, ManagerWait(r) \/ SendFd(r) PROVE TypeOK'
  <2>1. UNCHANGED <<main, config, server_pool, pointers, worker_array, worker_busy, served, attached, name, clean>>
        BY <1>9 DEF ManagerWait, SendFd, fileVars, shmVars
  <2>2. /\ manager' \in [Runs -> [at : {"idle", "inside", "sending"}, position : 0 .. MaxPrefork]]
        /\ worker' \in [Workers -> {"none", "failed", "started", "idle", "serving", "ending", "dead"}]
    <3>1. CASE ManagerWait(r)
      <4>1. manager' = [manager EXCEPT ![r].at = "inside"] /\ worker' = worker
            BY <3>1 DEF ManagerWait
      <4> QED
          BY <1>2, <4>1
    <3>2. CASE SendFd(r)
      <4>1. PICK pid : /\ manager' = [manager EXCEPT ![r].at = "idle"]
                       /\ worker' = [worker EXCEPT ![pid] = "serving"]
            BY <3>2 DEF SendFd
      <4>2. worker' \in [Workers -> {"none", "failed", "started", "idle", "serving", "ending", "dead"}]
            BY <1>2, <4>1
      <4>3. manager' \in [Runs -> [at : {"idle", "inside", "sending"}, position : 0 .. MaxPrefork]]
            BY <1>2, <4>1
      <4> QED
          BY <4>2, <4>3
    <3> QED
        BY <1>9, <3>1, <3>2
  <2> QED
      BY <1>2, <1>7, <2>1, <2>2
<1>10. ASSUME NEW r \in Runs, Cleaning(r) \/ Kill(r) PROVE TypeOK'
  <2>1. UNCHANGED <<config, server_pool, pointers, worker_array, worker_busy, served, manager, attached>>
        BY <1>10 DEF Cleaning, Kill, fileVars, shmVars
  <2>2. /\ main' \in [Runs -> {"none"} \cup Alive \cup Ended]
        /\ worker' \in [Workers -> {"none", "failed", "started", "idle", "serving", "ending", "dead"}]
        /\ name' \in Objects
        BY <1>2, <1>3, <1>10 DEF Cleaning, Kill, Signalled, Ended
  <2>3. clean' \in BOOLEAN
        BY <1>2, <1>10 DEF Cleaning, Kill
  <2> QED
      BY <1>2, <1>7, <2>1, <2>2, <2>3
<1>11. ASSUME NEW w \in Workers, StartWorker(w) \/ EndWait(w) \/ FollowBadPointer(w) PROVE TypeOK'
  <2>1. UNCHANGED <<main, config, server_pool, pointers, worker_array, worker_busy, served, manager, name, clean>>
        BY <1>11 DEF StartWorker, EndWait, FollowBadPointer, fileVars, shmVars
  <2>2. /\ worker' \in [Workers -> {"none", "failed", "started", "idle", "serving", "ending", "dead"}]
        /\ attached' \in [Workers \cup {Main(r) : r \in Runs} -> Objects]
    <3>1. CASE StartWorker(w)
      <4>1. /\ \E pc \in {"dead", "idle"} : worker' = [worker EXCEPT ![w] = pc]
            /\ attached' = [attached EXCEPT ![w] = name]
            BY <3>1 DEF StartWorker
      <4> QED
          BY <1>2, <4>1
    <3>2. CASE EndWait(w) \/ FollowBadPointer(w)
      <4>1. /\ \E pc \in {"ending", "dead"} : worker' = [worker EXCEPT ![w] = pc]
            /\ attached' = attached
            BY <3>2 DEF EndWait, FollowBadPointer
      <4> QED
          BY <1>2, <4>1
    <3> QED
        BY <1>11, <3>1, <3>2
  <2> QED
      BY <1>2, <1>7, <2>1, <2>2
<1>12. ASSUME NEW w \in Workers, EndConnection(w) PROVE TypeOK'
  <2>1. UNCHANGED <<main, config, server_pool, pointers, worker_array, served, manager, attached, name, clean>>
        BY <1>12 DEF EndConnection, fileVars
  <2>2. worker' \in [Workers -> {"none", "failed", "started", "idle", "serving", "ending", "dead"}]
        BY <1>2, <1>12 DEF EndConnection
  <2> QED
      BY <1>1, <1>12, <2>1, <2>2, EndTypes DEF TypeOK, Main
<1>13. CASE UNCHANGED vars
       BY <1>2, <1>7, <1>13 DEF vars, fileVars, shmVars
<1> QED
    BY <1>5, <1>6, <1>8, <1>9, <1>10, <1>11, <1>12, <1>13, StartTypes DEF Next, MainStep

LEMMA ServedStep ==
    ASSUME TypeOK, RunsInv, SemInv, ServedInv, [Next]_vars
    PROVE  ServedInv'
<1> USE Params
<1>1. /\ main \in [Runs -> MainPCs] /\ served \in 0 .. MaxServed
      /\ manager \in [Runs -> [at : {"idle", "inside", "sending"}, position : 0 .. MaxPrefork]]
      BY Types DEF TypeOK
<1>2. ASSUME served' = served,
             \A r \in Runs : main'[r] = "accepting" /\ manager'[r].at = "inside" =>
                (main[r] = "accepting" /\ manager[r].at = "inside") \/ served < MaxServed
      PROVE  ServedInv'
      BY <1>2 DEF ServedInv
<1>3. \A r \in Runs : main[r] \notin {"accepting"} \cup Ended => manager[r].at = "idle"
      BY DEF SemInv
<1>4. ASSUME NEW r \in Runs, Start(r) PROVE ServedInv'
  <2>1. PICK pc \in {"prefork", "crashed", "exited"} : main' = [main EXCEPT ![r] = pc]
        BY <1>4, StartIs
  <2>2. \A q \in Runs : main'[q] = IF q = r THEN pc ELSE main[q]
        BY <1>1, <2>1
  <2>3. manager' = manager /\ served' = served
        BY <1>4, StartIs
  <2> QED
      BY <1>2, <2>2, <2>3
<1>5. ASSUME NEW r \in Runs, MainStep(r) \/ InitPoolFails(r) \/ Cleaning(r) \/ Kill(r) PROVE ServedInv'
  <2>1. manager' = manager /\ served' = served
        BY <1>5 DEF MainStep, InitShm, Fork, RegisterWait, Register, HandleSignal, Listen,
                    InitPoolFails, Cleaning, Kill
  <2>2. \A q \in Runs : main'[q] = "accepting" => main[q] \in {"accepting", "handled"}
        BY <1>1, <1>5 DEF MainStep, InitShm, Fork, RegisterWait, Register, HandleSignal, Listen,
                          InitPoolFails, Cleaning, Kill
  <2> QED
      BY <1>2, <1>3, <2>1, <2>2 DEF Ended
<1>6. ASSUME NEW r \in Runs, ManagerWait(r) PROVE ServedInv'
  <2>1. /\ manager' = [manager EXCEPT ![r].at = "inside"] /\ served < MaxServed
        /\ served' = served /\ main' = main
        BY <1>6 DEF ManagerWait
  <2> QED
      BY <1>2, <2>1
<1>7. ASSUME NEW r \in Runs, PickWorker(r) PROVE ServedInv'
  <2>1. /\ main' = main /\ main[r] = "accepting"
        /\ \/ manager' = [manager EXCEPT ![r].at = "idle"]
           \/ \E i : manager' = [manager EXCEPT ![r] = Manager("sending", i)]
        BY <1>7 DEF PickWorker
  <2>2. manager'[r].at # "inside"
        BY <1>1, <2>1 DEF Manager
  <2>3. \A q \in Runs : main[q] = "accepting" => q = r
        BY <2>1, OneAlive DEF Alive
  <2> QED
      BY <2>1, <2>2, <2>3 DEF ServedInv
<1>8. ASSUME NEW r \in Runs, SendFd(r) PROVE ServedInv'
  <2>1. manager' = [manager EXCEPT ![r].at = "idle"] /\ served' = served /\ main' = main
        BY <1>8 DEF SendFd
  <2>2. \A q \in Runs : manager'[q].at = "inside" => manager[q].at = "inside"
        BY <1>1, <2>1
  <2> QED
      BY <1>2, <2>1, <2>2
<1>9. ASSUME NEW w \in Workers,
             StartWorker(w) \/ EndWait(w) \/ EndConnection(w) \/ FollowBadPointer(w)
      PROVE  ServedInv'
      BY <1>2, <1>9 DEF StartWorker, EndWait, EndConnection, FollowBadPointer
<1>10. CASE UNCHANGED vars
       BY <1>2, <1>10 DEF vars
<1> QED
    BY <1>4, <1>5, <1>6, <1>7, <1>8, <1>9, <1>10 DEF Next
-----------------------------------------------------------------------------
(* The array of the workers                                                *)

Registered(r) == Forked(r) - (IF main[r] \in {"register", "registering"} THEN 1 ELSE 0)
Slots(r) == [k \in 1 .. n_prefork(r) |-> IF k <= Registered(r) THEN Pid(r, k) ELSE Free]
RegAt(r) == main[r] \in Alive \ {"prefork"} => worker_array[attached[Main(r)].shm] = Slots(r)

LEMMA RegisteredAt == WorkersRegistered <=> \A r \in Runs : RegAt(r)
BY DEF WorkersRegistered, RegAt, Slots, Registered

LEMMA RegKeeps ==
    ASSUME NEW r \in Runs, RegAt(r), main[r] \in Alive \ {"prefork"}, Registered(r)' = Registered(r),
           config'[r] = config[r], attached'[Main(r)] = attached[Main(r)],
           worker_array'[attached[Main(r)].shm] = worker_array[attached[Main(r)].shm],
           \A k \in 1 .. n_prefork(r) : k <= Registered(r) =>
              (worker'[<<r, k>>] = "failed" <=> worker[<<r, k>>] = "failed")
    PROVE  RegAt(r)'
<1>1. n_prefork(r)' = n_prefork(r)
      BY DEF n_prefork
<1>2. \A k \in 1 .. n_prefork(r) : k <= Registered(r) => Pid(r, k)' = Pid(r, k)
      BY DEF Pid
<1>3. Slots(r)' = Slots(r)
  <2>1. \A k \in 1 .. n_prefork(r) : (IF k <= Registered(r)' THEN Pid(r, k)' ELSE Free)
                                        = (IF k <= Registered(r) THEN Pid(r, k) ELSE Free)
        BY <1>2
  <2> QED
      BY <1>1, <2>1 DEF Slots
<1> QED
    BY <1>3 DEF RegAt, Main

LEMMA RegisteredStep ==
    ASSUME TypeOK, RunsInv, OpenInv, ForkInv, WorkersRegistered, [Next]_vars
    PROVE  WorkersRegistered'
<1> USE Params
<1>1. /\ main \in [Runs -> MainPCs] /\ worker \in [Workers -> WorkerPCs]
      /\ attached \in [Workers \cup {Main(r) : r \in Runs} -> Objects]
      BY Types
<1>2. \A r \in Runs : RegAt(r) /\ ForkAt(r)
      BY RegisteredAt DEF ForkInv
<1>3. ASSUME \A r \in Runs : RegAt(r)' PROVE WorkersRegistered'
      BY <1>3 DEF WorkersRegistered, RegAt, Slots, Registered
<1>4. ASSUME NEW r \in Runs, main'[r] \notin Alive \ {"prefork"} PROVE RegAt(r)'
      BY <1>4 DEF RegAt
\* Where no worker is forked and nobody writes to the array.
<1>5. ASSUME \A w \in Workers : /\ worker'[w] = "none" <=> worker[w] = "none"
                                /\ worker'[w] = "failed" <=> worker[w] = "failed",
             config' = config, worker_array' = worker_array,
             \A r \in Runs : attached'[Main(r)] = attached[Main(r)],
             \A r \in Runs : \/ main'[r] = main[r]
                             \/ main'[r] \notin Alive \ {"prefork"}
                             \/ main[r] = "register" /\ main'[r] = "registering"
                             \/ main[r] \in {"threads", "handled"} /\ main'[r] \in {"handled", "accepting"}
      PROVE  WorkersRegistered'
  <2>1. ASSUME NEW r \in Runs, main'[r] \in Alive \ {"prefork"} PROVE RegAt(r)'
    <3>1. main[r] \in Alive \ {"prefork"}
          BY <1>5, <2>1 DEF Alive
    <3>2. main'[r] \in {"register", "registering"} <=> main[r] \in {"register", "registering"}
          BY <1>5, <2>1
    <3>3. Forked(r)' = Forked(r)
          BY <1>5, ForkedSame
    <3>4. Registered(r)' = Registered(r)
          BY <3>2, <3>3 DEF Registered
    <3>5. n_prefork(r) \in 1 .. MaxPrefork
          BY <1>2, <3>1 DEF ForkAt
    <3>6. \A k \in 1 .. n_prefork(r) : worker'[<<r, k>>] = "failed" <=> worker[<<r, k>>] = "failed"
      <4>1. \A k \in 1 .. n_prefork(r) : <<r, k>> \in Workers
            BY <3>5, Processes
      <4> QED
          BY <1>5, <4>1
    <3> QED
        BY <1>2, <1>5, <3>1, <3>4, <3>6, RegKeeps
  <2> QED
      BY <1>3, <1>4, <2>1
<1>6. ASSUME NEW r \in Runs, Start(r) PROVE WorkersRegistered'
  <2>1. PICK pc \in {"prefork", "crashed", "exited"} : main' = [main EXCEPT ![r] = pc]
        BY <1>6, StartIs
  <2>2. \A q \in Runs : main'[q] = IF q = r THEN pc ELSE main[q]
        BY <1>1, <2>1
  <2>3. UNCHANGED <<worker, attached, worker_array>>
        BY <1>6, StartIs DEF shmVars
  <2>4. ASSUME NEW q \in Runs \ {r}, main'[q] \in Alive \ {"prefork"} PROVE RegAt(q)'
    <3>1. main'[q] = main[q] /\ Forked(q)' = Forked(q)
          BY <2>2, <2>3, ForkedSame
    <3>2. Registered(q)' = Registered(q)
          BY <3>1 DEF Registered
    <3>3. config'[q] = config[q]
      <4>1. \E values : config' = [config EXCEPT ![r] = values]
            BY <1>6, StartIs
      <4>2. config \in [Runs -> Configs]
            BY DEF TypeOK
      <4> QED
          BY <4>1, <4>2
    <3> QED
        BY <1>2, <2>3, <2>4, <3>1, <3>2, <3>3, RegKeeps
  <2>5. main'[r] \notin Alive \ {"prefork"}
        BY <2>2 DEF Alive
  <2> QED
      BY <1>3, <1>4, <2>4, <2>5
<1>7. ASSUME NEW r \in Runs, main[r] \in Alive, NEW q \in Runs \ {r},
             main' = [main EXCEPT ![r] = main'[r]]
      PROVE  RegAt(q)'
  <2>1. main[q] \notin Alive
        BY <1>7, OneAlive
  <2>2. main'[q] = main[q]
        BY <1>1, <1>7
  <2> QED
      BY <1>4, <2>1, <2>2
<1>8. ASSUME NEW r \in Runs, InitShm(r) PROVE WorkersRegistered'
  <2>1. PICK t : t = Opened(r).shm
        OBVIOUS
  <2>2. t \in Runs
        BY <2>1, Types DEF Opened, Objects
  <2>3. /\ main[r] = "prefork" /\ main' = [main EXCEPT ![r] = "fork"]
        /\ attached' = [attached EXCEPT ![Main(r)] = Opened(r)]
        /\ worker_array' = [worker_array EXCEPT ![t] = [i \in 1 .. n_prefork(r) |-> Free]]
        /\ config' = config /\ worker' = worker
        BY <1>8, <2>1 DEF InitShm, fileVars
  <2>4. main'[r] = "fork" /\ attached'[Main(r)] = Opened(r)
        BY <1>1, <2>3
  <2>5. worker_array'[t] = [i \in 1 .. n_prefork(r) |-> Free]
        BY <2>2, <2>3 DEF TypeOK
  <2>6. Registered(r)' = 0
    <3>1. Forked(r)' = Forked(r) /\ Forked(r) = 0
          BY <1>2, <2>3, ForkedSame DEF ForkAt
    <3>2. main'[r] \notin {"register", "registering"}
          BY <2>4
    <3>3. Registered(r)' = Forked(r)' - 0
          BY <3>2 DEF Registered
    <3> QED
        BY <3>1, <3>3
  <2>7. Slots(r)' = [i \in 1 .. n_prefork(r) |-> Free]
    <3>1. n_prefork(r)' = n_prefork(r)
          BY <2>3 DEF n_prefork
    <3> QED
        BY <2>6, <3>1 DEF Slots
  <2>8. RegAt(r)'
        BY <2>1, <2>4, <2>5, <2>7 DEF RegAt, Main
  <2>9. \A q \in Runs \ {r} : RegAt(q)'
        BY <1>7, <2>3, <2>4 DEF Alive
  <2> QED
      BY <1>3, <2>8, <2>9
<1>9. ASSUME NEW r \in Runs, Fork(r) PROVE WorkersRegistered'
  <2>1. PICK k : k = Forked(r)
        OBVIOUS
  <2>2. PICK born \in {"started", "failed"} : worker' = [worker EXCEPT ![<<r, k + 1>>] = born]
        BY <1>9, <2>1 DEF Fork
  <2>3. /\ main[r] = "fork" /\ main' = [main EXCEPT ![r] = "register"]
        /\ UNCHANGED <<config, attached, worker_array>>
        BY <1>9 DEF Fork, fileVars, shmVars
  <2>4. k \in Nat /\ k < n_prefork(r) /\ n_prefork(r) \in 1 .. MaxPrefork
        BY <1>2, <2>1, <2>3, ForkedType DEF ForkAt, Alive
  <2>5. k + 1 \in 1 .. MaxPrefork /\ <<r, k + 1>> \in Workers
        BY <2>4, Processes
  <2>6. /\ worker'[<<r, k + 1>>] = born
        /\ \A w \in Workers \ {<<r, k + 1>>} : worker'[w] = worker[w]
        BY <1>1, <2>2, <2>5
  <2>7. worker[<<r, k + 1>>] = "none"
        BY <1>2, <2>1, <2>4, <2>5 DEF ForkAt
  <2>8. Forked(r)' = k + 1
    <3>1. <<r, k + 1>>[1] = r
          OBVIOUS
    <3> QED
        BY <2>1, <2>5, <2>6, <2>7, <3>1, ForkedGrows
  <2>9. main'[r] = "register"
        BY <1>1, <2>3
  <2>10. Registered(r)' = k /\ Registered(r) = k
         BY <2>1, <2>3, <2>4, <2>8, <2>9 DEF Registered
  <2>11. \A i \in 1 .. n_prefork(r) : i <= k => worker'[<<r, i>>] = worker[<<r, i>>]
    <3>1. \A i \in 1 .. n_prefork(r) : i <= k => <<r, i>> \in Workers /\ <<r, i>> # <<r, k + 1>>
          BY <2>4, Processes
    <3> QED
        BY <2>6, <3>1
  <2>12. RegAt(r)'
         BY <1>2, <2>3, <2>10, <2>11, RegKeeps DEF Alive
  <2>13. \A q \in Runs \ {r} : RegAt(q)'
         BY <1>7, <2>3, <2>9 DEF Alive
  <2> QED
      BY <1>3, <2>12, <2>13
<1>10. ASSUME NEW r \in Runs, Register(r) PROVE WorkersRegistered'
  <2>1. PICK t : t = attached[Main(r)].shm
        OBVIOUS
  <2>2. PICK k : k = Forked(r)
        OBVIOUS
  <2>3. PICK pc \in {"threads", "fork"} : main' = [main EXCEPT ![r] = pc]
        BY <1>10 DEF Register
  <2>4. main[r] = "registering" /\ UNCHANGED <<config, worker, attached>>
        BY <1>10 DEF Register, fileVars
  <2>5. PICK i \in DOMAIN worker_array[t] :
           /\ worker_array[t][i] = Free
           /\ \A j \in 1 .. i - 1 : worker_array[t][j] # Free
           /\ worker_array' = [worker_array EXCEPT ![t][i] = Pid(r, k)]
        BY <1>10, <2>1, <2>2 DEF Register
  <2>6. PICK n : n = n_prefork(r)
        OBVIOUS
  <2>7. n \in 1 .. MaxPrefork /\ k \in 1 .. n
        BY <1>2, <2>2, <2>4, <2>6 DEF ForkAt, Alive
  <2>8. \A j \in 1 .. n : Pid(r, j) # Free
    <3>1. \A j \in 1 .. n : j \in 1 .. MaxPrefork
          BY <2>7
    <3> QED
        BY <3>1, Processes DEF Pid
  <2>9. worker_array[t] = [j \in 1 .. n |-> IF j <= k - 1 THEN Pid(r, j) ELSE Free]
    <3>1. Registered(r) = k - 1
          BY <2>2, <2>4 DEF Registered
    <3> QED
        BY <1>2, <2>1, <2>4, <2>6, <3>1 DEF RegAt, Slots, Alive
  <2>10. i = k
    <3>1. i \in 1 .. n
          BY <2>5, <2>9
    <3>2. worker_array[t][k] = Free
          BY <2>7, <2>9
    <3>3. ~(i <= k - 1)
      <4>1. i <= k - 1 => worker_array[t][i] = Pid(r, i)
            BY <2>9, <3>1
      <4> QED
          BY <2>5, <2>8, <3>1, <4>1
    <3>4. ~(k < i)
      <4>1. k < i => k \in 1 .. i - 1
            BY <2>7, <3>1
      <4> QED
          BY <2>5, <3>2, <4>1
    <3> QED
        BY <2>7, <3>1, <3>3, <3>4
  <2>11. t \in Runs
         BY <2>1, <2>4 DEF OpenInv, Alive
  <2>12. worker_array'[t] = [worker_array[t] EXCEPT ![k] = Pid(r, k)]
         BY <2>5, <2>10, <2>11 DEF TypeOK
  <2>13. worker_array'[t] = [j \in 1 .. n |-> IF j <= k THEN Pid(r, j) ELSE Free]
    <3>1. ASSUME NEW j \in 1 .. n
          PROVE  [worker_array[t] EXCEPT ![k] = Pid(r, k)][j] = IF j <= k THEN Pid(r, j) ELSE Free
      <4>1. CASE j = k
            BY <2>7, <2>9, <4>1
      <4>2. CASE j # k
        <5>1. j <= k - 1 <=> j <= k
              BY <2>7, <4>2
        <5> QED
            BY <2>9, <4>2, <5>1
      <4> QED
          BY <4>1, <4>2
    <3> QED
        BY <2>9, <2>12, <3>1
  <2>14. main'[r] = pc
         BY <1>1, <2>3
  <2>15. Registered(r)' = k
    <3>1. Forked(r)' = Forked(r)
          BY <2>4, ForkedSame
    <3> QED
        BY <2>2, <2>7, <2>14, <3>1 DEF Registered
  <2>16. \A j \in 1 .. n : Pid(r, j)' = Pid(r, j)
         BY <2>4 DEF Pid
  <2>17. Slots(r)' = [j \in 1 .. n |-> IF j <= k THEN Pid(r, j) ELSE Free]
    <3>1. n_prefork(r)' = n
          BY <2>4, <2>6 DEF n_prefork
    <3> QED
        BY <2>15, <2>16, <3>1 DEF Slots
  <2>18. RegAt(r)'
         BY <2>1, <2>4, <2>13, <2>17 DEF RegAt, Main
  <2>19. \A q \in Runs \ {r} : RegAt(q)'
         BY <1>7, <2>3, <2>4, <2>14 DEF Alive
  <2> QED
      BY <1>3, <2>18, <2>19
<1>11. ASSUME NEW r \in Runs,
              \/ RegisterWait(r) \/ HandleSignal(r) \/ Listen(r) \/ InitPoolFails(r)
              \/ ManagerWait(r) \/ PickWorker(r) \/ SendFd(r) \/ Cleaning(r) \/ Kill(r)
       PROVE  WorkersRegistered'
  <2>1. UNCHANGED <<config, attached, worker_array>>
        BY <1>11 DEF RegisterWait, HandleSignal, Listen, InitPoolFails, ManagerWait, PickWorker, SendFd,
                     Cleaning, Kill, fileVars, shmVars
  <2>2. \A w \in Workers : /\ worker'[w] = "none" <=> worker[w] = "none"
                           /\ worker'[w] = "failed" <=> worker[w] = "failed"
    <3>1. CASE Cleaning(r) \/ Kill(r)
          BY <1>1, <3>1 DEF Cleaning, Kill, Signalled, Living
    <3>2. CASE SendFd(r)
      <4>1. \E pid \in Workers : worker[pid] = "idle" /\ worker' = [worker EXCEPT ![pid] = "serving"]
            BY <3>2 DEF SendFd
      <4> QED
          BY <1>1, <4>1
    <3>3. CASE worker' = worker
          BY <3>3
    <3> QED
        BY <1>11, <3>1, <3>2, <3>3 DEF RegisterWait, HandleSignal, Listen, InitPoolFails, ManagerWait,
                                       PickWorker
  <2>3. \A q \in Runs : \/ main'[q] = main[q]
                        \/ main'[q] \notin Alive \ {"prefork"}
                        \/ main[q] = "register" /\ main'[q] = "registering"
                        \/ main[q] \in {"threads", "handled"} /\ main'[q] \in {"handled", "accepting"}
        BY <1>1, <1>11 DEF RegisterWait, HandleSignal, Listen, InitPoolFails, ManagerWait, PickWorker,
                           SendFd, Cleaning, Kill, Alive
  <2> QED
      BY <1>5, <2>1, <2>2, <2>3
<1>12. ASSUME NEW w \in Workers,
              StartWorker(w) \/ EndWait(w) \/ EndConnection(w) \/ FollowBadPointer(w)
       PROVE  WorkersRegistered'
  <2>1. UNCHANGED <<main, config, worker_array>>
        BY <1>12 DEF StartWorker, EndWait, EndConnection, FollowBadPointer, fileVars, shmVars
  <2>2. \A v \in Workers : /\ worker'[v] = "none" <=> worker[v] = "none"
                           /\ worker'[v] = "failed" <=> worker[v] = "failed"
        BY <1>1, <1>12 DEF StartWorker, EndWait, EndConnection, FollowBadPointer
  <2>3. \A q \in Runs : attached'[Main(q)] = attached[Main(q)]
        BY <1>1, <1>12, Processes DEF StartWorker, EndWait, EndConnection, FollowBadPointer
  <2> QED
      BY <1>5, <2>1, <2>2, <2>3
<1>13. CASE UNCHANGED vars
       BY <1>5, <1>13 DEF vars, fileVars, shmVars
<1> QED
    BY <1>6, <1>8, <1>9, <1>10, <1>11, <1>12, <1>13 DEF Next, MainStep
-----------------------------------------------------------------------------
(* The servers of the file                                                 *)

Lines      == Seq(Seq(STRING))
IsIP(line) == IsPrefix(Append(<<"I", "P">>, ":"), line)
IPs(file, i) == {j \in 1 .. i : IsIP(file[j])}

\* The addresses in the first i lines are as many as the lines that hold one.
Stores(file, i) == {s \in Lines : Len(s) <= Cardinality(IPs(file, i))}

LEMMA IPsFinite ==
    ASSUME NEW file \in Lines, NEW i \in Nat
    PROVE  /\ IsFiniteSet(IPs(file, i)) /\ Cardinality(IPs(file, i)) \in Nat
           /\ i + 1 <= Len(file) /\ IsIP(file[i + 1]) =>
                 Cardinality(IPs(file, i + 1)) = Cardinality(IPs(file, i)) + 1
           /\ ~IsIP(file[i + 1]) => IPs(file, i + 1) = IPs(file, i)
<1>1. IsFiniteSet(IPs(file, i))
  <2>1. IsFiniteSet(1 .. i)
        BY FS_Interval
  <2> QED
      BY <2>1, FS_Subset DEF IPs
<1>2. Cardinality(IPs(file, i)) \in Nat
      BY <1>1, FS_CardinalityType
<1>3. ASSUME IsIP(file[i + 1]) PROVE Cardinality(IPs(file, i + 1)) = Cardinality(IPs(file, i)) + 1
  <2>1. IPs(file, i + 1) = IPs(file, i) \cup {i + 1} /\ i + 1 \notin IPs(file, i)
        BY <1>3 DEF IPs
  <2> QED
      BY <1>1, <2>1, FS_AddElement
<1>4. ~IsIP(file[i + 1]) => IPs(file, i + 1) = IPs(file, i)
      BY DEF IPs
<1> QED
    BY <1>1, <1>2, <1>3, <1>4

LEMMA StoreKeeps ==
    ASSUME NEW file \in Lines, NEW i \in 1 .. Len(file), NEW s \in Stores(file, i - 1)
    PROVE  Store(s, file[i], <<"I", "P">>) \in Stores(file, i)
<1>1. i - 1 \in Nat /\ (i - 1) + 1 = i /\ Len(file) \in Nat
      BY DEF Lines
<1>2. s \in Lines /\ Len(s) <= Cardinality(IPs(file, i - 1)) /\ Len(s) \in Nat
      BY DEF Stores, Lines
<1>3. Len(<<"I", "P">>) + 2 = 4
      OBVIOUS
<1>4. file[i] \in Seq(STRING)
      BY DEF Lines
<1>5. CASE IsIP(file[i])
  <2>1. SubSeq(file[i], 4, Len(file[i])) \in Seq(STRING)
        BY <1>4
  <2>2. PICK v \in Seq(STRING) : v = SubSeq(file[i], 4, Len(file[i]))
        BY <2>1
  <2>3. Store(s, file[i], <<"I", "P">>) = Append(s, v)
        BY <1>3, <1>5, <2>2 DEF Store, IsIP
  <2>4. Append(s, v) \in Lines /\ Len(Append(s, v)) = Len(s) + 1
        BY <1>2 DEF Lines
  <2>5. Cardinality(IPs(file, i)) = Cardinality(IPs(file, i - 1)) + 1
        BY <1>1, <1>5, IPsFinite
  <2>6. Cardinality(IPs(file, i - 1)) \in Nat
        BY <1>1, IPsFinite
  <2>7. Len(Append(s, v)) <= Cardinality(IPs(file, i))
        BY <1>2, <2>4, <2>5, <2>6
  <2> QED
      BY <2>3, <2>4, <2>7 DEF Stores
<1>6. CASE ~IsIP(file[i])
  <2>1. Store(s, file[i], <<"I", "P">>) = s
        BY <1>3, <1>6 DEF Store, IsIP
  <2>2. IPs(file, i) = IPs(file, i - 1)
        BY <1>1, <1>6, IPsFinite
  <2> QED
      BY <1>2, <2>1, <2>2 DEF Stores
<1> QED
    BY <1>5, <1>6

LEMMA AddressesIs ==
    ASSUME NEW file \in Lines
    PROVE  Addresses(file) \in Stores(file, Len(file))
<1> DEFINE length == Len(file)
           Is(h) == h = [i \in 0 .. length |-> IF i = 0 THEN <<>>
                                              ELSE Store(h[i - 1], file[i], <<"I", "P">>)]
           X == [i \in 0 .. length |-> Stores(file, i)]
           step == [i \in 0 .. length |-> [s \in Lines |-> Store(s, file[i], <<"I", "P">>)]]
<1>1. Addresses(file) = (CHOOSE h : Is(h))[length]
      BY DEF Addresses, Values
<1>2. length \in Nat
      BY DEF Lines
<1>3. <<>> \in Stores(file, 0)
  <2>1. Cardinality(IPs(file, 0)) \in Nat
        BY IPsFinite
  <2>2. <<>> \in Lines /\ Len(<<>>) = 0
        BY DEF Lines
  <2> QED
      BY <2>1, <2>2 DEF Stores
<1>4. \A i \in 0 .. length : i # 0 => i - 1 \in 0 .. length /\ i \in 1 .. Len(file)
      BY <1>2
<1>5. \A i \in 0 .. length : i # 0 =>
          \A s \in Stores(file, i - 1) : s \in Lines /\ Store(s, file[i], <<"I", "P">>) \in Stores(file, i)
      BY <1>4, StoreKeeps DEF Stores
<1> HIDE DEF length
<1>6. \E h : Is(h)
  <2>1. <<>> \in X[0]
        BY <1>2, <1>3
  <2>2. \A i \in 0 .. length : i # 0 => \A x \in X[i - 1] : step[i][x] \in X[i]
        BY <1>2, <1>4, <1>5
  <2> HIDE DEF X, step
  <2>3. PICK f : \A i \in 0 .. length : /\ f[i] = IF i = 0 THEN <<>> ELSE step[i][f[i - 1]]
                                       /\ f[i] \in X[i]
    <3>1. States(0, length, X, <<>>, step)
          BY <1>2, <2>1, <2>2, Loop DEF Stays
    <3> QED
        BY <3>1 DEF States
  <2>4. \A i \in 0 .. length : i # 0 => i - 1 \in 0 .. length /\ f[i - 1] \in Lines
        BY <1>2, <2>3 DEF X, Stores
  <2>5. \A i \in 0 .. length : i # 0 => step[i][f[i - 1]] = Store(f[i - 1], file[i], <<"I", "P">>)
        BY <2>4 DEF step
  <2> DEFINE g == [i \in 0 .. length |-> f[i]]
  <2>6. \A i \in 0 .. length : f[i] = IF i = 0 THEN <<>> ELSE Store(g[i - 1], file[i], <<"I", "P">>)
        BY <2>3, <2>4, <2>5
  <2>7. Is(g)
        BY <2>6
  <2> QED
      BY <2>7
<1>7. ASSUME NEW h, Is(h) PROVE h[length] \in Stores(file, length)
  <2> DEFINE P == {i \in 0 .. length : h[i] \in Stores(file, i)}
  <2>1. 0 \in P
        BY <1>2, <1>3, <1>7
  <2>2. \A i \in 0 .. length : i # 0 /\ i - 1 \in P => i \in P
        BY <1>2, <1>5, <1>7
  <2>3. length \in Int /\ 0 \in Int /\ length \in 0 .. length
        BY <1>2
  <2> HIDE DEF P
  <2>4. length \in P
        BY <2>1, <2>2, <2>3, Induct
  <2> QED
      BY <2>4 DEF P
<1> HIDE DEF Is
<1> QED
    BY <1>1, <1>6, <1>7 DEF length

\* count_server counts each line that parse_line takes: its IP is the first pair.
LEMMA EnoughCounted ==
    ASSUME NEW file \in Lines
    PROVE  CountServer(file) \in Nat /\ Len(Addresses(file)) <= CountServer(file)
<1>1. Len(file) \in Nat /\ \A i \in DOMAIN file : file[i] \in Seq(STRING) /\ Len(file[i]) \in Nat
      BY DEF Lines
<1> DEFINE OfLine(i) == {<<i, k>> : k \in {n \in 1 .. Len(file[i]) - 1 :
                                       n % 2 = 1 /\ SubSeq(file[i], n, n + 1) = <<"I", "P">>}}
<1>2. IsFiniteSet(Pairs(file))
  <2>1. ASSUME NEW i \in DOMAIN file PROVE IsFiniteSet(OfLine(i))
    <3> DEFINE S == {n \in 1 .. Len(file[i]) - 1 :
                       n % 2 = 1 /\ SubSeq(file[i], n, n + 1) = <<"I", "P">>}
    <3>1. IsFiniteSet(1 .. Len(file[i]) - 1)
          BY <1>1, FS_Interval
    <3>2. IsFiniteSet(S)
          BY <3>1, FS_Subset
    <3> HIDE DEF S
    <3>3. [k \in S |-> <<i, k>>] \in Surjection(S, {<<i, k>> : k \in S})
          BY DEF Surjection
    <3>4. IsFiniteSet({<<i, k>> : k \in S})
          BY <3>2, <3>3, FS_Surjection
    <3> QED
        BY <3>4 DEF S
  <2>2. IsFiniteSet(DOMAIN file)
    <3>1. DOMAIN file = 1 .. Len(file)
          BY DEF Lines
    <3> QED
        BY <1>1, <3>1, FS_Interval
  <2>3. Pairs(file) = UNION {OfLine(i) : i \in DOMAIN file}
        BY DEF Pairs
  <2> HIDE DEF OfLine
  <2>4. [i \in DOMAIN file |-> OfLine(i)] \in Surjection(DOMAIN file, {OfLine(i) : i \in DOMAIN file})
        BY DEF Surjection
  <2>5. IsFiniteSet({OfLine(i) : i \in DOMAIN file})
        BY <2>2, <2>4, FS_Surjection
  <2> QED
      BY <2>1, <2>3, <2>5, FS_UNION
<1>3. \A i \in IPs(file, Len(file)) : <<i, 1>> \in Pairs(file)
  <2> SUFFICES ASSUME NEW i \in IPs(file, Len(file)) PROVE <<i, 1>> \in Pairs(file)
      OBVIOUS
  <2>1. i \in DOMAIN file /\ IsIP(file[i])
        BY DEF IPs, Lines
  <2>2. PICK key : key = Append(<<"I", "P">>, ":")
        OBVIOUS
  <2>3. key \in Seq({"I", "P", ":"}) /\ Len(key) = 3 /\ key[1] = "I" /\ key[2] = "P"
    <3>1. <<"I", "P">> \in Seq({"I", "P", ":"}) /\ Len(<<"I", "P">>) = 2
          OBVIOUS
    <3> QED
        BY <2>2, <3>1
  <2>4. 3 <= Len(file[i]) /\ SubSeq(key, 1, 3) = SubSeq(file[i], 1, 3)
        BY <2>1, <2>2, <2>3 DEF IsIP, IsPrefix
  <2>5. file[i][1] = "I" /\ file[i][2] = "P"
        BY <1>1, <2>1, <2>3, <2>4
  <2>6. SubSeq(file[i], 1, 2) = <<"I", "P">>
    <3>1. PICK two : two = SubSeq(file[i], 1, 2)
          OBVIOUS
    <3>2. two \in Seq(STRING) /\ Len(two) = 2 /\ two[1] = "I" /\ two[2] = "P"
          BY <1>1, <2>1, <2>4, <2>5, <3>1
    <3>3. two = <<"I", "P">>
          BY <3>2
    <3> QED
        BY <3>1, <3>3
  <2>7. 1 \in 1 .. Len(file[i]) - 1 /\ 1 % 2 = 1 /\ 1 + 1 = 2
        BY <1>1, <2>1, <2>4
  <2> QED
      BY <2>1, <2>7, <2>6 DEF Pairs
<1>4. Cardinality(IPs(file, Len(file))) <= Cardinality(Pairs(file))
  <2> DEFINE f == [i \in IPs(file, Len(file)) |-> <<i, 1>>]
  <2>1. f \in Injection(IPs(file, Len(file)), Pairs(file))
        BY <1>3 DEF Injection, IsInjective
  <2> HIDE DEF f
  <2> QED
      BY <1>2, <2>1, FS_Injection
<1>5. Cardinality(Pairs(file)) \in Nat
      BY <1>2, FS_CardinalityType
<1>6. /\ Len(Addresses(file)) <= Cardinality(IPs(file, Len(file)))
      /\ Len(Addresses(file)) \in Nat
      BY AddressesIs DEF Stores, Lines
<1>7. Cardinality(IPs(file, Len(file))) \in Nat
      BY <1>1, IPsFinite
<1> QED
    BY <1>4, <1>5, <1>6, <1>7 DEF CountServer

LEMMA PoolHoldsAddresses ==
    ASSUME NEW file \in Lines
    PROVE  IsPrefix(Addresses(file), ServerPool(file))
<1>1. PICK stored \in Lines : stored = Addresses(file)
      BY AddressesIs DEF Stores
<1>2. PICK count \in Nat : count = CountServer(file)
      BY EnoughCounted
<1>3. Len(stored) <= count /\ Len(stored) \in Nat
      BY <1>1, <1>2, EnoughCounted DEF Lines
<1>4. PICK pool : pool = [i \in 1 .. count |-> IF i <= Len(stored) THEN stored[i] ELSE NULL]
      OBVIOUS
<1>5. pool = ServerPool(file)
      BY <1>1, <1>2, <1>4 DEF ServerPool
<1>6. pool \in Seq(Seq(STRING) \cup {NULL}) /\ Len(pool) = count
  <2>1. \A i \in 1 .. Len(stored) : stored[i] \in Seq(STRING)
        BY <1>3 DEF Lines
  <2>2. \A i \in 1 .. count : i <= Len(stored) => i \in 1 .. Len(stored)
        BY <1>2, <1>3
  <2> QED
      BY <1>2, <1>4, <2>1, <2>2
<1>7. SubSeq(stored, 1, Len(stored)) = SubSeq(pool, 1, Len(stored))
      BY <1>3, <1>4, <1>6 DEF Lines
<1> QED
    BY <1>1, <1>3, <1>5, <1>6, <1>7 DEF IsPrefix

PoolAt(r) ==
    main[r] \in Alive =>
        \E input \in Inputs :
            /\ input.servers # NULL /\ Config(input.config).values = config[r]
            /\ IsPrefix(Addresses(input.servers), server_pool[r])

LEMMA ServersStep ==
    ASSUME IInv, NoServerLeftOut, [Next]_vars PROVE NoServerLeftOut'
<1> USE Params
<1>1. /\ main \in [Runs -> MainPCs] /\ DOMAIN config = Runs /\ DOMAIN server_pool = Runs
      BY Types DEF IInv, TypeOK
<1>2. \A r \in Runs : PoolAt(r)
      BY DEF NoServerLeftOut, PoolAt
<1>3. (\A r \in Runs : PoolAt(r)') => NoServerLeftOut'
      BY DEF NoServerLeftOut, PoolAt
<1>4. ASSUME NEW r \in Runs, PoolAt(r), main'[r] \in Alive => main[r] \in Alive,
             config'[r] = config[r], server_pool'[r] = server_pool[r]
      PROVE  PoolAt(r)'
      BY <1>4 DEF PoolAt
<1>5. ASSUME NEW r \in Runs, Start(r) PROVE NoServerLeftOut'
  <2>1. PICK input \in Inputs, end \in {"prefork", "crashed", "exited"} :
           /\ main' = [main EXCEPT ![r] = end]
           /\ config' = [config EXCEPT ![r] = Config(input.config).values]
           /\ \/ end # "prefork" /\ server_pool' = server_pool
              \/ /\ input.servers # NULL
                 /\ server_pool' = [server_pool EXCEPT ![r] = ServerPool(input.servers)]
        BY <1>5, StartIs
  <2>2. PoolAt(r)'
    <3>1. CASE end # "prefork"
          BY <1>1, <2>1, <3>1 DEF PoolAt, Alive
    <3>2. CASE end = "prefork"
      <4>1. /\ input.servers # NULL /\ config'[r] = Config(input.config).values
            /\ server_pool'[r] = ServerPool(input.servers)
            BY <1>1, <2>1, <3>2
      <4>2. input.servers \in Lines
            BY <4>1, StartupAssumption DEF Lines
      <4>3. IsPrefix(Addresses(input.servers), server_pool'[r])
            BY <4>1, <4>2, PoolHoldsAddresses
      <4> QED
          BY <4>1, <4>3 DEF PoolAt
    <3> QED
        BY <3>1, <3>2
  <2>3. ASSUME NEW q \in Runs \ {r} PROVE PoolAt(q)'
    <3>1. main'[q] = main[q] /\ config'[q] = config[q] /\ server_pool'[q] = server_pool[q]
          BY <1>1, <2>1
    <3> QED
        BY <1>2, <1>4, <3>1
  <2> QED
      BY <1>3, <2>2, <2>3
<1>6. ASSUME UNCHANGED fileVars, \A r \in Runs : main'[r] \in Alive => main[r] \in Alive
      PROVE  NoServerLeftOut'
      BY <1>2, <1>3, <1>4, <1>6 DEF fileVars
<1>7. ASSUME NEW r \in Runs,
             \/ MainStep(r) \/ InitPoolFails(r) \/ ManagerWait(r) \/ PickWorker(r) \/ SendFd(r)
             \/ Cleaning(r) \/ Kill(r)
      PROVE  NoServerLeftOut'
  <2>1. UNCHANGED fileVars
        BY <1>7 DEF MainStep, InitShm, Fork, RegisterWait, Register, HandleSignal, Listen, InitPoolFails,
                    ManagerWait, PickWorker, SendFd, Cleaning, Kill
  <2>2. main[r] \in Alive
        BY <1>7 DEF MainStep, InitShm, Fork, RegisterWait, Register, HandleSignal, Listen, InitPoolFails,
                    ManagerWait, PickWorker, SendFd, Cleaning, Kill, Alive
  <2>3. main' = main \/ \E pc : main' = [main EXCEPT ![r] = pc]
        BY <1>7 DEF MainStep, InitShm, Fork, RegisterWait, Register, HandleSignal, Listen, InitPoolFails,
                    ManagerWait, PickWorker, SendFd, Cleaning, Kill
  <2>4. \A q \in Runs : main'[q] \in Alive => main[q] \in Alive
        BY <1>1, <2>2, <2>3
  <2> QED
      BY <1>6, <2>1, <2>4
<1>8. ASSUME NEW w \in Workers,
             StartWorker(w) \/ EndWait(w) \/ EndConnection(w) \/ FollowBadPointer(w)
      PROVE  NoServerLeftOut'
      BY <1>6, <1>8 DEF StartWorker, EndWait, EndConnection, FollowBadPointer
<1>9. CASE UNCHANGED vars
      BY <1>6, <1>9 DEF vars
<1> QED
    BY <1>5, <1>7, <1>8, <1>9 DEF Next
-----------------------------------------------------------------------------
(* The invariant, and what follows from it                                 *)

LEMMA InitInv == Init => IInv
<1> SUFFICES ASSUME Init PROVE IInv
    OBVIOUS
<1> USE Params
<1>1. TypeOK
  <2>1. Unread \in Configs
        BY DEF Configs
  <2>2. config \in [Runs -> Configs]
        BY <2>1 DEF Init
  <2>3. server_pool \in [Runs -> Pools]
    <3>1. <<>> \in Pools
          BY DEF Pools
    <3> QED
        BY <3>1 DEF Init
  <2>4. /\ main \in [Runs -> {"none"} \cup Alive \cup Ended]
        /\ manager \in [Runs -> [at : {"idle", "inside", "sending"}, position : 0 .. MaxPrefork]]
        /\ worker \in [Workers -> {"none", "failed", "started", "idle", "serving", "ending", "dead"}]
        BY DEF Init, Manager
  <2>5. /\ attached \in [Workers \cup {Main(r) : r \in Runs} -> Objects] /\ name \in Objects
    <3>1. Nothing \in Objects
          BY DEF Nothing, Objects
    <3> QED
        BY <3>1 DEF Init
  <2>6. sem \in [Runs -> {0, 1}] /\ pointers \in [Runs -> 0 .. MaxRuns]
        BY DEF Init
  <2>7. /\ worker_array \in [Runs -> Seq(Workers \cup {Free, Failed})]
        /\ worker_busy \in [Runs -> Seq({0, 1})]
        /\ \A r \in Runs : Len(worker_array[r]) = Len(worker_busy[r])
    <3>1. <<>> \in Seq(Workers \cup {Free, Failed}) /\ <<>> \in Seq({0, 1})
          OBVIOUS
    <3> QED
        BY <3>1 DEF Init
  <2>8. served \in 0 .. MaxServed /\ clean \in BOOLEAN
        BY DEF Init
  <2> QED
      BY <2>2, <2>3, <2>4, <2>5, <2>6, <2>7, <2>8 DEF TypeOK
<1>2. \A r \in Runs : main[r] = "none"
      BY DEF Init
<1>3. RunsInv /\ ServedInv
      BY <1>2 DEF RunsInv, ServedInv
<1>4. OpenInv
  <2>1. Nothing.shm = 0 /\ Nothing.sem = 0
        BY DEF Nothing
  <2> QED
      BY <2>1 DEF Init, OpenInv, Using, Alive
<1>5. SemInv
  <2>1. \A s \in Runs : Inside(s) = {}
        BY <1>2 DEF Init, Inside
  <2>2. \A r \in Runs : manager[r].at = "idle"
        BY DEF Init, Manager
  <2> QED
      BY <2>1, <2>2 DEF SemInv, Excluded
<1>6. ForkInv
  <2>1. ASSUME NEW r \in Runs PROVE ForkAt(r)
    <3>1. {w \in Workers : w[1] = r /\ worker[w] # "none"} = {}
          BY DEF Init
    <3>2. Forked(r) = 0
          BY <3>1, FS_EmptySet DEF Forked
    <3>3. \A i \in 1 .. MaxPrefork : worker[<<r, i>>] = "none"
          BY Processes DEF Init
    <3> QED
        BY <1>2, <3>2, <3>3 DEF ForkAt, Alive
  <2> QED
      BY <2>1 DEF ForkInv
<1>7. WorkersRegistered
      BY <1>2 DEF WorkersRegistered, Alive
<1> QED
    BY <1>1, <1>3, <1>4, <1>5, <1>6, <1>7 DEF IInv

\* The invariant holds in every state of every sequence of runs.
THEOREM Invariance == Spec => []IInv
<1>1. ASSUME IInv, [Next]_vars PROVE IInv'
  <2>1. TypeOK /\ RunsInv /\ OpenInv /\ SemInv /\ ServedInv /\ ForkInv /\ WorkersRegistered
        BY <1>1 DEF IInv
  <2>2. RunsInv'
        BY <1>1, <2>1, RunsStep
  <2>3. OpenInv'
        BY <1>1, <2>1, OpenStep
  <2>4. SemInv'
        BY <1>1, <2>1, SemStep
  <2>5. ServedInv'
        BY <1>1, <2>1, ServedStep
  <2>6. ForkInv'
        BY <1>1, <2>1, ForkStep
  <2>7. WorkersRegistered'
        BY <1>1, <2>1, RegisteredStep
  <2>8. TypeOK'
        BY <1>1, <2>1, TypeStep
  <2> QED
      BY <2>2, <2>3, <2>4, <2>5, <2>6, <2>7, <2>8 DEF IInv
<1> QED
    BY InitInv, <1>1, PTL DEF Spec

\* main, do_prefork, thread_pool_loop, start_worker: the processes of all runs and the two
\* objects they share stay in the states of the model; the semaphore is 0 or 1.
THEOREM TypeCorrect == Spec => []TypeOK
<1>1. IInv => TypeOK
      BY DEF IInv
<1> QED
    BY <1>1, Invariance, PTL

\* init_shm, sem_wait, sem_post: however many runs share a semaphore, one process at a time
\* is inside of the sections it guards.
THEOREM Exclusion == Spec => []SemaphoreExcludes
<1>1. ASSUME IInv PROVE SemaphoreExcludes
  <2> SUFFICES ASSUME NEW s \in Runs PROVE sem[s] + Cardinality(Inside(s)) <= 1
      BY DEF SemaphoreExcludes
  <2>1. Excluded(s) /\ sem[s] \in {0, 1}
        BY <1>1 DEF IInv, SemInv, TypeOK
  <2>2. CASE Inside(s) = {}
    <3>1. Cardinality(Inside(s)) = 0
          BY <2>2, FS_EmptySet
    <3> QED
        BY <2>1, <3>1
  <2>3. CASE Inside(s) # {}
    <3>1. PICK p : Inside(s) = {p}
          BY <2>1, <2>3 DEF Excluded
    <3>2. Cardinality(Inside(s)) = 1
          BY <3>1, FS_Singleton
    <3>3. sem[s] = 0
          BY <2>1, <2>3 DEF Excluded
    <3> QED
        BY <3>2, <3>3
  <2> QED
      BY <2>2, <2>3
<1> QED
    BY <1>1, Invariance, PTL

\* do_prefork: the array of a living main holds the workers it has forked, in their order.
THEOREM Registration == Spec => []WorkersRegistered
<1>1. IInv => WorkersRegistered
      BY DEF IInv
<1> QED
    BY <1>1, Invariance, PTL

\* count_server, parse_line, init_scheduler: the pool of a living run holds every server of
\* its file, each at its place, whatever lines and comments the file has besides.
THEOREM ServersKept == Spec => []NoServerLeftOut
<1>1. Init => NoServerLeftOut
  <2> SUFFICES ASSUME Init PROVE NoServerLeftOut
      OBVIOUS
  <2>1. \A r \in Runs : main[r] = "none"
        BY DEF Init
  <2> QED
      BY <2>1 DEF NoServerLeftOut, Alive
<1> QED
    BY <1>1, ServersStep, Invariance, PTL DEF Spec

\* start_worker: a flag of a living run is taken down by the worker it stands for, at the
\* end of its connection, by no orphan of another run and by no new run.
THEOREM FlagTakenDownByItsWorker == Spec => BusyEndsWithItsWorker
<1> DEFINE Rightly(r) ==
      LET shm == attached[Main(r)].shm IN
      main[r] = "accepting" =>
          \A i \in DOMAIN worker_busy[shm] :
              worker_busy[shm][i] = 1 /\ worker_busy'[shm][i] = 0 =>
                  \E w \in Workers : /\ worker_array[shm][i] = w
                                    /\ worker[w] = "ending" /\ worker'[w] = "idle"
<1>1. ASSUME IInv, Next PROVE \A r \in Runs : Rightly(r)
  <2> SUFFICES ASSUME NEW r \in Runs, main[r] = "accepting", NEW t, t = attached[Main(r)].shm,
                      NEW i \in DOMAIN worker_busy[t],
                      worker_busy[t][i] = 1, worker_busy'[t][i] = 0
               PROVE  \E w \in Workers : /\ worker_array[t][i] = w
                                        /\ worker[w] = "ending" /\ worker'[w] = "idle"
      OBVIOUS
  <2>1. /\ worker_busy \in [Runs -> Seq({0, 1})] /\ worker \in [Workers -> WorkerPCs]
        BY <1>1, Types DEF IInv, TypeOK
  <2>2. t \in Runs
        BY <1>1 DEF IInv, OpenInv, Alive
  <2>3. worker_busy' # worker_busy
        BY <2>1, <2>2
  <2>4. ASSUME NEW q \in Runs, InitShm(q) PROVE FALSE
    <3>1. main[q] = "prefork"
          BY <2>4 DEF InitShm
    <3>2. q = r
          BY <1>1, <3>1, OneAlive DEF IInv, Alive
    <3> QED
        BY <3>1, <3>2
  <2>5. ASSUME NEW q \in Runs, PickWorker(q) PROVE FALSE
    <3>1. PICK k : worker_busy' = [worker_busy EXCEPT ![attached[Main(q)].shm][k] = 1]
          BY <2>3, <2>5 DEF PickWorker
    <3>2. PICK u : u = attached[Main(q)].shm
          OBVIOUS
    <3>3. worker_busy'[t] = worker_busy[t] \/ worker_busy'[t] = [worker_busy[t] EXCEPT ![k] = 1]
          BY <2>1, <2>2, <3>1, <3>2
    <3> QED
        BY <3>3
  <2>6. ASSUME NEW w \in Workers, EndConnection(w)
        PROVE  worker_array[t][i] = w /\ worker[w] = "ending" /\ worker'[w] = "idle"
    <3>1. worker[w] = "ending" /\ worker'[w] = "idle"
          BY <2>1, <2>6 DEF EndConnection
    <3>2. PICK u : u = attached[w].shm
          OBVIOUS
    <3>3. worker_busy' = [worker_busy EXCEPT ![u] =
                            [j \in DOMAIN worker_busy[u] |->
                               IF j \in 1 .. number_of_worker(w[1]) /\ worker_array[u][j] = w
                               THEN 0 ELSE worker_busy[u][j]]]
          BY <2>6, <3>2 DEF EndConnection
    <3>4. t = u
          BY <2>1, <2>2, <3>3
    <3>5. worker_busy'[t][i] = IF i \in 1 .. number_of_worker(w[1]) /\ worker_array[t][i] = w
                               THEN 0 ELSE worker_busy[t][i]
          BY <2>1, <2>2, <3>3, <3>4
    <3> QED
        BY <3>1, <3>5
  <2>7. \/ \E q \in Runs : InitShm(q) \/ PickWorker(q)
        \/ \E w \in Workers : EndConnection(w)
    <3>1. ASSUME NEW q \in Runs, Start(q) PROVE FALSE
          BY <2>3, <3>1, StartIs DEF shmVars
    <3> QED
        BY <1>1, <2>3, <3>1 DEF Next, MainStep, Fork, RegisterWait, Register, HandleSignal, Listen,
             InitPoolFails, ManagerWait, SendFd, Cleaning, Kill, StartWorker, EndWait,
             FollowBadPointer, shmVars
  <2> QED
      BY <2>4, <2>5, <2>6, <2>7
<1>2. Spec => [][\A r \in Runs : Rightly(r)]_vars
  <2>1. IInv /\ [Next]_vars => [\A r \in Runs : Rightly(r)]_vars
        BY <1>1
  <2> HIDE DEF Rightly
  <2> QED
      BY <2>1, Invariance, PTL DEF Spec
<1> QED
    BY <1>2 DEF BusyEndsWithItsWorker
=============================================================================
