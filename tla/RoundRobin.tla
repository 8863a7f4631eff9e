----------------------------- MODULE RoundRobin -----------------------------
(***************************************************************************)
(* The scheduler: a weighted round robin over a circular buffer, used by   *)
(* the pool manager thread and rebuilt by the update thread of the         *)
(* state-aware policy.                                                     *)
(*                                                                         *)
(* The manager calls get_server, which walks the buffer under its mutex    *)
(* until it finds a READY server.  From time to time the updater asks      *)
(* every server for its status page, which StatusPage reads, turns it into *)
(* a weight, frees the buffer, computes the new pattern and installs it    *)
(* under the mutex.                                                        *)
(*                                                                         *)
(* A read of a buffer that has been freed returns anything.  pool belongs  *)
(* to the updater alone, so the scoring of one server is one action; the   *)
(* effects of weight_servers are one action too, and a loop of its that    *)
(* never ends is a state the updater does not leave.                       *)
(***************************************************************************)
EXTENDS Integers, Sequences, FiniteSets, StatusPage

CONSTANTS N,            \* total_server in server_config.conf
          StatusPages,  \* what servers may answer: [idle, busy, text]; idle is -1 if the
                        \* text does not give it
          Garbage,      \* the server found in a freed entry, whatever it is
          MaxPicks,     \* bound: calls of get_server
          MaxUpdates    \* bound: rounds of the updater

WEIGHT_DEFAULT == 1
WEIGHT_MAXIMUM == 5

ASSUME RoundRobinAssumption ==
    /\ N \in Nat \ {0}
    /\ \A page \in StatusPages :
          /\ page.idle \in Int /\ page.busy \in Int /\ page.text \in Text
          /\ LET blank == BlankLine(page.text)
             IN  blank # 0 => IsStatus(BehindBlank(page.text, blank), page.idle, page.busy)
    /\ Garbage \notin 1 .. N
    /\ MaxPicks \in Nat /\ MaxUpdates \in Nat

Servers == 1 .. N
Status  == {"READY", "BROKEN"}
Entries == [server : Servers, status : Status]
Freed   == [server : {Garbage}, status : Status]

VARIABLES
    pool,             \* server_pool: the weight and the status of each server
    buffer,           \* circular->buffer (buffer_len is its length)
    freed,            \* its memory has been freed
    buffer_position, head, tail,   \* from 0, as in the code
    mutex,            \* who holds circular->mutex
    mpc, ready, not_available,     \* get_server: where it is, its local variables
    upc, node, proceed, w_servers, \* update_server_routine: the same
    calls, updates,   \* counters for the two bounds
    picks,            \* history: how often each server was returned before an update
    touched,          \* history: this scan has read freed memory
    synced            \* history: head was at buffer_position when this scan began

circularVars == <<buffer, freed, buffer_position, head, tail>>
managerVars  == <<mpc, ready, not_available, calls, picks, touched, synced>>
updaterVars  == <<pool, upc, node, proceed, w_servers, updates>>
vars == <<circularVars, mutex, managerVars, updaterVars>>
-----------------------------------------------------------------------------
(* The pattern                                                               *)

\* Division in C: towards zero.
Abs(n) == IF n < 0 THEN -n ELSE n
Quotient(a, b) ==
    LET q == Abs(a) \div Abs(b) IN IF (a < 0) = (b < 0) THEN q ELSE -q

\* apache_score's formula; total is not WEIGHT_DEFAULT.
Score(idle, total) ==
    Quotient((idle - WEIGHT_DEFAULT) * (WEIGHT_MAXIMUM - WEIGHT_DEFAULT), total - WEIGHT_DEFAULT)
        + WEIGHT_DEFAULT

\* The inner loop of weight_servers' sort: the least of a[i .. n] comes to i.
Swap(a, i, j) == IF a[i].weight > a[j].weight THEN [a EXCEPT ![i] = a[j], ![j] = a[i]] ELSE a

Bubble(a, i) ==
    LET loop[j \in i .. N] == IF j = i THEN a ELSE Swap(loop[j - 1], i, j)
    IN  loop[N]

\* Its outer loop, which adds up weights as it sorts: at step i it adds the weight
\* of the server that is at i before the inner loop moves another one there.
SortStep(r, i) == [servers |-> Bubble(r.servers, i), sum |-> r.sum + r.servers[i].weight]

Sort(a) ==
    LET loop[i \in 0 .. N - 1] ==
          IF i = 0 THEN [servers |-> a, sum |-> 0] ELSE SortStep(loop[i - 1], i)
    IN  loop[N - 1]

Sorted(p) == Sort([s \in Servers |-> [server |-> s, weight |-> p[s].weight, status |-> p[s].status]])

\* What weight_servers allocates for and counts up to.
WeightSum(p) == LET r == Sorted(p) IN r.sum + r.servers[N].weight

\* Each pass over the sorted servers takes every one that has weight left.  A pass
\* that takes one copies it and uses up one of its weight.
TakeAlways(taken, server, r) == IF server.weight > 0 THEN Append(taken, server) ELSE taken
Take(taken, server, r) == IF server.weight >= r THEN Append(taken, server) ELSE taken

Pass(servers, r) ==
    LET loop[s \in 0 .. N] == IF s = 0 THEN <<>> ELSE Take(loop[s - 1], servers[s], r)
    IN  loop[N]

Passes(servers) ==
    LET loop[r \in 0 .. WEIGHT_MAXIMUM] == IF r = 0 THEN <<>> ELSE loop[r - 1] \o Pass(servers, r)
    IN  loop[WEIGHT_MAXIMUM]

\* The pattern, once its loop ends: the first WeightSum entries of the passes.
Pattern(p) ==
    LET all == Passes(Sorted(p).servers) IN
    [i \in 1 .. WeightSum(p) |-> [server |-> all[i].server, status |-> all[i].status]]

\* The loop ends when it has taken WeightSum entries, which there may never be.
PatternEnds(p) == WeightSum(p) \in 1 .. Len(Passes(Sorted(p).servers))
-----------------------------------------------------------------------------
\* init_scheduler: every server READY with the least weight, and a first reset.
\* ready is not initialised before get_server sets it.
Init ==
    /\ pool = [s \in Servers |-> [weight |-> WEIGHT_DEFAULT, status |-> "READY"]]
    /\ buffer = Pattern(pool)
    /\ freed = FALSE
    /\ buffer_position = 0
    /\ head = 0 /\ tail = Len(buffer) - 1
    /\ mutex = "none"
    /\ mpc = "idle" /\ ready = buffer[1] /\ not_available = 0
    /\ upc = "sleep" /\ node = 1 /\ proceed = 0 /\ w_servers = <<>>
    /\ calls = 0 /\ updates = 0
    /\ picks = [s \in Servers |-> 0]
    /\ touched = FALSE /\ synced = TRUE
-----------------------------------------------------------------------------
(* The manager: get_server                                                   *)

\* progress.
ProgressStuck ==
    /\ tail' = head
    /\ UNCHANGED <<buffer_position, head>>

ProgressNoWrap ==
    /\ tail' = head
    /\ buffer_position' = IF buffer_position = Len(buffer) THEN 0 ELSE buffer_position + 1
    /\ head' = buffer_position'

Progress ==
    /\ tail' = head
    /\ buffer_position' = (buffer_position + 1) % Len(buffer)
    /\ head' = buffer_position'

\* *server_ready = *(circular->tail)
ReadTail == ready' \in IF freed THEN Freed ELSE {buffer[tail' + 1]}

\* acquire, one step forward, and a first look.
GetServer ==
    /\ upc # "killed"
    /\ mpc = "idle" /\ calls < MaxPicks
    /\ mutex = "none" /\ mutex' = "manager"
    /\ mpc' = "scan" /\ not_available' = 0 /\ calls' = calls + 1
    /\ Progress /\ ReadTail
    /\ touched' = freed
    /\ synced' = (head = buffer_position)
    /\ UNCHANGED <<buffer, freed, picks, updaterVars>>

\* The server is READY: release, and return it.
TakeServer ==
    /\ upc # "killed"
    /\ mpc = "scan" /\ ready.status = "READY"
    /\ mpc' = "idle" /\ mutex' = "none"
    /\ picks' = IF updates = 0 THEN [picks EXCEPT ![ready.server] = @ + 1] ELSE picks
    /\ UNCHANGED <<circularVars, ready, not_available, calls, touched, synced, updaterVars>>

\* It is not: step on.
NextServer ==
    /\ upc # "killed"
    /\ mpc = "scan" /\ ready.status # "READY"
    /\ not_available + 1 # Len(buffer)
    /\ not_available' = not_available + 1
    /\ Progress /\ ReadTail
    /\ touched' = (touched \/ freed)
    /\ UNCHANGED <<buffer, freed, mutex, mpc, calls, picks, synced, updaterVars>>

\* As many steps as there are entries: what is there now is not looked at any more,
\* and whichever server it is is returned as BROKEN.
GiveUpEarly ==
    /\ upc # "killed"
    /\ mpc = "scan" /\ ready.status # "READY"
    /\ ready' = [ready EXCEPT !.status = "BROKEN"]
    /\ mpc' = "idle" /\ mutex' = "none"
    /\ UNCHANGED <<circularVars, not_available, calls, picks, touched, synced, updaterVars>>

GiveUp ==
    /\ upc # "killed"
    /\ mpc = "scan" /\ ready.status # "READY"
    /\ not_available + 1 = Len(buffer)
    /\ not_available' = not_available + 1
    /\ Progress
    /\ ready' \in {[r EXCEPT !.status = "BROKEN"] :
                     r \in IF freed THEN Freed ELSE {buffer[tail' + 1]}}
    /\ touched' = (touched \/ freed)
    /\ mpc' = "idle" /\ mutex' = "none"
    /\ UNCHANGED <<buffer, freed, calls, picks, synced, updaterVars>>
-----------------------------------------------------------------------------
(* The updater: update_server_routine                                        *)

\* up_time has passed.
StartUpdate ==
    /\ upc = "sleep" /\ updates < MaxUpdates
    /\ upc' = "score" /\ node' = 1 /\ proceed' = 0
    /\ updates' = updates + 1
    /\ UNCHANGED <<circularVars, mutex, managerVars, pool, w_servers>>

\* apache_score returned for this node: on to the next one, or, once all have been
\* asked, to the reset, unless a server that is up could not be scored.
Scored ==
    /\ IF node < N THEN node' = node + 1 /\ upc' = "score"
                   ELSE node' = node /\ upc' = IF proceed' = 0 THEN "free" ELSE "sleep"
    /\ UNCHANGED <<circularVars, mutex, managerVars, w_servers, updates>>

\* No answer: the server is BROKEN.
ScoreDown ==
    /\ upc = "score"
    /\ pool' = [pool EXCEPT ![node] = [weight |-> WEIGHT_DEFAULT, status |-> "BROKEN"]]
    /\ UNCHANGED proceed
    /\ Scored

\* What the pages of the servers come to.
Retrieved == UNION {Reports(page.text) : page \in StatusPages}

\* A page that does not parse: the server is READY, and the round is void.
ScoreUnreadable ==
    /\ upc = "score"
    /\ \E page \in Retrieved : page.end = "error"
    /\ pool' = [pool EXCEPT ![node].status = "READY"]
    /\ proceed' = proceed - 1
    /\ Scored

\* A page without the number of idle workers leaves the weight as it is; any other
\* page sets it.
ScorePage ==
    /\ upc = "score"
    /\ \E page \in Retrieved :
         LET total == page.idle + page.busy IN
         /\ page.end = "ok"
         /\ page.idle < 0 \/ total # WEIGHT_DEFAULT
         /\ pool' = [pool EXCEPT ![node] =
                        [weight |-> IF page.idle < 0 THEN @.weight ELSE Score(page.idle, total),
                         status |-> "READY"]]
    /\ UNCHANGED proceed
    /\ Scored

\* A page that breaks off in its head or has a line without a colon, or a server with
\* one worker in all (a division by zero): fatal to the process.
ScoreKills ==
    /\ upc = "score"
    /\ \E page \in Retrieved :
         \/ page.end = "crash"
         \/ page.end = "ok" /\ page.idle >= 0 /\ page.idle + page.busy = WEIGHT_DEFAULT
    /\ upc' = "killed"
    /\ UNCHANGED <<circularVars, mutex, managerVars, pool, node, proceed, w_servers, updates>>

\* reset_servers frees the buffer first, without the mutex.
FreeBuffer ==
    /\ upc = "free"
    /\ freed' = TRUE
    /\ upc' = "weigh"
    /\ UNCHANGED <<buffer, buffer_position, head, tail, mutex, managerVars, pool, node, proceed,
                   w_servers, updates>>

\* weight_servers: the pattern is built, or its loop never ends, or malloc is asked
\* for a negative number of entries and the updater returns for good.
WeighServers ==
    /\ upc = "weigh"
    /\ IF PatternEnds(pool) THEN w_servers' = Pattern(pool) /\ upc' = "allocate"
                            ELSE /\ UNCHANGED w_servers
                                 /\ upc' = IF WeightSum(pool) < 0 THEN "returned" ELSE "spin"
    /\ UNCHANGED <<circularVars, mutex, managerVars, pool, node, proceed, updates>>

\* allocate_buffer, from acquire to release.  buffer_position stays where it is.
AllocateUnlocked ==
    /\ upc = "allocate"
    /\ buffer' = w_servers /\ freed' = FALSE
    /\ head' = 0 /\ tail' = Len(w_servers) - 1
    /\ w_servers' = <<>>
    /\ upc' = "sleep"
    /\ UNCHANGED <<buffer_position, mutex, managerVars, pool, node, proceed, updates>>

AllocateBuffer ==
    /\ upc = "allocate"
    /\ mutex = "none"
    /\ buffer' = w_servers /\ freed' = FALSE
    /\ head' = 0 /\ tail' = Len(w_servers) - 1
    /\ w_servers' = <<>>
    /\ upc' = "sleep"
    /\ UNCHANGED <<buffer_position, mutex, managerVars, pool, node, proceed, updates>>
-----------------------------------------------------------------------------
Manager == GetServer \/ TakeServer \/ NextServer \/ GiveUp

Updater == \/ StartUpdate \/ ScoreDown \/ ScoreUnreadable \/ ScorePage \/ ScoreKills
           \/ FreeBuffer \/ WeighServers \/ AllocateBuffer

Next == Manager \/ Updater
Spec == Init /\ [][Next]_vars

\* Both threads keep running.  The mutex is free again and again, because the
\* manager takes it once for each connection, and the updater gets it one day.
FairSpec == /\ Spec
            /\ WF_vars(TakeServer \/ NextServer \/ GiveUp)
            /\ WF_vars(Updater)
            /\ SF_vars(AllocateBuffer)
-----------------------------------------------------------------------------
(* What the scheduler keeps true                                             *)

TypeOK ==
    /\ pool \in [Servers -> [weight : Int, status : Status]]
    /\ buffer \in Seq(Entries) /\ buffer # <<>>
    /\ freed \in BOOLEAN
    /\ buffer_position \in Nat
    /\ head \in 0 .. Len(buffer) - 1 /\ tail \in 0 .. Len(buffer) - 1
    /\ mutex \in {"none", "manager"}
    /\ mpc \in {"idle", "scan"} /\ ready \in Entries \cup Freed /\ not_available \in Nat
    /\ mpc = "scan" => not_available < Len(buffer)
    /\ upc \in {"sleep", "score", "free", "weigh", "allocate", "spin", "returned", "killed"}
    /\ node \in Servers /\ proceed \in -N .. 0
    /\ w_servers \in Seq(Entries)
    /\ calls \in 0 .. MaxPicks /\ updates \in 0 .. MaxUpdates
    /\ picks \in [Servers -> Nat]
    /\ touched \in BOOLEAN /\ synced \in BOOLEAN

\* get_server, progress: until the first update, with every server READY and of the
\* same weight, no server is given two connections more than another.
UniformLoad == \A s, t \in Servers : picks[s] - picks[t] <= 1

\* receive_http, parse_apache_status: a weight is the least one or the score of a page
\* that a server has, never of the part of a page that has come.
WeightsAreServed ==
    \A s \in Servers :
        pool[s].weight \in {WEIGHT_DEFAULT}
            \cup {Score(page.idle, page.idle + page.busy) :
                     page \in {p \in StatusPages : p.idle >= 0 /\ p.idle + p.busy # WEIGHT_DEFAULT}}

\* weight_servers: with weights that are not negative, a pattern it finishes holds each
\* server as often as its weight says, with the status the server was found in: a sum
\* that comes out wrong hangs the loop, and never cuts the pattern short.
PatternFollowsWeights ==
    upc = "allocate" /\ (\A s \in Servers : pool[s].weight \in 0 .. WEIGHT_MAXIMUM) =>
        \A s \in Servers :
            LET places == {i \in DOMAIN w_servers : w_servers[i].server = s} IN
            /\ Cardinality(places) = pool[s].weight
            /\ \A i \in places : w_servers[i].status = pool[s].status

\* allocate_buffer, acquire, release: the buffer that a scan walks stays the one it
\* began with, whatever the updater does meanwhile.
ScanKeepsBuffer == [][mpc = "scan" => buffer' = buffer]_vars

\* get_server returns a server as BROKEN.
ReturnsBroken == mpc = "scan" /\ mpc' = "idle" /\ ready'.status = "BROKEN"
AllDown       == \A i \in DOMAIN buffer : buffer[i].status = "BROKEN"

\* A scan that began where buffer_position says, and that did not run into a reset,
\* gives up only when no server in the buffer is READY.
SyncedScanIsComplete == [][ReturnsBroken /\ synced /\ ~touched' => AllDown]_vars

\* The weights are refreshed once in every up_time: a round that begins ends, if it does
\* not end the process.
UpdateEnds == upc = "score" ~> upc \in {"sleep", "killed"}
=============================================================================
