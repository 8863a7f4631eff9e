-------------------------- MODULE RoundRobinProofs --------------------------
(***************************************************************************)
(* What the scheduler keeps true, for every number of servers and every    *)
(* status page they may answer with.                                       *)
(***************************************************************************)
EXTENDS RoundRobin, StatusPageProofs, FiniteSetTheorems

\* What weight_servers sorts.
Weighed == [server : Servers, weight : Int, status : Status]
Tables  == [Servers -> Weighed]
Pools   == [Servers -> [weight : Int, status : Status]]
-----------------------------------------------------------------------------
(* The pattern                                                             *)

LEMMA Size == N \in Nat /\ N >= 1 /\ Servers = 1 .. N
BY RoundRobinAssumption DEF Servers

\* A set of tables that no exchange leaves is one that the inner loop does not leave.
LEMMA BubbleKeeps ==
    ASSUME NEW X, NEW a \in X, NEW i \in Servers,
           \A b \in X : \A j \in i .. N : Swap(b, i, j) \in X
    PROVE  Bubble(a, i) \in X
<1> USE Size
<1> DEFINE Is(h) == h = [j \in i .. N |-> IF j = i THEN a ELSE Swap(h[j - 1], i, j)]
           step == [j \in i .. N |-> [b \in X |-> Swap(b, i, j)]]
           XX == [j \in i - 1 .. N |-> X]
<1>1. Bubble(a, i) = (CHOOSE h : Is(h))[N]
      BY DEF Bubble
<1>2. \E h : Is(h)
  <2>1. a \in XX[i] /\ i \in Int /\ N \in Int
        OBVIOUS
  <2>2. \A j \in i .. N : j # i => \A x \in XX[j - 1] : step[j][x] \in XX[j]
        OBVIOUS
  <2> HIDE DEF step, XX
  <2>3. PICK f : \A j \in i .. N : /\ f[j] = IF j = i THEN a ELSE step[j][f[j - 1]]
                                  /\ f[j] \in XX[j]
    <3>1. States(i, N, XX, a, step)
          BY <2>1, <2>2, Loop DEF Stays
    <3> QED
        BY <3>1 DEF States
  <2>4. \A j \in i .. N : j # i => step[j][f[j - 1]] = Swap(f[j - 1], i, j)
    <3>1. \A j \in i .. N : j # i => j - 1 \in i .. N
          OBVIOUS
    <3>2. \A j \in i .. N : f[j] \in X
          BY <2>3 DEF XX
    <3> QED
        BY <3>1, <3>2 DEF step
  <2> DEFINE g == [j \in i .. N |-> f[j]]
  <2>5. \A j \in i .. N : f[j] = IF j = i THEN a ELSE Swap(g[j - 1], i, j)
        BY <2>3, <2>4
  <2>6. Is(g)
        BY <2>5
  <2> QED
      BY <2>6
<1>3. ASSUME NEW h, Is(h) PROVE h[N] \in X
  <2> DEFINE P == {j \in i .. N : h[j] \in X}
  <2>1. i \in P
        BY <1>3
  <2>2. \A j \in i .. N : j # i /\ j - 1 \in P => j \in P
        BY <1>3
  <2>3. i \in Int /\ N \in Int /\ N \in i .. N
        OBVIOUS
  <2> HIDE DEF P
  <2>4. N \in P
        BY <2>1, <2>2, <2>3, Induct
  <2> QED
      BY <2>4 DEF P
<1> HIDE DEF Is
<1> QED
    BY <1>1, <1>2, <1>3

\* What the steps of the outer loop keep, each in its place.
LEMMA SortKeeps ==
    ASSUME NEW X, NEW a, [servers |-> a, sum |-> 0] \in X[0],
           \A i \in 1 .. N - 1 : \A x \in X[i - 1] : SortStep(x, i) \in X[i]
    PROVE  Sort(a) \in X[N - 1]
<1> USE Size
<1> DEFINE Is(h) == h = [i \in 0 .. N - 1 |-> IF i = 0 THEN [servers |-> a, sum |-> 0] ELSE SortStep(h[i - 1], i)]
           step == [i \in 0 .. N - 1 |-> [x \in X[i - 1] |-> SortStep(x, i)]]
<1>1. Sort(a) = (CHOOSE h : Is(h))[N - 1]
      BY DEF Sort
<1>2. \E h : Is(h)
  <2>1. [servers |-> a, sum |-> 0] \in X[0] /\ 0 \in Int /\ N - 1 \in Int
        OBVIOUS
  <2>2. \A i \in 0 .. N - 1 : i # 0 => \A x \in X[i - 1] : step[i][x] = SortStep(x, i)
        OBVIOUS
  <2>3. \A i \in 0 .. N - 1 : i # 0 => \A x \in X[i - 1] : step[i][x] \in X[i]
        BY <2>2
  <2> HIDE DEF step
  <2>4. PICK f : \A i \in 0 .. N - 1 : /\ f[i] = IF i = 0 THEN [servers |-> a, sum |-> 0] ELSE step[i][f[i - 1]]
                                  /\ f[i] \in X[i]
    <3>1. States(0, N - 1, X, [servers |-> a, sum |-> 0], step)
          BY <2>1, <2>3, Loop DEF Stays
    <3> QED
        BY <3>1 DEF States
  <2> DEFINE g == [i \in 0 .. N - 1 |-> f[i]]
  <2>5. \A i \in 0 .. N - 1 : i # 0 => i - 1 \in 0 .. N - 1 /\ i \in 1 .. N - 1
        OBVIOUS
  <2>6. \A i \in 0 .. N - 1 : f[i] = IF i = 0 THEN [servers |-> a, sum |-> 0] ELSE SortStep(g[i - 1], i)
        BY <2>2, <2>4, <2>5
  <2>7. Is(g)
        BY <2>6
  <2> QED
      BY <2>7
<1>3. ASSUME NEW h, Is(h) PROVE h[N - 1] \in X[N - 1]
  <2> DEFINE P == {i \in 0 .. N - 1 : h[i] \in X[i]}
  <2>1. 0 \in P
        BY <1>3
  <2>2. \A i \in 0 .. N - 1 : i # 0 /\ i - 1 \in P => i \in P
        BY <1>3
  <2>3. 0 \in Int /\ N - 1 \in Int /\ N - 1 \in 0 .. N - 1
        OBVIOUS
  <2> HIDE DEF P
  <2>4. N - 1 \in P
        BY <2>1, <2>2, <2>3, Induct
  <2> QED
      BY <2>4 DEF P
<1> HIDE DEF Is
<1> QED
    BY <1>1, <1>2, <1>3

\* The same for one pass over the servers.
LEMMA PassKeeps ==
    ASSUME NEW X, NEW servers, NEW r, <<>> \in X[0],
           \A s \in 1 .. N : \A x \in X[s - 1] : Take(x, servers[s], r) \in X[s]
    PROVE  Pass(servers, r) \in X[N]
<1> USE Size
<1> DEFINE Is(h) == h = [s \in 0 .. N |-> IF s = 0 THEN <<>> ELSE Take(h[s - 1], servers[s], r)]
           step == [s \in 0 .. N |-> [x \in X[s - 1] |-> Take(x, servers[s], r)]]
<1>1. Pass(servers, r) = (CHOOSE h : Is(h))[N]
      BY DEF Pass
<1>2. \E h : Is(h)
  <2>1. <<>> \in X[0] /\ 0 \in Int /\ N \in Int
        OBVIOUS
  <2>2. \A s \in 0 .. N : s # 0 => \A x \in X[s - 1] : step[s][x] = Take(x, servers[s], r)
        OBVIOUS
  <2>3. \A s \in 0 .. N : s # 0 => \A x \in X[s - 1] : step[s][x] \in X[s]
        BY <2>2
  <2> HIDE DEF step
  <2>4. PICK f : \A s \in 0 .. N : /\ f[s] = IF s = 0 THEN <<>> ELSE step[s][f[s - 1]]
                                  /\ f[s] \in X[s]
    <3>1. States(0, N, X, <<>>, step)
          BY <2>1, <2>3, Loop DEF Stays
    <3> QED
        BY <3>1 DEF States
  <2> DEFINE g == [s \in 0 .. N |-> f[s]]
  <2>5. \A s \in 0 .. N : s # 0 => s - 1 \in 0 .. N /\ s \in 1 .. N
        OBVIOUS
  <2>6. \A s \in 0 .. N : f[s] = IF s = 0 THEN <<>> ELSE Take(g[s - 1], servers[s], r)
        BY <2>2, <2>4, <2>5
  <2>7. Is(g)
        BY <2>6
  <2> QED
      BY <2>7
<1>3. ASSUME NEW h, Is(h) PROVE h[N] \in X[N]
  <2> DEFINE P == {s \in 0 .. N : h[s] \in X[s]}
  <2>1. 0 \in P
        BY <1>3
  <2>2. \A s \in 0 .. N : s # 0 /\ s - 1 \in P => s \in P
        BY <1>3
  <2>3. 0 \in Int /\ N \in Int /\ N \in 0 .. N
        OBVIOUS
  <2> HIDE DEF P
  <2>4. N \in P
        BY <2>1, <2>2, <2>3, Induct
  <2> QED
      BY <2>4 DEF P
<1> HIDE DEF Is
<1> QED
    BY <1>1, <1>2, <1>3

\* The same for the passes.
LEMMA PassesKeep ==
    ASSUME NEW X, NEW servers, <<>> \in X[0],
           \A r \in 1 .. WEIGHT_MAXIMUM : \A x \in X[r - 1] : (x \o Pass(servers, r)) \in X[r]
    PROVE  Passes(servers) \in X[WEIGHT_MAXIMUM]
<1> USE Size
<1> DEFINE Is(h) == h = [r \in 0 .. WEIGHT_MAXIMUM |-> IF r = 0 THEN <<>> ELSE (h[r - 1] \o Pass(servers, r))]
           step == [r \in 0 .. WEIGHT_MAXIMUM |-> [x \in X[r - 1] |-> (x \o Pass(servers, r))]]
<1>1. Passes(servers) = (CHOOSE h : Is(h))[WEIGHT_MAXIMUM]
      BY DEF Passes
<1>2. \E h : Is(h)
  <2>1. <<>> \in X[0] /\ 0 \in Int /\ WEIGHT_MAXIMUM \in Int
        BY DEF WEIGHT_MAXIMUM
  <2>2. \A r \in 0 .. WEIGHT_MAXIMUM : r # 0 => \A x \in X[r - 1] : step[r][x] = (x \o Pass(servers, r))
        BY DEF WEIGHT_MAXIMUM
  <2>3. \A r \in 0 .. WEIGHT_MAXIMUM : r # 0 => \A x \in X[r - 1] : step[r][x] \in X[r]
        BY <2>2
  <2> HIDE DEF step
  <2>4. PICK f : \A r \in 0 .. WEIGHT_MAXIMUM : /\ f[r] = IF r = 0 THEN <<>> ELSE step[r][f[r - 1]]
                                  /\ f[r] \in X[r]
    <3>1. States(0, WEIGHT_MAXIMUM, X, <<>>, step)
          BY <2>1, <2>3, Loop DEF Stays
    <3> QED
        BY <3>1 DEF States
  <2> DEFINE g == [r \in 0 .. WEIGHT_MAXIMUM |-> f[r]]
  <2>5. \A r \in 0 .. WEIGHT_MAXIMUM : r # 0 => r - 1 \in 0 .. WEIGHT_MAXIMUM /\ r \in 1 .. WEIGHT_MAXIMUM
        BY DEF WEIGHT_MAXIMUM
  <2>6. \A r \in 0 .. WEIGHT_MAXIMUM : f[r] = IF r = 0 THEN <<>> ELSE (g[r - 1] \o Pass(servers, r))
        BY <2>2, <2>4, <2>5
  <2>7. Is(g)
        BY <2>6
  <2> QED
      BY <2>7
<1>3. ASSUME NEW h, Is(h) PROVE h[WEIGHT_MAXIMUM] \in X[WEIGHT_MAXIMUM]
  <2> DEFINE P == {r \in 0 .. WEIGHT_MAXIMUM : h[r] \in X[r]}
  <2>1. 0 \in P
        BY <1>3 DEF WEIGHT_MAXIMUM
  <2>2. ASSUME NEW r \in 0 .. WEIGHT_MAXIMUM, r # 0, r - 1 \in P PROVE r \in P
    <3>1. r \in 1 .. WEIGHT_MAXIMUM /\ h[r - 1] \in X[r - 1]
          BY <2>2 DEF WEIGHT_MAXIMUM
    <3>2. h[r] = h[r - 1] \o Pass(servers, r)
          BY <1>3, <2>2
    <3> QED
        BY <3>1, <3>2
  <2>3. 0 \in Int /\ WEIGHT_MAXIMUM \in Int /\ WEIGHT_MAXIMUM \in 0 .. WEIGHT_MAXIMUM
        BY DEF WEIGHT_MAXIMUM
  <2> HIDE DEF P
  <2>4. WEIGHT_MAXIMUM \in P
        BY <2>1, <2>2, <2>3, Induct
  <2> QED
      BY <2>4 DEF P
<1> HIDE DEF Is
<1> QED
    BY <1>1, <1>2, <1>3

\* A set of tables that no exchange leaves is one that the sort does not leave.
LEMMA SwapTypes ==
    ASSUME NEW a \in Tables, NEW i \in Servers, NEW j \in i .. N
    PROVE  Swap(a, i, j) \in Tables
BY Size DEF Swap, Tables

LEMMA SortedTypes ==
    ASSUME NEW p \in Pools
    PROVE  Sorted(p).servers \in Tables /\ Sorted(p).sum \in Int
<1> USE Size
<1> DEFINE a == [s \in Servers |-> [server |-> s, weight |-> p[s].weight, status |-> p[s].status]]
           Sums == [servers : Tables, sum : Int]
           X == [i \in 0 .. N |-> Sums]
<1>1. a \in Tables
      BY DEF Pools, Tables, Weighed
<1>2. ASSUME NEW i \in 1 .. N - 1, NEW r \in Sums PROVE SortStep(r, i) \in Sums
  <2>1. i \in Servers /\ r.servers \in Tables /\ r.sum \in Int
        BY <1>2
  <2>2. Bubble(r.servers, i) \in Tables
        BY <2>1, SwapTypes, BubbleKeeps
  <2>3. r.servers[i].weight \in Int
        BY <2>1 DEF Tables, Weighed
  <2> QED
      BY <2>1, <2>2, <2>3 DEF SortStep
<1>3. [servers |-> a, sum |-> 0] \in X[0]
      BY <1>1
<1>4. \A i \in 1 .. N - 1 : \A r \in X[i - 1] : SortStep(r, i) \in X[i]
      BY <1>2
<1> HIDE DEF a
<1>5. X[N - 1] = Sums
  <2>1. N - 1 \in 0 .. N
        OBVIOUS
  <2> HIDE DEF Sums
  <2> QED
      BY <2>1
<1> HIDE DEF X
<1>6. Sort(a) \in X[N - 1]
      BY <1>3, <1>4, SortKeeps
<1>7. Sorted(p) = Sort(a)
      BY DEF Sorted, a
<1> QED
    BY <1>5, <1>6, <1>7

LEMMA PassTypes ==
    ASSUME NEW servers \in Tables, NEW r
    PROVE  Pass(servers, r) \in Seq(Weighed)
<1> USE Size
<1> DEFINE X == [s \in 0 .. N |-> Seq(Weighed)]
<1>1. ASSUME NEW s \in 1 .. N, NEW taken \in Seq(Weighed)
      PROVE  Take(taken, servers[s], r) \in Seq(Weighed)
  <2>1. servers[s] \in Weighed
        BY DEF Tables
  <2> QED
      BY <2>1 DEF Take
<1>2. <<>> \in X[0] /\ \A s \in 1 .. N : \A x \in X[s - 1] : Take(x, servers[s], r) \in X[s]
      BY <1>1
<1>3. X[N] = Seq(Weighed)
      OBVIOUS
<1> HIDE DEF X
<1>4. Pass(servers, r) \in X[N]
      BY <1>2, PassKeeps
<1> QED
    BY <1>3, <1>4

LEMMA PassesTypes ==
    ASSUME NEW servers \in Tables
    PROVE  Passes(servers) \in Seq(Weighed)
<1> DEFINE X == [r \in 0 .. WEIGHT_MAXIMUM |-> Seq(Weighed)]
<1>1. <<>> \in X[0]
      BY DEF WEIGHT_MAXIMUM
<1>2. ASSUME NEW r \in 1 .. WEIGHT_MAXIMUM, NEW x \in X[r - 1]
      PROVE  (x \o Pass(servers, r)) \in X[r]
  <2>1. x \in Seq(Weighed) /\ X[r] = Seq(Weighed)
        BY <1>2 DEF WEIGHT_MAXIMUM
  <2>2. Pass(servers, r) \in Seq(Weighed)
        BY PassTypes
  <2> QED
      BY <2>1, <2>2
<1>3. X[WEIGHT_MAXIMUM] = Seq(Weighed)
      BY DEF WEIGHT_MAXIMUM
<1> HIDE DEF X
<1>4. Passes(servers) \in X[WEIGHT_MAXIMUM]
      BY <1>1, <1>2, PassesKeep
<1> QED
    BY <1>3, <1>4

\* weight_servers: a pattern whose loop ends is a buffer with entries.
LEMMA PatternTypes ==
    ASSUME NEW p \in Pools, PatternEnds(p)
    PROVE  Pattern(p) \in Seq(Entries) /\ Pattern(p) # <<>> /\ Len(Pattern(p)) \in Nat \ {0}
<1> DEFINE all == Passes(Sorted(p).servers)
<1>1. all \in Seq(Weighed)
      BY SortedTypes, PassesTypes
<1>2. WeightSum(p) \in 1 .. Len(all)
      BY DEF PatternEnds
<1>3. Pattern(p) = [i \in 1 .. WeightSum(p) |-> [server |-> all[i].server, status |-> all[i].status]]
      BY DEF Pattern
<1> HIDE DEF all
<1>4. PICK n \in Nat \ {0} : n = WeightSum(p) /\ n <= Len(all)
      BY <1>1, <1>2
<1>5. ASSUME NEW i \in 1 .. n PROVE [server |-> all[i].server, status |-> all[i].status] \in Entries
  <2>1. all[i] \in Weighed
        BY <1>1, <1>4
  <2> QED
      BY <2>1 DEF Weighed, Entries
<1>6. Pattern(p) = [i \in 1 .. n |-> [server |-> all[i].server, status |-> all[i].status]]
      BY <1>3, <1>4
<1>7. Pattern(p) \in Seq(Entries) /\ Len(Pattern(p)) = n
      BY <1>5, <1>6
<1> QED
    BY <1>7

\* With every server READY and of the least weight, the pattern is one of each, in order.
AllUp == [s \in Servers |-> [weight |-> WEIGHT_DEFAULT, status |-> "READY"]]

LEMMA FirstPattern == Pattern(AllUp) = [s \in 1 .. N |-> [server |-> s, status |-> "READY"]]
<1> USE Size
<1> DEFINE a == [s \in Servers |-> [server |-> s, weight |-> WEIGHT_DEFAULT, status |-> "READY"]]
<1>1. a \in Tables /\ a \in Seq(Weighed) /\ Len(a) = N /\ AllUp \in Pools
      BY DEF Tables, Weighed, Pools, AllUp, Status, WEIGHT_DEFAULT
<1>2. Sorted(AllUp) = [servers |-> a, sum |-> N - 1]
  <2> DEFINE X == [i \in 0 .. N |-> {[servers |-> a, sum |-> i]}]
  <2>1. ASSUME NEW i \in Servers PROVE Bubble(a, i) = a
    <3>1. \A b \in {a} : \A j \in i .. N : Swap(b, i, j) \in {a}
          BY DEF Swap, WEIGHT_DEFAULT
    <3>2. Bubble(a, i) \in {a}
          BY <3>1, BubbleKeeps
    <3> QED
        BY <3>2
  <2>2. ASSUME NEW i \in 1 .. N - 1, NEW r \in X[i - 1] PROVE SortStep(r, i) \in X[i]
    <3>1. r = [servers |-> a, sum |-> i - 1] /\ i \in Servers
          BY <2>2
    <3>2. r.servers = a /\ r.sum = i - 1 /\ a[i].weight = 1 /\ (i - 1) + 1 = i
          BY <3>1 DEF WEIGHT_DEFAULT
    <3>3. Bubble(r.servers, i) = a /\ r.sum + r.servers[i].weight = i
          BY <2>1, <3>1, <3>2
    <3>4. i \in 0 .. N
          OBVIOUS
    <3>5. X[i] = {[servers |-> a, sum |-> i]}
          BY <3>4
    <3> QED
        BY <3>3, <3>5, Zenon DEF SortStep
  <2>3. [servers |-> a, sum |-> 0] \in X[0]
        OBVIOUS
  <2>4. X[N - 1] = {[servers |-> a, sum |-> N - 1]}
        OBVIOUS
  <2>5. Sorted(AllUp) = Sort(a)
        BY DEF Sorted, AllUp
  <2> HIDE DEF X, a
  <2>6. Sort(a) \in X[N - 1]
        BY <2>2, <2>3, SortKeeps
  <2> QED
      BY <2>4, <2>5, <2>6
<1>3. WeightSum(AllUp) = N
      BY <1>2 DEF WeightSum, WEIGHT_DEFAULT
<1>4. Pass(a, 1) = a
  <2> DEFINE X == [s \in 0 .. N |-> {[k \in 1 .. s |-> a[k]]}]
  <2>1. <<>> \in X[0]
        OBVIOUS
  <2>2. ASSUME NEW s \in 1 .. N, NEW x \in X[s - 1] PROVE Take(x, a[s], 1) \in X[s]
    <3>1. x = [k \in 1 .. s - 1 |-> a[k]]
      <4>1. s - 1 \in 0 .. N
            OBVIOUS
      <4>2. X[s - 1] = {[k \in 1 .. s - 1 |-> a[k]]}
            BY <4>1
      <4> QED
          BY <2>2, <4>2
    <3>2. Take(x, a[s], 1) = Append(x, a[s])
          BY DEF Take, WEIGHT_DEFAULT
    <3>3. Append(x, a[s]) = [k \in 1 .. s |-> a[k]]
      <4>1. x \in Seq(Weighed) /\ Len(x) = s - 1 /\ a[s] \in Weighed
            BY <1>1, <3>1 DEF Tables
      <4> QED
          BY <3>1, <4>1
    <3>4. s \in 0 .. N
          OBVIOUS
    <3>5. X[s] = {[k \in 1 .. s |-> a[k]]}
          BY <3>4
    <3> QED
        BY <3>2, <3>3, <3>5
  <2>3. X[N] = {a}
        OBVIOUS
  <2> HIDE DEF X, a
  <2>4. Pass(a, 1) \in X[N]
        BY <2>1, <2>2, PassKeeps
  <2> QED
      BY <2>3, <2>4
<1>5. ASSUME NEW r \in 2 .. WEIGHT_MAXIMUM PROVE Pass(a, r) = <<>>
  <2> DEFINE X == [s \in 0 .. N |-> {<<>>}]
  <2>1. <<>> \in X[0]
        OBVIOUS
  <2>2. ASSUME NEW s \in 1 .. N, NEW x \in X[s - 1] PROVE Take(x, a[s], r) \in X[s]
        BY <2>2 DEF Take, WEIGHT_DEFAULT, WEIGHT_MAXIMUM
  <2>3. X[N] = {<<>>}
        OBVIOUS
  <2> HIDE DEF X, a
  <2>4. Pass(a, r) \in X[N]
        BY <2>1, <2>2, PassKeeps
  <2> QED
      BY <2>3, <2>4
<1>6. Passes(a) = a
  <2> DEFINE X == [r \in 0 .. WEIGHT_MAXIMUM |-> IF r = 0 THEN {<<>>} ELSE {a}]
  <2>1. <<>> \in X[0]
        BY DEF WEIGHT_MAXIMUM
  <2>2. ASSUME NEW r \in 1 .. WEIGHT_MAXIMUM, NEW x \in X[r - 1] PROVE (x \o Pass(a, r)) \in X[r]
    <3>1. X[r] = {a}
          BY DEF WEIGHT_MAXIMUM
    <3> HIDE DEF a
    <3>2. CASE r = 1
      <4>1. x = <<>>
            BY <2>2, <3>2 DEF WEIGHT_MAXIMUM
      <4> QED
          BY <1>1, <1>4, <3>1, <3>2, <4>1
    <3>3. CASE r # 1
      <4>1. x = a /\ r \in 2 .. WEIGHT_MAXIMUM
            BY <2>2, <3>3 DEF WEIGHT_MAXIMUM
      <4> QED
          BY <1>1, <1>5, <3>1, <4>1
    <3> QED
        BY <3>2, <3>3
  <2>3. X[WEIGHT_MAXIMUM] = {a}
        BY DEF WEIGHT_MAXIMUM
  <2> HIDE DEF X, a
  <2>4. Passes(a) \in X[WEIGHT_MAXIMUM]
        BY <2>1, <2>2, PassesKeep
  <2> QED
      BY <2>3, <2>4
<1> QED
    BY <1>2, <1>3, <1>6 DEF Pattern
-----------------------------------------------------------------------------
(* What a finished pattern holds                                           *)

\* A table with each server once, as p has it.
Arranged(t, p) ==
    /\ t \in Tables
    /\ \A i \in Servers : /\ t[i].weight = p[t[i].server].weight
                          /\ t[i].status = p[t[i].server].status
    /\ \A i, j \in Servers : t[i].server = t[j].server => i = j
    /\ \A s \in Servers : \E i \in Servers : t[i].server = s

LEMMA SwapArranges ==
    ASSUME NEW p \in Pools, NEW a, Arranged(a, p), NEW i \in Servers, NEW j \in i .. N
    PROVE  Arranged(Swap(a, i, j), p)
<1> USE Size
<1> DEFINE b == Swap(a, i, j)
<1>1. a \in Tables /\ j \in Servers
      BY DEF Arranged
<1>2. b \in Tables
      BY <1>1, SwapTypes
<1>3. CASE ~(a[i].weight > a[j].weight)
      BY <1>3 DEF Swap
<1>4. CASE a[i].weight > a[j].weight
  <2> DEFINE other(k) == IF k = i THEN j ELSE IF k = j THEN i ELSE k
  <2>1. b = [a EXCEPT ![i] = a[j], ![j] = a[i]]
        BY <1>4 DEF Swap
  <2>2. \A k \in Servers : b[k] = a[other(k)] /\ other(k) \in Servers /\ other(other(k)) = k
        BY <1>1, <2>1 DEF Tables
  <2> HIDE DEF b, other
  <2>3. \A k \in Servers : /\ b[k].weight = p[b[k].server].weight
                           /\ b[k].status = p[b[k].server].status
    <3> SUFFICES ASSUME NEW k \in Servers PROVE /\ b[k].weight = p[b[k].server].weight
                                                /\ b[k].status = p[b[k].server].status
        OBVIOUS
    <3>1. PICK m \in Servers : b[k] = a[m]
          BY <2>2
    <3> QED
        BY <3>1 DEF Arranged
  <2>4. \A k, l \in Servers : b[k].server = b[l].server => k = l
    <3> SUFFICES ASSUME NEW k \in Servers, NEW l \in Servers, b[k].server = b[l].server PROVE k = l
        OBVIOUS
    <3>1. PICK m \in Servers : m = other(k) /\ b[k] = a[m] /\ other(m) = k
          BY <2>2
    <3>2. PICK n \in Servers : n = other(l) /\ b[l] = a[n] /\ other(n) = l
          BY <2>2
    <3>3. a[m].server = a[n].server
          BY <3>1, <3>2
    <3>4. m = n
          BY <3>3 DEF Arranged
    <3> QED
        BY <3>1, <3>2, <3>4
  <2>5. \A s \in Servers : \E k \in Servers : b[k].server = s
    <3> SUFFICES ASSUME NEW s \in Servers PROVE \E k \in Servers : b[k].server = s
        OBVIOUS
    <3>1. PICK k \in Servers : a[k].server = s
          BY DEF Arranged
    <3>2. b[other(k)].server = s
          BY <2>2, <3>1
    <3> QED
        BY <2>2, <3>2
  <2> QED
      BY <1>2, <2>3, <2>4, <2>5 DEF Arranged, b
<1> QED
    BY <1>3, <1>4

\* The places up to k that pass r takes, and how many entries all passes take up to k.
Taken(t, k, r) == {j \in 1 .. k : t[j].weight >= r}
Count(t, k, r) == Cardinality(Taken(t, k, r))
Worth(t, k) == Count(t, k, 1) + Count(t, k, 2) + Count(t, k, 3) + Count(t, k, 4) + Count(t, k, 5)

LEMMA CountIs ==
    ASSUME NEW t, NEW r
    PROVE  /\ Count(t, 0, r) = 0
           /\ \A k \in Nat : Count(t, k, r) \in Nat
           /\ \A k \in Nat \ {0} :
                 Count(t, k, r) = Count(t, k - 1, r) + (IF t[k].weight >= r THEN 1 ELSE 0)
<1>1. Taken(t, 0, r) = {}
      BY DEF Taken
<1>2. \A k \in Nat : IsFiniteSet(Taken(t, k, r))
  <2> SUFFICES ASSUME NEW k \in Nat PROVE IsFiniteSet(Taken(t, k, r))
      OBVIOUS
  <2>1. IsFiniteSet(1 .. k)
        BY FS_Interval
  <2>2. Taken(t, k, r) \in SUBSET (1 .. k)
        BY DEF Taken
  <2> QED
      BY <2>1, <2>2, FS_Subset
<1>3. ASSUME NEW k \in Nat \ {0}
      PROVE  Count(t, k, r) = Count(t, k - 1, r) + (IF t[k].weight >= r THEN 1 ELSE 0)
  <2>1. k - 1 \in Nat /\ k \notin Taken(t, k - 1, r) /\ IsFiniteSet(Taken(t, k - 1, r))
        BY <1>2 DEF Taken
  <2>2. CASE t[k].weight >= r
    <3>1. Taken(t, k, r) = Taken(t, k - 1, r) \cup {k}
          BY <2>2 DEF Taken
    <3> QED
        BY <2>1, <2>2, <3>1, FS_AddElement DEF Count
  <2>3. CASE ~(t[k].weight >= r)
    <3>1. Taken(t, k, r) = Taken(t, k - 1, r)
          BY <2>3 DEF Taken
    <3>2. Count(t, k - 1, r) \in Nat
          BY <2>1, FS_CardinalityType DEF Count
    <3> QED
        BY <2>3, <3>1, <3>2 DEF Count
  <2> QED
      BY <2>2, <2>3
<1> QED
    BY <1>1, <1>2, <1>3, FS_EmptySet, FS_CardinalityType DEF Count

\* Five passes take a server as often as its weight says.
LEMMA WorthIs ==
    ASSUME NEW t
    PROVE  /\ Worth(t, 0) = 0
           /\ \A k \in Nat : Worth(t, k) \in Nat
           /\ \A k \in Nat \ {0} :
                 t[k].weight \in 0 .. WEIGHT_MAXIMUM => Worth(t, k) = Worth(t, k - 1) + t[k].weight
<1>1. Worth(t, 0) = 0
      BY CountIs DEF Worth
<1>2. ASSUME NEW k \in Nat PROVE Worth(t, k) \in Nat
  <2>1. \A r \in 1 .. 5 : Count(t, k, r) \in Nat
        BY CountIs
  <2> QED
      BY <2>1 DEF Worth
<1>3. ASSUME NEW k \in Nat \ {0}, t[k].weight \in 0 .. WEIGHT_MAXIMUM
      PROVE  Worth(t, k) = Worth(t, k - 1) + t[k].weight
  <2>1. PICK w \in 0 .. 5 : w = t[k].weight
        BY <1>3 DEF WEIGHT_MAXIMUM
  <2>2. k - 1 \in Nat
        OBVIOUS
  <2>3. \A r \in 1 .. 5 : /\ Count(t, k - 1, r) \in Nat
                          /\ Count(t, k, r) = Count(t, k - 1, r) + (IF w >= r THEN 1 ELSE 0)
        BY <2>1, <2>2, CountIs
  <2> QED
      BY <2>1, <2>3 DEF Worth
<1> QED
    BY <1>1, <1>2, <1>3

LEMMA WorthSame ==
    ASSUME NEW t, NEW u, NEW k \in Nat, \A j \in 1 .. k : t[j] = u[j]
    PROVE  Worth(t, k) = Worth(u, k)
<1>1. ASSUME NEW r PROVE Taken(t, k, r) = Taken(u, k, r)
      BY DEF Taken
<1> QED
    BY <1>1 DEF Worth, Count

\* The inner loop puts a server there that weighs no more, and leaves those before it.
LEMMA BubbleArranges ==
    ASSUME NEW p \in Pools, NEW a, Arranged(a, p), NEW i \in Servers
    PROVE  /\ Arranged(Bubble(a, i), p)
           /\ \A k \in 1 .. i - 1 : Bubble(a, i)[k] = a[k]
           /\ Bubble(a, i)[i].weight <= a[i].weight
<1> USE Size
<1> DEFINE X == {b \in Tables : /\ Arranged(b, p)
                                /\ \A k \in 1 .. i - 1 : b[k] = a[k]
                                /\ b[i].weight <= a[i].weight}
<1>1. a \in X
  <2>1. a \in Tables /\ a[i].weight \in Int
        BY DEF Arranged, Tables, Weighed
  <2> QED
      BY <2>1
<1>2. ASSUME NEW b \in X, NEW j \in i .. N PROVE Swap(b, i, j) \in X
  <2>1. b \in Tables /\ Arranged(b, p) /\ j \in Servers
        OBVIOUS
  <2>2. Arranged(Swap(b, i, j), p)
        BY <2>1, SwapArranges
  <2>3. \A k \in 1 .. i - 1 : Swap(b, i, j)[k] = b[k]
        BY <2>1 DEF Swap, Tables
  <2>4. Swap(b, i, j)[i].weight <= b[i].weight
    <3>1. b[i].weight \in Int /\ b[j].weight \in Int
          BY <2>1 DEF Tables, Weighed
    <3>2. Swap(b, i, j)[i] = IF b[i].weight > b[j].weight THEN b[j] ELSE b[i]
          BY <2>1 DEF Swap, Tables
    <3> QED
        BY <3>1, <3>2
  <2>5. /\ a[i].weight \in Int /\ b[i].weight \in Int /\ b[i].weight <= a[i].weight
        /\ Swap(b, i, j) \in Tables /\ Swap(b, i, j)[i].weight \in Int
        /\ \A k \in 1 .. i - 1 : b[k] = a[k]
        BY <2>1, <2>2, ZenonT(30) DEF Arranged, Tables, Weighed
  <2> QED
      BY <2>2, <2>3, <2>4, <2>5
<1> HIDE DEF X
<1>3. Bubble(a, i) \in X
      BY <1>1, <1>2, BubbleKeeps
<1> QED
    BY <1>3 DEF X

\* The sum that weight_servers makes while it sorts is never less than the true one.
LEMMA SumIsEnough ==
    ASSUME NEW p \in Pools, \A s \in Servers : p[s].weight \in 0 .. WEIGHT_MAXIMUM
    PROVE  /\ Arranged(Sorted(p).servers, p)
           /\ WeightSum(p) \in Int /\ WeightSum(p) >= Worth(Sorted(p).servers, N)
<1> USE Size
<1> DEFINE a == [s \in Servers |-> [server |-> s, weight |-> p[s].weight, status |-> p[s].status]]
           Sums(i) == {r \in [servers : Tables, sum : Int] :
                         Arranged(r.servers, p) /\ r.sum >= Worth(r.servers, i)}
           X == [i \in 0 .. N |-> Sums(i)]
<1>1. ASSUME NEW t, Arranged(t, p), NEW i \in Servers
      PROVE  t[i].weight \in 0 .. WEIGHT_MAXIMUM
  <2>1. t[i].server \in Servers /\ t[i].weight = p[t[i].server].weight
        BY <1>1 DEF Arranged, Tables, Weighed
  <2> QED
      BY <2>1
<1>2. [servers |-> a, sum |-> 0] \in X[0]
  <2>1. a \in Tables
        BY DEF Pools, Tables, Weighed
  <2>2. Arranged(a, p)
        BY <2>1 DEF Arranged
  <2> HIDE DEF a
  <2>3. Worth(a, 0) = 0
        BY WorthIs
  <2>4. [servers |-> a, sum |-> 0] \in Sums(0)
        BY <2>1, <2>2, <2>3
  <2> QED
      BY <2>4
<1>3. ASSUME NEW i \in 1 .. N - 1, NEW r \in Sums(i - 1) PROVE SortStep(r, i) \in Sums(i)
  <2> DEFINE b == Bubble(r.servers, i)
  <2>1. i \in Servers /\ i \in Nat \ {0} /\ i - 1 \in Nat
        OBVIOUS
  <2>2. r.servers \in Tables /\ r.sum \in Int /\ Arranged(r.servers, p)
        /\ r.sum >= Worth(r.servers, i - 1)
        OBVIOUS
  <2>3. /\ Arranged(b, p)
        /\ \A k \in 1 .. i - 1 : b[k] = r.servers[k]
        /\ b[i].weight <= r.servers[i].weight
        BY <2>1, <2>2, BubbleArranges
  <2>4. SortStep(r, i) = [servers |-> b, sum |-> r.sum + r.servers[i].weight]
        BY DEF SortStep
  <2> HIDE DEF b, Sums
  <2>5. Worth(b, i - 1) = Worth(r.servers, i - 1)
        BY <2>1, <2>3, WorthSame
  <2>6. b[i].weight \in 0 .. WEIGHT_MAXIMUM /\ r.servers[i].weight \in 0 .. WEIGHT_MAXIMUM
        BY <1>1, <2>1, <2>2, <2>3
  <2>7. /\ Worth(b, i) = Worth(b, i - 1) + b[i].weight
        /\ Worth(b, i) \in Nat /\ Worth(b, i - 1) \in Nat
        BY <2>1, <2>6, WorthIs
  <2>8. r.sum + r.servers[i].weight \in Int /\ r.sum + r.servers[i].weight >= Worth(b, i)
    <3>1. \A u, v, x, y, z \in Int : u >= v /\ x <= y /\ z = v + x => u + y \in Int /\ u + y >= z
          OBVIOUS
    <3>2. b[i].weight \in Int /\ r.servers[i].weight \in Int
          BY <2>6 DEF WEIGHT_MAXIMUM
    <3>3. Worth(b, i) \in Int /\ Worth(b, i - 1) \in Int /\ r.sum >= Worth(b, i - 1)
          BY <2>2, <2>5, <2>7
    <3> QED
        BY <2>2, <2>3, <2>7, <3>1, <3>2, <3>3
  <2>9. b \in Tables
        BY <2>3 DEF Arranged
  <2> QED
      BY <2>3, <2>4, <2>8, <2>9 DEF Sums
<1>4. \A i \in 1 .. N - 1 : \A r \in X[i - 1] : SortStep(r, i) \in X[i]
  <2>1. \A i \in 1 .. N - 1 : X[i - 1] = Sums(i - 1) /\ X[i] = Sums(i)
        OBVIOUS
  <2> HIDE DEF X, Sums
  <2> QED
      BY <1>3, <2>1
<1>5. X[N - 1] = Sums(N - 1)
      OBVIOUS
<1>6. Sorted(p) = Sort(a)
      BY DEF Sorted
<1> HIDE DEF X, a
<1>7. Sorted(p) \in Sums(N - 1)
      BY <1>2, <1>4, <1>5, <1>6, SortKeeps
<1> DEFINE t == Sorted(p).servers
<1>8. t \in Tables /\ Arranged(t, p) /\ Sorted(p).sum \in Int /\ Sorted(p).sum >= Worth(t, N - 1)
      BY <1>7
<1>9. WeightSum(p) = Sorted(p).sum + t[N].weight
      BY DEF WeightSum
<1> HIDE DEF t
<1>10. t[N].weight \in 0 .. WEIGHT_MAXIMUM
       BY <1>1, <1>8
<1>11. Worth(t, N) = Worth(t, N - 1) + t[N].weight /\ Worth(t, N - 1) \in Nat
  <2>1. N \in Nat \ {0} /\ N - 1 \in Nat
        OBVIOUS
  <2> QED
      BY <1>10, <2>1, WorthIs
<1>12. WeightSum(p) \in Int /\ WeightSum(p) >= Worth(t, N)
       BY <1>8, <1>9, <1>10, <1>11, SMTT(30) DEF WEIGHT_MAXIMUM
<1> QED
    BY <1>8, <1>12 DEF t

\* A pass takes as many entries as the table has servers with weight left.
LEMMA PassCounts ==
    ASSUME NEW t \in Tables, NEW r
    PROVE  Pass(t, r) \in Seq(Weighed) /\ Len(Pass(t, r)) = Count(t, N, r)
<1> USE Size
<1> DEFINE Taking(s) == {x \in Seq(Weighed) : Len(x) = Count(t, s, r)}
           X == [s \in 0 .. N |-> Taking(s)]
<1>1. <<>> \in X[0]
      BY CountIs
<1>2. ASSUME NEW s \in 1 .. N, NEW x \in Taking(s - 1) PROVE Take(x, t[s], r) \in Taking(s)
  <2>1. t[s] \in Weighed
        BY DEF Tables
  <2>2. x \in Seq(Weighed) /\ Len(x) = Count(t, s - 1, r) /\ s \in Nat \ {0} /\ s - 1 \in Nat
        OBVIOUS
  <2>3. Count(t, s, r) = Count(t, s - 1, r) + (IF t[s].weight >= r THEN 1 ELSE 0)
        BY <2>2, CountIs
  <2>4. Count(t, s - 1, r) \in Nat
        BY <2>2, CountIs
  <2> QED
      BY <2>1, <2>2, <2>3, <2>4 DEF Take
<1>3. \A s \in 1 .. N : X[s - 1] = Taking(s - 1) /\ X[s] = Taking(s)
      OBVIOUS
<1> HIDE DEF X, Taking
<1>4. \A s \in 1 .. N : \A x \in X[s - 1] : Take(x, t[s], r) \in X[s]
      BY <1>2, <1>3
<1>5. Pass(t, r) \in X[N] /\ X[N] = Taking(N)
      BY <1>1, <1>3, <1>4, PassKeeps
<1> QED
    BY <1>5 DEF Taking

LEMMA PassesCount ==
    ASSUME NEW t \in Tables
    PROVE  Passes(t) \in Seq(Weighed) /\ Len(Passes(t)) = Worth(t, N)
<1> USE Size
<1> DEFINE c(r) == Count(t, N, r)
           Part(r) == (IF r >= 1 THEN c(1) ELSE 0) + (IF r >= 2 THEN c(2) ELSE 0)
                      + (IF r >= 3 THEN c(3) ELSE 0) + (IF r >= 4 THEN c(4) ELSE 0)
                      + (IF r >= 5 THEN c(5) ELSE 0)
           X == [r \in 0 .. WEIGHT_MAXIMUM |-> {x \in Seq(Weighed) : Len(x) = Part(r)}]
<1>1. \A r \in 1 .. 5 : c(r) \in Nat
      BY CountIs
<1>2. Part(5) = Worth(t, N)
      BY DEF Worth
<1> HIDE DEF c
<1>3. Part(0) = 0 /\ \A r \in 1 .. 5 : Part(r) = Part(r - 1) + c(r) /\ Part(r - 1) \in Nat
  <2>1. c(1) \in Nat /\ c(2) \in Nat /\ c(3) \in Nat /\ c(4) \in Nat /\ c(5) \in Nat
        BY <1>1
  <2>2. Part(0) = 0
        OBVIOUS
  <2>3. ASSUME NEW r \in 1 .. 5 PROVE Part(r) = Part(r - 1) + c(r) /\ Part(r - 1) \in Nat
    <3>1. r = 1 \/ r = 2 \/ r = 3 \/ r = 4 \/ r = 5
          OBVIOUS
    <3> QED
        BY <2>1, <3>1, SMTT(30)
  <2> QED
      BY <2>2, <2>3
<1> HIDE DEF Part
<1>4. \A r \in 0 .. 5 : X[r] = {x \in Seq(Weighed) : Len(x) = Part(r)}
      BY DEF WEIGHT_MAXIMUM
<1> HIDE DEF X
<1>5. <<>> \in X[0]
  <2>1. <<>> \in Seq(Weighed) /\ Len(<<>>) = Part(0)
        BY <1>3
  <2>2. X[0] = {x \in Seq(Weighed) : Len(x) = Part(0)}
        BY <1>4
  <2> QED
      BY <2>1, <2>2
<1>6. ASSUME NEW r \in 1 .. WEIGHT_MAXIMUM, NEW x \in X[r - 1] PROVE (x \o Pass(t, r)) \in X[r]
  <2>1. r \in 1 .. 5 /\ r - 1 \in 0 .. 5
        BY DEF WEIGHT_MAXIMUM
  <2>2. x \in Seq(Weighed) /\ Len(x) = Part(r - 1)
        BY <1>4, <2>1
  <2>3. Pass(t, r) \in Seq(Weighed) /\ Len(Pass(t, r)) = c(r)
        BY PassCounts DEF c
  <2>4. \A y \in Seq(Weighed) : x \o y \in Seq(Weighed) /\ Len(x \o y) = Len(x) + Len(y)
        BY <2>2
  <2>5. x \o Pass(t, r) \in Seq(Weighed) /\ Len(x \o Pass(t, r)) = Part(r - 1) + c(r)
        BY <2>2, <2>3, <2>4
  <2>6. Part(r) = Part(r - 1) + c(r) /\ X[r] = {y \in Seq(Weighed) : Len(y) = Part(r)}
        BY <1>3, <1>4, <2>1, SMTT(30)
  <2> QED
      BY <2>5, <2>6
<1>7. Passes(t) \in X[WEIGHT_MAXIMUM]
      BY <1>5, <1>6, PassesKeep
<1> QED
    BY <1>2, <1>4, <1>7 DEF WEIGHT_MAXIMUM

\* Where a server is in a pattern, and that its entries say what p says of it.
Places(x, s) == {k \in 1 .. Len(x) : x[k].server = s}
Says(x, p)   == \A k \in 1 .. Len(x) : x[k].server \in Servers /\ x[k].status = p[x[k].server].status

\* A pass takes each server once at most: if it has weight left.
LEMMA PassHolds ==
    ASSUME NEW p \in Pools, NEW t, Arranged(t, p), NEW r \in 1 .. WEIGHT_MAXIMUM, NEW s \in Servers
    PROVE  /\ Pass(t, r) \in Seq(Weighed)
           /\ p[s].weight >= r => \E k \in 1 .. Len(Pass(t, r)) : Places(Pass(t, r), s) = {k}
           /\ p[s].weight < r => Places(Pass(t, r), s) = {}
           /\ Says(Pass(t, r), p)
<1> USE Size
<1>1. PICK i \in Servers : t[i].server = s
      BY DEF Arranged
<1> DEFINE Through(n) ==
             {x \in Seq(Weighed) : /\ i <= n /\ p[s].weight >= r
                                        => \E k \in 1 .. Len(x) : Places(x, s) = {k}
                                   /\ i > n \/ p[s].weight < r => Places(x, s) = {}
                                   /\ Says(x, p)}
           X == [n \in 0 .. N |-> Through(n)]
<1>2. <<>> \in Through(0)
      BY DEF Places, Says
<1>3. p[s].weight \in Int /\ t[i].weight = p[s].weight /\ r \in Int /\ i \in Int
  <2>1. t[i].weight = p[t[i].server].weight
        BY DEF Arranged
  <2>2. p[s].weight \in Int
        BY DEF Pools
  <2> QED
      BY <1>1, <2>1, <2>2 DEF WEIGHT_MAXIMUM
<1>4. ASSUME NEW n \in 1 .. N, NEW x \in Through(n - 1) PROVE Take(x, t[n], r) \in Through(n)
  <2>1. /\ t[n] \in Weighed /\ t[n].server \in Servers /\ t[n].weight \in Int
        /\ t[n].status = p[t[n].server].status
        /\ t[n].server = s <=> n = i
        BY <1>1, ZenonT(30) DEF Arranged, Tables, Weighed
  <2>2. /\ x \in Seq(Weighed) /\ Says(x, p)
        /\ i <= n - 1 /\ p[s].weight >= r => \E k \in 1 .. Len(x) : Places(x, s) = {k}
        /\ i > n - 1 \/ p[s].weight < r => Places(x, s) = {}
        OBVIOUS
  <2> HIDE DEF Through
  <2>3. CASE t[n].weight >= r
    <3> DEFINE y == Append(x, t[n])
    <3>1. Take(x, t[n], r) = y
          BY <2>3 DEF Take
    <3>2. PICK L \in Nat : L = Len(x)
          BY <2>2
    <3>3. /\ y \in Seq(Weighed) /\ Len(y) = L + 1 /\ y[L + 1] = t[n]
          /\ \A k \in 1 .. L : y[k] = x[k]
          BY <2>1, <2>2, <3>2
    <3> HIDE DEF y
    <3>4. Says(y, p)
          BY <2>1, <2>2, <3>2, <3>3, SMTT(30) DEF Says
    <3>5. Places(y, s) = IF n = i THEN Places(x, s) \cup {L + 1} ELSE Places(x, s)
      <4>1. \A k \in 1 .. L + 1 : k \in 1 .. L \/ k = L + 1
            OBVIOUS
      <4>2. \A k \in 1 .. L : k \in Places(y, s) <=> k \in Places(x, s)
            BY <3>2, <3>3 DEF Places
      <4>3. L + 1 \in Places(y, s) <=> n = i
            BY <2>1, <3>3 DEF Places
      <4>4. Places(y, s) \subseteq 1 .. L + 1 /\ Places(x, s) \subseteq 1 .. L
            BY <3>2, <3>3 DEF Places
      <4>5. L + 1 \notin Places(x, s)
            BY <4>4
      <4>6. ASSUME NEW k \in 1 .. L + 1
            PROVE  k \in Places(y, s) <=> k \in (IF n = i THEN Places(x, s) \cup {L + 1} ELSE Places(x, s))
            BY <4>1, <4>2, <4>3, <4>5
      <4> HIDE DEF Places
      <4> QED
          BY <4>4, <4>6, SMTT(30)
    <3>6. CASE n = i
      <4>1. p[s].weight >= r /\ Places(x, s) = {} /\ i <= n
            BY <1>3, <2>2, <2>3, <3>6
      <4>2. Places(y, s) = {L + 1} /\ L + 1 \in 1 .. Len(y)
            BY <3>3, <3>5, <3>6, <4>1
      <4>3. ~(i > n \/ p[s].weight < r)
            BY <1>3, <3>6, <4>1
      <4> QED
          BY <3>1, <3>3, <3>4, <4>2, <4>3 DEF Through
    <3>7. CASE n # i
      <4>1. Places(y, s) = Places(x, s)
            BY <3>5, <3>7
      <4>2. (i <= n <=> i <= n - 1) /\ (i > n <=> i > n - 1)
            BY <3>7
      <4>3. 1 .. Len(x) \subseteq 1 .. Len(y)
            BY <3>2, <3>3
      <4> QED
          BY <2>2, <3>1, <3>3, <3>4, <4>1, <4>2, <4>3 DEF Through
    <3> QED
        BY <3>6, <3>7
  <2>4. CASE ~(t[n].weight >= r)
    <3>1. Take(x, t[n], r) = x
          BY <2>4 DEF Take
    <3>2. n = i => p[s].weight < r
          BY <1>3, <2>1, <2>4
    <3>3. n # i => (i <= n <=> i <= n - 1) /\ (i > n <=> i > n - 1)
          OBVIOUS
    <3>4. p[s].weight < r => ~(p[s].weight >= r)
          BY <1>3
    <3> QED
        BY <2>2, <3>1, <3>2, <3>3, <3>4 DEF Through
  <2> QED
      BY <2>3, <2>4
<1>5. \A n \in 1 .. N : X[n - 1] = Through(n - 1) /\ X[n] = Through(n)
      OBVIOUS
<1>6. X[0] = Through(0)
      OBVIOUS
<1> HIDE DEF X, Through
<1>7. \A n \in 1 .. N : \A x \in X[n - 1] : Take(x, t[n], r) \in X[n]
      BY <1>4, <1>5
<1>8. Pass(t, r) \in X[N] /\ X[N] = Through(N)
      BY <1>2, <1>5, <1>6, <1>7, PassKeeps
<1> QED
    BY <1>8, <1>3 DEF Through

\* All passes take each server as often as its weight says.
LEMMA JoinHolds ==
    ASSUME NEW p, NEW s, NEW x \in Seq(Weighed), NEW y \in Seq(Weighed), Says(x, p), Says(y, p)
    PROVE  /\ Says(x \o y, p)
           /\ Places(y, s) = {} => Places(x \o y, s) = Places(x, s)
           /\ \A k \in 1 .. Len(y) : Places(y, s) = {k} =>
                 /\ Places(x \o y, s) = Places(x, s) \cup {Len(x) + k}
                 /\ Len(x) + k \notin Places(x, s)
<1>1. PICK L \in Nat : L = Len(x)
      OBVIOUS
<1>2. PICK M \in Nat : M = Len(y)
      OBVIOUS
<1> DEFINE z == x \o y
<1>3. /\ z \in Seq(Weighed) /\ Len(z) = L + M
      /\ \A k \in 1 .. L : z[k] = x[k]
      /\ \A k \in 1 .. M : z[L + k] = y[k]
      BY <1>1, <1>2
<1> HIDE DEF z
<1>4. \A j \in 1 .. L + M : j \in 1 .. L \/ (j - L \in 1 .. M /\ j = L + (j - L))
      OBVIOUS
<1>5. Says(z, p)
  <2> SUFFICES ASSUME NEW j \in 1 .. L + M
               PROVE  z[j].server \in Servers /\ z[j].status = p[z[j].server].status
      BY <1>3 DEF Says
  <2>1. CASE j \in 1 .. L
        BY <1>1, <1>3, <2>1 DEF Says
  <2>2. CASE j \notin 1 .. L
    <3>1. PICK k \in 1 .. M : j = L + k
          BY <1>4, <2>2
    <3> QED
        BY <1>2, <1>3, <3>1 DEF Says
  <2> QED
      BY <2>1, <2>2
<1>6. \A j \in 1 .. L : j \in Places(z, s) <=> j \in Places(x, s)
      BY <1>1, <1>3 DEF Places
<1>7. \A k \in 1 .. M : L + k \in Places(z, s) <=> k \in Places(y, s)
      BY <1>2, <1>3 DEF Places
<1>8. Places(z, s) \subseteq 1 .. L + M /\ Places(x, s) \subseteq 1 .. L /\ Places(y, s) \subseteq 1 .. M
      BY <1>1, <1>2, <1>3 DEF Places
<1>9. ASSUME Places(y, s) = {} PROVE Places(z, s) = Places(x, s)
  <2>1. ASSUME NEW j \in 1 .. L + M PROVE j \in Places(z, s) <=> j \in Places(x, s)
    <3>1. CASE j \in 1 .. L
          BY <1>6, <3>1
    <3>2. CASE j \notin 1 .. L
          BY <1>4, <1>7, <1>8, <1>9, <3>2
    <3> QED
        BY <3>1, <3>2
  <2>2. 1 .. L \subseteq 1 .. L + M
        OBVIOUS
  <2> QED
      BY <1>8, <2>1, <2>2
<1>10. ASSUME NEW k \in 1 .. M, Places(y, s) = {k}
       PROVE  Places(z, s) = Places(x, s) \cup {L + k} /\ L + k \notin Places(x, s)
  <2>1. ASSUME NEW j \in 1 .. L + M PROVE j \in Places(z, s) <=> j \in Places(x, s) \cup {L + k}
    <3>1. CASE j \in 1 .. L
          BY <1>6, <3>1
    <3>2. CASE j \notin 1 .. L
      <4>1. PICK m \in 1 .. M : j = L + m
            BY <1>4, <3>2
      <4>2. j \in Places(z, s) <=> m = k
            BY <1>7, <1>10, <4>1
      <4>3. j \notin Places(x, s)
            BY <1>8, <3>2
      <4> QED
          BY <4>1, <4>2, <4>3
    <3> QED
        BY <3>1, <3>2
  <2>2. 1 .. L \subseteq 1 .. L + M /\ L + k \in 1 .. L + M /\ L + k \notin 1 .. L
        OBVIOUS
  <2> QED
      BY <1>8, <2>1, <2>2
<1> QED
    BY <1>1, <1>2, <1>5, <1>9, <1>10 DEF z

LEMMA PassesHold ==
    ASSUME NEW p \in Pools, NEW t, Arranged(t, p), NEW s \in Servers,
           p[s].weight \in 0 .. WEIGHT_MAXIMUM
    PROVE  Cardinality(Places(Passes(t), s)) = p[s].weight /\ Says(Passes(t), p)
<1> DEFINE w == p[s].weight
           Holding(r) == {x \in Seq(Weighed) : /\ IsFiniteSet(Places(x, s))
                                               /\ Cardinality(Places(x, s)) = IF w < r THEN w ELSE r
                                               /\ Says(x, p)}
           X == [r \in 0 .. WEIGHT_MAXIMUM |-> Holding(r)]
<1>1. w \in 0 .. 5
      BY DEF WEIGHT_MAXIMUM
<1> HIDE DEF w
<1>2. <<>> \in Holding(0)
  <2>1. Places(<<>>, s) = {} /\ Says(<<>>, p) /\ <<>> \in Seq(Weighed)
        BY DEF Places, Says
  <2>2. (IF w < 0 THEN w ELSE 0) = 0
        BY <1>1
  <2> QED
      BY <2>1, <2>2, FS_EmptySet
<1>3. ASSUME NEW r \in 1 .. 5, NEW x \in Holding(r - 1) PROVE (x \o Pass(t, r)) \in Holding(r)
  <2> DEFINE y == Pass(t, r)
  <2>1. /\ x \in Seq(Weighed) /\ Says(x, p) /\ IsFiniteSet(Places(x, s))
        /\ Cardinality(Places(x, s)) = IF w < r - 1 THEN w ELSE r - 1
        OBVIOUS
  <2>2. /\ y \in Seq(Weighed) /\ Says(y, p)
        /\ w >= r => \E k \in 1 .. Len(y) : Places(y, s) = {k}
        /\ w < r => Places(y, s) = {}
    <3>1. r \in 1 .. WEIGHT_MAXIMUM
          BY DEF WEIGHT_MAXIMUM
    <3> QED
        BY <3>1, PassHolds DEF w
  <2> HIDE DEF y, Holding
  <2>3. x \o y \in Seq(Weighed) /\ Says(x \o y, p)
        BY <2>1, <2>2, JoinHolds
  <2>4. CASE w >= r
    <3>1. PICK k \in 1 .. Len(y) : Places(y, s) = {k}
          BY <2>2, <2>4
    <3>2. Places(x \o y, s) = Places(x, s) \cup {Len(x) + k} /\ Len(x) + k \notin Places(x, s)
          BY <2>1, <2>2, <3>1, JoinHolds
    <3>3. IsFiniteSet(Places(x \o y, s)) /\ Cardinality(Places(x \o y, s)) = Cardinality(Places(x, s)) + 1
      <4>1. PICK T, j : T = Places(x, s) /\ j = Len(x) + k /\ IsFiniteSet(T) /\ j \notin T
            BY <2>1, <3>2
      <4>2. IsFiniteSet(T \cup {j}) /\ Cardinality(T \cup {j}) = Cardinality(T) + 1
            BY <4>1, FS_AddElement
      <4> QED
          BY <3>2, <4>1, <4>2
    <3>4. Cardinality(Places(x, s)) = r - 1 /\ (r - 1) + 1 = r /\ ~(w < r)
          BY <1>1, <2>1, <2>4
    <3> QED
        BY <2>3, <3>3, <3>4 DEF Holding, y
  <2>5. CASE w < r
    <3>1. Places(x \o y, s) = Places(x, s)
          BY <2>1, <2>2, <2>5, JoinHolds
    <3>2. Cardinality(Places(x, s)) = w
          BY <1>1, <2>1, <2>5
    <3> QED
        BY <2>1, <2>3, <2>5, <3>1, <3>2 DEF Holding, y
  <2> QED
      BY <1>1, <2>4, <2>5
<1>4. \A r \in 0 .. 5 : X[r] = Holding(r)
      BY DEF WEIGHT_MAXIMUM
<1> HIDE DEF X, Holding
<1>5. ASSUME NEW r \in 1 .. WEIGHT_MAXIMUM, NEW x \in X[r - 1] PROVE (x \o Pass(t, r)) \in X[r]
  <2>1. r \in 1 .. 5 /\ r \in 0 .. 5 /\ r - 1 \in 0 .. 5
        BY DEF WEIGHT_MAXIMUM
  <2>2. X[r - 1] = Holding(r - 1) /\ X[r] = Holding(r)
        BY <1>4, <2>1
  <2> QED
      BY <1>3, <2>1, <2>2
<1>6. <<>> \in X[0] /\ X[5] = Holding(5)
      BY <1>2, <1>4
<1>7. Passes(t) \in X[WEIGHT_MAXIMUM]
      BY <1>5, <1>6, PassesKeep
<1>8. Passes(t) \in Holding(5)
      BY <1>6, <1>7 DEF WEIGHT_MAXIMUM
<1> QED
    BY <1>1, <1>8 DEF Holding, w

\* weight_servers: a pattern whose loop ends is all of the passes, and so has each server
\* as often as its weight says.
LEMMA PatternHolds ==
    ASSUME NEW p \in Pools, \A s \in Servers : p[s].weight \in 0 .. WEIGHT_MAXIMUM, PatternEnds(p),
           NEW s \in Servers
    PROVE  LET places == {i \in DOMAIN Pattern(p) : Pattern(p)[i].server = s} IN
           /\ Cardinality(places) = p[s].weight
           /\ \A i \in places : Pattern(p)[i].status = p[s].status
<1> DEFINE t == Sorted(p).servers
           all == Passes(t)
<1>1. Arranged(t, p) /\ WeightSum(p) \in Int /\ WeightSum(p) >= Worth(t, N)
      BY SumIsEnough
<1>2. t \in Tables
      BY <1>1 DEF Arranged
<1>3. WeightSum(p) \in 1 .. Len(all)
      BY DEF PatternEnds
<1>4. Pattern(p) = [i \in 1 .. WeightSum(p) |-> [server |-> all[i].server, status |-> all[i].status]]
      BY DEF Pattern
<1> HIDE DEF t
<1>5. all \in Seq(Weighed) /\ Len(all) = Worth(t, N)
      BY <1>2, PassesCount
<1>6. Cardinality(Places(all, s)) = p[s].weight /\ Says(all, p)
      BY <1>1, PassesHold
<1> HIDE DEF all
<1>7. WeightSum(p) = Len(all)
      BY <1>1, <1>3, <1>5
<1>8. PICK n \in Nat : n = Len(all)
      BY <1>5
<1>9. /\ DOMAIN Pattern(p) = 1 .. n
      /\ \A i \in 1 .. n : Pattern(p)[i].server = all[i].server /\ Pattern(p)[i].status = all[i].status
      BY <1>4, <1>7, <1>8
<1>10. {i \in DOMAIN Pattern(p) : Pattern(p)[i].server = s} = Places(all, s)
       BY <1>8, <1>9 DEF Places
<1>11. ASSUME NEW i \in Places(all, s) PROVE Pattern(p)[i].status = p[s].status
       BY <1>6, <1>8, <1>9 DEF Places, Says
<1> QED
    BY <1>6, <1>10, <1>11
-----------------------------------------------------------------------------
(* The invariant                                                           *)

\* Until the first update: the buffer of init_scheduler.
FirstBuffer == [s \in 1 .. N |-> [server |-> s, status |-> "READY"]]

\* The manager holds the mutex while it scans; the buffer is ahead of it by one place.
Following(place) == IF place = Len(buffer) - 1 THEN 0 ELSE place + 1
ManagerInv ==
    /\ mutex = "manager" <=> mpc = "scan"
    /\ mpc = "scan" => head = buffer_position /\ (synced => head = Following(tail))

\* What a scan has passed: the places behind the tail, round the end of the buffer.
Passed(p) == \/ p < tail /\ tail - p <= not_available
             \/ p > tail /\ tail + Len(buffer) - p <= not_available
ScanInv ==
    mpc = "scan" /\ ~touched =>
        /\ ready = buffer[tail + 1]
        /\ synced => \A p \in 0 .. Len(buffer) - 1 : Passed(p) => buffer[p + 1].status # "READY"

\* A round counts a server at most once; a pattern has entries.
UpdaterInv == /\ upc = "score" => proceed >= 1 - node
              /\ upc = "allocate" => w_servers # <<>>

\* Until the first update every scan ends where it begins, and the servers take turns.
Turn == IF mpc = "scan" THEN tail ELSE head
LoadInv ==
    updates = 0 =>
        /\ upc = "sleep" /\ ~freed /\ buffer = FirstBuffer
        /\ head = buffer_position
        /\ mpc = "scan" => ~touched /\ head = Following(tail)
        /\ \A s \in Servers : picks[s] = picks[N] + (IF s - 1 < Turn THEN 1 ELSE 0)

IInv == TypeOK /\ ManagerInv /\ ScanInv /\ UpdaterInv /\ LoadInv /\ UniformLoad

LEMMA FollowingIs ==
    ASSUME NEW L \in Nat \ {0}, NEW place \in Nat
    PROVE  /\ (place + 1) % L \in 0 .. L - 1
           /\ place < L => (place + 1) % L = IF place = L - 1 THEN 0 ELSE place + 1
<1>1. (place + 1) % L \in 0 .. L - 1
      OBVIOUS
<1>2. ASSUME place < L - 1 PROVE (place + 1) % L = place + 1
      BY <1>2
<1>3. ASSUME place = L - 1 PROVE (place + 1) % L = 0
      BY <1>3
<1> QED
    BY <1>1, <1>2, <1>3

LEMMA Types ==
    TypeOK => /\ buffer \in Seq(Entries) /\ Len(buffer) \in Nat \ {0}
              /\ \A i \in 1 .. Len(buffer) : buffer[i] \in Entries
              /\ freed \in BOOLEAN /\ buffer_position \in Nat
              /\ head \in 0 .. Len(buffer) - 1 /\ tail \in 0 .. Len(buffer) - 1
              /\ not_available \in Nat /\ (mpc = "scan" => not_available < Len(buffer))
<1> SUFFICES ASSUME TypeOK PROVE /\ Len(buffer) \in Nat \ {0}
                                 /\ \A i \in 1 .. Len(buffer) : buffer[i] \in Entries
    BY DEF TypeOK
<1>1. buffer \in Seq(Entries) /\ buffer # <<>>
      BY DEF TypeOK
<1> QED
    BY <1>1

\* progress: the tail comes to the head, and the head one place on from buffer_position.
LEMMA ProgressIs ==
    ASSUME TypeOK, Progress
    PROVE  /\ tail' = head /\ head' = buffer_position'
           /\ head' \in 0 .. Len(buffer) - 1 /\ tail' \in 0 .. Len(buffer) - 1
           /\ head = buffer_position => head' = Following(head)
<1>1. /\ Len(buffer) \in Nat \ {0} /\ buffer_position \in Nat /\ head \in 0 .. Len(buffer) - 1
      BY Types
<1>2. tail' = head /\ buffer_position' = (buffer_position + 1) % Len(buffer) /\ head' = buffer_position'
      BY DEF Progress
<1> QED
    BY <1>1, <1>2, FollowingIs DEF Following

\* What is read at the tail.
LEMMA ReadIs ==
    ASSUME TypeOK, Progress, NEW r \in IF freed THEN Freed ELSE {buffer[tail' + 1]}
    PROVE  r \in Entries \cup Freed /\ (~freed => r = buffer[tail' + 1])
<1>1. buffer[tail' + 1] \in Entries
  <2>1. tail' + 1 \in 1 .. Len(buffer)
        BY ProgressIs, Types
  <2> QED
      BY <2>1, Types
<1> QED
    BY <1>1
-----------------------------------------------------------------------------
(* Types                                                                   *)

LEMMA RetrievedTypes == \A page \in Retrieved : page.idle \in Int /\ page.busy \in Int
<1> SUFFICES ASSUME NEW source \in StatusPages, NEW page \in Reports(source.text)
             PROVE  page.idle \in Int /\ page.busy \in Int
    BY DEF Retrieved
<1>1. source.text \in Text
      BY RoundRobinAssumption
<1> QED
    BY <1>1, ReportsTypes

\* retrieve_apache_status: the numbers that come of a page are those of a page.
LEMMA RetrievedServed ==
    \A report \in Retrieved : report.idle >= 0 =>
        \E page \in StatusPages : page.idle = report.idle /\ page.busy = report.busy
<1> SUFFICES ASSUME NEW page \in StatusPages, NEW report \in Reports(page.text), report.idle >= 0
             PROVE  page.idle = report.idle /\ page.busy = report.busy
    BY DEF Retrieved
<1>1. PICK text \in Text, idle \in Int, busy \in Int :
         /\ text = page.text /\ idle = page.idle /\ busy = page.busy
         /\ BlankLine(text) # 0 => IsStatus(BehindBlank(text, BlankLine(text)), idle, busy)
      BY RoundRobinAssumption
<1>2. report \in Reports(text)
      BY <1>1
<1>3. report.idle = idle /\ report.busy = busy
      BY <1>1, <1>2, StatusServed
<1> QED
    BY <1>1, <1>3

LEMMA ScoreType ==
    ASSUME NEW idle \in Int, NEW total \in Int, total # WEIGHT_DEFAULT
    PROVE  Score(idle, total) \in Int
<1>1. \A a, b \in Int : b # 0 => Quotient(a, b) \in Int
  <2>1. \A n \in Int : Abs(n) \in Nat /\ (n # 0 => Abs(n) > 0)
        BY DEF Abs
  <2>2. \A m, n \in Nat : n > 0 => m \div n \in Int
        OBVIOUS
  <2>3. ASSUME NEW a \in Int, NEW b \in Int, b # 0 PROVE Quotient(a, b) \in Int
    <3>1. PICK q \in Int : q = Abs(a) \div Abs(b)
          BY <2>1, <2>2, <2>3
    <3> QED
        BY <3>1 DEF Quotient
  <2> QED
      BY <2>3
<1>2. PICK a \in Int : a = (idle - WEIGHT_DEFAULT) * (WEIGHT_MAXIMUM - WEIGHT_DEFAULT)
      BY DEF WEIGHT_DEFAULT, WEIGHT_MAXIMUM
<1>3. PICK b \in Int \ {0} : b = total - WEIGHT_DEFAULT
      BY DEF WEIGHT_DEFAULT
<1>4. PICK q \in Int : q = Quotient(a, b)
      BY <1>1, <1>3
<1>5. Score(idle, total) = q + WEIGHT_DEFAULT
      BY <1>2, <1>3, <1>4 DEF Score
<1> QED
    BY <1>5 DEF WEIGHT_DEFAULT

CircularOK == /\ buffer \in Seq(Entries) /\ buffer # <<>>
              /\ freed \in BOOLEAN
              /\ buffer_position \in Nat
              /\ head \in 0 .. Len(buffer) - 1 /\ tail \in 0 .. Len(buffer) - 1
ManagerOK == /\ mutex \in {"none", "manager"}
             /\ mpc \in {"idle", "scan"} /\ ready \in Entries \cup Freed /\ not_available \in Nat
             /\ mpc = "scan" => not_available < Len(buffer)
             /\ calls \in 0 .. MaxPicks
             /\ picks \in [Servers -> Nat]
             /\ touched \in BOOLEAN /\ synced \in BOOLEAN
UpdaterOK == /\ pool \in [Servers -> [weight : Int, status : Status]]
             /\ upc \in {"sleep", "score", "free", "weigh", "allocate", "spin", "returned", "killed"}
             /\ node \in Servers /\ proceed \in -N .. 0
             /\ w_servers \in Seq(Entries)
             /\ updates \in 0 .. MaxUpdates

LEMMA TypeParts == TypeOK <=> CircularOK /\ ManagerOK /\ UpdaterOK
BY DEF TypeOK, CircularOK, ManagerOK, UpdaterOK

LEMMA ManagerTypes ==
    ASSUME TypeOK, Manager
    PROVE  CircularOK' /\ ManagerOK'
<1>1. CircularOK /\ ManagerOK
      BY TypeParts
<1>2. Len(buffer) \in Nat \ {0}
      BY Types
<1>3. ASSUME Progress, buffer' = buffer, freed' = freed PROVE CircularOK'
  <2>1. buffer_position' \in Nat
        BY <1>3, ProgressIs, <1>2
  <2> QED
      BY <1>1, <1>3, <2>1, ProgressIs DEF CircularOK
<1>4. CASE GetServer
  <2>1. CircularOK'
        BY <1>3, <1>4 DEF GetServer
  <2>2. ready' \in Entries \cup Freed
        BY <1>4, ReadIs DEF GetServer, ReadTail
  <2>3. calls' \in 0 .. MaxPicks
        BY <1>1, <1>4, RoundRobinAssumption DEF GetServer, ManagerOK
  <2> QED
      BY <1>1, <1>2, <1>4, <2>1, <2>2, <2>3 DEF GetServer, ManagerOK, CircularOK
<1>5. CASE TakeServer
  <2>1. picks' \in [Servers -> Nat]
    <3>1. PICK t : t = ready.server
          OBVIOUS
    <3>2. picks' = picks \/ picks' = [picks EXCEPT ![t] = @ + 1]
          BY <1>5, <3>1 DEF TakeServer
    <3>3. picks \in [Servers -> Nat]
          BY <1>1 DEF ManagerOK
    <3> QED
        BY <3>2, <3>3
  <2> QED
      BY <1>1, <1>5, <2>1 DEF TakeServer, ManagerOK, CircularOK, circularVars
<1>6. CASE NextServer
  <2>1. CircularOK'
        BY <1>3, <1>6 DEF NextServer
  <2>2. ready' \in Entries \cup Freed
        BY <1>6, ReadIs DEF NextServer, ReadTail
  <2>3. not_available' \in Nat /\ not_available' < Len(buffer')
        BY <1>1, <1>2, <1>6 DEF NextServer, ManagerOK
  <2> QED
      BY <1>1, <1>6, <2>1, <2>2, <2>3 DEF NextServer, ManagerOK, CircularOK
<1>7. CASE GiveUp
  <2>1. CircularOK'
        BY <1>3, <1>7 DEF GiveUp
  <2>2. PICK r \in IF freed THEN Freed ELSE {buffer[tail' + 1]} : ready' = [r EXCEPT !.status = "BROKEN"]
        BY <1>7 DEF GiveUp
  <2>3. r \in Entries \cup Freed
        BY <1>7, ReadIs DEF GiveUp
  <2>4. ready' \in Entries \cup Freed
        BY <2>2, <2>3 DEF Entries, Freed, Status
  <2>5. not_available' \in Nat
        BY <1>1, <1>7 DEF GiveUp, ManagerOK
  <2> QED
      BY <1>1, <1>7, <2>1, <2>4, <2>5 DEF GiveUp, ManagerOK, CircularOK
<1> QED
    BY <1>4, <1>5, <1>6, <1>7 DEF Manager

LEMMA UpdaterTypes ==
    ASSUME TypeOK, UpdaterInv, Updater
    PROVE  CircularOK' /\ UpdaterOK'
<1> USE Size
<1>1. CircularOK /\ UpdaterOK
      BY TypeParts
<1>2. /\ pool \in Pools /\ node \in 1 .. N /\ proceed \in -N .. 0
      /\ upc = "score" => proceed >= 1 - node
      BY <1>1 DEF UpdaterOK, UpdaterInv, Pools
<1>3. ASSUME Scored, upc = "score", pool' \in Pools, proceed' \in {proceed, proceed - 1}
      PROVE  CircularOK' /\ UpdaterOK'
  <2>1. proceed' \in -N .. 0
        BY <1>2, <1>3
  <2>2. node' \in Servers /\ upc' \in {"score", "free", "sleep"}
        BY <1>2, <1>3 DEF Scored
  <2>3. UNCHANGED <<circularVars, w_servers, updates>>
        BY <1>3 DEF Scored
  <2> QED
      BY <1>1, <1>3, <2>1, <2>2, <2>3 DEF UpdaterOK, CircularOK, circularVars, Pools
<1>4. CASE StartUpdate
  <2>1. updates' \in 0 .. MaxUpdates
        BY <1>1, <1>4, RoundRobinAssumption DEF StartUpdate, UpdaterOK
  <2> QED
      BY <1>1, <1>4, <2>1 DEF StartUpdate, UpdaterOK, CircularOK, circularVars
<1>5. CASE ScoreDown
  <2>1. pool' \in Pools
        BY <1>2, <1>5 DEF ScoreDown, Pools, Status, WEIGHT_DEFAULT
  <2> QED
      BY <1>3, <1>5, <2>1 DEF ScoreDown
<1>6. CASE ScoreUnreadable
  <2>1. pool' \in Pools
        BY <1>2, <1>6 DEF ScoreUnreadable, Pools, Status
  <2> QED
      BY <1>3, <1>6, <2>1 DEF ScoreUnreadable
<1>7. CASE ScorePage
  <2>1. PICK page \in Retrieved :
           /\ page.idle < 0 \/ page.idle + page.busy # WEIGHT_DEFAULT
           /\ pool' = [pool EXCEPT ![node] =
                          [weight |-> IF page.idle < 0 THEN @.weight
                                      ELSE Score(page.idle, page.idle + page.busy),
                           status |-> "READY"]]
        BY <1>7 DEF ScorePage
  <2>2. page.idle \in Int /\ page.idle + page.busy \in Int
        BY RetrievedTypes
  <2>3. PICK weight : weight = IF page.idle < 0 THEN pool[node].weight
                               ELSE Score(page.idle, page.idle + page.busy)
        OBVIOUS
  <2>4. weight \in Int
        BY <1>2, <2>1, <2>2, <2>3, ScoreType DEF Pools
  <2>5. pool' = [pool EXCEPT ![node] = [weight |-> weight, status |-> "READY"]]
        BY <1>2, <2>1, <2>3
  <2>6. pool' \in Pools
        BY <1>2, <2>4, <2>5 DEF Pools, Status
  <2> QED
      BY <1>3, <1>7, <2>6 DEF ScorePage
<1>8. CASE ScoreKills
      BY <1>1, <1>8 DEF ScoreKills, UpdaterOK, CircularOK, circularVars
<1>9. CASE FreeBuffer
      BY <1>1, <1>9 DEF FreeBuffer, UpdaterOK, CircularOK
<1>10. CASE WeighServers
  <2>1. w_servers' \in Seq(Entries)
        BY <1>1, <1>2, <1>10, PatternTypes DEF WeighServers, UpdaterOK
  <2>2. upc' \in {"allocate", "returned", "spin"}
        BY <1>10 DEF WeighServers
  <2> QED
      BY <1>1, <1>10, <2>1, <2>2 DEF WeighServers, UpdaterOK, CircularOK, circularVars
<1>11. CASE AllocateBuffer
  <2>1. w_servers \in Seq(Entries) /\ w_servers # <<>>
        BY <1>1, <1>11 DEF UpdaterOK, UpdaterInv, AllocateBuffer
  <2>2. Len(w_servers) \in Nat \ {0}
        BY <2>1
  <2>3. PICK L \in Nat \ {0} : L = Len(w_servers)
        BY <2>2
  <2>4. /\ buffer' = w_servers /\ Len(buffer') = L /\ freed' = FALSE /\ head' = 0 /\ tail' = L - 1
        /\ buffer_position' = buffer_position
        BY <1>11, <2>3 DEF AllocateBuffer
  <2>5. head' \in 0 .. Len(buffer') - 1 /\ tail' \in 0 .. Len(buffer') - 1
        BY <2>4
  <2>6. CircularOK'
        BY <1>1, <2>1, <2>4, <2>5 DEF CircularOK
  <2> QED
      BY <1>1, <1>11, <2>6 DEF AllocateBuffer, UpdaterOK
<1> QED
    BY <1>4, <1>5, <1>6, <1>7, <1>8, <1>9, <1>10, <1>11 DEF Updater

LEMMA TypeStep ==
    ASSUME TypeOK, ManagerInv, UpdaterInv, [Next]_vars
    PROVE  TypeOK'
<1>1. CircularOK /\ ManagerOK /\ UpdaterOK
      BY TypeParts
<1>2. ASSUME UNCHANGED updaterVars PROVE UpdaterOK'
      BY <1>1, <1>2 DEF updaterVars, UpdaterOK
<1>3. ASSUME Updater PROVE ManagerOK'
  <2>1. UNCHANGED <<mutex, managerVars>>
        BY <1>3 DEF Updater, StartUpdate, ScoreDown, ScoreUnreadable, ScorePage, ScoreKills, Scored,
                    FreeBuffer, WeighServers, AllocateBuffer
  <2>2. mpc = "scan" => buffer' = buffer
        BY <1>3 DEF ManagerInv, Updater, StartUpdate, ScoreDown, ScoreUnreadable, ScorePage, ScoreKills,
                    Scored, FreeBuffer, WeighServers, AllocateBuffer, circularVars
  <2> QED
      BY <1>1, <2>1, <2>2 DEF ManagerOK, managerVars
<1>4. CASE Manager
  <2>1. UNCHANGED updaterVars
        BY <1>4 DEF Manager, GetServer, TakeServer, NextServer, GiveUp
  <2>2. CircularOK' /\ ManagerOK'
        BY <1>4, ManagerTypes
  <2>3. UpdaterOK'
        BY <1>2, <2>1
  <2> QED
      BY <2>2, <2>3 DEF TypeOK, CircularOK, ManagerOK, UpdaterOK
<1>5. CASE Updater
  <2>1. CircularOK' /\ UpdaterOK'
        BY <1>5, UpdaterTypes
  <2> QED
      BY <1>3, <1>5, <2>1 DEF TypeOK, CircularOK, ManagerOK, UpdaterOK
<1>6. CASE UNCHANGED vars
      BY <1>6 DEF vars, circularVars, managerVars, updaterVars, TypeOK
<1> QED
    BY <1>4, <1>5, <1>6 DEF Next
-----------------------------------------------------------------------------
(* The scan                                                                *)

LEMMA ManagerStep ==
    ASSUME TypeOK, ManagerInv, [Next]_vars
    PROVE  ManagerInv'
<1>1. CASE GetServer
  <2>1. mutex' = "manager" /\ mpc' = "scan" /\ buffer' = buffer /\ Progress /\ synced' = (head = buffer_position)
        BY <1>1 DEF GetServer
  <2>2. head' = buffer_position' /\ tail' = head /\ (synced' => head' = Following(head))
        BY <2>1, ProgressIs
  <2> QED
      BY <2>1, <2>2 DEF ManagerInv, Following
<1>2. CASE TakeServer
      BY <1>2 DEF TakeServer, ManagerInv
<1>3. CASE NextServer
  <2>1. mutex' = mutex /\ mpc' = mpc /\ mpc = "scan" /\ buffer' = buffer /\ Progress /\ synced' = synced
        BY <1>3 DEF NextServer
  <2>2. head' = buffer_position' /\ tail' = head /\ head' = Following(head)
        BY <2>1, ProgressIs DEF ManagerInv
  <2> QED
      BY <2>1, <2>2 DEF ManagerInv, Following
<1>4. CASE GiveUp
      BY <1>4 DEF GiveUp, ManagerInv
<1>5. CASE Updater
  <2>1. UNCHANGED <<mutex, managerVars>>
        BY <1>5 DEF Updater, StartUpdate, ScoreDown, ScoreUnreadable, ScorePage, ScoreKills, Scored,
                    FreeBuffer, WeighServers, AllocateBuffer
  <2>2. mpc = "scan" => buffer' = buffer /\ head' = head /\ tail' = tail /\ buffer_position' = buffer_position
        BY <1>5 DEF ManagerInv, Updater, StartUpdate, ScoreDown, ScoreUnreadable, ScorePage, ScoreKills,
                    Scored, FreeBuffer, WeighServers, AllocateBuffer, circularVars
  <2> QED
      BY <2>1, <2>2 DEF ManagerInv, Following, managerVars
<1>6. CASE UNCHANGED vars
      BY <1>6 DEF vars, circularVars, managerVars, ManagerInv, Following
<1> QED
    BY <1>1, <1>2, <1>3, <1>4, <1>5, <1>6 DEF Next, Manager

LEMMA ScanStep ==
    ASSUME TypeOK, ManagerInv, ScanInv, [Next]_vars
    PROVE  ScanInv'
<1>1. CASE GetServer
  <2> SUFFICES ASSUME ~touched' PROVE /\ ready' = buffer'[tail' + 1]
                                     /\ \A p \in 0 .. Len(buffer') - 1 : ~Passed(p)'
      BY DEF ScanInv
  <2>1. ~freed /\ buffer' = buffer /\ not_available' = 0 /\ Progress
        BY <1>1 DEF GetServer
  <2>2. ready' = buffer[tail' + 1]
        BY <1>1, <2>1, ReadIs DEF GetServer, ReadTail
  <2>3. PICK L \in Nat : L = Len(buffer) /\ L = Len(buffer')
        BY <2>1, Types
  <2>4. tail' \in 0 .. L - 1
        BY <2>1, <2>3, ProgressIs
  <2>5. ASSUME NEW p \in 0 .. L - 1, Passed(p)' PROVE FALSE
    <3>1. \/ p < tail' /\ tail' - p <= 0
          \/ p > tail' /\ tail' + L - p <= 0
          BY <2>1, <2>3, <2>5 DEF Passed
    <3>2. PICK t \in 0 .. L - 1 : t = tail'
          BY <2>4
    <3>3. \/ p < t /\ t - p <= 0
          \/ p > t /\ t + L - p <= 0
          BY <3>1, <3>2
    <3>4. ~(p < t /\ t - p <= 0)
          OBVIOUS
    <3>5. ~(p > t /\ t + L - p <= 0)
          OBVIOUS
    <3> QED
        BY <3>3, <3>4, <3>5
  <2> QED
      BY <2>1, <2>2, <2>3, <2>5
<1>2. CASE NextServer
  <2> SUFFICES ASSUME ~touched'
               PROVE  /\ ready' = buffer'[tail' + 1]
                      /\ synced' => \A p \in 0 .. Len(buffer') - 1 :
                                       Passed(p)' => buffer'[p + 1].status # "READY"
      BY DEF ScanInv
  <2>1. /\ ~freed /\ ~touched /\ buffer' = buffer /\ not_available' = not_available + 1 /\ Progress
        /\ mpc = "scan" /\ ready.status # "READY" /\ synced' = synced
        BY <1>2, Types DEF NextServer, TypeOK
  <2>2. ready' = buffer[tail' + 1]
        BY <1>2, <2>1, ReadIs DEF NextServer, ReadTail
  <2>3. PICK L \in Nat \ {0} : L = Len(buffer)
        BY Types
  <2>4. /\ tail \in 0 .. L - 1 /\ not_available \in Nat
        /\ synced => tail' = IF tail = L - 1 THEN 0 ELSE tail + 1
        BY <2>1, <2>3, ProgressIs, Types DEF ManagerInv, Following
  <2>5. buffer[tail + 1].status # "READY"
        BY <2>1 DEF ScanInv
  <2>6. ASSUME synced, NEW p \in 0 .. L - 1, Passed(p)' PROVE p = tail \/ Passed(p)
    <3>1. \/ p < tail' /\ tail' - p <= not_available + 1
          \/ p > tail' /\ tail' + L - p <= not_available + 1
          BY <2>1, <2>3, <2>6 DEF Passed
    <3>2. CASE tail = L - 1
      <4>1. tail' = 0
            BY <2>4, <2>6, <3>2
      <4> QED
          BY <2>3, <2>4, <2>6, <3>1, <3>2, <4>1 DEF Passed
    <3>3. CASE tail # L - 1
      <4>1. tail' = tail + 1
            BY <2>4, <2>6, <3>3
      <4> QED
          BY <2>3, <2>4, <2>6, <3>1, <3>3, <4>1 DEF Passed
    <3> QED
        BY <3>2, <3>3
  <2>7. synced => \A p \in 0 .. L - 1 : Passed(p) => buffer[p + 1].status # "READY"
        BY <2>1, <2>3 DEF ScanInv
  <2> QED
      BY <2>1, <2>2, <2>3, <2>5, <2>6, <2>7
<1>3. CASE TakeServer
      BY <1>3 DEF TakeServer, ScanInv
<1>4. CASE GiveUp
      BY <1>4 DEF GiveUp, ScanInv
<1>5. CASE Updater
  <2>1. UNCHANGED <<mutex, managerVars>>
        BY <1>5 DEF Updater, StartUpdate, ScoreDown, ScoreUnreadable, ScorePage, ScoreKills, Scored,
                    FreeBuffer, WeighServers, AllocateBuffer
  <2>2. mpc = "scan" => buffer' = buffer /\ tail' = tail
        BY <1>5 DEF ManagerInv, Updater, StartUpdate, ScoreDown, ScoreUnreadable, ScorePage, ScoreKills,
                    Scored, FreeBuffer, WeighServers, AllocateBuffer, circularVars
  <2> QED
      BY <2>1, <2>2 DEF ScanInv, Passed, managerVars
<1>6. CASE UNCHANGED vars
      BY <1>6 DEF vars, circularVars, managerVars, ScanInv, Passed
<1> QED
    BY <1>1, <1>2, <1>3, <1>4, <1>5, <1>6 DEF Next, Manager

LEMMA UpdaterStep ==
    ASSUME TypeOK, UpdaterInv, [Next]_vars
    PROVE  UpdaterInv'
<1> USE Size
<1>1. UpdaterOK
      BY TypeParts
<1>2. node \in 1 .. N /\ proceed \in -N .. 0 /\ (upc = "score" => proceed >= 1 - node)
      BY <1>1 DEF UpdaterOK, UpdaterInv
<1>3. ASSUME Scored, upc = "score", proceed' \in {proceed, proceed - 1}
      PROVE  UpdaterInv'
      BY <1>2, <1>3 DEF Scored, UpdaterInv
<1>4. ASSUME UNCHANGED updaterVars PROVE UpdaterInv'
      BY <1>4 DEF updaterVars, UpdaterInv
<1>5. CASE Manager
      BY <1>4, <1>5 DEF Manager, GetServer, TakeServer, NextServer, GiveUp
<1>6. CASE StartUpdate
      BY <1>6 DEF StartUpdate, UpdaterInv
<1>7. CASE ScoreDown \/ ScoreUnreadable \/ ScorePage
      BY <1>3, <1>7 DEF ScoreDown, ScoreUnreadable, ScorePage
<1>8. CASE ScoreKills \/ FreeBuffer \/ AllocateBuffer
      BY <1>8 DEF ScoreKills, FreeBuffer, AllocateBuffer, UpdaterInv
<1>9. CASE WeighServers
  <2>1. pool \in Pools
        BY <1>1 DEF UpdaterOK, Pools
  <2>2. upc' = "allocate" => w_servers' # <<>>
        BY <1>9, <2>1, PatternTypes DEF WeighServers
  <2>3. upc' # "score"
        BY <1>9 DEF WeighServers
  <2> QED
      BY <2>2, <2>3 DEF UpdaterInv
<1>10. CASE UNCHANGED vars
       BY <1>4, <1>10 DEF vars, updaterVars
<1> QED
    BY <1>5, <1>6, <1>7, <1>8, <1>9, <1>10 DEF Next, Updater

LEMMA LoadStep ==
    ASSUME TypeOK, ManagerInv, ScanInv, LoadInv, UniformLoad, [Next]_vars
    PROVE  LoadInv' /\ UniformLoad'
<1> USE Size
<1>1. picks \in [Servers -> Nat] /\ head \in 0 .. Len(buffer) - 1 /\ tail \in 0 .. Len(buffer) - 1
      BY DEF TypeOK
<1>2. ASSUME UNCHANGED picks PROVE UniformLoad'
      BY <1>2 DEF UniformLoad
<1>3. ASSUME updates = 0
      PROVE  /\ upc = "sleep" /\ ~freed /\ buffer = FirstBuffer /\ Len(buffer) = N
             /\ head = buffer_position
             /\ mpc = "scan" => ~touched /\ head = Following(tail)
             /\ \A s \in Servers : picks[s] = picks[N] + (IF s - 1 < Turn THEN 1 ELSE 0)
             /\ mpc = "scan" => ready = [server |-> tail + 1, status |-> "READY"]
  <2>1. LoadInv
        OBVIOUS
  <2>2. /\ upc = "sleep" /\ ~freed /\ buffer = FirstBuffer /\ head = buffer_position
        /\ mpc = "scan" => ~touched /\ head = Following(tail)
        /\ \A s \in Servers : picks[s] = picks[N] + (IF s - 1 < Turn THEN 1 ELSE 0)
        BY <1>3, <2>1 DEF LoadInv
  <2>3. Len(buffer) = N /\ \A i \in 1 .. N : buffer[i] = [server |-> i, status |-> "READY"]
        BY <2>2 DEF FirstBuffer
  <2>4. mpc = "scan" => ready = [server |-> tail + 1, status |-> "READY"]
        BY <1>1, <2>2, <2>3 DEF ScanInv
  <2> QED
      BY <2>2, <2>3, <2>4
<1>4. CASE GetServer
  <2> SUFFICES ASSUME updates = 0 PROVE LoadInv'
      BY <1>2, <1>4 DEF GetServer, LoadInv, updaterVars
  <2>1. /\ buffer' = buffer /\ freed' = freed /\ picks' = picks /\ upc' = upc /\ touched' = freed
        /\ mpc = "idle" /\ mpc' = "scan" /\ Progress
        BY <1>4 DEF GetServer, updaterVars
  <2>2. head' = buffer_position' /\ tail' = head /\ head' = Following(head)
        BY <1>3, <2>1, ProgressIs
  <2>3. Turn' = Turn /\ head' = Following(tail)'
        BY <2>1, <2>2 DEF Turn, Following
  <2> QED
      BY <1>3, <2>1, <2>2, <2>3 DEF LoadInv, FirstBuffer
<1>5. CASE TakeServer
  <2>1. CASE updates = 0
    <3>1. /\ mpc = "scan" /\ mpc' = "idle" /\ picks' = [picks EXCEPT ![ready.server] = @ + 1]
          /\ UNCHANGED <<circularVars, updaterVars, touched>>
          BY <1>5, <2>1 DEF TakeServer
    <3>2. ready.server = tail + 1 /\ tail \in 0 .. N - 1
          BY <1>1, <1>3, <2>1, <3>1
    <3>3. \A s \in Servers : picks'[s] = IF s = tail + 1 THEN picks[s] + 1 ELSE picks[s]
          BY <1>1, <3>1, <3>2
    <3>4. \A s \in Servers : picks[s] = picks[N] + (IF s - 1 < tail THEN 1 ELSE 0)
          BY <1>3, <2>1, <3>1 DEF Turn
    <3>5. Turn' = IF tail = N - 1 THEN 0 ELSE tail + 1
          BY <1>3, <2>1, <3>1 DEF Turn, Following, circularVars
    <3>6. N \in Servers /\ picks[N] \in Nat
          BY <1>1
    <3>7. \A s \in Servers : picks'[s] = picks'[N] + (IF s - 1 < Turn' THEN 1 ELSE 0)
      <4>1. CASE tail = N - 1
            BY <3>3, <3>4, <3>5, <3>6, <4>1
      <4>2. CASE tail # N - 1
            BY <3>2, <3>3, <3>4, <3>5, <3>6, <4>2
      <4> QED
          BY <4>1, <4>2
    <3>8. LoadInv'
          BY <1>3, <2>1, <3>1, <3>7 DEF LoadInv, circularVars, updaterVars, FirstBuffer
    <3>9. picks'[N] \in Nat
          BY <3>3, <3>6
    <3>10. UniformLoad'
           BY <3>7, <3>9, SMTT(30) DEF UniformLoad
    <3> QED
        BY <3>8, <3>10
  <2>2. CASE updates # 0
        BY <1>2, <1>5, <2>2 DEF TakeServer, LoadInv, updaterVars
  <2> QED
      BY <2>1, <2>2
<1>6. CASE NextServer \/ GiveUp
  <2>1. updates # 0
        BY <1>3, <1>6 DEF NextServer, GiveUp
  <2> QED
      BY <1>2, <1>6, <2>1 DEF NextServer, GiveUp, LoadInv, updaterVars
<1>7. CASE StartUpdate
  <2>1. updates' # 0 /\ picks' = picks
        BY <1>7 DEF StartUpdate, managerVars, TypeOK
  <2> QED
      BY <1>2, <2>1 DEF LoadInv
<1>8. CASE Updater /\ ~StartUpdate
  <2>1. upc # "sleep" /\ updates' = updates /\ picks' = picks
        BY <1>8 DEF Updater, ScoreDown, ScoreUnreadable, ScorePage, ScoreKills, Scored,
                    FreeBuffer, WeighServers, AllocateBuffer, managerVars
  <2> QED
      BY <1>2, <1>3, <2>1 DEF LoadInv
<1>9. CASE UNCHANGED vars
      BY <1>9 DEF vars, circularVars, managerVars, updaterVars, LoadInv, UniformLoad, FirstBuffer, Turn,
                  Following
<1> QED
    BY <1>4, <1>5, <1>6, <1>7, <1>8, <1>9 DEF Next, Manager
-----------------------------------------------------------------------------
(* The invariant, and what follows from it                                 *)

LEMMA InitInv == Init => IInv
<1> SUFFICES ASSUME Init PROVE IInv
    OBVIOUS
<1> USE Size
<1>1. pool = AllUp /\ pool \in Pools
      BY DEF Init, AllUp, Pools, WEIGHT_DEFAULT, Status
<1>2. buffer = FirstBuffer
      BY <1>1, FirstPattern DEF Init, FirstBuffer
<1>3. buffer \in Seq(Entries) /\ Len(buffer) = N /\ buffer[1] \in Entries
      BY <1>2 DEF FirstBuffer, Entries, Status
<1>4. buffer # <<>>
      BY <1>3
<1>5. CircularOK
  <2>1. freed = FALSE /\ buffer_position = 0 /\ head = 0 /\ tail = N - 1
        BY <1>3 DEF Init
  <2>2. head \in 0 .. Len(buffer) - 1 /\ tail \in 0 .. Len(buffer) - 1
        BY <1>3, <2>1
  <2> QED
      BY <1>3, <1>4, <2>1, <2>2 DEF CircularOK
<1>6. ManagerOK
  <2>1. /\ mutex = "none" /\ mpc = "idle" /\ ready = buffer[1] /\ not_available = 0 /\ calls = 0
        /\ picks = [s \in Servers |-> 0] /\ touched = FALSE /\ synced = TRUE
        BY DEF Init
  <2>2. calls \in 0 .. MaxPicks
        BY <2>1, RoundRobinAssumption
  <2> QED
      BY <1>3, <2>1, <2>2 DEF ManagerOK
<1>7. UpdaterOK
      BY <1>1, RoundRobinAssumption DEF Init, UpdaterOK, Pools
<1>8. TypeOK
      BY <1>5, <1>6, <1>7, TypeParts
<1>9. ManagerInv /\ ScanInv /\ UpdaterInv
      BY DEF Init, ManagerInv, ScanInv, UpdaterInv
<1>10. LoadInv
       BY <1>2 DEF Init, LoadInv, Turn
<1>11. UniformLoad
       BY DEF Init, UniformLoad
<1> QED
    BY <1>8, <1>9, <1>10, <1>11 DEF IInv

\* The invariant of the scheduler.
THEOREM Invariance == Spec => []IInv
<1>1. IInv /\ [Next]_vars => IInv'
      BY TypeStep, ManagerStep, ScanStep, UpdaterStep, LoadStep DEF IInv
<1> QED
    BY <1>1, InitInv, PTL DEF Spec

\* The tail and the head stay in the buffer, which is never empty, and a scan looks at no
\* more places than it has.
THEOREM TypeCorrect == Spec => []TypeOK
<1>1. IInv => TypeOK
      BY DEF IInv
<1> QED
    BY <1>1, Invariance, PTL

\* progress, get_server: until the first update no server is given two connections more
\* than another, however many there are.
THEOREM TurnsAreTaken == Spec => []UniformLoad
<1>1. IInv => UniformLoad
      BY DEF IInv
<1> QED
    BY <1>1, Invariance, PTL

\* allocate_buffer: no step of the updater replaces the buffer a scan walks.
THEOREM BufferKept == Spec => ScanKeepsBuffer
<1>1. IInv /\ [Next]_vars => [mpc = "scan" => buffer' = buffer]_vars
  <2> SUFFICES ASSUME IInv, Next, mpc = "scan" PROVE buffer' = buffer
      OBVIOUS
  <2> QED
      BY DEF IInv, ManagerInv, Next, Manager, GetServer, TakeServer, NextServer, GiveUp, Updater,
             StartUpdate, ScoreDown, ScoreUnreadable, ScorePage, ScoreKills, Scored, FreeBuffer,
             WeighServers, AllocateBuffer, circularVars
<1> QED
    BY <1>1, Invariance, PTL DEF Spec, ScanKeepsBuffer

\* get_server: a scan that began in step and met no reset has seen every place of the
\* buffer when it gives up, so no server in it is READY.
THEOREM ScanIsComplete == Spec => SyncedScanIsComplete
<1>1. IInv /\ [Next]_vars => [ReturnsBroken /\ synced /\ ~touched' => AllDown]_vars
  <2> SUFFICES ASSUME IInv, Next, ReturnsBroken, synced, ~touched' PROVE AllDown
      OBVIOUS
  <2>1. TypeOK /\ ScanInv
        BY DEF IInv
  <2>2. GiveUp
    <3>1. ASSUME TakeServer PROVE FALSE
          BY <3>1 DEF TakeServer, ReturnsBroken
    <3>2. ASSUME GetServer \/ NextServer PROVE FALSE
          BY <3>2 DEF GetServer, NextServer, ReturnsBroken
    <3>3. ASSUME Updater PROVE FALSE
      <4>1. UNCHANGED managerVars
            BY <3>3 DEF Updater, StartUpdate, ScoreDown, ScoreUnreadable, ScorePage, ScoreKills, Scored,
                        FreeBuffer, WeighServers, AllocateBuffer
      <4> QED
          BY <4>1 DEF managerVars, ReturnsBroken
    <3> QED
        BY <3>1, <3>2, <3>3 DEF Next, Manager
  <2>3. mpc = "scan" /\ ~touched /\ ready.status # "READY" /\ not_available + 1 = Len(buffer)
        BY <2>1, <2>2 DEF GiveUp, TypeOK
  <2>4. PICK L \in Nat \ {0} : L = Len(buffer)
        BY <2>1, Types
  <2>5. tail \in 0 .. L - 1 /\ not_available = L - 1 /\ buffer[tail + 1].status # "READY"
        BY <2>1, <2>3, <2>4, Types, SMTT(30) DEF ScanInv
  <2>6. ASSUME NEW p \in 0 .. L - 1 PROVE buffer[p + 1].status # "READY"
    <3>1. p = tail \/ Passed(p)
          BY <2>4, <2>5 DEF Passed
    <3> QED
        BY <2>1, <2>3, <2>4, <2>5, <3>1 DEF ScanInv
  <2>7. ASSUME NEW i \in DOMAIN buffer PROVE buffer[i].status = "BROKEN"
    <3>1. i \in 1 .. L /\ buffer[i] \in Entries
          BY <2>1, <2>4, Types
    <3>2. i - 1 \in 0 .. L - 1 /\ (i - 1) + 1 = i
          BY <3>1
    <3>3. buffer[i].status # "READY"
          BY <2>6, <3>2
    <3> QED
        BY <3>1, <3>3 DEF Entries, Status
  <2> QED
      BY <2>7 DEF AllDown
<1> QED
    BY <1>1, Invariance, PTL DEF Spec, SyncedScanIsComplete

\* weight_servers: a pattern is made for the weights the servers still have when it is
\* installed, and however they are sorted and summed, one that is finished has each server
\* as often as its weight says.
THEOREM WeightsAreFollowed == Spec => []PatternFollowsWeights
<1> DEFINE Made == upc = "allocate" => PatternEnds(pool) /\ w_servers = Pattern(pool)
<1>1. Init => Made
      BY DEF Init
<1>2. Made /\ [Next]_vars => Made'
  <2> SUFFICES ASSUME Made, [Next]_vars, upc' = "allocate"
               PROVE  PatternEnds(pool)' /\ w_servers' = Pattern(pool)'
      OBVIOUS
  <2>1. PICK p : p = pool
        OBVIOUS
  <2>2. pool' = p /\ PatternEnds(p) /\ w_servers' = Pattern(p)
    <3>1. CASE WeighServers
          BY <2>1, <3>1 DEF WeighServers
    <3>2. CASE UNCHANGED updaterVars
          BY <2>1, <3>2 DEF updaterVars
    <3>3. \/ WeighServers \/ UNCHANGED updaterVars \/ upc' # "allocate"
          BY DEF Next, Manager, GetServer, TakeServer, NextServer, GiveUp, Updater, StartUpdate,
                 ScoreDown, ScoreUnreadable, ScorePage, ScoreKills, Scored, FreeBuffer,
                 AllocateBuffer, vars
    <3> QED
        BY <3>1, <3>2, <3>3
  <2> QED
      BY <2>2
<1>3. IInv /\ Made => PatternFollowsWeights
  <2> SUFFICES ASSUME IInv, Made, upc = "allocate",
                      \A s \in Servers : pool[s].weight \in 0 .. WEIGHT_MAXIMUM, NEW s \in Servers
               PROVE  LET places == {i \in DOMAIN w_servers : w_servers[i].server = s} IN
                      /\ Cardinality(places) = pool[s].weight
                      /\ \A i \in places : w_servers[i].status = pool[s].status
      BY DEF PatternFollowsWeights
  <2>1. pool \in Pools
        BY DEF IInv, TypeOK, Pools
  <2> QED
      BY <2>1, PatternHolds
<1> HIDE DEF Made
<1> QED
    BY <1>1, <1>2, <1>3, Invariance, PTL DEF Spec
-----------------------------------------------------------------------------
(* The weights                                                             *)

\* receive_http, get_http_response, parse_apache_status, apache_score: a weight is the
\* least one or the score of a page that a server has, wherever the transfers of pages
\* break off.
THEOREM WeightsAreThoseServed == Spec => []WeightsAreServed
<1> DEFINE Scores == {WEIGHT_DEFAULT}
                     \cup {Score(page.idle, page.idle + page.busy) :
                              page \in {p \in StatusPages : p.idle >= 0 /\ p.idle + p.busy # WEIGHT_DEFAULT}}
           Served == \A s \in Servers : pool[s].weight \in Scores
<1>1. Init => Served
      BY DEF Init
<1>2. ASSUME TypeOK, Served, [Next]_vars PROVE Served'
  <2> SUFFICES ASSUME NEW s \in Servers PROVE pool'[s].weight \in Scores
      OBVIOUS
  <2>1. pool \in Pools /\ node \in Servers /\ pool[s].weight \in Scores
        BY <1>2 DEF TypeOK, Pools
  <2>2. WEIGHT_DEFAULT \in Scores
        OBVIOUS
  <2>3. CASE ScoreDown
    <3>1. pool' = [pool EXCEPT ![node] = [weight |-> WEIGHT_DEFAULT, status |-> "BROKEN"]]
          BY <2>3 DEF ScoreDown
    <3> HIDE DEF Scores
    <3> QED
        BY <2>1, <2>2, <3>1 DEF Pools
  <2>4. CASE ScoreUnreadable
    <3>1. pool' = [pool EXCEPT ![node].status = "READY"]
          BY <2>4 DEF ScoreUnreadable
    <3> HIDE DEF Scores
    <3> QED
        BY <2>1, <3>1 DEF Pools
  <2>5. CASE ScorePage
    <3>1. PICK report \in Retrieved :
             /\ report.idle < 0 \/ report.idle + report.busy # WEIGHT_DEFAULT
             /\ pool' = [pool EXCEPT ![node] =
                           [weight |-> IF report.idle < 0 THEN @.weight
                                       ELSE Score(report.idle, report.idle + report.busy),
                            status |-> "READY"]]
          BY <2>5 DEF ScorePage
    <3>2. report.idle \in Int /\ report.busy \in Int
          BY RetrievedTypes
    <3>3. CASE s # node
      <4> HIDE DEF Scores
      <4> QED
          BY <2>1, <3>1, <3>3 DEF Pools
    <3>4. CASE s = node /\ report.idle < 0
      <4> HIDE DEF Scores
      <4> QED
          BY <2>1, <3>1, <3>4 DEF Pools
    <3>5. CASE s = node /\ ~(report.idle < 0)
      <4>1. PICK page \in StatusPages : page.idle = report.idle /\ page.busy = report.busy
            BY <3>2, <3>5, RetrievedServed
      <4>2. page.idle >= 0 /\ page.idle + page.busy # WEIGHT_DEFAULT
            BY <3>1, <3>2, <3>5, <4>1
      <4>3. Score(page.idle, page.idle + page.busy) \in Scores
            BY <4>2, Zenon
      <4>4. pool'[s].weight = Score(page.idle, page.idle + page.busy)
            BY <2>1, <3>1, <3>5, <4>1 DEF Pools
      <4> QED
          BY <4>3, <4>4
    <3> QED
        BY <3>3, <3>4, <3>5
  <2>6. CASE UNCHANGED pool
        BY <2>1, <2>6
  <2> QED
      BY <1>2, <2>3, <2>4, <2>5, <2>6
      DEF Next, Manager, GetServer, TakeServer, NextServer, GiveUp, Updater, StartUpdate, ScoreKills,
          FreeBuffer, WeighServers, AllocateBuffer, updaterVars, vars
<1>3. Served => WeightsAreServed
      BY DEF WeightsAreServed
<1> HIDE DEF Served
<1>4. TypeOK /\ Served /\ [Next]_vars => Served'
      BY <1>2
<1> QED
    BY <1>1, <1>3, <1>4, TypeCorrect, PTL DEF Spec
-----------------------------------------------------------------------------
(* The weights of large servers                                            *)

\* apache_score: with more than five workers the score is in [w, W].
LEMMA ScoreRange ==
    ASSUME NEW idle \in Nat, NEW busy \in Nat, idle + busy > WEIGHT_MAXIMUM
    PROVE  Score(idle, idle + busy) \in WEIGHT_DEFAULT .. WEIGHT_MAXIMUM
<1>1. PICK b \in Nat : b = idle + busy - 1 /\ b > 4 /\ idle - 1 <= b
      BY DEF WEIGHT_MAXIMUM
<1>2. PICK a \in Int : a = (idle - 1) * 4 /\ a <= 4 * b /\ (a < 0 <=> idle = 0)
      BY <1>1
<1>3. Score(idle, idle + busy) = Quotient(a, b) + 1
      BY <1>1, <1>2 DEF Score, WEIGHT_DEFAULT, WEIGHT_MAXIMUM
<1>4. Quotient(a, b) \in 0 .. 4
  <2>1. CASE idle = 0
    <3>1. a \in Int /\ a + 4 = 0
          BY <1>2, <2>1
    <3>2. Abs(a) = 4
      <4>1. Abs(a) = -a
            BY <3>1 DEF Abs
      <4> QED
          BY <3>1, <4>1
    <3>3. Abs(b) = b /\ ~(b < 0) /\ a < 0
          BY <1>1, <3>1 DEF Abs
    <3>4. 4 \div b = 0
          BY <1>1
    <3> QED
        BY <3>2, <3>3, <3>4 DEF Quotient
  <2>2. CASE idle # 0
    <3>1. a \in Nat /\ Abs(a) = a /\ Abs(b) = b
          BY <1>1, <1>2, <2>2 DEF Abs
    <3>2. b > 0 /\ a <= 4 * b
          BY <1>1, <1>2
    <3>3. a \div b \in 0 .. 4
      <4>1. \A m, n \in Nat : n > 0 /\ m <= 4 * n => m \div n \in 0 .. 4
            OBVIOUS
      <4>2. b \in Nat /\ a \in Nat
            BY <3>1
      <4> QED
          BY ONLY <3>2, <4>1, <4>2
    <3> QED
        BY <1>1, <1>2, <3>1, <3>3 DEF Quotient
  <2> QED
      BY <2>1, <2>2
<1> QED
    BY <1>3, <1>4 DEF WEIGHT_DEFAULT, WEIGHT_MAXIMUM

\* Every server has more than five workers.
LargeServers ==
    \A page \in StatusPages : page.idle >= 0 =>
        page.busy >= 0 /\ page.idle + page.busy > WEIGHT_MAXIMUM

\* The buffer has each server at least once.
EveryServerInBuffer == \A s \in Servers : \E i \in DOMAIN buffer : buffer[i].server = s

\* apache_score, weight_servers: among servers with more than five workers no load keeps one
\* of them out of the buffer.
THEOREM NobodyLeftOut ==
    ASSUME LargeServers
    PROVE  Spec => [](PatternFollowsWeights /\ EveryServerInBuffer)
<1> DEFINE Ranged == \A s \in Servers : pool[s].weight \in WEIGHT_DEFAULT .. WEIGHT_MAXIMUM
<1>1. Init => Ranged /\ EveryServerInBuffer
  <2> SUFFICES ASSUME Init PROVE Ranged /\ EveryServerInBuffer
      OBVIOUS
  <2>1. pool = AllUp /\ buffer = FirstBuffer
        BY FirstPattern DEF Init, AllUp, FirstBuffer
  <2>2. Ranged
        BY <2>1 DEF AllUp, WEIGHT_DEFAULT, WEIGHT_MAXIMUM
  <2>3. EveryServerInBuffer
        BY <2>1 DEF EveryServerInBuffer, FirstBuffer, Servers
  <2> QED
      BY <2>2, <2>3
<1>2. ASSUME TypeOK, Ranged, Next PROVE Ranged'
  <2> SUFFICES ASSUME NEW s \in Servers PROVE pool'[s].weight \in WEIGHT_DEFAULT .. WEIGHT_MAXIMUM
      OBVIOUS
  <2>1. pool \in Pools /\ node \in Servers /\ pool[s].weight \in WEIGHT_DEFAULT .. WEIGHT_MAXIMUM
        BY <1>2 DEF TypeOK, Pools
  <2>2. CASE ScoreDown
        BY <2>1, <2>2 DEF ScoreDown, Pools, WEIGHT_DEFAULT, WEIGHT_MAXIMUM
  <2>3. CASE ScoreUnreadable
        BY <2>1, <2>3 DEF ScoreUnreadable, Pools
  <2>4. CASE ScorePage
    <3>1. PICK page \in Retrieved :
             pool' = [pool EXCEPT ![node] =
                           [weight |-> IF page.idle < 0 THEN @.weight
                                       ELSE Score(page.idle, page.idle + page.busy),
                            status |-> "READY"]]
          BY <2>4 DEF ScorePage
    <3>2. page.idle \in Int /\ page.busy \in Int
          BY RetrievedTypes
    <3>3. CASE s # node
          BY <2>1, <3>1, <3>3 DEF Pools
    <3>4. CASE s = node /\ page.idle < 0
          BY <2>1, <3>1, <3>4 DEF Pools
    <3>5. CASE s = node /\ ~(page.idle < 0)
      <4>1. page.idle \in Nat /\ page.busy \in Nat /\ page.idle + page.busy > WEIGHT_MAXIMUM
            BY <3>2, <3>5, RetrievedServed DEF LargeServers
      <4>2. Score(page.idle, page.idle + page.busy) \in WEIGHT_DEFAULT .. WEIGHT_MAXIMUM
            BY <4>1, ScoreRange
      <4>3. pool'[s].weight = Score(page.idle, page.idle + page.busy)
            BY <2>1, <3>1, <3>5 DEF Pools
      <4> QED
          BY <4>2, <4>3
    <3> QED
        BY <3>3, <3>4, <3>5
  <2>5. CASE UNCHANGED pool
        BY <2>1, <2>5
  <2> QED
      BY <1>2, <2>2, <2>3, <2>4, <2>5
      DEF Next, Manager, GetServer, TakeServer, NextServer, GiveUp, Updater, StartUpdate, ScoreKills,
          FreeBuffer, WeighServers, AllocateBuffer, updaterVars
<1>3. ASSUME PatternFollowsWeights, Ranged, EveryServerInBuffer, Next PROVE EveryServerInBuffer'
  <2>1. CASE AllocateBuffer
    <3> SUFFICES ASSUME NEW s \in Servers
                 PROVE  \E i \in DOMAIN w_servers : w_servers[i].server = s
        BY <2>1 DEF AllocateBuffer, EveryServerInBuffer
    <3> DEFINE places == {i \in DOMAIN w_servers : w_servers[i].server = s}
    <3>1. \A u \in Servers : pool[u].weight \in 0 .. WEIGHT_MAXIMUM
          BY <1>3 DEF WEIGHT_DEFAULT, WEIGHT_MAXIMUM
    <3>2. Cardinality(places) = pool[s].weight
          BY <1>3, <2>1, <3>1 DEF PatternFollowsWeights, AllocateBuffer
    <3>3. Cardinality(places) # 0
          BY <1>3, <3>2 DEF WEIGHT_DEFAULT, WEIGHT_MAXIMUM
    <3>4. places # {}
          BY <3>3, FS_EmptySet
    <3> QED
        BY <3>4
  <2>2. CASE UNCHANGED buffer
        BY <1>3, <2>2 DEF EveryServerInBuffer
  <2> QED
      BY <1>3, <2>1, <2>2
      DEF Next, Manager, GetServer, TakeServer, NextServer, GiveUp, Updater, StartUpdate, ScoreDown,
          ScoreUnreadable, ScorePage, ScoreKills, Scored, FreeBuffer, WeighServers, circularVars
<1>4. ASSUME UNCHANGED vars, Ranged, EveryServerInBuffer PROVE Ranged' /\ EveryServerInBuffer'
      BY <1>4 DEF vars, circularVars, updaterVars, EveryServerInBuffer
<1>5. TypeOK /\ PatternFollowsWeights /\ Ranged /\ EveryServerInBuffer /\ [Next]_vars
          => Ranged' /\ EveryServerInBuffer'
      BY <1>2, <1>3, <1>4
<1> HIDE DEF Ranged
<1> QED
    BY <1>1, <1>5, TypeCorrect, WeightsAreFollowed, PTL DEF Spec
=============================================================================
