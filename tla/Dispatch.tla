------------------------------ MODULE Dispatch ------------------------------
(***************************************************************************)
(* What the connection pool of Heimdall promises: a client connection is   *)
(* accepted, waits, is given to one worker process, is served by that      *)
(* worker and by no other, and is closed.  A worker has one connection at  *)
(* a time.  How connections wait, how a worker is chosen and how the       *)
(* descriptor travels to it are left to ConnectionPool, which implements   *)
(* this specification.                                                     *)
(***************************************************************************)
EXTENDS Naturals, FiniteSets

CONSTANTS Conns,     \* the client connections
          Procs,     \* the worker processes
          Manager,   \* the process that accepts and hands over
          NoProc     \* the owner of a connection that has none

VARIABLES stage,     \* how far each connection has come
          owner,     \* the worker each connection was given to
          dead       \* the processes that are gone

dvars == <<stage, owner, dead>>

\* The connections worker w has been given and is not done with.
Owned(w) == {c \in Conns : owner[c] = w /\ stage[c] \in {"given", "served"}}

\* The connections the death of p can close: those it holds a descriptor of.
Held(p) == IF p = Manager THEN {c \in Conns : stage[c] \in {"waiting", "given"}}
                          ELSE Owned(p)

DInit == /\ stage = [c \in Conns |-> "pending"]
         /\ owner = [c \in Conns |-> NoProc]
         /\ dead \in SUBSET Procs

Accept(c) == /\ stage[c] = "pending"
             /\ Manager \notin dead
             /\ stage' = [stage EXCEPT ![c] = "waiting"]
             /\ UNCHANGED <<owner, dead>>

Give(c, w) == /\ stage[c] = "waiting"
              /\ Manager \notin dead
              /\ Owned(w) = {}
              /\ stage' = [stage EXCEPT ![c] = "given"]
              /\ owner' = [owner EXCEPT ![c] = w]
              /\ UNCHANGED dead

Serve(c) == /\ stage[c] = "given"
            /\ owner[c] \notin dead
            /\ stage' = [stage EXCEPT ![c] = "served"]
            /\ UNCHANGED <<owner, dead>>

Close(c) == /\ stage[c] = "served"
            /\ owner[c] \notin dead
            /\ stage' = [stage EXCEPT ![c] = "closed"]
            /\ owner' = [owner EXCEPT ![c] = NoProc]
            /\ UNCHANGED dead

\* A process dies, and connections it held are closed with it.  This is the
\* only way to lose a connection.
Die(p) == /\ p \notin dead
          /\ dead' = dead \cup {p}
          /\ \E lost \in SUBSET Held(p) :
               /\ stage' = [c \in Conns |-> IF c \in lost THEN "closed" ELSE stage[c]]
               /\ owner' = [c \in Conns |-> IF c \in lost THEN NoProc ELSE owner[c]]

DNext == \/ \E c \in Conns : Accept(c) \/ Serve(c) \/ Close(c)
         \/ \E c \in Conns, w \in Procs : Give(c, w)
         \/ \E p \in Procs \cup {Manager} : Die(p)

DSpec == DInit /\ [][DNext]_dvars

=============================================================================
