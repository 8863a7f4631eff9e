-------------------------- MODULE MCConnectionPool --------------------------
(* ConnectionPool on small instances.                                      *)
EXTENDS ConnectionPool, TLC

CONSTANTS c1, c2, c3, s1, s2

\* The names of connections and of servers are interchangeable.
Symmetry == Permutations(Conns) \cup Permutations(Servers)
=============================================================================
