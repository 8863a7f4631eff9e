----------------------------- MODULE MCLifetime -----------------------------
(* Lifetime on small instances.                                            *)
EXTENDS Lifetime, TLC
=============================================================================
