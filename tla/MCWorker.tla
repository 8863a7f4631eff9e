------------------------------ MODULE MCWorker ------------------------------
(* Worker on small instances.                                              *)
EXTENDS Worker
=============================================================================
