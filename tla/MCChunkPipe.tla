----------------------------- MODULE MCChunkPipe -----------------------------
(* ChunkPipe on small bodies.                                               *)
EXTENDS ChunkPipe

\* Bodies of no bytes to three chunks, and a response that does not say.
SmallLengths == -1 .. 6
=============================================================================
