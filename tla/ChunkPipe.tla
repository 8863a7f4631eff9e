----------------------------- MODULE ChunkPipe -----------------------------
(***************************************************************************)
(* The body of one response on its way through a worker.                   *)
(*                                                                         *)
(* The request thread reads the body from the server into the chunk of its *)
(* node (receive_http_chunks), the writer sends what it finds there to the *)
(* client (send_http_chunks).  chunk->wrote says whose turn it is: TRUE,   *)
(* the request thread may fill the chunk; FALSE, the writer may send it.   *)
(* Both work, and block on their sockets, with the mutex of the chunk      *)
(* held.  Once the writer is through it destroys the node.                 *)
(*                                                                         *)
(* A byte is its offset in the body.  Locking the mutex and testing wrote, *)
(* up to the cond_wait that gives the mutex back, is one action.           *)
(***************************************************************************)
EXTENDS Integers

CONSTANTS Lengths,         \* what Content-Length may say; -1 if it is not there
          MAX_CHUNK_SIZE

ASSUME ChunkPipeAssumption ==
    /\ Lengths \subseteq Nat \cup {-1}
    /\ MAX_CHUNK_SIZE \in Nat \ {0}

VARIABLES
    req_content_len,             \* of the response
    wrote, dimen,                \* chunk
    data,                        \* chunk->data: the offset of its first byte
    mutex,                       \* who holds chunk->mutex
    rpc, total_received,         \* receive_http_chunks
    spc, total_sent,             \* send_http_chunks, then destroy_request_node
    in_order                     \* history: the client has had no byte out of its place

chunkVars == <<wrote, dimen, data, mutex>>
vars == <<req_content_len, chunkVars, rpc, total_received, spc, total_sent, in_order>>

\* new_chunk; the header of the response is in, and its length with it.
Init ==
    /\ req_content_len \in Lengths
    /\ wrote = TRUE /\ dimen = 0 /\ data = 0
    /\ mutex = "none"
    /\ rpc = "start" /\ total_received = 0
    /\ spc = "lock" /\ total_sent = 0
    /\ in_order = TRUE

\* pthread_cond_signal(&chunk->condition): of the two threads, the other is woken.
SignalSender   == spc' = IF spc = "wait" THEN "lock" ELSE spc
SignalReceiver == rpc' = IF rpc = "wait" THEN "lock" ELSE rpc
-----------------------------------------------------------------------------
(* The request thread: receive_http_chunks                                 *)

\* A response without a length is not received at all, and nobody is told.
ReceiverStarts ==
    /\ rpc = "start"
    /\ rpc' = IF req_content_len = -1 THEN "failed" ELSE "lock"
    /\ UNCHANGED <<req_content_len, chunkVars, total_received, spc, total_sent, in_order>>

\* Lock, and wait until the chunk has been sent.
ReceiverLocksUnasked ==
    /\ rpc = "lock"
    /\ mutex = "none"
    /\ mutex' = "receiver" /\ rpc' = "read"
    /\ UNCHANGED <<req_content_len, wrote, dimen, data, total_received, spc, total_sent, in_order>>

ReceiverLocks ==
    /\ rpc = "lock"
    /\ mutex = "none"
    /\ IF wrote THEN mutex' = "receiver" /\ rpc' = "read"
                ELSE UNCHANGED mutex /\ rpc' = "wait"
    /\ UNCHANGED <<req_content_len, wrote, dimen, data, total_received, spc, total_sent, in_order>>

\* What read is asked for: a chunk, or what is missing if that is less.
SizeUncapped == req_content_len - total_received
Size == IF req_content_len - total_received >= MAX_CHUNK_SIZE THEN MAX_CHUNK_SIZE
                                                             ELSE req_content_len - total_received

\* Some bytes come: fill the chunk, signal, unlock, and go on until all have come.
ReceiverFillsUnsignalled ==
    /\ rpc = "read"
    /\ \E n \in 1 .. Size : dimen' = n /\ total_received' = total_received + n
    /\ data' = total_received /\ wrote' = FALSE
    /\ mutex' = "none"
    /\ rpc' = IF total_received' = req_content_len THEN "out" ELSE "lock"
    /\ UNCHANGED <<req_content_len, spc, total_sent, in_order>>

ReceiverFills ==
    /\ rpc = "read"
    /\ \E n \in 1 .. Size : dimen' = n /\ total_received' = total_received + n
    /\ data' = total_received /\ wrote' = FALSE
    /\ SignalSender
    /\ mutex' = "none"
    /\ rpc' = IF total_received' = req_content_len THEN "out" ELSE "lock"
    /\ UNCHANGED <<req_content_len, total_sent, in_order>>

\* End of file, or a body of no bytes: signal and unlock, with wrote still TRUE.
ReceiverEof ==
    /\ rpc = "read"
    /\ SignalSender
    /\ mutex' = "none"
    /\ rpc' = "unlock"
    /\ UNCHANGED <<req_content_len, wrote, dimen, data, total_received, total_sent, in_order>>

\* After the loop it unlocks once more, whoever holds the mutex by now.
ReceiverUnlocksAgain ==
    /\ rpc = "unlock"
    /\ mutex' = "none"
    /\ rpc' = "out"
    /\ UNCHANGED <<req_content_len, wrote, dimen, data, total_received, spc, total_sent, in_order>>

\* read fails: unlock, and no signal.
ReceiverFails ==
    /\ rpc = "read"
    /\ mutex' = "none"
    /\ rpc' = "failed"
    /\ UNCHANGED <<req_content_len, wrote, dimen, data, total_received, spc, total_sent, in_order>>
-----------------------------------------------------------------------------
(* The writer: send_http_chunks, destroy_request_node                      *)

\* Lock, and wait until the chunk has been filled.
SenderLocks ==
    /\ spc = "lock"
    /\ mutex = "none"
    /\ IF wrote THEN UNCHANGED mutex /\ spc' = "wait"
                ELSE mutex' = "sender" /\ spc' = "send"
    /\ UNCHANGED <<req_content_len, wrote, dimen, data, rpc, total_received, total_sent, in_order>>

\* Send the chunk, signal, unlock, and go on until all has been sent.
SenderSendsTooFar ==
    /\ spc = "send"
    /\ in_order' = (in_order /\ data = total_sent)
    /\ total_sent' = total_sent + dimen
    /\ dimen' = 0 /\ wrote' = TRUE
    /\ SignalReceiver
    /\ mutex' = "none"
    /\ spc' = IF total_sent' + MAX_CHUNK_SIZE >= req_content_len THEN "out" ELSE "lock"
    /\ UNCHANGED <<req_content_len, data, total_received>>

SenderSends ==
    /\ spc = "send"
    /\ in_order' = (in_order /\ data = total_sent)
    /\ total_sent' = total_sent + dimen
    /\ dimen' = 0 /\ wrote' = TRUE
    /\ SignalReceiver
    /\ mutex' = "none"
    /\ spc' = IF total_sent' = req_content_len /\ total_sent' > 0 THEN "out" ELSE "lock"
    /\ UNCHANGED <<req_content_len, data, total_received>>

\* The write fails: back to write_work, which returns, with the mutex held.
SenderFails ==
    /\ spc = "send"
    /\ spc' = "failed"
    /\ UNCHANGED <<req_content_len, chunkVars, rpc, total_received, total_sent,
                   in_order>>

\* cond_wait may return without a signal; both loops test wrote again.
SpuriousWakeup ==
    /\ \/ rpc = "wait" /\ rpc' = "lock" /\ UNCHANGED spc
       \/ spc = "wait" /\ spc' = "lock" /\ UNCHANGED rpc
    /\ UNCHANGED <<req_content_len, chunkVars, total_received, total_sent, in_order>>

\* write_work dequeues the node and destroys it, the chunk with it.
SenderDestroysNode ==
    /\ spc = "out"
    /\ spc' = "destroyed"
    /\ UNCHANGED <<req_content_len, chunkVars, rpc, total_received, total_sent,
                   in_order>>
-----------------------------------------------------------------------------
Reads == ReceiverFills \/ ReceiverEof \/ ReceiverFails
Receiver == ReceiverStarts \/ ReceiverLocks \/ Reads \/ ReceiverUnlocksAgain
Sender   == SenderLocks \/ SenderSends \/ SenderFails \/ SenderDestroysNode

Next == Receiver \/ Sender \/ SpuriousWakeup
Spec == Init /\ [][Next]_vars

\* Both threads run, and get the mutex in the end; sockets may block for ever.
FairSpec ==
    /\ Spec
    /\ WF_vars(ReceiverStarts \/ ReceiverUnlocksAgain)
    /\ SF_vars(ReceiverLocks)
    /\ SF_vars(SenderLocks)
    /\ WF_vars(SenderSends \/ SenderFails)
    /\ WF_vars(SenderDestroysNode)
-----------------------------------------------------------------------------
(* What the two threads keep true                                          *)

TypeOK ==
    /\ req_content_len \in Lengths
    /\ wrote \in BOOLEAN /\ dimen \in 0 .. MAX_CHUNK_SIZE /\ data \in Nat
    /\ mutex \in {"none", "receiver", "sender"}
    /\ rpc \in {"start", "lock", "wait", "read", "unlock", "out", "failed"}
    /\ total_received \in Nat
    /\ spc \in {"lock", "wait", "send", "out", "destroyed", "failed"}
    /\ total_sent \in Nat
    /\ in_order \in BOOLEAN

\* The client gets every byte once and in its place: the chunk is not filled again
\* before it has been sent, nor sent twice, although the request thread unlocks a
\* mutex that is not its own at the end of file.
ForwardedInOrder == in_order /\ total_sent <= total_received

\* The writer frees the node, and the chunk in it, only once the request thread is
\* past its last use of the mutex.
NodeOutlivesReceiver == spc = "destroyed" => rpc \in {"out", "failed"}

\* Neither thread sleeps while it is its turn: no signal is ever missed.
NoMissedSignal == /\ rpc = "wait" => ~wrote /\ spc # "wait"
                  /\ spc = "wait" => wrote

\* A body received to its end, but for one of no bytes, is sent to its end, unless
\* the client is gone.
BodyIsForwarded ==
    rpc = "out" /\ total_received = req_content_len /\ req_content_len > 0
        ~> spc \in {"destroyed", "failed"}

\* The writer breaks off when all is sent: once the request thread has come to the
\* end of a body, the writer does too.
WriterGetsThrough == rpc = "out" ~> spc \in {"destroyed", "failed"}
=============================================================================
