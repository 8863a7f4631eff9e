-------------------------- MODULE ChunkPipeProofs --------------------------
(***************************************************************************)
(* Proofs about ChunkPipe, for every length of a body and of a chunk.      *)
(***************************************************************************)
EXTENDS ChunkPipe, TLAPS

\* What the chunk holds is what lies between the bytes sent and those received.
ChunkInv ==
    /\ in_order
    /\ total_sent + dimen = total_received
    /\ wrote => dimen = 0
    /\ ~wrote => dimen > 0 /\ data = total_sent

\* Who may hold the mutex, and where the thread that holds it is.
MutexInv ==
    /\ rpc = "read" <=> mutex = "receiver"
    /\ spc \in {"send", "failed"} <=> mutex = "sender"
    /\ mutex = "sender" => ~wrote
    /\ rpc \in {"read", "unlock"} => wrote

\* Neither goes beyond the length; only a receiver that is done has reached it.
LengthInv ==
    /\ total_received > 0 => total_received <= req_content_len
    /\ rpc \in {"start", "failed"} \/ req_content_len # -1
    /\ req_content_len = total_received /\ total_received > 0 => rpc = "out"
    /\ spc \in {"out", "destroyed"} => total_sent = req_content_len /\ total_sent > 0

IInv == TypeOK /\ ChunkInv /\ MutexInv /\ LengthInv /\ NoMissedSignal
-----------------------------------------------------------------------------
\* IInv holds when the header of the response is in.
LEMMA InitIInv == Init => IInv
BY ChunkPipeAssumption
DEF Init, IInv, TypeOK, ChunkInv, MutexInv, LengthInv, NoMissedSignal

\* A read asks for no more than a chunk, and for no more than is missing.
LEMMA SizeBounds ==
    ASSUME IInv
    PROVE  /\ Size \in Int /\ Size <= MAX_CHUNK_SIZE
           /\ Size <= req_content_len - total_received
BY ChunkPipeAssumption DEF IInv, TypeOK, Size

\* Every step of either thread keeps IInv.
LEMMA Inductive == IInv /\ [Next]_vars => IInv'
<1> SUFFICES ASSUME IInv, [Next]_vars PROVE IInv'
    OBVIOUS
<1> USE ChunkPipeAssumption
        DEF IInv, TypeOK, ChunkInv, MutexInv, LengthInv, NoMissedSignal, chunkVars
<1>1. CASE ReceiverStarts
      BY <1>1 DEF ReceiverStarts
<1>2. CASE ReceiverLocks
      BY <1>2 DEF ReceiverLocks
<1>3. CASE ReceiverFills
  <2>1. PICK n \in 1 .. Size : dimen' = n /\ total_received' = total_received + n
        BY <1>3 DEF ReceiverFills
  <2>2. n \in 1 .. MAX_CHUNK_SIZE /\ n <= req_content_len - total_received
        BY <2>1, SizeBounds
  <2>3. wrote /\ dimen = 0 /\ total_sent = total_received
        BY <1>3 DEF ReceiverFills
  <2>4. spc \notin {"out", "destroyed", "send", "failed"}
        BY <1>3, <2>2, <2>3 DEF ReceiverFills
  <2>5. /\ req_content_len \in Int /\ req_content_len' = req_content_len
        /\ total_received \in Nat /\ n \in Nat \ {0}
        BY <1>3, <2>2 DEF ReceiverFills
  <2>6. rpc' = IF total_received' = req_content_len THEN "out" ELSE "lock"
        BY <1>3 DEF ReceiverFills
  <2>7. TypeOK'
    <3>1. dimen' \in 0 .. MAX_CHUNK_SIZE /\ total_received' \in Nat
          BY <2>1, <2>2, <2>5
    <3> QED
        BY <1>3, <2>6, <3>1 DEF ReceiverFills, SignalSender
  <2>8. ChunkInv'
        BY <1>3, <2>1, <2>3, <2>5 DEF ReceiverFills
  <2>9. LengthInv'
        BY <1>3, <2>1, <2>2, <2>4, <2>5, <2>6 DEF ReceiverFills, SignalSender
  <2>10. MutexInv' /\ NoMissedSignal'
        BY <1>3, <2>4, <2>6 DEF ReceiverFills, SignalSender
  <2> QED
      BY <2>7, <2>8, <2>9, <2>10
<1>4. CASE ReceiverEof
      BY <1>4 DEF ReceiverEof, SignalSender
<1>5. CASE ReceiverUnlocksAgain
      BY <1>5 DEF ReceiverUnlocksAgain
<1>6. CASE ReceiverFails
      BY <1>6 DEF ReceiverFails
<1>7. CASE SenderLocks
      BY <1>7 DEF SenderLocks
<1>8. CASE SenderSends
  <2>1. ~wrote /\ data = total_sent
        BY <1>8 DEF SenderSends
  <2>2. in_order' = TRUE
        BY <1>8, <2>1 DEF SenderSends
  <2>3. total_sent' = total_received /\ total_received' = total_received
        BY <1>8 DEF SenderSends
  <2> QED
      BY <1>8, <2>1, <2>2, <2>3 DEF SenderSends, SignalReceiver
<1>9. CASE SenderFails
      BY <1>9 DEF SenderFails
<1>10. CASE SenderDestroysNode
      BY <1>10 DEF SenderDestroysNode
<1>11. CASE SpuriousWakeup
      BY <1>11 DEF SpuriousWakeup
<1>12. CASE UNCHANGED vars
      BY <1>12 DEF vars
<1> QED
    BY <1>1, <1>2, <1>3, <1>4, <1>5, <1>6, <1>7, <1>8, <1>9, <1>10, <1>11, <1>12
    DEF Next, Receiver, Reads, Sender

\* Every reachable state satisfies IInv.
LEMMA Invariance == Spec => []IInv
BY InitIInv, Inductive, PTL DEF Spec
-----------------------------------------------------------------------------
\* Lengths, positions and locations stay in their types: nothing is received or
\* sent beyond the length of the body.
THEOREM TypeCorrect == Spec => []TypeOK
<1>1. IInv => TypeOK
      BY DEF IInv
<1> QED
    BY <1>1, Invariance, PTL

\* Every byte is forwarded once and in its place, whatever the lengths.
THEOREM InOrder == Spec => []ForwardedInOrder
<1>1. IInv => ForwardedInOrder
      BY ChunkPipeAssumption DEF IInv, TypeOK, ChunkInv, ForwardedInOrder
<1> QED
    BY <1>1, Invariance, PTL

\* destroy_request_node never pulls the chunk from under the request thread.
THEOREM NodeOutlives == Spec => []NodeOutlivesReceiver
<1>1. IInv => NodeOutlivesReceiver
      BY ChunkPipeAssumption DEF IInv, TypeOK, ChunkInv, LengthInv, NodeOutlivesReceiver
<1> QED
    BY <1>1, Invariance, PTL

\* A thread that waits on the condition waits for the other to take its turn.
THEOREM SignalsArrive == Spec => []NoMissedSignal
<1>1. IInv => NoMissedSignal
      BY DEF IInv
<1> QED
    BY <1>1, Invariance, PTL
=============================================================================
