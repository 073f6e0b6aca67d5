------------------------------ MODULE ByteFifo ------------------------------
(***************************************************************************)
(* What a decoder buffer promises its user: a bounded first-in first-out   *)
(* queue of bytes.  A chunk that fits is added at the end; a chunk that    *)
(* does not fit throws away everything that was queued and starts afresh   *)
(* (dec_buf.c never grows the heap); the oldest bytes can be released and  *)
(* the queue can be cleared.  DecBuf implements this with pointers.        *)
(***************************************************************************)
EXTENDS Naturals, Sequences

CONSTANTS
  Bytes,       \* the values a byte can take
  Capacity,    \* the size of the heap behind the queue
  MaxChunk     \* the longest chunk a caller appends

VARIABLE queue

\* The chunks a caller may append.
Chunks == UNION { [1 .. n -> Bytes] : n \in 0 .. MaxChunk }

Init == queue = <<>>

Accept(chunk) ==
  /\ Len(queue) + Len(chunk) <= Capacity
  /\ queue' = queue \o chunk

StartAfresh(chunk) ==
  /\ Len(queue) + Len(chunk) > Capacity
  /\ queue' = chunk

Release(n) == queue' = SubSeq(queue, n + 1, Len(queue))

Clear == queue' = <<>>

Next ==
  \/ \E chunk \in Chunks : Accept(chunk) \/ StartAfresh(chunk)
  \/ \E n \in 1 .. Len(queue) : Release(n)
  \/ Clear

Spec == Init /\ [][Next]_queue
=============================================================================
