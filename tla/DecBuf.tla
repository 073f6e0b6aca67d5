------------------------------- MODULE DecBuf -------------------------------
(***************************************************************************)
(* decoder/dec_buf.c: the byte buffer in which a channel collects the      *)
(* fragments of one frame.  The heap is a fixed array; head, tail and size *)
(* are offsets from the heap, and size_t arithmetic wraps at SizeModulus.  *)
(* The decoder only appends and re-initialises; dec_buf_consume is part of *)
(* the interface and has no caller: DecoderSpec leaves it out and BufSpec  *)
(* has it.  A memcpy past the end of the heap sets overrun: what happens   *)
(* afterwards is undefined and no further operation is modelled.           *)
(***************************************************************************)
EXTENDS Integers, Sequences

CONSTANTS
  Bytes, Capacity, MaxChunk,
  Zero,          \* the byte calloc and memset leave in unused cells
  SizeModulus    \* 2^w for the width w of size_t

ASSUME CapacityAssumption ==
  /\ Capacity \in Nat \ {0}
  /\ MaxChunk \in Nat
  /\ MaxChunk <= Capacity
  /\ SizeModulus \in Nat
  /\ SizeModulus > Capacity

ASSUME ZeroAssumption == Zero \notin Bytes

VARIABLES
  mem,       \* heap[0 .. capacity-1]
  head,      \* b->head - b->heap
  tail,      \* b->tail - b->heap
  size,      \* b->size
  overrun    \* a write went past the end of the heap

bufVars == <<mem, head, tail, size, overrun>>

Cells == 0 .. Capacity - 1
Chunks == UNION { [1 .. n -> Bytes] : n \in 0 .. MaxChunk }
Blank == [i \in Cells |-> Zero]

\* dec_buf_new: every pointer at the start of a zeroed heap.
BufInit ==
  /\ mem = Blank
  /\ head = 0
  /\ tail = 0
  /\ size = 0
  /\ overrun = FALSE

\* dec_buf_init.
Reset ==
  /\ ~overrun
  /\ mem' = Blank
  /\ head' = 0
  /\ tail' = 0
  /\ size' = 0
  /\ UNCHANGED overrun

-----------------------------------------------------------------------------
(* dec_buf_append calls dec_buf_extend and then copies the chunk to tail.  *)

\* capacity - (tail - heap) - 1, in size_t.
TailToEnd == (Capacity - tail - 1) % SizeModulus

\* dec_buf_extend moves the data to the start when the room behind tail is short.
Compacts(grow) == TailToEnd < grow

\* dec_buf_extend drops everything when the chunk cannot fit at all.
Overflows(grow) == size + grow > Capacity

\* Mutant of Moved: the bytes are taken from the start of the heap.
MovedFromStart == [i \in Cells |-> IF i < size THEN mem[i] ELSE Zero]

\* The heap, head and tail as dec_buf_extend leaves them.
Moved == [i \in Cells |-> IF i < size THEN mem[head + i] ELSE Zero]

ExtendedMem(grow) ==
  IF Overflows(grow) THEN Blank ELSE IF Compacts(grow) THEN Moved ELSE mem

ExtendedHead(grow) == IF Compacts(grow) \/ Overflows(grow) THEN 0 ELSE head

ExtendedTail(grow) ==
  IF Overflows(grow) THEN 0 ELSE IF Compacts(grow) THEN size ELSE tail

\* memcpy(at, src, len), as far as it stays inside the heap.
Copied(m, at, src) ==
  [i \in Cells |-> IF at <= i /\ i < at + Len(src) THEN src[i - at + 1] ELSE m[i]]

Append_(src) ==
  LET grow == Len(src)
      at   == ExtendedTail(grow)
  IN  /\ ~overrun
      /\ mem' = Copied(ExtendedMem(grow), at, src)
      /\ head' = ExtendedHead(grow)
      /\ tail' = at + grow
      /\ size' = (IF Overflows(grow) THEN 0 ELSE size) + grow
      /\ overrun' = (at + grow > Capacity)

-----------------------------------------------------------------------------
\* dec_buf_consume; a caller releases bytes it has, so use <= size.
Consume(use) ==
  /\ ~overrun
  /\ size' = size - use
  /\ IF size = use
     THEN head' = 0 /\ tail' = 0
     ELSE head' = head + use /\ tail' = tail
  /\ UNCHANGED <<mem, overrun>>

DecoderNext == Reset \/ \E src \in Chunks : Append_(src)

BufNext == DecoderNext \/ \E use \in 1 .. size : Consume(use)

\* How decoder/stream.c and rtpPkgProcess.c use the buffer.
DecoderSpec == BufInit /\ [][DecoderNext]_bufVars

\* Every operation dec_buf.h declares.
BufSpec == BufInit /\ [][BufNext]_bufVars
-----------------------------------------------------------------------------
\* The bytes between head and tail: the queue this buffer implements.
Contents == [i \in 1 .. size |-> mem[head + i - 1]]

Fifo == INSTANCE ByteFifo WITH queue <- Contents

BufTypeOK ==
  /\ mem \in [Cells -> Bytes \cup {Zero}]
  /\ head \in 0 .. Capacity
  /\ tail \in Nat
  /\ size \in 0 .. Capacity
  /\ overrun \in BOOLEAN

(* No append writes past the end of the heap, however the appends and      *)
(* resets of the decoder follow each other (dec_buf.c:62-69).              *)
NoOverrun == ~overrun

(* A write past the end of the heap takes a buffer part of which has been  *)
(* consumed: only then is room counted that is not behind tail             *)
(* (dec_buf.c:32).                                                         *)
OverrunNeedsConsume == [][overrun' => overrun \/ head > 0]_bufVars

(* The three pointers agree: the bytes between head and tail are exactly   *)
(* the size bytes accounted for, and none of them is an unwritten cell.    *)
PointersAgree ==
  ~overrun =>
    /\ tail = head + size
    /\ tail <= Capacity
    /\ \A i \in head .. tail - 1 : mem[i] # Zero

(* Used as the decoder uses it, the buffer is a first-in first-out queue   *)
(* that drops what it holds when a chunk does not fit (dec_buf.c:31-69).   *)
ImplementsFifo == Fifo!Spec

(* With dec_buf_consume in play too, every step that stays inside the heap *)
(* is a step of the queue: compaction never loses or reorders a byte.      *)
FifoUnlessOverrun == [][overrun' \/ Fifo!Next]_bufVars
=============================================================================
