---------------------------- MODULE DecBufProofs ----------------------------
(***************************************************************************)
(* DecBuf as the decoder uses it (append and reset, no consume) keeps its  *)
(* bytes at the start of the heap, so no append writes past the end.  With *)
(* dec_buf_consume too, every step within the heap is a step of the        *)
(* drop-all-on-overflow queue ByteFifo, which the decoder's use of the     *)
(* buffer therefore implements.                                            *)
(***************************************************************************)
EXTENDS DecBuf, SequenceTheorems, TLAPS

\* Without dec_buf_consume the head never leaves the start of the heap.
AtStart == head = 0 /\ tail = size

IInv == BufTypeOK /\ NoOverrun /\ AtStart

\* A chunk is a sequence of bytes no longer than MaxChunk.
LEMMA ChunkFacts ==
  ASSUME NEW src \in Chunks
  PROVE  /\ Len(src) \in 0 .. MaxChunk
         /\ src = [i \in 1 .. Len(src) |-> src[i]]
         /\ \A i \in 1 .. Len(src) : src[i] \in Bytes
<1>1. PICK n \in 0 .. MaxChunk : src \in [1 .. n -> Bytes]
  BY DEF Chunks
<1>2. n \in Nat /\ Len(src) = n
  BY <1>1, CapacityAssumption
<1> QED
  BY <1>1, <1>2

\* What a well-formed buffer looks like after an append: the chunk goes
\* behind the bytes kept, which are all of them or none.
LEMMA AppendAtStart ==
  ASSUME IInv, NEW src \in Chunks, Append_(src)
  PROVE  LET kept == IF Overflows(Len(src)) THEN 0 ELSE size
         IN  /\ head' = 0
             /\ tail' = kept + Len(src)
             /\ size' = kept + Len(src)
             /\ kept + Len(src) <= Capacity
             /\ overrun' = FALSE
             /\ mem' = Copied(ExtendedMem(Len(src)), kept, src)
<1> DEFINE kept == IF Overflows(Len(src)) THEN 0 ELSE size
<1>1. Len(src) \in 0 .. MaxChunk
  BY ChunkFacts
<1>2. ExtendedTail(Len(src)) = kept /\ ExtendedHead(Len(src)) = 0
  BY DEF IInv, AtStart, ExtendedTail, ExtendedHead
<1>3. kept + Len(src) <= Capacity
  BY <1>1, CapacityAssumption DEF IInv, BufTypeOK, Overflows
<1> QED
  BY <1>1, <1>2, <1>3, CapacityAssumption DEF Append_, IInv, BufTypeOK

\* Every cell the append leaves behind holds a byte or the blank value.
LEMMA AppendMemType ==
  ASSUME IInv, NEW src \in Chunks, Append_(src)
  PROVE  mem' \in [Cells -> Bytes \cup {Zero}]
<1> DEFINE kept == IF Overflows(Len(src)) THEN 0 ELSE size
           ext  == ExtendedMem(Len(src))
<1>1. Len(src) \in Nat /\ \A i \in 1 .. Len(src) : src[i] \in Bytes
  BY ChunkFacts, CapacityAssumption
<1>2. kept \in Nat /\ size \in 0 .. Capacity /\ Capacity \in Nat
  BY CapacityAssumption DEF IInv, BufTypeOK
<1>3. mem \in [Cells -> Bytes \cup {Zero}] /\ head = 0
  BY DEF IInv, BufTypeOK, AtStart
<1>4. Moved \in [Cells -> Bytes \cup {Zero}]
  BY <1>2, <1>3 DEF Moved, Cells
<1>5. ext \in [Cells -> Bytes \cup {Zero}]
  BY <1>3, <1>4 DEF ExtendedMem, Blank
<1>6. mem' = Copied(ext, kept, src)
  BY AppendAtStart
<1>7. ASSUME NEW i \in Cells, kept <= i, i < kept + Len(src)
      PROVE  src[i - kept + 1] \in Bytes
  BY <1>1, <1>2, <1>7 DEF Cells
<1> HIDE DEF ext, kept
<1> QED
  BY <1>5, <1>6, <1>7 DEF Copied

LEMMA InitInvariant == ASSUME BufInit PROVE IInv
<1>1. mem \in [Cells -> Bytes \cup {Zero}]
  BY DEF BufInit, Blank
<1>2. head \in 0 .. Capacity /\ tail \in Nat /\ size \in 0 .. Capacity /\ AtStart
  BY CapacityAssumption DEF BufInit, AtStart
<1>3. overrun \in BOOLEAN /\ NoOverrun
  BY Zenon DEF BufInit, NoOverrun
<1> QED
  BY <1>1, <1>2, <1>3 DEF IInv, BufTypeOK

\* Appends and resets keep the bytes at the start of the heap.
LEMMA StepInvariant == ASSUME IInv, [DecoderNext]_bufVars PROVE IInv'
<1>1. CASE Reset
  BY <1>1, CapacityAssumption
  DEF Reset, IInv, BufTypeOK, NoOverrun, AtStart, Blank, Cells
<1>2. ASSUME NEW src \in Chunks, Append_(src) PROVE IInv'
  <2>1. Len(src) \in Nat
    BY ChunkFacts, CapacityAssumption
  <2>2. mem' \in [Cells -> Bytes \cup {Zero}]
    BY <1>2, AppendMemType
  <2>3. /\ head' = 0
        /\ tail' = size'
        /\ size' \in 0 .. Capacity
        /\ tail' \in Nat
    <3> DEFINE kept == IF Overflows(Len(src)) THEN 0 ELSE size
    <3>1. /\ head' = 0
          /\ tail' = kept + Len(src)
          /\ size' = kept + Len(src)
          /\ kept + Len(src) <= Capacity
      BY <1>2, AppendAtStart, Zenon
    <3>2. kept \in Nat
      BY CapacityAssumption DEF IInv, BufTypeOK
    <3> HIDE DEF kept
    <3> QED
      BY <2>1, <3>1, <3>2, CapacityAssumption
  <2>4. overrun' \in BOOLEAN /\ ~overrun'
    BY <1>2, AppendAtStart, Zenon
  <2> QED
    BY <2>2, <2>3, <2>4, CapacityAssumption DEF IInv, BufTypeOK, NoOverrun, AtStart, Cells
<1>3. CASE UNCHANGED bufVars
  BY <1>3 DEF bufVars, IInv, BufTypeOK, NoOverrun, AtStart, Cells
<1> QED
  BY <1>1, <1>2, <1>3 DEF DecoderNext

(* The buffer of dec_buf.c, appended to and re-initialised in any order,   *)
(* keeps its pointers and its cells in range.                              *)
THEOREM DecoderTypeOK == DecoderSpec => []BufTypeOK
<1>1. BufInit => IInv
  BY InitInvariant
<1>2. IInv /\ [DecoderNext]_bufVars => IInv'
  BY StepInvariant
<1>3. IInv => BufTypeOK
  BY DEF IInv
<1> QED
  BY <1>1, <1>2, <1>3, PTL DEF DecoderSpec

(* No append of the decoder writes past the end of the heap                *)
(* (dec_buf.c:62-69), whatever the capacity and the width of size_t.       *)
THEOREM DecoderNoOverrun == DecoderSpec => []NoOverrun
<1>1. BufInit => IInv
  BY InitInvariant
<1>2. IInv /\ [DecoderNext]_bufVars => IInv'
  BY StepInvariant
<1>3. IInv => NoOverrun
  BY DEF IInv
<1> QED
  BY <1>1, <1>2, <1>3, PTL DEF DecoderSpec
-----------------------------------------------------------------------------
(* With dec_buf_consume: a buffer that has been consumed from may overrun. *)

Pointers == ~overrun => tail = head + size /\ tail <= Capacity
SInv == BufTypeOK /\ Pointers

\* As long as nothing was consumed, the room behind tail is counted right.
LEMMA OverrunStep ==
  ASSUME SInv, [BufNext]_bufVars, overrun', ~overrun
  PROVE  head > 0
<1>1. PICK src \in Chunks : Append_(src)
  BY Zenon DEF BufNext, DecoderNext, Reset, Consume, bufVars
<1>2. ASSUME head = 0 PROVE FALSE
  <2>1. IInv
    BY <1>2 DEF SInv, Pointers, BufTypeOK, IInv, NoOverrun, AtStart
  <2>2. overrun' = FALSE
    BY <1>1, <2>1, AppendAtStart, Zenon
  <2> QED
    BY <2>2
<1> QED
  BY <1>2, CapacityAssumption DEF SInv, BufTypeOK

\* An append keeps the pointers in range and in agreement.
LEMMA AppendPointers ==
  ASSUME SInv, ~overrun, NEW src \in Chunks, Append_(src)
  PROVE  /\ head' \in 0 .. Capacity
         /\ tail' \in Nat
         /\ size' \in 0 .. Capacity
         /\ Pointers'
<1>1. Len(src) \in 0 .. MaxChunk
  BY ChunkFacts
<1> DEFINE n == Len(src)
<1>2. /\ head' = ExtendedHead(n)
      /\ tail' = ExtendedTail(n) + n
      /\ size' = (IF Overflows(n) THEN 0 ELSE size) + n
      /\ overrun' = (ExtendedTail(n) + n > Capacity)
  BY DEF Append_
<1>3. ExtendedHead(n) \in 0 .. Capacity /\ ExtendedTail(n) \in Nat
  BY CapacityAssumption DEF SInv, BufTypeOK, ExtendedHead, ExtendedTail
<1>4. (IF Overflows(n) THEN 0 ELSE size) + n \in 0 .. Capacity
  BY <1>1, CapacityAssumption DEF SInv, BufTypeOK, Overflows
<1>5. ExtendedTail(n) = ExtendedHead(n) + (IF Overflows(n) THEN 0 ELSE size)
  BY CapacityAssumption DEF SInv, BufTypeOK, Pointers, ExtendedHead, ExtendedTail
<1> HIDE DEF n
<1>6. n \in Nat
  BY <1>1, CapacityAssumption DEF n
<1>7. head' \in 0 .. Capacity /\ tail' \in Nat /\ size' \in 0 .. Capacity
  BY <1>2, <1>3, <1>4, <1>6
<1>8. tail' = head' + size'
  BY <1>2, <1>3, <1>4, <1>5, <1>6, CapacityAssumption DEF SInv, BufTypeOK
<1>9. ASSUME ~overrun' PROVE tail' <= Capacity
  <2>1. ~(ExtendedTail(n) + n > Capacity)
    BY <1>2, <1>9, Zenon
  <2> QED
    BY <1>2, <1>3, <1>6, <2>1, CapacityAssumption
<1> QED
  BY <1>7, <1>8, <1>9 DEF Pointers

\* The heap after an append: bytes and blanks.
LEMMA AppendCells ==
  ASSUME SInv, ~overrun, NEW src \in Chunks, Append_(src)
  PROVE  mem' \in [Cells -> Bytes \cup {Zero}]
<1> DEFINE n == Len(src)
           at == ExtendedTail(n)
           ext == ExtendedMem(n)
<1>1. n \in Nat /\ \A i \in 1 .. n : src[i] \in Bytes
  BY ChunkFacts, CapacityAssumption
<1>2. at \in Nat
  BY CapacityAssumption DEF SInv, BufTypeOK, ExtendedTail
<1>3. mem \in [Cells -> Bytes \cup {Zero}] /\ head \in Nat /\ size \in Nat
      /\ head + size <= Capacity /\ Capacity \in Nat
  BY CapacityAssumption DEF SInv, BufTypeOK, Pointers
<1>4. Moved \in [Cells -> Bytes \cup {Zero}]
  BY <1>3 DEF Moved, Cells
<1>5. ext \in [Cells -> Bytes \cup {Zero}]
  BY <1>3, <1>4 DEF ExtendedMem, Blank
<1>6. mem' = Copied(ext, at, src)
  BY DEF Append_
<1>7. ASSUME NEW i \in Cells, at <= i, i < at + n
      PROVE  src[i - at + 1] \in Bytes
  BY <1>1, <1>2, <1>7 DEF Cells
<1> HIDE DEF ext, at
<1> QED
  BY <1>5, <1>6, <1>7 DEF Copied

LEMMA ApiStep == ASSUME SInv, [BufNext]_bufVars PROVE SInv'
<1>1. CASE Reset
  BY <1>1, CapacityAssumption DEF Reset, SInv, Pointers, BufTypeOK, Blank, Cells
<1>2. ASSUME NEW src \in Chunks, Append_(src) PROVE SInv'
  <2>1. ~overrun /\ overrun' \in BOOLEAN
    BY <1>2 DEF Append_
  <2>2. /\ head' \in 0 .. Capacity
        /\ tail' \in Nat
        /\ size' \in 0 .. Capacity
        /\ Pointers'
    BY <1>2, <2>1, AppendPointers
  <2>3. mem' \in [Cells -> Bytes \cup {Zero}]
    BY <1>2, <2>1, AppendCells
  <2> QED
    BY <2>1, <2>2, <2>3 DEF SInv, BufTypeOK, Cells
<1>3. ASSUME NEW use \in 1 .. size, Consume(use) PROVE SInv'
  <2>1. /\ ~overrun
        /\ size \in Nat /\ head \in Nat /\ tail = head + size /\ tail <= Capacity
        /\ use \in Nat /\ use <= size /\ use > 0
    BY <1>3, CapacityAssumption DEF SInv, BufTypeOK, Pointers, Consume
  <2> QED
    BY <1>3, <2>1, CapacityAssumption DEF Consume, SInv, BufTypeOK, Pointers, Cells
<1>4. CASE UNCHANGED bufVars
  BY <1>4 DEF bufVars, SInv, Pointers, BufTypeOK, Cells
<1> QED
  BY <1>1, <1>2, <1>3, <1>4 DEF BufNext, DecoderNext

LEMMA ApiInit == ASSUME BufInit PROVE SInv
<1>1. BufTypeOK
  BY InitInvariant DEF IInv
<1>2. tail = head + size /\ tail <= Capacity
  BY CapacityAssumption DEF BufInit
<1> QED
  BY <1>1, <1>2 DEF SInv, Pointers

(* With every operation of dec_buf.h the cells and the pointers stay in    *)
(* range as long as the model goes on, that is up to the first overrun.    *)
THEOREM ApiTypeOK == BufSpec => []BufTypeOK
<1>1. BufInit => SInv
  BY ApiInit
<1>2. SInv /\ [BufNext]_bufVars => SInv'
  BY ApiStep
<1>3. SInv => BufTypeOK
  BY DEF SInv
<1> QED
  BY <1>1, <1>2, <1>3, PTL DEF BufSpec

(* Only a buffer part of which has been consumed can be written past its   *)
(* end (dec_buf.c:32), whatever the capacity and the width of size_t.      *)
THEOREM ApiOverrun == BufSpec => OverrunNeedsConsume
<1>1. BufInit => SInv
  BY ApiInit
<1>2. SInv /\ [BufNext]_bufVars => SInv'
  BY ApiStep
<1>3. SInv /\ [BufNext]_bufVars => [overrun' => overrun \/ head > 0]_bufVars
  BY OverrunStep
<1> QED
  BY <1>1, <1>2, <1>3, PTL DEF BufSpec, OverrunNeedsConsume
-----------------------------------------------------------------------------
(* The queue between head and tail.                                        *)

\* A concatenation, index by index.
LEMMA ConcatIndices ==
  ASSUME NEW S, NEW s \in Seq(S), NEW t \in Seq(S)
  PROVE  s \o t = [i \in 1 .. Len(s) + Len(t) |->
                     IF i <= Len(s) THEN s[i] ELSE t[i - Len(s)]]
<1> DEFINE cat == s \o t
<1>1. /\ cat \in Seq(S)
      /\ Len(cat) = Len(s) + Len(t)
      /\ \A i \in 1 .. Len(s) + Len(t) :
           cat[i] = IF i <= Len(s) THEN s[i] ELSE t[i - Len(s)]
  BY ConcatProperties
<1> HIDE DEF cat
<1>2. cat = [i \in 1 .. Len(s) + Len(t) |-> cat[i]]
  BY <1>1
<1>3. cat = [i \in 1 .. Len(s) + Len(t) |->
              IF i <= Len(s) THEN s[i] ELSE t[i - Len(s)]]
  BY <1>1, <1>2, Zenon
<1> QED
  BY <1>3 DEF cat

\* The queue is the size cells from head on.
LEMMA ContentsCells ==
  ASSUME SInv, ~overrun
  PROVE  /\ Contents \in Seq(Bytes \cup {Zero}) /\ Len(Contents) = size
         /\ size \in Nat /\ head \in Nat /\ head + size <= Capacity
         /\ \A i \in 1 .. size : Contents[i] = mem[head + i - 1]
<1>1. size \in Nat /\ head \in Nat /\ head + size <= Capacity
      /\ mem \in [Cells -> Bytes \cup {Zero}]
  BY CapacityAssumption DEF SInv, Pointers, BufTypeOK
<1>2. ASSUME NEW i \in 1 .. size PROVE mem[head + i - 1] \in Bytes \cup {Zero}
  <2>1. head + i - 1 \in Cells
    BY <1>1, CapacityAssumption DEF Cells
  <2> QED
    BY <1>1, <2>1
<1>3. Contents = [i \in 1 .. size |-> mem[head + i - 1]]
  BY DEF Contents
<1>4. Contents \in Seq(Bytes \cup {Zero})
  <2>1. [i \in 1 .. size |-> mem[head + i - 1]] \in Seq(Bytes \cup {Zero})
    BY <1>1, <1>2, SeqDef
  <2> QED
    BY <1>3, <2>1
<1>5. Len(Contents) = size
  BY <1>1, <1>3
<1> QED
  BY <1>1, <1>3, <1>4, <1>5

\* dec_buf_extend keeps the queue, wherever it moves it, or drops all of it.
LEMMA ExtendKeeps ==
  ASSUME SInv, ~overrun, NEW grow \in Nat, ~Overflows(grow), NEW i \in 1 .. size
  PROVE  ExtendedMem(grow)[ExtendedHead(grow) + i - 1] = mem[head + i - 1]
<1>1. size \in Nat /\ head \in Nat /\ head + size <= Capacity
  BY ContentsCells
<1>2. CASE Compacts(grow)
  <2>1. i - 1 \in Cells /\ i - 1 < size
    BY <1>1, CapacityAssumption DEF Cells
  <2>2. Moved[i - 1] = mem[head + (i - 1)]
    BY <2>1 DEF Moved
  <2>3. ExtendedMem(grow) = Moved /\ ExtendedHead(grow) + i - 1 = i - 1
    BY <1>2 DEF ExtendedMem, ExtendedHead
  <2>4. head + (i - 1) = head + i - 1
    BY <1>1
  <2> QED
    BY <2>2, <2>3, <2>4
<1>3. CASE ~Compacts(grow)
  BY <1>3 DEF ExtendedMem, ExtendedHead
<1> QED
  BY <1>2, <1>3

\* What an append does to the queue: the chunk follows the bytes that were
\* queued, or replaces them when they do not fit together.
LEMMA AppendContents ==
  ASSUME SInv, ~overrun, NEW src \in Chunks, Append_(src), ~overrun'
  PROVE  Contents' = IF Overflows(Len(src)) THEN src ELSE Contents \o src
<1> DEFINE n    == Len(src)
           kept == IF Overflows(n) THEN 0 ELSE size
           h    == ExtendedHead(n)
           at   == ExtendedTail(n)
           ext  == ExtendedMem(n)
<1>1. /\ n \in Nat
      /\ src = [i \in 1 .. n |-> src[i]]
      /\ \A i \in 1 .. n : src[i] \in Bytes
  BY ChunkFacts, CapacityAssumption
<1>2. kept \in Nat /\ h \in Nat /\ at = h + kept
  <2>1. head \in Nat /\ size \in Nat /\ tail = head + size
    BY CapacityAssumption DEF SInv, Pointers, BufTypeOK
  <2> QED
    BY <2>1 DEF ExtendedHead, ExtendedTail
<1>3. /\ head' = h
      /\ size' = kept + n
      /\ at + n <= Capacity
      /\ mem' = Copied(ext, at, src)
  <2>1. overrun' = (at + n > Capacity)
    BY Zenon DEF Append_
  <2>2. ~(at + n > Capacity)
    BY <2>1, Zenon
  <2>3. at + n <= Capacity
    <3> HIDE DEF at, n
    <3> QED
      BY <1>1, <1>2, <2>2, CapacityAssumption
  <2> QED
    BY <2>3, Zenon DEF Append_
<1>4. ASSUME NEW i \in 1 .. kept PROVE ext[h + i - 1] = mem[head + i - 1]
  <2>1. ~Overflows(n) /\ kept = size
    BY <1>4
  <2> QED
    BY <1>1, <1>4, <2>1, ExtendKeeps
<1>5. size' \in Nat /\ head' \in Nat
  <2> HIDE DEF h, kept, n
  <2> QED
    BY <1>1, <1>2, <1>3
<1>6. Contents' = [i \in 1 .. size' |-> mem'[head' + i - 1]]
  BY DEF Contents
<1> HIDE DEF ext, h, at, kept
<1>7. ASSUME NEW i \in 1 .. size'
      PROVE  mem'[head' + i - 1] = IF i <= kept THEN mem[head + i - 1] ELSE src[i - kept]
  <2> DEFINE k == h + i - 1
  <2>1. k \in Cells /\ i \in Nat
    BY <1>1, <1>2, <1>3, CapacityAssumption DEF Cells
  <2>2. mem'[k] = IF at <= k /\ k < at + n THEN src[k - at + 1] ELSE ext[k]
    BY <1>3, <2>1 DEF Copied
  <2>3. CASE i <= kept
    <3>1. i \in 1 .. kept /\ ~(at <= k)
      BY <1>1, <1>2, <1>3, <2>1, <2>3
    <3> QED
      BY <1>3, <1>4, <2>2, <2>3, <3>1
  <2>4. CASE ~(i <= kept)
    <3>1. at <= k /\ k < at + n /\ k - at + 1 = i - kept
      BY <1>1, <1>2, <1>3, <2>1, <2>4
    <3> QED
      BY <1>3, <2>2, <2>4, <3>1
  <2> QED
    BY <2>3, <2>4
<1>8. CASE Overflows(n)
  <2>1. kept = 0
    BY <1>8 DEF kept
  <2>2. ASSUME NEW i \in 1 .. n PROVE mem'[head' + i - 1] = src[i]
    BY <1>1, <1>3, <1>7, <2>1, <2>2
  <2> QED
    BY <1>1, <1>3, <1>6, <1>8, <2>1, <2>2
<1>9. CASE ~Overflows(n)
  <2>1. kept = size
    BY <1>9 DEF kept
  <2>2. /\ Contents \in Seq(Bytes \cup {Zero}) /\ Len(Contents) = size
        /\ \A i \in 1 .. size : Contents[i] = mem[head + i - 1]
    BY ContentsCells
  <2>3. src \in Seq(Bytes \cup {Zero})
    BY <1>1
  <2>4. Contents \o src =
          [i \in 1 .. size + n |-> IF i <= size THEN Contents[i] ELSE src[i - size]]
    <3>1. Contents \in Seq(Bytes \cup {Zero}) /\ Len(Contents) = size
      BY <2>2
    <3>2. Contents \o src =
            [i \in 1 .. Len(Contents) + Len(src) |->
               IF i <= Len(Contents) THEN Contents[i] ELSE src[i - Len(Contents)]]
      BY <2>3, <3>1, ConcatIndices, Zenon
    <3> QED
      BY <3>1, <3>2, Zenon
  <2>5. ASSUME NEW i \in 1 .. size + n
        PROVE  mem'[head' + i - 1] = IF i <= size THEN Contents[i] ELSE src[i - size]
    <3>1. mem'[head' + i - 1] = IF i <= size THEN mem[head + i - 1] ELSE src[i - size]
      BY <1>3, <1>7, <2>1, <2>5
    <3>2. i <= size => Contents[i] = mem[head + i - 1]
      BY <1>2, <2>1, <2>2, <2>5
    <3> QED
      BY <3>1, <3>2
  <2> QED
    BY <1>3, <1>6, <1>9, <2>1, <2>4, <2>5
<1> QED
  BY <1>8, <1>9

\* dec_buf_consume takes its bytes from the front of the queue.
LEMMA ConsumeContents ==
  ASSUME SInv, NEW use \in 1 .. size, Consume(use)
  PROVE  use \in 1 .. Len(Contents) /\ Contents' = SubSeq(Contents, use + 1, Len(Contents))
<1>1. ~overrun /\ mem' = mem /\ size' = size - use
      /\ head' = IF size = use THEN 0 ELSE head + use
  BY DEF Consume
<1>2. /\ Contents \in Seq(Bytes \cup {Zero}) /\ Len(Contents) = size
      /\ size \in Nat /\ head \in Nat
      /\ \A i \in 1 .. size : Contents[i] = mem[head + i - 1]
  BY <1>1, ContentsCells
<1>3. Contents' = [i \in 1 .. size - use |-> mem[head' + i - 1]]
  BY <1>1 DEF Contents
<1>4. ASSUME NEW i \in 1 .. size - use
      PROVE  mem[head' + i - 1] = Contents[use + 1 + i - 1]
  <2>1. head' = head + use /\ use + i \in 1 .. size
    BY <1>1, <1>2
  <2>2. Contents[use + i] = mem[head + (use + i) - 1]
    BY <1>2, <2>1
  <2>3. head + (use + i) - 1 = head' + i - 1 /\ use + 1 + i - 1 = use + i
    BY <1>2, <2>1
  <2> QED
    BY <2>2, <2>3
<1>5. SubSeq(Contents, use + 1, size)
        = [i \in 1 .. size - use |-> Contents[use + 1 + i - 1]]
  <2>1. size - (use + 1) + 1 = size - use
    BY <1>2
  <2> QED
    BY <1>2, <2>1
<1> QED
  BY <1>2, <1>3, <1>4, <1>5

\* A step within the heap is a step of the queue, or leaves it alone.
LEMMA ApiRefines ==
  ASSUME SInv, [BufNext]_bufVars, ~overrun'
  PROVE  Fifo!Next \/ UNCHANGED bufVars
<1>1. CASE Reset
  <2>1. size' = 0
    BY <1>1 DEF Reset
  <2>2. Contents' = << >>
    BY <2>1 DEF Contents
  <2> QED
    BY <2>2 DEF Fifo!Next, Fifo!Clear
<1>2. ASSUME NEW src \in Chunks, Append_(src) PROVE Fifo!Next
  <2>1. ~overrun
    BY <1>2 DEF Append_
  <2>2. Contents' = IF Overflows(Len(src)) THEN src ELSE Contents \o src
    BY <1>2, <2>1, AppendContents
  <2>3. Len(Contents) = size /\ size \in Nat /\ Len(src) \in Nat
    BY <2>1, ContentsCells, ChunkFacts, CapacityAssumption
  <2>4. src \in Fifo!Chunks
    BY DEF Fifo!Chunks, Chunks
  <2>5. CASE Overflows(Len(src))
    <3>1. Fifo!StartAfresh(src)
      BY <2>2, <2>3, <2>5, CapacityAssumption DEF Overflows, Fifo!StartAfresh
    <3> QED
      BY <2>4, <3>1 DEF Fifo!Next
  <2>6. CASE ~Overflows(Len(src))
    <3>1. Fifo!Accept(src)
      BY <2>2, <2>3, <2>6, CapacityAssumption DEF Overflows, Fifo!Accept
    <3> QED
      BY <2>4, <3>1 DEF Fifo!Next
  <2> QED
    BY <2>5, <2>6
<1>3. ASSUME NEW use \in 1 .. size, Consume(use) PROVE Fifo!Next
  BY <1>3, ConsumeContents DEF Fifo!Next, Fifo!Release
<1> QED
  BY <1>1, <1>2, <1>3 DEF BufNext, DecoderNext

(* With dec_buf_consume in play too, every step that stays within the heap *)
(* is a step of the queue: bytes are neither lost nor reordered, whichever *)
(* way append moves them (dec_buf.c:20-90).                                *)
THEOREM ApiImplementsFifo == BufSpec => FifoUnlessOverrun
<1>1. BufInit => SInv
  BY ApiInit
<1>2. SInv /\ [BufNext]_bufVars => SInv'
  BY ApiStep
<1>3. SInv /\ [BufNext]_bufVars => [overrun' \/ Fifo!Next]_bufVars
  BY ApiRefines
<1> QED
  BY <1>1, <1>2, <1>3, PTL DEF BufSpec, FifoUnlessOverrun

\* Only bytes that were appended are ever in the queue.
HoldsBytes == ~overrun => Contents \in Seq(Bytes)

LEMMA HoldsBytesStep ==
  ASSUME SInv, HoldsBytes, [BufNext]_bufVars
  PROVE  HoldsBytes'
<1> SUFFICES ASSUME ~overrun' PROVE Contents' \in Seq(Bytes)
  BY Zenon DEF HoldsBytes
<1>1. CASE Reset
  <2>1. size' = 0
    BY <1>1 DEF Reset
  <2>2. Contents' = << >>
    BY <2>1 DEF Contents
  <2> QED
    BY <2>2
<1>2. ASSUME NEW src \in Chunks, Append_(src) PROVE Contents' \in Seq(Bytes)
  <2>1. ~overrun /\ Contents \in Seq(Bytes)
    BY <1>2 DEF Append_, HoldsBytes
  <2>2. src \in Seq(Bytes)
    BY ChunkFacts, CapacityAssumption
  <2>3. Contents' = IF Overflows(Len(src)) THEN src ELSE Contents \o src
    BY <1>2, <2>1, AppendContents
  <2> QED
    BY <2>1, <2>2, <2>3
<1>3. ASSUME NEW use \in 1 .. size, Consume(use) PROVE Contents' \in Seq(Bytes)
  <2>1. Contents \in Seq(Bytes)
    BY <1>3 DEF Consume, HoldsBytes
  <2>2. Contents' = SubSeq(Contents, use + 1, Len(Contents)) /\ use \in Nat
    BY <1>3, ConsumeContents
  <2>3. \A i \in use + 1 .. Len(Contents) : Contents[i] \in Bytes
    BY <2>1, <2>2
  <2> QED
    BY <2>1, <2>2, <2>3, SubSeqProperties
<1>4. CASE UNCHANGED bufVars
  BY <1>4 DEF bufVars, Contents, HoldsBytes
<1> QED
  BY <1>1, <1>2, <1>3, <1>4 DEF BufNext, DecoderNext

LEMMA BytesBetween ==
  ASSUME SInv, HoldsBytes
  PROVE  PointersAgree
<1> SUFFICES ASSUME ~overrun, NEW i \in head .. tail - 1 PROVE mem[i] # Zero
  BY DEF PointersAgree, SInv, Pointers
<1>1. /\ Contents \in Seq(Bytes) /\ Len(Contents) = size
      /\ size \in Nat /\ head \in Nat /\ tail = head + size
      /\ \A k \in 1 .. size : Contents[k] = mem[head + k - 1]
  BY ContentsCells DEF HoldsBytes, SInv, Pointers
<1> DEFINE k == i - head + 1
<1>2. k \in 1 .. size /\ head + k - 1 = i
  BY <1>1
<1> HIDE DEF k
<1>3. mem[i] \in Bytes
  <2>1. Contents[k] = mem[i] /\ k \in 1 .. Len(Contents)
    BY <1>1, <1>2
  <2> QED
    BY <1>1, <2>1
<1> QED
  BY <1>3, ZeroAssumption

(* Up to the first overrun the pointers of dec_buf.c account for every     *)
(* byte, and nothing between head and tail is a cell never written.        *)
THEOREM ApiPointersAgree == BufSpec => []PointersAgree
<1>1. BufInit => SInv /\ HoldsBytes
  <2>1. ASSUME BufInit PROVE HoldsBytes
    BY <2>1 DEF BufInit, HoldsBytes, Contents
  <2> QED
    BY <2>1, ApiInit
<1>2. SInv /\ HoldsBytes /\ [BufNext]_bufVars => (SInv /\ HoldsBytes)'
  BY ApiStep, HoldsBytesStep
<1>3. SInv /\ HoldsBytes => PointersAgree
  BY BytesBetween
<1> QED
  BY <1>1, <1>2, <1>3, PTL DEF BufSpec

(* Used as stream.c uses it, the pointer buffer of dec_buf.c implements    *)
(* the queue of ByteFifo, for every capacity, chunk length and alphabet.   *)
THEOREM DecoderImplementsFifo == DecoderSpec => ImplementsFifo
<1>1. BufInit => IInv /\ Fifo!Init
  <2>1. ASSUME BufInit PROVE Fifo!Init
    <3>1. size = 0
      BY <2>1 DEF BufInit
    <3> QED
      BY <3>1 DEF Fifo!Init, Contents
  <2> QED
    BY <2>1, InitInvariant
<1>2. IInv /\ [DecoderNext]_bufVars => IInv'
  BY StepInvariant
<1>3. ASSUME IInv, [DecoderNext]_bufVars PROVE [Fifo!Next]_Contents
  <2>1. SInv
    BY <1>3 DEF IInv, SInv, Pointers, AtStart, BufTypeOK, NoOverrun
  <2>2. ~overrun'
    BY <1>3, StepInvariant DEF IInv, NoOverrun
  <2>3. Fifo!Next \/ UNCHANGED bufVars
    BY <1>3, <2>1, <2>2, ApiRefines DEF BufNext
  <2> QED
    BY <2>3 DEF bufVars, Contents
<1> QED
  BY <1>1, <1>2, <1>3, PTL DEF DecoderSpec, ImplementsFifo, Fifo!Spec
=============================================================================
