----------------------------- MODULE Detection ------------------------------
(***************************************************************************)
(* From the network's outputs to the boxes that are drawn: the kernel that *)
(* collects what each layer has found (CalDetection, decoder/yololayer.cu) *)
(* and the host that reads it and drops what overlaps (nms,                *)
(* decoder/common.hpp).  The threads of a kernel run side by side; the     *)
(* kernels, the copy to the host and the next inference follow each other  *)
(* in one stream.                                                          *)
(*                                                                         *)
(* What a thread finds is any of Finds, or nothing above IGNORE_THRESH:    *)
(* the network is left out, and boxes are model values of which some       *)
(* overlap by more than the threshold.                                     *)
(***************************************************************************)
EXTENDS Integers, Sequences, SequencesExt

CONSTANTS
  Threads,      \* cells of the grid of a layer
  Layers,       \* number of layers
  Checks,       \* CHECK_COUNT, anchors of a cell
  MaxOut,       \* MAX_OUTPUT_BBOX_COUNT
  Finds,        \* records of a class, a confidence and a box
  Overlap,      \* pairs of boxes whose iou is above nms_thresh
  ConfThresh,
  MaxRounds     \* bound on inferences

\* iou does not depend on the order of its arguments.
ASSUME DetectionAssumption ==
  /\ {Layers, Checks, MaxOut, MaxRounds} \subseteq Nat
  /\ \A found \in Finds : found.class \in Int /\ found.conf \in Int
  /\ \A p \in Overlap : <<p[2], p[1]>> \in Overlap

VARIABLES
  round,     \* inferences begun
  layer,     \* the kernel that runs; 0 before the first, Layers + 1 on the host
  check,     \* k of each thread; Checks when it has returned
  mine,      \* the slot a thread has taken and not filled, or none
  count,     \* output[0]
  slots,     \* the detections behind it, with the inference that wrote them
  dets,      \* nms: the detections read, by class and sorted
  item,      \* nms: m, the one to keep, in dets
  other,     \* nms: n, the one that is compared with it, or none
  res        \* nms: those kept

gpu == <<check, mine, count, slots>>
host == <<dets, item, other, res>>
detectionVars == <<round, layer, gpu, host>>

NoSlot == -1
NoOther == 0
Slots == 0 .. MaxOut - 1
Idle == [t \in Threads |-> Checks]

DetectionInit ==
  /\ round = 0 /\ layer = 0
  /\ check = Idle
  /\ mine = [t \in Threads |-> NoSlot]
  /\ count = 0
  /\ slots = [s \in Slots |-> [round |-> 0]]
  /\ dets = << >> /\ item = 1 /\ other = NoOther /\ res = << >>

\* Mutant of Cleared: the memset is forgotten.
NotCleared == count

\* cudaMemsetAsync: only the counter is cleared.
Cleared == 0

\* enqueue: a new inference.
Enqueue ==
  /\ layer = 0 /\ round < MaxRounds
  /\ round' = round + 1
  /\ layer' = 1
  /\ count' = Cleared
  /\ check' = [t \in Threads |-> 0]
  /\ dets' = << >> /\ item' = 1 /\ other' = NoOther /\ res' = << >>
  /\ UNCHANGED <<mine, slots>>

Running(t) == layer \in 1 .. Layers /\ check[t] < Checks

\* Nothing above the threshold: the next anchor.
Ignore(t) ==
  /\ Running(t) /\ mine[t] = NoSlot
  /\ check' = [check EXCEPT ![t] = @ + 1]
  /\ UNCHANGED <<round, layer, mine, count, slots, host>>

\* atomicAdd; a thread that comes too late returns, with its anchors left.
Reserve(t) ==
  /\ Running(t) /\ mine[t] = NoSlot
  /\ count' = count + 1
  /\ IF count >= MaxOut
     THEN check' = [check EXCEPT ![t] = Checks] /\ UNCHANGED mine
     ELSE mine' = [mine EXCEPT ![t] = count] /\ UNCHANGED check
  /\ UNCHANGED <<round, layer, slots, host>>

Fill(t) ==
  /\ Running(t) /\ mine[t] # NoSlot
  /\ \E found \in Finds :
       slots' = [slots EXCEPT ![mine[t]] =
                   [round |-> round, class |-> found.class, conf |-> found.conf, box |-> found.box]]
  /\ mine' = [mine EXCEPT ![t] = NoSlot]
  /\ check' = [check EXCEPT ![t] = @ + 1]
  /\ UNCHANGED <<round, layer, count, host>>

\* The kernel of the next layer, or the copy to the host.
LayerEnds ==
  /\ layer \in 1 .. Layers
  /\ check = Idle
  /\ layer' = layer + 1
  /\ check' = IF layer = Layers THEN check ELSE [t \in Threads |-> 0]
  /\ UNCHANGED <<round, mine, count, slots, host>>

-----------------------------------------------------------------------------
(* The host.                                                               *)

\* The slots the host reads.
Read == {s \in Slots : s < count}

\* cmp; std::sort leaves the order of equals open.
Before(d, e) == d.conf >= e.conf

\* The slots above the threshold.
Sure == {s \in Read : slots[s].conf > ConfThresh}

\* Class by class, each sorted.
Sorted(order) ==
  \A i, j \in DOMAIN order :
    i < j => /\ slots[order[i]].class <= slots[order[j]].class
             /\ slots[order[i]].class = slots[order[j]].class
                  => Before(slots[order[i]], slots[order[j]])

Nms ==
  /\ layer = Layers + 1 /\ dets = << >> /\ item = 1
  /\ \E order \in SetToSeqs(Sure) : Sorted(order) /\ dets' = order
  /\ layer' = IF dets' = << >> THEN 0 ELSE layer
  /\ UNCHANGED <<round, gpu, item, other, res>>

Overlaps(s, u) ==
  /\ slots[s].class = slots[u].class
  /\ <<slots[s].box, slots[u].box>> \in Overlap

\* The outer loop: an item is kept.
Keep ==
  /\ layer = Layers + 1 /\ item <= Len(dets) /\ other = NoOther
  /\ res' = Append(res, dets[item])
  /\ other' = item + 1
  /\ UNCHANGED <<round, layer, gpu, dets, item>>

\* Mutant of Follower: n is not set back when dets[n] is erased.
FollowerSkips(n) == n + 1

\* Where the next one is after dets[n] was erased.
Follower(n) == n

\* The inner loop: one that overlaps the item is erased.
Compare ==
  /\ layer = Layers + 1 /\ other # NoOther /\ other <= Len(dets)
  /\ IF Overlaps(dets[item], dets[other])
     THEN dets' = RemoveAt(dets, other) /\ other' = Follower(other)
     ELSE UNCHANGED dets /\ other' = other + 1
  /\ UNCHANGED <<round, layer, gpu, item, res>>

\* All were compared: the next item, or the end.
ItemEnds ==
  /\ layer = Layers + 1 /\ other > Len(dets)
  /\ item' = item + 1
  /\ other' = NoOther
  /\ layer' = IF item < Len(dets) THEN layer ELSE 0
  /\ UNCHANGED <<round, gpu, dets, res>>

DetectionNext ==
  \/ Enqueue \/ LayerEnds \/ Nms \/ Keep \/ Compare \/ ItemEnds
  \/ \E t \in Threads : Ignore(t) \/ Reserve(t) \/ Fill(t)

DetectionSpec == DetectionInit /\ [][DetectionNext]_detectionVars
-----------------------------------------------------------------------------
\* Whatever order the threads take their slots in, and however many come too
\* late, each slot the host reads was filled, in this inference, and no slot is
\* being filled by two threads (yololayer.cu:207-211, 240; common.hpp:62).
SlotsAreFilled ==
  /\ layer = Layers + 1 => \A s \in Read : slots[s].round = round
  /\ \A t, u \in Threads : t # u /\ mine[t] # NoSlot => mine[t] # mine[u]

\* A detection is dropped exactly when one of its class that is kept is at
\* least as sure and overlaps it, however equals are sorted and whatever the
\* loop has erased under its own index (common.hpp:69-83).
KeepsTheSurest ==
  LET K == ToSet(res)
  IN layer = 0 /\ round > 0 =>
       \A s \in Sure :
         s \notin K <=> \E e \in K \ {s} : Overlaps(e, s) /\ slots[e].conf >= slots[s].conf
=============================================================================
