----------------------------- MODULE PartsProofs ----------------------------
(* The small parts that MCParts runs side by side.  The hand-over of       *)
(* pictures between the owner of a window and its render thread, for any   *)
(* number of windows and of calls: as long as no wait ends by itself, what *)
(* the owner waits for and what the painter does agree.  The detections,   *)
(* from the threads that race for the slots of the output to the boxes     *)
(* that are kept, for any number of threads, anchors, layers, slots and    *)
(* inferences.  The message box, whose list of records is a queue for each *)
(* task, for any tasks and any number of messages.  The timer list, whose  *)
(* list of records is one alarm for each timer, for any timers.  And the   *)
(* cutting of a camera's stream into what was sent, for any packets and    *)
(* answers, wherever recv cuts it.                                         *)
EXTENDS EglRenderer, Detection, MsgBox, TimerList, RtspStream, SequenceTheorems,
        FiniteSetTheorems, WellFoundedInduction, TLAPS

\* Where the painter is when the owner is not inside a call, and in one.
Agreed ==
  /\ owner = "none" => /\ painter = "none" /\ waiting = {}
                       /\ ~stop_thread /\ ~is_in_error
  /\ owner = "creating" =>
       /\ ~stop_thread
       /\ \/ painter = "starting" /\ waiting = {"owner"} /\ ~is_in_error
          \/ painter = "finishing" /\ waiting = {"owner"} /\ is_in_error
          \/ painter = "ended" /\ waiting = {} /\ is_in_error
          \/ painter = "waiting" /\ waiting = {"painter"} /\ ~is_in_error
  /\ owner = "discarding" => painter = "ended" /\ waiting = {}
  /\ owner \in {"ready", "calling"} =>
       painter = "waiting" /\ waiting = {"painter"} /\ ~stop_thread /\ ~is_in_error
  /\ owner = "waiting" =>
       /\ ~stop_thread /\ ~is_in_error
       /\ \/ painter = "waiting" /\ (waiting = {"owner"} \/ waiting = {"painter"})
          \/ painter \in {"drawing", "painted"} /\ waiting = {"owner"}
          \/ painter \in {"pacing", "swapping"} /\ waiting = {"owner"} /\ painting = render_fd
          \/ painter = "resting" /\ waiting = {"owner", "painter"} /\ painting = render_fd
  /\ owner = "stopping" => painter = "waiting" /\ waiting = {"painter"} /\ stop_thread
  /\ owner = "joining" =>
       painter \in {"waiting", "finishing", "ended"} /\ waiting = {} /\ stop_thread

\* A wait that ended by itself, or a join of no thread, ends the agreement.
Undisturbed == spurious = 0 /\ ~wild

IInv == TypeOK /\ (Undisturbed => Agreed)

\* The bounds, in the forms the steps need.
LEMMA Bounds ==
  /\ 0 \in 0 .. MaxCalls /\ 0 \in 0 .. MaxWindows /\ 0 \in 0 .. MaxSpurious
  /\ << >> \in Seq(0 .. MaxCalls)
BY RendererAssumption

LEMMA InitAgreed == Init => IInv
<1> SUFFICES ASSUME Init PROVE IInv
  OBVIOUS
<1>1. shown \in Seq(0 .. MaxCalls)
  BY Bounds DEF Init
<1>2. TypeOK
  BY <1>1, Bounds DEF Init, TypeOK
<1> QED
  BY <1>2 DEF Init, IInv, Undisturbed, Agreed

LEMMA OwnerTypes == TypeOK /\ Owner => TypeOK'
<1> SUFFICES ASSUME TypeOK, Owner PROVE TypeOK'
  OBVIOUS
<1> USE RendererAssumption DEF TypeOK, window, counts
<1>1. CASE Create
  BY <1>1 DEF Create
<1>2. CASE CannotCreate
  BY <1>2 DEF CannotCreate
<1>3. CASE Created
  BY <1>3 DEF Created
<1>4. CASE Discard
  BY <1>4 DEF Discard
<1>5. CASE Render
  BY <1>5 DEF Render
<1>6. CASE Wait
  BY <1>6 DEF Wait
<1>7. CASE Return
  BY <1>7 DEF Return
<1>8. CASE Stop
  BY <1>8 DEF Stop
<1>9. CASE WakeToStop
  BY <1>9 DEF WakeToStop, Broadcast
<1>10. CASE Join
  <2>1. shown' \in Seq(0 .. MaxCalls)
    BY <1>10, Bounds DEF Join
  <2> QED
    BY <1>10, <2>1, Bounds DEF Join
<1> QED
  BY <1>1, <1>2, <1>3, <1>4, <1>5, <1>6, <1>7, <1>8, <1>9, <1>10 DEF Owner

LEMMA PainterTypes == TypeOK /\ Painter => TypeOK'
<1> SUFFICES ASSUME TypeOK, Painter PROVE TypeOK'
  OBVIOUS
<1> USE RendererAssumption DEF TypeOK, window, counts
<1>1. CASE StartFails
  BY <1>1 DEF StartFails
<1>2. CASE Started \/ Painted
  BY <1>2 DEF Started, Painted, Loops
<1>3. CASE Wake
  BY <1>3 DEF Wake
<1>4. CASE DrawFails \/ SwapFails
  BY <1>4 DEF DrawFails, SwapFails
<1>5. CASE Draw
  BY <1>5 DEF Draw
<1>6. CASE Pace \/ Rested
  BY <1>6 DEF Pace, Rested
<1>7. CASE Swap
  BY <1>7 DEF Swap
<1>8. CASE Finish
  BY <1>8 DEF Finish, Broadcast
<1> QED
  BY <1>1, <1>2, <1>3, <1>4, <1>5, <1>6, <1>7, <1>8 DEF Painter

LEMMA StepTypes == TypeOK /\ [Next]_vars => TypeOK'
<1> SUFFICES ASSUME TypeOK, [Next]_vars PROVE TypeOK'
  OBVIOUS
<1>1. CASE Spurious
  BY <1>1, RendererAssumption DEF Spurious, TypeOK, window
<1>2. CASE UNCHANGED vars
  BY <1>2 DEF vars, window, counts, TypeOK
<1> QED
  BY <1>1, <1>2, OwnerTypes, PainterTypes DEF Next

\* What the owner does keeps the agreement; so does what the painter does.
LEMMA OwnerAgrees ==
  ASSUME TypeOK, Undisturbed, Agreed, Owner, ~wild'
  PROVE  Agreed'
<1> USE DEF TypeOK, Undisturbed, Agreed, window, counts
<1>1. CASE Create
  BY <1>1 DEF Create
<1>2. CASE CannotCreate \/ Discard
  BY <1>2 DEF CannotCreate, Discard
<1>3. CASE Created
  BY <1>3 DEF Created, Works
<1>4. CASE Render
  BY <1>4 DEF Render
<1>5. CASE Wait
  BY <1>5 DEF Wait
<1>6. CASE Return
  BY <1>6 DEF Return, Works
<1>7. CASE Stop
  BY <1>7 DEF Stop
<1>8. CASE WakeToStop
  BY <1>8 DEF WakeToStop, Broadcast
<1>9. CASE Join
  BY <1>9 DEF Join
<1> QED
  BY <1>1, <1>2, <1>3, <1>4, <1>5, <1>6, <1>7, <1>8, <1>9 DEF Owner

LEMMA PainterAgrees ==
  ASSUME TypeOK, Undisturbed, Agreed, Painter
  PROVE  Agreed'
<1> USE DEF TypeOK, Undisturbed, Agreed, window, counts
<1>1. CASE StartFails
  BY <1>1 DEF StartFails
<1>2. CASE Started
  BY <1>2 DEF Started, Loops
<1>3. CASE Painted
  BY <1>3 DEF Painted, Loops
<1>4. CASE Wake
  BY <1>4 DEF Wake, Works
<1>5. CASE DrawFails \/ SwapFails
  BY <1>5 DEF DrawFails, SwapFails
<1>6. CASE Draw
  BY <1>6 DEF Draw
<1>7. CASE Pace
  BY <1>7 DEF Pace
<1>8. CASE Rested
  BY <1>8 DEF Rested
<1>9. CASE Swap
  BY <1>9 DEF Swap
<1>10. CASE Finish
  BY <1>10 DEF Finish, Broadcast
<1> QED
  BY <1>1, <1>2, <1>3, <1>4, <1>5, <1>6, <1>7, <1>8, <1>9, <1>10 DEF Painter

LEMMA StepAgreed == IInv /\ [Next]_vars => IInv'
<1> SUFFICES ASSUME IInv, [Next]_vars PROVE IInv'
  OBVIOUS
<1>1. TypeOK'
  BY StepTypes DEF IInv
<1>2. ASSUME Undisturbed' PROVE Agreed'
  <2>1. CASE UNCHANGED vars
    BY <1>2, <2>1 DEF IInv, Undisturbed, Agreed, vars, window, counts
  <2>2. CASE Spurious
    BY <1>2, <2>2 DEF Spurious, IInv, TypeOK, Undisturbed
  <2>3. CASE ~wild /\ (Owner \/ Painter)
    <3>1. spurious' = spurious
      BY <2>3 DEF Owner, Painter, Create, CannotCreate, Created, Discard, Render, Wait, Return,
           Stop, WakeToStop, Join, StartFails, Started, Wake, DrawFails, Draw, Pace, Rested, Swap,
           SwapFails, Painted, Finish, counts
    <3>2. Undisturbed /\ Agreed /\ TypeOK
      BY <1>2, <2>3, <3>1 DEF IInv, Undisturbed
    <3> QED
      BY <1>2, <2>3, <3>2, OwnerAgrees, PainterAgrees DEF Undisturbed
  <2> QED
    BY <2>1, <2>2, <2>3 DEF Next
<1> QED
  BY <1>1, <1>2 DEF IInv

LEMMA InvAgreed == Spec => []IInv
BY InitAgreed, StepAgreed, PTL DEF Spec

-----------------------------------------------------------------------------
\* A step of the owner is one of the abstract screen, or none.
LEMMA OwnerHandsOver ==
  ASSUME TypeOK, Undisturbed, Agreed, Owner
  PROVE  [Screen!Next]_(Screen!vars)
<1> USE DEF Call, Dealt, Works, Screen!vars
<1>1. CASE Create \/ CannotCreate \/ Created \/ Discard
  BY <1>1 DEF Create, CannotCreate, Created, Discard, window
<1>2. CASE Render
  BY <1>2 DEF Render, Screen!Next, Screen!Ask
<1>3. CASE Wait
  BY <1>3 DEF Wait, Agreed, window
<1>4. CASE Return
  BY <1>4 DEF Return, window, Screen!Next, Screen!Return
<1>5. CASE Stop \/ WakeToStop
  BY <1>5 DEF Stop, WakeToStop, window
<1>6. CASE Join
  BY <1>6 DEF Join, Screen!Next, Screen!Renew
<1> QED
  BY <1>1, <1>2, <1>3, <1>4, <1>5, <1>6 DEF Owner

\* So is a step of the painter.
LEMMA PainterHandsOver ==
  ASSUME TypeOK, Undisturbed, Agreed, Painter
  PROVE  [Screen!Next]_(Screen!vars)
<1> USE DEF TypeOK, Agreed, Call, Dealt, Works, Screen!vars
<1>1. CASE StartFails \/ Started \/ Finish
  BY <1>1 DEF StartFails, Started, Finish, Loops, Broadcast, window
<1>2. CASE Wake
  BY <1>2 DEF Wake, window
<1>3. CASE Draw \/ Pace \/ Rested
  BY <1>3 DEF Draw, Pace, Rested, window
<1>4. CASE DrawFails \/ SwapFails
  BY <1>4 DEF DrawFails, SwapFails, window, Screen!Next, Screen!Skip
<1>5. CASE Swap
  BY <1>5 DEF Swap, Screen!Next, Screen!Show
<1>6. CASE Painted
  BY <1>6 DEF Painted, Loops, window
<1> QED
  BY <1>1, <1>2, <1>3, <1>4, <1>5, <1>6 DEF Painter

(* Until a wait ends by itself, render() comes back exactly when its own   *)
(* picture was shown or could not be: the class implements PictureScreen.  *)
THEOREM RendererHandsOver == Spec => HandsOver
<1>1. IInv /\ [Next]_vars => [spurious' > 0 \/ [Screen!Next]_(Screen!vars)]_vars
  <2> SUFFICES ASSUME IInv, Next, ~(spurious' > 0)
               PROVE  [Screen!Next]_(Screen!vars)
    OBVIOUS
  <2>1. ~Spurious
    BY DEF IInv, TypeOK, Spurious
  <2>2. Undisturbed /\ Agreed /\ TypeOK
    <3>1. spurious' = spurious
      BY <2>1 DEF Next, Owner, Painter, Create, CannotCreate, Created, Discard, Render, Wait,
           Return, Stop, WakeToStop, Join, StartFails, Started, Wake, DrawFails, Draw, Pace,
           Rested, Swap, SwapFails, Painted, Finish, counts
    <3>2. spurious = 0
      BY <3>1, RendererAssumption DEF IInv, TypeOK
    <3> QED
      BY <3>2 DEF IInv, Undisturbed, Next
  <2> QED
    BY <2>1, <2>2, OwnerHandsOver, PainterHandsOver DEF Next
<1> QED
  BY <1>1, InvAgreed, PTL DEF Spec, HandsOver

(* Types of the renderer's state, for any number of windows, calls and     *)
(* spurious wake-ups.                                                      *)
THEOREM RendererTypeOK == Spec => []TypeOK
<1>1. Init => TypeOK
  BY InitAgreed DEF IInv
<1> QED
  BY <1>1, StepTypes, PTL DEF Spec

-----------------------------------------------------------------------------
(* The slots of the output that the threads of a layer fill side by side.  *)

Types ==
  /\ layer \in 0 .. Layers + 1
  /\ count \in Nat
  /\ check \in [Threads -> Int]
  /\ mine \in [Threads -> Slots \cup {NoSlot}]
  /\ slots = [s \in Slots |-> slots[s]]

\* A thread has a slot only while it runs, one that was counted, and for itself.
SlotsAreOwned ==
  /\ \A t \in Threads : mine[t] # NoSlot => Running(t) /\ mine[t] < count
  /\ \A t, u \in Threads : t # u /\ mine[t] # NoSlot => mine[t] # mine[u]

\* A slot that was counted is filled, or some thread is at it.
CountedIsSeenTo ==
  layer # 0 => \A s \in Read : slots[s].round = round \/ \E t \in Threads : mine[t] = s

SInv == Types /\ SlotsAreOwned /\ CountedIsSeenTo

LEMMA InitSlots ==
  ASSUME DetectionInit PROVE SInv
BY DetectionAssumption DEF DetectionInit, SInv, Types, SlotsAreOwned, CountedIsSeenTo, Slots, Idle, NoSlot

LEMMA EnqueueSlots ==
  ASSUME SInv, Enqueue PROVE SInv'
<1> USE DetectionAssumption DEF SInv, Enqueue
<1>1. \A t \in Threads : mine[t] = NoSlot
  BY DEF SlotsAreOwned, Running
<1>2. Types'
  BY DEF Types, Cleared
<1>3. SlotsAreOwned' /\ CountedIsSeenTo'
  BY <1>1 DEF Types, SlotsAreOwned, CountedIsSeenTo, Cleared, Read, Slots
<1> QED
  BY <1>2, <1>3

LEMMA IgnoreSlots ==
  ASSUME SInv, NEW t \in Threads, Ignore(t) PROVE SInv'
BY DetectionAssumption DEF SInv, Ignore, Types, SlotsAreOwned, CountedIsSeenTo, Running, Read

LEMMA ReserveSlots ==
  ASSUME SInv, NEW t \in Threads, Reserve(t) PROVE SInv'
<1> USE DetectionAssumption DEF SInv, Reserve, Types
<1>1. CASE count >= MaxOut
  <2>1. check' = [check EXCEPT ![t] = Checks] /\ UNCHANGED <<round, layer, mine, slots>>
    BY <1>1
  <2>2. Types'
    BY <2>1
  <2>3. SlotsAreOwned'
    <3>1. \A u \in Threads : mine[u] # NoSlot => u # t /\ check'[u] = check[u]
      BY <2>1
    <3>2. count' = count + 1
      OBVIOUS
    <3> HIDE DEF Reserve
    <3> QED
      BY <2>1, <3>1, <3>2 DEF SlotsAreOwned, Running, Slots, NoSlot
  <2>4. Read' = Read
    BY <1>1 DEF Read, Slots
  <2> QED
    BY <2>1, <2>2, <2>3, <2>4 DEF CountedIsSeenTo
<1>2. CASE count < MaxOut
  <2>1. count \in Slots /\ mine' = [mine EXCEPT ![t] = count] /\ check' = check
    BY <1>2 DEF Slots
  <2>2. Types'
    BY <2>1
  <2>3. SlotsAreOwned'
    BY <2>1 DEF SlotsAreOwned, Running, Slots, NoSlot
  <2>4. CountedIsSeenTo'
    <3> SUFFICES ASSUME layer' # 0, NEW s \in Read'
                 PROVE  slots'[s].round = round' \/ \E u \in Threads : mine'[u] = s
      BY DEF CountedIsSeenTo
    <3>1. CASE s = count
      BY <2>1, <3>1
    <3>2. CASE s # count
      <4>1. s \in Read
        BY <3>2 DEF Read, Slots
      <4>2. CASE slots[s].round = round
        BY <4>2
      <4>3. ASSUME NEW u \in Threads, mine[u] = s PROVE mine'[u] = s
        BY <2>1, <4>1, <4>3 DEF Read, Slots, NoSlot
      <4> QED
        BY <4>1, <4>2, <4>3 DEF CountedIsSeenTo
    <3> QED
      BY <3>1, <3>2
  <2> QED
    BY <2>2, <2>3, <2>4
<1> QED
  BY <1>1, <1>2

LEMMA FillSlots ==
  ASSUME SInv, NEW t \in Threads, Fill(t) PROVE SInv'
<1> USE DetectionAssumption DEF SInv, Types
<1>1. PICK found \in Finds :
        slots' = [slots EXCEPT ![mine[t]] =
          [round |-> round, class |-> found.class, conf |-> found.conf, box |-> found.box]]
  BY DEF Fill
<1>2. mine[t] \in Slots /\ mine' = [mine EXCEPT ![t] = NoSlot]
  BY DEF Fill
<1>3. slots'[mine[t]].round = round
  BY <1>1, <1>2
<1>4. \A s \in Slots : s # mine[t] => slots'[s] = slots[s]
  BY <1>1, <1>2
<1>5. Types'
  BY <1>1, <1>2 DEF Fill
<1>6. SlotsAreOwned'
  BY <1>2 DEF Fill, SlotsAreOwned, Running
<1>7. CountedIsSeenTo'
  <2> SUFFICES ASSUME layer' # 0, NEW s \in Read'
               PROVE  slots'[s].round = round' \/ \E u \in Threads : mine'[u] = s
    BY DEF CountedIsSeenTo
  <2>1. s \in Slots /\ s \in Read /\ layer # 0 /\ round' = round
    BY DEF Read, Fill
  <2>2. CASE s = mine[t]
    BY <1>3, <2>1, <2>2
  <2>3. ASSUME s # mine[t], NEW u \in Threads, mine[u] = s PROVE mine'[u] = s
    BY <1>2, <2>3
  <2> QED
    BY <1>4, <2>1, <2>2, <2>3 DEF CountedIsSeenTo
<1> QED
  BY <1>5, <1>6, <1>7

LEMMA LayerEndsSlots ==
  ASSUME SInv, LayerEnds PROVE SInv'
<1> USE DetectionAssumption DEF SInv, LayerEnds
<1>1. \A t \in Threads : mine[t] = NoSlot
  BY DEF Types, SlotsAreOwned, Running, Idle
<1>2. Types'
  BY DEF Types
<1>3. SlotsAreOwned' /\ CountedIsSeenTo'
  BY <1>1 DEF Types, SlotsAreOwned, CountedIsSeenTo, Read
<1> QED
  BY <1>2, <1>3

LEMMA HostSlots ==
  ASSUME SInv, Nms \/ Keep \/ Compare \/ ItemEnds PROVE SInv'
<1>1. UNCHANGED <<round, check, mine, count, slots>>
  BY DEF Nms, Keep, Compare, ItemEnds, gpu
<1>2. layer = Layers + 1 /\ layer' \in {0, layer}
  BY DEF Nms, Keep, Compare, ItemEnds
<1>3. \A t \in Threads : mine[t] = NoSlot
  BY <1>2, DetectionAssumption DEF SInv, SlotsAreOwned, Running
<1> QED
  BY <1>1, <1>2, <1>3, DetectionAssumption DEF SInv, Types, SlotsAreOwned, CountedIsSeenTo, Read

LEMMA StepSlots ==
  ASSUME SInv, [DetectionNext]_detectionVars PROVE SInv'
<1>1. CASE UNCHANGED detectionVars
  BY <1>1 DEF detectionVars, gpu, SInv, Types, SlotsAreOwned, CountedIsSeenTo, Running, Read
<1> QED
  BY <1>1, EnqueueSlots, IgnoreSlots, ReserveSlots, FillSlots, LayerEndsSlots, HostSlots DEF DetectionNext

(* Whatever the number of threads and slots, a slot the host reads was     *)
(* filled in this inference, and by one thread alone.                      *)
THEOREM DetectionSlotsAreFilled == DetectionSpec => []SlotsAreFilled
<1>1. DetectionInit => SInv
  BY InitSlots
<1>2. SInv /\ [DetectionNext]_detectionVars => SInv'
  BY StepSlots
<1>3. SInv => SlotsAreFilled
  BY DetectionAssumption DEF SInv, Types, SlotsAreOwned, CountedIsSeenTo, SlotsAreFilled, Running, Read,
       Slots, NoSlot
<1> QED
  BY <1>1, <1>2, <1>3, PTL DEF DetectionSpec

-----------------------------------------------------------------------------
(* The host: one class after the other, the surest first.                  *)

LEMMA RemoveAtProperties ==
  ASSUME NEW S, NEW s \in Seq(S), NEW n \in 1 .. Len(s)
  PROVE  /\ RemoveAt(s, n) \in Seq(S) /\ Len(RemoveAt(s, n)) = Len(s) - 1
         /\ \A i \in 1 .. Len(s) - 1 : RemoveAt(s, n)[i] = IF i < n THEN s[i] ELSE s[i + 1]
<1> DEFINE a == SubSeq(s, 1, n - 1)
           b == SubSeq(s, n + 1, Len(s))
<1>1. Len(s) \in Nat /\ n \in Nat /\ 1 <= n /\ n <= Len(s)
  BY LenProperties
<1>2. \A i \in 1 .. Len(s) : s[i] \in S
  BY ElementOfSeq
<1>3. /\ a \in Seq(S) /\ Len(a) = n - 1
      /\ \A i \in 1 .. n - 1 : a[i] = s[i]
  BY <1>1, <1>2, SubSeqProperties
<1>4. /\ b \in Seq(S) /\ Len(b) = Len(s) - n
      /\ \A i \in 1 .. Len(s) - n : b[i] = s[n + i]
  <2>1. n + 1 \in Int /\ Len(s) \in Int /\ \A i \in n + 1 .. Len(s) : s[i] \in S
    BY <1>1, <1>2
  <2>2. /\ b \in Seq(S) /\ Len(b) = IF n + 1 <= Len(s) THEN Len(s) - (n + 1) + 1 ELSE 0
        /\ \A i \in 1 .. Len(s) - (n + 1) + 1 : b[i] = s[(n + 1) + i - 1]
    BY <2>1, SubSeqProperties
  <2> HIDE DEF b
  <2> QED
    BY <1>1, <2>2
<1> HIDE DEF a, b
<1>5. /\ a \o b \in Seq(S) /\ Len(a \o b) = Len(s) - 1
      /\ \A i \in 1 .. Len(s) - 1 : (a \o b)[i] = IF i <= n - 1 THEN a[i] ELSE b[i - (n - 1)]
  <2>1. /\ a \o b \in Seq(S) /\ Len(a \o b) = Len(a) + Len(b)
        /\ \A i \in 1 .. Len(a) + Len(b) : (a \o b)[i] = IF i <= Len(a) THEN a[i] ELSE b[i - Len(a)]
    BY <1>3, <1>4, ConcatProperties
  <2>2. Len(a) + Len(b) = Len(s) - 1
    BY <1>1, <1>3, <1>4
  <2> QED
    BY <1>3, <2>1, <2>2
<1>6. \A i \in 1 .. Len(s) - 1 : (a \o b)[i] = IF i < n THEN s[i] ELSE s[i + 1]
  <2> SUFFICES ASSUME NEW i \in 1 .. Len(s) - 1
               PROVE  (a \o b)[i] = IF i < n THEN s[i] ELSE s[i + 1]
    OBVIOUS
  <2>1. CASE i < n
    BY <1>1, <1>3, <1>5, <2>1
  <2>2. CASE ~(i < n)
    <3>1. i - (n - 1) \in 1 .. Len(s) - n /\ n + (i - (n - 1)) = i + 1
      BY <1>1, <2>2
    <3> QED
      BY <1>1, <1>4, <1>5, <2>2, <3>1
  <2> QED
    BY <2>1, <2>2
<1>7. RemoveAt(s, n) = a \o b
  BY DEF RemoveAt, a, b
<1> QED
  BY <1>5, <1>6, <1>7

LEMMA OverlapsBothWays ==
  ASSUME NEW s, NEW u, Overlaps(s, u) PROVE Overlaps(u, s)
<1>1. <<slots[s].box, slots[u].box>> \in Overlap
  BY DEF Overlaps
<1>2. <<slots[u].box, slots[s].box>> \in Overlap
  BY <1>1, DetectionAssumption
<1> QED
  BY <1>2 DEF Overlaps

\* A sequence of all sure slots has each of them.
LEMMA OrderHasAll ==
  ASSUME SInv, NEW order \in SetToSeqs(Sure)
  PROVE  /\ order \in Seq(Sure)
         /\ \A i, j \in 1 .. Len(order) : order[i] = order[j] => i = j
         /\ \A s \in Sure : \E i \in 1 .. Len(order) : order[i] = s
<1> DEFINE n == Cardinality(Sure)
<1>1. IsFiniteSet(0 .. MaxOut - 1)
  <2>1. 0 \in Int /\ MaxOut - 1 \in Int
    BY DetectionAssumption
  <2> QED
    BY <2>1, FS_Interval
<1>2. Sure \in SUBSET (0 .. MaxOut - 1)
  BY DEF Sure, Read, Slots
<1>3. IsFiniteSet(Sure)
  BY <1>1, <1>2, FS_Subset
<1>4. n \in Nat
  BY <1>3, FS_CardinalityType
<1>5. order \in [1 .. n -> Sure] /\ \A i, j \in 1 .. n : i # j => order[i] # order[j]
  BY DEF SetToSeqs
<1> HIDE DEF n
<1>6. order \in Seq(Sure)
  BY <1>4, <1>5, SeqDef
<1>7. Len(order) = n
  BY <1>4, <1>5, <1>6, LenProperties
<1>8. order \in Injection(1 .. n, Sure)
  BY <1>5 DEF Injection, IsInjective
<1>9. Cardinality(1 .. n) = n
  BY <1>4, FS_Interval
<1>10. order \in Surjection(1 .. n, Sure)
  BY <1>3, <1>8, <1>9, FS_Injection DEF n
<1>11. \A s \in Sure : \E i \in 1 .. n : order[i] = s
  BY <1>10 DEF Surjection
<1> QED
  BY <1>5, <1>6, <1>7, <1>11

\* What a filled slot holds, and that inferences are counted.
Filled ==
  /\ round \in Nat /\ (layer # 0 => round # 0)
  /\ \A s \in Slots : slots[s].round # 0 => slots[s].class \in Int /\ slots[s].conf \in Int

Unsifted == dets = << >> /\ item = 1 /\ other = NoOther /\ res = << >>

\* How many of dets have been kept.
Kept == IF other = NoOther THEN item - 1 ELSE item

Distinct == \A i, j \in 1 .. Len(dets) : dets[i] = dets[j] => i = j

\* One that was erased overlaps one that is kept and as sure.
Covered ==
  \A s \in Sure :
    \/ \E i \in 1 .. Len(dets) : dets[i] = s
    \/ \E i \in 1 .. Kept : Overlaps(dets[i], s) /\ slots[dets[i]].conf >= slots[s].conf

Compared(i, j) == i < item \/ (i = item /\ other # NoOther /\ j < other)

\* Those that were compared with one that is kept do not overlap it.
Apart ==
  \A i, j \in 1 .. Len(dets) : i < j /\ Compared(i, j) => ~Overlaps(dets[i], dets[j])

ResIsKept ==
  /\ res \in Seq(Sure) /\ Len(res) = Kept
  /\ \A i \in 1 .. Kept : res[i] = dets[i]

SiftTypes ==
  /\ dets \in Seq(Sure) /\ item \in 1 .. Len(dets)
  /\ other = NoOther \/ other \in item + 1 .. Len(dets) + 1

Sifting == SiftTypes /\ Sorted(dets) /\ Distinct /\ Covered /\ Apart /\ ResIsKept

HInv ==
  /\ Filled
  /\ layer \in 1 .. Layers => Unsifted
  /\ layer = Layers + 1 => Unsifted \/ Sifting
  /\ KeepsTheSurest

LEMMA InitHost == ASSUME DetectionInit PROVE HInv
BY DetectionAssumption DEF DetectionInit, HInv, Filled, Unsifted, KeepsTheSurest, Slots

\* The kernels leave the host alone.
LEMMA KernelHost ==
  ASSUME SInv, HInv,
         Enqueue \/ LayerEnds \/ (\E t \in Threads : Ignore(t) \/ Reserve(t) \/ Fill(t))
  PROVE  HInv'
<1>1. Filled'
  <2>1. CASE Enqueue
    BY <2>1 DEF HInv, Filled, Enqueue
  <2>2. CASE LayerEnds
    BY <2>2, DetectionAssumption DEF HInv, Filled, LayerEnds
  <2>3. ASSUME NEW t \in Threads, Ignore(t) \/ Reserve(t) PROVE Filled'
    BY <2>3 DEF HInv, Filled, Ignore, Reserve
  <2>4. ASSUME NEW t \in Threads, Fill(t) PROVE Filled'
    <3>1. PICK found \in Finds :
            slots' = [slots EXCEPT ![mine[t]] =
              [round |-> round, class |-> found.class, conf |-> found.conf, box |-> found.box]]
      BY <2>4 DEF Fill
    <3>2. mine[t] \in Slots /\ slots = [s \in Slots |-> slots[s]]
      BY <2>4 DEF Fill, SInv, Types
    <3>3. found.class \in Int /\ found.conf \in Int
      BY DetectionAssumption
    <3>4. UNCHANGED <<round, layer>>
      BY <2>4 DEF Fill
    <3>5. \A s \in Slots : s # mine[t] => slots'[s] = slots[s]
      BY <3>1, <3>2
    <3>6. slots'[mine[t]].class = found.class /\ slots'[mine[t]].conf = found.conf
      BY <3>1, <3>2
    <3> QED
      BY <3>2, <3>3, <3>4, <3>5, <3>6 DEF HInv, Filled
  <2> QED
    BY <2>1, <2>2, <2>3, <2>4
<1>2. layer' # 0
  BY DetectionAssumption DEF Enqueue, LayerEnds, Ignore, Reserve, Fill, Running
<1>3. Unsifted'
  <2>1. CASE Enqueue
    BY <2>1 DEF Enqueue, Unsifted
  <2>2. CASE LayerEnds \/ (\E t \in Threads : Ignore(t) \/ Reserve(t) \/ Fill(t))
    <3>1. layer \in 1 .. Layers /\ UNCHANGED host
      BY <2>2 DEF LayerEnds, Ignore, Reserve, Fill, Running
    <3> QED
      BY <3>1 DEF HInv, Unsifted, host
  <2> QED
    BY <2>1, <2>2
<1> QED
  BY <1>1, <1>2, <1>3 DEF HInv, KeepsTheSurest

\* What a step of the host leaves alone.
LEMMA HostLeaves ==
  ASSUME UNCHANGED <<count, slots>>
  PROVE  /\ Sure' = Sure
         /\ \A s, u : Overlaps(s, u)' <=> Overlaps(s, u)
BY DEF Sure, Read, Overlaps

LEMMA NmsHost ==
  ASSUME SInv, HInv, Nms PROVE HInv'
<1>1. PICK order \in SetToSeqs(Sure) : Sorted(order) /\ dets' = order
  BY DEF Nms
<1>2. /\ order \in Seq(Sure)
      /\ \A i, j \in 1 .. Len(order) : order[i] = order[j] => i = j
      /\ \A s \in Sure : \E i \in 1 .. Len(order) : order[i] = s
  BY OrderHasAll
<1>3. UNCHANGED <<round, count, slots, item, other, res>> /\ layer = Layers + 1 /\ dets = << >>
      /\ layer' = IF order = << >> THEN 0 ELSE layer
  BY <1>1 DEF Nms, gpu
<1>4. Unsifted
  <2>1. item = 1
    BY DEF Nms
  <2> QED
    BY <1>3, <2>1 DEF HInv, Sifting, SiftTypes
<1>5. Sure' = Sure
  BY <1>3, HostLeaves
<1>6. Filled'
  BY <1>3, DetectionAssumption DEF HInv, Filled
<1>7. CASE order = << >>
  <2>1. Sure = {}
    BY <1>2, <1>7
  <2>2. layer' = 0 /\ Sure' = {}
    BY <1>3, <1>5, <1>7, <2>1
  <2> QED
    BY <1>6, <2>2, DetectionAssumption DEF HInv, KeepsTheSurest
<1>8. CASE order # << >>
  <2>1. Len(order) \in Nat /\ 1 <= Len(order)
    BY <1>2, <1>8, EmptySeq, LenProperties
  <2>2. SiftTypes'
    BY <1>1, <1>2, <1>3, <1>4, <1>5, <2>1 DEF SiftTypes, Unsifted
  <2>3. Sorted(dets)'
    BY <1>1, <1>3 DEF Sorted, Before
  <2>4. Distinct' /\ Covered' /\ Apart' /\ ResIsKept'
    <3>1. item' = 1 /\ other' = NoOther /\ res' = << >> /\ dets' = order
      BY <1>1, <1>3, <1>4 DEF Unsifted
    <3>2. Kept' = 0
      BY <3>1 DEF Kept
    <3>3. Distinct' /\ Covered'
      BY <1>2, <1>5, <3>1 DEF Distinct, Covered
    <3>4. Apart'
      BY <2>1, <3>1 DEF Apart, Compared
    <3>5. ResIsKept'
      BY <3>1, <3>2, EmptySeq DEF ResIsKept
    <3> QED
      BY <3>3, <3>4, <3>5
  <2>5. layer' = Layers + 1
    BY <1>3, <1>8
  <2> QED
    BY <1>6, <2>2, <2>3, <2>4, <2>5, DetectionAssumption DEF HInv, Sifting, KeepsTheSurest
<1> QED
  BY <1>7, <1>8

\* A step of the loop finds the invariant of the loop.
LEMMA InTheLoop ==
  ASSUME HInv, layer = Layers + 1, item <= Len(dets) \/ other # NoOther
  PROVE  Sifting /\ Filled
<1>1. ~Unsifted
  BY DEF Unsifted
<1> QED
  BY <1>1 DEF HInv

LEMMA KeepHost ==
  ASSUME SInv, HInv, Keep PROVE HInv'
<1>1. /\ UNCHANGED <<round, layer, count, slots, dets, item>> /\ layer = Layers + 1
      /\ other = NoOther /\ item <= Len(dets)
      /\ other' = item + 1 /\ res' = Append(res, dets[item])
  BY DEF Keep, gpu
<1>2. Sifting /\ Filled
  BY <1>1, InTheLoop
<1>3. Sure' = Sure
  BY <1>1, HostLeaves
<1>4. Len(dets) \in Nat /\ item \in 1 .. Len(dets) /\ dets[item] \in Sure /\ dets \in Seq(Sure)
  BY <1>2, LenProperties, ElementOfSeq DEF Sifting, SiftTypes
<1>5. other' # NoOther /\ Kept = item - 1 /\ Kept' = item
  BY <1>1, <1>4 DEF Kept, NoOther
<1>6. Filled' /\ Sorted(dets)' /\ Distinct'
  BY <1>1, <1>2 DEF Filled, Sifting, Sorted, Before, Distinct
<1>7. SiftTypes'
  BY <1>1, <1>3, <1>4 DEF SiftTypes
<1>8. Covered'
  <2> SUFFICES ASSUME NEW s \in Sure
               PROVE  \/ \E i \in 1 .. Len(dets) : dets[i] = s
                      \/ \E i \in 1 .. item :
                           Overlaps(dets[i], s) /\ slots[dets[i]].conf >= slots[s].conf
    BY <1>1, <1>3, <1>5 DEF Covered, Overlaps
  <2>1. \A i \in 1 .. item - 1 : i \in 1 .. item
    BY <1>4
  <2> QED
    BY <1>2, <1>5, <2>1 DEF Sifting, Covered
<1>9. Apart'
  <2> SUFFICES ASSUME NEW i \in 1 .. Len(dets), NEW j \in 1 .. Len(dets), i < j, Compared(i, j)'
               PROVE  ~Overlaps(dets[i], dets[j])
    BY <1>1 DEF Apart, Overlaps
  <2>1. Compared(i, j)
    BY <1>1, <1>4 DEF Compared
  <2> QED
    BY <1>2, <2>1 DEF Sifting, Apart
<1>10. ResIsKept'
  <2>1. res \in Seq(Sure) /\ Len(res) = item - 1 /\ \A i \in 1 .. item - 1 : res[i] = dets[i]
    BY <1>2, <1>5 DEF Sifting, ResIsKept
  <2>2. /\ Append(res, dets[item]) \in Seq(Sure) /\ Len(Append(res, dets[item])) = Len(res) + 1
        /\ \A i \in 1 .. Len(res) : Append(res, dets[item])[i] = res[i]
        /\ Append(res, dets[item])[Len(res) + 1] = dets[item]
    BY <1>4, <2>1, AppendProperties
  <2>3. Len(res) + 1 = item /\ \A i \in 1 .. item : i = item \/ i \in 1 .. item - 1
    BY <1>4, <2>1
  <2>4. \A i \in 1 .. item : Append(res, dets[item])[i] = dets[i]
    BY <2>1, <2>2, <2>3
  <2> QED
    BY <1>1, <1>3, <1>5, <2>2, <2>3, <2>4 DEF ResIsKept
<1> QED
  BY <1>1, <1>6, <1>7, <1>8, <1>9, <1>10, DetectionAssumption DEF HInv, Sifting, KeepsTheSurest

\* Where the i-th of the sequence was before the n-th was erased.
From(n, i) == IF i < n THEN i ELSE i + 1

LEMMA CompareHost ==
  ASSUME SInv, HInv, Compare PROVE HInv'
<1>1. /\ UNCHANGED <<round, layer, count, slots, item, res>> /\ layer = Layers + 1
      /\ other # NoOther /\ other <= Len(dets)
  BY DEF Compare, gpu
<1>2. Sifting /\ Filled
  BY <1>1, InTheLoop
<1>3. Sure' = Sure
  BY <1>1, HostLeaves
<1>4. /\ Len(dets) \in Nat /\ item \in 1 .. Len(dets) /\ dets \in Seq(Sure)
      /\ other \in 1 .. Len(dets) /\ item < other
  BY <1>1, <1>2, LenProperties DEF Sifting, SiftTypes
<1>5. Kept = item
  BY <1>1 DEF Kept
<1>6. Filled'
  BY <1>1, <1>2 DEF Filled
<1>7. CASE ~Overlaps(dets[item], dets[other])
  <2>1. dets' = dets /\ other' = other + 1
    BY <1>7 DEF Compare
  <2>2. other' # NoOther /\ Kept' = item
    BY <1>1, <1>4, <2>1 DEF Kept, NoOther
  <2>3. Sorted(dets)' /\ Distinct' /\ ResIsKept' /\ Covered'
    BY <1>1, <1>2, <1>3, <1>5, <2>1, <2>2
       DEF Sifting, Sorted, Before, Distinct, ResIsKept, Covered, Overlaps
  <2>4. SiftTypes'
    BY <1>1, <1>3, <1>4, <2>1 DEF SiftTypes
  <2>5. Apart'
    <3> SUFFICES ASSUME NEW i \in 1 .. Len(dets), NEW j \in 1 .. Len(dets), i < j, Compared(i, j)'
                 PROVE  ~Overlaps(dets[i], dets[j])
      BY <1>1, <2>1 DEF Apart, Overlaps
    <3>1. Compared(i, j) \/ (i = item /\ j = other)
      BY <1>1, <1>4, <2>1 DEF Compared
    <3> QED
      BY <1>2, <1>7, <3>1 DEF Sifting, Apart
  <2> QED
    BY <1>1, <1>6, <2>3, <2>4, <2>5, DetectionAssumption DEF HInv, Sifting, KeepsTheSurest
<1>8. CASE Overlaps(dets[item], dets[other])
  <2> DEFINE rest == RemoveAt(dets, other)
  <2>1. dets' = rest /\ other' = other
    BY <1>8 DEF Compare, Follower
  <2>2. /\ rest \in Seq(Sure) /\ Len(rest) = Len(dets) - 1
        /\ \A i \in 1 .. Len(rest) : rest[i] = dets[From(other, i)]
    <3>1. /\ RemoveAt(dets, other) \in Seq(Sure) /\ Len(RemoveAt(dets, other)) = Len(dets) - 1
          /\ \A i \in 1 .. Len(dets) - 1 :
               RemoveAt(dets, other)[i] = IF i < other THEN dets[i] ELSE dets[i + 1]
      BY <1>4, RemoveAtProperties
    <3> QED
      BY <3>1 DEF From
  <2> HIDE DEF rest
  <2>3. \A i \in 1 .. Len(rest) : From(other, i) \in 1 .. Len(dets)
    BY <1>4, <2>2 DEF From
  <2>4. \A i \in 1 .. Len(rest), j \in 1 .. Len(rest) : i < j => From(other, i) < From(other, j)
    BY <1>4, <2>2 DEF From
  <2>5. Kept' = item /\ \A i \in 1 .. item : i \in 1 .. Len(rest) /\ From(other, i) = i
    <3>1. Kept' = item
      BY <1>1, <2>1 DEF Kept
    <3> QED
      BY <1>4, <2>2, <3>1 DEF From
  <2>6. SiftTypes'
    BY <1>1, <1>3, <1>4, <2>1, <2>2 DEF SiftTypes
  <2>7. Sorted(dets)'
    <3>1. DOMAIN rest = 1 .. Len(rest) /\ DOMAIN dets = 1 .. Len(dets)
      BY <1>4, <2>2, LenProperties
    <3>2. Sorted(rest)
      <4> SUFFICES ASSUME NEW i \in 1 .. Len(rest), NEW j \in 1 .. Len(rest), i < j
                   PROVE  /\ slots[rest[i]].class <= slots[rest[j]].class
                          /\ slots[rest[i]].class = slots[rest[j]].class
                               => Before(slots[rest[i]], slots[rest[j]])
        BY <3>1 DEF Sorted
      <4>1. /\ From(other, i) \in DOMAIN dets /\ From(other, j) \in DOMAIN dets
            /\ From(other, i) < From(other, j)
        BY <2>3, <2>4, <3>1
      <4>2. rest[i] = dets[From(other, i)] /\ rest[j] = dets[From(other, j)]
        BY <2>2
      <4> QED
        BY <1>2, <4>1, <4>2 DEF Sifting, Sorted
    <3> QED
      BY <1>1, <2>1, <3>2 DEF Sorted, Before
  <2>8. Distinct'
    <3> SUFFICES ASSUME NEW i \in 1 .. Len(rest), NEW j \in 1 .. Len(rest), rest[i] = rest[j]
                 PROVE  i = j
      BY <2>1 DEF Distinct
    <3>1. From(other, i) \in 1 .. Len(dets) /\ From(other, j) \in 1 .. Len(dets)
      BY <2>3
    <3>2. dets[From(other, i)] = dets[From(other, j)]
      BY <2>2
    <3>3. From(other, i) = From(other, j)
      BY <1>2, <3>1, <3>2 DEF Sifting, Distinct
    <3>4. ~(i < j) /\ ~(j < i)
      BY <1>4, <2>2, <2>4, <3>1, <3>3
    <3> QED
      BY <3>4
  <2>9. Apart'
    <3> SUFFICES ASSUME NEW i \in 1 .. Len(rest), NEW j \in 1 .. Len(rest), i < j, Compared(i, j)'
                 PROVE  ~Overlaps(rest[i], rest[j])
      BY <1>1, <2>1 DEF Apart, Overlaps
    <3>1. Compared(From(other, i), From(other, j))
      BY <1>1, <1>4, <2>1, <2>2 DEF Compared, From
    <3>2. /\ From(other, i) \in 1 .. Len(dets) /\ From(other, j) \in 1 .. Len(dets)
          /\ From(other, i) < From(other, j)
      BY <2>3, <2>4
    <3>3. rest[i] = dets[From(other, i)] /\ rest[j] = dets[From(other, j)]
      BY <2>2
    <3> QED
      BY <1>2, <3>1, <3>2, <3>3 DEF Sifting, Apart
  <2>10. \A i \in 1 .. item : rest[i] = dets[i]
    BY <2>2, <2>5
  <2>11. ResIsKept'
    BY <1>1, <1>2, <1>3, <1>5, <2>1, <2>5, <2>10 DEF Sifting, ResIsKept
  <2>12. Covered'
    <3> SUFFICES ASSUME NEW s \in Sure
                 PROVE  \/ \E i \in 1 .. Len(rest) : rest[i] = s
                        \/ \E i \in 1 .. item :
                             Overlaps(rest[i], s) /\ slots[rest[i]].conf >= slots[s].conf
      BY <1>1, <1>3, <2>1, <2>5 DEF Covered, Overlaps
    <3>1. CASE \E i \in 1 .. item : Overlaps(dets[i], s) /\ slots[dets[i]].conf >= slots[s].conf
      BY <2>10, <3>1
    <3>2. ASSUME NEW k \in 1 .. Len(dets), dets[k] = s, k # other
          PROVE  \E i \in 1 .. Len(rest) : rest[i] = s
      <4>1. CASE k < other
        <5>1. k \in 1 .. Len(rest) /\ From(other, k) = k
          BY <1>4, <2>2, <4>1 DEF From
        <5> QED
          BY <2>2, <3>2, <5>1
      <4>2. CASE ~(k < other)
        <5>1. k - 1 \in 1 .. Len(rest) /\ From(other, k - 1) = k
          BY <1>4, <2>2, <3>2, <4>2 DEF From
        <5> QED
          BY <2>2, <3>2, <5>1
      <4> QED
        BY <4>1, <4>2
    <3>3. CASE s = dets[other]
      <4>1. slots[dets[item]].class = slots[dets[other]].class
        BY <1>8 DEF Overlaps
      <4>2. item \in DOMAIN dets /\ other \in DOMAIN dets
        BY <1>4, LenProperties
      <4>3. slots[dets[item]].conf >= slots[dets[other]].conf
        BY <1>2, <1>4, <4>1, <4>2 DEF Sifting, Sorted, Before
      <4>4. item \in 1 .. item /\ rest[item] = dets[item]
        BY <1>4, <2>10
      <4> QED
        BY <1>8, <3>3, <4>3, <4>4
    <3> QED
      BY <1>2, <1>5, <3>1, <3>2, <3>3 DEF Sifting, Covered
  <2> QED
    BY <1>1, <1>6, <2>6, <2>7, <2>8, <2>9, <2>11, <2>12, DetectionAssumption
       DEF HInv, Sifting, KeepsTheSurest
<1> QED
  BY <1>7, <1>8

\* When every item was compared with all that follow it, the rest is what is kept.
LEMMA AllCompared ==
  ASSUME SiftTypes, Covered, Apart, ResIsKept,
         other # NoOther, other > Len(dets), item = Len(dets)
  PROVE  \A s \in Sure :
           s \notin ToSet(res)
             <=> \E e \in ToSet(res) \ {s} : Overlaps(e, s) /\ slots[e].conf >= slots[s].conf
<1>1. Len(dets) \in Nat /\ Kept = Len(dets) /\ res \in Seq(Sure) /\ Len(res) = Len(dets)
      /\ \A i \in 1 .. Len(dets) : res[i] = dets[i]
  BY LenProperties DEF SiftTypes, ResIsKept, Kept
<1>2. ToSet(res) = {dets[i] : i \in 1 .. Len(dets)}
  <2>1. DOMAIN res = 1 .. Len(dets)
    BY <1>1, LenProperties
  <2> QED
    BY <1>1, <2>1 DEF ToSet
<1> SUFFICES ASSUME NEW s \in Sure
             PROVE  s \notin ToSet(res)
                      <=> \E e \in ToSet(res) \ {s} : Overlaps(e, s) /\ slots[e].conf >= slots[s].conf
  OBVIOUS
<1>3. ASSUME s \notin ToSet(res)
      PROVE  \E e \in ToSet(res) \ {s} : Overlaps(e, s) /\ slots[e].conf >= slots[s].conf
  <2>1. PICK i \in 1 .. Len(dets) : Overlaps(dets[i], s) /\ slots[dets[i]].conf >= slots[s].conf
    BY <1>1, <1>2, <1>3 DEF Covered
  <2>2. dets[i] \in ToSet(res) \ {s}
    BY <1>2, <1>3
  <2> QED
    BY <2>1, <2>2
<1>4. ASSUME NEW e \in ToSet(res) \ {s}, Overlaps(e, s), s \in ToSet(res)
      PROVE  FALSE
  <2>1. PICK i \in 1 .. Len(dets) : dets[i] = e
    BY <1>2
  <2>2. PICK j \in 1 .. Len(dets) : dets[j] = s
    BY <1>2, <1>4
  <2>3. CASE i < j
    <3>1. Compared(i, j)
      BY <1>1, <2>3 DEF Compared
    <3> QED
      BY <1>4, <2>1, <2>2, <2>3, <3>1 DEF Apart
  <2>4. CASE j < i
    <3>1. Compared(j, i)
      BY <1>1, <2>4 DEF Compared
    <3>2. Overlaps(s, e)
      BY <1>4, OverlapsBothWays
    <3> QED
      BY <2>1, <2>2, <2>4, <3>1, <3>2 DEF Apart
  <2>5. i # j
    BY <2>1, <2>2
  <2> QED
    BY <1>1, <2>3, <2>4, <2>5
<1> QED
  BY <1>3, <1>4

LEMMA ItemEndsHost ==
  ASSUME SInv, HInv, ItemEnds PROVE HInv'
<1>1. /\ UNCHANGED <<round, count, slots, dets, res>> /\ layer = Layers + 1
      /\ other > Len(dets) /\ item' = item + 1 /\ other' = NoOther
      /\ layer' = IF item < Len(dets) THEN layer ELSE 0
  BY DEF ItemEnds, gpu
<1>2. Unsifted \/ Sifting
  BY <1>1 DEF HInv
<1>3. other # NoOther
  <2>1. Len(dets) \in Nat
    BY <1>2, EmptySeq, LenProperties DEF Unsifted, Sifting, SiftTypes
  <2> QED
    BY <1>1, <2>1 DEF NoOther
<1>4. Sifting /\ Filled
  BY <1>1, <1>3, InTheLoop
<1>5. Sure' = Sure
  BY <1>1, HostLeaves
<1>6. Len(dets) \in Nat /\ item \in 1 .. Len(dets) /\ dets \in Seq(Sure)
  BY <1>4, LenProperties DEF Sifting, SiftTypes
<1>7. Kept = item /\ Kept' = item
  BY <1>1, <1>3, <1>6 DEF Kept
<1>8. Filled'
  BY <1>1, <1>4, DetectionAssumption DEF HInv, Filled
<1>9. CASE item < Len(dets)
  <2>1. Sorted(dets)' /\ Distinct' /\ ResIsKept' /\ Covered'
    BY <1>1, <1>4, <1>5, <1>7
       DEF Sifting, Sorted, Before, Distinct, ResIsKept, Covered, Overlaps
  <2>2. SiftTypes'
    BY <1>1, <1>5, <1>6, <1>9 DEF SiftTypes
  <2>3. Apart'
    <3> SUFFICES ASSUME NEW i \in 1 .. Len(dets), NEW j \in 1 .. Len(dets), i < j, Compared(i, j)'
                 PROVE  ~Overlaps(dets[i], dets[j])
      BY <1>1 DEF Apart, Overlaps
    <3>1. i <= item
      BY <1>1, <1>6 DEF Compared
    <3>2. other \in item + 1 .. Len(dets) + 1
      BY <1>3, <1>4 DEF Sifting, SiftTypes
    <3>3. Compared(i, j)
      BY <1>1, <1>3, <1>6, <3>1, <3>2 DEF Compared
    <3> QED
      BY <1>4, <3>3 DEF Sifting, Apart
  <2>4. layer' = Layers + 1
    BY <1>1, <1>9
  <2> QED
    BY <1>8, <2>1, <2>2, <2>3, <2>4, DetectionAssumption DEF HInv, Sifting, KeepsTheSurest
<1>10. CASE ~(item < Len(dets))
  <2>1. item = Len(dets) /\ layer' = 0
    BY <1>1, <1>6, <1>10
  <2>2. \A s \in Sure :
           s \notin ToSet(res)
             <=> \E e \in ToSet(res) \ {s} : Overlaps(e, s) /\ slots[e].conf >= slots[s].conf
    BY <1>1, <1>3, <1>4, <2>1, AllCompared DEF Sifting
  <2>3. KeepsTheSurest'
    BY <1>1, <1>5, <2>2 DEF KeepsTheSurest, Overlaps
  <2> QED
    BY <1>8, <2>1, <2>3, DetectionAssumption DEF HInv
<1> QED
  BY <1>9, <1>10

LEMMA StepHost ==
  ASSUME SInv, HInv, [DetectionNext]_detectionVars PROVE HInv'
<1>1. CASE UNCHANGED detectionVars
  <2>1. UNCHANGED <<round, layer, count, slots, dets, item, other, res>>
    BY <1>1 DEF detectionVars, gpu, host
  <2>2. Sure' = Sure
    BY <2>1, HostLeaves
  <2>3. Filled' = Filled /\ Unsifted' = Unsifted
    BY <2>1 DEF Filled, Unsifted
  <2>4. Kept' = Kept /\ SiftTypes' = SiftTypes /\ Sorted(dets)' = Sorted(dets) /\ Distinct' = Distinct
    BY <2>1, <2>2 DEF SiftTypes, Sorted, Before, Distinct, Kept
  <2>5. Covered' = Covered /\ Apart' = Apart /\ ResIsKept' = ResIsKept
    BY <2>1, <2>2, <2>4 DEF Covered, Apart, Compared, ResIsKept, Overlaps
  <2>6. KeepsTheSurest' = KeepsTheSurest
    BY <2>1, <2>2 DEF KeepsTheSurest, Overlaps
  <2> QED
    BY <2>1, <2>3, <2>4, <2>5, <2>6 DEF HInv, Sifting
<1> QED
  BY <1>1, KernelHost, NmsHost, KeepHost, CompareHost, ItemEndsHost DEF DetectionNext

(* Whatever the network has found and however equals were sorted, a        *)
(* detection is dropped exactly when one that is kept, of its class and at *)
(* least as sure, overlaps it.                                             *)
THEOREM DetectionKeepsTheSurest == DetectionSpec => []KeepsTheSurest
<1>1. DetectionInit => SInv /\ HInv
  BY InitSlots, InitHost
<1>2. SInv /\ HInv /\ [DetectionNext]_detectionVars => (SInv /\ HInv)'
  BY StepSlots, StepHost
<1>3. SInv /\ HInv => KeepsTheSurest
  BY DEF HInv
<1> QED
  BY <1>1, <1>2, <1>3, PTL DEF DetectionSpec

-----------------------------------------------------------------------------
(* The lists of timers.c and msg.c.  The records in use are L, from head to *)
(* tail, and the cached ones C, in the order they are taken: together they  *)
(* are the whole memory, each once.                                         *)

\* A record with a key of K and a body of B, and a list of such records.
Records(K, B) == [key : K, body : B, next : Nat, prev : Nat]

Lists(K, B) ==
  [head : Nat, tail : Nat, cache : Nat, activesize : Int, cachesize : Int,
   memory : Seq(Records(K, B))]

OnceEach(s) == \A i, j \in 1 .. Len(s) : s[i] = s[j] => i = j

\* Each record is in one of the two, once.
Shared(N, L, C) ==
  /\ L \in Seq(1 .. N) /\ C \in Seq(1 .. N)
  /\ OnceEach(L) /\ OnceEach(C)
  /\ \A i \in 1 .. Len(L), j \in 1 .. Len(C) : L[i] # C[j]
  /\ \A n \in 1 .. N : (\E i \in 1 .. Len(L) : L[i] = n) \/ (\E j \in 1 .. Len(C) : C[j] = n)

\* The links of the records in use, both ways, and where they begin and end.
Linked(q, L) ==
  /\ q.head = IF L = << >> THEN Null ELSE L[1]
  /\ q.tail = IF L = << >> THEN Null ELSE L[Len(L)]
  /\ \A i \in 1 .. Len(L) :
       /\ q.memory[L[i]].next = IF i = Len(L) THEN Null ELSE L[i + 1]
       /\ q.memory[L[i]].prev = IF i = 1 THEN Null ELSE L[i - 1]

\* The links of the cached records.
Cached(q, C) ==
  /\ q.cache = IF C = << >> THEN Null ELSE C[1]
  /\ \A i \in 1 .. Len(C) : q.memory[C[i]].next = IF i = Len(C) THEN Null ELSE C[i + 1]

Chained(q, L, C) ==
  Shared(Len(q.memory), L, C) /\ Linked(q, L) /\ Cached(q, C)

LEMMA FcnIsSeq ==
  ASSUME NEW S, NEW n \in Nat, NEW f \in [1 .. n -> S]
  PROVE  f \in Seq(S) /\ Len(f) = n
<1>1. f \in Seq(S)
  BY SeqDef
<1> QED
  BY <1>1, LenProperties

LEMMA EmptyChained ==
  ASSUME NEW K, NEW B
  PROVE  EmptyList \in Lists(K, B) /\ Chained(EmptyList, << >>, << >>)
BY DEF EmptyList, Lists, Chained, Shared, Linked, Cached, OnceEach, Null

\* L without its record at j.
Without(L, j) == [i \in 1 .. Len(L) - 1 |-> IF i < j THEN L[i] ELSE L[i + 1]]

LEMMA RecycledShared ==
  ASSUME NEW N \in Nat, NEW L, NEW C, Shared(N, L, C), NEW j \in 1 .. Len(L)
  PROVE  Shared(N, Without(L, j), <<L[j]>> \o C)
<1> DEFINE M == Without(L, j)
           D == <<L[j]>> \o C
           l == Len(L)
           c == Len(C)
<1>1. L \in Seq(1 .. N) /\ C \in Seq(1 .. N) /\ l \in Nat /\ c \in Nat /\ j \in 1 .. l
  BY DEF Shared
<1>2. M \in Seq(1 .. N) /\ Len(M) = l - 1
      /\ \A i \in 1 .. l - 1 : M[i] = IF i < j THEN L[i] ELSE L[i + 1]
  BY <1>1 DEF Without
<1>3. D \in Seq(1 .. N) /\ Len(D) = c + 1 /\ D[1] = L[j]
      /\ \A i \in 2 .. c + 1 : D[i] = C[i - 1]
  BY <1>1
<1>s. /\ \A i, k \in 1 .. l : L[i] = L[k] => i = k
      /\ \A i, k \in 1 .. c : C[i] = C[k] => i = k
      /\ \A i \in 1 .. l, k \in 1 .. c : L[i] # C[k]
      /\ \A n \in 1 .. N : (\E i \in 1 .. l : L[i] = n) \/ (\E k \in 1 .. c : C[k] = n)
  BY DEF Shared, OnceEach
<1> HIDE DEF M, D, l, c
<1>4. OnceEach(M)
  <2> SUFFICES ASSUME NEW i \in 1 .. l - 1, NEW k \in 1 .. l - 1, M[i] = M[k] PROVE i = k
    BY <1>2 DEF OnceEach
  <2> DEFINE h == IF i < j THEN i ELSE i + 1
             g == IF k < j THEN k ELSE k + 1
  <2>1. h \in 1 .. l /\ g \in 1 .. l /\ (h = g => i = k)
    BY <1>1
  <2>2. M[i] = L[h] /\ M[k] = L[g]
    BY <1>2
  <2> HIDE DEF h, g
  <2> QED
    BY <1>s, <2>1, <2>2
<1>5. OnceEach(D)
  <2> SUFFICES ASSUME NEW i \in 1 .. c + 1, NEW k \in 1 .. c + 1, D[i] = D[k] PROVE i = k
    BY <1>3 DEF OnceEach
  <2>1. /\ i = 1 \/ (i \in 2 .. c + 1 /\ i - 1 \in 1 .. c)
        /\ k = 1 \/ (k \in 2 .. c + 1 /\ k - 1 \in 1 .. c)
    BY <1>1
  <2>2. CASE i = 1 /\ k = 1
    BY <2>2
  <2>3. CASE i \in 2 .. c + 1 /\ k \in 2 .. c + 1
    <3>1. i - 1 \in 1 .. c /\ k - 1 \in 1 .. c /\ D[i] = C[i - 1] /\ D[k] = C[k - 1]
      BY <1>1, <1>3, <2>3
    <3>2. i - 1 = k - 1
      BY <1>s, <3>1
    <3> QED
      BY <3>2, <1>1
  <2> QED
    BY <1>1, <1>3, <1>s, <2>1, <2>2, <2>3
<1>6. ASSUME NEW i \in 1 .. l - 1, NEW k \in 1 .. c + 1
      PROVE  M[i] # D[k]
  <2>1. i \in 1 .. l /\ i + 1 \in 1 .. l /\ (i < j => i # j) /\ (~(i < j) => i + 1 # j)
    BY <1>1
  <2>2. \E h \in 1 .. l : M[i] = L[h] /\ h # j
    BY <1>2, <2>1
  <2>3. k = 1 \/ (k \in 2 .. c + 1 /\ k - 1 \in 1 .. c)
    BY <1>1
  <2> QED
    BY <1>1, <1>3, <1>s, <2>2, <2>3
<1>7. ASSUME NEW n \in 1 .. N
      PROVE  (\E i \in 1 .. l - 1 : M[i] = n) \/ (\E k \in 1 .. c + 1 : D[k] = n)
  <2>1. CASE \E i \in 1 .. l : L[i] = n
    <3>1. PICK i \in 1 .. l : L[i] = n
      BY <2>1
    <3>2. CASE i < j
      <4>1. i \in 1 .. l - 1
        BY <1>1, <3>2
      <4> QED
        BY <1>2, <3>1, <3>2, <4>1
    <3>3. CASE i = j
      <4>1. 1 \in 1 .. c + 1
        BY <1>1
      <4> QED
        BY <1>3, <3>1, <3>3, <4>1
    <3>4. CASE i > j
      <4>1. i - 1 \in 1 .. l - 1 /\ ~(i - 1 < j) /\ (i - 1) + 1 = i
        BY <1>1, <3>4
      <4> QED
        BY <1>2, <3>1, <4>1
    <3> QED
      BY <1>1, <3>2, <3>3, <3>4
  <2>2. CASE \E k \in 1 .. c : C[k] = n
    <3>1. PICK k \in 1 .. c : C[k] = n
      BY <2>2
    <3>2. k + 1 \in 2 .. c + 1 /\ (k + 1) - 1 = k /\ k + 1 \in 1 .. c + 1
      BY <1>1
    <3> QED
      BY <1>3, <3>1, <3>2
  <2> QED
    BY <2>1, <2>2, <1>s
<1>8. \A i \in 1 .. Len(M), k \in 1 .. Len(D) : M[i] # D[k]
  BY <1>2, <1>3, <1>6
<1>9. \A n \in 1 .. N : (\E i \in 1 .. Len(M) : M[i] = n) \/ (\E k \in 1 .. Len(D) : D[k] = n)
  BY <1>2, <1>3, <1>7
<1>10. Shared(N, M, D)
  BY <1>2, <1>3, <1>4, <1>5, <1>8, <1>9 DEF Shared
<1> QED
  BY <1>10 DEF M, D

LEMMA SharedParts ==
  ASSUME NEW N \in Nat, NEW L, NEW C, Shared(N, L, C)
  PROVE  /\ \A i, k \in 1 .. Len(L) : L[i] = L[k] => i = k
         /\ \A i \in 1 .. Len(L), k \in 1 .. Len(C) : L[i] # C[k]
         /\ \A i \in 1 .. Len(L) : L[i] \in 1 .. N
         /\ \A i \in 1 .. Len(C) : C[i] \in 1 .. N
<1>1. L \in Seq(1 .. N) /\ C \in Seq(1 .. N)
  BY DEF Shared
<1>2. OnceEach(L) /\ \A i \in 1 .. Len(L), k \in 1 .. Len(C) : L[i] # C[k]
  BY DEF Shared
<1>3. \A i, k \in 1 .. Len(L) : L[i] = L[k] => i = k
  BY <1>2 DEF OnceEach
<1>4. \A i \in 1 .. Len(L) : L[i] \in 1 .. N
  BY <1>1
<1>5. \A i \in 1 .. Len(C) : C[i] \in 1 .. N
  BY <1>1
<1> QED
  BY <1>2, <1>3, <1>4, <1>5

\* The links after the record at j is out: its neighbours are linked to each other.
LEMMA RecycledChained ==
  ASSUME NEW K, NEW B, NEW q \in Lists(K, B), NEW L, NEW C, Chained(q, L, C), NEW j \in 1 .. Len(L)
  PROVE  /\ Recycled(q, L[j]) \in Lists(K, B)
         /\ Chained(Recycled(q, L[j]), Without(L, j), <<L[j]>> \o C)
         /\ Len(Recycled(q, L[j]).memory) = Len(q.memory)
         /\ \A n \in 1 .. Len(q.memory) : /\ Recycled(q, L[j]).memory[n].key = q.memory[n].key
                                          /\ Recycled(q, L[j]).memory[n].body = q.memory[n].body
<1> DEFINE M == Without(L, j)
           D == <<L[j]>> \o C
           l == Len(L)
           c == Len(C)
           N == Len(q.memory)
           n == L[j]
           r == q.memory[n]
           p == Recycled(q, n)
<1>1. /\ L \in Seq(1 .. N) /\ C \in Seq(1 .. N) /\ l \in Nat /\ c \in Nat /\ j \in 1 .. l
      /\ N \in Nat /\ n \in 1 .. N
  BY DEF Chained, Shared, Lists
<1>2. M \in Seq(1 .. N) /\ Len(M) = l - 1
      /\ \A i \in 1 .. l - 1 : M[i] = IF i < j THEN L[i] ELSE L[i + 1]
  <2>1. \A i \in 1 .. l - 1 : L[i] \in 1 .. N /\ L[i + 1] \in 1 .. N
    BY <1>1
  <2>2. l - 1 \in Nat
    BY <1>1
  <2>3. M \in [1 .. l - 1 -> 1 .. N] /\ \A i \in 1 .. l - 1 : M[i] = IF i < j THEN L[i] ELSE L[i + 1]
    BY <2>1 DEF Without
  <2> QED
    BY <2>2, <2>3, FcnIsSeq
<1>3. D \in Seq(1 .. N) /\ Len(D) = c + 1 /\ D[1] = n
      /\ \A i \in 2 .. c + 1 : D[i] = C[i - 1]
  BY <1>1
<1>4. /\ \A i, k \in 1 .. l : L[i] = L[k] => i = k
      /\ \A i \in 1 .. l, k \in 1 .. c : L[i] # C[k]
      /\ \A i \in 1 .. l : L[i] \in 1 .. N
      /\ \A i \in 1 .. c : C[i] \in 1 .. N
  BY <1>1, SharedParts DEF Chained
<1>5. /\ q.head = L[1] /\ q.tail = L[l]
      /\ \A i \in 1 .. l : /\ q.memory[L[i]].next = IF i = l THEN 0 ELSE L[i + 1]
                           /\ q.memory[L[i]].prev = IF i = 1 THEN 0 ELSE L[i - 1]
      /\ q.cache = IF C = << >> THEN 0 ELSE C[1]
      /\ \A i \in 1 .. c : q.memory[C[i]].next = IF i = c THEN 0 ELSE C[i + 1]
  BY <1>1 DEF Chained, Linked, Cached, Null
<1>6. \A i \in 1 .. N : q.memory[i] \in Records(K, B)
  BY DEF Lists
<1>7. /\ r.next = IF j = l THEN 0 ELSE L[j + 1]
      /\ r.prev = IF j = 1 THEN 0 ELSE L[j - 1]
  BY <1>1, <1>5
<1>8. /\ p.head = IF r.prev = 0 THEN r.next ELSE q.head
      /\ p.tail = IF r.next = 0 THEN r.prev ELSE q.tail
      /\ p.cache = n /\ p.activesize = q.activesize - 1 /\ p.cachesize = q.cachesize + 1
      /\ p.memory = [ i \in 1 .. N |->
                      IF i = n THEN [r EXCEPT !.next = q.cache, !.prev = 0]
                      ELSE IF i = r.prev THEN [q.memory[i] EXCEPT !.next = r.next]
                      ELSE IF i = r.next THEN [q.memory[i] EXCEPT !.prev = r.prev]
                      ELSE q.memory[i] ]
      /\ p = [head |-> p.head, tail |-> p.tail, cache |-> p.cache, activesize |-> p.activesize,
              cachesize |-> p.cachesize, memory |-> p.memory]
  BY <1>1 DEF Recycled, Memory, Null, Lists
<1>9. /\ q.head \in Nat /\ q.tail \in Nat /\ q.cache \in Nat
      /\ q.activesize \in Int /\ q.cachesize \in Int
  BY DEF Lists
<1> HIDE DEF p
<1>10. /\ Len(p.memory) = N /\ p.memory \in Seq(Records(K, B))
       /\ \A i \in 1 .. N : p.memory[i].key = q.memory[i].key /\ p.memory[i].body = q.memory[i].body
       /\ p.memory[n].next = q.cache
       /\ \A i \in 1 .. N : i # n /\ i # r.prev => p.memory[i].next = q.memory[i].next
       /\ \A i \in 1 .. N : i # n /\ i = r.prev => p.memory[i].next = r.next
       /\ \A i \in 1 .. N : i # n /\ (i = r.prev \/ i # r.next) => p.memory[i].prev = q.memory[i].prev
       /\ \A i \in 1 .. N : i # n /\ i # r.prev /\ i = r.next => p.memory[i].prev = r.prev
  <2>1. /\ r \in Records(K, B) /\ r.next \in Nat /\ r.prev \in Nat /\ q.cache \in Nat
    BY <1>1, <1>6, <1>9 DEF Records
  <2> HIDE DEF r
  <2>2. [r EXCEPT !.next = q.cache, !.prev = 0] \in Records(K, B)
        /\ [r EXCEPT !.next = q.cache, !.prev = 0].next = q.cache
        /\ [r EXCEPT !.next = q.cache, !.prev = 0].key = r.key
        /\ [r EXCEPT !.next = q.cache, !.prev = 0].body = r.body
    BY <2>1 DEF Records
  <2>3. \A i \in 1 .. N :
          /\ [q.memory[i] EXCEPT !.next = r.next] \in Records(K, B)
          /\ [q.memory[i] EXCEPT !.next = r.next].next = r.next
          /\ [q.memory[i] EXCEPT !.next = r.next].prev = q.memory[i].prev
          /\ [q.memory[i] EXCEPT !.next = r.next].key = q.memory[i].key
          /\ [q.memory[i] EXCEPT !.next = r.next].body = q.memory[i].body
    BY <1>6, <2>1 DEF Records
  <2>4. \A i \in 1 .. N :
          /\ [q.memory[i] EXCEPT !.prev = r.prev] \in Records(K, B)
          /\ [q.memory[i] EXCEPT !.prev = r.prev].prev = r.prev
          /\ [q.memory[i] EXCEPT !.prev = r.prev].next = q.memory[i].next
          /\ [q.memory[i] EXCEPT !.prev = r.prev].key = q.memory[i].key
          /\ [q.memory[i] EXCEPT !.prev = r.prev].body = q.memory[i].body
    BY <1>6, <2>1 DEF Records
  <2>5. /\ p.memory[n] = [r EXCEPT !.next = q.cache, !.prev = 0]
        /\ \A i \in 1 .. N : i # n /\ i = r.prev => p.memory[i] = [q.memory[i] EXCEPT !.next = r.next]
        /\ \A i \in 1 .. N : i # n /\ i # r.prev /\ i = r.next =>
             p.memory[i] = [q.memory[i] EXCEPT !.prev = r.prev]
        /\ \A i \in 1 .. N : i # n /\ i # r.prev /\ i # r.next => p.memory[i] = q.memory[i]
    BY <1>1, <1>8, Zenon
  <2>6. \A i \in 1 .. N :
          /\ p.memory[i] \in Records(K, B)
          /\ p.memory[i].key = q.memory[i].key
          /\ p.memory[i].body = q.memory[i].body
    <3>1. r = q.memory[n]
      BY DEF r
    <3> TAKE i \in 1 .. N
    <3>2. CASE i = n
      BY <2>2, <2>5, <3>1, <3>2, Zenon
    <3>3. CASE i # n /\ i = r.prev
      BY <2>3, <2>5, <3>3, Zenon
    <3>4. CASE i # n /\ i # r.prev /\ i = r.next
      BY <2>4, <2>5, <3>4, Zenon
    <3>5. CASE i # n /\ i # r.prev /\ i # r.next
      BY <1>6, <2>5, <3>5, Zenon
    <3> QED
      BY <3>2, <3>3, <3>4, <3>5
  <2>7. p.memory \in [1 .. N -> Records(K, B)]
    BY <1>8, <2>6, Zenon
  <2>8. p.memory \in Seq(Records(K, B)) /\ Len(p.memory) = N
    BY <2>7, <1>1, FcnIsSeq, Zenon
  <2>9. /\ p.memory[n].next = q.cache
        /\ \A i \in 1 .. N : i # n /\ i # r.prev => p.memory[i].next = q.memory[i].next
    BY <2>2, <2>4, <2>5, Zenon
  <2>10. /\ \A i \in 1 .. N : i # n /\ i = r.prev => p.memory[i].next = r.next
         /\ \A i \in 1 .. N : i # n /\ i = r.prev => p.memory[i].prev = q.memory[i].prev
         /\ \A i \in 1 .. N : i # n /\ i # r.prev /\ i # r.next => p.memory[i].prev = q.memory[i].prev
         /\ \A i \in 1 .. N : i # n /\ i # r.prev /\ i = r.next => p.memory[i].prev = r.prev
    BY <2>3, <2>4, <2>5, Zenon
  <2> QED
    BY <2>6, <2>8, <2>9, <2>10, Zenon
<1> HIDE DEF M, D, N, r, l, c
<1>11. p \in Lists(K, B)
  <2>1. r.next \in Nat /\ r.prev \in Nat
    BY <1>1, <1>6 DEF r, Records
  <2>2. p.head \in Nat /\ p.tail \in Nat
    BY <1>8, <1>9, <2>1, Zenon
  <2>3. p.cache = n /\ p.activesize = q.activesize - 1 /\ p.cachesize = q.cachesize + 1
    BY <1>8, Zenon
  <2>4. p.cache \in Nat /\ p.activesize \in Int /\ p.cachesize \in Int
    BY <1>1, <1>9, <2>3
  <2> QED
    BY <1>8, <1>10, <2>2, <2>4, Zenon DEF Lists
<1>12. \A i \in 1 .. l : i # j => L[i] # n /\ (L[i] = r.prev <=> i = j - 1) /\ (L[i] = r.next <=> i = j + 1)
  <2> SUFFICES ASSUME NEW i \in 1 .. l, i # j
               PROVE  L[i] # n /\ (L[i] = r.prev <=> i = j - 1) /\ (L[i] = r.next <=> i = j + 1)
    OBVIOUS
  <2>1. L[i] # n /\ L[i] # 0
    BY <1>1, <1>4
  <2>2. L[i] = r.prev <=> i = j - 1
    <3>1. CASE j = 1
      BY <1>1, <1>7, <2>1, <3>1
    <3>2. CASE j # 1
      <4>1. j - 1 \in 1 .. l /\ r.prev = L[j - 1]
        BY <1>1, <1>7, <3>2
      <4> QED
        BY <1>4, <4>1
    <3> QED
      BY <3>1, <3>2
  <2>3. L[i] = r.next <=> i = j + 1
    <3>1. CASE j = l
      BY <1>1, <1>7, <2>1, <3>1
    <3>2. CASE j # l
      <4>1. j + 1 \in 1 .. l /\ r.next = L[j + 1]
        BY <1>1, <1>7, <3>2
      <4> QED
        BY <1>4, <4>1
    <3> QED
      BY <3>1, <3>2
  <2> QED
    BY <2>1, <2>2, <2>3
<1>13. ASSUME NEW i \in 1 .. l - 1
       PROVE  /\ p.memory[M[i]].next = IF i = l - 1 THEN 0 ELSE M[i + 1]
              /\ p.memory[M[i]].prev = IF i = 1 THEN 0 ELSE M[i - 1]
  <2> DEFINE h == IF i < j THEN i ELSE i + 1
  <2>1. h \in 1 .. l /\ h # j /\ M[i] = L[h] /\ L[h] \in 1 .. N
    BY <1>1, <1>2, <1>4
  <2>2. i < j => h = i
    OBVIOUS
  <2>3. ~(i < j) => h = i + 1
    OBVIOUS
  <2>4. /\ i + 1 \in 1 .. l - 1 => M[i + 1] = IF i + 1 < j THEN L[i + 1] ELSE L[i + 1 + 1]
        /\ i - 1 \in 1 .. l - 1 => M[i - 1] = IF i - 1 < j THEN L[i - 1] ELSE L[i - 1 + 1]
    BY <1>2
  <2> HIDE DEF h
  <2>5. /\ L[h] # n
        /\ L[h] = r.prev <=> h = j - 1
        /\ L[h] = r.next <=> h = j + 1
        /\ q.memory[L[h]].next = IF h = l THEN 0 ELSE L[h + 1]
        /\ q.memory[L[h]].prev = IF h = 1 THEN 0 ELSE L[h - 1]
    BY <1>5, <1>12, <2>1
  <2>6. p.memory[L[h]].next = IF h = j - 1 THEN r.next ELSE IF h = l THEN 0 ELSE L[h + 1]
    BY <1>10, <2>1, <2>5
  <2>7. p.memory[L[h]].prev = IF h = j + 1 THEN r.prev ELSE IF h = 1 THEN 0 ELSE L[h - 1]
    <3>1. ~(h = j + 1 /\ h = j - 1)
      BY <1>1, <2>1
    <3>2. CASE h = j + 1
      BY <1>10, <2>1, <2>5, <3>1, <3>2
    <3>3. CASE h # j + 1
      <4>1. p.memory[L[h]].prev = q.memory[L[h]].prev
        BY <1>10, <2>1, <2>5, <3>3
      <4> QED
        BY <2>5, <3>3, <4>1
    <3> QED
      BY <3>2, <3>3
  <2>8. CASE i < j
    <3>1. p.memory[M[i]].next = IF i = l - 1 THEN 0 ELSE M[i + 1]
      <4>1. p.memory[M[i]].next = IF i = j - 1 THEN r.next ELSE L[i + 1]
        BY <1>1, <2>1, <2>2, <2>6, <2>8
      <4>2. CASE i = j - 1
        <5>1. r.next = IF i = l - 1 THEN 0 ELSE L[i + 1 + 1]
          BY <1>1, <1>7, <4>2
        <5>2. i # l - 1 => M[i + 1] = L[i + 1 + 1]
          BY <1>1, <2>4, <4>2
        <5> QED
          BY <4>1, <4>2, <5>1, <5>2
      <4>3. CASE i # j - 1
        <5>1. i # l - 1 /\ M[i + 1] = L[i + 1]
          BY <1>1, <2>4, <2>8, <4>3
        <5> QED
          BY <4>1, <4>3, <5>1
      <4> QED
        BY <4>2, <4>3
    <3>2. p.memory[M[i]].prev = IF i = 1 THEN 0 ELSE M[i - 1]
      BY <1>1, <1>7, <2>1, <2>2, <2>4, <2>7, <2>8
    <3> QED
      BY <3>1, <3>2
  <2>9. CASE ~(i < j)
    <3>1. p.memory[M[i]].next = IF i = l - 1 THEN 0 ELSE M[i + 1]
      BY <1>1, <1>7, <2>1, <2>3, <2>4, <2>6, <2>9
    <3>2. p.memory[M[i]].prev = IF i = 1 THEN 0 ELSE M[i - 1]
      BY <1>1, <1>7, <2>1, <2>3, <2>4, <2>7, <2>9
    <3> QED
      BY <3>1, <3>2
  <2> QED
    BY <2>8, <2>9
<1>14. Linked(p, M)
  <2>1. M = << >> <=> l = 1
    BY <1>1, <1>2
  <2>2. /\ p.head = IF r.prev = 0 THEN r.next ELSE L[1]
        /\ p.tail = IF r.next = 0 THEN r.prev ELSE L[l]
    BY <1>5, <1>8, Zenon
  <2>3. (r.prev = 0 <=> j = 1) /\ (r.next = 0 <=> j = l)
    BY <1>1, <1>4, <1>7
  <2>4. l > 1 => /\ M[1] = IF 1 < j THEN L[1] ELSE L[1 + 1]
                 /\ M[l - 1] = IF l - 1 < j THEN L[l - 1] ELSE L[l - 1 + 1]
    BY <1>1, <1>2
  <2>5. p.head = IF l = 1 THEN 0 ELSE M[1]
    BY <1>1, <1>7, <2>2, <2>3, <2>4
  <2>6. p.tail = IF l = 1 THEN 0 ELSE M[l - 1]
    BY <1>1, <1>7, <2>2, <2>3, <2>4
  <2> QED
    BY <1>2, <1>13, <2>1, <2>5, <2>6 DEF Linked, Null
<1>15. Cached(p, D)
  <2>1. D # << >> /\ p.cache = D[1]
    BY <1>1, <1>3, <1>8
  <2>2. C = << >> <=> c = 0
    BY <1>1 DEF c
  <2>3. ASSUME NEW i \in 1 .. c + 1
        PROVE  p.memory[D[i]].next = IF i = c + 1 THEN 0 ELSE D[i + 1]
    <3>1. CASE i = 1
      <4>1. p.memory[D[i]].next = q.cache
        BY <1>3, <1>10, <3>1
      <4>2. c # 0 => D[2] = C[1]
        BY <1>1, <1>3
      <4> QED
        BY <1>1, <1>5, <2>2, <3>1, <4>1, <4>2
    <3>2. CASE i # 1
      <4> DEFINE k == i - 1
      <4>1. k \in 1 .. c /\ D[i] = C[k] /\ (i # c + 1 => D[i + 1] = C[k + 1]) /\ (i = c + 1 <=> k = c)
        BY <1>1, <1>3, <3>2
      <4> HIDE DEF k
      <4>2. C[k] \in 1 .. N /\ C[k] # n /\ C[k] # r.prev
        <5>1. C[k] \in 1 .. N /\ C[k] # n
          BY <1>1, <1>4, <4>1
        <5>2. j # 1 => j - 1 \in 1 .. l
          BY <1>1
        <5> QED
          BY <1>4, <1>7, <4>1, <5>1, <5>2
      <4>3. p.memory[C[k]].next = q.memory[C[k]].next
        BY <1>10, <4>2
      <4>4. q.memory[C[k]].next = IF k = c THEN 0 ELSE C[k + 1]
        BY <1>5, <4>1
      <4> QED
        BY <4>1, <4>3, <4>4
    <3> QED
      BY <3>1, <3>2
  <2> QED
    BY <1>3, <2>1, <2>3 DEF Cached, Null
<1>16. Shared(N, M, D)
  BY <1>1, RecycledShared DEF Chained, M, D, N
<1> QED
  BY <1>10, <1>11, <1>14, <1>15, <1>16 DEF Chained, M, D, N, p

\* The cache without the record that Acquired takes.
Rest(C) == IF C = << >> THEN C ELSE Tail(C)

LEMMA RestIs ==
  ASSUME NEW N \in Nat, NEW C \in Seq(1 .. N)
  PROVE  /\ Rest(C) \in Seq(1 .. N) /\ Len(C) \in Nat
         /\ Len(Rest(C)) = IF Len(C) = 0 THEN 0 ELSE Len(C) - 1
         /\ \A i \in 1 .. Len(Rest(C)) : Rest(C)[i] = C[i + 1] /\ i + 1 \in 1 .. Len(C)
<1>1. CASE C = << >>
  BY <1>1 DEF Rest
<1>2. CASE C # << >>
  BY <1>2, HeadTailProperties DEF Rest
<1> QED
  BY <1>1, <1>2

LEMMA AppendedShared ==
  ASSUME NEW N \in Nat, NEW L, NEW C, Shared(N, L, C), NEW n,
         n = IF C = << >> THEN N + 1 ELSE C[1]
  PROVE  Shared(IF C = << >> THEN N + 1 ELSE N, Append(L, n), Rest(C))
<1> DEFINE l == Len(L)
           c == Len(C)
           d == Len(Rest(C))
           P == IF C = << >> THEN N + 1 ELSE N
           M == Append(L, n)
           D == Rest(C)
<1>1. L \in Seq(1 .. N) /\ C \in Seq(1 .. N) /\ l \in Nat /\ c \in Nat /\ (C = << >> <=> c = 0)
  BY DEF Shared
<1>s. /\ \A i, k \in 1 .. l : L[i] = L[k] => i = k
      /\ \A i, k \in 1 .. c : C[i] = C[k] => i = k
      /\ \A i \in 1 .. l, k \in 1 .. c : L[i] # C[k]
      /\ \A m \in 1 .. N : (\E i \in 1 .. l : L[i] = m) \/ (\E k \in 1 .. c : C[k] = m)
      /\ \A i \in 1 .. l : L[i] \in 1 .. N
      /\ \A i \in 1 .. c : C[i] \in 1 .. N
  <2>1. /\ \A i \in 1 .. l : L[i] \in 1 .. N
        /\ \A i \in 1 .. c : C[i] \in 1 .. N
    BY <1>1
  <2> QED
    BY <2>1, Zenon DEF Shared, OnceEach
<1>2. P \in Nat /\ N <= P /\ n \in 1 .. P /\ \A m \in 1 .. N : m \in 1 .. P
  BY <1>1, <1>s
<1>3. /\ M \in Seq(1 .. P) /\ Len(M) = l + 1 /\ M[l + 1] = n
      /\ \A i \in 1 .. l : M[i] = L[i]
  <2> HIDE DEF P
  <2>1. L \in Seq(1 .. P)
    <3>1. L \in [1 .. l -> 1 .. P]
      BY <1>1, <1>2, <1>s
    <3> QED
      BY <1>1, <3>1, FcnIsSeq
  <2> QED
    BY <1>1, <1>2, <2>1
<1>4. /\ D \in Seq(1 .. P) /\ d = (IF c = 0 THEN 0 ELSE c - 1) /\ Len(D) = d
      /\ \A i \in 1 .. d : D[i] = C[i + 1] /\ i + 1 \in 1 .. c
  <2>1. /\ D \in Seq(1 .. N) /\ d = (IF c = 0 THEN 0 ELSE c - 1) /\ Len(D) = d
        /\ \A i \in 1 .. d : D[i] = C[i + 1] /\ i + 1 \in 1 .. c
    BY <1>1, RestIs
  <2> HIDE DEF D, P, c, d
  <2>2. D \in [1 .. d -> 1 .. P] /\ d \in Nat
    BY <1>1, <1>2, <2>1
  <2>3. D \in Seq(1 .. P)
    BY <2>2, FcnIsSeq
  <2> QED
    BY <2>1, <2>3
<1>5. \A i \in 1 .. l : L[i] # n
  <2>1. CASE c = 0
    <3>1. n = N + 1
      BY <1>1, <2>1
    <3> QED
      BY <1>s, <3>1
  <2>2. CASE c # 0
    <3>1. n = C[1] /\ 1 \in 1 .. c
      BY <1>1, <2>2
    <3> QED
      BY <1>s, <3>1
  <2> QED
    BY <2>1, <2>2
<1>6. \A i \in 1 .. d : D[i] # n
  <2>1. CASE c = 0
    BY <1>1, <1>4, <2>1
  <2>2. CASE c # 0
    <3> TAKE i \in 1 .. d
    <3>1. i + 1 \in 1 .. c /\ 1 \in 1 .. c /\ i + 1 # 1 /\ D[i] = C[i + 1] /\ n = C[1]
      BY <1>1, <1>4, <2>2
    <3> QED
      BY <1>s, <3>1
  <2> QED
    BY <2>1, <2>2
<1> HIDE DEF l, c, d, P, M, D
<1>7. OnceEach(M)
  BY <1>1, <1>3, <1>5, <1>s DEF OnceEach
<1>8. OnceEach(D)
  <2> SUFFICES ASSUME NEW i \in 1 .. d, NEW k \in 1 .. d, D[i] = D[k] PROVE i = k
    BY <1>4 DEF OnceEach
  <2>1. i + 1 = k + 1
    BY <1>4, <1>s
  <2> QED
    BY <1>1, <1>4, <2>1
<1>9. ASSUME NEW i \in 1 .. l + 1, NEW k \in 1 .. d
      PROVE  M[i] # D[k]
  <2>1. CASE i = l + 1
    BY <1>3, <1>6, <2>1
  <2>2. CASE i # l + 1
    <3>1. i \in 1 .. l
      BY <1>1, <2>2
    <3> QED
      BY <1>3, <1>4, <1>s, <3>1
  <2> QED
    BY <2>1, <2>2
<1>10. ASSUME NEW m \in 1 .. P
       PROVE  (\E i \in 1 .. l + 1 : M[i] = m) \/ (\E k \in 1 .. d : D[k] = m)
  <2>0. l + 1 \in 1 .. l + 1 /\ \A i \in 1 .. l : i \in 1 .. l + 1
    BY <1>1
  <2>1. CASE m = n
    BY <1>3, <2>0, <2>1
  <2>2. CASE m # n
    <3>1. m \in 1 .. N
      BY <1>1, <2>2 DEF P
    <3>2. CASE \E i \in 1 .. l : L[i] = m
      BY <1>3, <2>0, <3>2
    <3>3. CASE \E k \in 1 .. c : C[k] = m
      <4>1. PICK k \in 1 .. c : C[k] = m
        BY <3>3
      <4>2. k # 1
        BY <1>1, <2>2, <4>1
      <4>3. k - 1 \in 1 .. d /\ D[k - 1] = C[(k - 1) + 1] /\ (k - 1) + 1 = k
        <5>1. k - 1 \in 1 .. d /\ (k - 1) + 1 = k
          BY <1>1, <1>4, <4>2
        <5> QED
          BY <1>4, <5>1
      <4> QED
        BY <4>1, <4>3
    <3> QED
      BY <1>s, <3>1, <3>2, <3>3
  <2> QED
    BY <2>1, <2>2
<1>11. /\ \A i \in 1 .. Len(M), k \in 1 .. Len(D) : M[i] # D[k]
       /\ \A m \in 1 .. P : (\E i \in 1 .. Len(M) : M[i] = m) \/ (\E k \in 1 .. Len(D) : D[k] = m)
  BY <1>3, <1>4, <1>9, <1>10
<1>12. Shared(P, M, D)
  BY <1>3, <1>4, <1>7, <1>8, <1>11 DEF Shared
<1> QED
  BY <1>12 DEF P, M, D

LEMMA PutBehind ==
  ASSUME NEW S, NEW s \in Seq(S), NEW e
  PROVE  /\ Len(Append(s, e)) = Len(s) + 1 /\ Append(s, e) # << >>
         /\ Append(s, e)[Len(s) + 1] = e /\ \A i \in 1 .. Len(s) : Append(s, e)[i] = s[i]
OBVIOUS

\* The links when a record was put behind the last one.
LEMMA AppendedChained ==
  ASSUME NEW K, NEW B, NEW q \in Lists(K, B), NEW L, NEW C, Chained(q, L, C), NEW k \in K, NEW b \in B
  PROVE  LET n == Acquired(q)
             p == Appended(q, k, b)
         IN /\ p \in Lists(K, B)
            /\ Chained(p, Append(L, n), Rest(C))
            /\ n \in 1 .. Len(p.memory) /\ \A i \in 1 .. Len(L) : L[i] # n
            /\ C # << >> => n = C[1]
            /\ p.memory[n].key = k /\ p.memory[n].body = b
            /\ \A i \in 1 .. Len(q.memory) :
                 i # n => /\ i \in 1 .. Len(p.memory)
                          /\ p.memory[i].key = q.memory[i].key
                          /\ p.memory[i].body = q.memory[i].body
<1> DEFINE n == Acquired(q)
           p == Appended(q, k, b)
           l == Len(L)
           c == Len(C)
           N == Len(q.memory)
           P == IF C = << >> THEN N + 1 ELSE N
           M == Append(L, n)
           D == Rest(C)
           new == [key |-> k, body |-> b, next |-> 0, prev |-> IF q.head = 0 THEN 0 ELSE q.tail]
<1>1. /\ L \in Seq(1 .. N) /\ C \in Seq(1 .. N) /\ l \in Nat /\ c \in Nat /\ N \in Nat
      /\ (C = << >> <=> c = 0) /\ (L = << >> <=> l = 0)
  BY DEF Chained, Shared, Lists
<1>2. /\ \A i, j \in 1 .. l : L[i] = L[j] => i = j
      /\ \A i, j \in 1 .. c : C[i] = C[j] => i = j
      /\ \A i \in 1 .. l, j \in 1 .. c : L[i] # C[j]
      /\ \A i \in 1 .. l : L[i] \in 1 .. N
      /\ \A i \in 1 .. c : C[i] \in 1 .. N
  BY <1>1 DEF Chained, Shared, OnceEach
<1>3. /\ q.head = IF l = 0 THEN 0 ELSE L[1]
      /\ q.tail = IF l = 0 THEN 0 ELSE L[l]
      /\ \A i \in 1 .. l : /\ q.memory[L[i]].next = IF i = l THEN 0 ELSE L[i + 1]
                           /\ q.memory[L[i]].prev = IF i = 1 THEN 0 ELSE L[i - 1]
      /\ q.cache = IF c = 0 THEN 0 ELSE C[1]
      /\ \A i \in 1 .. c : q.memory[C[i]].next = IF i = c THEN 0 ELSE C[i + 1]
  BY <1>1 DEF Chained, Linked, Cached, Null
<1>4. \A i \in 1 .. N : q.memory[i] \in Records(K, B)
  BY DEF Lists
<1>5. /\ q.head \in Nat /\ q.tail \in Nat /\ q.cache \in Nat
      /\ q.activesize \in Int /\ q.cachesize \in Int
  BY DEF Lists
<1>6. n = (IF c = 0 THEN N + 1 ELSE C[1]) /\ (q.head = 0 <=> l = 0) /\ (q.cache = 0 <=> c = 0)
  BY <1>1, <1>2, <1>3 DEF Acquired, Null
<1>7. Shared(P, M, D)
  <2>1. n = IF C = << >> THEN N + 1 ELSE C[1]
    BY <1>1, <1>6
  <2> QED
    BY <1>1, <2>1, AppendedShared DEF Chained
<1>8. /\ p.head = IF q.head = 0 THEN n ELSE q.head
      /\ p.tail = n
      /\ p.cache = IF q.cache # 0 THEN q.memory[q.cache].next ELSE 0
      /\ p.activesize = q.activesize + 1
      /\ p.cachesize = IF q.cache # 0 THEN q.cachesize - 1 ELSE q.cachesize
      /\ p.memory = [ i \in (1 .. N) \cup {n} |->
                      IF i = n THEN new
                      ELSE IF q.head # 0 /\ i = q.tail
                           THEN [q.memory[i] EXCEPT !.next = n]
                           ELSE q.memory[i] ]
      /\ p = [head |-> p.head, tail |-> p.tail, cache |-> p.cache, activesize |-> p.activesize,
              cachesize |-> p.cachesize, memory |-> p.memory]
  <2>1. Memory(q) = 1 .. N
    BY <1>1 DEF Memory, Lists
  <2> QED
    BY <2>1, Zenon DEF Appended, Null
<1>9. /\ n \in 1 .. P /\ (1 .. N) \cup {n} = 1 .. P /\ P \in Nat /\ n \in Nat
      /\ \A i \in 1 .. l : L[i] # n
  BY <1>1, <1>2, <1>6
<1> HIDE DEF p, n, new, M, D, P
<1>10. /\ p.memory \in Seq(Records(K, B)) /\ Len(p.memory) = P
       /\ p.memory[n] = new
       /\ \A i \in 1 .. N : i # n => /\ p.memory[i].key = q.memory[i].key
                                     /\ p.memory[i].body = q.memory[i].body
                                     /\ p.memory[i].prev = q.memory[i].prev
                                     /\ p.memory[i].next = IF q.head # 0 /\ i = q.tail
                                                           THEN n ELSE q.memory[i].next
  <2>1. new \in Records(K, B)
    BY <1>5 DEF new, Records
  <2>2. \A i \in 1 .. N :
          /\ [q.memory[i] EXCEPT !.next = n] \in Records(K, B)
          /\ [q.memory[i] EXCEPT !.next = n].next = n
          /\ [q.memory[i] EXCEPT !.next = n].prev = q.memory[i].prev
          /\ [q.memory[i] EXCEPT !.next = n].key = q.memory[i].key
          /\ [q.memory[i] EXCEPT !.next = n].body = q.memory[i].body
    BY <1>4, <1>9 DEF Records
  <2>3. /\ p.memory[n] = new
        /\ \A i \in 1 .. N : i # n /\ q.head # 0 /\ i = q.tail => p.memory[i] = [q.memory[i] EXCEPT !.next = n]
        /\ \A i \in 1 .. N : i # n /\ ~(q.head # 0 /\ i = q.tail) => p.memory[i] = q.memory[i]
    BY <1>8, Zenon
  <2>4. \A i \in 1 .. P : p.memory[i] \in Records(K, B)
    <3> SUFFICES ASSUME NEW i \in 1 .. P PROVE p.memory[i] \in Records(K, B)
      OBVIOUS
    <3>1. CASE i = n
      BY <2>1, <2>3, <3>1, Zenon
    <3>2. CASE i # n
      <4>1. i \in 1 .. N
        BY <1>9, <3>2
      <4>2. CASE q.head # 0 /\ i = q.tail
        BY <2>2, <2>3, <3>2, <4>1, <4>2, Zenon
      <4>3. CASE ~(q.head # 0 /\ i = q.tail)
        BY <1>4, <2>3, <3>2, <4>1, <4>3, Zenon
      <4> QED
        BY <4>2, <4>3
    <3> QED
      BY <3>1, <3>2
  <2>5. p.memory \in [1 .. P -> Records(K, B)]
    BY <1>8, <1>9, <2>4, Zenon
  <2>6. p.memory \in Seq(Records(K, B)) /\ Len(p.memory) = P
    BY <2>5, <1>9, FcnIsSeq, Zenon
  <2>7. ASSUME NEW i \in 1 .. N, i # n
        PROVE  /\ p.memory[i].key = q.memory[i].key
               /\ p.memory[i].body = q.memory[i].body
               /\ p.memory[i].prev = q.memory[i].prev
               /\ p.memory[i].next = IF q.head # 0 /\ i = q.tail THEN n ELSE q.memory[i].next
    <3>1. CASE q.head # 0 /\ i = q.tail
      BY <2>2, <2>3, <2>7, <3>1, Zenon
    <3>2. CASE ~(q.head # 0 /\ i = q.tail)
      BY <2>3, <2>7, <3>2, Zenon
    <3> QED
      BY <3>1, <3>2
  <2> QED
    BY <2>3, <2>6, <2>7
<1>11. p \in Lists(K, B)
  <2>1. p.head \in Nat /\ p.tail \in Nat /\ p.activesize \in Int /\ p.cachesize \in Int
    BY <1>5, <1>8, <1>9
  <2>2. p.cache \in Nat
    <3>1. c # 0 => q.cache \in 1 .. N
      BY <1>1, <1>2, <1>3
    <3> QED
      BY <1>4, <1>6, <1>8, <3>1 DEF Records
  <2> QED
    BY <1>8, <1>10, <2>1, <2>2, Zenon DEF Lists
<1>12. Linked(p, M)
  <2>1. Len(M) = l + 1 /\ M # << >> /\ M[l + 1] = n /\ \A i \in 1 .. l : M[i] = L[i]
    BY <1>1, PutBehind DEF M, l
  <2>2. p.head = M[1]
    BY <1>1, <1>3, <1>6, <1>8, <2>1
  <2>3. ASSUME NEW i \in 1 .. l + 1
        PROVE  /\ p.memory[M[i]].next = IF i = l + 1 THEN 0 ELSE M[i + 1]
               /\ p.memory[M[i]].prev = IF i = 1 THEN 0 ELSE M[i - 1]
    <3>1. CASE i = l + 1
      <4>1. p.memory[M[i]] = new
        BY <1>10, <2>1, <3>1
      <4>2. i # 1 => M[i - 1] = L[l]
        BY <1>1, <2>1, <3>1
      <4>3. new.next = 0 /\ new.prev = IF l = 0 THEN 0 ELSE L[l]
        BY <1>3, <1>6 DEF new
      <4> QED
        BY <1>1, <3>1, <4>1, <4>2, <4>3
    <3>2. CASE i # l + 1
      <4>1. i \in 1 .. l /\ M[i] = L[i] /\ L[i] # n /\ L[i] \in 1 .. N
        BY <1>1, <1>2, <1>9, <2>1, <3>2
      <4>2. q.head # 0 /\ (L[i] = q.tail <=> i = l)
        BY <1>1, <1>2, <1>3, <1>6, <4>1
      <4>3. p.memory[L[i]].next = IF i = l THEN n ELSE L[i + 1]
        <5>1. p.memory[L[i]].next = IF i = l THEN n ELSE q.memory[L[i]].next
          BY <1>10, <4>1, <4>2
        <5>2. i # l => q.memory[L[i]].next = L[i + 1]
          BY <1>3, <4>1
        <5> QED
          BY <5>1, <5>2
      <4>4. p.memory[L[i]].prev = IF i = 1 THEN 0 ELSE L[i - 1]
        <5>1. p.memory[L[i]].prev = q.memory[L[i]].prev
          BY <1>10, <4>1
        <5> QED
          BY <1>3, <4>1, <5>1
      <4>5. M[i + 1] = (IF i = l THEN n ELSE L[i + 1]) /\ (i # 1 => M[i - 1] = L[i - 1])
        <5>1. i # l => i + 1 \in 1 .. l
          BY <1>1, <4>1
        <5>2. i # 1 => i - 1 \in 1 .. l
          BY <1>1, <4>1
        <5> QED
          BY <2>1, <5>1, <5>2
      <4> QED
        BY <3>2, <4>1, <4>3, <4>4, <4>5
    <3> QED
      BY <3>1, <3>2
  <2> QED
    BY <1>8, <2>1, <2>2, <2>3 DEF Linked, Null
<1>13. Cached(p, D)
  <2> DEFINE d == Len(D)
  <2>1. /\ d = (IF c = 0 THEN 0 ELSE c - 1) /\ (D = << >> <=> d = 0)
        /\ \A i \in 1 .. d : D[i] = C[i + 1] /\ i + 1 \in 1 .. c
    BY <1>1, RestIs DEF D
  <2>2. \A i \in 1 .. N : i # n /\ (\A h \in 1 .. l : L[h] # i) => p.memory[i].next = q.memory[i].next
    <3>1. q.head # 0 => l \in 1 .. l /\ q.tail = L[l]
      BY <1>1, <1>3, <1>6
    <3> QED
      BY <1>10, <3>1
  <2> HIDE DEF d
  <2>3. p.cache = IF d = 0 THEN 0 ELSE D[1]
    <3>1. CASE c = 0
      BY <1>6, <1>8, <2>1, <3>1
    <3>2. CASE c # 0
      <4>1. p.cache = q.memory[C[1]].next /\ 1 \in 1 .. c
        BY <1>1, <1>3, <1>6, <1>8, <3>2
      <4>2. q.memory[C[1]].next = IF 1 = c THEN 0 ELSE C[1 + 1]
        BY <1>3, <4>1
      <4>3. (c # 1 => 1 \in 1 .. d) /\ (c = 1 <=> d = 0)
        BY <1>1, <2>1, <3>2
      <4>4. c # 1 => D[1] = C[1 + 1]
        BY <2>1, <4>3
      <4> QED
        BY <4>1, <4>2, <4>3, <4>4
    <3> QED
      BY <3>1, <3>2
  <2>4. ASSUME NEW i \in 1 .. d
        PROVE  p.memory[D[i]].next = IF i = d THEN 0 ELSE D[i + 1]
    <3>1. /\ D[i] = C[i + 1] /\ i + 1 \in 1 .. c /\ C[i + 1] \in 1 .. N
          /\ \A h \in 1 .. l : L[h] # C[i + 1]
      BY <1>2, <2>1
    <3>2. c # 0 /\ 1 \in 1 .. c /\ i + 1 # 1
      BY <1>1, <3>1
    <3>3. C[i + 1] # n
      BY <1>2, <1>6, <3>1, <3>2
    <3>4. p.memory[D[i]].next = IF i + 1 = c THEN 0 ELSE C[i + 1 + 1]
      BY <1>3, <2>2, <3>1, <3>3
    <3>5. (i + 1 = c <=> i = d) /\ (i # d => D[i + 1] = C[i + 1 + 1])
      BY <1>1, <2>1, <3>1, <3>2
    <3> QED
      BY <3>4, <3>5
  <2> QED
    BY <2>1, <2>3, <2>4 DEF Cached, Null, d
<1>14. C # << >> => n = C[1]
  BY <1>1, <1>6
<1>15. p.memory[n].key = k /\ p.memory[n].body = b
  BY <1>10 DEF new
<1>16. \A i \in 1 .. N : i \in 1 .. P
  BY <1>9
<1>17. Chained(p, M, D)
  BY <1>7, <1>10, <1>12, <1>13 DEF Chained
<1> QED
  BY <1>9, <1>10, <1>11, <1>14, <1>15, <1>16, <1>17 DEF p, n, M, D

-----------------------------------------------------------------------------
(* What the recursive functions along the links return.                    *)

LEMMA LeastOfSet ==
  ASSUME NEW S \in SUBSET Nat, S # {}
  PROVE  \E x \in S : \A y \in S : x <= y
<1> DEFINE R == {p \in Nat \X Nat : p[1] < p[2]}
<1>1. IsWellFoundedOn(R, Nat)
  BY NatLessThanWellFounded, Zenon DEF OpToRel
<1>2. PICK x \in S : \A y \in S : ~(<<y, x>> \in R)
  <2> HIDE DEF R
  <2> QED
    BY <1>1, WFMin
<1>3. \A y \in S : x <= y
  <2> TAKE y \in S
  <2>1. <<y, x>> \in Nat \X Nat
    OBVIOUS
  <2>2. ~(y < x)
    BY <1>2, <2>1
  <2> QED
    BY <2>2
<1> QED
  BY <1>3

\* Each link leads to a record of lower rank, so a walk along them ends.
Ranked(N, next) ==
  \E R \in Nat : \E rank \in [0 .. N -> 0 .. R] : \A n \in 1 .. N : rank[next[n]] < rank[n]

Walks(N, next, V) ==
  \A v0 \in V : \A step \in [1 .. N -> [V -> V]] :
    \E f \in [0 .. N -> V] : f[0] = v0 /\ \A n \in 1 .. N : f[n] = step[n][f[next[n]]]

LEMMA WalkExists ==
  ASSUME NEW N \in Nat, NEW next \in [1 .. N -> 0 .. N], Ranked(N, next), NEW V
  PROVE  Walks(N, next, V)
<1> SUFFICES ASSUME NEW v0 \in V, NEW step \in [1 .. N -> [V -> V]]
             PROVE  \E f \in [0 .. N -> V] :
                      f[0] = v0 /\ \A n \in 1 .. N : f[n] = step[n][f[next[n]]]
  BY DEF Walks
<1>r. PICK R \in Nat : \E rank \in [0 .. N -> 0 .. R] : \A n \in 1 .. N : rank[next[n]] < rank[n]
  BY DEF Ranked
<1>a. PICK rank \in [0 .. N -> 0 .. R] : \A n \in 1 .. N : rank[next[n]] < rank[n]
  BY <1>r
<1> DEFINE Upto == {k \in 0 .. R + 1 : \E f \in [0 .. N -> V] :
             f[0] = v0 /\ \A n \in 1 .. N : rank[n] < k => f[n] = step[n][f[next[n]]]}
           S == (0 .. R + 1) \ Upto
<1>1. 0 \in Upto
  <2> DEFINE f == [n \in 0 .. N |-> v0]
  <2>1. f \in [0 .. N -> V] /\ f[0] = v0
    OBVIOUS
  <2>2. \A n \in 1 .. N : rank[n] \in Nat /\ ~(rank[n] < 0)
    <3> TAKE n \in 1 .. N
    <3>1. rank[n] \in 0 .. R
      OBVIOUS
    <3> QED
      BY <3>1
  <2>3. 0 \in 0 .. R + 1
    OBVIOUS
  <2> HIDE DEF f
  <2> QED
    BY <2>1, <2>2, <2>3
<1>2. ASSUME NEW k \in 0 .. R, k \in Upto PROVE k + 1 \in Upto
  <2>1. PICK f \in [0 .. N -> V] :
          f[0] = v0 /\ \A n \in 1 .. N : rank[n] < k => f[n] = step[n][f[next[n]]]
    BY <1>2
  <2> DEFINE g == [n \in 0 .. N |-> IF n = 0 THEN v0 ELSE step[n][f[next[n]]]]
  <2>2. \A n \in 1 .. N : /\ n \in 0 .. N /\ n # 0 /\ next[n] \in 0 .. N /\ f[next[n]] \in V
                          /\ step[n][f[next[n]]] \in V
    OBVIOUS
  <2>3. g \in [0 .. N -> V] /\ g[0] = v0
    BY <2>2
  <2>4. \A n \in 1 .. N : g[n] = step[n][f[next[n]]]
    BY <2>2
  <2> HIDE DEF g
  <2>5. ASSUME NEW n \in 1 .. N, rank[n] < k + 1
        PROVE  g[n] = step[n][g[next[n]]]
    <3>1. g[next[n]] = f[next[n]]
      <4>1. CASE next[n] = 0
        BY <2>1, <2>3, <4>1
      <4>2. CASE next[n] # 0
        <5>1. next[n] \in 1 .. N /\ rank[n] \in Nat /\ rank[next[n]] \in Nat
          <6>1. next[n] \in 0 .. N /\ n \in 0 .. N
            OBVIOUS
          <6>2. rank[n] \in 0 .. R /\ rank[next[n]] \in 0 .. R
            BY <6>1
          <6> QED
            BY <4>2, <6>1, <6>2
        <5>2. rank[next[n]] < k
          BY <1>a, <2>5, <5>1
        <5> DEFINE m == next[n]
        <5> HIDE DEF m
        <5>3. m \in 1 .. N /\ rank[m] < k
          BY <5>1, <5>2 DEF m
        <5>4. f[m] = step[m][f[next[m]]] /\ g[m] = step[m][f[next[m]]]
          BY <2>1, <2>4, <5>3
        <5> QED
          BY <5>4 DEF m
      <4> QED
        BY <4>1, <4>2
    <3> QED
      BY <2>4, <3>1
  <2>6. k + 1 \in 0 .. R + 1
    OBVIOUS
  <2> QED
    BY <2>3, <2>5, <2>6
<1> HIDE DEF Upto
<1>3. R + 1 \in Upto
  <2> SUFFICES ASSUME R + 1 \notin Upto PROVE FALSE
    OBVIOUS
  <2>1. S # {} /\ S \in SUBSET Nat
    <3>1. R + 1 \in 0 .. R + 1 /\ 0 .. R + 1 \subseteq Nat
      OBVIOUS
    <3> QED
      BY <3>1, Zenon
  <2>2. PICK m \in S : \A y \in S : m <= y
    BY <2>1, LeastOfSet
  <2>3. m # 0 /\ m \in 0 .. R + 1 /\ m \notin Upto
    BY <1>1, <2>2
  <2>4. m - 1 \in 0 .. R /\ m - 1 \in 0 .. R + 1 /\ ~(m <= m - 1) /\ (m - 1) + 1 = m
    BY <2>3
  <2>5. m - 1 \in Upto
    BY <2>2, <2>4
  <2> QED
    BY <1>2, <2>3, <2>4, <2>5
<1>4. PICK f \in [0 .. N -> V] :
        f[0] = v0 /\ \A n \in 1 .. N : rank[n] < R + 1 => f[n] = step[n][f[next[n]]]
  BY <1>3 DEF Upto
<1>5. \A n \in 1 .. N : rank[n] < R + 1
  OBVIOUS
<1> QED
  BY <1>4, <1>5

Links(q) == [n \in 1 .. Len(q.memory) |-> q.memory[n].next]

LEMMA ChainedWalks ==
  ASSUME NEW K, NEW B, NEW q \in Lists(K, B), NEW L, NEW C, Chained(q, L, C), NEW V
  PROVE  /\ \A n \in 1 .. Len(q.memory) : q.memory[n].next \in 0 .. Len(q.memory)
         /\ Walks(Len(q.memory), Links(q), V)
<1> DEFINE N == Len(q.memory)
           l == Len(L)
           c == Len(C)
           R == l + c + 1
           rank == [n \in 0 .. N |->
                      IF \E i \in 1 .. l : L[i] = n THEN l + 1 - (CHOOSE i \in 1 .. l : L[i] = n)
                      ELSE IF \E i \in 1 .. c : C[i] = n THEN c + 1 - (CHOOSE i \in 1 .. c : C[i] = n)
                      ELSE 0]
<1>1. /\ L \in Seq(1 .. N) /\ C \in Seq(1 .. N) /\ l \in Nat /\ c \in Nat /\ N \in Nat
      /\ (C = << >> <=> c = 0) /\ (L = << >> <=> l = 0)
  BY DEF Chained, Shared, Lists
<1>2. /\ \A i \in 1 .. l : L[i] \in 1 .. N
      /\ \A i \in 1 .. c : C[i] \in 1 .. N
  BY <1>1
<1>3. /\ \A i, j \in 1 .. l : L[i] = L[j] => i = j
      /\ \A i, j \in 1 .. c : C[i] = C[j] => i = j
      /\ \A i \in 1 .. l, j \in 1 .. c : L[i] # C[j]
      /\ \A n \in 1 .. N : (\E i \in 1 .. l : L[i] = n) \/ (\E k \in 1 .. c : C[k] = n)
  BY Zenon DEF Chained, Shared, OnceEach
<1>4. /\ \A i \in 1 .. l : q.memory[L[i]].next = IF i = l THEN 0 ELSE L[i + 1]
      /\ \A i \in 1 .. c : q.memory[C[i]].next = IF i = c THEN 0 ELSE C[i + 1]
  BY Zenon DEF Chained, Linked, Cached, Null
<1> HIDE DEF N, l, c
<1>5. ASSUME NEW i \in 1 .. l
      PROVE  rank[L[i]] = l + 1 - i
  <2>1. (CHOOSE j \in 1 .. l : L[j] = L[i]) = i
    BY <1>3
  <2>2. L[i] \in 0 .. N /\ \E j \in 1 .. l : L[j] = L[i]
    BY <1>1, <1>2
  <2> QED
    BY <2>1, <2>2
<1>6. ASSUME NEW i \in 1 .. c
      PROVE  rank[C[i]] = c + 1 - i
  <2>1. (CHOOSE j \in 1 .. c : C[j] = C[i]) = i
    BY <1>3
  <2>2. C[i] \in 0 .. N /\ ~(\E j \in 1 .. l : L[j] = C[i]) /\ \E j \in 1 .. c : C[j] = C[i]
    BY <1>1, <1>2, <1>3
  <2> QED
    BY <2>1, <2>2
<1>7. rank[0] = 0
  <2>1. 0 \in 0 .. N /\ ~(\E i \in 1 .. l : L[i] = 0) /\ ~(\E i \in 1 .. c : C[i] = 0)
    BY <1>1, <1>2
  <2> QED
    BY <2>1
<1>8. DOMAIN rank = 0 .. N /\ rank = [n \in 0 .. N |-> rank[n]]
  OBVIOUS
<1> HIDE DEF rank
<1>9. \A n \in 1 .. N : q.memory[n].next \in 0 .. N /\ rank[q.memory[n].next] < rank[n] /\ rank[n] \in 0 .. R
  <2> TAKE n \in 1 .. N
  <2>1. CASE \E i \in 1 .. l : L[i] = n
    <3>1. PICK i \in 1 .. l : L[i] = n
      BY <2>1
    <3>2. CASE i = l
      <4>1. q.memory[n].next = 0 /\ rank[n] = l + 1 - i
        BY <1>4, <1>5, <3>1, <3>2
      <4>2. l + 1 - i = 1 /\ 0 \in 0 .. N /\ 0 < 1 /\ 1 \in 0 .. R
        BY <1>1, <3>2
      <4> QED
        BY <1>7, <4>1, <4>2
    <3>3. CASE i # l
      <4>1. i + 1 \in 1 .. l
        BY <1>1, <3>3
      <4>2. q.memory[n].next = L[i + 1] /\ rank[L[i + 1]] = l + 1 - (i + 1) /\ rank[n] = l + 1 - i
        BY <1>4, <1>5, <3>1, <3>3, <4>1
      <4> QED
        BY <1>1, <1>2, <4>1, <4>2
    <3> QED
      BY <3>2, <3>3
  <2>2. CASE \E i \in 1 .. c : C[i] = n
    <3>1. PICK i \in 1 .. c : C[i] = n
      BY <2>2
    <3>2. CASE i = c
      <4>1. q.memory[n].next = 0 /\ rank[n] = c + 1 - i
        BY <1>4, <1>6, <3>1, <3>2
      <4>2. c + 1 - i = 1 /\ 0 \in 0 .. N /\ 0 < 1 /\ 1 \in 0 .. R
        BY <1>1, <3>2
      <4> QED
        BY <1>7, <4>1, <4>2
    <3>3. CASE i # c
      <4>1. i + 1 \in 1 .. c
        BY <1>1, <3>3
      <4>2. q.memory[n].next = C[i + 1] /\ rank[C[i + 1]] = c + 1 - (i + 1) /\ rank[n] = c + 1 - i
        BY <1>4, <1>6, <3>1, <3>3, <4>1
      <4> QED
        BY <1>1, <1>2, <4>1, <4>2
    <3> QED
      BY <3>2, <3>3
  <2> QED
    BY <1>3, <2>1, <2>2
<1>10. rank \in [0 .. N -> 0 .. R] /\ R \in Nat
  <2>1. \A n \in 0 .. N : rank[n] \in 0 .. R
    <3>1. 0 \in 0 .. R /\ \A n \in 0 .. N : n = 0 \/ n \in 1 .. N
      BY <1>1
    <3> HIDE DEF R
    <3> QED
      BY <1>7, <1>9, <3>1
  <2> QED
    BY <1>1, <1>8, <2>1
<1> HIDE DEF R
<1>11. /\ Links(q) \in [1 .. N -> 0 .. N]
       /\ \A n \in 1 .. N : Links(q)[n] = q.memory[n].next
  BY <1>9 DEF Links, N
<1>12. Ranked(N, Links(q))
  BY <1>9, <1>10, <1>11 DEF Ranked
<1>13. Walks(N, Links(q), V)
  BY <1>1, <1>11, <1>12, WalkExists
<1> QED
  BY <1>9, <1>13 DEF N

LEMMA Backwards ==
  ASSUME NEW l \in Nat, NEW Good, l + 1 \in Good, \A i \in 1 .. l : i + 1 \in Good => i \in Good
  PROVE  \A i \in 1 .. l + 1 : i \in Good
<1> DEFINE S == {d \in 0 .. l : l + 1 - d \notin Good}
<1>1. S \in SUBSET Nat
  OBVIOUS
<1>2. ASSUME S # {} PROVE FALSE
  <2>1. PICK m \in S : \A y \in S : m <= y
    BY <1>1, <1>2, LeastOfSet
  <2>2. m \in 0 .. l /\ l + 1 - m \notin Good
    BY <2>1
  <2>3. m # 0
    BY <2>2
  <2>4. m - 1 \in 0 .. l /\ ~(m <= m - 1)
    BY <2>2, <2>3
  <2>5. l + 1 - (m - 1) \in Good
    BY <2>1, <2>4
  <2>6. l + 1 - m \in 1 .. l /\ (l + 1 - m) + 1 = l + 1 - (m - 1)
    BY <2>2, <2>3
  <2> QED
    BY <2>2, <2>5, <2>6
<1>3. \A i \in 1 .. l + 1 : l + 1 - i \in 0 .. l /\ l + 1 - (l + 1 - i) = i
  OBVIOUS
<1>4. ASSUME NEW i \in 1 .. l + 1 PROVE i \in Good
  <2>1. l + 1 - i \notin S
    BY <1>2, Zenon
  <2>2. l + 1 - (l + 1 - i) \in Good
    BY <1>3, <2>1
  <2> QED
    BY <1>3, <2>2
<1> QED
  BY <1>4

\* Found returns the first record of the list with the key.
LEMMA FoundIs ==
  ASSUME NEW K, NEW B, NEW q \in Lists(K, B), NEW L, NEW C, Chained(q, L, C), NEW k
  PROVE  \/ Found(q, k) = Null /\ \A i \in 1 .. Len(L) : q.memory[L[i]].key # k
         \/ \E j \in 1 .. Len(L) : /\ Found(q, k) = L[j]
                                   /\ q.memory[L[j]].key = k
                                   /\ \A i \in 1 .. j - 1 : q.memory[L[i]].key # k
<1> DEFINE N == Len(q.memory)
           l == Len(L)
           step == [n \in 1 .. N |-> [m \in 0 .. N |-> IF q.memory[n].key = k THEN n ELSE m]]
           search == CHOOSE f : f = [n \in 0 .. N |->
                       IF n = Null \/ q.memory[n].key = k THEN n ELSE f[q.memory[n].next]]
<1>1. /\ L \in Seq(1 .. N) /\ l \in Nat /\ N \in Nat /\ (L = << >> <=> l = 0)
  BY DEF Chained, Shared, Lists
<1>2. /\ \A i \in 1 .. l : L[i] \in 1 .. N
      /\ q.head = (IF l = 0 THEN 0 ELSE L[1])
      /\ \A i \in 1 .. l : q.memory[L[i]].next = IF i = l THEN 0 ELSE L[i + 1]
  BY <1>1 DEF Chained, Linked, Null
<1>3. search = [n \in 0 .. N |-> IF n = Null \/ q.memory[n].key = k THEN n ELSE search[q.memory[n].next]]
  <2> HIDE DEF N
  <2>1. /\ step \in [1 .. N -> [0 .. N -> 0 .. N]] /\ 0 \in 0 .. N
        /\ \A n \in 1 .. N, m \in 0 .. N : step[n][m] = IF q.memory[n].key = k THEN n ELSE m
    BY <1>1
  <2> HIDE DEF step
  <2>2. (\A n \in 1 .. N : q.memory[n].next \in 0 .. N) /\ Walks(N, Links(q), 0 .. N)
    BY ChainedWalks DEF N
  <2>3. \A n \in 1 .. N : Links(q)[n] = q.memory[n].next
    BY DEF Links, N
  <2>7. PICK f \in [0 .. N -> 0 .. N] :
          f[0] = 0 /\ \A n \in 1 .. N : f[n] = step[n][f[Links(q)[n]]]
    BY <2>1, <2>2 DEF Walks
  <2>8. \A n \in 0 .. N : f[n] = IF n = 0 \/ q.memory[n].key = k THEN n ELSE f[q.memory[n].next]
    <3> TAKE n \in 0 .. N
    <3>1. CASE n = 0
      BY <2>7, <3>1
    <3>2. CASE n # 0
      <4>1. n \in 1 .. N
        BY <1>1, <3>2
      <4>2. f[n] = step[n][f[q.memory[n].next]] /\ q.memory[n].next \in 0 .. N
        BY <2>2, <2>3, <2>7, <4>1
      <4>3. f[q.memory[n].next] \in 0 .. N
        BY <4>2
      <4> QED
        BY <2>1, <3>2, <4>1, <4>2, <4>3
    <3> QED
      BY <3>1, <3>2
  <2>9. f = [n \in 0 .. N |-> IF n = Null \/ q.memory[n].key = k THEN n ELSE f[q.memory[n].next]]
    <3>1. f = [n \in 0 .. N |-> f[n]]
      OBVIOUS
    <3> QED
      BY <2>8, <3>1, Zenon DEF Null
  <2> QED
    BY <2>9, Zenon
<1>4. Found(q, k) = search[q.head]
  BY Zenon DEF Found
<1> HIDE DEF search, N
<1>5. search[0] = 0
  <2>1. 0 \in 0 .. N
    BY <1>1
  <2> QED
    BY <1>3, <2>1, Zenon DEF Null
<1>6. \A i \in 1 .. l : search[L[i]] = IF q.memory[L[i]].key = k THEN L[i] ELSE search[q.memory[L[i]].next]
  <2> TAKE i \in 1 .. l
  <2>1. L[i] \in 0 .. N /\ L[i] # Null
    BY <1>1, <1>2 DEF Null
  <2> QED
    BY <1>3, <2>1, Zenon
<1> DEFINE Good == {i \in 1 .. l + 1 : \/ (IF i = l + 1 THEN 0 ELSE search[L[i]]) = 0 /\ \A h \in i .. l : q.memory[L[h]].key # k
                                       \/ \E j \in i .. l : /\ search[L[i]] = L[j]
                                                            /\ q.memory[L[j]].key = k
                                                            /\ \A h \in i .. j - 1 : q.memory[L[h]].key # k}
<1> HIDE DEF l
<1>7. l + 1 \in Good
  <2>1. l + 1 \in 1 .. l + 1 /\ (l + 1) .. l = {}
    BY <1>1
  <2> QED
    BY <2>1
<1>8. ASSUME NEW i \in 1 .. l, i + 1 \in Good PROVE i \in Good
  <2>1. i \in 1 .. l + 1 /\ i # l + 1 /\ i \in i .. l /\ (i .. i - 1) = {}
        /\ (\A h \in i .. l : h = i \/ h \in (i + 1) .. l)
        /\ (\A h \in (i + 1) .. l : h \in i .. l)
        /\ (\A j \in (i + 1) .. l : \A h \in i .. j - 1 : h = i \/ h \in (i + 1) .. j - 1)
    BY <1>1
  <2>2. CASE q.memory[L[i]].key = k
    <3>1. search[L[i]] = L[i]
      BY <1>6, <2>2
    <3> QED
      BY <2>1, <2>2, <3>1
  <2>3. CASE q.memory[L[i]].key # k
    <3>1. search[L[i]] = IF i + 1 = l + 1 THEN 0 ELSE search[L[i + 1]]
      <4>1. search[L[i]] = search[q.memory[L[i]].next]
        BY <1>6, <2>3
      <4>2. q.memory[L[i]].next = (IF i = l THEN 0 ELSE L[i + 1]) /\ (i = l <=> i + 1 = l + 1)
        BY <1>1, <1>2
      <4> QED
        BY <1>5, <4>1, <4>2
    <3>2. CASE /\ (IF i + 1 = l + 1 THEN 0 ELSE search[L[i + 1]]) = 0
               /\ \A h \in (i + 1) .. l : q.memory[L[h]].key # k
      BY <2>1, <2>3, <3>1, <3>2
    <3>3. CASE \E j \in (i + 1) .. l : /\ search[L[i + 1]] = L[j]
                                       /\ q.memory[L[j]].key = k
                                       /\ \A h \in (i + 1) .. j - 1 : q.memory[L[h]].key # k
      <4>1. PICK j \in (i + 1) .. l : /\ search[L[i + 1]] = L[j]
                                      /\ q.memory[L[j]].key = k
                                      /\ \A h \in (i + 1) .. j - 1 : q.memory[L[h]].key # k
        BY <3>3
      <4>2. j \in i .. l /\ i + 1 # l + 1 /\ search[L[i]] = L[j]
        BY <1>1, <2>1, <3>1, <4>1
      <4>3. \A h \in i .. j - 1 : q.memory[L[h]].key # k
        BY <2>1, <2>3, <4>1
      <4> QED
        BY <2>1, <4>1, <4>2, <4>3
    <3> QED
      BY <1>8, <3>2, <3>3
  <2> QED
    BY <2>2, <2>3
<1>9. 1 \in Good
  <2> HIDE DEF Good
  <2>1. 1 \in 1 .. l + 1
    BY <1>1
  <2> QED
    BY <1>1, <1>7, <1>8, <2>1, Backwards
<1>10. Found(q, k) = IF 1 = l + 1 THEN 0 ELSE search[L[1]]
  BY <1>1, <1>2, <1>4, <1>5
<1>11. \A j \in 1 .. l : 1 # l + 1
  BY <1>1
<1> QED
  BY <1>9, <1>10, <1>11 DEF Null, l

\* What the records from each place of the list on hold for the key k.
Along(g, q, L, k, B) ==
  /\ g \in [1 .. Len(L) + 1 -> Seq(B)]
  /\ g[Len(L) + 1] = << >>
  /\ \A i \in 1 .. Len(L) :
       g[i] = IF q.memory[L[i]].key = k THEN <<q.memory[L[i]].body>> \o g[i + 1] ELSE g[i + 1]

LEMMA AlongUnique ==
  ASSUME NEW q, NEW L, Len(L) \in Nat, NEW k, NEW B, NEW g, NEW h, Along(g, q, L, k, B), Along(h, q, L, k, B)
  PROVE  \A i \in 1 .. Len(L) + 1 : g[i] = h[i]
<1> DEFINE l == Len(L)
           Good == {i \in 1 .. l + 1 : g[i] = h[i]}
<1>1. l \in Nat
  OBVIOUS
<1>2. l + 1 \in Good
  <2>1. l + 1 \in 1 .. l + 1 /\ g[l + 1] = h[l + 1]
    BY DEF Along
  <2> QED
    BY <2>1
<1>3. ASSUME NEW i \in 1 .. l, i + 1 \in Good PROVE i \in Good
  <2>1. g[i + 1] = h[i + 1] /\ i \in 1 .. l + 1
    BY <1>3
  <2>2. /\ g[i] = IF q.memory[L[i]].key = k THEN <<q.memory[L[i]].body>> \o g[i + 1] ELSE g[i + 1]
        /\ h[i] = IF q.memory[L[i]].key = k THEN <<q.memory[L[i]].body>> \o h[i + 1] ELSE h[i + 1]
    BY Zenon DEF Along
  <2>3. g[i] = h[i]
    BY <2>1, <2>2, Zenon
  <2> QED
    BY <2>1, <2>3
<1>4. \A i \in 1 .. l + 1 : i \in Good
  <2> HIDE DEF Good, l
  <2> QED
    BY <1>1, <1>2, <1>3, Backwards
<1> QED
  BY <1>4

LEMMA BoxIsAlong ==
  ASSUME NEW K, NEW B, NEW q \in Lists(K, B), NEW L, NEW C, Chained(q, L, C), NEW k
  PROVE  \E g : Along(g, q, L, k, B) /\ BoxIn(q, k) = g[1]
<1> DEFINE N == Len(q.memory)
           l == Len(L)
           V == Seq(B)
           step == [n \in 1 .. N |-> [v \in V |->
                     IF q.memory[n].key = k THEN <<q.memory[n].body>> \o v ELSE v]]
           box == CHOOSE f : f = [n \in 0 .. N |->
                    IF n = Null THEN << >>
                    ELSE IF q.memory[n].key = k THEN <<q.memory[n].body>> \o f[q.memory[n].next]
                    ELSE f[q.memory[n].next]]
<1>1. /\ L \in Seq(1 .. N) /\ l \in Nat /\ N \in Nat /\ (L = << >> <=> l = 0)
      /\ \A n \in 1 .. N : q.memory[n].next \in 0 .. N /\ q.memory[n].body \in B
  <2>1. \A n \in 1 .. N : q.memory[n].next \in 0 .. N
    BY ChainedWalks
  <2>2. \A n \in 1 .. N : q.memory[n] \in Records(K, B)
    BY DEF Lists
  <2> QED
    BY <2>1, <2>2 DEF Chained, Shared, Lists, Records
<1>2. /\ \A i \in 1 .. l : L[i] \in 1 .. N
      /\ q.head = (IF l = 0 THEN 0 ELSE L[1])
      /\ \A i \in 1 .. l : q.memory[L[i]].next = IF i = l THEN 0 ELSE L[i + 1]
  BY <1>1 DEF Chained, Linked, Null
<1>3. /\ box = [n \in 0 .. N |->
                    IF n = Null THEN << >>
                    ELSE IF q.memory[n].key = k THEN <<q.memory[n].body>> \o box[q.memory[n].next]
                    ELSE box[q.memory[n].next]]
  <2> HIDE DEF N
  <2>0. << >> \in V /\ \A n \in 1 .. N, v \in V : <<q.memory[n].body>> \o v \in V
    BY <1>1
  <2> HIDE DEF V
  <2>1. /\ step \in [1 .. N -> [V -> V]]
        /\ \A n \in 1 .. N, v \in V :
             step[n][v] = IF q.memory[n].key = k THEN <<q.memory[n].body>> \o v ELSE v
    BY <2>0, Zenon
  <2> HIDE DEF step
  <2>2. Walks(N, Links(q), V)
    BY ChainedWalks DEF N
  <2>3. \A n \in 1 .. N : Links(q)[n] = q.memory[n].next
    BY DEF Links, N
  <2>7. PICK f \in [0 .. N -> V] :
          f[0] = << >> /\ \A n \in 1 .. N : f[n] = step[n][f[Links(q)[n]]]
    BY <2>0, <2>1, <2>2 DEF Walks
  <2>8. \A n \in 0 .. N : f[n] = IF n = Null THEN << >>
                    ELSE IF q.memory[n].key = k THEN <<q.memory[n].body>> \o f[q.memory[n].next]
                    ELSE f[q.memory[n].next]
    <3> TAKE n \in 0 .. N
    <3>1. CASE n = 0
      BY <2>7, <3>1 DEF Null
    <3>2. CASE n # 0
      <4>1. n \in 1 .. N
        BY <1>1, <3>2
      <4>2. f[n] = step[n][f[q.memory[n].next]] /\ q.memory[n].next \in 0 .. N
        BY <1>1, <2>3, <2>7, <4>1
      <4>3. f[q.memory[n].next] \in V
        BY <4>2
      <4> QED
        BY <2>1, <3>2, <4>1, <4>2, <4>3, Zenon DEF Null
    <3> QED
      BY <3>1, <3>2
  <2>9. f = [n \in 0 .. N |-> IF n = Null THEN << >>
                    ELSE IF q.memory[n].key = k THEN <<q.memory[n].body>> \o f[q.memory[n].next]
                    ELSE f[q.memory[n].next]]
    <3>1. f = [n \in 0 .. N |-> f[n]]
      OBVIOUS
    <3> QED
      BY <2>8, <3>1, Zenon
  <2> QED
    BY <2>9, Zenon
<1>4. BoxIn(q, k) = box[q.head]
  BY Zenon DEF BoxIn
<1> HIDE DEF box, N, V
<1>5. box[0] = << >>
  <2>1. 0 \in 0 .. N
    BY <1>1
  <2> QED
    BY <1>3, <2>1, Zenon DEF Null
<1>6. \A i \in 1 .. l : box[L[i]] = IF q.memory[L[i]].key = k
                                    THEN <<q.memory[L[i]].body>> \o box[q.memory[L[i]].next]
                                    ELSE box[q.memory[L[i]].next]
  <2> TAKE i \in 1 .. l
  <2>1. L[i] \in 0 .. N /\ L[i] # Null
    BY <1>1, <1>2 DEF Null
  <2> QED
    BY <1>3, <2>1, Zenon
<1> HIDE DEF l
<1> DEFINE at(i) == IF i = l + 1 THEN 0 ELSE L[i]
           g == [i \in 1 .. l + 1 |-> box[at(i)]]
<1>7. \A i \in 1 .. l : /\ g[i] = box[L[i]] /\ g[i + 1] = box[q.memory[L[i]].next]
                        /\ q.memory[L[i]].body \in B
  BY <1>1, <1>2
<1>8. g[l + 1] = << >> /\ DOMAIN g = 1 .. l + 1
  BY <1>1, <1>5
<1>9. BoxIn(q, k) = g[1]
  BY <1>1, <1>2, <1>4
<1>0. g = [i \in 1 .. l + 1 |-> g[i]]
  OBVIOUS
<1> HIDE DEF g
<1> DEFINE Good == {i \in 1 .. l + 1 : g[i] \in V}
<1>10. \A i \in 1 .. l + 1 : i \in Good
  <2>1. l + 1 \in Good
    <3>1. << >> \in V /\ l + 1 \in 1 .. l + 1
      BY <1>1 DEF V
    <3> QED
      BY <1>8, <3>1
  <2>2. \A i \in 1 .. l : i + 1 \in Good => i \in Good
    <3> SUFFICES ASSUME NEW i \in 1 .. l, g[i + 1] \in V PROVE g[i] \in V
      BY <1>1
    <3>1. g[i] = IF q.memory[L[i]].key = k THEN <<q.memory[L[i]].body>> \o g[i + 1] ELSE g[i + 1]
      BY <1>6, <1>7, Zenon
    <3>2. <<q.memory[L[i]].body>> \o g[i + 1] \in V
      BY <1>7 DEF V
    <3> QED
      BY <3>1, <3>2
  <2> HIDE DEF Good
  <2> QED
    BY <1>1, <2>1, <2>2, Backwards
<1>11. g \in [1 .. l + 1 -> V]
  BY <1>0, <1>10
<1>12. \A i \in 1 .. l : g[i] = IF q.memory[L[i]].key = k THEN <<q.memory[L[i]].body>> \o g[i + 1] ELSE g[i + 1]
  BY <1>6, <1>7, Zenon
<1> QED
  BY <1>8, <1>9, <1>11, <1>12 DEF Along, l, V

LEMMA BoxIsSeq ==
  ASSUME NEW K, NEW B, NEW q \in Lists(K, B), NEW L, NEW C, Chained(q, L, C), NEW k
  PROVE  BoxIn(q, k) \in Seq(B)
<1>1. PICK g : Along(g, q, L, k, B) /\ BoxIn(q, k) = g[1]
  BY BoxIsAlong
<1>2. Len(L) \in Nat
  BY DEF Chained, Shared
<1> QED
  BY <1>1, <1>2 DEF Along

LEMMA BoxFirst ==
  ASSUME NEW K, NEW B, NEW q \in Lists(K, B), NEW L, NEW C, Chained(q, L, C), NEW k,
         NEW g, Along(g, q, L, k, B)
  PROVE  BoxIn(q, k) = g[1]
<1>1. PICK h : Along(h, q, L, k, B) /\ BoxIn(q, k) = h[1]
  BY BoxIsAlong
<1>2. Len(L) \in Nat /\ 1 \in 1 .. Len(L) + 1
  BY DEF Chained, Shared
<1>3. \A i \in 1 .. Len(L) + 1 : g[i] = h[i]
  BY <1>1, <1>2, AlongUnique
<1> QED
  BY <1>1, <1>2, <1>3

LEMMA BoxOfNone ==
  ASSUME NEW K, NEW B, NEW q \in Lists(K, B), NEW L, NEW C, Chained(q, L, C), NEW k,
         \A i \in 1 .. Len(L) : q.memory[L[i]].key # k
  PROVE  BoxIn(q, k) = << >>
<1> DEFINE g == [i \in 1 .. Len(L) + 1 |-> << >>]
<1>1. Len(L) \in Nat
  BY DEF Chained, Shared
<1>2. g \in [1 .. Len(L) + 1 -> Seq(B)] /\ \A i \in 1 .. Len(L) : i \in 1 .. Len(L) + 1 /\ i + 1 \in 1 .. Len(L) + 1
  BY <1>1
<1>3. g[1] = << >> /\ g[Len(L) + 1] = << >> /\ \A i \in 1 .. Len(L) : g[i] = << >> /\ g[i + 1] = << >>
  BY <1>1, <1>2
<1> HIDE DEF g
<1>4. Along(g, q, L, k, B)
  BY <1>2, <1>3 DEF Along
<1> QED
  BY <1>3, <1>4, BoxFirst

LEMMA BoxOfAppended ==
  ASSUME NEW K, NEW B, NEW q \in Lists(K, B), NEW L, NEW C, Chained(q, L, C),
         NEW k \in K, NEW b \in B, NEW t
  PROVE  BoxIn(Appended(q, k, b), t) = IF t = k THEN Append(BoxIn(q, t), b) ELSE BoxIn(q, t)
<1> DEFINE p == Appended(q, k, b)
           n == Acquired(q)
           M == Append(L, n)
           l == Len(L)
<1>1. /\ p \in Lists(K, B) /\ Chained(p, M, Rest(C))
      /\ \A i \in 1 .. Len(L) : L[i] # n
      /\ p.memory[n].key = k /\ p.memory[n].body = b
      /\ \A i \in 1 .. Len(q.memory) : i # n => /\ p.memory[i].key = q.memory[i].key
                                                /\ p.memory[i].body = q.memory[i].body
  BY AppendedChained
<1> HIDE DEF p, n
<1>2. PICK g : Along(g, q, L, t, B) /\ BoxIn(q, t) = g[1]
  BY BoxIsAlong
<1>3. L \in Seq(1 .. Len(q.memory)) /\ l \in Nat /\ \A i \in 1 .. l : L[i] \in 1 .. Len(q.memory)
  BY DEF Chained, Shared, Lists
<1>4. Len(M) = l + 1 /\ M[l + 1] = n /\ \A i \in 1 .. l : M[i] = L[i]
  <2>1. L \in Seq(Nat \cup {n})
    <3>1. L \in [1 .. l -> Nat \cup {n}]
      BY <1>3
    <3> QED
      BY <1>3, <3>1, FcnIsSeq
  <2> QED
    BY <1>3, <2>1
<1> HIDE DEF M, l
<1> DEFINE h == [i \in 1 .. l + 2 |-> IF i = l + 2 THEN << >> ELSE IF t = k THEN Append(g[i], b) ELSE g[i]]
<1>5. g \in [1 .. l + 1 -> Seq(B)] /\ g[l + 1] = << >>
      /\ \A i \in 1 .. l : g[i] = IF q.memory[L[i]].key = t THEN <<q.memory[L[i]].body>> \o g[i + 1] ELSE g[i + 1]
  BY <1>2 DEF Along, l
<1>6. \A i \in 1 .. l + 1 : i \in 1 .. l + 2 /\ i # l + 2 /\ g[i] \in Seq(B) /\ Append(g[i], b) \in Seq(B)
  BY <1>3, <1>5
<1>7. h[l + 2] = << >> /\ \A i \in 1 .. l + 1 : h[i] = IF t = k THEN Append(g[i], b) ELSE g[i]
  BY <1>3, <1>6
<1>8. h \in [1 .. l + 2 -> Seq(B)]
  <2>1. \A i \in 1 .. l + 2 : i = l + 2 \/ i \in 1 .. l + 1
    BY <1>3
  <2> QED
    BY <1>6, <2>1
<1> HIDE DEF h
<1>9. ASSUME NEW i \in 1 .. l + 1
      PROVE  h[i] = IF p.memory[M[i]].key = t THEN <<p.memory[M[i]].body>> \o h[i + 1] ELSE h[i + 1]
  <2>1. CASE i = l + 1
    <3>1. p.memory[M[i]].key = k /\ p.memory[M[i]].body = b /\ h[i + 1] = << >> /\ g[i] = << >>
      BY <1>1, <1>3, <1>4, <1>5, <1>7, <2>1
    <3>2. Append(<< >>, b) = <<b>> \o << >>
      OBVIOUS
    <3>3. h[i] = IF t = k THEN Append(<< >>, b) ELSE << >>
      BY <1>7, <3>1
    <3> QED
      BY <3>1, <3>2, <3>3
  <2>2. CASE i # l + 1
    <3>1. i \in 1 .. l /\ i + 1 \in 1 .. l + 1
      BY <1>3, <2>2
    <3>2. /\ M[i] = L[i] /\ p.memory[L[i]].key = q.memory[L[i]].key
          /\ p.memory[L[i]].body = q.memory[L[i]].body
      BY <1>1, <1>3, <1>4, <3>1 DEF l
    <3>3. /\ h[i] = IF t = k THEN Append(g[i], b) ELSE g[i]
          /\ h[i + 1] = IF t = k THEN Append(g[i + 1], b) ELSE g[i + 1]
      BY <1>7, <3>1
    <3>4. q.memory[L[i]].body \in B
      <4>1. q.memory \in Seq(Records(K, B)) /\ L[i] \in 1 .. Len(q.memory)
        BY <1>3, <3>1 DEF Lists
      <4>2. q.memory[L[i]] \in Records(K, B)
        BY <4>1, ElementOfSeq, Zenon
      <4> QED
        BY <4>2 DEF Records
    <3> DEFINE m == q.memory[L[i]].body
    <3>5. g[i + 1] \in Seq(B) /\ <<m>> \o Append(g[i + 1], b) = Append(<<m>> \o g[i + 1], b)
      <4>1. g[i + 1] \in Seq(B)
        BY <1>6, <3>1
      <4> HIDE DEF m
      <4> DEFINE u == g[i + 1]
      <4>2. m \in B /\ u \in Seq(B)
        BY <3>4, <4>1 DEF m
      <4> HIDE DEF u
      <4>3. <<m>> \o Append(u, b) = Append(<<m>> \o u, b)
        BY <4>2
      <4> QED
        BY <4>1, <4>3 DEF u
    <3>6. g[i] = IF q.memory[L[i]].key = t THEN <<m>> \o g[i + 1] ELSE g[i + 1]
      BY <1>5, <3>1
    <3> HIDE DEF m
    <3>7. h[i] = IF q.memory[L[i]].key = t THEN <<m>> \o h[i + 1] ELSE h[i + 1]
      BY <3>3, <3>5, <3>6, Zenon
    <3> QED
      BY <3>2, <3>7 DEF m
  <2> QED
    BY <2>1, <2>2
<1>10. Along(h, p, M, t, B)
  <2>1. l + 1 + 1 = l + 2
    BY <1>3
  <2> QED
    BY <1>4, <1>7, <1>8, <1>9, <2>1 DEF Along
<1>11. BoxIn(p, t) = h[1]
  BY <1>1, <1>10, BoxFirst
<1>12. h[1] = IF t = k THEN Append(g[1], b) ELSE g[1]
  BY <1>3, <1>7
<1> QED
  BY <1>2, <1>11, <1>12 DEF p

LEMMA BoxOfRecycled ==
  ASSUME NEW K, NEW B, NEW q \in Lists(K, B), NEW L, NEW C, Chained(q, L, C), NEW k,
         NEW j \in 1 .. Len(L), q.memory[L[j]].key = k,
         \A i \in 1 .. j - 1 : q.memory[L[i]].key # k, NEW t
  PROVE  BoxIn(q, t) = IF t = k THEN <<q.memory[L[j]].body>> \o BoxIn(Recycled(q, L[j]), t)
                       ELSE BoxIn(Recycled(q, L[j]), t)
<1> DEFINE p == Recycled(q, L[j])
           M == Without(L, j)
           l == Len(L)
           m == q.memory[L[j]].body
<1>1. /\ p \in Lists(K, B) /\ Chained(p, M, <<L[j]>> \o C)
      /\ \A n \in 1 .. Len(q.memory) : /\ p.memory[n].key = q.memory[n].key
                                       /\ p.memory[n].body = q.memory[n].body
  BY RecycledChained
<1>2. PICK g : Along(g, q, L, t, B) /\ BoxIn(q, t) = g[1]
  BY BoxIsAlong
<1>3. L \in Seq(1 .. Len(q.memory)) /\ l \in Nat /\ j \in 1 .. l /\ \A i \in 1 .. l : L[i] \in 1 .. Len(q.memory)
  BY DEF Chained, Shared, Lists
<1>4. Len(M) = l - 1 /\ \A i \in 1 .. l - 1 : M[i] = IF i < j THEN L[i] ELSE L[i + 1]
  BY <1>3 DEF Without
<1>5. g \in [1 .. l + 1 -> Seq(B)] /\ g[l + 1] = << >>
      /\ \A i \in 1 .. l : g[i] = IF q.memory[L[i]].key = t THEN <<q.memory[L[i]].body>> \o g[i + 1] ELSE g[i + 1]
  BY <1>2 DEF Along
<1>6. /\ q.memory[L[j]].key = k
      /\ \A i \in 1 .. l : i < j => q.memory[L[i]].key # k
  <2>1. \A i \in 1 .. l : i < j => i \in 1 .. j - 1
    BY <1>3
  <2> QED
    BY <2>1
<1> HIDE DEF p, M, l
<1>7. CASE t = k
  <2> DEFINE f == [i \in 1 .. l + 1 |-> IF i <= j THEN g[j] ELSE g[i]]
             h == [i \in 1 .. l |-> IF i < j THEN g[j + 1] ELSE g[i + 1]]
  <2>1. f \in [1 .. l + 1 -> Seq(B)] /\ f[l + 1] = << >>
    BY <1>3, <1>5
  <2>2. ASSUME NEW i \in 1 .. l
        PROVE  f[i] = IF q.memory[L[i]].key = t THEN <<q.memory[L[i]].body>> \o f[i + 1] ELSE f[i + 1]
    <3>1. i \in 1 .. l + 1 /\ i + 1 \in 1 .. l + 1
      BY <1>3
    <3>2. CASE i < j
      <4>1. f[i] = g[j] /\ f[i + 1] = g[j]
        BY <1>3, <3>1, <3>2
      <4> QED
        BY <1>6, <1>7, <3>2, <4>1
    <3>3. CASE ~(i < j)
      <4>1. f[i] = g[i] /\ f[i + 1] = g[i + 1]
        BY <1>3, <3>1, <3>3
      <4> QED
        BY <1>5, <4>1
    <3> QED
      BY <3>2, <3>3
  <2>3. f[1] = g[j]
    BY <1>3
  <2>4. h \in [1 .. l -> Seq(B)] /\ h[l] = << >> /\ h[1] = g[j + 1]
    <3>1. /\ \A i \in 1 .. l + 1 : g[i] \in Seq(B)
          /\ l \in 1 .. l /\ ~(l < j) /\ 1 \in 1 .. l /\ j + 1 \in 1 .. l + 1
      <4>1. \A i \in 1 .. l + 1 : g[i] \in Seq(B)
        BY <1>5
      <4>2. l \in Nat /\ j \in 1 .. l
        BY <1>3
      <4> QED
        BY <4>1, <4>2
    <3>2. \A i \in 1 .. l : i \in 1 .. l + 1 /\ i + 1 \in 1 .. l + 1
      BY <1>3
    <3>3. h \in [1 .. l -> Seq(B)] /\ h[l] = << >>
      BY <1>5, <3>1, <3>2, Zenon
    <3>4. ~(1 < j) => 1 + 1 = j + 1
      BY <1>3
    <3>5. h[1] = IF 1 < j THEN g[j + 1] ELSE g[1 + 1]
      BY <3>1, Zenon
    <3> QED
      BY <3>3, <3>4, <3>5
  <2>5. ASSUME NEW i \in 1 .. l - 1
        PROVE  h[i] = IF p.memory[M[i]].key = t THEN <<p.memory[M[i]].body>> \o h[i + 1] ELSE h[i + 1]
    <3>1. i \in 1 .. l /\ i + 1 \in 1 .. l /\ i + 1 + 1 = i + 2
      BY <1>3
    <3>2. CASE i < j
      <4>1. M[i] = L[i] /\ p.memory[M[i]].key # t
        BY <1>1, <1>3, <1>4, <1>6, <1>7, <3>1, <3>2
      <4>2. h[i] = g[j + 1] /\ h[i + 1] = g[j + 1]
        BY <1>3, <3>1, <3>2
      <4> QED
        BY <4>1, <4>2
    <3>3. CASE ~(i < j)
      <4>1. /\ M[i] = L[i + 1] /\ p.memory[M[i]].key = q.memory[L[i + 1]].key
            /\ p.memory[M[i]].body = q.memory[L[i + 1]].body
        BY <1>1, <1>3, <1>4, <3>1, <3>3
      <4>2. h[i] = g[i + 1] /\ h[i + 1] = g[i + 1 + 1]
        BY <1>3, <3>1, <3>3
      <4>3. g[i + 1] = IF q.memory[L[i + 1]].key = t THEN <<q.memory[L[i + 1]].body>> \o g[i + 1 + 1] ELSE g[i + 1 + 1]
        BY <1>5, <3>1
      <4> QED
        BY <4>1, <4>2, <4>3
    <3> QED
      BY <3>2, <3>3
  <2> HIDE DEF f, h
  <2>6. Along(f, q, L, t, B)
    BY <2>1, <2>2 DEF Along, l
  <2>7. Along(h, p, M, t, B)
    <3>1. l - 1 + 1 = l
      BY <1>3
    <3> QED
      BY <1>4, <2>4, <2>5, <3>1 DEF Along
  <2>8. BoxIn(q, t) = f[1] /\ BoxIn(p, t) = h[1]
    BY <1>1, <2>6, <2>7, BoxFirst
  <2>9. g[j] = <<m>> \o g[j + 1]
    BY <1>3, <1>5, <1>6, <1>7
  <2> QED
    BY <1>7, <2>3, <2>4, <2>8, <2>9 DEF p
<1>8. CASE t # k
  <2> DEFINE h == [i \in 1 .. l |-> IF i < j THEN g[i] ELSE g[i + 1]]
  <2>0. g[j] = g[j + 1]
    BY <1>3, <1>5, <1>6, <1>8
  <2>1. h \in [1 .. l -> Seq(B)] /\ h[l] = << >>
    <3>1. (\A i \in 1 .. l + 1 : g[i] \in Seq(B)) /\ l \in 1 .. l /\ ~(l < j)
      BY <1>3, <1>5
    <3>2. \A i \in 1 .. l : i \in 1 .. l + 1 /\ i + 1 \in 1 .. l + 1
      BY <1>3
    <3> QED
      BY <1>5, <3>1, <3>2, Zenon
  <2>2. h[1] = g[1]
    BY <1>3, <2>0
  <2>3. ASSUME NEW i \in 1 .. l - 1
        PROVE  h[i] = IF p.memory[M[i]].key = t THEN <<p.memory[M[i]].body>> \o h[i + 1] ELSE h[i + 1]
    <3>1. i \in 1 .. l /\ i + 1 \in 1 .. l
      BY <1>3
    <3>2. CASE i < j
      <4>1. /\ M[i] = L[i] /\ p.memory[M[i]].key = q.memory[L[i]].key
            /\ p.memory[M[i]].body = q.memory[L[i]].body
        BY <1>1, <1>3, <1>4, <3>1, <3>2
      <4>2. h[i] = g[i] /\ h[i + 1] = g[i + 1]
        <5>1. CASE i + 1 < j
          BY <1>3, <3>1, <3>2, <5>1
        <5>2. CASE i + 1 = j
          BY <1>3, <2>0, <3>1, <3>2, <5>2
        <5> QED
          BY <1>3, <3>2, <5>1, <5>2
      <4>3. g[i] = IF q.memory[L[i]].key = t THEN <<q.memory[L[i]].body>> \o g[i + 1] ELSE g[i + 1]
        BY <1>5, <3>1
      <4> QED
        BY <4>1, <4>2, <4>3
    <3>3. CASE ~(i < j)
      <4>1. /\ M[i] = L[i + 1] /\ p.memory[M[i]].key = q.memory[L[i + 1]].key
            /\ p.memory[M[i]].body = q.memory[L[i + 1]].body
        BY <1>1, <1>3, <1>4, <3>1, <3>3
      <4>2. h[i] = g[i + 1] /\ h[i + 1] = g[i + 1 + 1]
        BY <1>3, <3>1, <3>3
      <4>3. g[i + 1] = IF q.memory[L[i + 1]].key = t THEN <<q.memory[L[i + 1]].body>> \o g[i + 1 + 1] ELSE g[i + 1 + 1]
        BY <1>5, <3>1
      <4> QED
        BY <4>1, <4>2, <4>3
    <3> QED
      BY <3>2, <3>3
  <2> HIDE DEF h
  <2>4. Along(h, p, M, t, B)
    <3>1. l - 1 + 1 = l
      BY <1>3
    <3> QED
      BY <1>4, <2>1, <2>3, <3>1 DEF Along
  <2>5. BoxIn(p, t) = h[1]
    BY <1>1, <2>4, BoxFirst
  <2> QED
    BY <1>2, <1>8, <2>2, <2>5 DEF p
<1> QED
  BY <1>7, <1>8

-----------------------------------------------------------------------------
(* The message box: the records handed out are the cached ones.            *)

HeldAt == [i \in 1 .. Len(held) |-> held[i].at]

\* Type correctness of the message box.
MsgTypeOK ==
  /\ msgBox \in Lists(Tasks, Messages)
  /\ events \in SUBSET Tasks
  /\ got \in Messages \cup {None}
  /\ pushed \in Nat
  /\ held \in Seq([at : Nat, msg : Messages])

\* What was handed out is intact, and the cached records are those handed out,
\* the latest first.
MsgInv == MsgTypeOK /\ PulledIsIntact /\ \E L : Chained(msgBox, L, HeldAt)

LEMMA MsgInitInv == ASSUME MsgInit PROVE MsgInv
<1>1. EmptyList \in Lists(Tasks, Messages) /\ Chained(EmptyList, << >>, << >>)
  BY EmptyChained
<1>2. held = << >> /\ Len(held) = 0 /\ HeldAt = << >>
  BY DEF MsgInit, HeldAt
<1>3. PulledIsIntact
  BY <1>2 DEF PulledIsIntact
<1>4. MsgTypeOK
  BY <1>1, <1>2 DEF MsgInit, MsgTypeOK
<1> QED
  BY <1>1, <1>2, <1>3, <1>4 DEF MsgInv, MsgInit

LEMMA HeldIs ==
  ASSUME MsgInv
  PROVE  /\ Len(held) \in Nat /\ Len(HeldAt) = Len(held) /\ DOMAIN held = 1 .. Len(held)
         /\ \A i \in 1 .. Len(held) : /\ held[i] \in [at : Nat, msg : Messages]
                                      /\ HeldAt[i] = held[i].at
                                      /\ msgBox.memory[HeldAt[i]].body = held[i].msg
         /\ held = << >> <=> HeldAt = << >>
<1>1. held \in Seq([at : Nat, msg : Messages])
  BY DEF MsgInv, MsgTypeOK
<1>2. Len(held) \in Nat /\ DOMAIN held = 1 .. Len(held)
      /\ \A i \in 1 .. Len(held) : held[i] \in [at : Nat, msg : Messages]
  BY <1>1, ElementOfSeq, LenProperties
<1>3. Len(HeldAt) = Len(held) /\ \A i \in 1 .. Len(held) : HeldAt[i] = held[i].at
  BY <1>2 DEF HeldAt
<1>4. held = << >> <=> HeldAt = << >>
  BY <1>1, <1>3 DEF HeldAt
<1> QED
  BY <1>2, <1>3, <1>4 DEF MsgInv, PulledIsIntact

LEMMA PushKeeps ==
  ASSUME MsgInv, NEW task \in Tasks, NEW msg \in Messages, PushMsg(task, msg)
  PROVE  /\ MsgInv'
         /\ \A t : BoxIn(msgBox', t) = IF t = task THEN Append(BoxIn(msgBox, t), msg) ELSE BoxIn(msgBox, t)
<1> DEFINE C == HeldAt
           n == Acquired(msgBox)
           q == Appended(msgBox, task, msg)
<1>1. PICK L : Chained(msgBox, L, C)
  BY DEF MsgInv
<1>2. msgBox \in Lists(Tasks, Messages)
  BY DEF MsgInv, MsgTypeOK
<1>3. /\ msgBox' = q /\ held' = (IF held = << >> THEN held ELSE Tail(held))
      /\ events' = events \cup {task} /\ got' = got /\ pushed' = pushed + 1 /\ pushed < MaxPushes
  BY DEF PushMsg
<1>4. /\ q \in Lists(Tasks, Messages) /\ Chained(q, Append(L, n), Rest(C))
      /\ C # << >> => n = C[1]
      /\ \A i \in 1 .. Len(msgBox.memory) :
           i # n => q.memory[i].body = msgBox.memory[i].body
  BY <1>1, <1>2, AppendedChained
<1>5. \A t : BoxIn(q, t) = IF t = task THEN Append(BoxIn(msgBox, t), msg) ELSE BoxIn(msgBox, t)
  BY <1>1, <1>2, BoxOfAppended
<1> HIDE DEF q, n
<1>6. held' \in Seq([at : Nat, msg : Messages])
      /\ Len(held') = (IF Len(held) = 0 THEN 0 ELSE Len(held) - 1)
      /\ \A i \in 1 .. Len(held') : held'[i] = held[i + 1] /\ i + 1 \in 1 .. Len(held)
  <2>1. held \in Seq([at : Nat, msg : Messages])
    BY DEF MsgInv, MsgTypeOK
  <2>2. CASE held = << >>
    BY <1>3, <2>1, <2>2
  <2>3. CASE held # << >>
    BY <1>3, <2>1, <2>3, HeadTailProperties
  <2> QED
    BY <2>2, <2>3
<1>7. HeldAt' = Rest(C)
  <2>1. C \in Seq(1 .. Len(msgBox.memory)) /\ Len(msgBox.memory) \in Nat
    BY <1>1, <1>2 DEF Chained, Shared, Lists
  <2>2. /\ Rest(C) \in Seq(1 .. Len(msgBox.memory)) /\ Len(C) \in Nat
        /\ Len(Rest(C)) = (IF Len(C) = 0 THEN 0 ELSE Len(C) - 1)
        /\ \A i \in 1 .. Len(Rest(C)) : Rest(C)[i] = C[i + 1] /\ i + 1 \in 1 .. Len(C)
    BY <2>1, RestIs
  <2>3. Len(C) = Len(held) /\ \A i \in 1 .. Len(held) : C[i] = held[i].at
    BY HeldIs
  <2>4. HeldAt' = [i \in 1 .. Len(held') |-> held'[i].at]
    BY DEF HeldAt
  <2> HIDE DEF C
  <2>5. Len(Rest(C)) = Len(held')
    BY <1>6, <2>2, <2>3
  <2>6. \A i \in 1 .. Len(held') : Rest(C)[i] = held'[i].at
    BY <1>6, <2>2, <2>3, <2>5
  <2>7. Rest(C) = [i \in 1 .. Len(held') |-> Rest(C)[i]]
    BY <2>2, <2>5
  <2> QED
    BY <2>4, <2>6, <2>7
<1>8. PulledIsIntact'
  <2>0. DOMAIN held' = 1 .. Len(held')
    BY <1>6, LenProperties
  <2> SUFFICES ASSUME NEW i \in 1 .. Len(held') PROVE msgBox'.memory[held'[i].at].body = held'[i].msg
    BY <2>0 DEF PulledIsIntact
  <2>1. held'[i] = held[i + 1] /\ i + 1 \in 1 .. Len(held) /\ i + 1 # 1 /\ 1 \in 1 .. Len(held)
    BY <1>6
  <2>2. C[i + 1] = held[i + 1].at /\ msgBox.memory[C[i + 1]].body = held[i + 1].msg /\ C # << >>
    BY <2>1, HeldIs
  <2>3. Len(C) = Len(held)
    BY HeldIs
  <2>4. C[i + 1] # C[1] /\ C[i + 1] \in 1 .. Len(msgBox.memory)
    <3>1. OnceEach(C) /\ C \in Seq(1 .. Len(msgBox.memory))
      BY <1>1 DEF Chained, Shared
    <3> HIDE DEF C
    <3> QED
      BY <2>1, <2>3, <3>1 DEF OnceEach
  <2> HIDE DEF C
  <2>5. q.memory[C[i + 1]].body = msgBox.memory[C[i + 1]].body
    BY <1>4, <2>2, <2>4
  <2> QED
    BY <1>3, <2>1, <2>2, <2>5
<1>9. MsgTypeOK'
  BY <1>3, <1>4, <1>6 DEF MsgInv, MsgTypeOK
<1>10. MsgInv'
  BY <1>3, <1>4, <1>7, <1>8, <1>9 DEF MsgInv
<1> QED
  BY <1>3, <1>5, <1>10

LEMMA PullKeeps ==
  ASSUME MsgInv, NEW task \in Tasks, PullMsg(task)
  PROVE  /\ MsgInv'
         /\ \/ BoxIn(msgBox, task) = << >> /\ got' = None /\ msgBox' = msgBox
            \/ \E m \in Messages :
                 /\ got' = m
                 /\ \A t : BoxIn(msgBox, t) = IF t = task THEN <<m>> \o BoxIn(msgBox', t) ELSE BoxIn(msgBox', t)
<1> DEFINE C == HeldAt
           n == Found(msgBox, task)
           N == Len(msgBox.memory)
<1>1. PICK L : Chained(msgBox, L, C)
  BY DEF MsgInv
<1>2. msgBox \in Lists(Tasks, Messages)
  BY DEF MsgInv, MsgTypeOK
<1>3. L \in Seq(1 .. N) /\ Len(L) \in Nat /\ \A i \in 1 .. Len(L) : L[i] \in 1 .. N /\ L[i] # Null
  BY <1>1, <1>2 DEF Chained, Shared, Null
<1>f. \/ n = Null /\ \A i \in 1 .. Len(L) : msgBox.memory[L[i]].key # task
      \/ \E j \in 1 .. Len(L) : /\ n = L[j] /\ msgBox.memory[L[j]].key = task
                                /\ \A i \in 1 .. j - 1 : msgBox.memory[L[i]].key # task
  BY <1>1, <1>2, FoundIs
<1> HIDE DEF N
<1>4. CASE n = Null
  <2>1. \A i \in 1 .. Len(L) : msgBox.memory[L[i]].key # task
    BY <1>f, <1>3, <1>4
  <2>2. BoxIn(msgBox, task) = << >>
    BY <1>1, <1>2, <2>1, BoxOfNone
  <2>3. got' = None /\ UNCHANGED <<msgBox, events, pushed, held>>
    BY <1>4 DEF PullMsg
  <2>4. MsgInv'
    <3>1. HeldAt' = HeldAt
      BY <2>3 DEF HeldAt
    <3>2. MsgTypeOK' /\ PulledIsIntact'
      BY <2>3 DEF MsgInv, MsgTypeOK, PulledIsIntact
    <3> QED
      BY <1>1, <2>3, <3>1, <3>2 DEF MsgInv
  <2> QED
    BY <2>2, <2>3, <2>4
<1>5. CASE n # Null
  <2>1. PICK j \in 1 .. Len(L) : /\ n = L[j] /\ msgBox.memory[L[j]].key = task
                                 /\ \A i \in 1 .. j - 1 : msgBox.memory[L[i]].key # task
    BY <1>f, <1>5
  <2> DEFINE q == Recycled(msgBox, L[j])
             m == msgBox.memory[L[j]].body
  <2>2. /\ msgBox' = q /\ got' = q.memory[n].body
        /\ held' = <<[at |-> n, msg |-> m]>> \o held
        /\ events' = events /\ pushed' = pushed
    BY <1>5, <2>1, Zenon DEF PullMsg, HandedOut
  <2>3. /\ q \in Lists(Tasks, Messages) /\ Chained(q, Without(L, j), <<L[j]>> \o C)
        /\ \A i \in 1 .. N : q.memory[i].body = msgBox.memory[i].body
    BY <1>1, <1>2, RecycledChained DEF N
  <2>4. \A t : BoxIn(msgBox, t) = IF t = task THEN <<m>> \o BoxIn(q, t) ELSE BoxIn(q, t)
    BY <1>1, <1>2, <2>1, BoxOfRecycled
  <2>5. m \in Messages /\ L[j] \in 1 .. N /\ L[j] \in Nat
    <3>1. msgBox.memory \in Seq(Records(Tasks, Messages)) /\ L[j] \in 1 .. N
      BY <1>2, <1>3 DEF Lists, N
    <3>2. msgBox.memory[L[j]] \in Records(Tasks, Messages)
      BY <3>1 DEF N
    <3> QED
      BY <3>1, <3>2 DEF Records
  <2>6. got' = m
    BY <2>1, <2>2, <2>3, <2>5
  <2> HIDE DEF q, m
  <2>7. /\ held' \in Seq([at : Nat, msg : Messages]) /\ Len(held') = Len(held) + 1
        /\ held'[1] = [at |-> n, msg |-> m]
        /\ \A i \in 2 .. Len(held) + 1 : held'[i] = held[i - 1]
    <3>1. held \in Seq([at : Nat, msg : Messages]) /\ [at |-> n, msg |-> m] \in [at : Nat, msg : Messages]
      BY <2>1, <2>5 DEF MsgInv, MsgTypeOK
    <3> DEFINE e == [at |-> n, msg |-> m]
    <3> HIDE DEF e
    <3>2. /\ <<e>> \o held \in Seq([at : Nat, msg : Messages]) /\ Len(<<e>> \o held) = Len(held) + 1
          /\ (<<e>> \o held)[1] = e
          /\ \A i \in 2 .. Len(held) + 1 : (<<e>> \o held)[i] = held[i - 1]
      BY <3>1 DEF e
    <3> QED
      BY <2>2, <3>2 DEF e
  <2>8. HeldAt' = <<L[j]>> \o C
    <3>1. C \in Seq(1 .. N) /\ N \in Nat
      BY <1>1, <1>2 DEF Chained, Shared, Lists, N
    <3>2. Len(held) \in Nat /\ Len(C) = Len(held) /\ \A i \in 1 .. Len(held) : C[i] = held[i].at
      BY HeldIs
    <3>3. HeldAt' = [i \in 1 .. Len(held) + 1 |-> held'[i].at]
      BY <2>7 DEF HeldAt
    <3> HIDE DEF C
    <3> DEFINE D == <<L[j]>> \o C
    <3>4. D = [i \in 1 .. Len(held) + 1 |-> D[i]] /\ D[1] = L[j] /\ \A i \in 2 .. Len(held) + 1 : D[i] = C[i - 1]
      BY <2>5, <3>1, <3>2
    <3>5. \A i \in 1 .. Len(held) + 1 : D[i] = held'[i].at
      <4> TAKE i \in 1 .. Len(held) + 1
      <4>1. CASE i = 1
        BY <2>1, <2>7, <3>4, <4>1
      <4>2. CASE i # 1
        <5>1. i \in 2 .. Len(held) + 1 /\ i - 1 \in 1 .. Len(held)
          BY <3>2, <4>2
        <5> QED
          BY <2>7, <3>2, <3>4, <5>1
      <4> QED
        BY <4>1, <4>2
    <3> QED
      BY <3>3, <3>4, <3>5
  <2>9. PulledIsIntact'
    <3>0. DOMAIN held' = 1 .. Len(held) + 1
      BY <2>7, LenProperties
    <3> SUFFICES ASSUME NEW i \in 1 .. Len(held) + 1 PROVE msgBox'.memory[held'[i].at].body = held'[i].msg
      BY <3>0 DEF PulledIsIntact
    <3>1. CASE i = 1
      <4>1. held'[i] = [at |-> n, msg |-> m] /\ got' = q.memory[n].body
        BY <2>2, <2>7, <3>1
      <4>2. held'[i].at = n /\ held'[i].msg = m
        BY <4>1
      <4> QED
        BY <2>2, <2>6, <4>1, <4>2
    <3>2. CASE i # 1
      <4>1. i \in 2 .. Len(held) + 1 /\ i - 1 \in 1 .. Len(held)
        BY HeldIs, <3>2
      <4>2. held'[i] = held[i - 1] /\ C[i - 1] = held[i - 1].at
            /\ msgBox.memory[C[i - 1]].body = held[i - 1].msg
        BY HeldIs, <2>7, <4>1
      <4>3. C[i - 1] \in 1 .. N
        BY <1>1, <4>1, HeldIs DEF Chained, Shared, N
      <4> QED
        BY <2>2, <2>3, <4>2, <4>3
    <3> QED
      BY <3>1, <3>2
  <2>10. MsgTypeOK'
    BY <2>2, <2>3, <2>5, <2>6, <2>7 DEF MsgInv, MsgTypeOK
  <2>11. MsgInv'
    BY <2>2, <2>3, <2>8, <2>9, <2>10 DEF MsgInv
  <2> QED
    BY <2>2, <2>4, <2>5, <2>6, <2>11
<1> QED
  BY <1>4, <1>5

LEMMA MsgStep == ASSUME MsgInv, [MsgNext]_msgVars PROVE MsgInv'
<1>1. CASE UNCHANGED <<msgBox, got, pushed, held>> /\ events' \in SUBSET Tasks
  <2>1. HeldAt' = HeldAt
    BY <1>1 DEF HeldAt
  <2>2. MsgTypeOK' /\ PulledIsIntact'
    BY <1>1 DEF MsgInv, MsgTypeOK, PulledIsIntact
  <2> QED
    BY <1>1, <2>1, <2>2 DEF MsgInv
<1>2. CASE UNCHANGED msgVars
  BY <1>1, <1>2 DEF msgVars, MsgInv, MsgTypeOK
<1>3. ASSUME NEW task \in Tasks, PullMsg(task) PROVE MsgInv'
  BY <1>3, PullKeeps
<1>4. ASSUME NEW task \in Tasks, TakeEvent(task) PROVE MsgInv'
  BY <1>1, <1>4 DEF TakeEvent, MsgInv, MsgTypeOK
<1>5. ASSUME NEW task \in Tasks, NEW msg \in Messages, PushMsg(task, msg) PROVE MsgInv'
  BY <1>5, PushKeeps
<1> QED
  BY <1>2, <1>3, <1>4, <1>5 DEF MsgNext

(* A record that pullMsg returned keeps its message until a push takes it, *)
(* however many tasks push and pull.                                       *)
THEOREM MsgPulledIsIntact == MsgSpec => []PulledIsIntact
<1>1. MsgInv => PulledIsIntact
  BY DEF MsgInv
<1> QED
  BY <1>1, MsgInitInv, MsgStep, PTL DEF MsgSpec

(* Through its one list and its cache of records the message box is a      *)
(* queue for each task: what a task pulls was pushed for it, each message  *)
(* once and in order, and nothing else is lost or moved.                   *)
THEOREM MsgImplementsBoxes == MsgSpec => ImplementsBoxes
<1> DEFINE box == [t \in Tasks |-> BoxIn(msgBox, t)]
<1>1. MsgInit => Boxes!Init
  <2> SUFFICES ASSUME MsgInit PROVE Boxes!Init
    OBVIOUS
  <2>1. \A t : BoxIn(EmptyList, t) = << >>
    <3> TAKE t
    <3>1. EmptyList \in Lists(Tasks, Messages) /\ Chained(EmptyList, << >>, << >>)
      BY EmptyChained
    <3>2. \A i \in 1 .. Len(<< >>) : EmptyList.memory[<< >>[i]].key # t
      OBVIOUS
    <3> QED
      BY <3>1, <3>2, BoxOfNone
  <2> QED
    BY <2>1 DEF Boxes!Init, MsgInit
<1>2. MsgInv /\ [MsgNext]_msgVars => [Boxes!Next]_(Boxes!vars)
  <2> SUFFICES ASSUME MsgInv, [MsgNext]_msgVars PROVE [Boxes!Next]_(Boxes!vars)
    OBVIOUS
  <2>1. CASE UNCHANGED msgVars
    BY <2>1 DEF msgVars, Boxes!vars
  <2>2. ASSUME NEW task \in Tasks, NEW msg \in Messages, PushMsg(task, msg) PROVE Boxes!Push(task, msg)
    <3>1. \A t : BoxIn(msgBox', t) = IF t = task THEN Append(BoxIn(msgBox, t), msg) ELSE BoxIn(msgBox, t)
      BY <2>2, PushKeeps
    <3>2. box' = [box EXCEPT ![task] = Append(@, msg)]
      BY <3>1
    <3> QED
      BY <2>2, <3>2 DEF PushMsg, Boxes!Push
  <2>3. ASSUME NEW task \in Tasks, PullMsg(task) PROVE Boxes!Pull(task)
    <3>1. events' = events /\ pushed' = pushed
      BY <2>3 DEF PullMsg
    <3>2. CASE BoxIn(msgBox, task) = << >> /\ got' = None /\ msgBox' = msgBox
      BY <3>1, <3>2 DEF Boxes!Pull
    <3>3. CASE \E m \in Messages :
                 /\ got' = m
                 /\ \A t : BoxIn(msgBox, t) = IF t = task THEN <<m>> \o BoxIn(msgBox', t) ELSE BoxIn(msgBox', t)
      <4>1. PICK m \in Messages :
                 /\ got' = m
                 /\ \A t : BoxIn(msgBox, t) = IF t = task THEN <<m>> \o BoxIn(msgBox', t) ELSE BoxIn(msgBox', t)
        BY <3>3
      <4>2. BoxIn(msgBox', task) \in Seq(Messages)
        <5>1. MsgInv'
          BY <2>3, PullKeeps
        <5>2. PICK L : Chained(msgBox', L, HeldAt')
          BY <5>1 DEF MsgInv
        <5> QED
          BY <5>1, <5>2, BoxIsSeq DEF MsgInv, MsgTypeOK
      <4> DEFINE u == BoxIn(msgBox', task)
                 v == BoxIn(msgBox, task)
      <4>3. v = <<m>> \o u /\ u \in Seq(Messages)
        BY <4>1, <4>2
      <4> HIDE DEF u, v
      <4>4. v # << >> /\ Head(v) = m /\ Tail(v) = u
        BY <4>3
      <4>5. box' = [box EXCEPT ![task] = Tail(@)]
        <5>1. \A t \in Tasks : t # task => BoxIn(msgBox', t) = BoxIn(msgBox, t)
          BY <4>1
        <5>2. BoxIn(msgBox', task) = Tail(BoxIn(msgBox, task))
          BY <4>4 DEF u, v
        <5> QED
          BY <5>1, <5>2
      <4>6. box[task] # << >> /\ got' = Head(box[task])
        BY <4>1, <4>4 DEF v
      <4> QED
        BY <3>1, <4>5, <4>6 DEF Boxes!Pull
    <3> QED
      BY <2>3, <3>2, <3>3, PullKeeps
  <2>4. ASSUME NEW task \in Tasks, TakeEvent(task) PROVE Boxes!Notice(task)
    BY <2>4 DEF TakeEvent, Boxes!Notice
  <2> QED
    BY <2>1, <2>2, <2>3, <2>4 DEF MsgNext, Boxes!Next
<1> QED
  BY <1>1, <1>2, MsgInitInv, MsgStep, PTL DEF MsgSpec, ImplementsBoxes, Boxes!Spec

-----------------------------------------------------------------------------
(* The timer list: what the records in use say is one time for each timer. *)

\* The records L of the list q have the time b for the timer k.
Times(q, L, k, b) ==
  \E i \in 1 .. Len(L) : q.memory[L[i]].key = k /\ q.memory[L[i]].body = b

\* A timer has one record.
KeysOnce(q, L) ==
  \A i, j \in 1 .. Len(L) : q.memory[L[i]].key = q.memory[L[j]].key => i = j

Timed(q, L, C) ==
  q \in Lists(Timers, Nat) /\ Chained(q, L, C) /\ KeysOnce(q, L)

LEMMA RecordsIn ==
  ASSUME NEW K, NEW B, NEW q \in Lists(K, B), NEW L, NEW C, Chained(q, L, C)
  PROVE  /\ L \in Seq(1 .. Len(q.memory)) /\ Len(L) \in Nat /\ Len(q.memory) \in Nat
         /\ \A i \in 1 .. Len(L) : /\ L[i] \in 1 .. Len(q.memory) /\ L[i] # Null
                                   /\ q.memory[L[i]] \in Records(K, B)
                                   /\ q.memory[L[i]].key \in K /\ q.memory[L[i]].body \in B
         /\ \A i, j \in 1 .. Len(L) : L[i] = L[j] => i = j
<1> DEFINE N == Len(q.memory)
<1>1. q.memory \in Seq(Records(K, B)) /\ N \in Nat
  BY DEF Lists
<1>2. L \in Seq(1 .. N) /\ Len(L) \in Nat
  BY DEF Chained, Shared
<1>3. \A i \in 1 .. N : q.memory[i] \in Records(K, B)
  BY <1>1
<1>4. \A i, j \in 1 .. Len(L) : L[i] = L[j] => i = j
  BY Zenon DEF Chained, Shared, OnceEach
<1>5. \A i \in 1 .. Len(L) : L[i] \in 1 .. N /\ L[i] # Null
  <2> TAKE i \in 1 .. Len(L)
  <2>1. L[i] \in 1 .. N
    BY <1>2, ElementOfSeq
  <2> QED
    BY <1>1, <2>1 DEF Null
<1> HIDE DEF N
<1>6. \A i \in 1 .. Len(L) : q.memory[L[i]] \in Records(K, B)
  BY <1>3, <1>5
<1>7. \A r \in Records(K, B) : r.key \in K /\ r.body \in B
  BY DEF Records
<1> QED
  BY <1>1, <1>2, <1>4, <1>5, <1>6, <1>7 DEF N

\* A record gets another body.
Rewritten(q, n, b) == [q EXCEPT !.memory[n].body = b]

LEMMA RewrittenChained ==
  ASSUME NEW K, NEW B, NEW q \in Lists(K, B), NEW L, NEW C, Chained(q, L, C),
         NEW n \in 1 .. Len(q.memory), NEW b \in B
  PROVE  /\ Rewritten(q, n, b) \in Lists(K, B) /\ Chained(Rewritten(q, n, b), L, C)
         /\ \A i \in 1 .. Len(q.memory) :
              /\ Rewritten(q, n, b).memory[i].key = q.memory[i].key
              /\ Rewritten(q, n, b).memory[i].body = IF i = n THEN b ELSE q.memory[i].body
<1> DEFINE N == Len(q.memory)
           p == Rewritten(q, n, b)
<1>1. q.memory \in Seq(Records(K, B)) /\ N \in Nat /\ q.memory = [i \in 1 .. N |-> q.memory[i]]
      /\ \A i \in 1 .. N : q.memory[i] \in Records(K, B)
  BY DEF Lists
<1>2. /\ p = [q EXCEPT !.memory = [i \in 1 .. N |-> IF i = n THEN [q.memory[n] EXCEPT !.body = b]
                                                    ELSE q.memory[i]]]
  BY <1>1 DEF Rewritten
<1>3. /\ p.memory = [i \in 1 .. N |-> IF i = n THEN [q.memory[n] EXCEPT !.body = b] ELSE q.memory[i]]
      /\ p.head = q.head /\ p.tail = q.tail /\ p.cache = q.cache
  BY <1>2 DEF Lists
<1> HIDE DEF p, N
<1>4. \A i \in 1 .. N : /\ p.memory[i] \in Records(K, B)
                        /\ p.memory[i].key = q.memory[i].key
                        /\ p.memory[i].body = IF i = n THEN b ELSE q.memory[i].body
                        /\ p.memory[i].next = q.memory[i].next
                        /\ p.memory[i].prev = q.memory[i].prev
  <2> TAKE i \in 1 .. N
  <2>1. q.memory[i] \in Records(K, B) /\ n \in 1 .. N
    BY <1>1 DEF N
  <2>2. CASE i = n
    BY <1>3, <2>1, <2>2 DEF Records
  <2>3. CASE i # n
    BY <1>3, <2>1, <2>3 DEF Records
  <2> QED
    BY <2>2, <2>3
<1>5. p.memory \in Seq(Records(K, B)) /\ Len(p.memory) = N
  <2>1. p.memory \in [1 .. N -> Records(K, B)]
    BY <1>3, <1>4
  <2> QED
    BY <1>1, <2>1, FcnIsSeq
<1>6. p \in Lists(K, B)
  BY <1>2, <1>3, <1>5 DEF Lists
<1>7. Shared(N, L, C) /\ Linked(q, L) /\ Cached(q, C)
  BY DEF Chained, N
<1>8. \A i \in 1 .. Len(L) : L[i] \in 1 .. N
  BY RecordsIn DEF N
<1>9. \A i \in 1 .. Len(C) : C[i] \in 1 .. N
  <2>1. C \in Seq(1 .. N)
    BY <1>7 DEF Shared
  <2> TAKE i \in 1 .. Len(C)
  <2> QED
    BY <2>1, ElementOfSeq
<1>10. Linked(p, L)
  BY <1>3, <1>4, <1>7, <1>8 DEF Linked
<1>11. Cached(p, C)
  BY <1>3, <1>4, <1>7, <1>9 DEF Cached
<1> QED
  BY <1>4, <1>5, <1>6, <1>7, <1>10, <1>11 DEF Chained, p, N

LEMMA RewrittenTimed ==
  ASSUME NEW q, NEW L, NEW C, Timed(q, L, C), NEW j \in 1 .. Len(L), NEW b \in Nat
  PROVE  /\ Timed(Rewritten(q, L[j], b), L, C)
         /\ \A k, c : Times(Rewritten(q, L[j], b), L, k, c) <=>
                        IF k = q.memory[L[j]].key THEN c = b ELSE Times(q, L, k, c)
<1> DEFINE p == Rewritten(q, L[j], b)
<1>1. q \in Lists(Timers, Nat) /\ Chained(q, L, C) /\ KeysOnce(q, L)
  BY DEF Timed
<1>2. /\ \A i \in 1 .. Len(L) : L[i] \in 1 .. Len(q.memory)
      /\ \A h, i \in 1 .. Len(L) : L[h] = L[i] => h = i
  BY <1>1, RecordsIn
<1>3. /\ p \in Lists(Timers, Nat) /\ Chained(p, L, C)
      /\ \A i \in 1 .. Len(q.memory) :
              /\ p.memory[i].key = q.memory[i].key
              /\ p.memory[i].body = IF i = L[j] THEN b ELSE q.memory[i].body
  BY <1>1, <1>2, RewrittenChained
<1> HIDE DEF p
<1>4. \A i \in 1 .. Len(L) : /\ p.memory[L[i]].key = q.memory[L[i]].key
                             /\ p.memory[L[i]].body = IF i = j THEN b ELSE q.memory[L[i]].body
  BY <1>2, <1>3
<1>5. KeysOnce(p, L)
  BY <1>1, <1>4 DEF KeysOnce
<1>6. ASSUME NEW k, NEW c
      PROVE  Times(p, L, k, c) <=> IF k = q.memory[L[j]].key THEN c = b ELSE Times(q, L, k, c)
  <2>1. CASE k = q.memory[L[j]].key
    <3>1. \A i \in 1 .. Len(L) : p.memory[L[i]].key = k <=> i = j
      BY <1>1, <1>4, <2>1 DEF KeysOnce
    <3> QED
      BY <1>4, <2>1, <3>1 DEF Times
  <2>2. CASE k # q.memory[L[j]].key
    BY <1>4, <2>2 DEF Times
  <2> QED
    BY <2>1, <2>2
<1> QED
  BY <1>3, <1>5, <1>6 DEF Timed, p

LEMMA AppendedTimed ==
  ASSUME NEW q, NEW L, NEW C, Timed(q, L, C), NEW k \in Timers, NEW b \in Nat,
         \A i \in 1 .. Len(L) : q.memory[L[i]].key # k
  PROVE  /\ Timed(Appended(q, k, b), Append(L, Acquired(q)), Rest(C))
         /\ \A t, c : Times(Appended(q, k, b), Append(L, Acquired(q)), t, c)
                        <=> (t = k /\ c = b) \/ Times(q, L, t, c)
<1> DEFINE p == Appended(q, k, b)
           n == Acquired(q)
           M == Append(L, n)
           l == Len(L)
<1>1. q \in Lists(Timers, Nat) /\ Chained(q, L, C) /\ KeysOnce(q, L)
  BY DEF Timed
<1>2. /\ L \in Seq(1 .. Len(q.memory)) /\ l \in Nat
      /\ \A i \in 1 .. l : L[i] \in 1 .. Len(q.memory)
  BY <1>1, RecordsIn
<1>3. /\ p \in Lists(Timers, Nat) /\ Chained(p, M, Rest(C))
      /\ \A i \in 1 .. l : L[i] # n
      /\ p.memory[n].key = k /\ p.memory[n].body = b
      /\ \A i \in 1 .. Len(q.memory) :
           i # n => p.memory[i].key = q.memory[i].key /\ p.memory[i].body = q.memory[i].body
  BY <1>1, AppendedChained
<1>4. Len(M) = l + 1 /\ M[l + 1] = n /\ \A i \in 1 .. l : M[i] = L[i]
  BY <1>2, PutBehind
<1> HIDE DEF p, n, M, l
<1>5. /\ p.memory[M[l + 1]].key = k /\ p.memory[M[l + 1]].body = b
      /\ \A i \in 1 .. l : /\ p.memory[M[i]].key = q.memory[L[i]].key
                           /\ p.memory[M[i]].body = q.memory[L[i]].body
                           /\ q.memory[L[i]].key # k
  BY <1>2, <1>3, <1>4 DEF l
<1>6. \A i \in 1 .. l + 1 : i = l + 1 \/ i \in 1 .. l
  BY <1>2
<1>7. l + 1 \in 1 .. l + 1 /\ \A i \in 1 .. l : i \in 1 .. l + 1
  BY <1>2
<1>8. KeysOnce(p, M)
  BY <1>1, <1>4, <1>5, <1>6 DEF KeysOnce, l
<1>9. ASSUME NEW t, NEW c PROVE Times(p, M, t, c) <=> (t = k /\ c = b) \/ Times(q, L, t, c)
  BY <1>4, <1>5, <1>6, <1>7 DEF Times, l
<1> QED
  BY <1>3, <1>8, <1>9 DEF Timed, p, n, M

LEMMA WithoutIs ==
  ASSUME NEW S, NEW L \in Seq(S), NEW j \in 1 .. Len(L)
  PROVE  /\ Len(Without(L, j)) = Len(L) - 1
         /\ \A i \in 1 .. Len(L) - 1 : Without(L, j)[i] = IF i < j THEN L[i] ELSE L[i + 1]
BY DEF Without

LEMMA RecycledTimed ==
  ASSUME NEW q, NEW L, NEW C, Timed(q, L, C), NEW j \in 1 .. Len(L)
  PROVE  /\ Timed(Recycled(q, L[j]), Without(L, j), <<L[j]>> \o C)
         /\ \A t, c : Times(Recycled(q, L[j]), Without(L, j), t, c)
                        <=> t # q.memory[L[j]].key /\ Times(q, L, t, c)
         /\ \A i \in 1 .. Len(q.memory) : Recycled(q, L[j]).memory[i].body = q.memory[i].body
<1> DEFINE p == Recycled(q, L[j])
           M == Without(L, j)
           l == Len(L)
           from == [i \in 1 .. l - 1 |-> IF i < j THEN i ELSE i + 1]
<1>1. q \in Lists(Timers, Nat) /\ Chained(q, L, C) /\ KeysOnce(q, L)
  BY DEF Timed
<1>2. /\ L \in Seq(1 .. Len(q.memory)) /\ l \in Nat /\ j \in 1 .. l
      /\ \A i \in 1 .. l : L[i] \in 1 .. Len(q.memory)
  BY <1>1, RecordsIn
<1>3. /\ p \in Lists(Timers, Nat) /\ Chained(p, M, <<L[j]>> \o C)
      /\ \A i \in 1 .. Len(q.memory) : p.memory[i].key = q.memory[i].key /\ p.memory[i].body = q.memory[i].body
  BY <1>1, RecycledChained
<1>4. Len(M) = l - 1 /\ \A i \in 1 .. l - 1 : M[i] = IF i < j THEN L[i] ELSE L[i + 1]
  BY <1>2, WithoutIs
<1> HIDE DEF p, M, l
<1>5. /\ \A i \in 1 .. l - 1 : from[i] \in 1 .. l /\ from[i] # j
      /\ \A h, i \in 1 .. l - 1 : from[h] = from[i] => h = i
      /\ \A i \in 1 .. l : i # j => \E h \in 1 .. l - 1 : from[h] = i
  <2>1. \A i \in 1 .. l - 1 : from[i] \in 1 .. l /\ from[i] # j
    BY <1>2
  <2>2. \A h, i \in 1 .. l - 1 : from[h] = from[i] => h = i
    BY <1>2
  <2>3. ASSUME NEW i \in 1 .. l, i # j PROVE \E h \in 1 .. l - 1 : from[h] = i
    <3>1. CASE i < j
      <4>1. i \in 1 .. l - 1 /\ from[i] = i
        BY <1>2, <3>1
      <4> QED
        BY <4>1
    <3>2. CASE ~(i < j)
      <4>1. i - 1 \in 1 .. l - 1 /\ from[i - 1] = i
        BY <1>2, <2>3, <3>2
      <4> QED
        BY <4>1
    <3> QED
      BY <3>1, <3>2
  <2> QED
    BY <2>1, <2>2, <2>3
<1>6. \A i \in 1 .. l - 1 : M[i] = L[from[i]]
  BY <1>2, <1>4
<1> HIDE DEF from
<1>7. \A i \in 1 .. l - 1 : /\ p.memory[M[i]].key = q.memory[L[from[i]]].key
                            /\ p.memory[M[i]].body = q.memory[L[from[i]]].body
  BY <1>2, <1>3, <1>5, <1>6
<1>8. KeysOnce(p, M)
  <2> SUFFICES ASSUME NEW h \in 1 .. l - 1, NEW i \in 1 .. l - 1, p.memory[M[h]].key = p.memory[M[i]].key
               PROVE  h = i
    BY <1>4 DEF KeysOnce
  <2>1. from[h] \in 1 .. Len(L) /\ from[i] \in 1 .. Len(L)
    BY <1>5 DEF l
  <2>2. q.memory[L[from[h]]].key = q.memory[L[from[i]]].key
    BY <1>7
  <2>3. from[h] = from[i]
    BY <1>1, <2>1, <2>2 DEF KeysOnce
  <2> QED
    BY <1>5, <2>3
<1>9. ASSUME NEW t, NEW c
      PROVE  Times(p, M, t, c) <=> t # q.memory[L[j]].key /\ Times(q, L, t, c)
  <2>1. \A i \in 1 .. l : q.memory[L[i]].key = q.memory[L[j]].key <=> i = j
    BY <1>1, <1>2 DEF KeysOnce, l
  <2>2. ASSUME Times(p, M, t, c) PROVE t # q.memory[L[j]].key /\ Times(q, L, t, c)
    <3>1. PICK i \in 1 .. l - 1 : p.memory[M[i]].key = t /\ p.memory[M[i]].body = c
      BY <1>4, <2>2 DEF Times
    <3>2. from[i] \in 1 .. l /\ from[i] # j
      BY <1>5
    <3>3. q.memory[L[from[i]]].key = t /\ q.memory[L[from[i]]].body = c
      BY <1>7, <3>1
    <3> QED
      BY <2>1, <3>2, <3>3 DEF Times, l
  <2>3. ASSUME t # q.memory[L[j]].key, Times(q, L, t, c) PROVE Times(p, M, t, c)
    <3>1. PICK i \in 1 .. l : q.memory[L[i]].key = t /\ q.memory[L[i]].body = c
      BY <2>3 DEF Times, l
    <3>2. PICK h \in 1 .. l - 1 : from[h] = i
      BY <1>5, <2>3, <3>1
    <3> QED
      BY <1>4, <1>7, <3>1, <3>2 DEF Times
  <2> QED
    BY <2>2, <2>3
<1> QED
  BY <1>3, <1>8, <1>9 DEF Timed, p, M

LEMMA LeftIs ==
  ASSUME NEW q, NEW L, NEW C, Timed(q, L, C), NEW now
  PROVE  /\ DOMAIN Left(q, now) = {t \in Timers : \E b \in Nat : Times(q, L, t, b)}
         /\ \A t \in Timers, b \in Nat : Times(q, L, t, b) => Left(q, now)[t] = b - now
         /\ Left(q, now) = [t \in DOMAIN Left(q, now) |-> Left(q, now)[t]]
         /\ \A t \in Timers : Found(q, t) = Null <=> \A b \in Nat : ~Times(q, L, t, b)
<1>1. q \in Lists(Timers, Nat) /\ Chained(q, L, C) /\ KeysOnce(q, L)
  BY DEF Timed
<1>2. \A i \in 1 .. Len(L) : L[i] # Null /\ q.memory[L[i]].key \in Timers /\ q.memory[L[i]].body \in Nat
  BY <1>1, RecordsIn
<1>3. ASSUME NEW t
      PROVE  \/ Found(q, t) = Null /\ \A b : ~Times(q, L, t, b)
             \/ \E b \in Nat : /\ Found(q, t) # Null /\ Times(q, L, t, b)
                               /\ \A c : Times(q, L, t, c) => c = q.memory[Found(q, t)].body
  <2>1. CASE Found(q, t) = Null /\ \A i \in 1 .. Len(L) : q.memory[L[i]].key # t
    BY <2>1 DEF Times
  <2>2. CASE \E j \in 1 .. Len(L) : Found(q, t) = L[j] /\ q.memory[L[j]].key = t
    <3>1. PICK j \in 1 .. Len(L) : Found(q, t) = L[j] /\ q.memory[L[j]].key = t
      BY <2>2
    <3>2. Times(q, L, t, q.memory[L[j]].body) /\ q.memory[L[j]].body \in Nat /\ L[j] # Null
      BY <1>2, <3>1 DEF Times
    <3>3. ASSUME NEW c, Times(q, L, t, c) PROVE c = q.memory[L[j]].body
      BY <1>1, <3>1, <3>3 DEF Times, KeysOnce
    <3> QED
      BY <3>1, <3>2, <3>3
  <2> QED
    BY <1>1, <2>1, <2>2, FoundIs
<1>4. \A t \in Timers : Found(q, t) = Null <=> \A b \in Nat : ~Times(q, L, t, b)
  BY <1>3
<1>5. /\ DOMAIN Left(q, now) = {t \in Timers : Found(q, t) # Null}
      /\ \A t \in DOMAIN Left(q, now) : Left(q, now)[t] = q.memory[Found(q, t)].body - now
      /\ Left(q, now) = [t \in DOMAIN Left(q, now) |-> Left(q, now)[t]]
  BY DEF Left
<1>6. \A t \in Timers, b \in Nat : Times(q, L, t, b) => Left(q, now)[t] = b - now
  BY <1>3, <1>4, <1>5
<1>7. {t \in Timers : Found(q, t) # Null} = {t \in Timers : \E b \in Nat : Times(q, L, t, b)}
  BY <1>4
<1> QED
  BY <1>4, <1>5, <1>6, <1>7

LEMMA LengthFits ==
  ASSUME NEW N \in Nat, NEW L \in Seq(1 .. N), OnceEach(L)
  PROVE  Len(L) <= N
<1> DEFINE l == Len(L)
<1>1. l \in Nat /\ L \in [1 .. l -> 1 .. N] /\ \A i, j \in 1 .. l : L[i] = L[j] => i = j
  BY DEF OnceEach
<1> HIDE DEF l
<1>2. L \in Injection(1 .. l, 1 .. N)
  BY <1>1 DEF Injection, IsInjective
<1>3. IsFiniteSet(1 .. N) /\ Cardinality(1 .. N) = N /\ IsFiniteSet(1 .. l) /\ Cardinality(1 .. l) = l
  BY <1>1, FS_Interval
<1>4. Cardinality(1 .. l) <= Cardinality(1 .. N)
  BY <1>2, <1>3, FS_Injection
<1> QED
  BY <1>3, <1>4 DEF l

-----------------------------------------------------------------------------
(* The loop of timerUpdate.                                                *)

Turns == [list : Lists(Timers, Nat), at : Nat, rung : SUBSET Timers]

\* The loop is at the record j of those that are left: those before j are not
\* yet due, what is not in the list any more has rung, and m turns are enough.
LoopAt(q, L, s, m, M, D, j) ==
  /\ Timed(s.list, M, D)
  /\ j \in 1 .. Len(M) + 1
  /\ s.at = IF j = Len(M) + 1 THEN Null ELSE M[j]
  /\ Len(M) + 1 - j <= m
  /\ \A i \in 1 .. j - 1 : s.list.memory[M[i]].body > clock
  /\ \A t, b : Times(s.list, M, t, b) <=> t \notin s.rung /\ Times(q, L, t, b)
  /\ \A t \in s.rung : \E b \in Nat : b <= clock /\ Times(q, L, t, b)

Looping(q, L, s, m) ==
  s \in Turns /\ \E M, D : \E j \in Nat : LoopAt(q, L, s, m, M, D, j)

LEMMA OneTurn ==
  ASSUME clock \in Nat, NEW q, NEW L, NEW s, NEW m \in Nat, Looping(q, L, s, m + 1)
  PROVE  Looping(q, L, Turn(s), m)
<1>1. PICK M, D : \E j \in Nat : LoopAt(q, L, s, m + 1, M, D, j)
  BY DEF Looping
<1>2. PICK j \in Nat : LoopAt(q, L, s, m + 1, M, D, j)
  BY <1>1
<1> DEFINE l == Len(M)
           N == Len(s.list.memory)
<1>3. /\ s \in Turns /\ Timed(s.list, M, D)
      /\ j \in 1 .. l + 1
      /\ s.at = IF j = l + 1 THEN Null ELSE M[j]
      /\ l + 1 - j <= m + 1
      /\ \A i \in 1 .. j - 1 : s.list.memory[M[i]].body > clock
      /\ \A t, b : Times(s.list, M, t, b) <=> t \notin s.rung /\ Times(q, L, t, b)
      /\ \A t \in s.rung : \E b \in Nat : b <= clock /\ Times(q, L, t, b)
  BY <1>2 DEF LoopAt, Looping
<1>4. s.list \in Lists(Timers, Nat) /\ Chained(s.list, M, D)
  BY <1>3 DEF Timed
<1>5. /\ M \in Seq(1 .. N) /\ l \in Nat /\ N \in Nat
      /\ \A i \in 1 .. l : /\ M[i] \in 1 .. N /\ M[i] # Null
                           /\ s.list.memory[M[i]].key \in Timers /\ s.list.memory[M[i]].body \in Nat
  BY <1>4, RecordsIn
<1>6. \A i \in 1 .. l : s.list.memory[M[i]].next = IF i = l THEN Null ELSE M[i + 1]
  BY <1>4 DEF Chained, Linked
<1>7. s = [list |-> s.list, at |-> s.at, rung |-> s.rung] /\ s.rung \in SUBSET Timers
  BY <1>3 DEF Turns
<1> HIDE DEF l, N
<1>8. CASE s.at = Null
  <2>1. Turn(s) = s
    BY <1>8 DEF Turn
  <2>2. l + 1 - j <= m
    BY <1>3, <1>5, <1>8
  <2>3. LoopAt(q, L, s, m, M, D, j)
    BY <1>3, <2>2 DEF LoopAt, l
  <2> QED
    BY <1>3, <2>1, <2>3 DEF Looping
<1>9. CASE s.at # Null
  <2>1. j \in 1 .. l /\ s.at = M[j]
    BY <1>3, <1>5, <1>9
  <2> DEFINE r == s.list.memory[M[j]]
             w == Turn(s)
             at == IF j = l THEN Null ELSE M[j + 1]
  <2>2. r.key \in Timers /\ r.body \in Nat /\ r.next = at /\ at \in Nat
    <3>1. j # l => j + 1 \in 1 .. l
      BY <1>5, <2>1
    <3>2. at \in Nat
      BY <1>5, <3>1 DEF Null
    <3> QED
      BY <1>5, <1>6, <2>1, <3>2
  <2>3. Times(s.list, M, r.key, r.body)
    BY <2>1 DEF Times, l
  <2>4. CASE r.body <= clock
    <3> DEFINE p == Recycled(s.list, M[j])
               P == Without(M, j)
               E == <<M[j]>> \o D
    <3>1. w = [list |-> p, at |-> at, rung |-> s.rung \cup {r.key}]
      BY <1>9, <2>1, <2>2, <2>4 DEF Turn, Following
    <3>2. /\ Timed(p, P, E)
          /\ \A t, c : Times(p, P, t, c) <=> t # r.key /\ Times(s.list, M, t, c)
          /\ \A i \in 1 .. N : p.memory[i].body = s.list.memory[i].body
      BY <1>3, <2>1, RecycledTimed DEF l, N
    <3>3. Len(P) = l - 1 /\ \A i \in 1 .. l - 1 : P[i] = IF i < j THEN M[i] ELSE M[i + 1]
      BY <1>5, <2>1, WithoutIs DEF l
    <3> HIDE DEF p, P, E, w
    <3>4. w.list = p /\ w.at = at /\ w.rung = s.rung \cup {r.key}
      BY <3>1
    <3>5. w \in Turns
      BY <1>7, <2>2, <3>1, <3>2 DEF Turns, Timed
    <3>6. j \in 1 .. Len(P) + 1 /\ at = (IF j = Len(P) + 1 THEN Null ELSE P[j]) /\ Len(P) + 1 - j <= m
      <4>1. j # l => j \in 1 .. l - 1 /\ ~(j < j)
        BY <1>5, <2>1
      <4>2. j \in 1 .. l - 1 + 1 /\ l - 1 + 1 = l /\ l - j <= m
        BY <1>3, <1>5, <2>1
      <4> QED
        BY <3>3, <4>1, <4>2
    <3>7. \A i \in 1 .. j - 1 : p.memory[P[i]].body > clock
      <4> TAKE i \in 1 .. j - 1
      <4>1. i \in 1 .. l - 1 /\ i < j /\ i \in 1 .. l
        BY <1>5, <2>1
      <4> QED
        BY <1>3, <1>5, <3>2, <3>3, <4>1
    <3>8. \A t, b : Times(p, P, t, b) <=> t \notin w.rung /\ Times(q, L, t, b)
      BY <1>3, <3>2, <3>4
    <3>9. Times(q, L, r.key, r.body)
      BY <1>3, <2>3
    <3>10. \A t \in w.rung : \E b \in Nat : b <= clock /\ Times(q, L, t, b)
      BY <1>3, <2>2, <2>4, <3>4, <3>9
    <3>11. LoopAt(q, L, w, m, P, E, j)
      BY <3>2, <3>4, <3>6, <3>7, <3>8, <3>10 DEF LoopAt
    <3> QED
      BY <3>5, <3>11 DEF Looping, w
  <2>5. CASE ~(r.body <= clock)
    <3>1. w = [list |-> s.list, at |-> at, rung |-> s.rung]
      BY <1>7, <1>9, <2>1, <2>2, <2>5 DEF Turn
    <3> HIDE DEF w
    <3>2. w.list = s.list /\ w.at = at /\ w.rung = s.rung /\ w \in Turns
      BY <1>4, <1>7, <2>2, <3>1 DEF Turns
    <3>3. j + 1 \in 1 .. l + 1 /\ at = (IF j + 1 = l + 1 THEN Null ELSE M[j + 1]) /\ l + 1 - (j + 1) <= m
      <4>1. j + 1 \in 1 .. l + 1 /\ (j + 1 = l + 1 <=> j = l) /\ l + 1 - (j + 1) <= m
        BY <1>3, <1>5, <2>1
      <4> QED
        BY <4>1
    <3>4. \A i \in 1 .. j + 1 - 1 : s.list.memory[M[i]].body > clock
      <4>1. \A i \in 1 .. j + 1 - 1 : i = j \/ i \in 1 .. j - 1
        BY <1>5, <2>1
      <4>2. r.body > clock
        BY <2>2, <2>5
      <4> QED
        BY <1>3, <4>1, <4>2
    <3>5. LoopAt(q, L, w, m, M, D, j + 1)
      BY <1>3, <3>2, <3>3, <3>4 DEF LoopAt, l
    <3> QED
      BY <3>2, <3>5 DEF Looping, w
  <2> QED
    BY <2>4, <2>5
<1> QED
  BY <1>8, <1>9

LEMMA MoreTurns ==
  ASSUME NEW q, NEW L, NEW s, NEW m \in Nat, Looping(q, L, s, m)
  PROVE  Looping(q, L, s, m + 1)
<1>1. PICK M, D : \E j \in Nat : LoopAt(q, L, s, m, M, D, j)
  BY DEF Looping
<1>2. PICK j \in Nat : LoopAt(q, L, s, m, M, D, j)
  BY <1>1
<1>3. Len(M) + 1 - j <= m /\ Timed(s.list, M, D)
  BY <1>2 DEF LoopAt
<1>4. Len(M) \in Nat
  BY <1>3, RecordsIn DEF Timed
<1>5. Len(M) + 1 - j <= m + 1
  BY <1>3, <1>4
<1>6. LoopAt(q, L, s, m + 1, M, D, j)
  BY <1>2, <1>5 DEF LoopAt
<1> QED
  BY <1>6 DEF Looping

\* When timerUpdate returns, the timers that are due have rung and are not in
\* the list any more; the others are.
LEMMA LoopEnds ==
  ASSUME clock \in Nat, NEW q, NEW L, NEW C, Timed(q, L, C)
  PROVE  LET loop[n \in 0 .. Len(q.memory)] ==
               IF n = 0 THEN [list |-> q, at |-> q.head, rung |-> {}] ELSE Turn(loop[n - 1])
         IN Looping(q, L, loop[Len(q.memory)], 0)
<1> DEFINE N == Len(q.memory)
           s0 == [list |-> q, at |-> q.head, rung |-> {}]
           loop == CHOOSE f : f = [n \in 0 .. N |-> IF n = 0 THEN s0 ELSE Turn(f[n - 1])]
           V == {s \in Turns : Looping(q, L, s, N)}
           prev == [n \in 1 .. N |-> n - 1]
           step == [n \in 1 .. N |-> [s \in V |-> Turn(s)]]
<1>1. q \in Lists(Timers, Nat) /\ Chained(q, L, C)
  BY DEF Timed
<1>2. /\ L \in Seq(1 .. N) /\ Len(L) \in Nat /\ N \in Nat
      /\ \A i \in 1 .. Len(L) : L[i] \in 1 .. N /\ L[i] # Null
  BY <1>1, RecordsIn
<1>3. Len(L) <= N
  BY <1>1, <1>2, LengthFits DEF Chained, Shared
<1>4. Looping(q, L, s0, N)
  <2>1. s0 \in Turns
    BY <1>1 DEF Turns, Lists
  <2>2. 1 \in 1 .. Len(L) + 1 /\ Len(L) + 1 - 1 <= N /\ (1 .. 1 - 1) = {}
    BY <1>2, <1>3
  <2>3. q.head = IF 1 = Len(L) + 1 THEN Null ELSE L[1]
    BY <1>1, <1>2 DEF Chained, Linked
  <2>4. s0.list = q /\ s0.at = q.head /\ s0.rung = {}
    OBVIOUS
  <2> HIDE DEF s0, N
  <2>5. LoopAt(q, L, s0, N, L, C, 1)
    BY <2>2, <2>3, <2>4 DEF LoopAt
  <2> QED
    BY <2>1, <2>5 DEF Looping
<1> HIDE DEF N, s0
<1>5. \A s \in V : Turn(s) \in V
  <2> SUFFICES ASSUME NEW s \in V PROVE Turn(s) \in V
    OBVIOUS
  <2>1. Looping(q, L, s, N + 1)
    BY <1>2, MoreTurns
  <2>2. Looping(q, L, Turn(s), N)
    BY <1>2, <2>1, OneTurn
  <2> QED
    BY <2>2 DEF Looping
<1>6. s0 \in V
  BY <1>4 DEF Looping
<1> HIDE DEF V
<1>7. PICK f \in [0 .. N -> V] : f[0] = s0 /\ \A n \in 1 .. N : f[n] = Turn(f[n - 1])
  <2>1. /\ prev \in [1 .. N -> 0 .. N] /\ \A n \in 1 .. N : prev[n] = n - 1
    BY <1>2
  <2>2. step \in [1 .. N -> [V -> V]] /\ \A n \in 1 .. N, s \in V : step[n][s] = Turn(s)
    BY <1>5
  <2> HIDE DEF prev, step
  <2>3. Ranked(N, prev)
    <3> DEFINE rank == [n \in 0 .. N |-> n]
    <3>1. rank \in [0 .. N -> 0 .. N] /\ \A n \in 1 .. N : rank[prev[n]] < rank[n]
      BY <1>2, <2>1
    <3> HIDE DEF rank
    <3> QED
      BY <1>2, <3>1 DEF Ranked
  <2>4. Walks(N, prev, V)
    BY <1>2, <2>1, <2>3, WalkExists
  <2>5. PICK f \in [0 .. N -> V] : f[0] = s0 /\ \A n \in 1 .. N : f[n] = step[n][f[prev[n]]]
    BY <1>6, <2>2, <2>4 DEF Walks
  <2>6. \A n \in 1 .. N : f[n] = Turn(f[n - 1])
    <3> TAKE n \in 1 .. N
    <3>1. n - 1 \in 0 .. N
      BY <1>2
    <3>2. f[n - 1] \in V
      BY <3>1
    <3> QED
      BY <2>1, <2>2, <2>5, <3>2
  <2> QED
    BY <2>5, <2>6
<1>8. loop = [n \in 0 .. N |-> IF n = 0 THEN s0 ELSE Turn(loop[n - 1])]
  <2>1. \A n \in 0 .. N : f[n] = IF n = 0 THEN s0 ELSE Turn(f[n - 1])
    <3>1. \A n \in 0 .. N : n = 0 \/ n \in 1 .. N
      BY <1>2
    <3> QED
      BY <1>2, <1>7, <3>1
  <2>2. f = [n \in 0 .. N |-> IF n = 0 THEN s0 ELSE Turn(f[n - 1])]
    <3>1. f = [n \in 0 .. N |-> f[n]]
      BY <1>7
    <3> QED
      BY <2>1, <3>1, Zenon
  <2> QED
    BY <2>2, Zenon
<1> HIDE DEF loop
<1>9. loop[0] = s0 /\ \A n \in 1 .. N : loop[n] = Turn(loop[n - 1])
  <2>1. 0 \in 0 .. N /\ \A n \in 1 .. N : n \in 0 .. N /\ n # 0
    BY <1>2
  <2> QED
    BY <1>8, <2>1
<1> DEFINE Late == {n \in 0 .. N : ~Looping(q, L, loop[n], N - n)}
<1>10. Late = {}
  <2> SUFFICES ASSUME Late # {} PROVE FALSE
    OBVIOUS
  <2>1. Late \in SUBSET Nat
    BY <1>2
  <2>2. PICK n \in Late : \A k \in Late : n <= k
    <3> HIDE DEF Late
    <3> QED
      BY <2>1, LeastOfSet
  <2>3. n # 0
    BY <1>2, <1>4, <1>9
  <2>4. n - 1 \in 0 .. N /\ n \in 1 .. N /\ ~(n <= n - 1) /\ N - (n - 1) = N - n + 1 /\ N - n \in Nat
    BY <1>2, <2>2, <2>3
  <2>5. Looping(q, L, loop[n - 1], N - n + 1)
    BY <2>2, <2>4
  <2>6. Looping(q, L, Turn(loop[n - 1]), N - n)
    BY <2>4, <2>5, OneTurn
  <2>7. Looping(q, L, loop[n], N - n)
    BY <1>9, <2>4, <2>6
  <2> QED
    BY <2>2, <2>7
<1>11. Looping(q, L, loop[N], 0)
  <2>1. N \in 0 .. N /\ N - N = 0
    BY <1>2
  <2> QED
    BY <1>10, <2>1
<1> QED
  BY <1>11, Zenon DEF loop, N, s0

-----------------------------------------------------------------------------
\* Type correctness of the timers, and the invariant: the list is linked, and
\* has one record for each timer that runs.
TimerTypeOK == clock \in 0 .. MaxTime /\ rung \in SUBSET Timers

TimerInv == TimerTypeOK /\ \E L, C : Timed(timerList, L, C)

\* From q to p the timers S are gone, or the timer k has got the time d.
Gone(q, L, p, M, S) ==
  \A t, b : Times(p, M, t, b) <=> t \notin S /\ Times(q, L, t, b)

Renewed(q, L, p, M, k, d) ==
  \A t, b : Times(p, M, t, b) <=> IF t = k THEN b = d ELSE Times(q, L, t, b)

Removed(f, S) == [t \in DOMAIN f \ S |-> f[t]]
Updated(f, k, v) == [t \in DOMAIN f \cup {k} |-> IF t = k THEN v ELSE f[t]]

\* What a step does to the times of the timers, it does to the time left.
LEMMA LeftWithout ==
  ASSUME NEW q, NEW L, NEW C, NEW p, NEW M, NEW D, NEW now, NEW S,
         Timed(q, L, C), Timed(p, M, D), Gone(q, L, p, M, S)
  PROVE  Left(p, now) = Removed(Left(q, now), S)
<1>1. /\ DOMAIN Left(q, now) = {t \in Timers : \E b \in Nat : Times(q, L, t, b)}
      /\ \A t \in Timers, b \in Nat : Times(q, L, t, b) => Left(q, now)[t] = b - now
  BY LeftIs
<1>2. /\ DOMAIN Left(p, now) = {t \in Timers : \E b \in Nat : Times(p, M, t, b)}
      /\ \A t \in Timers, b \in Nat : Times(p, M, t, b) => Left(p, now)[t] = b - now
      /\ Left(p, now) = [t \in DOMAIN Left(p, now) |-> Left(p, now)[t]]
  BY LeftIs
<1>3. DOMAIN Left(p, now) = DOMAIN Left(q, now) \ S
  BY <1>1, <1>2 DEF Gone
<1>4. \A t \in DOMAIN Left(p, now) : Left(p, now)[t] = Left(q, now)[t]
  <2> TAKE t \in DOMAIN Left(p, now)
  <2>1. t \in Timers /\ \E b \in Nat : Times(p, M, t, b)
    BY <1>2
  <2> QED
    BY <1>1, <1>2, <2>1 DEF Gone
<1> QED
  BY <1>2, <1>3, <1>4 DEF Removed

LEMMA LeftWith ==
  ASSUME NEW q, NEW L, NEW C, NEW p, NEW M, NEW D, NEW now, NEW k \in Timers, NEW d \in Nat,
         Timed(q, L, C), Timed(p, M, D), Renewed(q, L, p, M, k, d)
  PROVE  Left(p, now) = Updated(Left(q, now), k, d - now)
<1>1. /\ DOMAIN Left(q, now) = {t \in Timers : \E b \in Nat : Times(q, L, t, b)}
      /\ \A t \in Timers, b \in Nat : Times(q, L, t, b) => Left(q, now)[t] = b - now
  BY LeftIs
<1>2. /\ DOMAIN Left(p, now) = {t \in Timers : \E b \in Nat : Times(p, M, t, b)}
      /\ \A t \in Timers, b \in Nat : Times(p, M, t, b) => Left(p, now)[t] = b - now
      /\ Left(p, now) = [t \in DOMAIN Left(p, now) |-> Left(p, now)[t]]
  BY LeftIs
<1>3. DOMAIN Left(p, now) = DOMAIN Left(q, now) \cup {k}
  BY <1>1, <1>2 DEF Renewed
<1>4. \A t \in DOMAIN Left(p, now) : Left(p, now)[t] = IF t = k THEN d - now ELSE Left(q, now)[t]
  <2> TAKE t \in DOMAIN Left(p, now)
  <2>1. t \in Timers /\ \E b \in Nat : Times(p, M, t, b)
    BY <1>2
  <2> QED
    BY <1>1, <1>2, <2>1 DEF Renewed
<1> QED
  BY <1>2, <1>3, <1>4 DEF Updated

LEMMA LeftLater ==
  ASSUME NEW q, NEW L, NEW C, Timed(q, L, C), NEW now \in Nat, NEW later \in Nat
  PROVE  Left(q, later) = [t \in DOMAIN Left(q, now) |-> Left(q, now)[t] - (later - now)]
<1>1. /\ DOMAIN Left(q, now) = {t \in Timers : \E b \in Nat : Times(q, L, t, b)}
      /\ \A t \in Timers, b \in Nat : Times(q, L, t, b) => Left(q, now)[t] = b - now
  BY LeftIs
<1>2. /\ DOMAIN Left(q, later) = {t \in Timers : \E b \in Nat : Times(q, L, t, b)}
      /\ \A t \in Timers, b \in Nat : Times(q, L, t, b) => Left(q, later)[t] = b - later
      /\ Left(q, later) = [t \in DOMAIN Left(q, later) |-> Left(q, later)[t]]
  BY LeftIs
<1>3. \A t \in DOMAIN Left(q, later) : Left(q, later)[t] = Left(q, now)[t] - (later - now)
  <2> TAKE t \in DOMAIN Left(q, later)
  <2>1. PICK b \in Nat : Times(q, L, t, b) /\ t \in Timers
    BY <1>2
  <2>2. Left(q, later)[t] = b - later /\ Left(q, now)[t] = b - now
    BY <1>1, <1>2, <2>1
  <2> QED
    BY <2>1, <2>2
<1> QED
  BY <1>1, <1>2, <1>3

LEMMA TimerStarts ==
  ASSUME TimerInv, NEW timer \in Timers, NEW delay \in Delays, AddTimer(timer, delay)
  PROVE  TimerInv' /\ Alarms!Start(timer, delay)
<1>1. PICK L, C : Timed(timerList, L, C)
  BY DEF TimerInv
<1> DEFINE n == Found(timerList, timer)
           b == delay + clock
<1>2. clock \in Nat /\ delay \in Nat /\ b \in Nat /\ b - clock = delay
  BY TimersAssumption DEF TimerInv, TimerTypeOK
<1>3. clock' = clock /\ rung' = {} /\ call' = <<"start", timer, delay>>
  BY DEF AddTimer
<1>4. timerList \in Lists(Timers, Nat) /\ Chained(timerList, L, C) /\ KeysOnce(timerList, L)
  BY <1>1 DEF Timed
<1> HIDE DEF b
<1>5. \E M, D : /\ Timed(timerList', M, D)
                /\ \A t, c : Times(timerList', M, t, c) <=> IF t = timer THEN c = b ELSE Times(timerList, L, t, c)
  <2>1. CASE n = Null /\ \A i \in 1 .. Len(L) : timerList.memory[L[i]].key # timer
    <3>1. timerList' = Appended(timerList, timer, b)
      BY <2>1 DEF AddTimer, b
    <3>2. \A c : ~Times(timerList, L, timer, c)
      BY <2>1 DEF Times
    <3>3. /\ Timed(timerList', Append(L, Acquired(timerList)), Rest(C))
          /\ \A t, c : Times(timerList', Append(L, Acquired(timerList)), t, c)
                         <=> (t = timer /\ c = b) \/ Times(timerList, L, t, c)
      BY <1>1, <1>2, <2>1, <3>1, AppendedTimed
    <3> QED
      BY <3>2, <3>3
  <2>2. CASE \E j \in 1 .. Len(L) : n = L[j] /\ timerList.memory[L[j]].key = timer
    <3>1. PICK j \in 1 .. Len(L) : n = L[j] /\ timerList.memory[L[j]].key = timer
      BY <2>2
    <3>2. n # Null
      BY <1>4, <3>1, RecordsIn
    <3>3. timerList' = Rewritten(timerList, L[j], b)
      BY <3>1, <3>2 DEF AddTimer, Rewritten, b
    <3> QED
      BY <1>1, <1>2, <3>1, <3>3, RewrittenTimed
  <2> QED
    BY <1>4, <2>1, <2>2, FoundIs
<1>6. PICK M, D : /\ Timed(timerList', M, D)
                  /\ \A t, c : Times(timerList', M, t, c) <=> IF t = timer THEN c = b ELSE Times(timerList, L, t, c)
  BY <1>5
<1>7. Left(timerList', clock) = Updated(Left(timerList, clock), timer, b - clock)
  <2>1. Renewed(timerList, L, timerList', M, timer, b)
    BY <1>6 DEF Renewed
  <2> QED
    BY <1>1, <1>2, <1>6, <2>1, LeftWith
<1>8. Alarms!Start(timer, delay)
  BY <1>2, <1>3, <1>7 DEF Alarms!Start, Alarms!Running, Updated
<1>9. TimerInv'
  BY <1>3, <1>6 DEF TimerInv, TimerTypeOK
<1> QED
  BY <1>8, <1>9

LEMMA TimerStops ==
  ASSUME TimerInv, NEW timer \in Timers, StopTimerEx(timer)
  PROVE  TimerInv' /\ Alarms!Stop(timer)
<1>1. PICK L, C : Timed(timerList, L, C)
  BY DEF TimerInv
<1> DEFINE n == Found(timerList, timer)
<1>2. clock' = clock /\ rung' = {} /\ call' = <<"stop", timer>>
  BY DEF StopTimerEx
<1>3. timerList \in Lists(Timers, Nat) /\ Chained(timerList, L, C) /\ KeysOnce(timerList, L)
  BY <1>1 DEF Timed
<1>4. \E M, D : /\ Timed(timerList', M, D)
                /\ \A t, c : Times(timerList', M, t, c) <=> t \notin {timer} /\ Times(timerList, L, t, c)
  <2>1. CASE n = Null /\ \A i \in 1 .. Len(L) : timerList.memory[L[i]].key # timer
    <3>1. timerList' = timerList
      BY <2>1 DEF StopTimerEx
    <3>2. \A c : ~Times(timerList, L, timer, c)
      BY <2>1 DEF Times
    <3> QED
      BY <1>1, <3>1, <3>2
  <2>2. CASE \E j \in 1 .. Len(L) : n = L[j] /\ timerList.memory[L[j]].key = timer
    <3>1. PICK j \in 1 .. Len(L) : n = L[j] /\ timerList.memory[L[j]].key = timer
      BY <2>2
    <3>2. n # Null
      BY <1>3, <3>1, RecordsIn
    <3> DEFINE p == Rewritten(timerList, L[j], 0)
    <3>3. timerList' = Recycled(p, L[j])
      BY <3>1, <3>2 DEF StopTimerEx, Rewritten
    <3>4. Timed(p, L, C)
          /\ \A k, c : Times(p, L, k, c) <=> IF k = timer THEN c = 0 ELSE Times(timerList, L, k, c)
      BY <1>1, <3>1, RewrittenTimed
    <3>5. p.memory[L[j]].key = timer
      <4>1. L[j] \in 1 .. Len(timerList.memory)
        BY <1>3, RecordsIn
      <4>2. p.memory[L[j]].key = timerList.memory[L[j]].key
        BY <1>3, <4>1, RewrittenChained
      <4> QED
        BY <3>1, <4>2
    <3> HIDE DEF p
    <3>6. /\ Timed(timerList', Without(L, j), <<L[j]>> \o C)
          /\ \A t, c : Times(timerList', Without(L, j), t, c) <=> t # timer /\ Times(p, L, t, c)
      BY <3>3, <3>4, <3>5, RecycledTimed
    <3> QED
      BY <3>4, <3>6
  <2> QED
    BY <1>3, <2>1, <2>2, FoundIs
<1>5. PICK M, D : /\ Timed(timerList', M, D)
                  /\ \A t, c : Times(timerList', M, t, c) <=> t \notin {timer} /\ Times(timerList, L, t, c)
  BY <1>4
<1>6. Left(timerList', clock) = Removed(Left(timerList, clock), {timer})
  <2>1. Gone(timerList, L, timerList', M, {timer})
    BY <1>5 DEF Gone
  <2> QED
    BY <1>1, <1>5, <2>1, LeftWithout
<1>7. Alarms!Stop(timer)
  BY <1>2, <1>6 DEF Alarms!Stop, Alarms!Running, Removed
<1>8. TimerInv'
  BY <1>2, <1>5 DEF TimerInv, TimerTypeOK
<1> QED
  BY <1>7, <1>8

LEMMA TimersRing ==
  ASSUME TimerInv, TimerUpdate
  PROVE  TimerInv' /\ Alarms!Look
<1>1. PICK L, C : Timed(timerList, L, C)
  BY DEF TimerInv
<1>2. clock \in Nat
  BY TimersAssumption DEF TimerInv, TimerTypeOK
<1>3. PICK end : Looping(timerList, L, end, 0) /\ timerList' = end.list /\ rung' = end.rung
  <2> DEFINE loop == CHOOSE f : f = [n \in 0 .. Len(timerList.memory) |->
                       IF n = 0 THEN [list |-> timerList, at |-> timerList.head, rung |-> {}]
                       ELSE Turn(f[n - 1])]
             end == loop[Len(timerList.memory)]
  <2>1. Looping(timerList, L, end, 0)
    BY <1>1, <1>2, LoopEnds
  <2>2. timerList' = end.list /\ rung' = end.rung
    BY Zenon DEF TimerUpdate
  <2> QED
    BY <2>1, <2>2
<1>4. clock' = clock /\ call' = <<"look">>
  BY DEF TimerUpdate
<1>5. PICK M, D : \E j \in Nat : LoopAt(timerList, L, end, 0, M, D, j)
  BY <1>3 DEF Looping
<1>6. PICK j \in Nat : LoopAt(timerList, L, end, 0, M, D, j)
  BY <1>5
<1>7. /\ Timed(timerList', M, D) /\ j \in 1 .. Len(M) + 1 /\ Len(M) + 1 - j <= 0
      /\ \A i \in 1 .. j - 1 : timerList'.memory[M[i]].body > clock
      /\ \A t, b : Times(timerList', M, t, b) <=> t \notin rung' /\ Times(timerList, L, t, b)
      /\ \A t \in rung' : \E b \in Nat : b <= clock /\ Times(timerList, L, t, b)
      /\ rung' \in SUBSET Timers
  BY <1>3, <1>6 DEF LoopAt, Looping, Turns
<1>8. Len(M) \in Nat
  BY <1>7, RecordsIn DEF Timed
<1>9. \A t, b : Times(timerList', M, t, b) => b > clock
  <2>1. \A i \in 1 .. Len(M) : i \in 1 .. j - 1
    BY <1>7, <1>8
  <2> QED
    BY <1>7, <2>1 DEF Times
<1>10. /\ DOMAIN Left(timerList, clock) = {t \in Timers : \E b \in Nat : Times(timerList, L, t, b)}
       /\ \A t \in Timers, b \in Nat : Times(timerList, L, t, b) => Left(timerList, clock)[t] = b - clock
  BY <1>1, LeftIs
<1>11. rung' = {t \in DOMAIN Left(timerList, clock) : Left(timerList, clock)[t] <= 0}
  <2>1. ASSUME NEW t \in rung' PROVE t \in DOMAIN Left(timerList, clock) /\ Left(timerList, clock)[t] <= 0
    <3>1. PICK b \in Nat : b <= clock /\ Times(timerList, L, t, b)
      BY <1>7
    <3>2. t \in Timers /\ Left(timerList, clock)[t] = b - clock
      BY <1>7, <1>10, <3>1
    <3> QED
      BY <1>2, <1>10, <3>1, <3>2
  <2>2. ASSUME NEW t \in DOMAIN Left(timerList, clock), Left(timerList, clock)[t] <= 0 PROVE t \in rung'
    <3>1. PICK b \in Nat : t \in Timers /\ Times(timerList, L, t, b)
      BY <1>10
    <3>2. Left(timerList, clock)[t] = b - clock
      BY <1>10, <3>1
    <3>3. ~(b > clock)
      BY <1>2, <2>2, <3>1, <3>2
    <3> QED
      BY <1>7, <1>9, <3>1, <3>3
  <2> QED
    BY <2>1, <2>2
<1>12. \A t \in DOMAIN Left(timerList, clock) : Left(timerList, clock)[t] \in Int
  <2> TAKE t \in DOMAIN Left(timerList, clock)
  <2>1. PICK b \in Nat : t \in Timers /\ Times(timerList, L, t, b)
    BY <1>10
  <2> QED
    BY <1>2, <1>10, <2>1
<1>13. Left(timerList', clock) = Removed(Left(timerList, clock), rung')
  <2>1. Gone(timerList, L, timerList', M, rung')
    BY <1>7 DEF Gone
  <2> QED
    BY <1>1, <1>7, <2>1, LeftWithout
<1>14. DOMAIN Left(timerList, clock) \ rung' = {t \in DOMAIN Left(timerList, clock) : Left(timerList, clock)[t] > 0}
  BY <1>11, <1>12
<1>15. Alarms!Look
  BY <1>4, <1>11, <1>13, <1>14 DEF Alarms!Look, Alarms!Running, Removed
<1>16. TimerInv'
  BY <1>4, <1>7 DEF TimerInv, TimerTypeOK
<1> QED
  BY <1>15, <1>16

LEMMA TimePasses ==
  ASSUME TimerInv, Tick \/ SetClock
  PROVE  TimerInv' /\ \E by \in {s - c : s \in 0 .. MaxTime, c \in 0 .. MaxTime} : Alarms!Shift(by)
<1>1. PICK L, C : Timed(timerList, L, C)
  BY DEF TimerInv
<1>2. /\ clock \in 0 .. MaxTime /\ clock' \in 0 .. MaxTime
      /\ rung' = {} /\ call' = <<"time">> /\ timerList' = timerList
  <2>1. clock \in 0 .. MaxTime
    BY DEF TimerInv, TimerTypeOK
  <2>2. rung' = {} /\ call' = <<"time">> /\ timerList' = timerList
    BY DEF Tick, SetClock
  <2>3. clock' \in 0 .. MaxTime
    <3>1. CASE Tick
      <4>1. clock < MaxTime /\ clock' = clock + 1 /\ MaxTime \in Nat
        BY <3>1, TimersAssumption DEF Tick
      <4> QED
        BY <2>1, <4>1
    <3>2. CASE SetClock
      BY <3>2, TimersAssumption DEF SetClock
    <3> QED
      BY <3>1, <3>2
  <2> QED
    BY <2>1, <2>2, <2>3
<1>3. Left(timerList, clock') = [t \in DOMAIN Left(timerList, clock) |-> Left(timerList, clock)[t] - (clock' - clock)]
  BY <1>1, <1>2, TimersAssumption, LeftLater
<1>4. Alarms!Shift(clock' - clock)
  BY <1>2, <1>3 DEF Alarms!Shift, Alarms!Running
<1>5. TimerInv'
  BY <1>1, <1>2 DEF TimerInv, TimerTypeOK
<1> QED
  BY <1>2, <1>4, <1>5

LEMMA TimerStep ==
  ASSUME TimerInv, [TimerNext]_timerVars
  PROVE  TimerInv' /\ [Alarms!Next]_(Alarms!vars)
<1>1. CASE UNCHANGED timerVars
  BY <1>1 DEF timerVars, TimerInv, TimerTypeOK, Alarms!vars
<1>2. ASSUME NEW timer \in Timers, StopTimerEx(timer) PROVE TimerInv' /\ Alarms!Next
  BY <1>2, TimerStops DEF Alarms!Next
<1>3. ASSUME NEW timer \in Timers, NEW delay \in Delays, AddTimer(timer, delay) PROVE TimerInv' /\ Alarms!Next
  BY <1>3, TimerStarts DEF Alarms!Next
<1>4. CASE TimerUpdate
  BY <1>4, TimersRing DEF Alarms!Next
<1>5. CASE Tick \/ SetClock
  BY <1>5, TimePasses DEF Alarms!Next
<1> QED
  BY <1>1, <1>2, <1>3, <1>4, <1>5 DEF TimerNext

LEMMA TimersBegin == TimerInit => TimerInv /\ Alarms!Init
<1> SUFFICES ASSUME TimerInit PROVE TimerInv /\ Alarms!Init
  OBVIOUS
<1>1. EmptyList \in Lists(Timers, Nat) /\ Chained(EmptyList, << >>, << >>)
  BY EmptyChained
<1>2. Timed(timerList, << >>, << >>)
  BY <1>1 DEF Timed, KeysOnce, TimerInit
<1>3. \A t, b : ~Times(timerList, << >>, t, b)
  BY DEF Times
<1>4. DOMAIN Left(timerList, clock) = {} /\ Left(timerList, clock) = [t \in DOMAIN Left(timerList, clock) |-> Left(timerList, clock)[t]]
  BY <1>2, <1>3, LeftIs
<1>5. Left(timerList, clock) = [t \in {} |-> 0]
  BY <1>4
<1> QED
  BY <1>2, <1>5, TimersAssumption DEF TimerInit, TimerInv, TimerTypeOK, Alarms!Init

(* Through its links, its cache and the loop that takes records out of the *)
(* list it walks, the timer list is a set of alarms: each rings at the     *)
(* first timerUpdate after its time, once, whatever was started, stopped   *)
(* or rung in between, and setting the clock shifts all that run alike.    *)
THEOREM TimerImplementsAlarms == TimerSpec => ImplementsAlarms
BY TimersBegin, TimerStep, PTL DEF TimerSpec, ImplementsAlarms, Alarms!Spec

-----------------------------------------------------------------------------
(* The cutting of a camera's stream: what the operators on bytes return.   *)

LEMMA LeastIsMin ==
  ASSUME NEW S \in SUBSET Nat, S # {}
  PROVE  Min(S) \in S /\ \A y \in S : Min(S) <= y
<1>1. \E x \in S : \A y \in S : x =< y
  BY LeastOfSet
<1> QED
  BY <1>1, Zenon DEF Min

LEMMA FirstIs ==
  ASSUME NEW S, NEW d \in Seq(S), NEW n \in 0 .. Len(d)
  PROVE  /\ SubSeq(d, 1, n) \in Seq(S) /\ Len(SubSeq(d, 1, n)) = n
         /\ \A i \in 1 .. n : SubSeq(d, 1, n)[i] = d[i]
<1> DEFINE a == SubSeq(d, 1, n)
<1>1. 1 \in Int /\ n \in Int /\ n \in Nat /\ Len(d) \in Nat
  OBVIOUS
<1>2. \A i \in 1 .. n : d[i] \in S
  <2>1. \A i \in 1 .. n : i \in 1 .. Len(d)
    BY <1>1
  <2> QED
    BY <2>1
<1>3. /\ a \in Seq(S) /\ Len(a) = (IF 1 <= n THEN n - 1 + 1 ELSE 0)
      /\ \A i \in 1 .. n - 1 + 1 : a[i] = d[1 + i - 1]
  BY <1>1, <1>2, SubSeqProperties
<1> HIDE DEF a
<1>4. Len(a) = n
  BY <1>1, <1>3
<1>5. \A i \in 1 .. n : a[i] = d[i]
  <2> TAKE i \in 1 .. n
  <2>1. i \in 1 .. n - 1 + 1 /\ 1 + i - 1 = i
    BY <1>1
  <2> QED
    BY <1>3, <2>1
<1> QED
  BY <1>3, <1>4, <1>5 DEF a

LEMMA PrefixIs ==
  ASSUME NEW S, NEW s \in Seq(S), NEW t \in Seq(S)
  PROVE  IsPrefix(s, t) <=> Len(s) <= Len(t) /\ \A i \in 1 .. Len(s) : s[i] = t[i]
<1>1. Len(s) \in Nat /\ Len(t) \in Nat
  OBVIOUS
<1>2. ASSUME Len(s) <= Len(t)
      PROVE  SubSeq(s, 1, Len(s)) = SubSeq(t, 1, Len(s)) <=> \A i \in 1 .. Len(s) : s[i] = t[i]
  <2> DEFINE a == SubSeq(s, 1, Len(s))
             b == SubSeq(t, 1, Len(s))
             l == Len(s)
  <2>1. l \in 0 .. Len(s) /\ l \in 0 .. Len(t)
    BY <1>1, <1>2
  <2>2. a \in Seq(S) /\ Len(a) = l /\ \A i \in 1 .. l : a[i] = s[i]
    BY <2>1, FirstIs
  <2>3. b \in Seq(S) /\ Len(b) = l /\ \A i \in 1 .. l : b[i] = t[i]
    BY <2>1, FirstIs
  <2> HIDE DEF a, b, l
  <2>4. (\A i \in 1 .. l : s[i] = t[i]) => a = b
    <3> SUFFICES ASSUME \A i \in 1 .. l : s[i] = t[i] PROVE a = b
      OBVIOUS
    <3>1. \A i \in 1 .. l : a[i] = b[i]
      BY <2>2, <2>3
    <3> QED
      BY <2>2, <2>3, <3>1, SeqEqual
  <2>5. a = b => \A i \in 1 .. l : s[i] = t[i]
    BY <2>2, <2>3
  <2> QED
    BY <2>4, <2>5 DEF a, b, l
<1> QED
  BY <1>2 DEF IsPrefix

\* text begins at the i-th byte of data.
BeginsAt(data, text, i) ==
  i \in 1 .. Len(data) - Len(text) + 1 /\ \A k \in 1 .. Len(text) : data[i + k - 1] = text[k]

LEMMA OccursAt ==
  ASSUME NEW d \in Seq(Nat), NEW x \in Seq(Nat), NEW i \in 1 .. Len(d) - Len(x) + 1
  PROVE  SubSeq(d, i, i + Len(x) - 1) = x <=> \A k \in 1 .. Len(x) : d[i + k - 1] = x[k]
<1> DEFINE l == Len(x)
           e == i + l - 1
           a == SubSeq(d, i, e)
<1>1. l \in Nat /\ Len(d) \in Nat /\ i \in Nat /\ e \in Int /\ i \in Int /\ e - i + 1 = l /\ (i <= e <=> 1 <= l)
  OBVIOUS
<1>2. \A k \in i .. e : d[k] \in Nat
  <2>1. \A k \in i .. e : k \in 1 .. Len(d)
    BY <1>1
  <2> QED
    BY <2>1
<1> HIDE DEF e, l
<1>3. /\ a \in Seq(Nat) /\ Len(a) = (IF i <= e THEN e - i + 1 ELSE 0)
      /\ \A k \in 1 .. e - i + 1 : a[k] = d[i + k - 1]
  BY <1>1, <1>2, SubSeqProperties
<1> HIDE DEF a
<1>4. Len(a) = l /\ \A k \in 1 .. l : a[k] = d[i + k - 1]
  BY <1>1, <1>3
<1>5. (\A k \in 1 .. l : a[k] = x[k]) => a = x
  <2> SUFFICES ASSUME \A k \in 1 .. l : a[k] = x[k] PROVE a = x
    OBVIOUS
  <2> QED
    BY <1>3, <1>4, SeqEqual DEF l
<1>6. a = x <=> \A k \in 1 .. l : d[i + k - 1] = x[k]
  BY <1>4, <1>5
<1> QED
  BY <1>6 DEF a, e, l

LEMMA PlaceIs ==
  ASSUME NEW d \in Seq(Nat), NEW x \in Seq(Nat)
  PROVE  /\ Place(d, x) \in Nat
         /\ Place(d, x) = 0 => \A i \in Nat : ~BeginsAt(d, x, i)
         /\ Place(d, x) # 0 => BeginsAt(d, x, Place(d, x)) /\ \A i \in Nat : BeginsAt(d, x, i) => Place(d, x) <= i
<1> DEFINE S == {i \in 1 .. Len(d) - Len(x) + 1 : SubSeq(d, i, i + Len(x) - 1) = x}
<1>1. \A i : i \in S <=> BeginsAt(d, x, i)
  BY OccursAt DEF BeginsAt
<1>2. S \in SUBSET Nat /\ 0 \notin S
  OBVIOUS
<1>3. Place(d, x) = IF S = {} THEN 0 ELSE Min(S)
  BY DEF Place
<1> HIDE DEF S
<1>4. CASE S = {}
  BY <1>1, <1>3, <1>4
<1>5. CASE S # {}
  <2>1. Min(S) \in S /\ \A y \in S : Min(S) <= y
    BY <1>2, <1>5, LeastIsMin
  <2> QED
    BY <1>1, <1>2, <1>3, <1>5, <2>1
<1> QED
  BY <1>4, <1>5

\* The lengths the head of an answer says its body has.
Lengths(data, end) == {data[i] - 1000 : i \in {j \in 1 .. end : data[j] > 1000}}

LEMMA TextIs ==
  ASSUME NEW d \in Seq(Nat)
  PROVE  TextVerdict(d) =
           LET end == Place(d, <<EndOfHead>>)
           IN IF end = 0 THEN Verdict("MIN", 0)
              ELSE Verdict("TXT", end + (IF Lengths(d, end) = {} THEN 0 ELSE Min(Lengths(d, end))))
BY DEF TextVerdict, Lengths

LEMMA LengthsAre ==
  ASSUME NEW d \in Seq(Nat), NEW end \in 0 .. Len(d)
  PROVE  Lengths(d, end) \in SUBSET Nat
<1>1. \A i \in 1 .. end : d[i] \in Nat
  OBVIOUS
<1>2. ASSUME NEW i \in 1 .. end, d[i] > 1000 PROVE d[i] - 1000 \in Nat
  BY <1>1, <1>2
<1> QED
  BY <1>2 DEF Lengths

LEMMA EndIs ==
  ASSUME NEW d \in Seq(Nat)
  PROVE  /\ Place(d, <<EndOfHead>>) \in 0 .. Len(d)
         /\ Place(d, <<EndOfHead>>) = 0 => \A i \in 1 .. Len(d) : d[i] # EndOfHead
         /\ Place(d, <<EndOfHead>>) # 0 =>
              /\ d[Place(d, <<EndOfHead>>)] = EndOfHead
              /\ \A i \in 1 .. Len(d) : d[i] = EndOfHead => Place(d, <<EndOfHead>>) <= i
<1> DEFINE x == <<EndOfHead>>
           p == Place(d, x)
<1>1. x \in Seq(Nat) /\ Len(x) = 1 /\ x[1] = EndOfHead
  BY DEF EndOfHead
<1>2. /\ p \in Nat
      /\ p = 0 => \A i \in Nat : ~BeginsAt(d, x, i)
      /\ p # 0 => BeginsAt(d, x, p) /\ \A i \in Nat : BeginsAt(d, x, i) => p <= i
  BY <1>1, PlaceIs
<1> HIDE DEF x, p
<1>3. \A i \in Nat : BeginsAt(d, x, i) <=> i \in 1 .. Len(d) /\ d[i] = EndOfHead
  <2> TAKE i \in Nat
  <2>1. Len(d) \in Nat /\ Len(d) - Len(x) + 1 = Len(d) /\ 1 .. Len(x) = {1} /\ i + 1 - 1 = i
    BY <1>1
  <2> QED
    BY <1>1, <2>1 DEF BeginsAt
<1>4. Len(d) \in Nat /\ \A i \in 1 .. Len(d) : i \in Nat
  OBVIOUS
<1>5. p \in 0 .. Len(d)
  BY <1>2, <1>3, <1>4
<1> QED
  BY <1>2, <1>3, <1>4, <1>5 DEF p, x

LEMMA RtspIs ==
  ASSUME NEW d \in Seq(Nat)
  PROVE  IsPrefix(RTSP, d) <=> Len(d) >= 4 /\ \A i \in 1 .. 4 : d[i] = RTSP[i]
<1>1. RTSP \in Seq(Nat) /\ Len(RTSP) = 4 /\ Len(d) \in Nat
  BY DEF RTSP
<1>2. IsPrefix(RTSP, d) <=> Len(RTSP) <= Len(d) /\ \A i \in 1 .. Len(RTSP) : RTSP[i] = d[i]
  BY <1>1, PrefixIs
<1> QED
  BY <1>1, <1>2

LEMMA RtpIs ==
  ASSUME NEW m \in Seq(Nat), IsRtp(m)
  PROVE  m[1] = Dollar /\ m[2] = 0
<1> DEFINE x == <<Dollar, 0>>
<1>1. x \in Seq(Nat) /\ Len(x) = 2 /\ x[1] = Dollar /\ x[2] = 0
  BY DEF Dollar
<1>2. IsPrefix(x, m)
  BY DEF IsRtp
<1> HIDE DEF x
<1>3. \A i \in 1 .. Len(x) : x[i] = m[i]
  BY <1>1, <1>2, PrefixIs
<1> QED
  BY <1>1, <1>3

\* Whatever is in the buffer.
LEMMA VerdictIs ==
  ASSUME NEW d \in Seq(Nat)
  PROVE  /\ GetRespLen(d).len \in Nat
         /\ GetRespLen(d).len # 0 => Len(d) >= 4 /\ d[1] \in Signs
         /\ GetRespLen(d).type = "BAD" => Len(d) >= 4 /\ GetRespLen(d).len = 0
<1>0. Len(d) \in Nat
  OBVIOUS
<1>1. CASE Len(d) < 4
  BY <1>0, <1>1 DEF GetRespLen, Verdict
<1>2. CASE Len(d) >= 4 /\ d[1] = Dollar
  <2>1. d[3] \in Nat /\ d[4] \in Nat
    BY <1>0, <1>2
  <2>2. PacketLen(d) \in Nat
    BY <2>1 DEF PacketLen
  <2>3. GetRespLen(d).len \in Nat /\ GetRespLen(d).type # "BAD"
    BY <1>0, <1>2, <2>2 DEF GetRespLen, Verdict
  <2> QED
    BY <1>2, <2>3 DEF Signs
<1>3. CASE Len(d) >= 4 /\ d[1] # Dollar /\ IsPrefix(RTSP, d)
  <2>1. d[1] = RTSP[1]
    BY <1>3, RtspIs
  <2> DEFINE end == Place(d, <<EndOfHead>>)
  <2>2. end \in 0 .. Len(d)
    BY EndIs
  <2>3. Lengths(d, end) # {} => Min(Lengths(d, end)) \in Nat
    BY <2>2, LengthsAre, LeastIsMin
  <2> HIDE DEF end
  <2>4. end + (IF Lengths(d, end) = {} THEN 0 ELSE Min(Lengths(d, end))) \in Nat
    BY <1>0, <2>2, <2>3
  <2>5. TextVerdict(d).len \in Nat /\ TextVerdict(d).type # "BAD"
    BY <2>4, TextIs DEF end, Verdict
  <2>6. GetRespLen(d) = TextVerdict(d)
    BY <1>0, <1>3 DEF GetRespLen
  <2> QED
    BY <1>3, <2>1, <2>5, <2>6 DEF Signs
<1>4. CASE Len(d) >= 4 /\ d[1] # Dollar /\ ~IsPrefix(RTSP, d)
  BY <1>0, <1>4 DEF GetRespLen, Verdict
<1> QED
  BY <1>0, <1>1, <1>2, <1>3, <1>4

\* When the buffer begins with a piece, or with a part of it.
LEMMA PieceIs ==
  ASSUME NEW m \in Pieces, NEW d \in Seq(Nat),
         \A i \in 1 .. Len(m) : i <= Len(d) => d[i] = m[i]
  PROVE  /\ m \in Seq(Nat) /\ Len(m) >= 4 /\ m[1] \in Signs
         /\ GetRespLen(d).len \in {0, Len(m)}
         /\ Len(d) >= Len(m) => GetRespLen(d).len = Len(m)
         /\ GetRespLen(d).type # "BAD"
<1>1. m \in Seq(Nat) /\ (IsPacket(m) \/ IsAnswer(m))
  BY StreamAssumption
<1>2. Len(m) \in Nat /\ Len(d) \in Nat
  BY <1>1
<1>3. CASE IsPacket(m)
  <2>1. Len(m) >= 4 /\ m[1] = Dollar /\ Len(m) = 256 * m[3] + m[4] + 4
    BY <1>3 DEF IsPacket
  <2>2. CASE Len(d) < 4
    BY <1>1, <1>2, <2>1, <2>2 DEF GetRespLen, Verdict, Signs
  <2>3. CASE Len(d) >= 4
    <3>1. d[1] = m[1] /\ d[3] = m[3] /\ d[4] = m[4]
      <4>1. \A i \in {1, 3, 4} : i \in 1 .. Len(m) /\ i <= Len(d)
        BY <1>2, <2>1, <2>3
      <4> QED
        BY <4>1
    <3>2. PacketLen(d) = Len(m) /\ d[1] = Dollar
      BY <2>1, <3>1 DEF PacketLen
    <3> QED
      BY <1>1, <1>2, <2>1, <2>3, <3>2 DEF GetRespLen, Verdict, Signs
  <2> QED
    BY <1>2, <2>2, <2>3
<1>4. CASE IsAnswer(m)
  <2>1. PICK end \in 5 .. Len(m) :
          /\ IsPrefix(RTSP, m) /\ m[end] = EndOfHead
          /\ \A i \in 1 .. end - 1 : m[i] # EndOfHead /\ (m[i] > 1000 => m[i] = BodyOf(Len(m) - end))
          /\ end < Len(m) => \E i \in 1 .. end - 1 : m[i] = BodyOf(Len(m) - end)
    BY <1>4 DEF IsAnswer
  <2>2. Len(m) >= 4 /\ \A i \in 1 .. 4 : m[i] = RTSP[i]
    BY <1>1, <2>1, RtspIs
  <2>3. m[1] \in Signs
    BY <2>2 DEF Signs
  <2>4. CASE Len(d) < 4
    BY <1>1, <1>2, <2>2, <2>3, <2>4 DEF GetRespLen, Verdict
  <2>5. CASE Len(d) >= 4
    <3>1. \A i \in 1 .. 4 : d[i] = RTSP[i]
      <4>1. \A i \in 1 .. 4 : i \in 1 .. Len(m) /\ i <= Len(d)
        BY <1>2, <2>2, <2>5
      <4> QED
        BY <2>2, <4>1
    <3>2. IsPrefix(RTSP, d) /\ d[1] # Dollar
      BY <2>5, <3>1, RtspIs DEF RTSP, Dollar
    <3>3. GetRespLen(d) = TextVerdict(d)
      BY <1>2, <2>5, <3>2 DEF GetRespLen
    <3> DEFINE e == Place(d, <<EndOfHead>>)
               b == Len(m) - end
    <3>4. /\ e \in 0 .. Len(d)
          /\ e = 0 => \A i \in 1 .. Len(d) : d[i] # EndOfHead
          /\ e # 0 => d[e] = EndOfHead /\ \A i \in 1 .. Len(d) : d[i] = EndOfHead => e <= i
      BY EndIs
    <3>5. TextVerdict(d) = IF e = 0 THEN Verdict("MIN", 0)
                           ELSE Verdict("TXT", e + (IF Lengths(d, e) = {} THEN 0 ELSE Min(Lengths(d, e))))
      BY TextIs
    <3> HIDE DEF e
    <3>6. CASE Len(d) < end
      <4>1. \A i \in 1 .. Len(d) : d[i] # EndOfHead
        <5> TAKE i \in 1 .. Len(d)
        <5>1. i \in 1 .. end - 1 /\ i \in 1 .. Len(m) /\ i <= Len(d)
          BY <1>2, <3>6
        <5> QED
          BY <2>1, <5>1
      <4>2. e = 0
        BY <1>2, <3>4, <4>1
      <4>3. GetRespLen(d).len = 0 /\ GetRespLen(d).type # "BAD"
        BY <3>3, <3>5, <4>2 DEF Verdict
      <4>4. ~(Len(d) >= Len(m))
        BY <1>2, <3>6
      <4> QED
        BY <1>1, <2>2, <2>3, <4>3, <4>4
    <3>7. CASE ~(Len(d) < end)
      <4>1. \A i \in 1 .. end : i \in 1 .. Len(m) /\ i \in 1 .. Len(d) /\ i <= Len(d) /\ d[i] = m[i]
        BY <1>2, <3>7
      <4>2. e = end
        <5>1. end \in 1 .. end /\ d[end] = EndOfHead
          BY <1>2, <2>1, <4>1
        <5>2. e # 0 /\ e <= end
          BY <3>4, <4>1, <5>1
        <5>3. e # end => e \in 1 .. end - 1 /\ e \in 1 .. end
          BY <1>2, <3>4, <5>2
        <5> QED
          BY <2>1, <3>4, <4>1, <5>2, <5>3
      <4>3. Lengths(d, end) = {i \in {b} : \E k \in 1 .. end : d[k] = 1000 + b /\ d[k] > 1000}
        <5>1. m[end] <= 1000
          BY <2>1 DEF EndOfHead
        <5>2. \A k \in 1 .. end : d[k] \in Nat /\ (d[k] > 1000 => d[k] = 1000 + b)
          <6> TAKE k \in 1 .. end
          <6>1. d[k] = m[k] /\ d[k] \in Nat
            BY <4>1
          <6>2. k = end \/ k \in 1 .. end - 1
            BY <1>2
          <6> QED
            BY <2>1, <5>1, <6>1, <6>2 DEF BodyOf
        <5>3. b \in Int
          BY <1>2
        <5> HIDE DEF b
        <5>4. \A x : x \in Lengths(d, end) <=> \E k \in 1 .. end : d[k] > 1000 /\ x = d[k] - 1000
          BY DEF Lengths
        <5>5. \A k \in 1 .. end : d[k] > 1000 => d[k] - 1000 = b
          BY <5>2, <5>3
        <5> QED
          BY <5>2, <5>3, <5>4, <5>5
      <4>4. b \in Nat /\ (b = 0 <=> ~(end < Len(m))) /\ end + b = Len(m) /\ end \in Nat
        BY <1>2
      <4> HIDE DEF b
      <4>5. b # 0 => \E k \in 1 .. end : d[k] = 1000 + b /\ d[k] > 1000
        <5>1. SUFFICES ASSUME b # 0 PROVE \E k \in 1 .. end : d[k] = 1000 + b /\ d[k] > 1000
          OBVIOUS
        <5>2. PICK k \in 1 .. end - 1 : m[k] = 1000 + b
          BY <2>1, <4>4, <5>1 DEF BodyOf, b
        <5>3. k \in 1 .. end /\ d[k] = m[k]
          BY <4>1, <4>4
        <5> QED
          BY <4>4, <5>1, <5>2, <5>3
      <4>6. Lengths(d, end) = IF b = 0 THEN {} ELSE {b}
        BY <4>3, <4>4, <4>5
      <4>7. b # 0 => Min(Lengths(d, end)) = b
        <5>1. b # 0 => {b} \in SUBSET Nat /\ {b} # {}
          BY <4>4
        <5>2. b # 0 => Min({b}) \in {b}
          BY <5>1, LeastIsMin
        <5> QED
          BY <4>6, <5>2
      <4>8. end + (IF Lengths(d, end) = {} THEN 0 ELSE Min(Lengths(d, end))) = Len(m)
        BY <4>4, <4>6, <4>7
      <4>9. GetRespLen(d).len = Len(m) /\ GetRespLen(d).type # "BAD"
        <5>1. end # 0
          OBVIOUS
        <5> QED
          BY <3>3, <3>5, <4>2, <4>8, <5>1 DEF Verdict
      <4> QED
        BY <1>1, <2>2, <2>3, <4>9
    <3> QED
      BY <3>6, <3>7
  <2> QED
    BY <1>2, <2>4, <2>5
<1> QED
  BY <1>1, <1>3, <1>4

-----------------------------------------------------------------------------
(* Where the pieces sent, t, begin in what is not consumed, u: before the  *)
(* first byte of u if they are consumed, in part or as a whole.            *)

Laid(t, u, at) ==
  /\ at \in [1 .. Len(t) + 1 -> Int]
  /\ \A i \in 1 .. Len(t), j \in 1 .. Len(t) + 1 : i < j => at[i] + Len(t[i]) <= at[j]
  /\ at[Len(t) + 1] <= Len(u)
  /\ \A j \in 1 .. Len(t) : \A k \in 1 .. Len(t[j]) : at[j] + k >= 1 => u[at[j] + k] = t[j][k]

\* A byte that looks like the first of a piece is.
Marked(t, u, at) == \A i \in 1 .. Len(u) : u[i] \in Signs => \E j \in 1 .. Len(t) : at[j] + 1 = i

\* Nothing was sent besides: the pieces follow each other, and those not
\* handled are what is not consumed.
Tight(t, u, at, done) ==
  /\ \A i \in 1 .. Len(t) : at[i + 1] = at[i] + Len(t[i])
  /\ at[Len(t) + 1] = Len(u)
  /\ Len(done) <= Len(t) /\ at[Len(done) + 1] = 0
  /\ \A i \in 1 .. Len(done) : done[i] = t[i]

\* What was handled are pieces that are consumed, in their order.
Picked(t, at, done, g) ==
  /\ g \in [1 .. Len(done) -> 1 .. Len(t)]
  /\ \A i, j \in 1 .. Len(done) : i < j => g[i] < g[j]
  /\ \A i \in 1 .. Len(done) : done[i] = t[g[i]] /\ at[g[i]] + Len(t[g[i]]) <= 0

Fits(t, z, p, u, at, done) ==
  /\ Laid(t, u, at)
  /\ p => Marked(t, u, at)
  /\ z = 0 => Tight(t, u, at, done)
  /\ \E g : Picked(t, at, done, g)

\* v is u without its first n bytes.
Shifted(u, n, v) ==
  /\ u \in Seq(Nat) /\ v \in Seq(Nat) /\ n \in Nat /\ Len(u) = Len(v) + n
  /\ \A i \in 1 .. Len(v) : v[i] = u[i + n]

Back(at, n) == [i \in DOMAIN at |-> at[i] - n]

LEMMA UnreadIs ==
  ASSUME NEW d \in Seq(Nat), NEW n \in 0 .. Len(d)
  PROVE  Shifted(d, n, Unread(d, n))
<1> DEFINE v == Unread(d, n)
           l == Len(d)
<1>1. l \in Nat /\ n \in Nat /\ n + 1 \in Int /\ l \in Int
  OBVIOUS
<1>2. \A i \in n + 1 .. l : d[i] \in Nat
  BY <1>1
<1> HIDE DEF l
<1>3. /\ v \in Seq(Nat) /\ Len(v) = (IF n + 1 <= l THEN l - (n + 1) + 1 ELSE 0)
      /\ \A i \in 1 .. l - (n + 1) + 1 : v[i] = d[n + 1 + i - 1]
  BY <1>1, <1>2, SubSeqProperties DEF Unread, l
<1> HIDE DEF v
<1>4. n <= l
  BY DEF l
<1>5. Len(v) = l - n /\ l - (n + 1) + 1 = l - n
  BY <1>1, <1>3, <1>4
<1>6. \A i \in 1 .. Len(v) : v[i] = d[i + n]
  <2> TAKE i \in 1 .. Len(v)
  <2>1. i \in 1 .. l - (n + 1) + 1 /\ n + 1 + i - 1 = i + n
    BY <1>1, <1>5
  <2> QED
    BY <1>3, <2>1
<1>7. l = Len(v) + n
  BY <1>1, <1>5
<1> QED
  BY <1>1, <1>3, <1>6, <1>7 DEF Shifted, v, l

LEMMA AheadShifts ==
  ASSUME NEW d \in Seq(Nat), NEW w \in Seq(Nat), NEW n, NEW e, Shifted(d, n, e)
  PROVE  Shifted(d \o w, n, e \o w)
<1> DEFINE u == d \o w
           v == e \o w
<1>1. e \in Seq(Nat) /\ n \in Nat /\ Len(d) = Len(e) + n /\ \A i \in 1 .. Len(e) : e[i] = d[i + n]
  BY DEF Shifted
<1>2. /\ u \in Seq(Nat) /\ Len(u) = Len(d) + Len(w)
      /\ \A i \in 1 .. Len(d) + Len(w) : u[i] = IF i <= Len(d) THEN d[i] ELSE w[i - Len(d)]
  BY ConcatProperties
<1>3. /\ v \in Seq(Nat) /\ Len(v) = Len(e) + Len(w)
      /\ \A i \in 1 .. Len(e) + Len(w) : v[i] = IF i <= Len(e) THEN e[i] ELSE w[i - Len(e)]
  BY <1>1, ConcatProperties
<1>4. Len(d) \in Nat /\ Len(e) \in Nat /\ Len(w) \in Nat
  BY <1>1
<1> HIDE DEF u, v
<1>5. ASSUME NEW i \in 1 .. Len(v) PROVE v[i] = u[i + n]
  <2>1. i + n \in 1 .. Len(d) + Len(w) /\ (i + n <= Len(d) <=> i <= Len(e)) /\ i + n - Len(d) = i - Len(e)
    BY <1>1, <1>3, <1>4
  <2>2. CASE i <= Len(e)
    <3>1. i \in 1 .. Len(e) /\ i \in 1 .. Len(e) + Len(w)
      BY <1>3, <1>4, <2>2
    <3>2. v[i] = e[i] /\ e[i] = d[i + n]
      BY <1>1, <1>3, <2>2, <3>1
    <3>3. u[i + n] = d[i + n]
      BY <1>2, <2>1, <2>2
    <3> QED
      BY <3>2, <3>3
  <2>3. CASE ~(i <= Len(e))
    <3>1. v[i] = w[i - Len(e)]
      BY <1>3, <2>3
    <3>2. u[i + n] = w[i + n - Len(d)]
      BY <1>1, <1>2, <1>4, <2>1, <2>3
    <3> QED
      BY <2>1, <3>1, <3>2
  <2> QED
    BY <2>2, <2>3
<1>6. Len(u) = Len(v) + n
  BY <1>1, <1>2, <1>3, <1>4
<1> QED
  BY <1>1, <1>2, <1>3, <1>5, <1>6 DEF Shifted, u, v

LEMMA UnreadShifts ==
  ASSUME NEW d \in Seq(Nat), NEW w \in Seq(Nat), NEW n \in 0 .. Len(d)
  PROVE  Shifted(d \o w, n, Unread(d, n) \o w)
BY UnreadIs, AheadShifts

LEMMA BackIs ==
  ASSUME NEW N \in Nat, NEW at \in [1 .. N -> Int], NEW n \in Nat
  PROVE  Back(at, n) \in [1 .. N -> Int] /\ \A i \in 1 .. N : Back(at, n)[i] = at[i] - n
BY DEF Back

LEMMA ShiftLaid ==
  ASSUME NEW t \in Seq(Pieces), NEW u, NEW n, NEW v, NEW at, Shifted(u, n, v), Laid(t, u, at)
  PROVE  Laid(t, v, Back(at, n))
<1> DEFINE b == Back(at, n)
           l == Len(t)
<1>1. /\ l \in Nat /\ n \in Nat /\ Len(u) = Len(v) + n /\ Len(v) \in Nat /\ Len(u) \in Nat
      /\ \A i \in 1 .. Len(v) : v[i] = u[i + n]
  BY DEF Shifted
<1>2. \A j \in 1 .. l : t[j] \in Seq(Nat) /\ Len(t[j]) \in Nat
  <2>1. \A j \in 1 .. l : t[j] \in Pieces
    OBVIOUS
  <2> QED
    BY <2>1, StreamAssumption
<1>3. /\ at \in [1 .. l + 1 -> Int]
      /\ \A i \in 1 .. l, j \in 1 .. l + 1 : i < j => at[i] + Len(t[i]) <= at[j]
      /\ at[l + 1] <= Len(u)
      /\ \A j \in 1 .. l : \A k \in 1 .. Len(t[j]) : at[j] + k >= 1 => u[at[j] + k] = t[j][k]
  BY DEF Laid
<1> HIDE DEF l
<1>4. b \in [1 .. l + 1 -> Int] /\ \A i \in 1 .. l + 1 : b[i] = at[i] - n /\ at[i] \in Int
  <2>1. l + 1 \in Nat
    BY <1>1
  <2>2. b \in [1 .. l + 1 -> Int] /\ \A i \in 1 .. l + 1 : b[i] = at[i] - n
    BY <1>1, <1>3, <2>1, BackIs
  <2> QED
    BY <1>3, <2>2
<1> HIDE DEF b
<1>5. ASSUME NEW i \in 1 .. l, NEW j \in 1 .. l + 1, i < j
      PROVE  b[i] + Len(t[i]) <= b[j]
  <2>1. i \in 1 .. l + 1
    BY <1>1
  <2>2. at[i] + Len(t[i]) <= at[j] /\ b[i] = at[i] - n /\ b[j] = at[j] - n /\ at[i] \in Int /\ at[j] \in Int
    BY <1>3, <1>4, <1>5, <2>1
  <2> DEFINE x == at[i]
             y == at[j]
             k == Len(t[i])
  <2>3. x \in Int /\ y \in Int /\ k \in Nat /\ n \in Nat /\ x + k <= y
    BY <1>1, <1>2, <2>2
  <2>4. b[i] = x - n /\ b[j] = y - n
    BY <2>2
  <2> HIDE DEF x, y, k
  <2>5. x - n + k <= y - n
    BY <2>3
  <2> QED
    BY <2>4, <2>5 DEF k
<1>6. b[l + 1] <= Len(v)
  <2>1. l + 1 \in 1 .. l + 1
    BY <1>1
  <2>2. b[l + 1] = at[l + 1] - n /\ at[l + 1] \in Int
    BY <1>4, <2>1
  <2> QED
    BY <1>1, <1>3, <2>2
<1>7. ASSUME NEW j \in 1 .. l, NEW k \in 1 .. Len(t[j]), b[j] + k >= 1
      PROVE  v[b[j] + k] = t[j][k]
  <2>1. j \in 1 .. l + 1 /\ l + 1 \in 1 .. l + 1 /\ j < l + 1 /\ k \in Nat /\ k <= Len(t[j])
    BY <1>1, <1>2
  <2>2. b[j] = at[j] - n /\ at[j] \in Int /\ b[j] + Len(t[j]) <= b[l + 1] /\ b[l + 1] \in Int
    BY <1>4, <1>5, <2>1
  <2> DEFINE x == at[j]
             y == b[j]
             z == b[l + 1]
  <2>3. x \in Int /\ y = x - n /\ y + Len(t[j]) <= z /\ z \in Int /\ z <= Len(v) /\ y + k >= 1
    BY <1>6, <1>7, <2>2
  <2>4. Len(t[j]) \in Nat
    BY <1>2
  <2> HIDE DEF x, y, z
  <2>5. y + k \in 1 .. Len(v) /\ y + k + n = x + k /\ x + k >= 1
    BY <1>1, <2>1, <2>3, <2>4
  <2> QED
    BY <1>1, <1>3, <2>5 DEF x, y
<1> QED
  BY <1>4, <1>5, <1>6, <1>7 DEF Laid, b, l

LEMMA ShiftSure ==
  ASSUME NEW t \in Seq(Pieces), NEW u, NEW n, NEW v, NEW at, Shifted(u, n, v),
         at \in [1 .. Len(t) + 1 -> Int], Marked(t, u, at)
  PROVE  Marked(t, v, Back(at, n))
<1>1. /\ Len(t) \in Nat /\ n \in Nat /\ Len(u) = Len(v) + n /\ Len(v) \in Nat
      /\ \A i \in 1 .. Len(v) : v[i] = u[i + n]
  BY DEF Shifted
<1>2. \A i \in 1 .. Len(t) : Back(at, n)[i] = at[i] - n /\ at[i] \in Int
  <2>1. Len(t) + 1 \in Nat /\ \A i \in 1 .. Len(t) : i \in 1 .. Len(t) + 1
    BY <1>1
  <2>2. \A i \in 1 .. Len(t) + 1 : Back(at, n)[i] = at[i] - n
    BY <1>1, <2>1, BackIs
  <2> QED
    BY <2>1, <2>2
<1> SUFFICES ASSUME NEW i \in 1 .. Len(v), v[i] \in Signs
             PROVE  \E j \in 1 .. Len(t) : Back(at, n)[j] + 1 = i
  BY DEF Marked
<1>3. i + n \in 1 .. Len(u) /\ u[i + n] \in Signs
  BY <1>1
<1>4. PICK j \in 1 .. Len(t) : at[j] + 1 = i + n
  BY <1>3 DEF Marked
<1>5. Back(at, n)[j] = at[j] - n /\ at[j] \in Int
  BY <1>2
<1>6. Back(at, n)[j] + 1 = i
  BY <1>1, <1>4, <1>5
<1> QED
  BY <1>6

LEMMA PiecesIn ==
  ASSUME NEW t \in Seq(Pieces)
  PROVE  Len(t) \in Nat /\ \A j \in 1 .. Len(t) : /\ t[j] \in Pieces /\ t[j] \in Seq(Nat)
                                                  /\ Len(t[j]) \in Nat /\ Len(t[j]) >= 4
<1>1. \A j \in 1 .. Len(t) : t[j] \in Pieces
  OBVIOUS
<1>2. ASSUME NEW m \in Pieces PROVE m \in Seq(Nat) /\ Len(m) \in Nat /\ Len(m) >= 4
  <2>1. m \in Seq(Nat)
    BY StreamAssumption
  <2>2. Len(m) >= 4
    BY <2>1, PieceIs
  <2> QED
    BY <2>1, <2>2
<1> QED
  BY <1>1, <1>2

\* What is read from Laid about two pieces.
LEMMA LaidIs ==
  ASSUME NEW t \in Seq(Pieces), NEW u, NEW at, Laid(t, u, at)
  PROVE  /\ \A i \in 1 .. Len(t) + 1 : at[i] \in Int
         /\ \A i, j \in 1 .. Len(t) : i < j => at[i] + Len(t[i]) <= at[j]
         /\ \A i \in 1 .. Len(t) : at[i] + Len(t[i]) <= at[Len(t) + 1] /\ at[i] \in Int
<1>1. Len(t) \in Nat
  OBVIOUS
<1>2. /\ at \in [1 .. Len(t) + 1 -> Int]
      /\ \A i \in 1 .. Len(t), j \in 1 .. Len(t) + 1 : i < j => at[i] + Len(t[i]) <= at[j]
  BY DEF Laid
<1>3. \A i \in 1 .. Len(t) + 1 : at[i] \in Int
  BY <1>2
<1>4. Len(t) + 1 \in 1 .. Len(t) + 1 /\ \A i \in 1 .. Len(t) : i \in 1 .. Len(t) + 1 /\ i < Len(t) + 1
  BY <1>1
<1> QED
  BY <1>2, <1>3, <1>4

\* The piece at the start of the buffer is handled.
LEMMA PickNext ==
  ASSUME NEW t \in Seq(Pieces), NEW u, NEW at, NEW done \in Seq(Seq(Nat)), NEW g, NEW j \in 1 .. Len(t),
         Laid(t, u, at), Picked(t, at, done, g), at[j] = 0
  PROVE  \E h : Picked(t, Back(at, Len(t[j])), Append(done, t[j]), h)
<1> DEFINE n == Len(t[j])
           l == Len(t)
           c == Len(done)
           b == Back(at, n)
           D == Append(done, t[j])
           h == [i \in 1 .. c + 1 |-> IF i <= c THEN g[i] ELSE j]
<1>1. l \in Nat /\ \A i \in 1 .. l : t[i] \in Seq(Nat) /\ Len(t[i]) \in Nat /\ Len(t[i]) >= 4
  BY PiecesIn
<1>2. n \in Nat /\ n >= 4 /\ c \in Nat /\ j \in 1 .. l /\ t[j] \in Seq(Nat)
  BY <1>1
<1>3. /\ g \in [1 .. c -> 1 .. l]
      /\ \A i, k \in 1 .. c : i < k => g[i] < g[k]
      /\ \A i \in 1 .. c : done[i] = t[g[i]] /\ at[g[i]] + Len(t[g[i]]) <= 0
  BY DEF Picked
<1>4. /\ \A i, k \in 1 .. l : i < k => at[i] + Len(t[i]) <= at[k]
      /\ \A i \in 1 .. l : at[i] \in Int /\ i \in 1 .. l + 1
  BY <1>1, LaidIs
<1>5. \A i \in 1 .. l : b[i] = at[i] - n
  <2>1. at \in [1 .. l + 1 -> Int] /\ l + 1 \in Nat
    BY <1>1 DEF Laid
  <2>2. \A i \in 1 .. l + 1 : b[i] = at[i] - n
    BY <1>2, <2>1, BackIs
  <2> QED
    BY <1>4, <2>2
<1>6. D \in Seq(Seq(Nat)) /\ Len(D) = c + 1 /\ D[c + 1] = t[j] /\ \A i \in 1 .. c : D[i] = done[i]
  BY <1>2
<1> HIDE DEF n, l, c, b, D
<1>7. \A i \in 1 .. c + 1 : i \in 1 .. c \/ i = c + 1
  BY <1>2
<1>8. \A i \in 1 .. c : i <= c /\ i \in 1 .. c + 1 /\ g[i] \in 1 .. l
  BY <1>2, <1>3
<1>9. ~(c + 1 <= c) /\ c + 1 \in 1 .. c + 1
  BY <1>2
<1>10. h \in [1 .. c + 1 -> 1 .. l] /\ h[c + 1] = j /\ \A i \in 1 .. c : h[i] = g[i]
  BY <1>2, <1>7, <1>8, <1>9
<1> HIDE DEF h
<1>11. ASSUME NEW i \in 1 .. c PROVE g[i] < j
  <2>1. g[i] \in 1 .. l /\ at[g[i]] + Len(t[g[i]]) <= 0
    BY <1>3, <1>8
  <2> DEFINE k == g[i]
  <2> HIDE DEF k
  <2>2. k \in 1 .. l /\ at[k] + Len(t[k]) <= 0 /\ at[k] \in Int /\ Len(t[k]) \in Nat /\ Len(t[k]) >= 4
    BY <1>1, <1>4, <2>1 DEF k
  <2>3. k # j
    BY <2>2
  <2>4. ~(j < k)
    <3>1. j < k => at[j] + Len(t[j]) <= at[k]
      BY <1>2, <1>4, <2>2
    <3> QED
      BY <1>2, <2>2, <3>1 DEF n
  <2>5. k < j
    BY <1>2, <2>2, <2>3, <2>4
  <2> QED
    BY <2>5 DEF k
<1>12. ASSUME NEW i \in 1 .. c + 1, NEW k \in 1 .. c + 1, i < k PROVE h[i] < h[k]
  <2>1. i \in 1 .. c
    BY <1>2, <1>12
  <2>2. CASE k = c + 1
    BY <1>10, <1>11, <2>1, <2>2
  <2>3. CASE k # c + 1
    BY <1>3, <1>7, <1>10, <1>12, <2>1, <2>3
  <2> QED
    BY <2>2, <2>3
<1>13. ASSUME NEW i \in 1 .. c + 1 PROVE D[i] = t[h[i]] /\ b[h[i]] + Len(t[h[i]]) <= 0
  <2>1. CASE i = c + 1
    <3>1. b[j] = at[j] - n
      BY <1>2, <1>5
    <3>2. b[j] + n = 0
      BY <1>2, <3>1
    <3> QED
      BY <1>6, <1>10, <2>1, <3>2 DEF n
  <2>2. CASE i # c + 1
    <3>1. i \in 1 .. c /\ g[i] \in 1 .. l
      BY <1>7, <1>8, <2>2
    <3>2. D[i] = t[g[i]] /\ h[i] = g[i]
      BY <1>3, <1>6, <1>10, <3>1
    <3>3. at[g[i]] + Len(t[g[i]]) <= 0 /\ b[g[i]] = at[g[i]] - n /\ at[g[i]] \in Int /\ Len(t[g[i]]) \in Nat
      BY <1>1, <1>3, <1>4, <1>5, <3>1
    <3>4. b[g[i]] + Len(t[g[i]]) <= 0
      BY <1>2, <3>3
    <3> QED
      BY <3>2, <3>4
  <2> QED
    BY <2>1, <2>2
<1>14. Picked(t, b, D, h)
  BY <1>6, <1>10, <1>12, <1>13 DEF Picked, l
<1> QED
  BY <1>14 DEF b, D, n

LEMMA TightNext ==
  ASSUME NEW t \in Seq(Pieces), NEW u, NEW v, NEW at, NEW done \in Seq(Seq(Nat)),
         Len(done) + 1 \in 1 .. Len(t),
         Laid(t, u, at), Tight(t, u, at, done), Shifted(u, Len(t[Len(done) + 1]), v)
  PROVE  Tight(t, v, Back(at, Len(t[Len(done) + 1])), Append(done, t[Len(done) + 1]))
<1> DEFINE c == Len(done)
           j == c + 1
           n == Len(t[j])
           l == Len(t)
           b == Back(at, n)
           D == Append(done, t[j])
<1>1. l \in Nat /\ c \in Nat /\ n \in Nat /\ t[j] \in Seq(Nat)
  BY PiecesIn
<1>2. j \in 1 .. l /\ j = c + 1
  OBVIOUS
<1>3. D \in Seq(Seq(Nat)) /\ Len(D) = c + 1 /\ D[c + 1] = t[j] /\ \A i \in 1 .. c : D[i] = done[i]
  BY <1>1
<1>4. /\ \A i \in 1 .. l : at[i + 1] = at[i] + Len(t[i])
      /\ at[l + 1] = Len(u) /\ c <= l /\ at[c + 1] = 0
      /\ \A i \in 1 .. c : done[i] = t[i]
  BY DEF Tight
<1>5. Len(u) = Len(v) + n /\ Len(v) \in Nat
  BY DEF Shifted
<1>6. \A i \in 1 .. l + 1 : b[i] = at[i] - n /\ at[i] \in Int
  <2>1. at \in [1 .. l + 1 -> Int] /\ l + 1 \in Nat
    BY <1>1 DEF Laid
  <2>2. \A i \in 1 .. l + 1 : b[i] = at[i] - n
    BY <1>1, <2>1, BackIs
  <2> QED
    BY <2>1, <2>2
<1>7. \A i \in 1 .. l : Len(t[i]) \in Nat
  BY PiecesIn
<1> HIDE DEF c, j, n, l, b, D
<1>8. ASSUME NEW i \in 1 .. l PROVE b[i + 1] = b[i] + Len(t[i])
  <2>1. i \in 1 .. l + 1 /\ i + 1 \in 1 .. l + 1
    BY <1>1
  <2>2. b[i] = at[i] - n /\ b[i + 1] = at[i + 1] - n /\ at[i] \in Int /\ at[i + 1] = at[i] + Len(t[i]) /\ Len(t[i]) \in Nat
    BY <1>4, <1>6, <1>7, <2>1
  <2> QED
    BY <1>1, <2>2
<1>9. b[l + 1] = Len(v)
  <2>1. l + 1 \in 1 .. l + 1
    BY <1>1
  <2> QED
    BY <1>1, <1>4, <1>5, <1>6, <2>1
<1>10. b[j + 1] = 0
  <2>1. j + 1 \in 1 .. l + 1 /\ j \in 1 .. l + 1
    BY <1>1, <1>2
  <2>2. at[j] = 0 /\ at[j + 1] = at[j] + n
    BY <1>2, <1>4 DEF n
  <2>3. b[j + 1] = at[j + 1] - n
    BY <1>6, <2>1
  <2> QED
    BY <1>1, <2>2, <2>3
<1>11. \A i \in 1 .. c + 1 : D[i] = t[i]
  <2> TAKE i \in 1 .. c + 1
  <2>1. i = c + 1 \/ i \in 1 .. c
    BY <1>1
  <2> QED
    BY <1>2, <1>3, <1>4, <2>1
<1>12. Len(D) <= l /\ b[Len(D) + 1] = 0 /\ \A i \in 1 .. Len(D) : D[i] = t[i]
  BY <1>1, <1>2, <1>3, <1>10, <1>11
<1>13. Tight(t, v, b, D)
  BY <1>8, <1>9, <1>12 DEF Tight, l
<1> QED
  BY <1>13 DEF b, D, n, j, c

\* The piece at the start of the buffer d is handled, and consumed.
LEMMA HandlesPiece ==
  ASSUME NEW t \in Seq(Pieces), NEW z, NEW p \in BOOLEAN, NEW d \in Seq(Nat), NEW w \in Seq(Nat), NEW at,
         NEW done \in Seq(Seq(Nat)), NEW j \in 1 .. Len(t),
         Fits(t, z, p, d \o w, at, done), at[j] = 0, z = 0 => j = Len(done) + 1, Len(t[j]) <= Len(d)
  PROVE  Fits(t, z, p, Unread(d, Len(t[j])) \o w, Back(at, Len(t[j])), Append(done, t[j]))
<1> DEFINE n == Len(t[j])
           u == d \o w
           e == Unread(d, n)
           v == e \o w
           b == Back(at, n)
           D == Append(done, t[j])
<1>1. n \in 0 .. Len(d)
  <2>1. n \in Nat /\ Len(d) \in Nat
    BY PiecesIn
  <2> QED
    BY <2>1
<1>2. Shifted(u, n, v)
  BY <1>1, UnreadShifts
<1>3. /\ Laid(t, u, at)
      /\ p => Marked(t, u, at)
      /\ z = 0 => Tight(t, u, at, done)
      /\ \E g : Picked(t, at, done, g)
  BY DEF Fits
<1> HIDE DEF u, v, e
<1>4. Laid(t, v, b)
  BY <1>2, <1>3, ShiftLaid
<1>5. p => Marked(t, v, b)
  <2>1. at \in [1 .. Len(t) + 1 -> Int]
    BY <1>3 DEF Laid
  <2> QED
    BY <1>2, <1>3, <2>1, ShiftSure
<1>6. z = 0 => Tight(t, v, b, D)
  <2> SUFFICES ASSUME z = 0 PROVE Tight(t, v, b, D)
    OBVIOUS
  <2>1. j = Len(done) + 1 /\ Tight(t, u, at, done)
    BY <1>3
  <2> QED
    BY <1>2, <1>3, <2>1, TightNext
<1>7. \E h : Picked(t, b, D, h)
  BY <1>3, PickNext
<1>8. Fits(t, z, p, v, b, D)
  BY <1>4, <1>5, <1>6, <1>7 DEF Fits
<1> QED
  BY <1>8 DEF e, v, u

\* What does not begin with a piece is dropped, up to the first video packet.
LEMMA SkipIs ==
  ASSUME NEW d \in Seq(Nat)
  PROVE  /\ Skip(d) \in 0 .. Len(d)
         /\ \A i \in 1 .. Len(d) - 1 : d[i] = Dollar /\ d[i + 1] = 0 => Skip(d) <= i - 1
<1> DEFINE x == <<Dollar, 0>>
           p == Place(d, x)
           q == Place(d, RTSP)
<1>1. Len(d) \in Nat /\ x \in Seq(Nat) /\ Len(x) = 2 /\ x[1] = Dollar /\ x[2] = 0
  BY DEF Dollar
<1>2. RTSP \in Seq(Nat) /\ Len(RTSP) = 4
  BY DEF RTSP
<1>3. /\ p \in Nat
      /\ p = 0 => \A i \in Nat : ~BeginsAt(d, x, i)
      /\ p # 0 => BeginsAt(d, x, p) /\ \A i \in Nat : BeginsAt(d, x, i) => p <= i
  BY <1>1, PlaceIs
<1>4. q \in Nat /\ (q # 0 => BeginsAt(d, RTSP, q))
  BY <1>2, PlaceIs
<1>5. Skip(d) = IF p # 0 THEN p - 1 ELSE IF q # 0 THEN q - 1 ELSE Len(d)
  BY DEF Skip
<1> HIDE DEF p, q, x
<1>6. p # 0 => p \in 1 .. Len(d)
  BY <1>1, <1>3 DEF BeginsAt
<1>7. q # 0 => q \in 1 .. Len(d)
  BY <1>1, <1>2, <1>4 DEF BeginsAt
<1>8. Skip(d) \in 0 .. Len(d)
  BY <1>1, <1>3, <1>4, <1>5, <1>6, <1>7
<1>9. ASSUME NEW i \in 1 .. Len(d) - 1, d[i] = Dollar, d[i + 1] = 0 PROVE Skip(d) <= i - 1
  <2>1. i \in Nat /\ i \in 1 .. Len(d) - Len(x) + 1
    BY <1>1
  <2>2. \A k \in 1 .. Len(x) : d[i + k - 1] = x[k]
    <3>1. \A k \in 1 .. Len(x) : (k = 1 /\ i + k - 1 = i) \/ (k = 2 /\ i + k - 1 = i + 1)
      BY <1>1, <2>1
    <3> QED
      BY <1>1, <1>9, <3>1
  <2>3. BeginsAt(d, x, i)
    BY <2>1, <2>2 DEF BeginsAt
  <2> QED
    BY <1>3, <1>5, <2>1, <2>3
<1> QED
  BY <1>8, <1>9

LEMMA AheadIs ==
  ASSUME NEW d \in Seq(Nat), NEW w \in Seq(Nat)
  PROVE  /\ d \o w \in Seq(Nat) /\ Len(d \o w) = Len(d) + Len(w)
         /\ \A i \in 1 .. Len(d) : (d \o w)[i] = d[i]
<1>1. Len(d) \in Nat /\ Len(w) \in Nat
  OBVIOUS
<1>2. /\ d \o w \in Seq(Nat) /\ Len(d \o w) = Len(d) + Len(w)
      /\ \A i \in 1 .. Len(d) + Len(w) : (d \o w)[i] = IF i <= Len(d) THEN d[i] ELSE w[i - Len(d)]
  BY ConcatProperties
<1>3. \A i \in 1 .. Len(d) : i \in 1 .. Len(d) + Len(w) /\ i <= Len(d)
  BY <1>1
<1> QED
  BY <1>2, <1>3

LEMMA SkipsNoise ==
  ASSUME NEW t \in Seq(Pieces), NEW z, NEW p \in BOOLEAN, NEW d \in Seq(Nat), NEW w \in Seq(Nat), NEW at,
         NEW done \in Seq(Seq(Nat)), Fits(t, z, p, d \o w, at, done), z # 0
  PROVE  Fits(t, z, p, Unread(d, Skip(d)) \o w, Back(at, Skip(d)), done)
<1> DEFINE n == Skip(d)
           u == d \o w
           e == Unread(d, n)
           v == e \o w
           b == Back(at, n)
           l == Len(t)
<1>1. n \in 0 .. Len(d) /\ n \in Nat /\ l \in Nat /\ Len(d) \in Nat
  BY SkipIs
<1>2. Shifted(u, n, v)
  BY <1>1, UnreadShifts
<1>3. /\ Laid(t, u, at)
      /\ p => Marked(t, u, at)
      /\ \E g : Picked(t, at, done, g)
  BY DEF Fits
<1> HIDE DEF u, v, e
<1>4. Laid(t, v, b)
  BY <1>2, <1>3, ShiftLaid
<1>5. at \in [1 .. l + 1 -> Int]
  BY <1>3 DEF Laid
<1>6. p => Marked(t, v, b)
  BY <1>2, <1>3, <1>5, ShiftSure
<1>7. \A i \in 1 .. l : b[i] = at[i] - n /\ at[i] \in Int /\ t[i] \in Seq(Nat) /\ Len(t[i]) \in Nat /\ Len(t[i]) >= 4
  <2>1. l + 1 \in Nat /\ \A i \in 1 .. l : i \in 1 .. l + 1
    BY <1>1
  <2>2. \A i \in 1 .. l + 1 : b[i] = at[i] - n
    BY <1>1, <1>5, <2>1, BackIs
  <2>3. \A i \in 1 .. l : at[i] \in Int
    BY <1>5, <2>1
  <2> QED
    BY <2>1, <2>2, <2>3, PiecesIn
<1> HIDE DEF n, b, l
<1>8. \E g : Picked(t, b, done, g)
  <2>1. PICK g : Picked(t, at, done, g)
    BY <1>3
  <2>2. \A i \in 1 .. Len(done) : g[i] \in 1 .. l /\ at[g[i]] + Len(t[g[i]]) <= 0
    BY <2>1 DEF Picked, l
  <2>3. ASSUME NEW k \in 1 .. l, at[k] + Len(t[k]) <= 0 PROVE b[k] + Len(t[k]) <= 0
    <3>1. b[k] = at[k] - n /\ at[k] \in Int /\ Len(t[k]) \in Nat
      BY <1>7
    <3> QED
      BY <1>1, <2>3, <3>1
  <2>4. Picked(t, b, done, g)
    BY <2>1, <2>2, <2>3 DEF Picked, l
  <2> QED
    BY <2>4
<1>9. Fits(t, z, p, v, b, done)
  BY <1>3, <1>4, <1>6, <1>8 DEF Fits
<1> QED
  BY <1>9 DEF e, v, b, n

\* The buffer begins with a piece, or with a part of it.
Begun(t, z, d, at, done) ==
  \E j \in 1 .. Len(t) : /\ at[j] = 0 /\ (z = 0 => j = Len(done) + 1)
                         /\ \A i \in 1 .. Len(t[j]) : i <= Len(d) => d[i] = t[j][i]

\* It does when it looks so, and when nothing was sent
\* besides it begins with the next one.
LEMMA BeginsWithPiece ==
  ASSUME NEW t \in Seq(Pieces), NEW z, NEW p \in BOOLEAN, NEW d \in Seq(Nat), NEW w \in Seq(Nat), NEW at,
         NEW done \in Seq(Seq(Nat)), Fits(t, z, p, d \o w, at, done),
         Len(d) >= 1, z # 0 => p /\ d[1] \in Signs
  PROVE  Begun(t, z, d, at, done)
<1> DEFINE u == d \o w
           l == Len(t)
<1>1. /\ Laid(t, u, at) /\ (p => Marked(t, u, at))
      /\ (z = 0 => Tight(t, u, at, done))
  BY DEF Fits
<1>2. Len(u) >= 1 /\ \A i \in 1 .. Len(d) : u[i] = d[i]
  <2>1. Len(d) \in Nat /\ Len(w) \in Nat
    OBVIOUS
  <2> QED
    BY <2>1, AheadIs
<1>3. Len(d) \in Nat /\ l \in Nat /\ Len(done) \in Nat /\ Len(u) \in Nat
  <2>1. u \in Seq(Nat)
    BY AheadIs
  <2> QED
    BY <2>1
<1> HIDE DEF u, l
<1>4. \E j \in 1 .. l : at[j] = 0 /\ (z = 0 => j = Len(done) + 1)
  <2>1. CASE z = 0
    <3>1. at[l + 1] = Len(u) /\ Len(done) <= l /\ at[Len(done) + 1] = 0
      BY <1>1, <2>1 DEF Tight, l
    <3>2. Len(done) # l
      BY <1>2, <1>3, <3>1
    <3>3. Len(done) + 1 \in 1 .. l
      BY <1>3, <3>1, <3>2
    <3> QED
      BY <3>1, <3>3
  <2>2. CASE z # 0
    <3>1. 1 \in 1 .. Len(u) /\ u[1] \in Signs /\ Marked(t, u, at)
      BY <1>1, <1>2, <1>3, <2>2
    <3>2. PICK j \in 1 .. l : at[j] + 1 = 1
      BY <3>1 DEF Marked, l
    <3>3. at[j] \in Int
      BY <1>1, LaidIs DEF l
    <3>4. at[j] = 0
      BY <3>2, <3>3
    <3> QED
      BY <2>2, <3>4
  <2> QED
    BY <2>1, <2>2
<1>5. PICK j \in 1 .. l : at[j] = 0 /\ (z = 0 => j = Len(done) + 1)
  BY <1>4
<1>6. \A i \in 1 .. Len(t[j]) : i <= Len(d) => d[i] = t[j][i]
  <2> TAKE i \in 1 .. Len(t[j])
  <2> HAVE i <= Len(d)
  <2>1. Len(t[j]) \in Nat
    BY PiecesIn DEF l
  <2>2. at[j] + i >= 1 /\ at[j] + i = i /\ i \in 1 .. Len(d)
    BY <1>3, <1>5, <2>1
  <2>3. u[i] = t[j][i]
    BY <1>1, <1>5, <2>2 DEF Laid, l
  <2> QED
    BY <1>2, <2>2, <2>3
<1> QED
  BY <1>5, <1>6 DEF Begun, l

-----------------------------------------------------------------------------
(* The loop of rtsp_read_handle.                                           *)

Cuts == [buf : Seq(Nat), handled : Seq(Seq(Nat)), overdrawn : BOOLEAN]

LEMMA CutIs ==
  ASSUME NEW d \in Seq(Nat), NEW h \in Seq(Seq(Nat)), NEW o \in BOOLEAN
  PROVE  [buf |-> d, handled |-> h, overdrawn |-> o] \in Cuts
BY Zenon DEF Cuts

LEMMA CutOneIs ==
  ASSUME NEW s \in Cuts
  PROVE  LET v == GetRespLen(s.buf).len
         IN /\ v = 0 => CutOne(s) = s
            /\ v > Len(s.buf) => CutOne(s) = [buf |-> << >>, handled |-> s.handled, overdrawn |-> TRUE]
            /\ v # 0 /\ ~(v > Len(s.buf)) =>
                 CutOne(s) = [buf |-> Unread(s.buf, v), handled |-> Append(s.handled, SubSeq(s.buf, 1, v)),
                              overdrawn |-> s.overdrawn]
<1> DEFINE v == GetRespLen(s.buf).len
<1>1. s.buf \in Seq(Nat)
  BY DEF Cuts
<1>2. v \in Nat /\ Len(s.buf) \in Nat
  BY <1>1, VerdictIs
<1>3. CutOne(s) = IF v = 0 THEN s
                  ELSE IF v > Len(s.buf) THEN [buf |-> << >>, handled |-> s.handled, overdrawn |-> TRUE]
                  ELSE [buf |-> Unread(s.buf, v), handled |-> Append(s.handled, SubSeq(s.buf, 1, v)),
                        overdrawn |-> s.overdrawn]
  BY DEF CutOne
<1> HIDE DEF v
<1>4. v > Len(s.buf) => v # 0
  BY <1>2
<1> QED
  BY <1>3, <1>4 DEF v

LEMMA CutsIn ==
  ASSUME NEW s \in Cuts
  PROVE  CutOne(s) \in Cuts
<1> DEFINE v == GetRespLen(s.buf).len
<1>1. s.buf \in Seq(Nat) /\ s.handled \in Seq(Seq(Nat)) /\ s.overdrawn \in BOOLEAN
  BY DEF Cuts
<1>2. v \in Nat /\ Len(s.buf) \in Nat
  BY <1>1, VerdictIs
<1>3. /\ v = 0 => CutOne(s) = s
      /\ v > Len(s.buf) => CutOne(s) = [buf |-> << >>, handled |-> s.handled, overdrawn |-> TRUE]
      /\ v # 0 /\ ~(v > Len(s.buf)) =>
           CutOne(s) = [buf |-> Unread(s.buf, v), handled |-> Append(s.handled, SubSeq(s.buf, 1, v)),
                        overdrawn |-> s.overdrawn]
  BY CutOneIs
<1> HIDE DEF v
<1>4. CASE v = 0
  BY <1>3, <1>4
<1>5. CASE v > Len(s.buf)
  <2>1. << >> \in Seq(Nat) /\ TRUE \in BOOLEAN
    OBVIOUS
  <2>2. [buf |-> << >>, handled |-> s.handled, overdrawn |-> TRUE] \in Cuts
    BY <1>1, <2>1, CutIs
  <2> QED
    BY <1>3, <1>5, <2>2
<1>6. CASE v # 0 /\ ~(v > Len(s.buf))
  <2>1. v \in 0 .. Len(s.buf)
    BY <1>2, <1>6
  <2>2. Unread(s.buf, v) \in Seq(Nat)
    BY <1>1, <2>1, UnreadIs DEF Shifted
  <2>3. SubSeq(s.buf, 1, v) \in Seq(Nat)
    BY <1>1, <2>1, FirstIs
  <2>4. Append(s.handled, SubSeq(s.buf, 1, v)) \in Seq(Seq(Nat))
    BY <1>1, <2>3
  <2>5. [buf |-> Unread(s.buf, v), handled |-> Append(s.handled, SubSeq(s.buf, 1, v)),
         overdrawn |-> s.overdrawn] \in Cuts
    BY <1>1, <2>2, <2>4, CutIs
  <2> QED
    BY <1>3, <1>6, <2>5, Zenon
<1> QED
  BY <1>4, <1>5, <1>6

\* After some turns: at most n bytes are left, or nothing to handle.
Cutting(s, n, t, z, p, w) ==
  /\ s \in Cuts
  /\ GetRespLen(s.buf).len = 0 \/ Len(s.buf) <= n
  /\ s.overdrawn \/ \E at : Fits(t, z, p, s.buf \o w, at, s.handled)

LEMMA OneCut ==
  ASSUME NEW s, NEW n \in Nat, NEW t \in Seq(Pieces), NEW z, NEW p \in BOOLEAN, NEW w \in Seq(Nat),
         Cutting(s, n + 1, t, z, p, w), z # 0 => p
  PROVE  Cutting(CutOne(s), n, t, z, p, w)
<1> DEFINE v == GetRespLen(s.buf).len
           r == CutOne(s)
<1>1. s \in Cuts /\ s.buf \in Seq(Nat) /\ s.handled \in Seq(Seq(Nat)) /\ Len(s.buf) \in Nat
  BY DEF Cutting, Cuts
<1>2. v \in Nat /\ (v # 0 => Len(s.buf) >= 4 /\ s.buf[1] \in Signs)
  BY <1>1, VerdictIs
<1>3. /\ v = 0 => r = s
      /\ v > Len(s.buf) => r = [buf |-> << >>, handled |-> s.handled, overdrawn |-> TRUE]
      /\ v # 0 /\ ~(v > Len(s.buf)) =>
           r = [buf |-> Unread(s.buf, v), handled |-> Append(s.handled, SubSeq(s.buf, 1, v)),
                overdrawn |-> s.overdrawn]
  BY <1>1, CutOneIs
<1>4. r \in Cuts
  BY <1>1, CutsIn
<1> HIDE DEF v, r
<1>5. CASE v = 0
  BY <1>3, <1>4, <1>5 DEF Cutting, v, r
<1>6. CASE v > Len(s.buf)
  <2>1. r.buf = << >> /\ r.overdrawn = TRUE /\ Len(r.buf) <= n
    BY <1>3, <1>6
  <2> QED
    BY <1>4, <2>1 DEF Cutting, r
<1>7. CASE v # 0 /\ ~(v > Len(s.buf))
  <2>1. /\ r.buf = Unread(s.buf, v) /\ r.handled = Append(s.handled, SubSeq(s.buf, 1, v))
        /\ r.overdrawn = s.overdrawn
    BY <1>3, <1>7
  <2>2. v \in 0 .. Len(s.buf) /\ Len(s.buf) <= n + 1
    BY <1>1, <1>2, <1>7 DEF Cutting, v
  <2>3. Len(r.buf) <= n
    <3>1. Len(s.buf) = Len(r.buf) + v /\ r.buf \in Seq(Nat)
      BY <1>1, <2>1, <2>2, UnreadIs DEF Shifted
    <3>2. Len(r.buf) \in Nat
      BY <3>1
    <3> QED
      BY <1>2, <1>7, <2>2, <3>1, <3>2
  <2>4. ASSUME NEW at, Fits(t, z, p, s.buf \o w, at, s.handled)
        PROVE  \E a : Fits(t, z, p, r.buf \o w, a, r.handled)
    <3>1. PICK j \in 1 .. Len(t) : /\ at[j] = 0 /\ (z = 0 => j = Len(s.handled) + 1)
                                   /\ \A i \in 1 .. Len(t[j]) : i <= Len(s.buf) => s.buf[i] = t[j][i]
      <4>1. Len(s.buf) >= 1 /\ (z # 0 => p /\ s.buf[1] \in Signs)
        BY <1>1, <1>2, <1>7
      <4>2. Begun(t, z, s.buf, at, s.handled)
        BY <1>1, <2>4, <4>1, BeginsWithPiece
      <4> QED
        BY <4>2 DEF Begun
    <3>2. t[j] \in Pieces /\ t[j] \in Seq(Nat) /\ Len(t[j]) \in Nat
      BY PiecesIn
    <3>3. v = Len(t[j])
      <4>1. v \in {0, Len(t[j])}
        BY <1>1, <3>1, <3>2, PieceIs DEF v
      <4> QED
        BY <1>7, <4>1
    <3>4. SubSeq(s.buf, 1, v) = t[j]
      <4>1. /\ SubSeq(s.buf, 1, v) \in Seq(Nat) /\ Len(SubSeq(s.buf, 1, v)) = v
            /\ \A i \in 1 .. v : SubSeq(s.buf, 1, v)[i] = s.buf[i]
        BY <1>1, <2>2, FirstIs
      <4>2. \A i \in 1 .. v : i <= Len(s.buf)
        BY <1>1, <2>2
      <4>3. \A i \in 1 .. v : SubSeq(s.buf, 1, v)[i] = t[j][i]
        BY <3>1, <3>3, <4>1, <4>2
      <4> QED
        BY <3>2, <3>3, <4>1, <4>3, SeqEqual
    <3>5. Len(t[j]) <= Len(s.buf)
      BY <2>2, <3>3
    <3>6. Fits(t, z, p, Unread(s.buf, Len(t[j])) \o w, Back(at, Len(t[j])), Append(s.handled, t[j]))
      BY <1>1, <2>4, <3>1, <3>5, HandlesPiece
    <3> QED
      BY <2>1, <3>3, <3>4, <3>6
  <2>5. r.overdrawn \/ \E a : Fits(t, z, p, r.buf \o w, a, r.handled)
    BY <2>1, <2>4 DEF Cutting
  <2> QED
    BY <1>4, <2>3, <2>5 DEF Cutting, r
<1> QED
  BY <1>1, <1>2, <1>5, <1>6, <1>7

\* A function that is defined by its value before exists.
Iterates(N, V, s0, T) ==
  \E f \in [0 .. N -> V] : f[0] = s0 /\ \A n \in 1 .. N : f[n] = T[f[n - 1]]

LEMMA Iterated ==
  ASSUME NEW N \in Nat, NEW V, NEW s0 \in V, NEW T \in [V -> V]
  PROVE  Iterates(N, V, s0, T)
<1> DEFINE Upto == {k \in 0 .. N : \E f \in [0 .. N -> V] :
                      f[0] = s0 /\ \A n \in 1 .. N : n <= k => f[n] = T[f[n - 1]]}
           S == (0 .. N) \ Upto
<1>1. 0 \in Upto
  <2> DEFINE f == [n \in 0 .. N |-> s0]
  <2>1. f \in [0 .. N -> V] /\ f[0] = s0 /\ \A n \in 1 .. N : ~(n <= 0)
    OBVIOUS
  <2>2. 0 \in 0 .. N
    OBVIOUS
  <2> HIDE DEF f
  <2> QED
    BY <2>1, <2>2
<1>2. ASSUME NEW k \in 0 .. N, k + 1 \in 0 .. N, k \in Upto PROVE k + 1 \in Upto
  <2>1. PICK f \in [0 .. N -> V] : f[0] = s0 /\ \A n \in 1 .. N : n <= k => f[n] = T[f[n - 1]]
    BY <1>2
  <2> DEFINE g == [n \in 0 .. N |-> IF n = k + 1 THEN T[f[k]] ELSE f[n]]
  <2>2. f[k] \in V /\ T[f[k]] \in V /\ k \in Nat
    OBVIOUS
  <2>3. g \in [0 .. N -> V] /\ g[k + 1] = T[f[k]] /\ \A n \in 0 .. N : n # k + 1 => g[n] = f[n]
    BY <1>2, <2>2
  <2> HIDE DEF g
  <2>4. g[0] = s0
    BY <2>1, <2>2, <2>3
  <2>5. ASSUME NEW n \in 1 .. N, n <= k + 1 PROVE g[n] = T[g[n - 1]]
    <3>1. n - 1 \in 0 .. N /\ n - 1 # k + 1 /\ n \in 0 .. N
      BY <2>2, <2>5
    <3>2. g[n - 1] = f[n - 1]
      BY <2>3, <3>1
    <3>3. CASE n = k + 1
      <4>1. n - 1 = k
        BY <2>2, <3>3
      <4> QED
        BY <2>3, <3>2, <3>3, <4>1
    <3>4. CASE n # k + 1
      <4>1. n <= k
        BY <2>2, <2>5, <3>4
      <4> QED
        BY <2>1, <2>3, <3>1, <3>2, <3>4, <4>1
    <3> QED
      BY <3>3, <3>4
  <2> QED
    BY <1>2, <2>3, <2>4, <2>5
<1> HIDE DEF Upto
<1>3. N \in Upto
  <2> SUFFICES ASSUME N \notin Upto PROVE FALSE
    OBVIOUS
  <2>1. S # {} /\ S \in SUBSET Nat
    <3>1. N \in 0 .. N /\ 0 .. N \subseteq Nat
      OBVIOUS
    <3> QED
      BY <3>1, Zenon
  <2>2. PICK m \in S : \A y \in S : m <= y
    BY <2>1, LeastOfSet
  <2>3. m # 0 /\ m \in 0 .. N /\ m \notin Upto
    BY <1>1, <2>2
  <2>4. m - 1 \in 0 .. N /\ ~(m <= m - 1) /\ (m - 1) + 1 = m
    BY <2>3
  <2>5. m - 1 \in Upto
    BY <2>2, <2>4
  <2> QED
    BY <1>2, <2>3, <2>4, <2>5
<1>4. PICK f \in [0 .. N -> V] : f[0] = s0 /\ \A n \in 1 .. N : n <= N => f[n] = T[f[n - 1]]
  BY <1>3 DEF Upto
<1> QED
  BY <1>4 DEF Iterates

LEMMA CutLoops ==
  ASSUME NEW d \in Seq(Nat), handled \in Seq(Seq(Nat))
  PROVE  \E f \in [0 .. Len(d) -> Cuts] :
           /\ f[0] = [buf |-> d, handled |-> handled, overdrawn |-> FALSE]
           /\ \A n \in 1 .. Len(d) : f[n] = CutOne(f[n - 1])
           /\ Cut(d) = f[Len(d)]
<1> DEFINE N == Len(d)
           s0 == [buf |-> d, handled |-> handled, overdrawn |-> FALSE]
           loop[n \in 0 .. N] == IF n = 0 THEN s0 ELSE CutOne(loop[n - 1])
           T == [s \in Cuts |-> CutOne(s)]
<1>1. N \in Nat /\ s0 \in Cuts
  <2>1. N \in Nat
    OBVIOUS
  <2>2. s0 \in Cuts
    BY Zenon DEF Cuts
  <2> QED
    BY <2>1, <2>2
<1>2. T \in [Cuts -> Cuts] /\ \A s \in Cuts : T[s] = CutOne(s)
  BY CutsIn
<1>3. Cut(d) = loop[N]
  BY DEF Cut
<1> HIDE DEF T, s0, N
<1>4. PICK f \in [0 .. N -> Cuts] : f[0] = s0 /\ \A n \in 1 .. N : f[n] = T[f[n - 1]]
  <2>1. Iterates(N, Cuts, s0, T)
    BY <1>1, <1>2, Iterated
  <2> QED
    BY <2>1 DEF Iterates
<1>5. \A n \in 1 .. N : f[n] = CutOne(f[n - 1])
  <2> TAKE n \in 1 .. N
  <2>1. n - 1 \in 0 .. N
    BY <1>1
  <2>2. f[n - 1] \in Cuts
    BY <2>1
  <2> QED
    BY <1>2, <1>4, <2>2
<1>6. loop = [n \in 0 .. N |-> IF n = 0 THEN s0 ELSE CutOne(loop[n - 1])]
  <2>1. \A n \in 0 .. N : f[n] = IF n = 0 THEN s0 ELSE CutOne(f[n - 1])
    <3>1. \A n \in 0 .. N : n = 0 \/ n \in 1 .. N
      BY <1>1
    <3> QED
      BY <1>4, <1>5, <3>1
  <2>2. f = [n \in 0 .. N |-> IF n = 0 THEN s0 ELSE CutOne(f[n - 1])]
    <3>1. f = [n \in 0 .. N |-> f[n]]
      BY <1>4
    <3> QED
      BY <2>1, <3>1, Zenon
  <2> QED
    BY <2>2, Zenon
<1> HIDE DEF loop
<1>7. loop[0] = s0 /\ \A n \in 1 .. N : loop[n] = CutOne(loop[n - 1])
  <2>1. 0 \in 0 .. N /\ \A n \in 1 .. N : n \in 0 .. N /\ n # 0
    BY <1>1
  <2> QED
    BY <1>6, <2>1
<1>8. loop \in [0 .. N -> Cuts]
  <2> DEFINE Out == {n \in 0 .. N : loop[n] \notin Cuts}
  <2>1. Out = {}
    <3> SUFFICES ASSUME Out # {} PROVE FALSE
      OBVIOUS
    <3>1. Out \in SUBSET Nat
      BY <1>1
    <3>2. PICK n \in Out : \A k \in Out : n <= k
      <4> HIDE DEF Out
      <4> QED
        BY <3>1, LeastOfSet
    <3>3. n # 0
      BY <1>1, <1>7, <3>2
    <3>4. n - 1 \in 0 .. N /\ n \in 1 .. N /\ ~(n <= n - 1)
      BY <1>1, <3>2, <3>3
    <3>5. loop[n - 1] \in Cuts
      BY <3>2, <3>4
    <3>6. loop[n] \in Cuts
      BY <1>7, <3>4, <3>5, CutsIn
    <3> QED
      BY <3>2, <3>6
  <2>2. \A n \in 0 .. N : loop[n] \in Cuts
    BY <2>1
  <2>3. loop = [n \in 0 .. N |-> loop[n]]
    BY <1>6, Zenon
  <2> QED
    BY <2>2, <2>3
<1> QED
  BY <1>3, <1>7, <1>8 DEF s0, N

LEMMA CutEnds ==
  ASSUME NEW d \in Seq(Nat), handled \in Seq(Seq(Nat))
  PROVE  /\ Cut(d) \in Cuts
         /\ \A t \in Seq(Pieces), w \in Seq(Nat), p \in BOOLEAN : \A z, at :
              /\ z # 0 => p
              /\ Fits(t, z, p, d \o w, at, handled)
              => Cutting(Cut(d), 0, t, z, p, w)
<1> DEFINE N == Len(d)
           s0 == [buf |-> d, handled |-> handled, overdrawn |-> FALSE]
<1>1. N \in Nat /\ s0 \in Cuts
  <2>1. N \in Nat
    OBVIOUS
  <2>2. s0 \in Cuts
    BY Zenon DEF Cuts
  <2> QED
    BY <2>1, <2>2
<1>2. PICK f \in [0 .. N -> Cuts] :
        f[0] = s0 /\ (\A n \in 1 .. N : f[n] = CutOne(f[n - 1])) /\ Cut(d) = f[N]
  BY CutLoops
<1> HIDE DEF N
<1>3. Cut(d) \in Cuts
  BY <1>1, <1>2
<1>4. ASSUME NEW t \in Seq(Pieces), NEW w \in Seq(Nat), NEW p \in BOOLEAN, NEW z, NEW at,
             z # 0 => p, Fits(t, z, p, d \o w, at, handled)
      PROVE  Cutting(Cut(d), 0, t, z, p, w)
  <2>1. Cutting(s0, N, t, z, p, w)
    BY <1>1, <1>4 DEF Cutting, N
  <2> HIDE DEF s0
  <2> DEFINE Late == {n \in 0 .. N : ~Cutting(f[n], N - n, t, z, p, w)}
  <2>2. Late = {}
    <3> SUFFICES ASSUME Late # {} PROVE FALSE
      OBVIOUS
    <3>1. Late \in SUBSET Nat
      BY <1>1
    <3>2. PICK n \in Late : \A k \in Late : n <= k
      <4> HIDE DEF Late
      <4> QED
        BY <3>1, LeastOfSet
    <3>3. n # 0
      <4>1. N - 0 = N
        BY <1>1
      <4> QED
        BY <1>2, <2>1, <3>2, <4>1
    <3>4. n - 1 \in 0 .. N /\ n \in 1 .. N /\ ~(n <= n - 1) /\ N - (n - 1) = N - n + 1 /\ N - n \in Nat
      BY <1>1, <3>2, <3>3
    <3>5. Cutting(f[n - 1], N - n + 1, t, z, p, w)
      BY <3>2, <3>4
    <3>6. Cutting(CutOne(f[n - 1]), N - n, t, z, p, w)
      BY <1>4, <3>4, <3>5, OneCut
    <3>7. Cutting(f[n], N - n, t, z, p, w)
      BY <1>2, <3>4, <3>6
    <3> QED
      BY <3>2, <3>7
  <2>3. N \in 0 .. N /\ N - N = 0
    BY <1>1
  <2>4. Cutting(f[N], 0, t, z, p, w)
    BY <2>2, <2>3
  <2> QED
    BY <1>2, <2>4
<1> QED
  BY <1>3, <1>4

\* e are the last bytes of d.
Remains(d, e) == Len(e) <= Len(d) /\ Shifted(d, Len(d) - Len(e), e)

LEMMA RemainsIs ==
  ASSUME NEW d \in Seq(Nat), NEW e \in Seq(Nat), NEW n \in Nat, NEW v, Remains(d, e), Shifted(e, n, v)
  PROVE  Remains(d, v)
<1> DEFINE k == Len(d) - Len(e)
<1>1. Len(d) \in Nat /\ Len(e) \in Nat /\ k \in Nat
  BY DEF Remains
<1>2. \A i \in 1 .. Len(e) : e[i] = d[i + k]
  BY DEF Remains, Shifted
<1>3. v \in Seq(Nat) /\ Len(v) \in Nat /\ Len(e) = Len(v) + n /\ \A i \in 1 .. Len(v) : v[i] = e[i + n]
  BY DEF Shifted
<1>4. Len(v) <= Len(d) /\ Len(d) - Len(v) = n + k /\ n + k \in Nat /\ Len(d) = Len(v) + (n + k)
  BY <1>1, <1>3
<1> HIDE DEF k
<1>5. \A i \in 1 .. Len(v) : i + n \in 1 .. Len(e) /\ i + n + k = i + (n + k)
  BY <1>1, <1>3
<1>6. \A i \in 1 .. Len(v) : v[i] = d[i + (n + k)]
  BY <1>2, <1>3, <1>5
<1> QED
  BY <1>3, <1>4, <1>6 DEF Remains, Shifted

LEMMA OneRemains ==
  ASSUME NEW d \in Seq(Nat), NEW s \in Cuts, Remains(d, s.buf)
  PROVE  Remains(d, CutOne(s).buf)
<1> DEFINE v == GetRespLen(s.buf).len
           r == CutOne(s)
<1>1. s.buf \in Seq(Nat) /\ Len(s.buf) \in Nat /\ Len(d) \in Nat
  BY DEF Cuts
<1>2. v \in Nat
  BY <1>1, VerdictIs
<1>3. /\ v = 0 => r = s
      /\ v > Len(s.buf) => r.buf = << >>
      /\ v # 0 /\ ~(v > Len(s.buf)) => r.buf = Unread(s.buf, v)
  BY CutOneIs
<1> HIDE DEF v, r
<1>4. CASE v = 0
  BY <1>3, <1>4 DEF r
<1>5. CASE v > Len(s.buf)
  <2>1. << >> \in Seq(Nat) /\ Len(<< >>) = 0 /\ Len(d) - 0 = Len(d) /\ Len(d) = 0 + Len(d)
    BY <1>1
  <2>2. Remains(d, << >>)
    BY <1>1, <2>1 DEF Remains, Shifted
  <2> QED
    BY <1>3, <1>5, <2>2 DEF r
<1>6. CASE v # 0 /\ ~(v > Len(s.buf))
  <2>1. v \in 0 .. Len(s.buf)
    BY <1>1, <1>2, <1>6
  <2>2. Shifted(s.buf, v, r.buf)
    BY <1>1, <1>3, <1>6, <2>1, UnreadIs
  <2> QED
    BY <1>1, <1>2, <2>2, RemainsIs DEF r
<1> QED
  BY <1>4, <1>5, <1>6

LEMMA CutRemains ==
  ASSUME NEW d \in Seq(Nat), handled \in Seq(Seq(Nat))
  PROVE  Remains(d, Cut(d).buf)
<1> DEFINE N == Len(d)
           s0 == [buf |-> d, handled |-> handled, overdrawn |-> FALSE]
<1>1. N \in Nat
  OBVIOUS
<1>2. PICK f \in [0 .. N -> Cuts] :
        f[0] = s0 /\ (\A n \in 1 .. N : f[n] = CutOne(f[n - 1])) /\ Cut(d) = f[N]
  BY CutLoops
<1>3. Remains(d, s0.buf)
  BY <1>1 DEF Remains, Shifted
<1> HIDE DEF N, s0
<1> DEFINE Late == {n \in 0 .. N : ~Remains(d, f[n].buf)}
<1>4. Late = {}
  <2> SUFFICES ASSUME Late # {} PROVE FALSE
    OBVIOUS
  <2>1. Late \in SUBSET Nat
    BY <1>1
  <2>2. PICK n \in Late : \A k \in Late : n <= k
    <3> HIDE DEF Late
    <3> QED
      BY <2>1, LeastOfSet
  <2>3. n # 0
    BY <1>2, <1>3, <2>2
  <2>4. n - 1 \in 0 .. N /\ n \in 1 .. N /\ ~(n <= n - 1)
    BY <1>1, <2>2, <2>3
  <2>5. Remains(d, f[n - 1].buf) /\ f[n - 1] \in Cuts
    BY <1>2, <2>2, <2>4
  <2>6. Remains(d, f[n].buf)
    BY <1>2, <2>4, <2>5, OneRemains
  <2> QED
    BY <2>2, <2>6
<1>5. N \in 0 .. N
  BY <1>1
<1> QED
  BY <1>2, <1>4, <1>5

-----------------------------------------------------------------------------
(* The steps: something is sent, some bytes are read.                      *)

\* x is u and then m.
Grown(u, m, x) ==
  /\ u \in Seq(Nat) /\ m \in Seq(Nat) /\ x \in Seq(Nat) /\ Len(x) = Len(u) + Len(m)
  /\ \A i \in 1 .. Len(u) : x[i] = u[i]
  /\ \A k \in 1 .. Len(m) : x[Len(u) + k] = m[k]

LEMMA ConcatGrows ==
  ASSUME NEW u \in Seq(Nat), NEW m \in Seq(Nat)
  PROVE  Grown(u, m, u \o m)
<1> DEFINE x == u \o m
<1>1. Len(u) \in Nat /\ Len(m) \in Nat
  OBVIOUS
<1>2. /\ x \in Seq(Nat) /\ Len(x) = Len(u) + Len(m)
      /\ \A i \in 1 .. Len(u) + Len(m) : x[i] = IF i <= Len(u) THEN u[i] ELSE m[i - Len(u)]
  BY ConcatProperties
<1> HIDE DEF x
<1>3. \A i \in 1 .. Len(u) : x[i] = u[i]
  <2>1. \A i \in 1 .. Len(u) : i \in 1 .. Len(u) + Len(m) /\ i <= Len(u)
    BY <1>1
  <2> QED
    BY <1>2, <2>1
<1>4. ASSUME NEW k \in 1 .. Len(m) PROVE x[Len(u) + k] = m[k]
  <2>1. Len(u) + k \in 1 .. Len(u) + Len(m) /\ ~(Len(u) + k <= Len(u)) /\ Len(u) + k - Len(u) = k
    BY <1>1
  <2> QED
    BY <1>2, <2>1
<1> QED
  BY <1>2, <1>3, <1>4 DEF Grown, x

LEMMA ThreeParts ==
  ASSUME NEW p \in Seq(Nat), NEW q \in Seq(Nat), NEW r \in Seq(Nat)
  PROVE  (p \o q) \o r = p \o (q \o r)
BY ConcatAssociative

LEMMA WireGrows ==
  ASSUME NEW d \in Seq(Nat), NEW w \in Seq(Nat), NEW m \in Seq(Nat)
  PROVE  Grown(d \o w, m, d \o (w \o m))
<1>1. d \o w \in Seq(Nat)
  BY AheadIs
<1>2. Grown(d \o w, m, (d \o w) \o m)
  BY <1>1, ConcatGrows
<1>3. (d \o w) \o m = d \o (w \o m)
  BY ThreeParts
<1> QED
  BY <1>2, <1>3

LEMMA NoiseFits ==
  ASSUME NEW t \in Seq(Pieces), NEW z \in Nat, NEW p \in BOOLEAN, NEW u, NEW at, NEW done, NEW n \in Noises, NEW x,
         Fits(t, z, p, u, at, done), Grown(u, n, x)
  PROVE  Fits(t, z + 1, p /\ Plain(n, 1), x, at, done)
<1> DEFINE l == Len(t)
<1>1. /\ Laid(t, u, at)
      /\ p => Marked(t, u, at)
      /\ \E g : Picked(t, at, done, g)
  BY DEF Fits
<1>2. /\ Len(u) \in Nat /\ Len(n) \in Nat /\ Len(x) = Len(u) + Len(n) /\ l \in Nat
      /\ \A i \in 1 .. Len(u) : x[i] = u[i]
      /\ \A k \in 1 .. Len(n) : x[Len(u) + k] = n[k]
  <2>1. u \in Seq(Nat) /\ n \in Seq(Nat) /\ l \in Nat
    BY DEF Grown
  <2>2. Len(u) \in Nat /\ Len(n) \in Nat
    BY <2>1
  <2> HIDE DEF l
  <2> QED
    BY <2>1, <2>2 DEF Grown
<1>3. \A j \in 1 .. l : at[j] + Len(t[j]) <= at[l + 1] /\ at[j] \in Int /\ Len(t[j]) \in Nat
  <2>1. \A j \in 1 .. l : at[j] + Len(t[j]) <= at[l + 1] /\ at[j] \in Int
    BY <1>1, LaidIs
  <2>2. \A j \in 1 .. l : Len(t[j]) \in Nat
    BY PiecesIn
  <2> QED
    BY <2>1, <2>2
<1>4. at[l + 1] \in Int /\ at[l + 1] <= Len(u)
  <2>1. l + 1 \in 1 .. l + 1
    BY <1>2
  <2> QED
    BY <1>1, <2>1 DEF Laid
<1> HIDE DEF l
<1>5. Laid(t, x, at)
  <2>1. at[l + 1] <= Len(x)
    BY <1>2, <1>4
  <2>2. ASSUME NEW j \in 1 .. l, NEW k \in 1 .. Len(t[j]), at[j] + k >= 1
        PROVE  x[at[j] + k] = t[j][k]
    <3>1. at[j] + Len(t[j]) <= at[l + 1] /\ at[j] \in Int /\ Len(t[j]) \in Nat
      BY <1>3
    <3> DEFINE y == at[j]
               e == at[l + 1]
    <3>2. y + Len(t[j]) <= e /\ y \in Int /\ e \in Int /\ e <= Len(u) /\ y + k >= 1
      BY <1>4, <2>2, <3>1
    <3> HIDE DEF y, e
    <3>3. y + k \in 1 .. Len(u)
      BY <1>2, <3>1, <3>2
    <3>4. u[y + k] = t[j][k]
      BY <1>1, <2>2 DEF Laid, l, y
    <3> QED
      BY <1>2, <3>3, <3>4 DEF y
  <2> QED
    BY <1>1, <2>1, <2>2 DEF Laid, l
<1>6. p /\ Plain(n, 1) => Marked(t, x, at)
  <2> SUFFICES ASSUME p, Plain(n, 1), NEW i \in 1 .. Len(x), x[i] \in Signs
               PROVE  \E j \in 1 .. l : at[j] + 1 = i
    BY DEF Marked, l
  <2>1. CASE i <= Len(u)
    <3>1. i \in 1 .. Len(u) /\ u[i] \in Signs
      BY <1>2, <2>1
    <3> QED
      BY <1>1, <3>1 DEF Marked, l
  <2>2. CASE ~(i <= Len(u))
    <3>1. i - Len(u) \in 1 .. Len(n) /\ Len(u) + (i - Len(u)) = i
      BY <1>2, <2>2
    <3>2. n[i - Len(u)] \in Signs
      BY <1>2, <3>1
    <3> QED
      BY <3>1, <3>2 DEF Plain
  <2> QED
    BY <2>1, <2>2
<1>7. z + 1 # 0
  OBVIOUS
<1> QED
  BY <1>1, <1>5, <1>6, <1>7 DEF Fits

LEMMA PieceFits ==
  ASSUME NEW t \in Seq(Pieces), NEW z, NEW p \in BOOLEAN, NEW u, NEW at, NEW done \in Seq(Seq(Nat)),
         NEW m \in Pieces, NEW x,
         Fits(t, z, p, u, at, done), Grown(u, m, x)
  PROVE  \E a : Fits(Append(t, m), z, p /\ Plain(m, 2), x, a, done)
<1> DEFINE l == Len(t)
           s == Append(t, m)
           a == [i \in 1 .. l + 2 |-> IF i <= l THEN at[i] ELSE IF i = l + 1 THEN Len(u) ELSE Len(x)]
<1>1. /\ Laid(t, u, at)
      /\ p => Marked(t, u, at)
      /\ z = 0 => Tight(t, u, at, done)
      /\ \E g : Picked(t, at, done, g)
  BY DEF Fits
<1>2. /\ Len(u) \in Nat /\ Len(m) \in Nat /\ Len(x) = Len(u) + Len(m) /\ l \in Nat
      /\ \A i \in 1 .. Len(u) : x[i] = u[i]
      /\ \A k \in 1 .. Len(m) : x[Len(u) + k] = m[k]
  <2>1. u \in Seq(Nat) /\ m \in Seq(Nat) /\ l \in Nat
    BY DEF Grown
  <2>2. Len(u) \in Nat /\ Len(m) \in Nat
    BY <2>1
  <2> HIDE DEF l
  <2> QED
    BY <2>1, <2>2 DEF Grown
<1>3. \A j \in 1 .. l : at[j] + Len(t[j]) <= at[l + 1] /\ at[j] \in Int /\ Len(t[j]) \in Nat
  <2>1. \A j \in 1 .. l : at[j] + Len(t[j]) <= at[l + 1] /\ at[j] \in Int
    BY <1>1, LaidIs
  <2>2. \A j \in 1 .. l : Len(t[j]) \in Nat
    BY PiecesIn
  <2> QED
    BY <2>1, <2>2
<1>4. at[l + 1] \in Int /\ at[l + 1] <= Len(u)
  <2>1. l + 1 \in 1 .. l + 1
    BY <1>2
  <2> QED
    BY <1>1, <2>1 DEF Laid
<1>5. Len(s) = l + 1 /\ s[l + 1] = m /\ \A i \in 1 .. l : s[i] = t[i]
  OBVIOUS
<1> HIDE DEF l, s
<1>6. a \in [1 .. l + 2 -> Int] /\ a[l + 1] = Len(u) /\ a[l + 2] = Len(x) /\ \A i \in 1 .. l : a[i] = at[i]
  <2>1. l + 1 \in 1 .. l + 2 /\ l + 2 \in 1 .. l + 2 /\ \A i \in 1 .. l : i \in 1 .. l + 2 /\ i <= l
    BY <1>2
  <2>2. ~(l + 1 <= l) /\ ~(l + 2 <= l) /\ l + 2 # l + 1 /\ Len(x) \in Int /\ Len(u) \in Int
    BY <1>2
  <2>3. \A i \in 1 .. l + 2 : i <= l => i \in 1 .. l /\ at[i] \in Int
    BY <1>2, <1>3
  <2> QED
    BY <2>1, <2>2, <2>3
<1> HIDE DEF a
<1>7. /\ \A i \in 1 .. l + 1 : i \in 1 .. l \/ i = l + 1
      /\ \A i \in 1 .. l + 2 : i \in 1 .. l \/ i = l + 1 \/ i = l + 2
  BY <1>2
<1>8. ASSUME NEW i \in 1 .. l PROVE a[i] + Len(t[i]) <= Len(u) /\ a[i] \in Int /\ a[i] = at[i] /\ Len(t[i]) \in Nat
  <2>1. a[i] = at[i] /\ at[i] \in Int /\ Len(t[i]) \in Nat /\ at[i] + Len(t[i]) <= at[l + 1]
    BY <1>3, <1>6
  <2> QED
    BY <1>2, <1>4, <2>1
<1>9. Laid(s, x, a)
  <2>1. ASSUME NEW i \in 1 .. l + 1, NEW j \in 1 .. l + 2, i < j PROVE a[i] + Len(s[i]) <= a[j]
    <3>1. CASE i = l + 1
      <4>1. j = l + 2
        BY <1>2, <2>1, <3>1
      <4> QED
        BY <1>2, <1>5, <1>6, <3>1, <4>1
    <3>2. CASE i \in 1 .. l
      <4>1. a[i] + Len(s[i]) <= Len(u) /\ s[i] = t[i] /\ a[i] = at[i] /\ a[i] \in Int /\ Len(s[i]) \in Nat
        BY <1>5, <1>8, <3>2
      <4>2. CASE j = l + 1
        BY <1>6, <4>1, <4>2
      <4>3. CASE j = l + 2
        BY <1>2, <1>6, <4>1, <4>3
      <4>4. CASE j \in 1 .. l
        <5>1. at[i] + Len(t[i]) <= at[j]
          BY <1>1, <2>1, <3>2, <4>4, LaidIs DEF l
        <5> QED
          BY <1>6, <4>1, <4>4, <5>1
      <4>5. j \in 1 .. l \/ j = l + 1 \/ j = l + 2
        BY <1>7
      <4> QED
        BY <4>2, <4>3, <4>4, <4>5
    <3> QED
      BY <1>7, <3>1, <3>2
  <2>2. ASSUME NEW j \in 1 .. l + 1, NEW k \in 1 .. Len(s[j]), a[j] + k >= 1
        PROVE  x[a[j] + k] = s[j][k]
    <3>1. CASE j = l + 1
      <4>1. s[j] = m /\ a[j] = Len(u) /\ k \in 1 .. Len(m)
        BY <1>5, <1>6, <3>1
      <4> QED
        BY <1>2, <4>1
    <3>2. CASE j \in 1 .. l
      <4>1. s[j] = t[j] /\ k \in 1 .. Len(t[j]) /\ a[j] = at[j]
        BY <1>5, <1>6, <3>2
      <4> DEFINE y == at[j]
      <4>2. y + Len(t[j]) <= Len(u) /\ y \in Int /\ Len(t[j]) \in Nat /\ y + k >= 1
        BY <1>8, <2>2, <3>2, <4>1
      <4>3. u[y + k] = t[j][k]
        BY <1>1, <3>2, <4>1, <4>2 DEF Laid, l
      <4> HIDE DEF y
      <4>4. y + k \in 1 .. Len(u)
        BY <1>2, <4>1, <4>2
      <4> QED
        BY <1>2, <4>1, <4>3, <4>4 DEF y
    <3> QED
      BY <1>7, <3>1, <3>2
  <2>3. l + 1 + 1 = l + 2
    BY <1>2
  <2>4. a[l + 2] <= Len(x)
    BY <1>2, <1>6
  <2> QED
    BY <1>5, <1>6, <2>1, <2>2, <2>3, <2>4 DEF Laid
<1>10. ASSUME p, Plain(m, 2) PROVE Marked(s, x, a)
  <2> SUFFICES ASSUME NEW i \in 1 .. Len(x), x[i] \in Signs
               PROVE  \E j \in 1 .. l + 1 : a[j] + 1 = i
    BY <1>5 DEF Marked
  <2>1. CASE i <= Len(u)
    <3>1. i \in 1 .. Len(u) /\ u[i] \in Signs
      BY <1>2, <2>1
    <3>2. PICK j \in 1 .. l : at[j] + 1 = i
      BY <1>1, <1>10, <3>1 DEF Marked, l
    <3>3. j \in 1 .. l + 1 /\ a[j] + 1 = i
      BY <1>2, <1>6, <3>2
    <3> QED
      BY <3>3
  <2>2. CASE ~(i <= Len(u))
    <3> DEFINE k == i - Len(u)
    <3>1. k \in 1 .. Len(m) /\ Len(u) + k = i
      BY <1>2, <2>2
    <3> HIDE DEF k
    <3>2. m[k] \in Signs
      BY <1>2, <3>1
    <3>3. k = 1
      <4>1. k # 1 => k \in 2 .. Len(m)
        BY <1>2, <3>1
      <4> QED
        BY <1>10, <3>2, <4>1 DEF Plain
    <3>4. l + 1 \in 1 .. l + 1 /\ a[l + 1] + 1 = i
      BY <1>2, <1>6, <3>1, <3>3
    <3> QED
      BY <3>4
  <2> QED
    BY <2>1, <2>2
<1>11. ASSUME z = 0 PROVE Tight(s, x, a, done)
  <2>1. /\ \A i \in 1 .. l : at[i + 1] = at[i] + Len(t[i])
        /\ at[l + 1] = Len(u) /\ Len(done) <= l /\ at[Len(done) + 1] = 0
        /\ \A i \in 1 .. Len(done) : done[i] = t[i]
    BY <1>1, <1>11 DEF Tight, l
  <2>2. Len(done) \in Nat
    OBVIOUS
  <2>3. \A i \in 1 .. l + 1 : a[i] = at[i]
    BY <1>6, <1>7, <2>1
  <2>4. ASSUME NEW i \in 1 .. l + 1 PROVE a[i + 1] = a[i] + Len(s[i])
    <3>1. CASE i = l + 1
      <4>1. i + 1 = l + 2
        BY <1>2, <3>1
      <4> QED
        BY <1>2, <1>5, <1>6, <3>1, <4>1
    <3>2. CASE i \in 1 .. l
      <4>1. i + 1 \in 1 .. l + 1
        BY <1>2, <3>2
      <4> QED
        BY <1>5, <2>1, <2>3, <3>2, <4>1
    <3> QED
      BY <1>7, <3>1, <3>2
  <2>5. Len(done) <= l + 1 /\ Len(done) + 1 \in 1 .. l + 1 /\ l + 1 + 1 = l + 2
    BY <1>2, <2>1, <2>2
  <2>6. \A i \in 1 .. Len(done) : done[i] = s[i]
    <3>1. \A i \in 1 .. Len(done) : i \in 1 .. l
      BY <1>2, <2>1, <2>2
    <3> QED
      BY <1>5, <2>1, <3>1
  <2> QED
    BY <1>5, <1>6, <2>1, <2>3, <2>4, <2>5, <2>6 DEF Tight
<1>12. \E g : Picked(s, a, done, g)
  <2>1. PICK g : Picked(t, at, done, g)
    BY <1>1
  <2>2. \A i \in 1 .. Len(done) : g[i] \in 1 .. l /\ done[i] = t[g[i]] /\ at[g[i]] + Len(t[g[i]]) <= 0
    BY <2>1 DEF Picked, l
  <2>3. \A j \in 1 .. l : j \in 1 .. l + 1 /\ s[j] = t[j] /\ a[j] = at[j]
    BY <1>2, <1>5, <1>6
  <2>4. g \in [1 .. Len(done) -> 1 .. l + 1]
    BY <2>1, <2>3 DEF Picked, l
  <2>5. Picked(s, a, done, g)
    BY <1>5, <2>1, <2>2, <2>3, <2>4 DEF Picked
  <2> QED
    BY <2>5
<1>13. Fits(s, z, p /\ Plain(m, 2), x, a, done)
  BY <1>9, <1>10, <1>11, <1>12 DEF Fits
<1> QED
  BY <1>13 DEF s

LEMMA ReadIs ==
  ASSUME NEW b \in Seq(Nat), NEW w \in Seq(Nat), NEW n \in 1 .. Len(w)
  PROVE  /\ b \o SubSeq(w, 1, n) \in Seq(Nat) /\ Len(b \o SubSeq(w, 1, n)) = Len(b) + n
         /\ Unread(w, n) \in Seq(Nat)
         /\ (b \o SubSeq(w, 1, n)) \o Unread(w, n) = b \o w
         /\ \A i \in 1 .. n : (b \o w)[Len(b) + i] = SubSeq(w, 1, n)[i]
<1> DEFINE f == SubSeq(w, 1, n)
           r == Unread(w, n)
<1>1. Len(b) \in Nat /\ Len(w) \in Nat /\ n \in Nat /\ n \in 0 .. Len(w)
  OBVIOUS
<1>2. f \in Seq(Nat) /\ Len(f) = n /\ \A i \in 1 .. n : f[i] = w[i]
  BY <1>1, FirstIs
<1>3. r \in Seq(Nat) /\ Len(w) = Len(r) + n /\ \A i \in 1 .. Len(r) : r[i] = w[i + n]
  BY <1>1, UnreadIs DEF Shifted
<1> HIDE DEF f, r
<1>4. Grown(f, r, f \o r)
  BY <1>2, <1>3, ConcatGrows
<1>5. f \o r \in Seq(Nat) /\ Len(f \o r) = Len(w)
  <2>1. Len(r) \in Nat
    BY <1>3
  <2> QED
    BY <1>1, <1>2, <1>3, <1>4, <2>1 DEF Grown
<1>6. \A i \in 1 .. Len(w) : (f \o r)[i] = w[i]
  <2> TAKE i \in 1 .. Len(w)
  <2>1. CASE i <= n
    <3>1. i \in 1 .. n
      BY <1>1, <2>1
    <3> QED
      BY <1>2, <1>4, <3>1 DEF Grown
  <2>2. CASE ~(i <= n)
    <3>1. i - n \in 1 .. Len(r) /\ n + (i - n) = i /\ i - n + n = i
      BY <1>1, <1>3, <2>2
    <3>2. r[i - n] = w[i]
      BY <1>3, <3>1
    <3>3. (f \o r)[n + (i - n)] = r[i - n]
      BY <1>2, <1>4, <3>1 DEF Grown
    <3> QED
      BY <3>1, <3>2, <3>3
  <2> QED
    BY <2>1, <2>2
<1>7. f \o r = w
  BY <1>5, <1>6, SeqEqual
<1>8. (b \o f) \o r = b \o w
  <2>1. (b \o f) \o r = b \o (f \o r)
    BY <1>2, <1>3, ThreeParts
  <2> QED
    BY <1>7, <2>1
<1>9. b \o f \in Seq(Nat) /\ Len(b \o f) = Len(b) + n
  BY <1>2, AheadIs
<1>10. ASSUME NEW i \in 1 .. n PROVE (b \o w)[Len(b) + i] = f[i]
  <2>1. i \in 1 .. Len(w)
    BY <1>1
  <2>2. Grown(b, w, b \o w)
    BY ConcatGrows
  <2>3. (b \o w)[Len(b) + i] = w[i]
    BY <2>1, <2>2 DEF Grown
  <2> QED
    BY <1>2, <2>3
<1> QED
  BY <1>3, <1>8, <1>9, <1>10 DEF f, r

-----------------------------------------------------------------------------
(* The types.                                                              *)

StreamTypeOK ==
  /\ wire \in Seq(Nat) /\ buf \in Seq(Nat)
  /\ sent \in Seq(Pieces) /\ Len(sent) <= MaxSent
  /\ noises \in 0 .. MaxNoise
  /\ plain \in BOOLEAN /\ heads \subseteq Nat
  /\ handled \in Seq(Seq(Nat))
  /\ missed \in BOOLEAN /\ overdrawn \in BOOLEAN

\* What a read does, and how many bytes of what was not consumed are gone after it.
LEMMA BytesRead ==
  ASSUME StreamTypeOK, NEW n \in 1 .. Len(wire), ReadBytes(n)
  PROVE  LET d == buf \o SubSeq(wire, 1, n)
             end == Cut(d)
             bad == GetRespLen(end.buf).type = "BAD"
             gone == Len(d) - Len(buf')
         IN /\ d \in Seq(Nat) /\ end \in Cuts /\ Remains(d, end.buf) /\ Remains(d, buf')
            /\ buf' = (IF bad THEN Unread(end.buf, Skip(end.buf)) ELSE end.buf)
            /\ buf' \in Seq(Nat) /\ gone \in 0 .. Len(d)
            /\ wire' = Unread(wire, n) /\ wire' \in Seq(Nat) /\ d \o wire' = buf \o wire
            /\ sent' = sent /\ noises' = noises /\ plain' = plain
            /\ handled' = end.handled /\ overdrawn' = end.overdrawn
            /\ heads' = {h - gone : h \in {i \in heads : i > gone}}
            /\ missed' = (missed \/ \E h \in heads : h # Len(d) /\ h \in Len(d) - Len(end.buf) + 1 .. gone)
            /\ ~overdrawn
<1> DEFINE d == buf \o SubSeq(wire, 1, n)
           end == Cut(d)
           bad == GetRespLen(end.buf).type = "BAD"
           gone == Len(d) - Len(buf')
<1>1. d \in Seq(Nat) /\ Unread(wire, n) \in Seq(Nat) /\ d \o Unread(wire, n) = buf \o wire
  BY ReadIs DEF StreamTypeOK
<1>2. end \in Cuts /\ Remains(d, end.buf) /\ Len(end.buf) <= Len(d)
  <2> HIDE DEF d
  <2> QED
    BY <1>1, CutEnds, CutRemains DEF StreamTypeOK, Remains
<1>3. /\ buf' = IF bad THEN Unread(end.buf, Skip(end.buf)) ELSE end.buf
      /\ wire' = Unread(wire, n) /\ sent' = sent /\ noises' = noises /\ plain' = plain
      /\ handled' = end.handled /\ overdrawn' = end.overdrawn
      /\ heads' = {h - gone : h \in {i \in heads : i > gone}}
      /\ missed' = (missed \/ \E h \in heads : h # Len(d) /\ h \in Len(d) - Len(end.buf) + 1 .. gone)
      /\ ~overdrawn
  BY DEF ReadBytes
<1> HIDE DEF bad, end, d
<1>4. end.buf \in Seq(Nat) /\ Len(end.buf) \in Nat /\ Len(d) \in Nat
  BY <1>1, <1>2 DEF Cuts
<1>5. Shifted(end.buf, Skip(end.buf), Unread(end.buf, Skip(end.buf)))
  BY <1>4, SkipIs, UnreadIs
<1>6. Unread(end.buf, Skip(end.buf)) \in Seq(Nat) /\ Len(Unread(end.buf, Skip(end.buf))) <= Len(end.buf)
  BY <1>4, <1>5 DEF Shifted
<1>7. buf' \in Seq(Nat) /\ Len(buf') <= Len(d)
  BY <1>2, <1>3, <1>4, <1>6
<1>8. gone \in 0 .. Len(d)
  BY <1>4, <1>7
<1>9. Remains(d, buf')
  <2>1. Skip(end.buf) \in Nat
    BY <1>4, SkipIs
  <2>2. Remains(d, Unread(end.buf, Skip(end.buf)))
    BY <1>1, <1>2, <1>4, <1>5, <2>1, RemainsIs
  <2> QED
    BY <1>2, <1>3, <2>2
<1> QED
  BY <1>1, <1>2, <1>3, <1>7, <1>8, <1>9 DEF d, end, bad

LEMMA StreamTypeInit == StreamInit => StreamTypeOK
<1>1. << >> \in Seq(Nat) /\ << >> \in Seq(Pieces) /\ << >> \in Seq(Seq(Nat)) /\ Len(<< >>) = 0
  OBVIOUS
<1>2. MaxSent \in Nat /\ MaxNoise \in Nat
  BY StreamAssumption
<1>3. 0 <= MaxSent /\ 0 \in 0 .. MaxNoise
  BY <1>2
<1> QED
  BY <1>1, <1>3 DEF StreamInit, StreamTypeOK

LEMMA StreamTypeNext == StreamTypeOK /\ [StreamNext]_streamVars => StreamTypeOK'
<1> SUFFICES ASSUME StreamTypeOK, [StreamNext]_streamVars PROVE StreamTypeOK'
  OBVIOUS
<1>1. CASE UNCHANGED streamVars
  BY <1>1 DEF StreamTypeOK, streamVars
<1>2. ASSUME NEW m \in Pieces, SendPiece(m) PROVE StreamTypeOK'
  <2>1. m \in Seq(Nat)
    BY StreamAssumption
  <2>2. wire' \in Seq(Nat)
    BY <1>2, <2>1, AheadIs DEF SendPiece, StreamTypeOK
  <2>3. sent' \in Seq(Pieces) /\ Len(sent') <= MaxSent
    <3>1. sent' = Append(sent, m) /\ Len(sent) < MaxSent /\ MaxSent \in Nat /\ Len(sent) \in Nat
      BY <1>2, StreamAssumption DEF SendPiece, StreamTypeOK
    <3>2. sent' \in Seq(Pieces) /\ Len(sent') = Len(sent) + 1
      BY <3>1 DEF StreamTypeOK
    <3> QED
      BY <3>1, <3>2
  <2>4. plain' \in BOOLEAN
    BY <1>2 DEF SendPiece, Plain
  <2>5. heads' \subseteq Nat
    <3>1. buf \o wire \in Seq(Nat)
      BY AheadIs DEF StreamTypeOK
    <3>2. Len(buf \o wire) + 1 \in Nat
      BY <3>1
    <3> QED
      BY <1>2, <3>2 DEF SendPiece, StreamTypeOK
  <2> QED
    BY <1>2, <2>2, <2>3, <2>4, <2>5 DEF SendPiece, StreamTypeOK
<1>3. ASSUME NEW n \in Noises, SendNoise(n) PROVE StreamTypeOK'
  <2>1. n \in Seq(Nat) /\ MaxNoise \in Nat
    BY StreamAssumption
  <2>2. wire' \in Seq(Nat)
    BY <1>3, <2>1, AheadIs DEF SendNoise, StreamTypeOK
  <2>3. noises' \in 0 .. MaxNoise
    BY <1>3, <2>1 DEF SendNoise, StreamTypeOK
  <2>4. plain' \in BOOLEAN
    BY <1>3 DEF SendNoise, Plain
  <2> QED
    BY <1>3, <2>2, <2>3, <2>4 DEF SendNoise, StreamTypeOK
<1>4. ASSUME NEW n \in 1 .. Len(wire), ReadBytes(n) PROVE StreamTypeOK'
  <2> DEFINE d == buf \o SubSeq(wire, 1, n)
             end == Cut(d)
             gone == Len(d) - Len(buf')
  <2>1. /\ end \in Cuts /\ buf' \in Seq(Nat) /\ wire' \in Seq(Nat) /\ sent' = sent /\ noises' = noises
        /\ plain' = plain /\ handled' = end.handled /\ overdrawn' = end.overdrawn /\ gone \in 0 .. Len(d)
        /\ heads' = {h - gone : h \in {i \in heads : i > gone}}
        /\ missed' = (missed \/ \E h \in heads : h # Len(d) /\ h \in Len(d) - Len(end.buf) + 1 .. gone)
    BY <1>4, BytesRead
  <2> HIDE DEF end, gone
  <2>2. handled' \in Seq(Seq(Nat)) /\ overdrawn' \in BOOLEAN /\ missed' \in BOOLEAN
    BY <2>1 DEF Cuts, StreamTypeOK
  <2>3. heads' \subseteq Nat
    <3>1. gone \in Nat
      BY <2>1
    <3>2. \A h \in Nat : h > gone => h - gone \in Nat
      BY <3>1
    <3> QED
      BY <2>1, <3>2 DEF StreamTypeOK
  <2> QED
    BY <2>1, <2>2, <2>3 DEF StreamTypeOK
<1> QED
  BY <1>1, <1>2, <1>3, <1>4 DEF StreamNext

\* The bytes and the histories of the stream have their types, whatever is
\* sent and wherever recv cuts it (rtsp.c:223-305).
THEOREM StreamTypeIsOK == StreamSpec => []StreamTypeOK
<1> QED
  BY StreamTypeInit, StreamTypeNext, PTL DEF StreamSpec

-----------------------------------------------------------------------------
(* The invariant: unless something else was sent and a byte misleads, the  *)
(* pieces sent lie in what is not consumed, in order, and the reader waits *)
(* for more only when the buffer has no whole one.                         *)

Placed == \E at : Fits(sent, noises, plain, buf \o wire, at, handled)

Waits == noises = 0 => GetRespLen(buf).len = 0

StreamInv == StreamTypeOK /\ (~overdrawn /\ (noises = 0 \/ plain) => Placed /\ Waits)

LEMMA StreamInvInit == StreamInit => StreamInv
<1> SUFFICES ASSUME StreamInit PROVE StreamInv
  OBVIOUS
<1>1. /\ wire = << >> /\ buf = << >> /\ sent = << >> /\ noises = 0 /\ plain = TRUE /\ handled = << >>
  BY DEF StreamInit
<1>2. StreamTypeOK
  BY StreamTypeInit
<1> DEFINE e == << >>
           at == [i \in 1 .. 1 |-> 0]
<1>3. e \in Seq(Nat) /\ e \in Seq(Pieces) /\ Len(e) = 0 /\ e \o e = e
  OBVIOUS
<1>4. at \in [1 .. 0 + 1 -> Int] /\ at[0 + 1] = 0
  OBVIOUS
<1>5. 1 .. 0 = {}
  OBVIOUS
<1> HIDE DEF e, at
<1>6. Laid(e, e, at)
  BY <1>3, <1>4, <1>5 DEF Laid
<1>7. Marked(e, e, at) /\ Tight(e, e, at, e)
  BY <1>3, <1>4, <1>5 DEF Marked, Tight
<1>8. \E g : Picked(e, at, e, g)
  <2> DEFINE g == [i \in 1 .. 0 |-> 0]
  <2>1. g \in [1 .. 0 -> 1 .. 0]
    BY <1>5
  <2>2. Picked(e, at, e, g)
    BY <1>3, <1>5, <2>1 DEF Picked
  <2> QED
    BY <2>2
<1>9. Fits(e, 0, TRUE, e, at, e)
  BY <1>6, <1>7, <1>8 DEF Fits
<1>10. Placed
  BY <1>1, <1>3, <1>9 DEF Placed, e
<1>11. Waits
  <2>1. GetRespLen(e).len # 0 => Len(e) >= 4
    BY <1>3, VerdictIs
  <2>2. GetRespLen(e).len = 0
    BY <1>3, <2>1
  <2> QED
    BY <1>1, <2>2 DEF Waits, e
<1> QED
  BY <1>2, <1>10, <1>11 DEF StreamInv

LEMMA ReadKeeps ==
  ASSUME StreamInv, NEW n \in 1 .. Len(wire), ReadBytes(n), ~overdrawn', noises = 0 \/ plain
  PROVE  Placed' /\ Waits'
<1> DEFINE d == buf \o SubSeq(wire, 1, n)
           w == Unread(wire, n)
           end == Cut(d)
           b == end.buf
<1>1. StreamTypeOK
  BY DEF StreamInv
<1>2. /\ end \in Cuts
      /\ buf' = (IF GetRespLen(b).type = "BAD" THEN Unread(b, Skip(b)) ELSE b)
      /\ wire' = w /\ sent' = sent /\ noises' = noises /\ plain' = plain
      /\ handled' = end.handled /\ overdrawn' = end.overdrawn /\ ~overdrawn
  BY <1>1, BytesRead
<1>3. /\ sent \in Seq(Pieces) /\ wire \in Seq(Nat) /\ buf \in Seq(Nat) /\ handled \in Seq(Seq(Nat))
      /\ plain \in BOOLEAN
  BY <1>1 DEF StreamTypeOK
<1>4. d \in Seq(Nat) /\ w \in Seq(Nat) /\ d \o w = buf \o wire
  BY <1>3, ReadIs
<1>5. noises # 0 => plain
  OBVIOUS
<1>6. \E at : Fits(sent, noises, plain, d \o w, at, handled)
  BY <1>2, <1>4 DEF StreamInv, Placed
<1> HIDE DEF d, w
<1>7. Cutting(end, 0, sent, noises, plain, w)
  BY <1>3, <1>4, <1>5, <1>6, CutEnds
<1> HIDE DEF end
<1>8. b \in Seq(Nat) /\ end.handled \in Seq(Seq(Nat))
  BY <1>2 DEF Cuts
<1> HIDE DEF b
<1>9. GetRespLen(b).len = 0
  <2>1. GetRespLen(b).len = 0 \/ Len(b) <= 0
    BY <1>7 DEF Cutting, b
  <2>2. Len(b) \in Nat /\ (GetRespLen(b).len # 0 => Len(b) >= 4)
    BY <1>8, VerdictIs
  <2> QED
    BY <2>1, <2>2
<1>10. PICK at : Fits(sent, noises, plain, b \o w, at, end.handled)
  BY <1>2, <1>7 DEF Cutting, b
<1>11. CASE GetRespLen(b).type = "BAD"
  <2>1. Len(b) >= 4
    BY <1>8, <1>11, VerdictIs
  <2>2. noises # 0
    <3> SUFFICES ASSUME noises = 0 PROVE FALSE
      OBVIOUS
    <3>1. Len(b) >= 1
      <4>1. Len(b) \in Nat
        BY <1>8
      <4> QED
        BY <2>1, <4>1
    <3>2. Begun(sent, noises, b, at, end.handled)
      BY <1>3, <1>4, <1>8, <1>10, <3>1, BeginsWithPiece
    <3>3. PICK j \in 1 .. Len(sent) : \A i \in 1 .. Len(sent[j]) : i <= Len(b) => b[i] = sent[j][i]
      BY <3>2 DEF Begun
    <3>4. sent[j] \in Pieces
      BY <1>3
    <3> QED
      BY <1>8, <1>11, <3>3, <3>4, PieceIs
  <2>3. Fits(sent, noises, plain, Unread(b, Skip(b)) \o w, Back(at, Skip(b)), end.handled)
    BY <1>3, <1>4, <1>8, <1>10, <2>2, SkipsNoise
  <2>4. buf' = Unread(b, Skip(b))
    BY <1>2, <1>11
  <2> QED
    BY <1>2, <2>2, <2>3, <2>4 DEF Placed, Waits
<1>12. CASE GetRespLen(b).type # "BAD"
  <2>1. buf' = b
    BY <1>2, <1>12
  <2> QED
    BY <1>2, <1>9, <1>10, <2>1 DEF Placed, Waits
<1> QED
  BY <1>11, <1>12

LEMMA StreamInvNext == StreamInv /\ [StreamNext]_streamVars => StreamInv'
<1> SUFFICES ASSUME StreamInv, [StreamNext]_streamVars, ~overdrawn', noises' = 0 \/ plain'
             PROVE  Placed' /\ Waits'
  BY StreamTypeNext DEF StreamInv
<1>1. StreamTypeOK
  BY DEF StreamInv
<1>2. CASE UNCHANGED streamVars
  BY <1>2 DEF StreamInv, Placed, Waits, streamVars
<1>3. ASSUME NEW m \in Pieces, SendPiece(m) PROVE Placed' /\ Waits'
  <2>1. /\ wire' = wire \o m /\ sent' = Append(sent, m) /\ buf' = buf /\ noises' = noises
        /\ plain' = (plain /\ Plain(m, 2)) /\ handled' = handled /\ ~overdrawn
    BY <1>3 DEF SendPiece
  <2>2. Placed /\ Waits
    BY <2>1 DEF StreamInv
  <2>3. PICK at : Fits(sent, noises, plain, buf \o wire, at, handled)
    BY <2>2 DEF Placed
  <2>4. m \in Seq(Nat)
    BY StreamAssumption
  <2>5. Grown(buf \o wire, m, buf \o (wire \o m))
    BY <1>1, <2>4, WireGrows DEF StreamTypeOK
  <2>6. \E a : Fits(Append(sent, m), noises, plain /\ Plain(m, 2), buf \o (wire \o m), a, handled)
    BY <1>1, <2>3, <2>5, PieceFits DEF StreamTypeOK
  <2> QED
    BY <2>1, <2>2, <2>6 DEF Placed, Waits
<1>4. ASSUME NEW n \in Noises, SendNoise(n) PROVE Placed' /\ Waits'
  <2>1. /\ wire' = wire \o n /\ sent' = sent /\ buf' = buf /\ noises' = noises + 1
        /\ plain' = (plain /\ Plain(n, 1)) /\ handled' = handled /\ ~overdrawn
    BY <1>4 DEF SendNoise
  <2>2. n \in Seq(Nat) /\ noises \in Nat /\ noises + 1 # 0
    BY <1>1, StreamAssumption DEF StreamTypeOK
  <2>3. PICK at : Fits(sent, noises, plain, buf \o wire, at, handled)
    BY <2>1, <2>2 DEF StreamInv, Placed
  <2>4. Grown(buf \o wire, n, buf \o (wire \o n))
    BY <1>1, <2>2, WireGrows DEF StreamTypeOK
  <2>5. Fits(sent, noises + 1, plain /\ Plain(n, 1), buf \o (wire \o n), at, handled)
    BY <1>1, <2>2, <2>3, <2>4, NoiseFits DEF StreamTypeOK
  <2> QED
    BY <2>1, <2>2, <2>5 DEF Placed, Waits
<1>5. ASSUME NEW n \in 1 .. Len(wire), ReadBytes(n) PROVE Placed' /\ Waits'
  <2>1. noises' = noises /\ plain' = plain
    BY <1>5 DEF ReadBytes
  <2> QED
    BY <1>5, <2>1, ReadKeeps
<1> QED
  BY <1>2, <1>3, <1>4, <1>5 DEF StreamNext

LEMMA CutsWhole == StreamInv => CutsWholeMessages
<1> SUFFICES ASSUME StreamInv, ~overdrawn, noises = 0 \/ plain
             PROVE  /\ noises = 0 => IsPrefix(handled, sent) /\ (wire = << >> => handled = sent)
                    /\ IsSubSeq(handled, sent)
  BY DEF CutsWholeMessages
<1> DEFINE l == Len(sent)
           c == Len(handled)
<1>1. sent \in Seq(Pieces) /\ wire \in Seq(Nat) /\ buf \in Seq(Nat) /\ handled \in Seq(Seq(Nat))
  BY DEF StreamInv, StreamTypeOK
<1>2. PICK at : Fits(sent, noises, plain, buf \o wire, at, handled)
  BY DEF StreamInv, Placed
<1>3. l \in Nat /\ c \in Nat /\ Len(buf) \in Nat /\ \A j \in 1 .. l : sent[j] \in Pieces /\ sent[j] \in Seq(Nat) /\ Len(sent[j]) \in Nat /\ Len(sent[j]) >= 4
  BY <1>1, PiecesIn
<1>4. sent \in Seq(Seq(Nat))
  BY <1>1, <1>3
<1> HIDE DEF l, c
<1>5. plain \in BOOLEAN
  BY DEF StreamInv, StreamTypeOK
<1>6. ASSUME noises = 0 PROVE IsPrefix(handled, sent) /\ (wire = << >> => handled = sent)
  <2>1. /\ at[l + 1] = Len(buf \o wire) /\ c <= l /\ at[c + 1] = 0
        /\ \A i \in 1 .. c : handled[i] = sent[i]
    BY <1>2, <1>6 DEF Fits, Tight, l, c
  <2>2. IsPrefix(handled, sent)
    BY <1>1, <1>4, <2>1, PrefixIs DEF l, c
  <2>3. ASSUME wire = << >> PROVE handled = sent
    <3>1. buf \o wire = buf
      BY <1>1, <2>3
    <3>2. c = l
      <4> SUFFICES ASSUME c # l PROVE FALSE
        OBVIOUS
      <4> DEFINE j == c + 1
      <4>1. j \in 1 .. l
        BY <1>3, <2>1
      <4>2. at[j] + Len(sent[j]) <= at[l + 1] /\ at[j] = 0
        BY <1>1, <1>2, <2>1, <4>1, LaidIs DEF Fits, l
      <4>3. Len(sent[j]) <= Len(buf) /\ Len(buf) >= 1
        BY <1>3, <2>1, <3>1, <4>1, <4>2
      <4>4. Begun(sent, noises, buf, at, handled)
        BY <1>1, <1>2, <1>6, <1>5, <4>3, BeginsWithPiece
      <4>5. \A i \in 1 .. Len(sent[j]) : i <= Len(buf) => buf[i] = sent[j][i]
        BY <1>6, <4>4 DEF Begun, c
      <4>6. GetRespLen(buf).len = Len(sent[j])
        BY <1>1, <1>3, <4>1, <4>3, <4>5, PieceIs
      <4>7. GetRespLen(buf).len = 0
        BY <1>6 DEF StreamInv, Waits
      <4>8. Len(sent[j]) >= 4
        BY <1>3, <4>1
      <4> HIDE DEF j
      <4> QED
        BY <4>6, <4>7, <4>8
    <3> QED
      BY <1>1, <1>4, <2>1, <3>2, SeqEqual DEF l, c
  <2> QED
    BY <2>2, <2>3
<1>7. IsSubSeq(handled, sent)
  <2>1. PICK g : Picked(sent, at, handled, g)
    BY <1>2 DEF Fits
  <2>2. /\ g \in [1 .. Len(handled) -> 1 .. Len(sent)]
        /\ \A i, j \in 1 .. Len(handled) : i < j => g[i] < g[j]
        /\ \A i \in 1 .. Len(handled) : handled[i] = sent[g[i]]
    BY <2>1 DEF Picked
  <2> QED
    BY <2>2 DEF IsSubSeq
<1> QED
  BY <1>6, <1>7

\* Wherever recv cuts the stream, and whatever the packets carry, what
\* rtsp_read_handle handles are the pieces sent, whole and in order, all of them
\* up to the last whole one, if nothing else is sent; with other bytes in
\* between, whole pieces in order, as long as no byte sent looks like the first
\* of a piece that is none (rtsp.c:223-305, 531-585).
THEOREM StreamCutsWhole == StreamSpec => []CutsWholeMessages
<1> QED
  BY StreamInvInit, StreamInvNext, CutsWhole, PTL DEF StreamSpec

-----------------------------------------------------------------------------
(* The heads that the search may not drop are where video packets begin.   *)

HeadsLie ==
  \A h \in heads : /\ h >= 1 /\ h + 1 <= Len(buf \o wire)
                   /\ (buf \o wire)[h] = Dollar /\ (buf \o wire)[h + 1] = 0

VideoInv == StreamTypeOK /\ HeadsLie /\ ~missed

\* What is appended leaves them where they are.
LEMMA HeadsStay ==
  ASSUME StreamTypeOK, HeadsLie, NEW m \in Seq(Nat), NEW h \in heads
  PROVE  LET u == buf \o (wire \o m)
         IN h >= 1 /\ h + 1 <= Len(u) /\ u[h] = Dollar /\ u[h + 1] = 0
<1> DEFINE u == buf \o wire
           x == buf \o (wire \o m)
<1>1. Grown(u, m, x)
  BY WireGrows DEF StreamTypeOK
<1>2. h >= 1 /\ h + 1 <= Len(u) /\ u[h] = Dollar /\ u[h + 1] = 0 /\ h \in Nat
  BY DEF HeadsLie, StreamTypeOK
<1> HIDE DEF u, x
<1>3. u \in Seq(Nat) /\ Len(u) \in Nat /\ Len(m) \in Nat /\ Len(x) = Len(u) + Len(m)
  BY <1>1 DEF Grown
<1>4. h \in 1 .. Len(u) /\ h + 1 \in 1 .. Len(u) /\ h + 1 <= Len(x)
  BY <1>2, <1>3
<1>5. x[h] = u[h] /\ x[h + 1] = u[h + 1]
  BY <1>1, <1>4 DEF Grown
<1> QED
  BY <1>2, <1>4, <1>5 DEF x

LEMMA ReadKeepsHeads ==
  ASSUME VideoInv, NEW n \in 1 .. Len(wire), ReadBytes(n)
  PROVE  HeadsLie' /\ ~missed'
<1> DEFINE d == buf \o SubSeq(wire, 1, n)
           end == Cut(d)
           e == end.buf
           gone == Len(d) - Len(buf')
           begins == Len(d) - Len(e)
           u == buf \o wire
           v == buf' \o wire'
<1>1. StreamTypeOK /\ HeadsLie /\ ~missed
  BY DEF VideoInv
<1>2. /\ d \in Seq(Nat) /\ end \in Cuts /\ Remains(d, e) /\ Remains(d, buf')
      /\ buf' = (IF GetRespLen(e).type = "BAD" THEN Unread(e, Skip(e)) ELSE e)
      /\ buf' \in Seq(Nat) /\ gone \in 0 .. Len(d) /\ wire' \in Seq(Nat) /\ d \o wire' = u
      /\ heads' = {h - gone : h \in {i \in heads : i > gone}}
      /\ missed' = (missed \/ \E h \in heads : h # Len(d) /\ h \in begins + 1 .. gone)
  BY <1>1, BytesRead
<1>3. \A h \in heads : h \in Nat /\ h >= 1 /\ h + 1 <= Len(u) /\ u[h] = Dollar /\ u[h + 1] = 0
  BY <1>1 DEF HeadsLie, StreamTypeOK
<1>4. \A i \in 1 .. Len(d) : u[i] = d[i]
  BY <1>2, AheadIs
<1>5. Shifted(u, gone, v)
  BY <1>2, AheadShifts DEF Remains
<1>6. e \in Seq(Nat) /\ Len(e) \in Nat /\ Len(d) \in Nat /\ Len(buf') \in Nat
  BY <1>2 DEF Cuts
<1> HIDE DEF d, end, u, v, e
<1>7. begins \in Nat /\ Len(d) = Len(e) + begins /\ \A i \in 1 .. Len(e) : e[i] = d[i + begins]
  BY <1>2, <1>6 DEF Remains, Shifted
<1>8. ASSUME NEW h \in heads, h # Len(d), h \in begins + 1 .. gone PROVE FALSE
  <2>1. h \in Nat /\ gone \in Nat /\ gone <= Len(d)
    BY <1>2, <1>3, <1>6
  <2>2. CASE GetRespLen(e).type = "BAD"
    <3>1. Skip(e) \in 0 .. Len(e)
          /\ \A i \in 1 .. Len(e) - 1 : e[i] = Dollar /\ e[i + 1] = 0 => Skip(e) <= i - 1
      BY <1>6, SkipIs
    <3>2. Len(e) = Len(buf') + Skip(e)
      BY <1>2, <1>6, <2>2, <3>1, UnreadIs DEF Shifted
    <3> DEFINE k == Skip(e)
               i == h - begins
    <3>3. k \in Nat /\ gone = begins + k
      BY <1>6, <1>7, <3>1, <3>2
    <3> HIDE DEF k, gone, begins
    <3>4. Len(d) = Len(e) + begins /\ begins \in Nat
      BY <1>7
    <3>5. h \in begins + 1 .. begins + k /\ h # Len(d)
      BY <1>8, <3>3
    <3>6. h > begins /\ h <= begins + k /\ h < Len(d) /\ Len(d) = Len(e) + begins /\ begins \in Nat
      BY <1>6, <2>1, <3>3, <3>4, <3>5
    <3>7. i \in 1 .. Len(e) - 1 /\ i <= k /\ i \in 1 .. Len(e) /\ i + 1 \in 1 .. Len(e)
          /\ i + begins = h /\ i + 1 + begins = h + 1 /\ h \in 1 .. Len(d) /\ h + 1 \in 1 .. Len(d)
      BY <1>6, <2>1, <3>3, <3>6
    <3> HIDE DEF i
    <3>8. d[h] = Dollar /\ d[h + 1] = 0
      BY <1>3, <1>4, <3>7
    <3>9. e[i] = Dollar /\ e[i + 1] = 0
      BY <1>7, <3>7, <3>8
    <3>10. k <= i - 1
      BY <3>1, <3>7, <3>9 DEF k
    <3> QED
      BY <3>3, <3>7, <3>10
  <2>3. CASE GetRespLen(e).type # "BAD"
    <3>1. gone = begins
      BY <1>2, <2>3
    <3> HIDE DEF gone, begins
    <3> QED
      BY <1>7, <1>8, <2>1, <3>1
  <2> QED
    BY <2>2, <2>3
<1>9. ~missed'
  BY <1>1, <1>2, <1>8
<1>10. HeadsLie'
  <2> SUFFICES ASSUME NEW h \in heads, h > gone
               PROVE  /\ h - gone >= 1 /\ h - gone + 1 <= Len(v)
                      /\ v[h - gone] = Dollar /\ v[h - gone + 1] = 0
    BY <1>2 DEF HeadsLie, v
  <2>1. h \in Nat /\ h >= 1 /\ h + 1 <= Len(u) /\ u[h] = Dollar /\ u[h + 1] = 0
    BY <1>3
  <2>2. v \in Seq(Nat) /\ Len(v) \in Nat /\ Len(u) = Len(v) + gone /\ \A i \in 1 .. Len(v) : v[i] = u[i + gone]
    BY <1>5 DEF Shifted
  <2>3. gone \in Nat /\ Len(buf') = Len(d) - gone
    BY <1>2, <1>6
  <2> HIDE DEF gone
  <2> DEFINE i == h - gone
  <2>4. i \in 1 .. Len(v) /\ i + 1 \in 1 .. Len(v) /\ i + gone = h /\ i + 1 + gone = h + 1
    BY <1>6, <2>1, <2>2, <2>3
  <2> HIDE DEF i
  <2>5. v[i] = Dollar /\ v[i + 1] = 0
    BY <2>1, <2>2, <2>4
  <2> QED
    BY <2>2, <2>3, <2>4, <2>5 DEF i
<1> QED
  BY <1>9, <1>10

LEMMA VideoInvInit == StreamInit => VideoInv
BY StreamTypeInit DEF StreamInit, VideoInv, HeadsLie

LEMMA VideoInvNext == VideoInv /\ [StreamNext]_streamVars => VideoInv'
<1> SUFFICES ASSUME VideoInv, [StreamNext]_streamVars PROVE HeadsLie' /\ ~missed'
  BY StreamTypeNext DEF VideoInv
<1>1. StreamTypeOK /\ HeadsLie /\ ~missed
  BY DEF VideoInv
<1>2. CASE UNCHANGED streamVars
  BY <1>1, <1>2 DEF HeadsLie, streamVars
<1>3. ASSUME NEW m \in Pieces, SendPiece(m) PROVE HeadsLie' /\ ~missed'
  <2> DEFINE l == Len(buf \o wire) + 1
             u == buf \o (wire \o m)
  <2>1. /\ wire' = wire \o m /\ buf' = buf /\ missed' = missed
        /\ heads' = heads \cup {h \in {l} : IsRtp(m)}
    BY <1>3 DEF SendPiece
  <2>2. m \in Seq(Nat) /\ Len(m) >= 4 /\ Len(m) \in Nat
    <3>1. m \in Seq(Nat)
      BY StreamAssumption
    <3> QED
      BY <3>1, PieceIs
  <2>3. \A h \in heads : h >= 1 /\ h + 1 <= Len(u) /\ u[h] = Dollar /\ u[h + 1] = 0
    BY <1>1, <2>2, HeadsStay
  <2>4. ASSUME IsRtp(m)
        PROVE  l >= 1 /\ l + 1 <= Len(u) /\ u[l] = Dollar /\ u[l + 1] = 0
    <3>1. m[1] = Dollar /\ m[2] = 0
      BY <2>2, <2>4, RtpIs
    <3>2. Grown(buf \o wire, m, u)
      BY <1>1, <2>2, WireGrows DEF StreamTypeOK
    <3>3. Len(buf \o wire) = Len(buf) + Len(wire) /\ Len(buf) \in Nat /\ Len(wire) \in Nat
      BY <1>1, AheadIs DEF StreamTypeOK
    <3> DEFINE k == Len(buf \o wire)
    <3>4. Len(u) = k + Len(m) /\ \A i \in 1 .. Len(m) : u[k + i] = m[i]
      BY <3>2 DEF Grown
    <3>5. k = Len(buf) + Len(wire) /\ l = k + 1
      BY <3>3
    <3> HIDE DEF k, l, u
    <3>6. 1 \in 1 .. Len(m) /\ 2 \in 1 .. Len(m) /\ l + 1 = k + 2
      BY <2>2, <3>3, <3>5
    <3>7. u[l] = Dollar /\ u[l + 1] = 0
      BY <3>1, <3>4, <3>5, <3>6
    <3> QED
      BY <2>2, <3>3, <3>4, <3>5, <3>7
  <2> HIDE DEF l, u
  <2>5. \A h \in heads' : h >= 1 /\ h + 1 <= Len(u) /\ u[h] = Dollar /\ u[h + 1] = 0
    BY <2>1, <2>3, <2>4
  <2> QED
    BY <1>1, <2>1, <2>5 DEF HeadsLie, u
<1>4. ASSUME NEW n \in Noises, SendNoise(n) PROVE HeadsLie' /\ ~missed'
  <2>1. n \in Seq(Nat)
    BY StreamAssumption
  <2>2. wire' = wire \o n /\ buf' = buf /\ missed' = missed /\ heads' = heads
    BY <1>4 DEF SendNoise
  <2>3. \A h \in heads : LET u == buf \o (wire \o n)
                         IN h >= 1 /\ h + 1 <= Len(u) /\ u[h] = Dollar /\ u[h + 1] = 0
    BY <1>1, <2>1, HeadsStay
  <2> QED
    BY <1>1, <2>2, <2>3 DEF HeadsLie
<1>5. ASSUME NEW n \in 1 .. Len(wire), ReadBytes(n) PROVE HeadsLie' /\ ~missed'
  BY <1>5, ReadKeepsHeads
<1> QED
  BY <1>2, <1>3, <1>4, <1>5 DEF StreamNext

\* Whatever the camera sends and wherever recv cuts it, the search for the next
\* head drops no video packet, unless what was read ends between its first two
\* bytes (rtsp.c:301-305, 569-585).
THEOREM StreamDropsNoVideo == StreamSpec => []NoVideoIsDropped
<1>1. VideoInv => NoVideoIsDropped
  BY DEF VideoInv, NoVideoIsDropped
<1> QED
  BY <1>1, VideoInvInit, VideoInvNext, PTL DEF StreamSpec
=============================================================================
