------------------------- MODULE DecoderLifeProofs --------------------------
(***************************************************************************)
(* Theorems about the life of a decoder, for any number of buffers, any    *)
(* set of descriptor numbers, with calls that may fail or not.             *)
(***************************************************************************)
EXTENDS DecoderLife, TLAPS

\* The thread holds a picture from the moment it takes it until it gives the
\* buffer back.
Held == {"convert", "image", "register", "copy", "infer", "requeue"}
HandFits == thread.hand \in Slots <=> thread.pc \in Held

\* The output plane has room for the buffer main holds for the end of stream.
RoomForEos == shut = "eos" => InUse < OutBuffers

TInv == TypeOK /\ HandFits /\ RoomForEos /\ InUse <= OutBuffers

LEMMA InitTypes == ASSUME Init PROVE TInv
<1>1. gotError \in BOOLEAN /\ gotEos \in BOOLEAN /\ event \in BOOLEAN /\ cuda \in BOOLEAN
      /\ failed \in BOOLEAN /\ unset \in BOOLEAN /\ stray \in BOOLEAN /\ wild \in BOOLEAN
  BY Zenon DEF Init
<1>2. thread \in ThreadType /\ HandFits
  BY DEF Init, ThreadType, HandFits, At, Nothing, Slots, Held
<1>3. /\ plane \in [on : BOOLEAN, queued : SUBSET Slots, done : SUBSET Slots]
      /\ out \in [given : 0 .. OutBuffers, done : 0 .. OutBuffers, eos : BOOLEAN]
      /\ cache \in [ fd : Fds \cup {Nothing}, image : {"none", "current", "orphan"},
                     registered : BOOLEAN ]
  BY CaptureAssumption DEF Init, Off, Nothing
<1>4. RoomForEos /\ InUse <= OutBuffers
  BY CaptureAssumption DEF Init, RoomForEos, InUse
<1> QED
  BY <1>1, <1>2, <1>3, <1>4, CaptureAssumption DEF Init, TInv, TypeOK, Slots

-----------------------------------------------------------------------------
\* What a change of the capture plane may do to the buffers and the plane.
LEMMA SetCaptureTypes ==
  ASSUME TInv, SetCapture
  PROVE  /\ dst' \in Fds \cup {Nothing}
         /\ caps' \in [Slots -> Fds \cup {0}]
         /\ num' \in 0 .. MaxBuffers
         /\ open' \subseteq Fds
         /\ plane' \in [on : BOOLEAN, queued : SUBSET Slots, done : SUBSET Slots]
         /\ device' \in {"new", "waits", "decodes", "drained"}
         /\ cache' \in [ fd : Fds \cup {Nothing}, image : {"none", "current", "orphan"},
                         registered : BOOLEAN ]
         /\ failed' \in BOOLEAN
         /\ unset' \in BOOLEAN
         /\ stray' \in BOOLEAN
<1> DEFINE Goal ==
             /\ dst' \in Fds \cup {Nothing}
             /\ caps' \in [Slots -> Fds \cup {0}]
             /\ num' \in 0 .. MaxBuffers
             /\ open' \subseteq Fds
             /\ plane' \in [on : BOOLEAN, queued : SUBSET Slots, done : SUBSET Slots]
             /\ device' \in {"new", "waits", "decodes", "drained"}
             /\ unset' \in BOOLEAN
<1>1. /\ dst \in Fds \cup {Nothing}
      /\ caps \in [Slots -> Fds \cup {0}]
      /\ num \in 0 .. MaxBuffers
      /\ open \subseteq Fds
      /\ plane \in [on : BOOLEAN, queued : SUBSET Slots, done : SUBSET Slots]
      /\ device \in {"new", "waits", "decodes", "drained"}
      /\ unset \in BOOLEAN
  BY DEF TInv, TypeOK
<1>2. Off \in [on : BOOLEAN, queued : SUBSET Slots, done : SUBSET Slots]
  BY DEF Off
<1>3. stray' \in BOOLEAN /\ failed' \in BOOLEAN
  BY Zenon DEF SetCapture, NoFormat, NoTransformBuffer, NotDestroyed, NoPlane,
               NotStarted, Started, buffers, TInv, TypeOK
<1>4. Orphaned \in [ fd : Fds \cup {Nothing}, image : {"none", "current", "orphan"},
                     registered : BOOLEAN ]
  BY DEF Orphaned, TInv, TypeOK
<1>5. CASE NoFormat
  BY <1>1, <1>3, <1>5 DEF NoFormat, buffers, TInv, TypeOK
<1>6. CASE NoTransformBuffer
  BY <1>1, <1>3, <1>4, <1>6 DEF NoTransformBuffer, WithoutDst
<1>7. ASSUME NEW fd \in Fds \ WithoutDst,
             dst' = fd,
             cache' = Orphaned,
             \/ \E i \in Listed : NotDestroyed(fd, i)
             \/ NoPlane(fd)
             \/ \E n \in Counts : \E k \in 0 .. n : NotStarted(fd, n, k) \/ Started(fd, n, k)
      PROVE  Goal
  <2>1. With(fd) \subseteq Fds
    BY <1>1 DEF With, WithoutDst
  <2>2. ASSUME NEW i \in Listed, NotDestroyed(fd, i) PROVE Goal
    BY <1>1, <1>2, <1>7, <2>1, <2>2 DEF NotDestroyed
  <2>3. CASE NoPlane(fd)
    BY <1>1, <1>2, <1>7, <2>1, <2>3 DEF NoPlane
  <2>4. ASSUME NEW n \in Counts, NEW k \in 0 .. n, Created(fd, k)
        PROVE  caps' \in [Slots -> Fds \cup {0}] /\ open' \subseteq Fds
    <3>1. PICK fds \in [0 .. k - 1 -> Fds \ (With(fd) \ Destroyed)] :
            /\ caps' = [i \in Slots |-> IF i < k THEN fds[i] ELSE caps[i]]
            /\ open' = (With(fd) \ Destroyed) \cup { fds[i] : i \in 0 .. k - 1 }
      BY <2>4, Zenon DEF Created
    <3>2. ASSUME NEW i \in Slots PROVE (IF i < k THEN fds[i] ELSE caps[i]) \in Fds \cup {0}
      BY <1>1, <3>1, CaptureAssumption DEF Slots
    <3>3. \A i \in 0 .. k - 1 : fds[i] \in Fds
      OBVIOUS
    <3> QED
      BY <2>1, <3>1, <3>2, <3>3
  <2>5. ASSUME NEW n \in Counts, NEW k \in 0 .. n, NotStarted(fd, n, k) PROVE Goal
    BY <1>1, <1>2, <1>7, <2>4, <2>5, CaptureAssumption DEF NotStarted
  <2>6. ASSUME NEW n \in Counts, NEW k \in 0 .. n, Started(fd, n, k) PROVE Goal
    <3>1. n \in 1 .. MaxBuffers /\ 0 .. k - 1 \subseteq Slots /\ n \in 0 .. n
      BY CaptureAssumption DEF Slots
    <3>2. plane' \in [on : BOOLEAN, queued : SUBSET Slots, done : SUBSET Slots]
      BY <2>6, <3>1 DEF Started
    <3> QED
      BY <1>1, <1>7, <2>4, <2>6, <3>1, <3>2, CaptureAssumption DEF Started
  <2> QED
    BY <1>7, <2>2, <2>3, <2>5, <2>6
<1>8. CASE \E fd \in Fds \ WithoutDst :
             /\ dst' = fd
             /\ cache' = Orphaned
             /\ \/ \E i \in Listed : NotDestroyed(fd, i)
                \/ NoPlane(fd)
                \/ \E n \in Counts : \E k \in 0 .. n :
                     NotStarted(fd, n, k) \/ Started(fd, n, k)
  <2>1. Goal
    BY <1>7, <1>8, Zenon
  <2>2. cache' = Orphaned
    BY <1>8
  <2> QED
    BY <1>3, <1>4, <2>1, <2>2
<1> HIDE DEF Goal
<1> QED
  BY <1>5, <1>6, <1>8, Zenon DEF SetCapture

-----------------------------------------------------------------------------
\* The parts of the type invariant, one for each kind of reasoning.
Bools == /\ gotError \in BOOLEAN /\ gotEos \in BOOLEAN /\ event \in BOOLEAN
         /\ cuda \in BOOLEAN /\ failed \in BOOLEAN /\ unset \in BOOLEAN
         /\ stray \in BOOLEAN /\ wild \in BOOLEAN

Threads == thread \in ThreadType /\ HandFits

Buffers ==
  /\ dst \in Fds \cup {Nothing}
  /\ caps \in [Slots -> Fds \cup {0}]
  /\ num \in 0 .. MaxBuffers
  /\ open \subseteq Fds

Planes ==
  /\ plane \in [on : BOOLEAN, queued : SUBSET Slots, done : SUBSET Slots]
  /\ device \in {"new", "waits", "decodes", "drained"}

Feeding ==
  /\ out \in [given : 0 .. OutBuffers, done : 0 .. OutBuffers, eos : BOOLEAN]
  /\ shut \in {"running", "first", "eos", "drain", "unregister", "destroyImage",
               "terminate", "join", "freed"}
  /\ RoomForEos
  /\ InUse <= OutBuffers

Pictures ==
  /\ cache \in [ fd : Fds \cup {Nothing}, image : {"none", "current", "orphan"},
                 registered : BOOLEAN ]
  /\ rgb \in {"this", "other"}

LEMMA Parts == TInv <=> Bools /\ Threads /\ Buffers /\ Planes /\ Feeding /\ Pictures
BY Zenon DEF TInv, TypeOK, Bools, Threads, Buffers, Planes, Feeding, Pictures

LEMMA PartsNext ==
  ASSUME Bools', Threads', Buffers', Planes', Feeding', Pictures'
  PROVE  TInv'
BY Zenon DEF TInv, TypeOK, Bools, Threads, Buffers, Planes, Feeding, Pictures

LEMMA OutNumbers ==
  ASSUME Feeding
  PROVE  /\ out \in [given : Nat, done : Nat, eos : BOOLEAN]
         /\ out.given \in 0 .. OutBuffers /\ out.done \in 0 .. OutBuffers
         /\ OutBuffers \in Nat
BY CaptureAssumption DEF Feeding

\* A device step needs a buffer that it was given.
LEMMA FinishedFeeds ==
  ASSUME Feeding, out.given > 0, out' = Finished(out), shut' = shut
  PROVE  Feeding'
<1>1. out' = [given |-> out.given - 1, done |-> out.done + 1, eos |-> out.eos]
  BY OutNumbers DEF Finished
<1>2. /\ out.given + out.done <= OutBuffers
      /\ shut = "eos" => out.given + out.done < OutBuffers
  BY DEF Feeding, RoomForEos, InUse
<1>3. out'.given + out'.done = out.given + out.done
  BY <1>1, OutNumbers
<1>4. out' \in [given : 0 .. OutBuffers, done : 0 .. OutBuffers, eos : BOOLEAN]
  BY <1>1, <1>2, OutNumbers
<1> QED
  BY <1>2, <1>3, <1>4 DEF Feeding, RoomForEos, InUse

LEMMA CaptureThreadTypes == ASSUME TInv, CaptureThread PROVE TInv'
<1>0. Bools /\ Threads /\ Buffers /\ Planes /\ Feeding /\ Pictures
  BY Parts
<1>1. CASE FirstTimeout
  <2>1. Bools'
    BY <1>0, <1>1, Zenon DEF FirstTimeout, Abort, At, Off, Bools, hands,
       buffers, planes, pictures
  <2>2. Threads' /\ Buffers' /\ Planes' /\ Feeding' /\ Pictures'
    BY <1>0, <1>1, CaptureAssumption DEF FirstTimeout, Abort, At, Off,
       Nothing, Slots, Threads, Planes, HandFits, ThreadType, Held, Buffers,
       Feeding, RoomForEos, InUse, Pictures, hands, buffers, planes, pictures
  <2> QED
    BY <2>1, <2>2, PartsNext, Zenon
<1>2. CASE LoopEnds
  <2>1. Bools'
    BY <1>0, <1>2, Zenon DEF LoopEnds, At, Bools, hands, buffers, planes,
       pictures
  <2>2. Threads' /\ Buffers' /\ Planes' /\ Feeding' /\ Pictures'
    BY <1>0, <1>2, CaptureAssumption DEF LoopEnds, At, Nothing, Slots,
       Threads, Planes, HandFits, ThreadType, Held, Buffers, Feeding,
       RoomForEos, InUse, Pictures, hands, buffers, planes, pictures
  <2> QED
    BY <2>1, <2>2, PartsNext, Zenon
<1>3. CASE LoopTakes
  <2>1. Bools'
    BY <1>0, <1>3, Zenon DEF LoopTakes, At, Bools, hands, buffers, planes,
       pictures
  <2>2. Threads' /\ Buffers' /\ Planes' /\ Feeding' /\ Pictures'
    BY <1>0, <1>3, CaptureAssumption DEF LoopTakes, At, Nothing, Slots,
       Threads, Planes, HandFits, ThreadType, Held, Buffers, Feeding,
       RoomForEos, InUse, Pictures, hands, buffers, planes, pictures
  <2> QED
    BY <2>1, <2>2, PartsNext, Zenon
<1>4. CASE TakesNothing
  <2>1. Bools'
    BY <1>0, <1>4, Zenon DEF TakesNothing, At, AfterNothing, Bools, hands,
       buffers, planes, pictures
  <2>2. Threads' /\ Buffers' /\ Planes' /\ Feeding' /\ Pictures'
    BY <1>0, <1>4, CaptureAssumption DEF TakesNothing, At, AfterNothing,
       Nothing, Slots, Threads, Planes, HandFits, ThreadType, Held, Buffers,
       Feeding, RoomForEos, InUse, Pictures, hands, buffers, planes, pictures
  <2> QED
    BY <2>1, <2>2, PartsNext, Zenon
<1>5. CASE TakeFails
  <2>1. Bools'
    BY <1>0, <1>5, Zenon DEF TakeFails, Abort, Off, At, Bools, hands, buffers,
       planes, pictures
  <2>2. Threads' /\ Buffers' /\ Planes' /\ Feeding' /\ Pictures'
    BY <1>0, <1>5, CaptureAssumption DEF TakeFails, Abort, Off, At, Nothing,
       Slots, Threads, Planes, HandFits, ThreadType, Held, Buffers, Feeding,
       RoomForEos, InUse, Pictures, hands, buffers, planes, pictures
  <2> QED
    BY <2>1, <2>2, PartsNext, Zenon
<1>6. CASE Convert
  <2>1. Bools'
    BY <1>0, <1>6, Zenon DEF Convert, Holding, Bools, hands, buffers, planes,
       pictures
  <2>2. Threads' /\ Buffers' /\ Planes' /\ Feeding' /\ Pictures'
    BY <1>0, <1>6, CaptureAssumption DEF Convert, Holding, Threads, Planes,
       HandFits, ThreadType, Held, Buffers, Feeding, RoomForEos, InUse,
       Pictures, hands, buffers, planes, pictures
  <2> QED
    BY <2>1, <2>2, PartsNext, Zenon
<1>7. CASE ConvertFails
  <2>1. Bools'
    BY <1>0, <1>7, Zenon DEF ConvertFails, At, Bools, hands, buffers, planes,
       pictures
  <2>2. Threads' /\ Buffers' /\ Planes' /\ Feeding' /\ Pictures'
    BY <1>0, <1>7, CaptureAssumption DEF ConvertFails, At, Nothing, Slots,
       Threads, Planes, HandFits, ThreadType, Held, Buffers, Feeding,
       RoomForEos, InUse, Pictures, hands, buffers, planes, pictures
  <2> QED
    BY <2>1, <2>2, PartsNext, Zenon
<1>8. CASE Hit
  <2>1. Bools'
    BY <1>0, <1>8, Zenon DEF Hit, Holding, Bools, hands, buffers, planes,
       pictures
  <2>2. Threads' /\ Buffers' /\ Planes' /\ Feeding' /\ Pictures'
    BY <1>0, <1>8, CaptureAssumption DEF Hit, Holding, Threads, Planes,
       HandFits, ThreadType, Held, Buffers, Feeding, RoomForEos, InUse,
       Pictures, hands, buffers, planes, pictures
  <2> QED
    BY <2>1, <2>2, PartsNext, Zenon
<1>9. CASE MakeImage
  <2>1. Bools'
    BY <1>0, <1>9, Zenon DEF MakeImage, Holding, Bools, hands, buffers,
       planes, pictures
  <2>2. Threads' /\ Buffers' /\ Planes' /\ Feeding' /\ Pictures'
    BY <1>0, <1>9, CaptureAssumption DEF MakeImage, Holding, Threads, Planes,
       HandFits, ThreadType, Held, Buffers, Feeding, RoomForEos, InUse,
       Pictures, hands, buffers, planes, pictures
  <2> QED
    BY <2>1, <2>2, PartsNext, Zenon
<1>10. CASE Register
  <2>1. Bools'
    BY <1>0, <1>10, Zenon DEF Register, Holding, Fails, Bools, hands, buffers,
       planes, pictures
  <2>2. Threads' /\ Buffers' /\ Planes' /\ Feeding'
    BY <1>0, <1>10, CaptureAssumption DEF Register, Holding, Fails, Threads,
       Planes, HandFits, ThreadType, Held, Buffers, Feeding, RoomForEos,
       InUse, hands, buffers, planes, pictures
  <2>3. Pictures'
    <3>1. rgb' = rgb
      BY <1>10 DEF Register
    <3>2. \/ cache' = cache
          \/ cache' = [cache EXCEPT !.fd = dst, !.registered = TRUE]
          \/ cache' = [cache EXCEPT !.image = "none"]
      BY <1>10, Zenon DEF Register
    <3>3. dst \in Fds \cup {Nothing}
      BY <1>0 DEF Buffers
    <3> QED
      BY <1>0, <3>1, <3>2, <3>3 DEF Pictures
  <2> QED
    BY <2>1, <2>2, <2>3, PartsNext, Zenon
<1>11. CASE Copy
  <2>1. Bools'
    BY <1>0, <1>11, Zenon DEF Copy, Holding, Fails, Bools, hands, buffers,
       planes, pictures
  <2>2. Threads' /\ Buffers' /\ Planes' /\ Feeding' /\ Pictures'
    BY <1>0, <1>11, CaptureAssumption DEF Copy, Holding, Fails, Threads,
       Planes, HandFits, ThreadType, Held, Buffers, Feeding, RoomForEos,
       InUse, Pictures, hands, buffers, planes, pictures
  <2> QED
    BY <2>1, <2>2, PartsNext, Zenon
<1>12. CASE Infer
  <2>1. Bools'
    BY <1>0, <1>12, Zenon DEF Infer, Holding, Bools, hands, buffers, planes,
       pictures
  <2>2. Threads' /\ Buffers' /\ Planes' /\ Feeding' /\ Pictures'
    BY <1>0, <1>12, CaptureAssumption DEF Infer, Holding, Threads, Planes,
       HandFits, ThreadType, Held, Buffers, Feeding, RoomForEos, InUse,
       Pictures, hands, buffers, planes, pictures
  <2> QED
    BY <2>1, <2>2, PartsNext, Zenon
<1>13. CASE Requeue
  <2>1. Bools'
    BY <1>0, <1>13, Zenon DEF Requeue, At, GivenBack, Bools, hands, buffers,
       planes, pictures
  <2>2. Threads' /\ Buffers' /\ Feeding' /\ Pictures'
    BY <1>0, <1>13, CaptureAssumption DEF Requeue, At, GivenBack, Nothing,
       Slots, Threads, Planes, HandFits, ThreadType, Held, Buffers, Feeding,
       RoomForEos, InUse, Pictures, hands, buffers, planes, pictures
  <2>3. Planes'
    <3>1. thread.hand \in Slots
      BY <1>0, <1>13 DEF Requeue, Threads, HandFits, Held
    <3>2. plane' = [plane EXCEPT !.queued = @ \cup {thread.hand}] /\ device' = device
      BY <1>13 DEF Requeue, GivenBack
    <3> QED
      BY <1>0, <3>1, <3>2 DEF Planes
  <2> QED
    BY <2>1, <2>2, <2>3, PartsNext, Zenon
<1>14. CASE RequeueFails
  <2>1. Bools'
    BY <1>0, <1>14, Zenon DEF RequeueFails, Abort, Off, At, Bools, hands,
       buffers, planes, pictures
  <2>2. Threads' /\ Buffers' /\ Planes' /\ Feeding' /\ Pictures'
    BY <1>0, <1>14, CaptureAssumption DEF RequeueFails, Abort, Off, At,
       Nothing, Slots, Threads, Planes, HandFits, ThreadType, Held, Buffers,
       Feeding, RoomForEos, InUse, Pictures, hands, buffers, planes, pictures
  <2> QED
    BY <2>1, <2>2, PartsNext, Zenon
<1>15. ASSUME NEW i \in Slots, Take(i) PROVE TInv'
  <2>1. Bools'
    BY <1>0, <1>15, Zenon DEF Take, Bools, buffers, pictures
  <2>4. Feeding' /\ Buffers' /\ Pictures'
    BY <1>0, <1>15 DEF Take, Feeding, RoomForEos, InUse, Buffers, Pictures, buffers, pictures
  <2>2. Threads'
    BY <1>0, <1>15 DEF Take, Threads, HandFits, ThreadType, Held
  <2>3. Planes'
    BY <1>0, <1>15 DEF Take, Planes
  <2> QED
    BY <2>1, <2>2, <2>3, <2>4, PartsNext, Zenon
<1>16. CASE FirstEvent
  <2>1. CASE gotError
    <3>1. /\ thread' = At("ended") /\ event' = FALSE
          /\ UNCHANGED <<buffers, plane, device, cache, failed, gotError, gotEos, out, rgb,
                         cuda, shut, wild>>
      BY <1>16, <2>1, Zenon DEF FirstEvent
    <3>2. Bools'
      BY <1>0, <3>1, Zenon DEF Bools, buffers
    <3>4. Feeding' /\ Buffers' /\ Planes' /\ Pictures'
      BY <1>0, <3>1 DEF Feeding, RoomForEos, InUse, Buffers, Planes, Pictures, buffers
    <3>3. Threads'
      BY <3>1 DEF Threads, HandFits, ThreadType, Held, At, Nothing, Slots
    <3> QED
      BY <3>2, <3>3, <3>4, PartsNext, Zenon
  <2>2. CASE ~gotError
    <3>1. /\ SetCapture /\ thread' = At("loop") /\ event' = FALSE
          /\ UNCHANGED <<gotError, gotEos, out, rgb, cuda, shut, wild>>
      BY <1>16, <2>2, Zenon DEF FirstEvent
    <3>2. Bools' /\ Feeding' /\ Buffers' /\ Planes' /\ Pictures'
      BY <1>0, <3>1, SetCaptureTypes, Zenon DEF Bools, Feeding, RoomForEos, InUse, Buffers,
         Planes, Pictures
    <3>3. Threads'
      BY <3>1 DEF Threads, HandFits, ThreadType, Held, At, Nothing, Slots
    <3> QED
      BY <3>2, <3>3, PartsNext, Zenon
  <2> QED
    BY <2>1, <2>2
<1>17. CASE LoopEvent
  <2>1. /\ SetCapture /\ event' = FALSE
        /\ UNCHANGED <<thread, gotError, gotEos, out, rgb, cuda, shut, wild>>
    BY <1>17, Zenon DEF LoopEvent, hands
  <2>2. Bools' /\ Feeding' /\ Buffers' /\ Planes' /\ Pictures' /\ Threads'
    BY <1>0, <2>1, SetCaptureTypes, Zenon DEF Bools, Feeding, RoomForEos, InUse, Buffers,
       Planes, Pictures, Threads, HandFits
  <2> QED
    BY <2>2, PartsNext, Zenon
<1> QED
  BY <1>1, <1>2, <1>3, <1>4, <1>5, <1>6, <1>7, <1>8, <1>9, <1>10, <1>11,
     <1>12, <1>13, <1>14, <1>15, <1>16, <1>17 DEF CaptureThread, Looks, Takes,
     Shows

LEMMA MainThreadTypes == ASSUME TInv, MainThread PROVE TInv'
<1>0. Bools /\ Threads /\ Buffers /\ Planes /\ Feeding /\ Pictures
  BY Parts
<1>1. CASE Feed
  <2>1. Bools'
    BY <1>0, <1>1, Zenon DEF Feed, Fed, Bools, hands, buffers, planes,
       pictures
  <2>2. Threads' /\ Buffers' /\ Planes' /\ Pictures'
    BY <1>0, <1>1, CaptureAssumption DEF Feed, Fed, Threads, Planes, HandFits,
       ThreadType, Held, Buffers, Pictures, hands, buffers, planes, pictures
  <2>3. Feeding'
    <3>1. \/ /\ out' = [given |-> out.given + 1, done |-> out.done, eos |-> out.eos]
             /\ InUse < OutBuffers
          \/ /\ out' = [given |-> out.given + 1, done |-> out.done - 1, eos |-> out.eos]
             /\ out.done > 0
      BY <1>0, <1>1, OutNumbers DEF Feed, Fed
    <3>2. shut = "running" /\ shut' = shut
      BY <1>1 DEF Feed
    <3> QED
      BY <1>0, <3>1, <3>2, OutNumbers DEF Feeding, RoomForEos, InUse
  <2> QED
    BY <2>1, <2>2, <2>3, PartsNext, Zenon
<1>2. CASE FeedFails
  <2>1. Bools'
    BY <1>0, <1>2, Zenon DEF FeedFails, Abort, Off, Bools, hands, buffers,
       planes, pictures
  <2>2. Threads' /\ Buffers' /\ Planes' /\ Feeding' /\ Pictures'
    BY <1>0, <1>2, CaptureAssumption DEF FeedFails, Abort, Off, Threads,
       Planes, HandFits, ThreadType, Held, Buffers, Feeding, RoomForEos,
       InUse, Pictures, hands, buffers, planes, pictures
  <2> QED
    BY <2>1, <2>2, PartsNext, Zenon
<1>3. CASE ReleaseCuda
  <2>1. Bools'
    BY <1>0, <1>3, Zenon DEF ReleaseCuda, Bools, hands, buffers, planes,
       pictures
  <2>2. Threads' /\ Buffers' /\ Planes' /\ Feeding' /\ Pictures'
    BY <1>0, <1>3, CaptureAssumption DEF ReleaseCuda, Threads, Planes,
       HandFits, ThreadType, Held, Buffers, Feeding, RoomForEos, InUse,
       Pictures, hands, buffers, planes, pictures
  <2> QED
    BY <2>1, <2>2, PartsNext, Zenon
<1>4. CASE FirstDq
  <2>1. Bools'
    BY <1>0, <1>4, Zenon DEF FirstDq, Bools, hands, buffers, planes, pictures
  <2>2. Threads' /\ Buffers' /\ Planes' /\ Feeding' /\ Pictures'
    BY <1>0, <1>4, CaptureAssumption DEF FirstDq, Threads, Planes, HandFits,
       ThreadType, Held, Buffers, Feeding, RoomForEos, InUse, Pictures, hands,
       buffers, planes, pictures
  <2> QED
    BY <2>1, <2>2, PartsNext, Zenon
<1>5. CASE QueueEos
  <2>1. Bools'
    BY <1>0, <1>5, Zenon DEF QueueEos, Bools, hands, buffers, planes, pictures
  <2>2. Threads' /\ Buffers' /\ Planes' /\ Pictures'
    BY <1>0, <1>5, CaptureAssumption DEF QueueEos, Threads, Planes, HandFits,
       ThreadType, Held, Buffers, Pictures, hands, buffers, planes, pictures
  <2>3. Feeding'
    <3>1. out' = [given |-> out.given + 1, done |-> out.done, eos |-> TRUE] \/ out' = out
      BY <1>0, <1>5, OutNumbers DEF QueueEos
    <3>2. shut = "eos" /\ shut' = "drain"
      BY <1>5 DEF QueueEos
    <3>3. out.given + out.done < OutBuffers
      BY <1>0, <3>2 DEF Feeding, RoomForEos, InUse
    <3>4. CASE out' = out
      BY <1>0, <3>2, <3>3, <3>4 DEF Feeding, RoomForEos, InUse
    <3>5. CASE out' = [given |-> out.given + 1, done |-> out.done, eos |-> TRUE]
      BY <1>0, <3>2, <3>3, <3>5, OutNumbers DEF Feeding, RoomForEos, InUse
    <3> QED
      BY <3>1, <3>4, <3>5
  <2> QED
    BY <2>1, <2>2, <2>3, PartsNext, Zenon
<1>6. CASE Drain
  <2>1. Bools'
    BY <1>0, <1>6, Zenon DEF Drain, Bools, hands, buffers, planes, pictures
  <2>2. Threads' /\ Buffers' /\ Planes' /\ Feeding' /\ Pictures'
    BY <1>0, <1>6, CaptureAssumption DEF Drain, Threads, Planes, HandFits,
       ThreadType, Held, Buffers, Feeding, RoomForEos, InUse, Pictures, hands,
       buffers, planes, pictures
  <2> QED
    BY <2>1, <2>2, PartsNext, Zenon
<1>7. CASE SetEos
  <2>1. Bools'
    BY <1>0, <1>7, Zenon DEF SetEos, Abort, Off, Bools, hands, buffers,
       planes, pictures
  <2>2. Threads' /\ Buffers' /\ Feeding' /\ Pictures'
    BY <1>0, <1>7, CaptureAssumption DEF SetEos, Abort, Off, Threads, Planes,
       HandFits, ThreadType, Held, Buffers, Feeding, RoomForEos, InUse,
       Pictures, hands, buffers, planes, pictures
  <2>3. Planes'
    <3>1. plane' = plane \/ plane' = Off
      BY <1>7, Zenon DEF SetEos, Abort
    <3>2. Off \in [on : BOOLEAN, queued : SUBSET Slots, done : SUBSET Slots]
      BY DEF Off
    <3> QED
      BY <1>0, <1>7, <3>1, <3>2 DEF SetEos, planes, Planes
  <2> QED
    BY <2>1, <2>2, <2>3, PartsNext, Zenon
<1>8. CASE Unregister
  <2>1. Bools'
    BY <1>0, <1>8, Zenon DEF Unregister, Bools, hands, buffers, planes,
       pictures
  <2>2. Threads' /\ Buffers' /\ Planes' /\ Feeding' /\ Pictures'
    BY <1>0, <1>8, CaptureAssumption DEF Unregister, Threads, Planes,
       HandFits, ThreadType, Held, Buffers, Feeding, RoomForEos, InUse,
       Pictures, hands, buffers, planes, pictures
  <2> QED
    BY <2>1, <2>2, PartsNext, Zenon
<1>9. CASE DestroyImage
  <2>1. Bools'
    BY <1>0, <1>9, Zenon DEF DestroyImage, Bools, hands, buffers, planes,
       pictures
  <2>2. Threads' /\ Buffers' /\ Planes' /\ Feeding' /\ Pictures'
    BY <1>0, <1>9, CaptureAssumption DEF DestroyImage, Nothing, Threads,
       Planes, HandFits, ThreadType, Held, Buffers, Feeding, RoomForEos,
       InUse, Pictures, hands, buffers, planes, pictures
  <2> QED
    BY <2>1, <2>2, PartsNext, Zenon
<1>10. CASE Terminate
  <2>1. Bools'
    BY <1>0, <1>10, Zenon DEF Terminate, Bools, hands, buffers, planes,
       pictures
  <2>2. Threads' /\ Buffers' /\ Planes' /\ Feeding' /\ Pictures'
    BY <1>0, <1>10, CaptureAssumption DEF Terminate, Threads, Planes,
       HandFits, ThreadType, Held, Buffers, Feeding, RoomForEos, InUse,
       Pictures, hands, buffers, planes, pictures
  <2> QED
    BY <2>1, <2>2, PartsNext, Zenon
<1>11. CASE Free
  <2>1. Bools'
    BY <1>0, <1>11, Zenon DEF Free, Off, Destroyed, Listed, Bools, hands,
       buffers, planes, pictures
  <2>2. Threads' /\ Buffers' /\ Planes' /\ Feeding' /\ Pictures'
    BY <1>0, <1>11, CaptureAssumption DEF Free, Off, Nothing, Destroyed,
       Listed, Threads, Planes, HandFits, ThreadType, Held, Buffers, Feeding,
       RoomForEos, InUse, Pictures, hands, buffers, planes, pictures
  <2> QED
    BY <2>1, <2>2, PartsNext, Zenon
<1> QED
  BY <1>1, <1>2, <1>3, <1>4, <1>5, <1>6, <1>7, <1>8, <1>9, <1>10, <1>11 DEF
     MainThread

LEMMA DeviceTypes == ASSUME TInv, Device PROVE TInv'
<1>0. Bools /\ Threads /\ Buffers /\ Planes /\ Feeding /\ Pictures
  BY Parts
<1>1. CASE DeviceSkips
  <2>1. Bools'
    BY <1>0, <1>1, Zenon DEF DeviceSkips, HasFrame, Finished, Bools, hands,
       buffers, planes, pictures
  <2>2. Threads' /\ Buffers' /\ Planes' /\ Pictures'
    BY <1>0, <1>1, CaptureAssumption DEF DeviceSkips, HasFrame, Finished,
       Threads, Planes, HandFits, ThreadType, Held, Buffers, Pictures, hands,
       buffers, planes, pictures
  <2>3. Feeding'
    <3>1. out.given > 0 /\ out' = Finished(out) /\ shut' = shut
      BY <1>0, <1>1, OutNumbers DEF DeviceSkips, HasFrame
    <3> QED
      BY <1>0, <3>1, FinishedFeeds
  <2> QED
    BY <2>1, <2>2, <2>3, PartsNext, Zenon
<1>2. CASE DeviceAnnounces
  <2>1. Bools'
    BY <1>0, <1>2, Zenon DEF DeviceAnnounces, HasFrame, Finished, Bools,
       hands, buffers, planes, pictures
  <2>2. Threads' /\ Buffers' /\ Planes' /\ Pictures'
    BY <1>0, <1>2, CaptureAssumption DEF DeviceAnnounces, HasFrame, Finished,
       Threads, Planes, HandFits, ThreadType, Held, Buffers, Pictures, hands,
       buffers, planes, pictures
  <2>3. Feeding'
    <3>1. out.given > 0 /\ out' = Finished(out) /\ shut' = shut
      BY <1>0, <1>2, OutNumbers DEF DeviceAnnounces, HasFrame
    <3> QED
      BY <1>0, <3>1, FinishedFeeds
  <2> QED
    BY <2>1, <2>2, <2>3, PartsNext, Zenon
<1>3. CASE DeviceDecodes
  <2>1. Bools'
    BY <1>0, <1>3, Zenon DEF DeviceDecodes, HasFrame, Finished, Bools, hands,
       buffers, planes, pictures
  <2>2. Threads' /\ Buffers' /\ Pictures'
    BY <1>0, <1>3, CaptureAssumption DEF DeviceDecodes, HasFrame, Finished,
       Threads, Planes, HandFits, ThreadType, Held, Buffers, Pictures, hands,
       buffers, planes, pictures
  <2>3. Planes'
    <3>1. PICK i \in plane.queued :
            plane' = [plane EXCEPT !.queued = @ \ {i}, !.done = @ \cup {i}]
      BY <1>3 DEF DeviceDecodes
    <3>2. i \in Slots
      BY <1>0 DEF Planes
    <3>3. plane' = [on |-> plane.on, queued |-> plane.queued \ {i}, done |-> plane.done \cup {i}]
      BY <1>0, <3>1 DEF Planes
    <3>4. plane' \in [on : BOOLEAN, queued : SUBSET Slots, done : SUBSET Slots]
      BY <1>0, <3>2, <3>3 DEF Planes
    <3> QED
      BY <1>0, <1>3, <3>4 DEF DeviceDecodes, buffers, Planes
  <2>4. Feeding'
    <3>1. out.given > 0 /\ out' = Finished(out) /\ shut' = shut
      BY <1>0, <1>3, OutNumbers DEF DeviceDecodes, HasFrame
    <3> QED
      BY <1>0, <3>1, FinishedFeeds
  <2> QED
    BY <2>1, <2>2, <2>3, <2>4, PartsNext, Zenon
<1>4. CASE DeviceDrains
  <2>1. Bools'
    BY <1>0, <1>4, Zenon DEF DeviceDrains, Finished, Bools, hands, buffers,
       planes, pictures
  <2>2. Threads' /\ Buffers' /\ Planes' /\ Pictures'
    BY <1>0, <1>4, CaptureAssumption DEF DeviceDrains, Finished, Threads,
       Planes, HandFits, ThreadType, Held, Buffers, Pictures, hands, buffers,
       planes, pictures
  <2>3. Feeding'
    <3>1. out.given > 0 /\ out' = Finished(out) /\ shut' = shut
      BY <1>0, <1>4, OutNumbers DEF DeviceDrains, HasFrame
    <3> QED
      BY <1>0, <3>1, FinishedFeeds
  <2> QED
    BY <2>1, <2>2, <2>3, PartsNext, Zenon
<1> QED
  BY <1>1, <1>2, <1>3, <1>4 DEF Device

LEMMA StepTypes == ASSUME TInv, [Next]_vars PROVE TInv'
<1>1. CASE UNCHANGED vars
  <2>1. Bools /\ Threads /\ Buffers /\ Planes /\ Feeding /\ Pictures
    BY Parts
  <2>2. Bools'
    BY <1>1, <2>1, Zenon DEF vars, hands, buffers, planes, pictures, Bools
  <2>3. Threads' /\ Buffers' /\ Planes' /\ Feeding' /\ Pictures'
    BY <1>1, <2>1 DEF vars, hands, buffers, planes, pictures, Threads, HandFits, Buffers, Planes,
       Feeding, RoomForEos, InUse, Pictures
  <2> QED
    BY <2>2, <2>3, PartsNext, Zenon
<1> QED
  BY <1>1, CaptureThreadTypes, MainThreadTypes, DeviceTypes, Zenon DEF Next

(* Every variable keeps its type: the counts of the output plane (nvdec.c  *)
(* 330-452) never exceed its buffers, and the thread never gives back a    *)
(* buffer that it does not hold.                                           *)
THEOREM LifeTypeOK == Spec => []TypeOK
<1>1. Init => TInv
  BY InitTypes
<1>2. TInv /\ [Next]_vars => TInv'
  BY StepTypes
<1>3. TInv => TypeOK
  BY DEF TInv
<1> QED
  BY <1>1, <1>2, <1>3, PTL DEF Spec

-----------------------------------------------------------------------------
(* The capture buffers go round.                                           *)

\* The buffers named by the plane and the thread are buffers of the plane now
\* set up.
InPlace == /\ plane.queued \cup plane.done \subseteq Used
           /\ thread.hand \in Slots => thread.hand \in Used

Round == InPlace /\ BuffersGoRound

\* What the thread has in its hands where.
LEMMA Hands ==
  ASSUME TInv
  PROVE  /\ thread.pc \notin Held => thread.hand = Nothing
         /\ thread.hand \in Slots \cup {Nothing}
         /\ Nothing \notin Slots
         /\ \A pc : At(pc).hand = Nothing /\ At(pc).pc = pc
         /\ \A pc : Holding(pc).hand = thread.hand /\ Holding(pc).pc = pc
<1>1. thread \in ThreadType /\ HandFits
  BY DEF TInv, TypeOK
<1>2. \A pc : Holding(pc) = [pc |-> pc, hand |-> thread.hand]
  BY <1>1 DEF Holding, ThreadType
<1> QED
  BY <1>1, <1>2, CaptureAssumption DEF ThreadType, HandFits, Nothing, Slots, At

LEMMA RoundKept ==
  ASSUME Round, plane' = plane, num' = num, thread'.hand = thread.hand, failed => failed'
  PROVE  Round'
BY DEF Round, InPlace, BuffersGoRound, Used

LEMMA RoundOff ==
  ASSUME TInv, Round, plane' = Off, num' = num, thread'.hand \in {thread.hand, Nothing}
  PROVE  Round'
BY Hands DEF Round, InPlace, BuffersGoRound, Used, Off

LEMMA RoundFailed ==
  ASSUME TInv, Round, plane' = plane, num' = num, thread'.hand \in {thread.hand, Nothing},
         failed'
  PROVE  Round'
BY Hands DEF Round, InPlace, BuffersGoRound, Used

LEMMA RoundSet ==
  ASSUME TInv, Round, SetCapture, thread.hand = Nothing, thread'.hand = Nothing
  PROVE  Round'
<1>1. CASE NoFormat \/ NoTransformBuffer
  BY <1>1, RoundFailed DEF NoFormat, NoTransformBuffer, buffers
<1>2. ASSUME NEW fd \in Fds, NEW i \in Listed, NotDestroyed(fd, i) PROVE Round'
  BY <1>2, RoundOff DEF NotDestroyed
<1>3. ASSUME NEW fd \in Fds, NoPlane(fd) PROVE Round'
  BY <1>3, RoundOff DEF NoPlane
<1>4. ASSUME NEW fd \in Fds, NEW n \in Counts, NEW k \in 0 .. n, NotStarted(fd, n, k)
      PROVE  Round'
  BY <1>4, Hands DEF NotStarted, Round, InPlace, BuffersGoRound, Used, Off
<1>5. ASSUME NEW fd \in Fds, NEW n \in Counts, NEW k \in 0 .. n, Started(fd, n, k)
      PROVE  Round'
  <2>1. n \in Nat /\ num' = n /\ plane' = [on |-> TRUE, queued |-> 0 .. k - 1, done |-> {}]
    BY <1>5, CaptureAssumption DEF Started
  <2>2. k = n \/ failed'
    <3>1. k = n \/ k < n
      BY <2>1
    <3>2. k < n => failed'
      BY <1>5, Zenon DEF Started
    <3> QED
      BY <3>1, <3>2
  <2>3. InPlace'
    BY <2>1, Hands DEF InPlace, Used
  <2>4. ASSUME k = n PROVE BuffersGoRound'
    BY <2>1, <2>4 DEF BuffersGoRound, Used, Nothing
  <2>5. ASSUME failed' PROVE BuffersGoRound'
    BY <2>5 DEF BuffersGoRound
  <2> QED
    BY <2>2, <2>3, <2>4, <2>5 DEF Round
<1> QED
  BY <1>1, <1>2, <1>3, <1>4, <1>5 DEF SetCapture

LEMMA RoundThread == ASSUME TInv, Round, CaptureThread PROVE Round'
<1>1. CASE FirstEvent
  <2>1. thread.hand = Nothing /\ thread'.hand = Nothing
    BY <1>1, Hands DEF FirstEvent, Held
  <2>2. CASE gotError
    BY <1>1, <2>1, <2>2, RoundKept DEF FirstEvent, buffers
  <2>3. CASE ~gotError
    BY <1>1, <2>1, <2>3, RoundSet DEF FirstEvent
  <2> QED
    BY <2>2, <2>3
<1>2. CASE LoopEvent
  BY <1>2, Hands, RoundSet DEF LoopEvent, Held, hands
<1>3. CASE FirstTimeout \/ TakeFails \/ RequeueFails
  <2>1. plane' = Off /\ num' = num
    BY <1>3 DEF FirstTimeout, TakeFails, RequeueFails, Abort, buffers
  <2>2. thread'.hand = Nothing
    BY <1>3, Hands DEF FirstTimeout, TakeFails, RequeueFails
  <2> QED
    BY <2>1, <2>2, RoundOff
<1>4. CASE LoopEnds \/ LoopTakes \/ TakesNothing
  <2>1. thread.hand = Nothing /\ thread'.hand = Nothing
    BY <1>4, Hands DEF LoopEnds, LoopTakes, TakesNothing, Held
  <2>2. plane' = plane /\ num' = num /\ failed' = failed
    BY <1>4 DEF LoopEnds, LoopTakes, TakesNothing, planes, buffers
  <2> QED
    BY <2>1, <2>2, RoundKept
<1>5. ASSUME NEW i \in Slots, Take(i) PROVE Round'
  <2>1. thread.hand = Nothing /\ i # Nothing /\ i \in plane.done
    BY <1>5, Hands DEF Take, Held
  <2>2. /\ thread'.hand = i /\ num' = num /\ failed' = failed
        /\ plane'.on = plane.on /\ plane'.queued = plane.queued
        /\ plane'.done = plane.done \ {i}
    BY <1>5 DEF Take, buffers, TInv, TypeOK
  <2>3. InPlace'
    BY <2>1, <2>2 DEF Round, InPlace, Used
  <2>4. BuffersGoRound'
    BY <2>1, <2>2 DEF Round, BuffersGoRound, Used
  <2> QED
    BY <2>3, <2>4 DEF Round
<1>6. CASE Convert \/ Hit \/ MakeImage \/ Register \/ Copy \/ Infer
  <2>1. thread'.hand = thread.hand
    BY <1>6, Hands DEF Convert, Hit, MakeImage, Register, Copy, Infer, Fails
  <2>2. plane' = plane /\ num' = num
    BY <1>6 DEF Convert, Hit, MakeImage, Register, Copy, Infer, planes, buffers
  <2>3. failed => failed'
    BY <1>6, Zenon DEF Convert, Hit, MakeImage, Register, Copy, Infer, Fails
  <2> QED
    BY <2>1, <2>2, <2>3, RoundKept
<1>7. CASE ConvertFails
  BY <1>7, Hands, RoundFailed DEF ConvertFails, planes, buffers
<1>8. CASE Requeue
  <2>1. thread.hand \in Slots /\ thread.hand # Nothing
    BY <1>8, Hands DEF Requeue, TInv, HandFits, Held
  <2>2. /\ thread'.hand = Nothing /\ num' = num /\ failed' = failed
        /\ plane'.on = plane.on /\ plane'.queued = plane.queued \cup {thread.hand}
        /\ plane'.done = plane.done
    BY <1>8, Hands DEF Requeue, GivenBack, buffers, TInv, TypeOK
  <2>3. InPlace'
    BY <2>1, <2>2, Hands DEF Round, InPlace, Used
  <2>4. BuffersGoRound'
    <3>1. SUFFICES ASSUME plane.on, ~failed
                   PROVE  /\ plane'.queued \cup plane'.done = Used
                          /\ plane'.queued \cap plane'.done = {}
      <4>1. Nothing \notin plane'.queued \cup plane'.done
        BY <2>1, <2>2, Hands DEF TInv, TypeOK
      <4>2. Used' = Used /\ {thread'.hand} \ {Nothing} = {}
        BY <2>2 DEF Used
      <4> QED
        BY <2>2, <4>1, <4>2 DEF BuffersGoRound
    <3>2. /\ plane.queued \cup plane.done \cup {thread.hand} = Used
          /\ plane.queued \cap plane.done = {}
          /\ thread.hand \notin plane.queued \cup plane.done
      BY <2>1, <3>1 DEF Round, BuffersGoRound
    <3> QED
      BY <2>2, <3>2
  <2> QED
    BY <2>3, <2>4 DEF Round
<1> QED
  BY <1>1, <1>2, <1>3, <1>4, <1>5, <1>6, <1>7, <1>8, Zenon
  DEF CaptureThread, Looks, Takes, Shows

LEMMA RoundStep == ASSUME TInv, Round, [Next]_vars PROVE Round'
<1>1. CASE Feed \/ ReleaseCuda \/ FirstDq \/ QueueEos \/ Drain \/ Unregister \/ DestroyImage
           \/ Terminate \/ DeviceSkips \/ DeviceAnnounces \/ DeviceDrains \/ UNCHANGED vars
  <2>1. plane' = plane /\ num' = num /\ thread' = thread
    BY <1>1 DEF Feed, ReleaseCuda, FirstDq, QueueEos, Drain, Unregister, DestroyImage,
       Terminate, DeviceSkips, DeviceAnnounces, DeviceDrains, vars, hands, buffers, planes
  <2>2. failed => failed'
    BY <1>1, Zenon DEF Feed, ReleaseCuda, FirstDq, QueueEos, Drain, Unregister, DestroyImage,
       Terminate, DeviceSkips, DeviceAnnounces, DeviceDrains, vars
  <2> QED
    BY <2>1, <2>2, RoundKept
<1>2. CASE FeedFails \/ Free
  BY <1>2, RoundOff DEF FeedFails, Free, Abort, hands, buffers
<1>3. CASE SetEos
  <2>1. num' = num /\ thread' = thread
    BY <1>3 DEF SetEos, buffers
  <2>2. CASE plane' = Off
    BY <2>1, <2>2, RoundOff
  <2>3. CASE plane' = plane /\ failed' = failed
    BY <2>1, <2>3, RoundKept
  <2> QED
    BY <1>3, <2>2, <2>3, Zenon DEF SetEos, Abort
<1>4. CASE DeviceDecodes
  <2>1. PICK i \in plane.queued :
          plane' = [plane EXCEPT !.queued = @ \ {i}, !.done = @ \cup {i}]
    BY <1>4 DEF DeviceDecodes
  <2>2. /\ thread' = thread /\ num' = num /\ failed' = failed
        /\ plane'.on = plane.on /\ plane'.queued = plane.queued \ {i}
        /\ plane'.done = plane.done \cup {i}
    BY <1>4, <2>1 DEF DeviceDecodes, hands, buffers, TInv, TypeOK
  <2>3. InPlace'
    BY <2>2 DEF Round, InPlace, Used
  <2>4. BuffersGoRound'
    BY <2>2 DEF Round, BuffersGoRound, Used
  <2> QED
    BY <2>3, <2>4 DEF Round
<1> QED
  BY <1>1, <1>2, <1>3, <1>4, RoundThread, Zenon DEF Next, MainThread, Device

LEMMA InitRound == ASSUME Init PROVE Round
BY CaptureAssumption
DEF Init, Round, InPlace, BuffersGoRound, Used, Off, At, Nothing, Slots

(* As long as no call has failed, each capture buffer is with the device,  *)
(* finished, or in the thread's hands, and in one place only (nvdec.c      *)
(* 735-957, renderer.c 427-444), through every change of resolution.       *)
THEOREM LifeBuffersGoRound == Spec => []BuffersGoRound
<1>1. Init => TInv /\ Round
  BY InitTypes, InitRound
<1>2. TInv /\ Round /\ [Next]_vars => TInv' /\ Round'
  BY StepTypes, RoundStep
<1>3. Round => BuffersGoRound
  BY DEF Round
<1> QED
  BY <1>1, <1>2, <1>3, PTL DEF Spec

-----------------------------------------------------------------------------
(* Descriptors are destroyed by their owner, and never under the thread's  *)
(* hands.                                                                  *)

\* The array lists live buffers, each once, and not the transform buffer.
Whole ==
  /\ \A i \in Used : caps[i] \in open /\ caps[i] # dst
  /\ \A i, j \in Used : caps[i] = caps[j] => i = j
  /\ dst # Nothing => dst \in open
  /\ ~stray

\* A picture under way to the network has its transform buffer.
Ready == thread.pc \in {"image", "register", "copy"} => dst \in open

Over == shut = "freed" => thread.pc = "ended"

Owned == (~unset /\ shut # "freed" => Whole) /\ Ready /\ Over /\ DestroysItsOwn

LEMMA OwnedKept ==
  ASSUME Owned, UNCHANGED buffers, shut' = "freed" => shut = "freed",
         shut = "freed" => shut' = "freed" /\ thread' = thread,
         thread'.pc \in {"image", "register", "copy"} =>
           thread.pc \in {"image", "register", "copy"} \/ dst \in open
  PROVE  Owned'
<1>1. /\ dst' = dst /\ caps' = caps /\ num' = num /\ open' = open
      /\ unset' = unset /\ stray' = stray
  BY DEF buffers
<1>2. Whole' <=> Whole
  BY <1>1 DEF Whole, Used
<1>3. DestroysItsOwn'
  BY <1>1 DEF Owned, DestroysItsOwn
<1>4. Ready'
  BY <1>1 DEF Owned, Ready
<1>5. Over'
  BY DEF Owned, Over
<1> QED
  BY <1>1, <1>2, <1>3, <1>4, <1>5 DEF Owned

\* With a whole array, destroying it strays nowhere.
LEMMA WholeDestroys ==
  ASSUME TInv, Whole
  PROVE  /\ ~DstStrays
         /\ Destroyed \subseteq open \ {dst}
         /\ \A i \in Used : caps[i] \in Destroyed
         /\ \A inUse : open \ {dst} \subseteq inUse => \A i \in Used : caps[i] \in inUse
<1>1. caps \in [Slots -> Fds \cup {0}] /\ Used \subseteq Slots /\ open \subseteq Fds
  BY CaptureAssumption DEF TInv, TypeOK, Used, Slots
<1>2. \A i \in Used : caps[i] # 0
  BY <1>1, CaptureAssumption DEF Whole
<1> QED
  BY <1>1, <1>2 DEF Whole, DstStrays, Destroyed, Listed

LEMMA WholeRefusesNone ==
  ASSUME TInv, Whole, NEW inUse, open \ {dst} \subseteq inUse, NEW other, other \notin open \ {dst}
  PROVE  ~CapsStray(inUse, other)
<1>1. ASSUME NEW i \in Used PROVE ~Refused(i, inUse)
  <2>1. caps[i] \in inUse
    BY WholeDestroys
  <2>2. \A j \in Used : caps[j] = caps[i] => ~(j < i)
    BY DEF Whole, Used, TInv, TypeOK
  <2> QED
    BY <2>1, <2>2, Zenon DEF Refused
<1> QED
  BY <1>1, WholeDestroys DEF CapsStray

LEMMA OwnedSet ==
  ASSUME TInv, Owned, SetCapture, shut # "freed", shut' = shut,
         thread'.pc \notin {"image", "register", "copy"}
  PROVE  Owned'
<1>1. Ready' /\ Over'
  BY DEF Ready, Over
<1>2. ASSUME unset PROVE unset'
  BY <1>2, Zenon DEF SetCapture, NoFormat, NoTransformBuffer, NotDestroyed, NoPlane,
     NotStarted, Started, buffers
<1>3. CASE unset'
  BY <1>1, <1>3, Zenon DEF Owned, DestroysItsOwn
<1>4. ASSUME ~unset' PROVE Whole'
  <2>1. Whole /\ ~stray
    BY <1>2, <1>4, Zenon DEF Owned, Whole
  <2>2. CASE NoFormat
    BY <2>1, <2>2 DEF NoFormat, buffers, Whole, Used
  <2>3. CASE NoTransformBuffer
    <3>1. dst' = Nothing /\ open' = open \ {dst} /\ caps' = caps /\ num' = num
      BY <2>3 DEF NoTransformBuffer, WithoutDst
    <3>2. ~stray'
      BY <2>1, <2>3, WholeDestroys, Zenon DEF NoTransformBuffer
    <3>3. \A i \in Used : caps[i] # Nothing
      BY <2>1, CaptureAssumption DEF Whole, Nothing, TInv, TypeOK
    <3> QED
      BY <2>1, <3>1, <3>2, <3>3 DEF Whole, Used
  <2>4. ASSUME NEW fd \in Fds \ WithoutDst,
               dst' = fd,
               stray' = (stray \/ DstStrays \/ CapsStray(With(fd), fd)),
               NEW n \in Counts, NEW k \in 0 .. n,
               Created(fd, k), num' = n, k = n
        PROVE  Whole'
    <3>1. fd \notin open \ {dst} /\ open \ {dst} \subseteq With(fd) /\ fd \in With(fd)
      BY DEF WithoutDst, With
    <3>2. ~stray'
      BY <2>1, <2>4, <3>1, WholeRefusesNone, WholeDestroys, Zenon
    <3>3. fd \in With(fd) \ Destroyed
      BY <2>1, <3>1, WholeDestroys
    <3>4. PICK fds \in [0 .. k - 1 -> Fds \ (With(fd) \ Destroyed)] :
            /\ \A i, j \in 0 .. k - 1 : fds[i] = fds[j] => i = j
            /\ caps' = [i \in Slots |-> IF i < k THEN fds[i] ELSE caps[i]]
            /\ open' = (With(fd) \ Destroyed) \cup { fds[i] : i \in 0 .. k - 1 }
      BY <2>4, Zenon DEF Created
    <3>5. n \in 1 .. MaxBuffers /\ Used' = 0 .. k - 1 /\ 0 .. k - 1 \subseteq Slots
      BY <2>4, CaptureAssumption DEF Used, Slots
    <3>6. \A i \in 0 .. k - 1 : caps'[i] = fds[i] /\ fds[i] \notin With(fd) \ Destroyed
      BY <3>4, <3>5
    <3>7. fd \in open'
      BY <3>3, <3>4
    <3>8. \A i \in Used' : caps'[i] \in open' /\ caps'[i] # dst'
      BY <2>4, <3>3, <3>4, <3>5, <3>6
    <3>9. \A i, j \in Used' : caps'[i] = caps'[j] => i = j
      BY <3>4, <3>5, <3>6
    <3> QED
      BY <2>4, <3>2, <3>7, <3>8, <3>9 DEF Whole
  <2>5. ASSUME NEW fd \in Fds \ WithoutDst,
               dst' = fd,
               stray' = (stray \/ DstStrays \/ CapsStray(With(fd), fd)),
               NEW n \in Counts, NEW k \in 0 .. n, NotStarted(fd, n, k)
        PROVE  Whole'
    <3>1. n \in Nat
      BY CaptureAssumption
    <3>2. ~(k < n)
      BY <1>4, <2>5, Zenon DEF NotStarted
    <3>3. k = n
      BY <3>1, <3>2
    <3> QED
      BY <2>4, <2>5, <3>3 DEF NotStarted
  <2>6. ASSUME NEW fd \in Fds \ WithoutDst,
               dst' = fd,
               stray' = (stray \/ DstStrays \/ CapsStray(With(fd), fd)),
               NEW n \in Counts, NEW k \in 0 .. n, Started(fd, n, k)
        PROVE  Whole'
    <3>1. n \in 0 .. n
      BY CaptureAssumption
    <3> QED
      BY <2>4, <2>6, <3>1 DEF Started
  <2> QED
    BY <1>4, <2>2, <2>3, <2>5, <2>6, Zenon DEF SetCapture, NotDestroyed, NoPlane
<1>5. CASE ~unset'
  BY <1>1, <1>4, <1>5 DEF Owned, Whole, DestroysItsOwn
<1> QED
  BY <1>3, <1>5

LEMMA OwnedStep == ASSUME TInv, Owned, [Next]_vars PROVE Owned'
<1>1. CASE FirstEvent
  <2>1. shut # "freed" /\ shut' = shut /\ thread'.pc \notin {"image", "register", "copy"}
    BY <1>1, Hands DEF FirstEvent, Owned, Over
  <2>2. CASE gotError
    BY <1>1, <2>1, <2>2, OwnedKept DEF FirstEvent
  <2>3. CASE ~gotError
    BY <1>1, <2>1, <2>3, OwnedSet DEF FirstEvent
  <2> QED
    BY <2>2, <2>3
<1>2. CASE LoopEvent
  BY <1>2, OwnedSet DEF LoopEvent, Owned, Over, hands
<1>3. CASE FirstTimeout \/ (Looks /\ ~LoopEvent) \/ Takes \/ Shows
  <2>1. UNCHANGED buffers /\ shut' = shut
    BY <1>3 DEF FirstTimeout, Looks, LoopEnds, LoopTakes, Takes, TakesNothing, TakeFails, Take,
       Shows, Convert, ConvertFails, Hit, MakeImage, Register, Copy, Infer, Requeue, RequeueFails
  <2>2. thread.pc # "ended"
    BY <1>3 DEF FirstTimeout, Looks, LoopEnds, LoopTakes, Takes, TakesNothing, TakeFails, Take,
       Shows, Convert, ConvertFails, Hit, MakeImage, Register, Copy, Infer, Requeue, RequeueFails
  <2>3. thread'.pc \in {"image", "register", "copy"} =>
          thread.pc \in {"image", "register", "copy"} \/ dst \in open
    <3>1. CASE FirstTimeout \/ LoopEnds \/ LoopTakes \/ Takes \/ ConvertFails \/ Requeue
               \/ RequeueFails
      BY <3>1, Hands DEF FirstTimeout, LoopEnds, LoopTakes, Takes, TakesNothing, AfterNothing,
         TakeFails, Take, ConvertFails, Requeue, RequeueFails
    <3>2. CASE Convert
      BY <3>2 DEF Convert
    <3>3. CASE Hit \/ MakeImage \/ Register \/ Copy
      BY <3>3 DEF Hit, MakeImage, Register, Copy
    <3>4. CASE Infer
      BY <3>4, Hands DEF Infer
    <3> QED
      BY <1>3, <3>1, <3>2, <3>3, <3>4, Zenon DEF Looks, Shows
  <2> QED
    BY <2>1, <2>2, <2>3, OwnedKept DEF Owned, Over
<1>4. CASE (MainThread /\ ~Free) \/ Device \/ UNCHANGED vars
  <2>1. UNCHANGED buffers /\ thread' = thread
    BY <1>4 DEF MainThread, Feed, FeedFails, ReleaseCuda, FirstDq, QueueEos, Drain, SetEos,
       Unregister, DestroyImage, Terminate, Device, DeviceSkips, DeviceAnnounces,
       DeviceDecodes, DeviceDrains, vars, hands
  <2>2. shut' = "freed" <=> shut = "freed"
    BY <1>4 DEF MainThread, Feed, FeedFails, ReleaseCuda, FirstDq, QueueEos, Drain, SetEos,
       Unregister, DestroyImage, Terminate, Device, DeviceSkips, DeviceAnnounces,
       DeviceDecodes, DeviceDrains, vars
  <2> QED
    BY <2>1, <2>2, OwnedKept
<1>5. CASE Free
  <2>1. thread' = thread /\ thread.pc = "ended" /\ shut # "freed" /\ shut' = "freed" /\ unset' = unset
    BY <1>5 DEF Free, Joined, hands
  <2>2. Ready' /\ Over'
    BY <2>1 DEF Ready, Over
  <2>3. CASE unset
    BY <2>1, <2>2, <2>3, Zenon DEF Owned, DestroysItsOwn
  <2>4. CASE ~unset
    <3>1. Whole
      BY <2>1, <2>4 DEF Owned
    <3>2. ~CapsStray(open, dst) /\ ~DstStrays /\ ~stray
      BY <3>1, WholeRefusesNone, WholeDestroys DEF Whole
    <3>3. ~stray'
      BY <1>5, <3>2, Zenon DEF Free
    <3> QED
      BY <2>1, <2>2, <3>3, Zenon DEF Owned, DestroysItsOwn
  <2> QED
    BY <2>3, <2>4
<1> QED
  BY <1>1, <1>2, <1>3, <1>4, <1>5, Zenon DEF Next, CaptureThread, MainThread, Looks

LEMMA InitOwned == ASSUME Init PROVE Owned
BY DEF Init, Owned, Whole, Ready, Over, DestroysItsOwn, Used, At

(* Only descriptors of the decoder's own live buffers are destroyed        *)
(* (renderer.c 71-76, 180-190, nvdec.c 518-566) unless setting up a plane  *)
(* failed half-way.                                                        *)
THEOREM LifeDestroysItsOwn == Spec => []DestroysItsOwn
<1>1. Init => TInv /\ Owned
  BY InitTypes, InitOwned
<1>2. TInv /\ Owned /\ [Next]_vars => TInv' /\ Owned'
  BY StepTypes, OwnedStep
<1>3. Owned => DestroysItsOwn
  BY DEF Owned
<1> QED
  BY <1>1, <1>2, <1>3, PTL DEF Spec

(* A picture in the thread's hands lies in a buffer that exists, and so    *)
(* does the buffer it is converted into, whatever main does meanwhile      *)
(* (nvdec.c 785-957 beside 374-566).                                       *)
THEOREM LifePictureIsKept == Spec => []PictureIsKept
<1>1. Init => TInv /\ Round /\ Owned
  BY InitTypes, InitRound, InitOwned
<1>2. TInv /\ Round /\ Owned /\ [Next]_vars => TInv' /\ Round' /\ Owned'
  BY StepTypes, RoundStep, OwnedStep
<1>3. TInv /\ Round /\ Owned => PictureIsKept
  <2> SUFFICES ASSUME TInv, Round, Owned, ~unset, thread.hand # Nothing
               PROVE  /\ caps[thread.hand] \in open
                      /\ thread.pc \in {"image", "register", "copy"} => dst \in open
    BY DEF PictureIsKept
  <2>1. thread.hand \in Used /\ thread.pc # "ended"
    BY Hands DEF Round, InPlace, Held
  <2>2. Whole
    BY <2>1 DEF Owned, Over
  <2> QED
    BY <2>1, <2>2 DEF Whole, Owned, Ready
<1> QED
  BY <1>1, <1>2, <1>3, PTL DEF Spec

-----------------------------------------------------------------------------
(* The network is shown the picture just taken.                            *)

\* Main touches the cache only after it has set got_eos.
EosFirst ==
  shut \in {"unregister", "destroyImage", "terminate", "join", "freed"} => gotEos

\* Until then the cache is as the thread left it.
Cached ==
  ~gotEos =>
    /\ cache.image # "none" /\ thread.pc # "register" => cache.registered
    /\ ~failed /\ thread.pc = "register" => cache.image = "current"
    /\ ~failed /\ thread.pc = "copy" =>
         cache.registered /\ cache.image # "none" /\ cache.fd = dst

Shown == EosFirst /\ Cached /\ SeesThisPicture

Away == {"first", "loop", "take", "convert", "image", "requeue", "ended"}

\* Steps of main and the device before got_eos is set.
LEMMA ShownKept ==
  ASSUME Shown, cache' = cache, rgb' = rgb, dst' = dst, thread' = thread,
         gotEos => gotEos', failed => failed', EosFirst'
  PROVE  Shown'
BY DEF Shown, Cached, SeesThisPicture

\* Steps of the thread between pictures.
LEMMA ShownAway ==
  ASSUME Shown, thread.pc \in Away, thread'.pc \in Away,
         cache'.image = "none" <=> cache.image = "none", cache'.registered = cache.registered,
         gotEos' = gotEos, EosFirst'
  PROVE  Shown'
BY DEF Shown, Cached, SeesThisPicture, Away

LEMMA ShownThread == ASSUME TInv, Shown, CaptureThread PROVE Shown'
<1>1. gotEos' = gotEos /\ shut' = shut
  BY DEF CaptureThread, FirstEvent, FirstTimeout, Looks, LoopEnds, LoopEvent, LoopTakes, Takes,
     TakesNothing, TakeFails, Take, Shows, Convert, ConvertFails, Hit, MakeImage, Register, Copy,
     Infer, Requeue, RequeueFails, hands
<1>2. EosFirst'
  BY <1>1 DEF Shown, EosFirst
<1>3. cache \in [ fd : Fds \cup {Nothing}, image : {"none", "current", "orphan"},
                  registered : BOOLEAN ]
  BY DEF TInv, TypeOK
<1>4. CASE FirstEvent \/ LoopEvent
  <2>1. thread.pc \in Away /\ thread'.pc \in Away
    BY <1>4, Hands DEF FirstEvent, LoopEvent, hands, Away
  <2>2. cache' = cache \/ cache' = Orphaned
    BY <1>4, Zenon DEF FirstEvent, LoopEvent, SetCapture, NoFormat, NoTransformBuffer
  <2>3. (cache'.image = "none" <=> cache.image = "none") /\ cache'.registered = cache.registered
    BY <1>3, <2>2 DEF Orphaned
  <2> QED
    BY <1>1, <1>2, <2>1, <2>3, ShownAway
<1>5. CASE FirstTimeout \/ LoopEnds \/ LoopTakes \/ Takes \/ Convert \/ ConvertFails \/ Requeue
           \/ RequeueFails
  <2>1. thread.pc \in Away /\ thread'.pc \in Away
    BY <1>5, Hands DEF FirstTimeout, LoopEnds, LoopTakes, Takes, TakesNothing, AfterNothing,
       TakeFails, Take, Convert, ConvertFails, Requeue, RequeueFails, Away
  <2>2. cache' = cache
    BY <1>5 DEF FirstTimeout, LoopEnds, LoopTakes, Takes, TakesNothing,
       TakeFails, Take, Convert, ConvertFails, Requeue, RequeueFails, pictures
  <2> QED
    BY <1>1, <1>2, <2>1, <2>2, ShownAway
<1>6. CASE Hit
  <2>1. thread.pc = "image" /\ thread'.pc = "copy" /\ cache' = cache /\ dst' = dst
        /\ cache.image # "none" /\ cache.fd = dst
    BY <1>6, Hands DEF Hit, Misses, buffers, pictures
  <2> QED
    BY <1>1, <1>2, <2>1 DEF Shown, Cached, SeesThisPicture
<1>7. CASE MakeImage
  <2>1. CASE thread' = Holding("register")
    <3>1. thread'.pc = "register" /\ cache'.image = "current"
      BY <1>3, <1>7, <2>1, Hands DEF MakeImage, Holding
    <3> QED
      BY <1>2, <3>1 DEF Shown, Cached, SeesThisPicture
  <2>2. CASE thread' = Holding("infer") /\ failed'
    <3>1. thread'.pc = "infer" /\ cache'.image = "none"
      BY <1>3, <1>7, <2>2, Hands DEF MakeImage, Holding
    <3> QED
      BY <1>2, <2>2, <3>1 DEF Shown, Cached, SeesThisPicture
  <2> QED
    BY <1>7, <2>1, <2>2, Zenon DEF MakeImage
<1>8. CASE Register
  <2>1. thread.pc = "register" /\ dst' = dst
    BY <1>8 DEF Register, buffers
  <2>2. CASE thread' = thread /\ cache' = cache /\ failed' = failed
    BY <1>1, <1>2, <2>1, <2>2 DEF Shown, Cached, SeesThisPicture
  <2>3. CASE /\ cache.image # "none" /\ thread' = Holding("copy")
             /\ cache' = [cache EXCEPT !.fd = dst, !.registered = TRUE]
    <3>1. thread'.pc = "copy" /\ cache'.fd = dst /\ cache'.registered /\ cache'.image # "none"
      BY <1>3, <2>3, Hands
    <3> QED
      BY <1>2, <2>1, <3>1 DEF Shown, Cached, SeesThisPicture
  <2>4. CASE failed' /\ thread' = Holding("infer") /\ cache' = [cache EXCEPT !.image = "none"]
    <3>1. thread'.pc = "infer" /\ cache'.image = "none"
      BY <1>3, <2>4, Hands
    <3> QED
      BY <1>2, <2>4, <3>1 DEF Shown, Cached, SeesThisPicture
  <2> QED
    BY <1>8, <2>2, <2>3, <2>4, Zenon DEF Register, Fails
<1>9. CASE Copy
  <2>1. thread.pc = "copy" /\ dst' = dst /\ cache' = cache
    BY <1>9 DEF Copy, buffers
  <2>2. CASE thread' = thread /\ failed' = failed
    BY <1>1, <1>2, <2>1, <2>2 DEF Shown, Cached, SeesThisPicture
  <2>3. CASE /\ thread' = Holding("infer") /\ failed' = failed
             /\ rgb' = (IF cache.image = "current" THEN "this" ELSE "other")
    <3>1. thread'.pc = "infer"
      BY <2>3, Hands
    <3> QED
      BY <1>1, <1>2, <1>3, <2>1, <2>3, <3>1 DEF Shown, Cached, SeesThisPicture
  <2>4. CASE /\ thread' = Holding("infer") /\ failed' = failed
             /\ ~cache.registered
    <3>1. thread'.pc = "infer"
      BY <2>4, Hands
    <3> QED
      BY <1>1, <1>2, <1>3, <2>1, <2>4, <3>1 DEF Shown, Cached, SeesThisPicture
  <2>5. CASE thread' = Holding("infer") /\ failed'
    <3>1. thread'.pc = "infer"
      BY <2>5, Hands
    <3> QED
      BY <1>1, <1>2, <2>1, <2>5, <3>1 DEF Shown, Cached, SeesThisPicture
  <2> QED
    BY <1>9, <2>2, <2>3, <2>5, <2>4, Zenon DEF Copy, Fails
<1>10. CASE Infer
  <2>1. thread.pc = "infer" /\ cache' = cache /\ dst' = dst /\ failed' = failed
    BY <1>10 DEF Infer, buffers
  <2>2. thread' = Holding("requeue") \/ (thread' = thread /\ rgb' = rgb)
    BY <1>10, Zenon DEF Infer
  <2>3. thread'.pc = "requeue" \/ (thread' = thread /\ rgb' = rgb)
    BY <2>2, Hands
  <2> QED
    BY <1>1, <1>2, <2>1, <2>3 DEF Shown, Cached, SeesThisPicture
<1> QED
  BY <1>4, <1>5, <1>6, <1>7, <1>8, <1>9, <1>10, Zenon DEF CaptureThread, Looks, Shows

LEMMA ShownStep == ASSUME TInv, Shown, [Next]_vars PROVE Shown'
<1>1. CASE Feed \/ FeedFails \/ ReleaseCuda \/ FirstDq \/ QueueEos \/ Drain \/ SetEos \/ Terminate
           \/ Device \/ UNCHANGED vars
  <2>1. cache' = cache /\ rgb' = rgb /\ dst' = dst /\ thread' = thread
    BY <1>1 DEF Feed, FeedFails, ReleaseCuda, FirstDq, QueueEos, Drain, SetEos, Terminate,
       Device, DeviceSkips, DeviceAnnounces, DeviceDecodes, DeviceDrains,
       vars, hands, buffers, planes, pictures
  <2>2. (gotEos => gotEos') /\ (failed => failed')
    <3>1. gotEos' = gotEos \/ gotEos' = TRUE
      BY <1>1, Zenon DEF Feed, FeedFails, ReleaseCuda, FirstDq, QueueEos, Drain, SetEos,
         Terminate, Device, DeviceSkips, DeviceAnnounces, DeviceDecodes, DeviceDrains, vars, hands
    <3>2. failed' = failed \/ failed' = TRUE
      BY <1>1, Zenon DEF Feed, FeedFails, ReleaseCuda, FirstDq, QueueEos, Drain, SetEos,
         Terminate, Device, DeviceSkips, DeviceAnnounces, DeviceDecodes, DeviceDrains, Abort, vars
    <3> QED
      BY <3>1, <3>2
  <2>3. EosFirst'
    BY <1>1, <2>2 DEF Feed, FeedFails, ReleaseCuda, FirstDq, QueueEos, Drain, SetEos, Terminate,
       Device, DeviceSkips, DeviceAnnounces, DeviceDecodes, DeviceDrains, vars, Shown, EosFirst
  <2> QED
    BY <2>1, <2>2, <2>3, ShownKept
<1>2. CASE Unregister \/ DestroyImage \/ Free
  <2>1. gotEos /\ gotEos' = gotEos
    BY <1>2 DEF Unregister, DestroyImage, Free, Shown, EosFirst, hands
  <2> QED
    BY <2>1 DEF Shown, EosFirst, Cached, SeesThisPicture
<1> QED
  BY <1>1, <1>2, ShownThread, Zenon DEF Next, MainThread

LEMMA InitShown == ASSUME Init PROVE Shown
BY DEF Init, Shown, EosFirst, Cached, SeesThisPicture, At

(* The network sees the picture just taken, unless a call has failed or    *)
(* the cached image was made of an earlier buffer that had the same number *)
(* (nvdec.c 1017-1092): no other order of events can show it another one.  *)
THEOREM LifeSeesThisPicture == Spec => []SeesThisPicture
<1>1. Init => TInv /\ Shown
  BY InitTypes, InitShown
<1>2. TInv /\ Shown /\ [Next]_vars => TInv' /\ Shown'
  BY StepTypes, ShownStep
<1>3. Shown => SeesThisPicture
  BY DEF Shown
<1> QED
  BY <1>1, <1>2, <1>3, PTL DEF Spec
=============================================================================
