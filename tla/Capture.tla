------------------------------ MODULE Capture -------------------------------
(***************************************************************************)
(* The picture side of one hardware decoder (decoder/nvdec.c, renderer.c): *)
(* the capture thread, the buffers of the capture plane and of the         *)
(* transform, and the EGL image cached for CUDA.  DecoderLife adds the     *)
(* device and the main thread, which feeds it and shuts it down.           *)
(*                                                                         *)
(* A buffer is named by the number of its descriptor.  The system gives a  *)
(* number again as soon as it is closed, so a number that was kept may be  *)
(* stale, or name another buffer.  `open` holds the numbers in use; the    *)
(* cached image knows whether it shows the buffer now behind dst_dma_fd.   *)
(*                                                                         *)
(* An abort turns both planes off, and every dequeue fails from then on.   *)
(***************************************************************************)
EXTENDS Integers, FiniteSets

CONSTANTS
  MaxBuffers,   \* length of dmabuff_fd[]
  Counts,       \* how many capture buffers a resolution may need
  Fds,          \* descriptor numbers
  OutBuffers,   \* buffers of the output plane
  MayFail       \* may calls of the driver, EGL and CUDA fail?

ASSUME CaptureAssumption ==
  /\ MaxBuffers \in Nat
  /\ Counts \subseteq 1 .. MaxBuffers
  /\ Fds \subseteq Nat \ {0}
  /\ OutBuffers \in Nat
  /\ MayFail \in BOOLEAN

VARIABLES
  thread,     \* the capture thread: where it is, and the buffer in its hands
  gotError,   \* ctx->got_error: the decoder was aborted
  gotEos,     \* ctx->got_eos
  dst,        \* ctx->dst_dma_fd
  caps,       \* ctx->dmabuff_fd[]
  num,        \* ctx->numCapBuffers
  open,       \* the descriptors in use
  plane,      \* capture plane: streaming, buffers with the device, finished
  out,        \* output plane: buffers with the device, finished, and the EOS
  device,     \* the decoder behind both planes
  event,      \* a resolution change is waiting in the event queue
  cache,      \* cached_fd, cached_egl_image, resource_registered
  rgb,        \* the CUDA buffer holds the picture in hand, or another one
  cuda,       \* the CUDA buffers have not been released
  shut,       \* how far the main thread is with its shutdown
  failed,     \* history: some call has failed
  unset,      \* history: the plane was left without the buffers it had
  stray,      \* history: a number was destroyed that was not ours (any more)
  wild        \* undefined: memory was used before it was set or after it was freed

hands == <<thread, gotError, gotEos>>
buffers == <<dst, caps, num, open, unset, stray>>
planes == <<plane, out, device, event>>
pictures == <<cache, rgb, cuda>>
vars == <<hands, buffers, planes, pictures, shut, failed, wild>>

Nothing == -1
Slots == 0 .. MaxBuffers - 1
Used == 0 .. num - 1
Off == [on |-> FALSE, queued |-> {}, done |-> {}]

At(pc) == [pc |-> pc, hand |-> Nothing]
Holding(pc) == [thread EXCEPT !.pc = pc]

Init ==
  /\ thread = At("first")
  /\ gotError = FALSE
  /\ gotEos = FALSE
  /\ dst = Nothing
  /\ caps = [i \in Slots |-> 0]
  /\ num = 0
  /\ open = {}
  /\ plane = Off
  /\ out = [given |-> 0, done |-> 0, eos |-> FALSE]
  /\ device = "new"
  /\ event = FALSE
  /\ cache = [fd |-> Nothing, image |-> "none", registered |-> FALSE]
  /\ rgb = "other"
  /\ cuda = TRUE
  /\ shut = "running"
  /\ failed = FALSE
  /\ unset = FALSE
  /\ stray = FALSE
  /\ wild = FALSE

-----------------------------------------------------------------------------
(* Setting up the capture plane (query_and_set_capture).                   *)

\* dst_dma_fd is destroyed first, and then created with some free number.
WithoutDst == open \ {dst}
With(fd) == WithoutDst \cup {fd}
DstStrays == dst # Nothing /\ dst \notin open

\* An EGL image made of the destroyed buffer is kept, and shows it for ever.
Orphaned ==
  IF cache.image = "current" THEN [cache EXCEPT !.image = "orphan"] ELSE cache

\* NvBufferDestroy fails for a number that is not in use, or no longer.
Refused(i, inUse) ==
  caps[i] # 0 /\ (caps[i] \notin inUse \/ \E j \in Used : j < i /\ caps[j] = caps[i])

\* The numbers in the array are destroyed one by one.
Listed == { i \in Used : caps[i] # 0 }
Destroyed == { caps[i] : i \in Listed }

\* The new transform buffer is listed as a capture buffer, or a listed one is
\* not in use any more.
CapsStray(inUse, other) == other \in Destroyed \/ \E i \in Used : Refused(i, inUse)

NoFormat ==
  /\ MayFail
  /\ failed' = TRUE
  /\ UNCHANGED <<buffers, plane, device, cache>>

NoTransformBuffer ==
  /\ MayFail
  /\ failed' = TRUE
  /\ dst' = Nothing
  /\ open' = WithoutDst
  /\ stray' = (stray \/ DstStrays)
  /\ cache' = Orphaned
  /\ UNCHANGED <<caps, num, unset, plane, device>>

\* Old buffer i cannot be destroyed: the array behind it is left alone.
NotDestroyed(fd, i) ==
  /\ MayFail \/ Refused(i, With(fd))
  /\ \A k \in Used : k < i => ~Refused(k, With(fd))
  /\ open' = With(fd) \ { caps[k] : k \in { j \in Listed : j < i } }
  /\ plane' = Off
  /\ failed' = TRUE
  /\ unset' = TRUE
  /\ UNCHANGED <<caps, num, device>>

\* The format or the count cannot be had: the array keeps its old numbers.
NoPlane(fd) ==
  /\ MayFail
  /\ \A i \in Used : ~Refused(i, With(fd))
  /\ open' = With(fd) \ Destroyed
  /\ plane' = Off
  /\ failed' = TRUE
  /\ unset' = TRUE
  /\ UNCHANGED <<caps, num, device>>

\* Mutant of Created: the array is filled from its end.
CreatedBelow(fd, made) ==
  \E fds \in [0 .. made - 1 -> Fds \ (With(fd) \ Destroyed)] :
    /\ caps' = [i \in Slots |-> IF i + 1 < made THEN fds[i] ELSE caps[i]]
    /\ open' = (With(fd) \ Destroyed) \cup { fds[i] : i \in 0 .. made - 1 }

\* The first `made` entries of the array become buffers with free numbers.
Created(fd, made) ==
  \E fds \in [0 .. made - 1 -> Fds \ (With(fd) \ Destroyed)] :
    /\ \A i, j \in 0 .. made - 1 : fds[i] = fds[j] => i = j
    /\ caps' = [i \in Slots |-> IF i < made THEN fds[i] ELSE caps[i]]
    /\ open' = (With(fd) \ Destroyed) \cup { fds[i] : i \in 0 .. made - 1 }

\* Not all of the n buffers are created, or streaming cannot be started.
NotStarted(fd, n, made) ==
  /\ MayFail
  /\ \A i \in Used : ~Refused(i, With(fd))
  /\ num' = n
  /\ Created(fd, made)
  /\ plane' = Off
  /\ failed' = TRUE
  /\ unset' = (unset \/ made < n)
  /\ UNCHANGED device

\* Streaming starts, and the device is given the buffers, or some of them.
Started(fd, n, given) ==
  /\ given = n \/ MayFail
  /\ \A i \in Used : ~Refused(i, With(fd))
  /\ num' = n
  /\ Created(fd, n)
  /\ plane' = [on |-> TRUE, queued |-> 0 .. given - 1, done |-> {}]
  /\ device' = "decodes"
  /\ failed' = (failed \/ given < n)
  /\ UNCHANGED unset

SetCapture ==
  \/ NoFormat
  \/ NoTransformBuffer
  \/ \E fd \in Fds \ WithoutDst :
       /\ dst' = fd
       /\ stray' = (stray \/ DstStrays \/ CapsStray(With(fd), fd))
       /\ cache' = Orphaned
       /\ \/ \E i \in Listed : NotDestroyed(fd, i)
          \/ NoPlane(fd)
          \/ \E n \in Counts : \E k \in 0 .. n : NotStarted(fd, n, k) \/ Started(fd, n, k)

-----------------------------------------------------------------------------
(* The capture thread (dec_capture_loop_fcn).                              *)

\* abort, which only follows a failure.
Abort ==
  /\ gotError' = TRUE
  /\ plane' = Off
  /\ failed' = TRUE

\* A call for the picture in the thread's hands fails.
Fails(pc) == MayFail /\ failed' = TRUE /\ thread' = Holding(pc)

\* The first resolution change is taken, unless the decoder was aborted.
FirstEvent ==
  /\ thread.pc = "first"
  /\ event
  /\ event' = FALSE
  /\ IF gotError
     THEN /\ thread' = At("ended")
          /\ UNCHANGED <<buffers, plane, device, cache, failed>>
     ELSE SetCapture /\ thread' = At("loop")
  /\ UNCHANGED <<gotError, gotEos, out, rgb, cuda, shut, wild>>

\* None comes for fifty seconds.
FirstTimeout ==
  /\ thread.pc = "first"
  /\ ~event
  /\ Abort
  /\ thread' = At("ended")
  /\ UNCHANGED <<gotEos, buffers, out, device, event, pictures, shut, wild>>

\* dec->isInError(): the driver's class may have noted a call that failed.
MayBeInError == failed

\* The outer loop: stop, serve a resolution change, or look for pictures.
LoopEnds ==
  /\ thread.pc = "loop"
  /\ gotEos \/ gotError \/ MayBeInError
  /\ thread' = At("ended")
  /\ UNCHANGED <<gotError, gotEos, buffers, planes, pictures, shut, failed, wild>>

LoopEvent ==
  /\ thread.pc = "loop"
  /\ ~gotEos /\ ~gotError
  /\ event
  /\ event' = FALSE
  /\ SetCapture
  /\ UNCHANGED <<hands, out, rgb, cuda, shut, wild>>

LoopTakes ==
  /\ thread.pc = "loop"
  /\ ~gotEos /\ ~gotError /\ ~event
  /\ thread' = At("take")
  /\ UNCHANGED <<gotError, gotEos, buffers, planes, pictures, shut, failed, wild>>

\* The inner loop: dqBuffer of the capture plane without waiting.
Take(i) ==
  /\ thread.pc = "take"
  /\ i \in plane.done
  /\ plane' = [plane EXCEPT !.done = @ \ {i}]
  /\ thread' = [pc |-> "convert", hand |-> i]
  /\ UNCHANGED <<gotError, gotEos, buffers, out, device, event, pictures,
                 shut, failed, wild>>

\* Mutant of AfterNothing: the inner loop waits for the next picture.
AfterNothingAgain == IF device = "drained" THEN "ended" ELSE "take"

\* No picture is finished: the end of the stream, or back to the outer loop.
AfterNothing == IF device = "drained" THEN "ended" ELSE "loop"

TakesNothing ==
  /\ thread.pc = "take"
  /\ plane.on
  /\ plane.done = {}
  /\ thread' = At(AfterNothing)
  /\ UNCHANGED <<gotError, gotEos, buffers, planes, pictures, shut, failed, wild>>

TakeFails ==
  /\ thread.pc = "take"
  /\ ~plane.on \/ MayFail
  /\ Abort
  /\ thread' = At("loop")
  /\ UNCHANGED <<gotEos, buffers, out, device, event, pictures, shut, wild>>

\* NvBufferTransform copies the picture to dst_dma_fd; when it fails the
\* capture buffer is not given back.
Convert ==
  /\ thread.pc = "convert"
  /\ {dst, caps[thread.hand]} \subseteq open
  /\ thread' = Holding("image")
  /\ UNCHANGED <<gotError, gotEos, buffers, planes, pictures, shut, failed, wild>>

ConvertFails ==
  /\ thread.pc = "convert"
  /\ MayFail \/ ~({dst, caps[thread.hand]} \subseteq open)
  /\ failed' = TRUE
  /\ thread' = At("loop")
  /\ UNCHANGED <<gotError, gotEos, buffers, planes, pictures, shut, wild>>

\* Mutant of Misses: the number of the buffer is not looked at.
MissesOnlyFirst == cache.image = "none"

\* cuda_postprocess: is a new image needed?
Misses == cache.fd # dst \/ cache.image = "none"

Hit ==
  /\ thread.pc = "image"
  /\ ~Misses
  /\ thread' = Holding("copy")
  /\ UNCHANGED <<gotError, gotEos, buffers, planes, pictures, shut, failed, wild>>

\* Main has terminated EGL and waits for this thread.
EglDown == shut = "join"

\* The old image and its resource go, a new image is made of the buffer.
MakeImage ==
  /\ thread.pc = "image"
  /\ Misses
  /\ \/ /\ cache' = [cache EXCEPT !.image = "current", !.registered = FALSE]
        /\ thread' = Holding("register")
        /\ UNCHANGED failed
     \/ /\ MayFail \/ EglDown
        /\ cache' = [cache EXCEPT !.image = "none", !.registered = FALSE]
        /\ thread' = Holding("infer")
        /\ failed' = TRUE
  /\ UNCHANGED <<gotError, gotEos, buffers, planes, rgb, cuda, shut, wild>>

\* The image is registered with CUDA; main may have destroyed it by now.
Register ==
  /\ thread.pc = "register"
  /\ \/ /\ cache.image = "none"
        /\ wild' = TRUE
        /\ UNCHANGED <<thread, cache, failed>>
     \/ /\ cache.image # "none"
        /\ cache' = [cache EXCEPT !.fd = dst, !.registered = TRUE]
        /\ thread' = Holding("copy")
        /\ UNCHANGED <<failed, wild>>
     \/ /\ cache.image # "none"
        /\ cache' = [cache EXCEPT !.image = "none"]
        /\ Fails("infer")
        /\ UNCHANGED wild
  /\ UNCHANGED <<gotError, gotEos, buffers, planes, rgb, cuda, shut>>

\* The picture is copied to the CUDA buffer.  The caller does not ask whether
\* it was: the network runs on what the buffer holds.  A frame that is not
\* pitch-linear, as dst_dma_fd is asked to be, is not copied although true is
\* returned: it counts as one more failing call.
Copy ==
  /\ thread.pc = "copy"
  /\ \/ /\ cache.registered /\ cuda
        /\ rgb' = IF cache.image = "current" THEN "this" ELSE "other"
        /\ thread' = Holding("infer")
        /\ UNCHANGED <<failed, wild>>
     \/ /\ cache.registered /\ ~cuda
        /\ wild' = TRUE
        /\ UNCHANGED <<rgb, thread, failed>>
     \/ /\ ~cache.registered
        /\ thread' = Holding("infer")
        /\ UNCHANGED <<rgb, failed, wild>>
     \/ Fails("infer") /\ UNCHANGED <<rgb, wild>>
  /\ UNCHANGED <<gotError, gotEos, buffers, planes, cache, cuda, shut>>

\* Colour conversion, scaling and the network, all in CUDA buffers.  To the
\* next picture, what they hold now is another one.
Infer ==
  /\ thread.pc = "infer"
  /\ IF cuda
     THEN thread' = Holding("requeue") /\ rgb' = "other" /\ UNCHANGED wild
     ELSE wild' = TRUE /\ UNCHANGED <<thread, rgb>>
  /\ UNCHANGED <<gotError, gotEos, buffers, planes, cache, cuda, shut, failed>>

\* Mutant of GivenBack: the buffer is kept.
GivenBackNever(i) == plane

\* The buffer goes back to the device.
GivenBack(i) == [plane EXCEPT !.queued = @ \cup {i}]

Requeue ==
  /\ thread.pc = "requeue"
  /\ plane' = GivenBack(thread.hand)
  /\ thread' = At("take")
  /\ UNCHANGED <<gotError, gotEos, buffers, out, device, event, pictures,
                 shut, failed, wild>>

RequeueFails ==
  /\ thread.pc = "requeue"
  /\ ~plane.on \/ MayFail
  /\ Abort
  /\ thread' = At("loop")
  /\ UNCHANGED <<gotEos, buffers, out, device, event, pictures, shut, wild>>

Looks == LoopEnds \/ LoopEvent \/ LoopTakes
Takes == TakesNothing \/ TakeFails \/ \E i \in Slots : Take(i)
Shows ==
  \/ Convert \/ ConvertFails \/ Hit \/ MakeImage \/ Register \/ Copy \/ Infer
  \/ Requeue \/ RequeueFails

CaptureThread == FirstEvent \/ FirstTimeout \/ Looks \/ Takes \/ Shows
=============================================================================
