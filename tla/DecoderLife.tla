---------------------------- MODULE DecoderLife -----------------------------
(***************************************************************************)
(* The life of one decoder: the main thread that feeds its output plane    *)
(* and shuts it down (decoder.c free_dec_chns, nvdec.c freeDecoder), the   *)
(* capture thread of Capture, and the device between them.                 *)
(*                                                                         *)
(* The device and its driver are external.  The device takes what is       *)
(* queued on the output plane, announces each resolution before the first  *)
(* picture of it, finishes nothing more until the capture plane has been   *)
(* set up, needs a free capture buffer for each picture, and says when the *)
(* empty buffer, the end of the stream, has been reached.                  *)
(***************************************************************************)
EXTENDS Capture

-----------------------------------------------------------------------------
(* The main thread.  Frames are fed through do_decode, which DecChannels    *)
(* looks at; here only the buffers of the output plane are counted.        *)

InUse == out.given + out.done

\* The first buffers are put into circulation, then each goes round.
Fed ==
  IF InUse < OutBuffers THEN [out EXCEPT !.given = @ + 1]
  ELSE [out EXCEPT !.given = @ + 1, !.done = @ - 1]

Feed ==
  /\ shut = "running"
  /\ ~gotError
  /\ InUse < OutBuffers \/ out.done > 0
  /\ out' = Fed
  /\ UNCHANGED <<hands, buffers, plane, device, event, pictures, shut, failed, wild>>

FeedFails ==
  /\ shut = "running"
  /\ MayFail
  /\ Abort
  /\ UNCHANGED <<thread, gotEos, buffers, out, device, event, pictures, shut, wild>>

\* free_dec_chns releases the CUDA buffers before it frees the decoder.
ReleaseCuda ==
  /\ shut = "running"
  /\ cuda' = FALSE
  /\ shut' = "first"
  /\ UNCHANGED <<hands, buffers, planes, cache, rgb, failed, wild>>

\* freeDecoder waits for a buffer to carry the end of the stream.  When the
\* wait fails it writes through a pointer it has not set.
FirstDq ==
  /\ shut = "first"
  /\ \/ /\ out.done > 0 /\ ~gotError
        /\ out' = [out EXCEPT !.done = @ - 1]
        /\ shut' = "eos"
        /\ UNCHANGED <<failed, wild>>
     \/ /\ gotError \/ MayFail
        /\ failed' = TRUE
        /\ wild' = TRUE
        /\ UNCHANGED <<out, shut>>
  /\ UNCHANGED <<hands, buffers, plane, device, event, pictures>>

QueueEos ==
  /\ shut = "eos"
  /\ shut' = "drain"
  /\ \/ out' = [out EXCEPT !.given = @ + 1, !.eos = TRUE] /\ UNCHANGED failed
     \/ (gotError \/ MayFail) /\ failed' = TRUE /\ UNCHANGED out
  /\ UNCHANGED <<hands, buffers, plane, device, event, pictures, wild>>

DrainIsOver == InUse = 0 \/ gotError

\* The buffers are taken out until none is queued; then got_eos is set.
Drain ==
  /\ shut = "drain"
  /\ ~DrainIsOver
  /\ out.done > 0
  /\ out' = [out EXCEPT !.done = @ - 1]
  /\ UNCHANGED <<hands, buffers, plane, device, event, pictures, shut, failed, wild>>

SetEos ==
  /\ shut = "drain"
  /\ \/ (DrainIsOver \/ MayBeInError) /\ UNCHANGED <<gotError, plane, failed>>
     \/ MayFail /\ Abort
  /\ gotEos' = TRUE
  /\ shut' = "unregister"
  /\ UNCHANGED <<thread, buffers, out, device, event, pictures, wild>>

\* The cached resource, then the image, then EGL go; the thread still runs.
Unregister ==
  /\ shut = "unregister"
  /\ cache' = [cache EXCEPT !.registered = FALSE]
  /\ shut' = "destroyImage"
  /\ UNCHANGED <<hands, buffers, planes, rgb, cuda, failed, wild>>

DestroyImage ==
  /\ shut = "destroyImage"
  /\ cache' = [cache EXCEPT !.image = "none", !.fd = Nothing]
  /\ shut' = "terminate"
  /\ UNCHANGED <<hands, buffers, planes, rgb, cuda, failed, wild>>

Terminate ==
  /\ shut = "terminate"
  /\ shut' = "join"
  /\ UNCHANGED <<hands, buffers, planes, pictures, failed, wild>>

\* Mutant of Joined: the thread is not waited for.
JoinedAtOnce == TRUE

Joined == thread.pc = "ended"

\* The capture buffers are destroyed, failures or not, and then the transform
\* buffer.
Free ==
  /\ shut = "join"
  /\ Joined
  /\ shut' = "freed"
  /\ open' = open \ (Destroyed \cup {dst})
  /\ stray' = (stray \/ CapsStray(open, dst) \/ DstStrays)
  /\ dst' = Nothing
  /\ plane' = Off
  /\ UNCHANGED <<hands, caps, num, unset, out, device, event, pictures, failed, wild>>

MainThread ==
  \/ Feed \/ FeedFails \/ ReleaseCuda \/ FirstDq \/ QueueEos \/ Drain \/ SetEos
  \/ Unregister \/ DestroyImage \/ Terminate \/ Free

-----------------------------------------------------------------------------
(* The device.                                                             *)

Finished(o) == [o EXCEPT !.given = @ - 1, !.done = @ + 1]
Works == ~gotError /\ shut # "freed"
HasFrame == Works /\ out.given > (IF out.eos THEN 1 ELSE 0)

\* Parameter sets, or a frame that cannot be decoded.
DeviceSkips ==
  /\ HasFrame
  /\ device # "waits"
  /\ out' = Finished(out)
  /\ UNCHANGED <<hands, buffers, plane, device, event, pictures, shut, failed, wild>>

\* The parameter sets of a resolution.
DeviceAnnounces ==
  /\ HasFrame
  /\ device # "waits"
  /\ out' = Finished(out)
  /\ device' = "waits"
  /\ event' = TRUE
  /\ UNCHANGED <<hands, buffers, plane, pictures, shut, failed, wild>>

DeviceDecodes ==
  /\ HasFrame
  /\ device = "decodes"
  /\ \E i \in plane.queued :
       plane' = [plane EXCEPT !.queued = @ \ {i}, !.done = @ \cup {i}]
  /\ out' = Finished(out)
  /\ UNCHANGED <<hands, buffers, device, event, pictures, shut, failed, wild>>

\* The end of the stream has been reached.
DeviceDrains ==
  /\ Works
  /\ out.eos /\ out.given = 1
  /\ device \in {"new", "decodes"}
  /\ out' = Finished(out)
  /\ device' = IF device = "decodes" THEN "drained" ELSE "new"
  /\ UNCHANGED <<hands, buffers, plane, event, pictures, shut, failed, wild>>

Device == DeviceSkips \/ DeviceAnnounces \/ DeviceDecodes \/ DeviceDrains

-----------------------------------------------------------------------------
Next == ~wild /\ (CaptureThread \/ MainThread \/ Device)

Spec == Init /\ [][Next]_vars

\* Both threads run, and no call has to fail for that; a thread that waits for
\* its first event gives up some time.  Once the shutdown has begun it goes on.
\* The device decodes what it can.
Fairness ==
  /\ WF_vars(~wild /\ CaptureThread /\ UNCHANGED failed)
  /\ WF_vars(~wild /\ FirstTimeout)
  /\ WF_vars(~wild /\ shut # "running" /\ MainThread /\ UNCHANGED failed)
  /\ WF_vars(~wild /\ DeviceDecodes)
  /\ WF_vars(~wild /\ DeviceDrains)

FairSpec == Spec /\ Fairness

-----------------------------------------------------------------------------
ThreadType ==
  [ pc : {"first", "loop", "take", "convert", "image", "register", "copy",
          "infer", "requeue", "ended"},
    hand : Slots \cup {Nothing} ]

\* Types of the variables.
TypeOK ==
  /\ thread \in ThreadType
  /\ gotError \in BOOLEAN
  /\ gotEos \in BOOLEAN
  /\ dst \in Fds \cup {Nothing}
  /\ caps \in [Slots -> Fds \cup {0}]
  /\ num \in 0 .. MaxBuffers
  /\ open \subseteq Fds
  /\ plane \in [on : BOOLEAN, queued : SUBSET Slots, done : SUBSET Slots]
  /\ out \in [given : 0 .. OutBuffers, done : 0 .. OutBuffers, eos : BOOLEAN]
  /\ device \in {"new", "waits", "decodes", "drained"}
  /\ event \in BOOLEAN
  /\ cache \in [ fd : Fds \cup {Nothing}, image : {"none", "current", "orphan"},
                 registered : BOOLEAN ]
  /\ rgb \in {"this", "other"}
  /\ cuda \in BOOLEAN
  /\ shut \in {"running", "first", "eos", "drain", "unregister", "destroyImage",
               "terminate", "join", "freed"}
  /\ failed \in BOOLEAN
  /\ unset \in BOOLEAN
  /\ stray \in BOOLEAN
  /\ wild \in BOOLEAN

\* Only descriptors of its own live buffers are destroyed, through changes of
\* resolution, of the number of buffers, and the shutdown (renderer.c:71-76,
\* 180-190, nvdec.c:518-566), unless setting up a plane failed half-way.
DestroysItsOwn == stray => unset

\* A picture in the thread's hands lies in a buffer that exists, and so does
\* the buffer it is converted into, whatever main destroys meanwhile.
PictureIsKept ==
  ~unset /\ thread.hand # Nothing =>
    /\ caps[thread.hand] \in open
    /\ thread.pc \in {"image", "register", "copy"} => dst \in open

\* Capture buffers go round: each is with the device, finished, or in the
\* thread's hands, unless some call has failed (comment at nvdec.c:947).
BuffersGoRound ==
  plane.on /\ ~failed =>
    /\ plane.queued \cup plane.done \cup ({thread.hand} \ {Nothing}) = Used
    /\ plane.queued \cap plane.done = {}
    /\ thread.hand \notin plane.queued \cup plane.done

\* The network sees the picture just taken, unless a call failed, or the image
\* was made of an earlier buffer with the same number (nvdec.c:1025 compares
\* no more than the number).
SeesThisPicture ==
  thread.pc = "infer" /\ ~gotEos =>
    \/ rgb = "this"
    \/ failed
    \/ cache.image = "orphan" /\ cache.fd = dst

\* A change of resolution is served, or the thread ends.
ChangeIsServed == event ~> (~event \/ thread.pc = "ended" \/ wild)

\* The shutdown comes to its end when no call fails and nothing that was freed
\* is used.
ShutdownEnds == shut # "running" ~> (shut = "freed" \/ failed \/ wild)
=============================================================================
