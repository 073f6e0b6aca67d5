---------------------------- MODULE FileDecoder -----------------------------
(***************************************************************************)
(* The file decoder, a program of its own (fileDecoder/decoder.cpp): main  *)
(* reads a file and feeds the decoder unit by unit (decode_proc), and a    *)
(* capture thread shows the pictures (dec_capture_loop_fcn).  With the     *)
(* values set_defaults gives: blocking, one file, rendering, no output     *)
(* file.                                                                   *)
(*                                                                         *)
(* Capture buffers are counted.  Their descriptors and those of the        *)
(* transform buffer are handled as in Capture, by the same code.           *)
(* got_eos is left out, since nothing reads it when the decoder blocks.    *)
(***************************************************************************)
EXTENDS FileReader

CONSTANTS
  Files,        \* what the file may contain
  NumBuffers,   \* buffers of the output plane
  Counts,       \* how many capture buffers a resolution may need
  MaxChanges,   \* bound on changes of resolution within the file
  MayFail       \* may calls of the system and the driver fail?

ASSUME FilesAssumption == \A f \in Files : WellFormed(f)

ASSUME FileDecoderAssumption ==
  /\ NumBuffers \in Nat \ {0}
  /\ Counts \subseteq Nat \ {0}
  /\ MaxChanges \in Nat
  /\ MayFail \in BOOLEAN

VARIABLES
  file,      \* the input file
  stream,    \* in_file[0]: its position and its failbit
  main,      \* decode_proc: which part of it runs
  primed,    \* i, the buffers primed
  eos,       \* an empty buffer was queued
  error,     \* what decode_proc returns
  data,      \* what each buffer of the output plane holds
  given,     \* the output buffers with the device
  done,      \* those it has finished with
  sent,      \* history: what was queued
  gotError,  \* ctx.got_error, and isInError() with it
  thread,    \* the capture thread
  event,     \* a resolution event is pending
  capture,   \* capture plane: buffers, free, with a picture, not given back
  screen,    \* the transform buffer and the renderers that exist
  device,    \* before the first slice, waiting for buffers, decoding
  changes,   \* changes of resolution so far
  last,      \* the capture plane has V4L2_BUF_FLAG_LAST
  wild       \* undefined: a null pointer was followed

input == <<stream, primed, eos, data, given, done, sent>>
pictures == <<capture, screen>>
decoder == <<event, device, changes, last>>
vars == <<file, input, main, error, gotError, thread, pictures, decoder, wild>>

Buffers == 0 .. NumBuffers - 1
NoCapture == [num |-> 0, free |-> 0, pics |-> 0, lost |-> 0]

Init ==
  /\ file \in Files
  /\ stream = [pos |-> 0, fail |-> FALSE]
  /\ main = "open"
  /\ primed = 0 /\ eos = FALSE /\ error = FALSE
  /\ data = [b \in Buffers |-> Nothing]
  /\ given = << >> /\ done = << >> /\ sent = << >>
  /\ gotError = FALSE
  /\ thread = "none"
  /\ event = FALSE
  /\ capture = NoCapture
  /\ screen = [dst |-> FALSE, windows |-> {}]
  /\ device = "new"
  /\ changes = 0
  /\ last = FALSE
  /\ wild = FALSE

Works == ~gotError

-----------------------------------------------------------------------------
(* Main.                                                                   *)

\* No decoder: the clean-up looks for the file in an array not allocated yet.
CreateFails ==
  /\ main = "open" /\ MayFail
  /\ wild' = TRUE
  /\ UNCHANGED <<file, input, main, error, gotError, thread, pictures, decoder>>

OpenFails ==
  /\ main = "open" /\ MayFail
  /\ main' = "cleanup"
  /\ error' = TRUE
  /\ UNCHANGED <<file, input, gotError, thread, pictures, decoder, wild>>

Open ==
  /\ main = "open"
  /\ main' = "prime"
  /\ UNCHANGED <<file, input, error, gotError, thread, pictures, decoder, wild>>

\* Reads a unit into the buffer and queues it; an empty one ends the file.
ReadAndQueue(b) ==
  LET r == ReadNalu(file, stream, data[b])
  IN /\ stream' = r.stream
     /\ data' = [data EXCEPT ![b] = r.data]
     /\ given' = Append(given, b)
     /\ sent' = Append(sent, r.data)
     /\ eos' = IsNothing(r.data)

\* The same, but the buffer is not taken: the decoder is aborted.
ReadAndFail(b) ==
  LET r == ReadNalu(file, stream, data[b])
  IN /\ stream' = r.stream
     /\ data' = [data EXCEPT ![b] = r.data]
     /\ gotError' = TRUE
     /\ UNCHANGED <<given, sent, eos>>

PrimeBuffer ==
  /\ main = "prime"
  /\ ~eos /\ Works /\ primed < NumBuffers
  /\ \/ /\ ReadAndQueue(primed)
        /\ primed' = primed + (IF eos' THEN 0 ELSE 1)
        /\ UNCHANGED gotError
     \/ MayFail /\ ReadAndFail(primed) /\ UNCHANGED primed
  /\ UNCHANGED <<file, done, main, error, thread, pictures, decoder, wild>>

StartThread ==
  /\ main = "prime"
  /\ eos \/ ~Works \/ primed = NumBuffers
  /\ main' = "feed"
  /\ thread' = "first"
  /\ UNCHANGED <<file, input, error, gotError, pictures, decoder, wild>>

\* decoder_proc_blocking: a buffer is waited for, filled and queued again.
Feed ==
  /\ main = "feed"
  /\ ~eos /\ Works /\ done # << >>
  /\ done' = Tail(done)
  /\ \/ ReadAndQueue(Head(done)) /\ UNCHANGED gotError
     \/ MayFail /\ ReadAndFail(Head(done))
  /\ UNCHANGED <<file, primed, main, error, thread, pictures, decoder, wild>>

\* The wait for a buffer fails.
Abort == gotError' = TRUE
DqFails ==
  /\ \/ main = "feed" /\ ~eos
     \/ main = "drain" /\ Len(given) + Len(done) > 0
  /\ MayFail /\ Works
  /\ Abort
  /\ UNCHANGED <<file, input, main, error, thread, pictures, decoder, wild>>

FeedEnds ==
  /\ main = "feed"
  /\ eos \/ ~Works
  /\ main' = "drain"
  /\ UNCHANGED <<file, input, error, gotError, thread, pictures, decoder, wild>>

\* All buffers are taken back, up to the empty one.
Drain ==
  /\ main = "drain"
  /\ Works /\ done # << >>
  /\ done' = Tail(done)
  /\ main' = IF IsNothing(data[Head(done)]) THEN "cleanup" ELSE "drain"
  /\ UNCHANGED <<file, stream, primed, eos, data, given, sent, error, gotError, thread,
                 pictures, decoder, wild>>

DrainEnds ==
  /\ main = "drain"
  /\ ~Works \/ Len(given) + Len(done) = 0
  /\ main' = "cleanup"
  /\ UNCHANGED <<file, input, error, gotError, thread, pictures, decoder, wild>>

\* Joins the thread, if there is one, and frees everything but renderer_1.
Cleanup ==
  /\ main = "cleanup"
  /\ thread \in {"none", "ended"}
  /\ main' = "done"
  /\ error' = (error \/ gotError)
  /\ capture' = NoCapture
  /\ screen' = [dst |-> FALSE, windows |-> screen.windows \ {0}]
  /\ UNCHANGED <<file, input, gotError, thread, decoder, wild>>

MainThread ==
  \/ CreateFails \/ OpenFails \/ Open \/ PrimeBuffer \/ StartThread
  \/ Feed \/ DqFails \/ FeedEnds \/ Drain \/ DrainEnds \/ Cleanup

-----------------------------------------------------------------------------
(* The capture thread.                                                     *)

\* The first change of resolution, which tells that there is one.
FirstEvent ==
  /\ thread = "first"
  /\ \/ event /\ thread' = (IF Works THEN "set" ELSE "ended") /\ UNCHANGED gotError
     \/ ~event /\ thread' = "ended" /\ Abort
  /\ event' = FALSE
  /\ UNCHANGED <<file, input, main, error, pictures, device, changes, last, wild>>

\* query_and_set_capture fails with the planes and the windows as they then are.
CannotSet(plane, scr) ==
  /\ thread = "set" /\ MayFail
  /\ capture' = plane
  /\ screen' = scr
  /\ Abort
  /\ thread' = "loop"
  /\ UNCHANGED <<file, input, main, error, decoder, wild>>

NoFormat == CannotSet(capture, screen)
NoTransformBuffer == CannotSet(capture, [screen EXCEPT !.dst = FALSE])
NoWindow ==
  \E second \in {{}, {1}} : CannotSet(capture, [dst |-> TRUE, windows |-> second])
NoPlane == CannotSet(NoCapture, [dst |-> TRUE, windows |-> {0, 1}])

\* renderer_1 is not tested before it is told its frames per second.
NoSecondWindow ==
  /\ thread = "set" /\ MayFail
  /\ screen' = [dst |-> TRUE, windows |-> {0}]
  /\ wild' = TRUE
  /\ UNCHANGED <<file, input, main, error, gotError, thread, capture, decoder>>

\* All buffers of the new resolution are queued.
SetCapture ==
  /\ thread = "set"
  /\ screen' = [dst |-> TRUE, windows |-> {0, 1}]
  /\ \E n \in Counts : capture' = [num |-> n, free |-> n, pics |-> 0, lost |-> 0]
  /\ device' = "decodes"
  /\ thread' = "loop"
  /\ UNCHANGED <<file, input, main, error, gotError, event, changes, last, wild>>

QueryAndSetCapture ==
  NoFormat \/ NoTransformBuffer \/ NoWindow \/ NoSecondWindow \/ NoPlane \/ SetCapture

\* Error, another change, or the next pictures.
Loop ==
  /\ thread = "loop"
  /\ thread' = CASE ~Works -> "ended" [] Works /\ event -> "set" [] OTHER -> "take"
  /\ event' = (event /\ ~Works)
  /\ UNCHANGED <<file, input, main, error, gotError, pictures, device, changes, last, wild>>

Take ==
  /\ thread = "take"
  /\ Works /\ capture.pics > 0
  /\ capture' = [capture EXCEPT !.pics = @ - 1]
  /\ thread' = "show"
  /\ UNCHANGED <<file, input, main, error, gotError, screen, decoder, wild>>

\* Mutant of IsLast: the flag is not looked at.
LastUnseen == FALSE

\* EAGAIN with V4L2_BUF_FLAG_LAST.
IsLast == last

TakeNothing ==
  /\ thread = "take"
  /\ Works /\ capture.pics = 0
  /\ thread' = IF IsLast THEN "ended" ELSE "loop"
  /\ UNCHANGED <<file, input, main, error, gotError, pictures, decoder, wild>>

TakeFails ==
  /\ thread = "take"
  /\ ~Works \/ MayFail
  /\ Abort
  /\ thread' = "loop"
  /\ UNCHANGED <<file, input, main, error, pictures, decoder, wild>>

\* Mutant of Requeued: the buffer is queued again on two paths.
RequeuedTwice(plane) == [plane EXCEPT !.free = @ + 2]

\* The plane with a buffer queued again.
Requeued(plane) == [plane EXCEPT !.free = @ + 1]

\* Transformed, rendered twice, and queued again.
Show ==
  /\ thread = "show"
  /\ Works
  /\ capture' = Requeued(capture)
  /\ thread' = "take"
  /\ UNCHANGED <<file, input, main, error, gotError, screen, decoder, wild>>

Lost == capture' = [capture EXCEPT !.lost = @ + 1]

\* The buffer is not queued again, and nobody is told.
TransformFails ==
  /\ thread = "show" /\ MayFail
  /\ Lost
  /\ thread' = "loop"
  /\ UNCHANGED <<file, input, main, error, gotError, screen, decoder, wild>>

RequeueFails ==
  /\ thread = "show"
  /\ ~Works \/ MayFail
  /\ Lost
  /\ Abort
  /\ thread' = "loop"
  /\ UNCHANGED <<file, input, main, error, screen, decoder, wild>>

CaptureThread ==
  \/ FirstEvent \/ QueryAndSetCapture \/ Loop
  \/ Take \/ TakeNothing \/ TakeFails \/ Show \/ TransformFails \/ RequeueFails

-----------------------------------------------------------------------------
(* The device.                                                             *)

HasUnit == Works /\ main # "done" /\ given # << >> /\ device # "waits"
Unit == data[Head(given)]
GivesBack ==
  /\ given' = Tail(given)
  /\ done' = Append(done, Head(given))
  /\ UNCHANGED <<file, stream, primed, eos, data, sent, main, error, gotError, thread,
                 screen, wild>>

\* The first slice, or one with another resolution.
DeviceAnnounces ==
  /\ HasUnit /\ HasSlice(file, Unit)
  /\ device = "new" \/ changes < MaxChanges
  /\ changes' = changes + (IF device = "new" THEN 0 ELSE 1)
  /\ device' = "waits"
  /\ event' = TRUE
  /\ UNCHANGED <<file, input, main, error, gotError, thread, pictures, last, wild>>

\* A header, a part of a picture, or what cannot be decoded.
DeviceSkips ==
  /\ HasUnit /\ ~IsNothing(Unit)
  /\ device = "decodes" \/ ~HasSlice(file, Unit)
  /\ GivesBack
  /\ UNCHANGED <<capture, decoder>>

DeviceDecodes ==
  /\ HasUnit /\ HasSlice(file, Unit)
  /\ device = "decodes" /\ capture.free > 0
  /\ capture' = [capture EXCEPT !.free = @ - 1, !.pics = @ + 1]
  /\ GivesBack
  /\ UNCHANGED decoder

DeviceDrains ==
  /\ HasUnit /\ IsNothing(Unit)
  /\ last' = (device = "decodes")
  /\ GivesBack
  /\ UNCHANGED <<capture, event, device, changes>>

Device == DeviceAnnounces \/ DeviceSkips \/ DeviceDecodes \/ DeviceDrains

-----------------------------------------------------------------------------
Next == ~wild /\ (MainThread \/ CaptureThread \/ Device)

Spec == Init /\ [][Next]_vars

\* Both threads run; the device decodes what it can, announces its first
\* resolution and drains.
Fairness ==
  /\ WF_vars(~wild /\ MainThread)
  /\ WF_vars(~wild /\ CaptureThread)
  /\ WF_vars(~wild /\ device = "new" /\ Device)
  /\ WF_vars(~wild /\ DeviceDecodes)
  /\ WF_vars(~wild /\ DeviceSkips /\ ~HasSlice(file, Unit))
  /\ WF_vars(~wild /\ DeviceDrains)

FairSpec == Spec /\ Fairness

-----------------------------------------------------------------------------
BufferTypes ==
  /\ data \in [Buffers -> Nat \X Nat]
  /\ given \in Seq(Buffers) /\ done \in Seq(Buffers)
  /\ capture \in [num : Counts \cup {0}, free : Nat, pics : Nat, lost : Nat]

\* A buffer is in one place: an output buffer with the device, given back by
\* it, or with main, and a capture buffer with the device, holding a picture,
\* with the thread, or with nobody after a transform that failed
\* (decoder.cpp:1150, 1177, 1981).
BuffersInOnePlace ==
  /\ IsInjective(given \o done)
  /\ capture.free + capture.pics + capture.lost + (IF thread = "show" THEN 1 ELSE 0)
       = capture.num

\* Types of the variables.
TypeOK ==
  /\ stream \in [pos : 0 .. file.len, fail : BOOLEAN]
  /\ main \in {"open", "prime", "feed", "drain", "cleanup", "done"}
  /\ primed \in 0 .. NumBuffers
  /\ {eos, error, gotError, event, last, wild} \subseteq BOOLEAN
  /\ thread \in {"none", "first", "set", "loop", "take", "show", "ended"}
  /\ screen \in [dst : BOOLEAN, windows : SUBSET {0, 1}]
  /\ device \in {"new", "waits", "decodes"}
  /\ changes \in 0 .. MaxChanges
  /\ BufferTypes

UnitEnd(n) == IF n = Len(file.units) THEN file.len ELSE file.units[n + 1].at

\* The units the window can hold: each is found in the window that begins
\* where it does (the first: where the file does), with the start of the next.
Fits ==
  /\ file.units # << >>
  /\ \A n \in DOMAIN file.units :
       LET from == IF n = 1 THEN 0 ELSE file.units[n].at
       IN UnitEnd(n) - from <= (IF n = Len(file.units) THEN Chunk ELSE Chunk - 4)

\* What is to be sent: every unit, the last one without the three bytes the
\* loop leaves (decoder.cpp:157), and an empty buffer.
Expected ==
  [ n \in 1 .. Len(file.units) + 1 |->
      IF n > Len(file.units) THEN Nothing
      ELSE LET at == file.units[n].at
           IN IF n = Len(file.units) THEN <<at, Max({at + 4, file.len - 3})>>
              ELSE <<at, UnitEnd(n)>> ]

\* The units of the file are queued whole, once and in order, and an empty
\* buffer only after them, if each fits the chunk (decoder.cpp:92-180, 1994).
\* Of a file with longer ones, what is queued still begins at start codes and
\* never goes back, but for buffers queued again as they were.
UnitsInOrder ==
  IF Fits THEN IsPrefix(sent, Expected)
  ELSE \A j \in DOMAIN sent :
         \/ IsNothing(sent[j])
         \/ \E i \in 1 .. j - 1 : sent[i] = sent[j]
         \/ sent[j][1] \in Starts(file) /\ \A i \in 1 .. j - 1 : sent[i][2] <= sent[j][1]

\* Every capture buffer was dropped after a transform that failed.
Starved == capture.num > 0 /\ capture.lost = capture.num

\* The program ends, having sent the file to its end or reported an error
\* (decoder.cpp:2006, 2189), unless the device is left without a capture buffer
\* (1150) or a null pointer is followed (638, 2165).
FileIsSent ==
  \/ <>(wild \/ (main = "done" /\ (error \/ (eos /\ (Fits => sent = Expected)))))
  \/ <>[]Starved
=============================================================================
