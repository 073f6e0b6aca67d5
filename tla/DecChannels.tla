---------------------------- MODULE DecChannels -----------------------------
(***************************************************************************)
(* The decoding process from packet to hardware decoder: pkgProcess        *)
(* (decoder/rtpPkgProcess.c) dispatches the packets of the RTSP process,   *)
(* UnpackRTPH264/UnpackRTPH265 and do_decode (decoder/stream.c) assemble   *)
(* the fragments of a frame and hand it to the output plane of the         *)
(* channel's V4L2 decoder, whose two buffers go round between the program  *)
(* and the device.  One thread runs all of it and waits, inside do_decode, *)
(* for the device to give a buffer back.                                   *)
(*                                                                         *)
(* A fragment is named by its frame and its place in it; the buffer of a   *)
(* channel (module DecBuf) is the sequence of the fragments it holds.      *)
(***************************************************************************)
EXTENDS Integers, Sequences, FiniteSets

CONSTANTS
  DecType,       \* "H264" or "H265": dec_type in decoder/main.c
  NumChns,       \* CHNS, the length of decEnv->decs
  InitialWnd,    \* the number of windows pkgProcess starts with
  PeerChns,      \* channel numbers the RTSP process puts in its packets
  Subwins,       \* window layouts the RTSP process asks for
  Kinds,         \* kinds of NAL unit the camera sends
  Cameras,       \* channels that have a camera
  Tiles,         \* tile columns a PPS announces, 0 for no tiles
  MaxLen,        \* the longest frame, in fragments
  BufCap,        \* what a channel's buffer holds, in fragments
  MayFail,       \* may a device call fail?
  MaxFrames,     \* bound: frames each camera sends
  MaxLosses,     \* bound: fragments lost on the way
  NumBuffers     \* buffers of an output plane

Chns == 0 .. NumChns - 1

ASSUME SizesAssumption ==
  /\ NumChns \in Nat \ {0}
  /\ InitialWnd \in Nat
  /\ PeerChns \subseteq Nat
  /\ Subwins \subseteq Nat \ {0}
  /\ MaxLen \in Nat \ {0}
  /\ BufCap \in Nat
  /\ MaxLen <= BufCap
  /\ NumBuffers \in Nat \ {0}
  /\ Tiles \subseteq Nat
  /\ MaxFrames \in Nat

ASSUME KindsAssumption ==
  /\ DecType \in {"H264", "H265"}
  /\ Kinds \subseteq {"I", "P", "Other", "ParamSet", "Pps", "Skipped"}
  /\ MayFail \in BOOLEAN

VARIABLES
  dec,        \* the fields of struct decoder_st, by channel
  buf,        \* dec->buf: the fragments assembled so far, by channel
  plane,      \* the output plane of the channel's V4L2 decoder
  main,       \* where the event loop's thread is
  wnd,        \* u32WndNum
  armed,      \* channels whose clear-screen timer (task 1) is running
  wild,       \* decs was indexed out of its bounds: nothing is known any more
  stream,     \* the frames each camera has begun to send
  rest,       \* fragments of the latest frame still on their way
  lost,       \* the fragments lost on their way, by channel
  shown,      \* what the device last took from the plane, by channel
  stalled     \* channels whose device has stopped taking frames

chnVars == <<dec, buf, plane, main, wnd, armed, wild, stream, rest, lost, shown>>
vars == <<chnVars, stalled>>
cameras == <<stream, rest, lost>>

-----------------------------------------------------------------------------
(* Frames and fragments.                                                   *)

Pieces(kind) == IF kind \in {"I", "P", "Other"} THEN 1 .. MaxLen ELSE {1}

\* A NAL unit: sent in len fragments, or in a single packet when len is 1.
Nalu(id, kind, tiles, len) == [id |-> id, kind |-> kind, tiles |-> tiles, len |-> len]

Nalus(id) ==
  UNION { { Nalu(id, kind, tiles, len) :
              tiles \in IF kind = "Pps" THEN Tiles ELSE {0}, len \in Pieces(kind) }
          : kind \in Kinds }

Fragments(nalu) == [i \in 1 .. nalu.len |-> [of |-> nalu, i |-> i]]

IsSingle(x) == x.of.len = 1
IsStart(x)  == x.of.len > 1 /\ x.i = 1
IsEnd(x)    == x.of.len > 1 /\ x.i = x.of.len
-----------------------------------------------------------------------------
(* The state a channel starts in and goes back to.                         *)

\* calloc in create_dec_chns, and set_defaults for the context.
InitialDec ==
  [ started |-> FALSE, enPps |-> FALSE, err |-> FALSE, startRcv |-> FALSE,
    refused |-> FALSE, waitIfream |-> FALSE, qCount |-> 0,
    columns |-> 0, sliceI |-> 0, sliceP |-> 0 ]

InitialPlane == [queued |-> << >>, done |-> 0, aborted |-> FALSE]

Idle == [at |-> "idle"]
Waiting(c, type) == [at |-> "dqBuffer", chn |-> c, type |-> type]

Init ==
  /\ dec = [c \in Chns |-> InitialDec]
  /\ buf = [c \in Chns |-> << >>]
  /\ plane = [c \in Chns |-> InitialPlane]
  /\ main = Idle
  /\ wnd = InitialWnd
  /\ armed = {}
  /\ wild = FALSE
  /\ stream = [c \in Chns |-> << >>]
  /\ rest = [c \in Chns |-> << >>]
  /\ lost = [c \in Chns |-> {}]
  /\ shown = [c \in Chns |-> << >>]
  /\ stalled = {}

\* What every status packet that concerns a channel resets.
ResetKeepsStarted(d, err) ==
  [d EXCEPT !.err = err, !.enPps = FALSE, !.refused = FALSE,
            !.waitIfream = FALSE, !.startRcv = FALSE]
ResetDec(d, err) ==
  [d EXCEPT !.err = err, !.enPps = FALSE, !.started = FALSE, !.refused = FALSE,
            !.waitIfream = FALSE, !.startRcv = FALSE]

-----------------------------------------------------------------------------
(* UnpackRTPH264 and UnpackRTPH265: one packet into the buffer.            *)

\* dec_buf_append: a fragment that does not fit replaces what was held.
Appended(b, x) == IF Len(b) + 1 > BufCap THEN <<x>> ELSE Append(b, x)

\* What a packet completes; "none" when the frame goes on or is unknown.
CompletedH264(x) ==
  IF IsSingle(x) THEN "PKG"
  ELSE IF IsEnd(x) THEN (IF x.of.kind = "I" THEN "I" ELSE "P")
  ELSE "none"

CompletedH265(x) ==
  LET kind == x.of.kind
  IN  IF IsSingle(x)
      THEN IF kind = "P" THEN "P"
           ELSE IF kind \in {"ParamSet", "Pps"} THEN "PPS" ELSE "PKG"
      ELSE IF IsEnd(x) /\ kind \in {"I", "P"} THEN kind ELSE "none"

\* An end without its start empties the buffer.
NeverHeadless(d, x) == FALSE
Headless(d, x) == IsEnd(x) /\ ~d.started

HeadlessKept(d, b, x) ==
  IF Headless(d, x)
  THEN [d |-> d, b |-> b, type |-> "none"]
  ELSE [d |-> [d EXCEPT !.started = @ \/ IsStart(x)],
        b |-> Appended(b, x), type |-> CompletedH264(x)]

UnpackedH264(d, b, x) ==
  IF Headless(d, x)
  THEN [d |-> d, b |-> << >>, type |-> "none"]
  ELSE [d |-> [d EXCEPT !.started = @ \/ IsStart(x)],
        b |-> Appended(b, x), type |-> CompletedH264(x)]

\* The slice counters of a tiled picture count before the start is checked,
\* and a PPS that announces tiles sets them back (parase_pps).
Counted(d, x) ==
  LET type == CompletedH265(x)
      parsed == IF x.of.kind = "Pps" THEN [d EXCEPT !.columns = x.of.tiles] ELSE d
  IN  IF x.of.kind = "Pps" /\ x.of.tiles > 0
      THEN [parsed EXCEPT !.sliceI = 0, !.sliceP = 0]
      ELSE [parsed EXCEPT
              !.sliceI = IF type = "I" /\ IsEnd(x) /\ d.columns > 0 THEN @ + 1 ELSE @,
              !.sliceP = IF type = "P" /\ d.columns > 0 THEN @ + 1 ELSE @]

UnpackedH265(d, b, x) ==
  IF x.of.kind = "Skipped" THEN [d |-> d, b |-> b, type |-> "none"]
  ELSE IF Headless(d, x)
  THEN [d |-> Counted(d, x), b |-> << >>, type |-> "none"]
  ELSE [d |-> [Counted(d, x) EXCEPT !.started = @ \/ IsStart(x)],
        b |-> Appended(b, x), type |-> CompletedH265(x)]

Unpacked(d, b, x) ==
  IF DecType = "H265" THEN UnpackedH265(d, b, x) ELSE UnpackedH264(d, b, x)

-----------------------------------------------------------------------------
(* The output plane.                                                       *)

\* qBuffer; a plane that was aborted takes no buffer.
Queued(p, content) ==
  IF p.aborted THEN p ELSE [p EXCEPT !.queued = Append(@, content)]

\* An abort that empties the plane and leaves dqBuffer waiting.
FlushedOnly(p) == [queued |-> << >>, done |-> 0, aborted |-> FALSE]

\* NvVideoDecoder::abort stops the stream: every buffer leaves the device.
Aborted(p) == [queued |-> << >>, done |-> 0, aborted |-> TRUE]

\* Outcomes of queueing content: accepted or, when calls may fail, refused,
\* which makes the caller abort the decoder.
QueueOutcomes(p, content) ==
  {Queued(p, content)} \cup (IF MayFail THEN {Aborted(p)} ELSE {})

-----------------------------------------------------------------------------
(* A packet with RTP data, up to the wait for an output buffer.            *)

\* do_decode while qBuf_count < 2: initBuf fills the two buffers in turn.
PrimePlane(c, d, b) ==
  /\ \E p \in QueueOutcomes(plane[c], b) : plane' = [plane EXCEPT ![c] = p]
  /\ dec' = [dec EXCEPT ![c] = [d EXCEPT !.qCount = @ + 1]]
  /\ buf' = [buf EXCEPT ![c] = << >>]
  /\ UNCHANGED main

\* Otherwise do_decode waits in dqBuffer, and the whole thread with it.
AwaitBuffer(c, d, b, type) ==
  /\ dec' = [dec EXCEPT ![c] = d]
  /\ buf' = [buf EXCEPT ![c] = b]
  /\ main' = Waiting(c, type)
  /\ UNCHANGED plane

\* What is left to prime: do_decode's test of qBuf_count.
Unprimed(d) == d.qCount < NumBuffers

\* process_rtp.
Process(c, d, x) ==
  LET u == Unpacked(d, buf[c], x)
  IN  \/ /\ u.type = "none"
         /\ dec' = [dec EXCEPT ![c] = u.d]
         /\ buf' = [buf EXCEPT ![c] = u.b]
         /\ UNCHANGED <<plane, main>>
      \/ /\ u.type # "none"
         /\ Unprimed(u.d)
         /\ PrimePlane(c, u.d, u.b)
      \/ /\ u.type # "none"
         /\ ~Unprimed(u.d)
         /\ AwaitBuffer(c, u.d, u.b, u.type)

\* osalClearTaskEvent for the clear-screen timer of a channel.
StillArmed(c) == armed
Disarmed(c) == armed \ {c}

\* pkgProcess, a packet that is not a status packet.
RecvData(c) ==
  LET d == [dec[c] EXCEPT !.err = FALSE, !.startRcv = TRUE]
  IN  /\ main = Idle
      /\ ~wild
      /\ rest[c] # << >>
      /\ rest' = [rest EXCEPT ![c] = Tail(@)]
      /\ armed' = Disarmed(c)
      /\ \/ /\ c < wnd
            /\ Process(c, d, Head(rest[c]))
         \/ /\ c >= wnd
            /\ dec' = [dec EXCEPT ![c] = d]
            /\ UNCHANGED <<buf, plane, main>>
      /\ UNCHANGED <<wnd, wild, stream, lost, shown>>

-----------------------------------------------------------------------------
(* The rest of do_decode, once dqBuffer has returned.                      *)

\* The plane was aborted, by this thread or by the capture thread: dqBuffer
\* fails and do_decode gives up, the frame still in the buffer.
DqFails ==
  /\ main.at = "dqBuffer"
  /\ plane[main.chn].aborted
  /\ main' = Idle
  /\ UNCHANGED <<dec, buf, plane, wnd, armed, wild, cameras, shown>>

\* Only tiled pictures are ever complete.
TiledSlices(d, slices) == d.columns > 0 /\ slices = d.columns

\* A tiled picture is complete when it has as many slices as tile columns.
AllSlices(d, slices) == d.columns = 0 \/ slices = d.columns

\* The frame is taken out of the buffer, and queued if it is wanted.
Flush(c, p, d, wanted) ==
  /\ IF wanted
     THEN \E q \in QueueOutcomes(p, buf[c]) : plane' = [plane EXCEPT ![c] = q]
     ELSE plane' = [plane EXCEPT ![c] = p]
  /\ dec' = [dec EXCEPT ![c] = [d EXCEPT !.started = FALSE]]
  /\ buf' = [buf EXCEPT ![c] = << >>]

\* No branch applies: the buffer taken from the plane is not given back.
Keep(c, p) ==
  /\ plane' = [plane EXCEPT ![c] = p]
  /\ UNCHANGED <<dec, buf>>

DecodePps(c, p, d) ==
  IF d.enPps THEN Keep(c, p)
  ELSE Flush(c, p, [d EXCEPT !.enPps = TRUE], ~d.refused)

DecodeP(c, p, d) ==
  IF ~AllSlices(d, d.sliceP) THEN Keep(c, p)
  ELSE Flush(c, p, [d EXCEPT !.waitIfream = @ \/ d.refused, !.sliceP = 0],
             ~d.refused /\ ~d.waitIfream)

DecodeI(c, p, d) ==
  IF ~AllSlices(d, d.sliceI) THEN Keep(c, p)
  ELSE Flush(c, p, [d EXCEPT !.waitIfream = d.refused], ~d.refused)

DecodePkg(c, p, d) == Flush(c, p, d, ~d.refused)

DqSucceeds ==
  /\ main.at = "dqBuffer"
  /\ LET c == main.chn
         d == dec[c]
         p == [plane[c] EXCEPT !.done = @ - 1]
     IN  /\ ~plane[c].aborted
         /\ plane[c].done > 0
         /\ \/ main.type = "PPS" /\ DecodePps(c, p, d)
            \/ main.type = "P"   /\ DecodeP(c, p, d)
            \/ main.type = "I"   /\ DecodeI(c, p, d)
            \/ main.type = "PKG" /\ DecodePkg(c, p, d)
  /\ main' = Idle
  /\ UNCHANGED <<wnd, armed, wild, cameras, shown>>

-----------------------------------------------------------------------------
(* Status packets.                                                         *)

\* decs is indexed past its end: what happens next is undefined.
IndexOutOfRange ==
  /\ wild' = TRUE
  /\ UNCHANGED <<dec, buf, plane, main, wnd, armed, cameras, shown>>

\* cmd 88 with the layout already on screen: the channel has a new source.
Refresh(id, update) ==
  IF ~update THEN UNCHANGED chnVars
  ELSE IF id \notin Chns THEN IndexOutOfRange
  ELSE /\ dec' = [dec EXCEPT ![id] = ResetDec(@, FALSE)]
       /\ buf' = [buf EXCEPT ![id] = << >>]
       /\ armed' = armed \cup {id}
       /\ UNCHANGED <<plane, main, wnd, wild, cameras, shown>>

\* The channels the loop over the old layout visits.
AllButLast(c) == c + 1 < wnd
WasShown(c) == c < wnd

\* cmd 88 with another layout: every channel of the old one is reset.
Cut(subwin) ==
  IF wnd > NumChns THEN IndexOutOfRange
  ELSE /\ dec' = [c \in Chns |-> IF WasShown(c) THEN ResetDec(dec[c], FALSE) ELSE dec[c]]
       /\ buf' = [c \in Chns |-> IF WasShown(c) THEN << >> ELSE buf[c]]
       /\ armed' = { c \in armed : ~WasShown(c) } \cup {0}
       /\ wnd' = subwin
       /\ UNCHANGED <<plane, main, wild, cameras, shown>>

\* pkgProcess, cmd 88.
RecvSubwin(id, update, subwin) ==
  /\ main = Idle
  /\ ~wild
  /\ IF subwin = wnd THEN Refresh(id, update) ELSE Cut(subwin)

\* pkgProcess, cmd 89: the channel lost its camera.
RecvChnErr(id) ==
  /\ main = Idle
  /\ ~wild
  /\ \/ /\ id \notin Chns
        /\ IndexOutOfRange
     \/ /\ id \in Chns
        /\ ~dec[id].err
        /\ dec' = [dec EXCEPT ![id] = ResetDec(@, TRUE)]
        /\ buf' = [buf EXCEPT ![id] = << >>]
        /\ armed' = Disarmed(id)
        /\ UNCHANGED <<plane, main, wnd, wild, cameras, shown>>

\* pkgProcess, RTP data for a channel that decs does not have.
RecvStray(id) ==
  /\ main = Idle
  /\ ~wild
  /\ id \notin Chns
  /\ IndexOutOfRange

-----------------------------------------------------------------------------
(* The surroundings: camera and network, clear-screen timer, device.       *)

SendFrame(c) ==
  /\ c \in Cameras
  /\ rest[c] = << >>
  /\ Len(stream[c]) < MaxFrames
  /\ \E nalu \in Nalus(Len(stream[c]) + 1) :
       /\ stream' = [stream EXCEPT ![c] = Append(@, Fragments(nalu))]
       /\ rest' = [rest EXCEPT ![c] = Fragments(nalu)]
  /\ UNCHANGED <<dec, buf, plane, main, wnd, armed, wild, lost, shown>>

Lose(c) ==
  /\ rest[c] # << >>
  /\ Cardinality(lost[c]) < MaxLosses
  /\ lost' = [lost EXCEPT ![c] = @ \cup {Head(rest[c])}]
  /\ rest' = [rest EXCEPT ![c] = Tail(@)]
  /\ UNCHANGED <<dec, buf, plane, main, wnd, armed, wild, stream, shown>>

\* The timer of task 1 fires in the other thread; its handler only clears bits.
TimerFires(c) ==
  /\ c \in armed
  /\ armed' = armed \ {c}
  /\ UNCHANGED <<dec, buf, plane, main, wnd, wild, cameras, shown>>

\* The device takes the next queued frame; its buffer can be dequeued again.
DeviceTakes(c) ==
  /\ c \notin stalled
  /\ plane[c].queued # << >>
  /\ shown' = [shown EXCEPT ![c] = Head(plane[c].queued)]
  /\ plane' = [plane EXCEPT ![c].queued = Tail(@), ![c].done = @ + 1]
  /\ UNCHANGED <<dec, buf, main, wnd, armed, wild, cameras>>

\* The capture thread gives up and aborts the decoder (nvdec.c abort).
CaptureAborts(c) ==
  /\ MayFail
  /\ ~plane[c].aborted
  /\ plane' = [plane EXCEPT ![c] = Aborted(@)]
  /\ UNCHANGED <<dec, buf, main, wnd, armed, wild, cameras, shown>>

\* The capture thread stops serving the device without an abort: a failed
\* transform does not requeue its buffer, a failed set-up leaves none.
DeviceStops(c) ==
  /\ MayFail
  /\ stalled' = stalled \cup {c}
  /\ UNCHANGED chnVars

Decode == DqFails \/ DqSucceeds

Receive ==
  \/ \E c \in Chns : RecvData(c)
  \/ \E id \in PeerChns, update \in BOOLEAN, subwin \in Subwins :
       RecvSubwin(id, update, subwin)
  \/ \E id \in PeerChns : RecvChnErr(id) \/ RecvStray(id)

Environment ==
  \E c \in Chns :
    SendFrame(c) \/ Lose(c) \/ TimerFires(c) \/ DeviceTakes(c) \/ CaptureAborts(c)

ChnNext == Receive \/ Decode \/ Environment

Served == UNCHANGED stalled

Next == (Served /\ ChnNext) \/ \E c \in Chns : DeviceStops(c)

Spec == Init /\ [][Next]_vars

\* The thread does not stop in the middle of do_decode, and a device that is
\* still served with capture buffers decodes what it is given.  Nothing is
\* assumed of a device that has stopped.
Fairness ==
  /\ WF_vars(Served /\ Decode)
  /\ \A c \in Chns : WF_vars(Served /\ DeviceTakes(c))

FairSpec == Spec /\ Fairness

-----------------------------------------------------------------------------
AllNalus == UNION { Nalus(id) : id \in 1 .. MaxFrames }
AllFragments == UNION { { Fragments(n)[i] : i \in 1 .. n.len } : n \in AllNalus }

DecType_ ==
  [ started : BOOLEAN, enPps : BOOLEAN, err : BOOLEAN, startRcv : BOOLEAN,
    refused : BOOLEAN, waitIfream : BOOLEAN, qCount : 0 .. NumBuffers,
    columns : Nat, sliceI : Nat, sliceP : Nat ]

PlaneType ==
  [ queued : Seq(Seq(AllFragments)), done : 0 .. NumBuffers, aborted : BOOLEAN ]

ChannelTypes ==
  /\ dec \in [Chns -> DecType_]
  /\ buf \in [Chns -> Seq(AllFragments)]
  /\ plane \in [Chns -> PlaneType]
  /\ \/ main = Idle
     \/ \E c \in Chns, type \in {"I", "P", "PKG", "PPS"} : main = Waiting(c, type)
  /\ wnd \in Nat
  /\ armed \subseteq Chns
  /\ wild \in BOOLEAN
  /\ stream \in [Chns -> Seq(Seq(AllFragments))]
  /\ rest \in [Chns -> Seq(AllFragments)]
  /\ lost \in [Chns -> SUBSET AllFragments]
  /\ shown \in [Chns -> Seq(AllFragments)]

TypeOK == ChannelTypes /\ stalled \subseteq Chns

(* The two output buffers of a channel go round between program and        *)
(* device: outside do_decode the program holds none of those it has put    *)
(* into circulation, however packets, resets and losses follow each other  *)
(* (stream.c:45-211; nvdec.c:341-364 puts the two into circulation).       *)
OutputPlaneBalanced ==
  \A c \in Chns :
    ~plane[c].aborted => Len(plane[c].queued) + plane[c].done = dec[c].qCount

(* When the thread waits in dqBuffer (stream.c:59) no buffer has got lost  *)
(* between program and device: one is queued or done, or the wait fails.   *)
WaitCanEnd ==
  main.at = "dqBuffer" =>
    LET p == plane[main.chn] IN p.aborted \/ p.done > 0 \/ p.queued # << >>

(* The wait in dqBuffer ends unless the device of that very channel has    *)
(* stopped without an abort (nvdec.c:810-814, renderer.c:53-61): then the  *)
(* thread, and every other channel with it, waits for ever (stream.c:59).  *)
EveryWaitEnds ==
  main.at = "dqBuffer"
    ~> main = Idle \/ (main.at = "dqBuffer" /\ main.chn \in stalled)

\* The frame a run of fragments starts with.
FrameId(content) == IF content = << >> THEN 0 ELSE content[1].of.id

Pipe == INSTANCE FramePipe
  WITH Frames <- { Fragments(n) : n \in AllNalus },
       last <- [c \in Chns |-> FrameId(shown[c])]

NothingLost == \A c \in Chns : lost[c] = {}

(* Fragments in, frames out: as long as nothing has been lost on the way   *)
(* the decoder of a channel gets whole frames, each once and in order,     *)
(* through resets of the channel in the middle of a frame and failing      *)
(* device calls too (stream.c, rtpPkgProcess.c).                           *)
ImplementsFramePipe ==
  Pipe!Init /\ [][NothingLost' => Pipe!Next]_<<stream, shown>>

(* A lost fragment harms its own frame and, when it is the last one of a   *)
(* frame, the next: any other frame the decoder gets is whole              *)
(* (the PKG_STARTED protocol of stream.c:254-290).                         *)
ResyncsAfterLoss ==
  \A c \in Chns : shown[c] # << >> =>
    LET content == shown[c]
        n       == content[Len(content)].of.id
        Hit(id) == \E x \in lost[c] : x.of.id = id
        LostEnd(id) == \E x \in lost[c] : x.of.id = id /\ x.i = x.of.len
    IN  ~Hit(n) /\ ~LostEnd(n - 1) => content = stream[c][n]

\* How many fragments at most the camera has sent, up to this one.
Place(x) == (x.of.id - 1) * MaxLen + x.i

\* Fragment i of a unit is there, or content starts behind it because the buffer
\* was full: dec_buf_append starts afresh in the middle of the unit.
Has(content, nalu, i) ==
  \/ \E k \in DOMAIN content : content[k] = [of |-> nalu, i |-> i]
  \/ /\ content # << >>
     /\ content[1].of = nalu /\ content[1].i > i
     /\ Place(content[1]) > BufCap

(* Whatever is lost on the way, assembled, held back (parameter sets wait  *)
(* for the frame behind them, stream.c:91-92) or dropped in a reset: what  *)
(* the decoder of a channel gets is in the order of the camera, nothing    *)
(* twice, and each NAL unit in it is whole unless a fragment of that very  *)
(* unit was lost, or so much had come that the buffer may have run full in *)
(* the middle of the first one (dec_buf.c:40).                             *)
WholeNalusInOrder ==
  \A c \in Chns :
    LET content == shown[c]
        Hit(id) == \E x \in lost[c] : x.of.id = id
    IN  /\ \A j, k \in DOMAIN content : j < k => Place(content[j]) < Place(content[k])
        /\ \A k \in DOMAIN content :
             LET nalu == content[k].of
             IN  ~Hit(nalu.id) => \A i \in 1 .. nalu.len : Has(content, nalu, i)

(* err says that the channel shows no video (decoder.h:55): its buffer is  *)
(* empty, nothing is being assembled and no frame of it is being decoded.  *)
NoVideoMeansReset ==
  \A c \in Chns : dec[c].err =>
    /\ buf[c] = << >>
    /\ ~dec[c].started
    /\ ~dec[c].startRcv
    /\ ~(main.at = "dqBuffer" /\ main.chn = c)

(* A channel that no window shows holds nothing of a frame, so that it     *)
(* starts clean when a later layout shows it (rtpPkgProcess.c:84-134).     *)
HiddenIsClean ==
  \A c \in Chns : c >= wnd => buf[c] = << >> /\ ~dec[c].started

(* The clear-screen timer runs only while its channel receives nothing     *)
(* (rtpPkgProcess.c:71, 116, 154, 162, 227).                               *)
ClearsOnlyIdleChannels ==
  \A c \in armed : ~dec[c].startRcv /\ buf[c] = << >>

\* The channel holds parameter sets that came after the first ones.
HoldsSets(content) == content # << >> /\ content[1].of.kind = "ParamSet"

(* Parameter sets that come again are not dropped: they are sent to the    *)
(* decoder together with the I frame behind them (stream.c:91).            *)
HeldSetsAreSent ==
  \A c \in Chns :
    main = Waiting(c, "I") /\ HoldsSets(buf[c])
      ~> \E k \in DOMAIN plane[c].queued : HoldsSets(plane[c].queued[k])

(* Channel numbers stay within the array (rtpPkgProcess.c:228).            *)
ChannelsInRange == ~wild
=============================================================================
