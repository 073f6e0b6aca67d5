------------------------- MODULE DecChannelsProofs --------------------------
(***************************************************************************)
(* DecChannels for both codecs: type correctness, that a channel without   *)
(* video, without a window or with its clear-screen timer running holds    *)
(* nothing, and that the buffers sent to the decoder hold fragments in     *)
(* order, with every NAL unit whole of which no fragment was lost.  For    *)
(* H.264 also that the output buffers are never lost, so that a wait in    *)
(* dqBuffer can end, and that fragments become frames: whole, in order and *)
(* each once while nothing is lost (FramePipe), and whole again behind a   *)
(* frame that a loss has spoilt.                                           *)
(***************************************************************************)
EXTENDS DecChannels, SequenceTheorems, TLAPS

\* The buffers of a plane that the program can get back.
InCirculation(p) == Len(p.queued) + p.done

\* No plane has more buffers in circulation than were put there.
NoExtraBuffers == \A c \in Chns : InCirculation(plane[c]) <= dec[c].qCount

\* do_decode waits only once every buffer has been put into circulation.
WaitsPrimed ==
  \A c \in Chns, type \in {"I", "P", "PKG", "PPS"} :
    main = Waiting(c, type) => dec[c].qCount = NumBuffers

IInv == ChannelTypes /\ NoExtraBuffers /\ WaitsPrimed

-----------------------------------------------------------------------------
(* What the helpers return.                                                *)

LEMMA ResetDecType ==
  ASSUME NEW d \in DecType_, NEW err \in BOOLEAN
  PROVE  /\ ResetDec(d, err) \in DecType_
         /\ ResetDec(d, err).qCount = d.qCount
  BY DEF ResetDec, DecType_

LEMMA FragmentFacts ==
  ASSUME NEW x \in AllFragments
  PROVE  /\ x.of \in AllNalus
         /\ x.i \in Nat
         /\ x.of.tiles \in Nat
         /\ x.of.len \in Nat
<1>1. PICK n \in AllNalus : \E i \in 1 .. n.len : x = Fragments(n)[i]
  BY DEF AllFragments
<1>2. PICK id \in 1 .. MaxFrames, kind \in Kinds :
        \E tiles \in (IF kind = "Pps" THEN Tiles ELSE {0}), len \in Pieces(kind) :
          n = Nalu(id, kind, tiles, len)
  BY DEF AllNalus, Nalus
<1>3. n.len \in Nat /\ n.tiles \in Nat
  BY <1>2, SizesAssumption DEF Nalu, Pieces
<1>4. x.of = n /\ x.i \in Nat
  BY <1>1, <1>3 DEF Fragments
<1> QED
  BY <1>1, <1>3, <1>4

LEMMA AppendedType ==
  ASSUME NEW b \in Seq(AllFragments), NEW x \in AllFragments
  PROVE  Appended(b, x) \in Seq(AllFragments)
  BY DEF Appended

\* Unpacking a packet keeps the types and leaves the plane's count alone.
LEMMA UnpackedType ==
  ASSUME NEW d \in DecType_, NEW b \in Seq(AllFragments), NEW x \in AllFragments
  PROVE  /\ Unpacked(d, b, x).d \in DecType_
         /\ Unpacked(d, b, x).b \in Seq(AllFragments)
         /\ Unpacked(d, b, x).type \in {"none", "I", "P", "PKG", "PPS"}
         /\ Unpacked(d, b, x).d.qCount = d.qCount
<1>1. Appended(b, x) \in Seq(AllFragments) /\ << >> \in Seq(AllFragments)
  BY AppendedType
<1>2. IsStart(x) \in BOOLEAN
  BY DEF IsStart
<1>3. ASSUME NEW e \in DecType_
      PROVE  /\ [e EXCEPT !.started = @ \/ IsStart(x)] \in DecType_
             /\ [e EXCEPT !.started = @ \/ IsStart(x)].qCount = e.qCount
  BY <1>2 DEF DecType_
<1>4. Counted(d, x) \in DecType_ /\ Counted(d, x).qCount = d.qCount
  <2>1. x.of.tiles \in Nat
    BY FragmentFacts
  <2>2. CASE x.of.kind = "Pps" /\ x.of.tiles > 0
    BY <2>1, <2>2 DEF Counted, DecType_
  <2>3. CASE ~(x.of.kind = "Pps" /\ x.of.tiles > 0)
    <3> DEFINE type   == CompletedH265(x)
               parsed == IF x.of.kind = "Pps" THEN [d EXCEPT !.columns = x.of.tiles] ELSE d
               si == IF type = "I" /\ IsEnd(x) /\ d.columns > 0
                     THEN parsed.sliceI + 1 ELSE parsed.sliceI
               sp == IF type = "P" /\ d.columns > 0
                     THEN parsed.sliceP + 1 ELSE parsed.sliceP
    <3>1. parsed \in DecType_ /\ parsed.qCount = d.qCount
      BY <2>1 DEF DecType_
    <3>2. Counted(d, x) = [parsed EXCEPT !.sliceI = si, !.sliceP = sp]
      BY <2>3, Zenon DEF Counted
    <3> HIDE DEF parsed, type
    <3>3. si \in Nat /\ sp \in Nat
      BY <3>1 DEF DecType_
    <3> HIDE DEF si, sp
    <3> QED
      BY <3>1, <3>2, <3>3 DEF DecType_
  <2> QED
    BY <2>2, <2>3
<1>5. CompletedH264(x) \in {"none", "I", "P", "PKG"}
  BY DEF CompletedH264
<1>6. CompletedH265(x) \in {"none", "I", "P", "PKG", "PPS"}
  BY DEF CompletedH265
<1>7. CASE DecType = "H265"
  <2>1. Unpacked(d, b, x) = UnpackedH265(d, b, x)
    BY <1>7 DEF Unpacked
  <2> QED
    BY <1>1, <1>3, <1>4, <1>6, <2>1 DEF UnpackedH265
<1>8. CASE DecType # "H265"
  <2>1. Unpacked(d, b, x) = UnpackedH264(d, b, x)
    BY <1>8 DEF Unpacked
  <2> QED
    BY <1>1, <1>3, <1>5, <2>1 DEF UnpackedH264
<1> QED
  BY <1>7, <1>8

\* Queueing a buffer adds at most one to the plane.
LEMMA QueueOutcomesType ==
  ASSUME NEW p \in PlaneType, NEW content \in Seq(AllFragments),
         NEW q \in QueueOutcomes(p, content)
  PROVE  /\ q \in PlaneType
         /\ q.aborted \/ InCirculation(q) = InCirculation(p) + 1
         /\ InCirculation(q) <= InCirculation(p) + 1
         /\ q.aborted => p.aborted \/ MayFail
<1>1. CASE q = Queued(p, content)
  <2>1. p.queued \in Seq(Seq(AllFragments)) /\ p.done \in 0 .. NumBuffers
        /\ p.aborted \in BOOLEAN
    BY DEF PlaneType
  <2>2. Append(p.queued, content) \in Seq(Seq(AllFragments))
        /\ Len(Append(p.queued, content)) = Len(p.queued) + 1
    BY <2>1
  <2>3. Len(p.queued) \in Nat
    BY <2>1
  <2>4. CASE p.aborted
    BY <1>1, <2>1, <2>3, <2>4, SizesAssumption DEF Queued, InCirculation
  <2>5. CASE ~p.aborted
    <3>1. q = [p EXCEPT !.queued = Append(p.queued, content)]
      BY <1>1, <2>5 DEF Queued
    <3>2. q \in PlaneType /\ q.aborted = p.aborted
      BY <2>2, <3>1 DEF PlaneType
    <3>3. InCirculation(q) = InCirculation(p) + 1
      BY <2>1, <2>2, <2>3, <3>1, SizesAssumption DEF InCirculation, PlaneType
    <3> QED
      BY <2>1, <2>3, <2>5, <3>2, <3>3, SizesAssumption DEF InCirculation
  <2> QED
    BY <2>4, <2>5
<1>2. CASE MayFail /\ q = Aborted(p)
  <2>1. q = [queued |-> << >>, done |-> 0, aborted |-> TRUE]
    BY <1>2 DEF Aborted
  <2>2. q \in PlaneType /\ InCirculation(q) = 0 /\ q.aborted
    BY <2>1, SizesAssumption DEF PlaneType, InCirculation
  <2>3. InCirculation(p) \in Nat
    BY SizesAssumption DEF PlaneType, InCirculation
  <2> QED
    BY <1>2, <2>2, <2>3
<1> QED
  BY <1>1, <1>2 DEF QueueOutcomes

-----------------------------------------------------------------------------
(* Every action preserves the invariant.                                   *)

\* The part of ChannelTypes that the environment and the timers own.
RestOK ==
  /\ wnd \in Nat
  /\ armed \subseteq Chns
  /\ wild \in BOOLEAN
  /\ stream \in [Chns -> Seq(Seq(AllFragments))]
  /\ rest \in [Chns -> Seq(AllFragments)]
  /\ lost \in [Chns -> SUBSET AllFragments]
  /\ shown \in [Chns -> Seq(AllFragments)]

MainOK ==
  \/ main = Idle
  \/ \E c \in Chns, type \in {"I", "P", "PKG", "PPS"} : main = Waiting(c, type)

ChannelsOK ==
  /\ dec \in [Chns -> DecType_]
  /\ buf \in [Chns -> Seq(AllFragments)]
  /\ plane \in [Chns -> PlaneType]

LEMMA TypeParts == ChannelTypes <=> ChannelsOK /\ MainOK /\ RestOK
  BY DEF ChannelTypes, ChannelsOK, MainOK, RestOK

LEMMA Assemble ==
  ASSUME ChannelsOK', MainOK', RestOK', NoExtraBuffers', WaitsPrimed'
  PROVE  IInv'
  BY DEF IInv, ChannelTypes, ChannelsOK, MainOK, RestOK

LEMMA IdleNotWaiting ==
  ASSUME NEW c, NEW type
  PROVE  Idle # Waiting(c, type) /\ Idle.at # "dqBuffer"
  BY DEF Idle, Waiting

LEMMA WaitingInjective ==
  ASSUME NEW c, NEW type, NEW e, NEW uype, Waiting(c, type) = Waiting(e, uype)
  PROVE  c = e /\ type = uype
<1>1. Waiting(c, type).chn = c /\ Waiting(c, type).type = type
  BY DEF Waiting
<1>2. Waiting(e, uype).chn = e /\ Waiting(e, uype).type = uype
  BY DEF Waiting
<1> QED
  BY <1>1, <1>2

\* A step that writes one channel.
LEMMA OneChannel ==
  ASSUME IInv, NEW c \in Chns,
         NEW d \in DecType_, NEW b \in Seq(AllFragments), NEW p \in PlaneType,
         InCirculation(p) <= d.qCount,
         dec' = [dec EXCEPT ![c] = d],
         buf' = [buf EXCEPT ![c] = b],
         plane' = [plane EXCEPT ![c] = p]
  PROVE  ChannelsOK' /\ NoExtraBuffers'
<1>1. /\ dec \in [Chns -> DecType_]
      /\ buf \in [Chns -> Seq(AllFragments)]
      /\ plane \in [Chns -> PlaneType]
  BY DEF IInv, ChannelTypes
<1>2. ChannelsOK'
  BY <1>1 DEF ChannelsOK
<1>3. ASSUME NEW e \in Chns
      PROVE  InCirculation(plane'[e]) <= dec'[e].qCount
  <2>1. CASE e = c
    BY <1>1, <2>1
  <2>2. CASE e # c
    BY <1>1, <2>2 DEF IInv, NoExtraBuffers
  <2> QED
    BY <2>1, <2>2
<1> QED
  BY <1>2, <1>3 DEF NoExtraBuffers, InCirculation

\* A step that leaves dec, buf and plane alone.
LEMMA NoChannel ==
  ASSUME IInv, UNCHANGED <<dec, buf, plane>>
  PROVE  ChannelsOK' /\ NoExtraBuffers'
  BY DEF IInv, ChannelTypes, ChannelsOK, NoExtraBuffers, InCirculation

\* A step that keeps the counts and starts no wait keeps WaitsPrimed.
LEMMA KeepsPrimed ==
  ASSUME IInv, \A e \in Chns : dec'[e].qCount = dec[e].qCount,
         main' = main \/ main' = Idle
  PROVE  WaitsPrimed' /\ MainOK'
<1>1. MainOK'
  BY DEF IInv, ChannelTypes, MainOK
<1>2. ASSUME NEW e \in Chns, NEW type \in {"I", "P", "PKG", "PPS"},
             main' = Waiting(e, type)
      PROVE  dec'[e].qCount = NumBuffers
  BY <1>2, IdleNotWaiting DEF IInv, WaitsPrimed
<1> QED
  BY <1>1, <1>2 DEF WaitsPrimed

LEMMA InitInvariant == ASSUME Init PROVE IInv
<1>1. InitialDec \in DecType_ /\ InitialDec.qCount = 0
  BY SizesAssumption DEF InitialDec, DecType_
<1>2. InitialPlane \in PlaneType /\ InCirculation(InitialPlane) = 0
  BY SizesAssumption DEF InitialPlane, PlaneType, InCirculation
<1>3. ChannelsOK
  BY <1>1, <1>2 DEF Init, ChannelsOK
<1>4. MainOK /\ RestOK
  <2>1. wild \in BOOLEAN
    BY Zenon DEF Init
  <2> QED
    BY <2>1, SizesAssumption DEF Init, MainOK, RestOK
<1>5. NoExtraBuffers
  BY <1>1, <1>2 DEF Init, NoExtraBuffers
<1>6. WaitsPrimed
  BY IdleNotWaiting DEF Init, WaitsPrimed
<1> QED
  BY <1>3, <1>4, <1>5, <1>6, TypeParts DEF IInv

\* pkgProcess with RTP data.
LEMMA RecvDataInvariant ==
  ASSUME IInv, NEW c \in Chns, RecvData(c)
  PROVE  IInv'
<1> DEFINE d == [dec[c] EXCEPT !.err = FALSE, !.startRcv = TRUE]
           x == Head(rest[c])
           u == Unpacked(d, buf[c], x)
<1>1. ChannelsOK /\ MainOK /\ RestOK /\ NoExtraBuffers /\ WaitsPrimed
  BY TypeParts DEF IInv
<1>2. /\ dec[c] \in DecType_
      /\ buf[c] \in Seq(AllFragments)
      /\ plane[c] \in PlaneType
      /\ InCirculation(plane[c]) <= dec[c].qCount
  BY <1>1 DEF ChannelsOK, NoExtraBuffers
<1>3. d \in DecType_ /\ d.qCount = dec[c].qCount
  BY <1>2 DEF DecType_
<1>4. x \in AllFragments /\ Tail(rest[c]) \in Seq(AllFragments)
  <2>1. rest[c] \in Seq(AllFragments) /\ rest[c] # << >>
    BY <1>1 DEF RestOK, RecvData
  <2> QED
    BY <2>1, HeadTailProperties
<1>5. /\ main = Idle
      /\ rest' = [rest EXCEPT ![c] = Tail(rest[c])]
      /\ armed' = armed \ {c}
      /\ UNCHANGED <<wnd, wild, stream, lost, shown>>
      /\ \/ Process(c, d, x)
         \/ dec' = [dec EXCEPT ![c] = d] /\ UNCHANGED <<buf, plane, main>>
  BY DEF RecvData, Disarmed
<1>6. RestOK'
  BY <1>1, <1>4, <1>5 DEF RestOK
<1> HIDE DEF d, x
<1>7. /\ u.d \in DecType_
      /\ u.b \in Seq(AllFragments)
      /\ u.type \in {"none", "I", "P", "PKG", "PPS"}
      /\ u.d.qCount = dec[c].qCount
  BY <1>2, <1>3, <1>4, UnpackedType
<1>8. CASE dec' = [dec EXCEPT ![c] = d] /\ UNCHANGED <<buf, plane, main>>
  <2>1. buf' = [buf EXCEPT ![c] = buf[c]] /\ plane' = [plane EXCEPT ![c] = plane[c]]
    BY <1>1, <1>8 DEF ChannelsOK
  <2>2. InCirculation(plane[c]) <= d.qCount
    BY <1>2, <1>3
  <2>3. ChannelsOK' /\ NoExtraBuffers'
    BY <1>2, <1>3, <1>8, <2>1, <2>2, OneChannel
  <2>4. \A e \in Chns : dec'[e].qCount = dec[e].qCount
    BY <1>1, <1>3, <1>8 DEF ChannelsOK
  <2> QED
    BY <1>6, <1>8, <2>3, <2>4, KeepsPrimed, Assemble
<1>9. CASE Process(c, d, x)
  <2> HIDE DEF u
  <2>1. \/ /\ dec' = [dec EXCEPT ![c] = u.d]
           /\ buf' = [buf EXCEPT ![c] = u.b]
           /\ UNCHANGED <<plane, main>>
        \/ Unprimed(u.d) /\ PrimePlane(c, u.d, u.b)
        \/ u.type # "none" /\ ~Unprimed(u.d)
           /\ AwaitBuffer(c, u.d, u.b, u.type)
    BY <1>9 DEF Process, u
  <2>2. CASE dec' = [dec EXCEPT ![c] = u.d] /\ buf' = [buf EXCEPT ![c] = u.b]
             /\ UNCHANGED <<plane, main>>
    <3>1. plane' = [plane EXCEPT ![c] = plane[c]]
      BY <1>1, <2>2 DEF ChannelsOK
    <3>2. ChannelsOK' /\ NoExtraBuffers'
      BY <1>2, <1>7, <2>2, <3>1, OneChannel
    <3>3. \A e \in Chns : dec'[e].qCount = dec[e].qCount
      BY <1>1, <1>7, <2>2 DEF ChannelsOK
    <3> QED
      BY <1>6, <2>2, <3>2, <3>3, KeepsPrimed, Assemble
  <2>3. CASE Unprimed(u.d) /\ PrimePlane(c, u.d, u.b)
    <3> DEFINE e == [u.d EXCEPT !.qCount = u.d.qCount + 1]
    <3>1. e \in DecType_ /\ e.qCount = dec[c].qCount + 1
      <4>1. u.d.qCount + 1 \in 0 .. NumBuffers
        BY <1>7, <2>3, SizesAssumption DEF DecType_, Unprimed
      <4> QED
        BY <1>7, <4>1 DEF DecType_
    <3>2. PICK p \in QueueOutcomes(plane[c], u.b) : plane' = [plane EXCEPT ![c] = p]
      BY <2>3 DEF PrimePlane
    <3>3. p \in PlaneType /\ InCirculation(p) <= InCirculation(plane[c]) + 1
      BY <1>2, <1>7, <3>2, QueueOutcomesType
    <3>4. InCirculation(p) \in Nat /\ InCirculation(plane[c]) \in Nat
      BY <1>2, <3>3, SizesAssumption DEF InCirculation, PlaneType
    <3>5. InCirculation(p) <= e.qCount
      BY <1>2, <3>1, <3>3, <3>4 DEF DecType_
    <3>6. dec' = [dec EXCEPT ![c] = e] /\ buf' = [buf EXCEPT ![c] = << >>]
          /\ main' = main
      BY <2>3 DEF PrimePlane
    <3> HIDE DEF e
    <3>7. << >> \in Seq(AllFragments)
      OBVIOUS
    <3>8. ChannelsOK' /\ NoExtraBuffers'
      BY <3>1, <3>2, <3>3, <3>5, <3>6, <3>7, OneChannel
    <3>9. WaitsPrimed' /\ MainOK'
      BY <1>1, <1>5, <3>6, IdleNotWaiting DEF WaitsPrimed, MainOK
    <3> QED
      BY <1>6, <3>8, <3>9, Assemble
  <2>4. CASE u.type # "none" /\ ~Unprimed(u.d)
             /\ AwaitBuffer(c, u.d, u.b, u.type)
    <3>1. /\ dec' = [dec EXCEPT ![c] = u.d]
          /\ buf' = [buf EXCEPT ![c] = u.b]
          /\ main' = Waiting(c, u.type)
          /\ plane' = plane
      BY <2>4 DEF AwaitBuffer
    <3>2. plane' = [plane EXCEPT ![c] = plane[c]]
      BY <1>1, <3>1 DEF ChannelsOK
    <3>3. ChannelsOK' /\ NoExtraBuffers'
      BY <1>2, <1>7, <3>1, <3>2, OneChannel
    <3>4. dec'[c].qCount = NumBuffers
      BY <1>1, <1>7, <2>4, <3>1, SizesAssumption DEF ChannelsOK, DecType_, Unprimed
    <3>5. MainOK'
      BY <1>7, <2>4, <3>1 DEF MainOK
    <3>6. WaitsPrimed'
      BY <3>1, <3>4, WaitingInjective DEF WaitsPrimed
    <3> QED
      BY <1>6, <3>3, <3>5, <3>6, Assemble
  <2> QED
    BY <2>1, <2>2, <2>3, <2>4
<1> QED
  BY <1>5, <1>8, <1>9

\* A buffer taken from the plane leaves circulation.
LEMMA DequeuedType ==
  ASSUME NEW q \in PlaneType, q.done > 0
  PROVE  LET p == [q EXCEPT !.done = q.done - 1]
         IN  p \in PlaneType /\ InCirculation(p) + 1 = InCirculation(q)
<1> DEFINE p == [q EXCEPT !.done = q.done - 1]
<1>1. /\ q.queued \in Seq(Seq(AllFragments))
      /\ q.done \in 0 .. NumBuffers
      /\ q.aborted \in BOOLEAN
      /\ q = [queued |-> q.queued, done |-> q.done, aborted |-> q.aborted]
  BY DEF PlaneType
<1>2. q.done - 1 \in 0 .. NumBuffers
  BY <1>1, SizesAssumption
<1>3. p = [queued |-> q.queued, done |-> q.done - 1, aborted |-> q.aborted]
  BY <1>1
<1>4. p \in PlaneType
  BY <1>1, <1>2, <1>3 DEF PlaneType
<1>5. Len(q.queued) \in Nat /\ q.done \in Int
  BY <1>1
<1> HIDE DEF p
<1>6. InCirculation(p) = Len(q.queued) + (q.done - 1)
  BY <1>3 DEF InCirculation
<1>7. InCirculation(q) = Len(q.queued) + q.done
  BY DEF InCirculation
<1>8. InCirculation(p) + 1 = InCirculation(q)
  BY <1>5, <1>6, <1>7
<1> QED
  BY <1>4, <1>8 DEF p

\* Flushing a frame takes the buffer p lacks, so at most that one returns.
LEMMA FlushInvariant ==
  ASSUME IInv, NEW c \in Chns, NEW p \in PlaneType, NEW d \in DecType_,
         NEW wanted \in BOOLEAN,
         InCirculation(p) + 1 <= dec[c].qCount, d.qCount = dec[c].qCount,
         Flush(c, p, d, wanted)
  PROVE  /\ ChannelsOK' /\ NoExtraBuffers'
         /\ \A e \in Chns : dec'[e].qCount = dec[e].qCount
<1> DEFINE e == [d EXCEPT !.started = FALSE]
<1>1. /\ dec' = [dec EXCEPT ![c] = e]
      /\ buf' = [buf EXCEPT ![c] = << >>]
      /\ \/ \E q \in QueueOutcomes(p, buf[c]) : plane' = [plane EXCEPT ![c] = q]
         \/ plane' = [plane EXCEPT ![c] = p]
  BY DEF Flush
<1>2. e \in DecType_ /\ e.qCount = dec[c].qCount /\ e.qCount \in Nat
  <2>1. d.qCount \in Nat
    BY SizesAssumption DEF DecType_
  <2>2. e \in DecType_ /\ e.qCount = d.qCount
    BY DEF DecType_
  <2> QED
    BY <2>1, <2>2
<1>3. buf[c] \in Seq(AllFragments) /\ dec \in [Chns -> DecType_]
  BY DEF IInv, ChannelTypes
<1>4. PICK q \in PlaneType :
        plane' = [plane EXCEPT ![c] = q] /\ InCirculation(q) <= InCirculation(p) + 1
  <2>1. InCirculation(p) \in Nat
    BY SizesAssumption DEF InCirculation, PlaneType
  <2>2. CASE plane' = [plane EXCEPT ![c] = p]
    <3>1. InCirculation(p) <= InCirculation(p) + 1
      BY <2>1
    <3> QED
      BY <2>2, <3>1, Zenon
  <2>3. CASE \E q \in QueueOutcomes(p, buf[c]) : plane' = [plane EXCEPT ![c] = q]
    BY <1>3, <2>3, QueueOutcomesType
  <2> QED
    BY <1>1, <2>2, <2>3
<1> HIDE DEF e
<1>5. InCirculation(q) <= e.qCount
  <2>1. InCirculation(p) \in Nat /\ InCirculation(q) \in Nat
    BY SizesAssumption DEF InCirculation, PlaneType
  <2> QED
    BY <1>2, <1>4, <2>1
<1>6. << >> \in Seq(AllFragments)
  OBVIOUS
<1>7. ChannelsOK' /\ NoExtraBuffers'
  BY <1>1, <1>2, <1>4, <1>5, <1>6, OneChannel
<1>8. \A f \in Chns : dec'[f].qCount = dec[f].qCount
  BY <1>1, <1>2, <1>3
<1> QED
  BY <1>7, <1>8

LEMMA KeepInvariant ==
  ASSUME IInv, NEW c \in Chns, NEW p \in PlaneType,
         InCirculation(p) + 1 <= dec[c].qCount, Keep(c, p)
  PROVE  /\ ChannelsOK' /\ NoExtraBuffers'
         /\ \A e \in Chns : dec'[e].qCount = dec[e].qCount
<1>1. /\ plane' = [plane EXCEPT ![c] = p]
      /\ dec' = [dec EXCEPT ![c] = dec[c]]
      /\ buf' = [buf EXCEPT ![c] = buf[c]]
  BY DEF Keep, IInv, ChannelTypes
<1>2. /\ dec[c] \in DecType_
      /\ buf[c] \in Seq(AllFragments)
      /\ InCirculation(p) \in Nat
      /\ dec[c].qCount \in Nat
  BY SizesAssumption DEF IInv, ChannelTypes, DecType_, InCirculation, PlaneType
<1>3. InCirculation(p) <= dec[c].qCount
  BY <1>2
<1>4. ChannelsOK' /\ NoExtraBuffers'
  BY <1>1, <1>2, <1>3, OneChannel
<1> QED
  BY <1>4 DEF Keep

\* do_decode after dqBuffer.
LEMMA DqSucceedsInvariant ==
  ASSUME IInv, DqSucceeds
  PROVE  IInv'
<1>1. PICK c \in Chns, type \in {"I", "P", "PKG", "PPS"} : main = Waiting(c, type)
  BY IdleNotWaiting DEF IInv, ChannelTypes, DqSucceeds
<1> DEFINE d == dec[c]
           p == [plane[c] EXCEPT !.done = plane[c].done - 1]
<1>2. main.chn = c
  BY <1>1 DEF Waiting
<1>3. /\ plane[c].done > 0
      /\ \/ DecodePps(c, p, d)
         \/ DecodeP(c, p, d)
         \/ DecodeI(c, p, d)
         \/ DecodePkg(c, p, d)
      /\ main' = Idle
      /\ UNCHANGED <<wnd, armed, wild, cameras, shown>>
  BY <1>2 DEF DqSucceeds
<1>4. d \in DecType_ /\ plane[c] \in PlaneType /\ InCirculation(plane[c]) <= d.qCount
  BY DEF IInv, ChannelTypes, NoExtraBuffers
<1>5. p \in PlaneType /\ InCirculation(p) + 1 <= dec[c].qCount
  <2>1. p \in PlaneType /\ InCirculation(p) + 1 = InCirculation(plane[c])
    BY <1>3, <1>4, DequeuedType
  <2> QED
    BY <1>4, <2>1
<1> HIDE DEF p
<1>6. /\ ChannelsOK' /\ NoExtraBuffers'
      /\ \A e \in Chns : dec'[e].qCount = dec[e].qCount
  <2>1. CASE Keep(c, p)
    BY <1>5, <2>1, KeepInvariant
  <2>2. ASSUME NEW e \in DecType_, NEW wanted \in BOOLEAN, e.qCount = d.qCount,
               Flush(c, p, e, wanted)
        PROVE  /\ ChannelsOK' /\ NoExtraBuffers'
               /\ \A f \in Chns : dec'[f].qCount = dec[f].qCount
    BY <1>5, <2>2, FlushInvariant
  <2>3. d.refused \in BOOLEAN /\ d.waitIfream \in BOOLEAN
    BY <1>4 DEF DecType_
  <2>4. CASE DecodePps(c, p, d)
    <3>1. [d EXCEPT !.enPps = TRUE] \in DecType_
          /\ [d EXCEPT !.enPps = TRUE].qCount = d.qCount
      BY <1>4 DEF DecType_
    <3> QED
      BY <2>1, <2>2, <2>3, <2>4, <3>1 DEF DecodePps
  <2>5. CASE DecodeP(c, p, d)
    <3> DEFINE e == [d EXCEPT !.waitIfream = @ \/ d.refused, !.sliceP = 0]
    <3>1. e \in DecType_ /\ e.qCount = d.qCount
      BY <1>4, <2>3 DEF DecType_
    <3> HIDE DEF e
    <3>2. Keep(c, p) \/ Flush(c, p, e, ~d.refused /\ ~d.waitIfream)
      BY <2>5 DEF DecodeP, e
    <3> QED
      BY <2>1, <2>2, <2>3, <3>1, <3>2
  <2>6. CASE DecodeI(c, p, d)
    <3> DEFINE e == [d EXCEPT !.waitIfream = d.refused]
    <3>1. e \in DecType_ /\ e.qCount = d.qCount
      BY <1>4, <2>3 DEF DecType_
    <3> HIDE DEF e
    <3>2. Keep(c, p) \/ Flush(c, p, e, ~d.refused)
      BY <2>6 DEF DecodeI, e
    <3> QED
      BY <2>1, <2>2, <2>3, <3>1, <3>2
  <2>7. CASE DecodePkg(c, p, d)
    BY <1>4, <2>2, <2>3, <2>7 DEF DecodePkg
  <2> QED
    BY <1>3, <2>4, <2>5, <2>6, <2>7
<1>7. RestOK'
  BY <1>3 DEF IInv, ChannelTypes, RestOK, cameras
<1> QED
  BY <1>3, <1>6, <1>7, KeepsPrimed, Assemble

LEMMA DqFailsInvariant ==
  ASSUME IInv, DqFails
  PROVE  IInv'
<1>1. UNCHANGED <<dec, buf, plane, wnd, armed, wild, cameras, shown>> /\ main' = Idle
  BY DEF DqFails
<1>2. RestOK'
  BY <1>1 DEF IInv, ChannelTypes, RestOK, cameras
<1>3. \A e \in Chns : dec'[e].qCount = dec[e].qCount
  BY <1>1
<1> QED
  BY <1>1, <1>2, <1>3, NoChannel, KeepsPrimed, Assemble

\* A step after which nothing is known any more.
LEMMA OutOfRangeInvariant == ASSUME IInv, IndexOutOfRange PROVE IInv'
<1>1. UNCHANGED <<dec, buf, plane, main, wnd, armed, cameras, shown>>
  BY DEF IndexOutOfRange
<1>2. wild' \in BOOLEAN
  BY Zenon DEF IndexOutOfRange
<1>3. RestOK'
  BY <1>1, <1>2 DEF IInv, ChannelTypes, RestOK, cameras
<1>4. \A e \in Chns : dec'[e].qCount = dec[e].qCount
  BY <1>1
<1> QED
  BY <1>1, <1>3, <1>4, NoChannel, KeepsPrimed, Assemble

\* A status packet that resets one channel.
LEMMA ResetOneInvariant ==
  ASSUME IInv, NEW id \in Chns, NEW err \in BOOLEAN,
         dec' = [dec EXCEPT ![id] = ResetDec(dec[id], err)],
         buf' = [buf EXCEPT ![id] = << >>],
         armed' \subseteq Chns,
         UNCHANGED <<plane, main, wnd, wild, cameras, shown>>
  PROVE  IInv'
<1>1. /\ dec \in [Chns -> DecType_]
      /\ plane \in [Chns -> PlaneType]
      /\ InCirculation(plane[id]) <= dec[id].qCount
      /\ << >> \in Seq(AllFragments)
  BY DEF IInv, ChannelTypes, NoExtraBuffers
<1>2. ResetDec(dec[id], err) \in DecType_ /\ ResetDec(dec[id], err).qCount = dec[id].qCount
  BY <1>1, ResetDecType
<1>3. plane' = [plane EXCEPT ![id] = plane[id]]
  BY <1>1
<1>4. ChannelsOK' /\ NoExtraBuffers'
  BY <1>1, <1>2, <1>3, OneChannel
<1>5. \A e \in Chns : dec'[e].qCount = dec[e].qCount
  BY <1>1, <1>2
<1>6. RestOK'
  BY DEF IInv, ChannelTypes, RestOK, cameras
<1> QED
  BY <1>4, <1>5, <1>6, KeepsPrimed, Assemble

LEMMA CutInvariant ==
  ASSUME IInv, NEW subwin \in Subwins, Cut(subwin)
  PROVE  IInv'
<1>1. CASE IndexOutOfRange
  BY <1>1, OutOfRangeInvariant
<1>2. CASE ~(wnd > NumChns)
  <2>1. /\ dec' = [c \in Chns |-> IF WasShown(c) THEN ResetDec(dec[c], FALSE) ELSE dec[c]]
        /\ buf' = [c \in Chns |-> IF WasShown(c) THEN << >> ELSE buf[c]]
        /\ armed' = { c \in armed : ~WasShown(c) } \cup {0}
        /\ wnd' = subwin
        /\ UNCHANGED <<plane, main, wild, cameras, shown>>
    BY <1>2 DEF Cut
  <2>2. /\ dec \in [Chns -> DecType_]
        /\ buf \in [Chns -> Seq(AllFragments)]
        /\ plane \in [Chns -> PlaneType]
    BY DEF IInv, ChannelTypes
  <2>3. \A c \in Chns : ResetDec(dec[c], FALSE) \in DecType_
                        /\ ResetDec(dec[c], FALSE).qCount = dec[c].qCount
    BY <2>2, ResetDecType
  <2>4. ChannelsOK'
    <3>1. dec' \in [Chns -> DecType_]
      BY <2>1, <2>2, <2>3
    <3>2. \A c \in Chns : (IF WasShown(c) THEN << >> ELSE buf[c]) \in Seq(AllFragments)
      BY <2>2
    <3>3. buf' \in [Chns -> Seq(AllFragments)]
      BY <2>1, <3>2
    <3> QED
      BY <2>1, <2>2, <3>1, <3>3 DEF ChannelsOK
  <2>5. \A e \in Chns : dec'[e].qCount = dec[e].qCount
    BY <2>1, <2>2, <2>3
  <2>6. NoExtraBuffers'
    <3>1. \A e \in Chns : InCirculation(plane[e]) <= dec[e].qCount
      BY DEF IInv, NoExtraBuffers
    <3>2. \A e \in Chns : InCirculation(plane[e]) <= dec'[e].qCount
      BY <2>5, <3>1
    <3> QED
      BY <2>1, <3>2 DEF NoExtraBuffers, InCirculation
  <2>7. 0 \in Chns
    BY SizesAssumption DEF Chns
  <2>8. RestOK'
    BY <2>1, <2>7, SizesAssumption DEF IInv, ChannelTypes, RestOK, cameras
  <2> QED
    BY <2>1, <2>4, <2>5, <2>6, <2>8, KeepsPrimed, Assemble
<1> QED
  BY <1>1, <1>2 DEF Cut

LEMMA StutterInvariant == ASSUME IInv, UNCHANGED chnVars PROVE IInv'
<1>1. UNCHANGED <<dec, buf, plane, main, wnd, armed, wild, cameras, shown>>
  BY DEF chnVars, cameras
<1>2. RestOK'
  BY <1>1 DEF IInv, ChannelTypes, RestOK, cameras
<1>3. \A e \in Chns : dec'[e].qCount = dec[e].qCount
  BY <1>1
<1> QED
  BY <1>1, <1>2, <1>3, NoChannel, KeepsPrimed, Assemble

LEMMA SubwinInvariant ==
  ASSUME IInv, NEW id \in PeerChns, NEW update \in BOOLEAN, NEW subwin \in Subwins,
         RecvSubwin(id, update, subwin)
  PROVE  IInv'
<1>1. CASE IndexOutOfRange
  BY <1>1, OutOfRangeInvariant
<1>2. CASE UNCHANGED chnVars
  BY <1>2, StutterInvariant
<1>3. CASE Cut(subwin)
  BY <1>3, CutInvariant
<1>4. ASSUME id \in Chns,
             dec' = [dec EXCEPT ![id] = ResetDec(dec[id], FALSE)],
             buf' = [buf EXCEPT ![id] = << >>],
             armed' = armed \cup {id},
             UNCHANGED <<plane, main, wnd, wild, cameras, shown>>
      PROVE  IInv'
  <2>1. FALSE \in BOOLEAN /\ armed' \subseteq Chns
    BY <1>4 DEF IInv, ChannelTypes
  <2> QED
    BY <1>4, <2>1, ResetOneInvariant
<1> QED
  BY <1>1, <1>2, <1>3, <1>4 DEF RecvSubwin, Refresh

LEMMA ChnErrInvariant ==
  ASSUME IInv, NEW id \in PeerChns, RecvChnErr(id) \/ RecvStray(id)
  PROVE  IInv'
<1>1. CASE IndexOutOfRange
  BY <1>1, OutOfRangeInvariant
<1>2. ASSUME id \in Chns,
             dec' = [dec EXCEPT ![id] = ResetDec(dec[id], TRUE)],
             buf' = [buf EXCEPT ![id] = << >>],
             armed' = armed \ {id},
             UNCHANGED <<plane, main, wnd, wild, cameras, shown>>
      PROVE  IInv'
  <2>1. TRUE \in BOOLEAN /\ armed' \subseteq Chns
    BY <1>2 DEF IInv, ChannelTypes
  <2> QED
    BY <1>2, <2>1, ResetOneInvariant
<1> QED
  BY <1>1, <1>2 DEF RecvChnErr, RecvStray, Disarmed

\* The fragments of a NAL unit the camera can send are fragments.
LEMMA NaluFragments ==
  ASSUME NEW id \in 1 .. MaxFrames, NEW n \in Nalus(id)
  PROVE  Fragments(n) \in Seq(AllFragments)
<1>1. n \in AllNalus
  BY DEF AllNalus
<1>2. PICK kind \in Kinds :
        \E tiles \in (IF kind = "Pps" THEN Tiles ELSE {0}), len \in Pieces(kind) :
          n = Nalu(id, kind, tiles, len)
  BY DEF Nalus
<1>3. n.len \in Nat
  BY <1>2, SizesAssumption DEF Nalu, Pieces
<1>4. \A i \in 1 .. n.len : Fragments(n)[i] \in AllFragments
  BY <1>1 DEF AllFragments
<1>5. Fragments(n) = [i \in 1 .. n.len |-> Fragments(n)[i]]
  BY DEF Fragments
<1>6. [i \in 1 .. n.len |-> Fragments(n)[i]] \in Seq(AllFragments)
  BY <1>3, <1>4, SeqDef
<1> QED
  BY <1>5, <1>6

\* The device takes a frame and gives its buffer back.
LEMMA TakenType ==
  ASSUME NEW p \in PlaneType, p.queued # << >>, InCirculation(p) <= NumBuffers
  PROVE  LET q == [p EXCEPT !.queued = Tail(p.queued), !.done = p.done + 1]
         IN  /\ q \in PlaneType
             /\ InCirculation(q) = InCirculation(p)
             /\ q.aborted = p.aborted
             /\ Head(p.queued) \in Seq(AllFragments)
<1> DEFINE q == [p EXCEPT !.queued = Tail(p.queued), !.done = p.done + 1]
<1>1. /\ p.queued \in Seq(Seq(AllFragments))
      /\ p.done \in 0 .. NumBuffers
      /\ p.aborted \in BOOLEAN
      /\ p = [queued |-> p.queued, done |-> p.done, aborted |-> p.aborted]
  BY DEF PlaneType
<1>2. /\ Tail(p.queued) \in Seq(Seq(AllFragments))
      /\ Len(Tail(p.queued)) = Len(p.queued) - 1
      /\ Head(p.queued) \in Seq(AllFragments)
      /\ Len(p.queued) \in Nat \ {0}
  <2>1. Len(p.queued) \in Nat \ {0}
    BY <1>1, EmptySeq
  <2> QED
    BY <1>1, <2>1, HeadTailProperties
<1>3. InCirculation(p) = Len(p.queued) + p.done
  BY DEF InCirculation
<1>4. p.done + 1 \in 0 .. NumBuffers
  BY <1>1, <1>2, <1>3, SizesAssumption
<1>5. /\ q \in PlaneType
      /\ q.queued = Tail(p.queued)
      /\ q.done = p.done + 1
      /\ q.aborted = p.aborted
  <2>1. ASSUME NEW t \in Seq(Seq(AllFragments)), NEW m \in 0 .. NumBuffers
        PROVE  /\ [p EXCEPT !.queued = t, !.done = m] \in PlaneType
               /\ [p EXCEPT !.queued = t, !.done = m].queued = t
               /\ [p EXCEPT !.queued = t, !.done = m].done = m
               /\ [p EXCEPT !.queued = t, !.done = m].aborted = p.aborted
    BY DEF PlaneType
  <2> QED
    BY <1>2, <1>4, <2>1
<1>6. q \in PlaneType /\ q.aborted = p.aborted
  BY <1>5
<1>7. InCirculation(q) = Len(Tail(p.queued)) + (p.done + 1)
  BY <1>5 DEF InCirculation
<1> HIDE DEF q
<1>8. InCirculation(q) = InCirculation(p)
  BY <1>1, <1>2, <1>3, <1>7, SizesAssumption
<1> QED
  BY <1>2, <1>6, <1>8 DEF q

LEMMA AbortedType ==
  ASSUME NEW p
  PROVE  Aborted(p) \in PlaneType /\ InCirculation(Aborted(p)) = 0 /\ Aborted(p).aborted
<1>1. Aborted(p) = [queued |-> << >>, done |-> 0, aborted |-> TRUE]
  BY DEF Aborted
<1>2. << >> \in Seq(Seq(AllFragments)) /\ 0 \in 0 .. NumBuffers
  BY SizesAssumption
<1> QED
  BY <1>1, <1>2 DEF PlaneType, InCirculation

LEMMA EnvironmentInvariant ==
  ASSUME IInv, NEW c \in Chns,
         SendFrame(c) \/ Lose(c) \/ TimerFires(c) \/ DeviceTakes(c) \/ CaptureAborts(c)
  PROVE  IInv'
<1>1. ChannelsOK /\ MainOK /\ RestOK /\ NoExtraBuffers
  BY TypeParts DEF IInv
<1>2. UNCHANGED <<dec, buf, main, wnd, wild>>
  BY DEF SendFrame, Lose, TimerFires, DeviceTakes, CaptureAborts, cameras
<1>3. \A e \in Chns : dec'[e].qCount = dec[e].qCount
  BY <1>2
<1>4. WaitsPrimed' /\ MainOK'
  BY <1>2, <1>3, KeepsPrimed
<1>5. CASE SendFrame(c)
  <2>1. PICK nalu \in Nalus(Len(stream[c]) + 1) :
          /\ stream' = [stream EXCEPT ![c] = Append(stream[c], Fragments(nalu))]
          /\ rest' = [rest EXCEPT ![c] = Fragments(nalu)]
    BY <1>5 DEF SendFrame
  <2>2. stream[c] \in Seq(Seq(AllFragments)) /\ Len(stream[c]) < MaxFrames
    BY <1>1, <1>5 DEF RestOK, SendFrame
  <2>3. Len(stream[c]) + 1 \in 1 .. MaxFrames
    BY <2>2, SizesAssumption
  <2>4. Fragments(nalu) \in Seq(AllFragments)
    BY <2>3, NaluFragments
  <2>5. Append(stream[c], Fragments(nalu)) \in Seq(Seq(AllFragments))
    BY <2>2, <2>4
  <2>6. RestOK' /\ UNCHANGED <<dec, buf, plane>>
    BY <1>1, <1>5, <2>1, <2>4, <2>5 DEF RestOK, SendFrame
  <2> QED
    BY <1>4, <2>6, NoChannel, Assemble
<1>6. CASE Lose(c)
  <2>1. rest[c] \in Seq(AllFragments) /\ rest[c] # << >>
    BY <1>1, <1>6 DEF RestOK, Lose
  <2>2. Head(rest[c]) \in AllFragments /\ Tail(rest[c]) \in Seq(AllFragments)
    BY <2>1, HeadTailProperties
  <2>3. RestOK' /\ UNCHANGED <<dec, buf, plane>>
    BY <1>1, <1>6, <2>2 DEF RestOK, Lose
  <2> QED
    BY <1>4, <2>3, NoChannel, Assemble
<1>7. CASE TimerFires(c)
  <2>1. RestOK' /\ UNCHANGED <<dec, buf, plane>>
    BY <1>1, <1>7 DEF RestOK, TimerFires, cameras
  <2> QED
    BY <1>4, <2>1, NoChannel, Assemble
<1>8. dec[c] \in DecType_ /\ buf[c] \in Seq(AllFragments) /\ plane[c] \in PlaneType
      /\ InCirculation(plane[c]) <= dec[c].qCount
  BY <1>1 DEF ChannelsOK, NoExtraBuffers
<1>9. dec' = [dec EXCEPT ![c] = dec[c]] /\ buf' = [buf EXCEPT ![c] = buf[c]]
  BY <1>1, <1>2 DEF ChannelsOK
<1>10. CASE DeviceTakes(c)
  <2> DEFINE p == plane[c]
             q == [p EXCEPT !.queued = Tail(p.queued), !.done = p.done + 1]
  <2>1. p.queued # << >> /\ plane' = [plane EXCEPT ![c] = q]
        /\ shown' = [shown EXCEPT ![c] = Head(p.queued)]
    BY <1>10 DEF DeviceTakes
  <2>2. InCirculation(p) <= NumBuffers
    <3>1. dec[c].qCount \in 0 .. NumBuffers
      BY <1>8 DEF DecType_
    <3>2. InCirculation(p) \in Nat
      BY <1>8, SizesAssumption DEF InCirculation, PlaneType
    <3> QED
      BY <1>8, <3>1, <3>2, SizesAssumption
  <2>3. q \in PlaneType /\ InCirculation(q) = InCirculation(p)
        /\ Head(p.queued) \in Seq(AllFragments)
    BY <1>8, <2>1, <2>2, TakenType
  <2> HIDE DEF q
  <2>4. ChannelsOK' /\ NoExtraBuffers'
    BY <1>8, <1>9, <2>1, <2>3, OneChannel
  <2>5. RestOK'
    BY <1>1, <1>10, <2>1, <2>3 DEF RestOK, DeviceTakes, cameras
  <2> QED
    BY <1>4, <2>4, <2>5, Assemble
<1>11. CASE CaptureAborts(c)
  <2>1. plane' = [plane EXCEPT ![c] = Aborted(plane[c])]
    BY <1>11 DEF CaptureAborts
  <2>2. Aborted(plane[c]) \in PlaneType /\ InCirculation(Aborted(plane[c])) = 0
    BY AbortedType
  <2>3. InCirculation(Aborted(plane[c])) <= dec[c].qCount
    BY <1>8, <2>2, SizesAssumption DEF DecType_
  <2>4. ChannelsOK' /\ NoExtraBuffers'
    BY <1>8, <1>9, <2>1, <2>2, <2>3, OneChannel
  <2>5. RestOK'
    BY <1>1, <1>11 DEF RestOK, CaptureAborts, cameras
  <2> QED
    BY <1>4, <2>4, <2>5, Assemble
<1> QED
  BY <1>5, <1>6, <1>7, <1>10, <1>11

LEMMA ChnStep == ASSUME [Next]_vars PROVE [ChnNext]_chnVars
  BY DEF Next, vars, DeviceStops

LEMMA StepInvariant == ASSUME IInv, [ChnNext]_chnVars PROVE IInv'
<1>1. CASE Receive
  BY <1>1, RecvDataInvariant, SubwinInvariant, ChnErrInvariant DEF Receive
<1>2. CASE Decode
  BY <1>2, DqFailsInvariant, DqSucceedsInvariant DEF Decode
<1>3. CASE Environment
  BY <1>3, EnvironmentInvariant DEF Environment
<1>4. CASE UNCHANGED chnVars
  BY <1>4, StutterInvariant
<1> QED
  BY <1>1, <1>2, <1>3, <1>4 DEF ChnNext

(* The fields of every channel, the counts of its output plane and the     *)
(* place where the thread waits keep their ranges, whatever packets come,  *)
(* whatever is lost and whatever device call fails, for both codecs.       *)
THEOREM ChannelTypeOK == Spec => []TypeOK
<1> DEFINE Stopped == stalled \subseteq Chns
<1>1. Init => IInv /\ Stopped
  BY InitInvariant DEF Init
<1>2. IInv /\ [Next]_vars => IInv'
  BY ChnStep, StepInvariant
<1>3. Stopped /\ [Next]_vars => Stopped'
  BY DEF Next, vars, Served, DeviceStops
<1>4. IInv /\ Stopped => TypeOK
  BY DEF IInv, TypeOK
<1> QED
  BY <1>1, <1>2, <1>3, <1>4, PTL DEF Spec

-----------------------------------------------------------------------------
(* H.264: no tiles, no parameter sets held back, so every buffer taken     *)
(* from the plane is given back.                                           *)

\* Nothing keeps do_decode from queueing: no tiles, nothing refused.
Wanted(d) == d.columns = 0 /\ d.refused = FALSE /\ d.waitIfream = FALSE

AllWanted == \A c \in Chns : Wanted(dec[c])

NoPpsWait == \A c \in Chns : main # Waiting(c, "PPS")

HInv == IInv /\ AllWanted /\ NoPpsWait /\ OutputPlaneBalanced

Balanced(p, n) == ~p.aborted => InCirculation(p) = n

LEMMA BalancedEveryChannel ==
  OutputPlaneBalanced <=> \A c \in Chns : Balanced(plane[c], dec[c].qCount)
  BY DEF OutputPlaneBalanced, Balanced, InCirculation

\* A step that writes one channel.
LEMMA OneBalanced ==
  ASSUME HInv, NEW c \in Chns, NEW d, NEW p,
         Wanted(d), Balanced(p, d.qCount),
         dec' = [dec EXCEPT ![c] = d],
         plane' = [plane EXCEPT ![c] = p]
  PROVE  AllWanted' /\ OutputPlaneBalanced'
<1>1. /\ dec \in [Chns -> DecType_]
      /\ plane \in [Chns -> PlaneType]
  BY DEF HInv, IInv, ChannelTypes
<1>2. ASSUME NEW e \in Chns
      PROVE  Wanted(dec'[e]) /\ Balanced(plane'[e], dec'[e].qCount)
  <2>1. CASE e = c
    BY <1>1, <2>1
  <2>2. CASE e # c
    BY <1>1, <2>2, BalancedEveryChannel DEF HInv, AllWanted
  <2> QED
    BY <2>1, <2>2
<1> QED
  BY <1>2 DEF AllWanted, OutputPlaneBalanced, Wanted, Balanced, InCirculation

\* A queued buffer is back in circulation, unless the decoder was aborted.
LEMMA QueuedBalanced ==
  ASSUME NEW p \in PlaneType, NEW content \in Seq(AllFragments),
         NEW q \in QueueOutcomes(p, content), NEW n, Balanced(p, n)
  PROVE  Balanced(q, n + 1)
<1>1. CASE q.aborted
  BY <1>1 DEF Balanced
<1>2. CASE ~q.aborted
  <2>1. InCirculation(q) = InCirculation(p) + 1
    BY <1>2, QueueOutcomesType
  <2>2. ~p.aborted
    BY <1>2 DEF QueueOutcomes, Queued, Aborted
  <2> QED
    BY <2>1, <2>2 DEF Balanced
<1> QED
  BY <1>1, <1>2

LEMMA HInit == ASSUME Init PROVE HInv
<1>1. IInv
  BY InitInvariant
<1>2. Wanted(InitialDec) /\ InitialDec.qCount = 0
  BY DEF Wanted, InitialDec
<1>3. AllWanted
  BY <1>2 DEF Init, AllWanted
<1>4. NoPpsWait
  BY IdleNotWaiting DEF Init, NoPpsWait
<1>5. InitialPlane.queued = << >> /\ InitialPlane.done = 0
  BY DEF InitialPlane
<1>6. OutputPlaneBalanced
  BY <1>2, <1>5 DEF Init, OutputPlaneBalanced
<1> QED
  BY <1>1, <1>3, <1>4, <1>6 DEF HInv

LEMMA HRecvData ==
  ASSUME DecType = "H264", HInv, NEW c \in Chns, RecvData(c)
  PROVE  AllWanted' /\ NoPpsWait' /\ OutputPlaneBalanced'
<1> DEFINE d == [dec[c] EXCEPT !.err = FALSE, !.startRcv = TRUE]
           x == Head(rest[c])
           u == Unpacked(d, buf[c], x)
<1>1. /\ dec \in [Chns -> DecType_]
      /\ plane \in [Chns -> PlaneType]
      /\ buf[c] \in Seq(AllFragments)
      /\ Wanted(dec[c])
      /\ Balanced(plane[c], dec[c].qCount)
      /\ NoPpsWait
  BY BalancedEveryChannel DEF HInv, IInv, ChannelTypes, AllWanted
<1>2. d \in DecType_ /\ d.qCount = dec[c].qCount /\ Wanted(d)
  BY <1>1 DEF DecType_, Wanted
<1>3. x \in AllFragments
  <2>1. rest[c] \in Seq(AllFragments) /\ rest[c] # << >>
    BY DEF HInv, IInv, ChannelTypes, RecvData
  <2> QED
    BY <2>1, HeadTailProperties
<1>4. /\ main = Idle
      /\ \/ Process(c, d, x)
         \/ dec' = [dec EXCEPT ![c] = d] /\ UNCHANGED <<buf, plane, main>>
  BY DEF RecvData, Disarmed
<1> HIDE DEF d, x
<1>5. /\ u.d \in DecType_
      /\ u.b \in Seq(AllFragments)
      /\ u.d.qCount = dec[c].qCount
  BY <1>1, <1>2, <1>3, UnpackedType
<1>6. u.type # "PPS" /\ Wanted(u.d)
  <2>1. u = UnpackedH264(d, buf[c], x)
    BY DEF Unpacked
  <2>2. [d EXCEPT !.started = @ \/ IsStart(x)].columns = d.columns
        /\ [d EXCEPT !.started = @ \/ IsStart(x)].refused = d.refused
        /\ [d EXCEPT !.started = @ \/ IsStart(x)].waitIfream = d.waitIfream
    BY <1>2 DEF DecType_
  <2>3. CompletedH264(x) # "PPS"
    BY DEF CompletedH264
  <2> HIDE DEF u
  <2> QED
    BY <1>2, <2>1, <2>2, <2>3 DEF UnpackedH264, Wanted
<1>7. plane[c] = plane[c] /\ plane = [plane EXCEPT ![c] = plane[c]]
  BY <1>1
<1>8. CASE dec' = [dec EXCEPT ![c] = d] /\ UNCHANGED <<buf, plane, main>>
  <2>1. Balanced(plane[c], d.qCount)
    BY <1>1, <1>2
  <2>2. AllWanted' /\ OutputPlaneBalanced'
    BY <1>2, <1>7, <1>8, <2>1, OneBalanced
  <2> QED
    BY <1>1, <1>8, <2>2 DEF NoPpsWait
<1> HIDE DEF u
<1>9. CASE dec' = [dec EXCEPT ![c] = u.d] /\ UNCHANGED plane
           /\ (main' = main \/ main' = Waiting(c, u.type))
  <2>1. Balanced(plane[c], u.d.qCount)
    BY <1>1, <1>5
  <2>2. AllWanted' /\ OutputPlaneBalanced'
    BY <1>6, <1>7, <1>9, <2>1, OneBalanced
  <2>3. NoPpsWait'
    BY <1>1, <1>6, <1>9, WaitingInjective DEF NoPpsWait
  <2> QED
    BY <2>2, <2>3
<1>10. CASE PrimePlane(c, u.d, u.b)
  <2> DEFINE e == [u.d EXCEPT !.qCount = u.d.qCount + 1]
  <2>1. e.qCount = dec[c].qCount + 1 /\ Wanted(e)
    BY <1>5, <1>6 DEF DecType_, Wanted
  <2>2. PICK q \in QueueOutcomes(plane[c], u.b) : plane' = [plane EXCEPT ![c] = q]
    BY <1>10 DEF PrimePlane
  <2>3. dec' = [dec EXCEPT ![c] = e] /\ main' = main
    BY <1>10 DEF PrimePlane
  <2>4. plane[c] \in PlaneType
    BY <1>1
  <2>5. Balanced(q, dec[c].qCount + 1)
    BY <1>1, <1>5, <2>2, <2>4, QueuedBalanced
  <2> HIDE DEF e
  <2>6. AllWanted' /\ OutputPlaneBalanced'
    BY <2>1, <2>2, <2>3, <2>5, OneBalanced
  <2> QED
    BY <1>1, <2>3, <2>6 DEF NoPpsWait
<1> QED
  BY <1>4, <1>8, <1>9, <1>10 DEF Process, AwaitBuffer, u

\* do_decode takes the frame out of the buffer and queues it.
LEMMA HFlushes ==
  ASSUME HInv, DqSucceeds
  PROVE  \E c \in Chns, type \in {"I", "P", "PKG"}, e \in DecType_ :
           /\ main = Waiting(c, type) /\ main' = Idle
           /\ plane[c].done > 0 /\ ~plane[c].aborted
           /\ Wanted(e) /\ e.qCount = dec[c].qCount
           /\ Flush(c, [plane[c] EXCEPT !.done = plane[c].done - 1], e, TRUE)
           /\ UNCHANGED <<wnd, armed, wild, cameras, shown>>
<1>1. PICK c \in Chns, type \in {"I", "P", "PKG", "PPS"} : main = Waiting(c, type)
  BY IdleNotWaiting DEF HInv, IInv, ChannelTypes, DqSucceeds
<1> DEFINE d == dec[c]
           p == [plane[c] EXCEPT !.done = plane[c].done - 1]
<1>2. main.chn = c /\ main.type = type /\ type # "PPS"
  BY <1>1 DEF Waiting, HInv, NoPpsWait
<1>3. /\ plane[c].done > 0
      /\ ~plane[c].aborted
      /\ DecodeP(c, p, d) \/ DecodeI(c, p, d) \/ DecodePkg(c, p, d)
      /\ main' = Idle
      /\ UNCHANGED <<wnd, armed, wild, cameras, shown>>
  BY <1>1, <1>2 DEF DqSucceeds
<1>4. d \in DecType_ /\ Wanted(d)
  BY DEF HInv, IInv, ChannelTypes, AllWanted
<1>5. AllSlices(d, d.sliceP) /\ AllSlices(d, d.sliceI)
  BY <1>4 DEF AllSlices, Wanted
<1>6. (~d.refused) = TRUE /\ (~d.refused /\ ~d.waitIfream) = TRUE
  BY <1>4 DEF Wanted
<1> HIDE DEF p
<1>7. ASSUME NEW e \in DecType_, Wanted(e), e.qCount = d.qCount, Flush(c, p, e, TRUE)
      PROVE  \E f \in DecType_ : Wanted(f) /\ f.qCount = d.qCount /\ Flush(c, p, f, TRUE)
  BY <1>7
<1>8. \E e \in DecType_ : Wanted(e) /\ e.qCount = d.qCount /\ Flush(c, p, e, TRUE)
  <2>1. CASE DecodeP(c, p, d)
    <3> DEFINE e == [d EXCEPT !.waitIfream = @ \/ d.refused, !.sliceP = 0]
    <3>1. e \in DecType_ /\ e.qCount = d.qCount /\ Wanted(e)
      BY <1>4 DEF DecType_, Wanted
    <3> HIDE DEF e
    <3>2. Flush(c, p, e, TRUE)
      BY <1>5, <1>6, <2>1 DEF DecodeP, e
    <3> QED
      BY <1>7, <3>1, <3>2
  <2>2. CASE DecodeI(c, p, d)
    <3> DEFINE e == [d EXCEPT !.waitIfream = d.refused]
    <3>1. e \in DecType_ /\ e.qCount = d.qCount /\ Wanted(e)
      BY <1>4 DEF DecType_, Wanted
    <3> HIDE DEF e
    <3>2. Flush(c, p, e, TRUE)
      BY <1>5, <1>6, <2>2 DEF DecodeI, e
    <3> QED
      BY <1>7, <3>1, <3>2
  <2>3. CASE DecodePkg(c, p, d)
    BY <1>4, <1>6, <1>7, <2>3 DEF DecodePkg
  <2> QED
    BY <1>3, <2>1, <2>2, <2>3
<1>9. type \in {"I", "P", "PKG"}
  BY <1>2
<1> QED
  BY <1>1, <1>3, <1>8, <1>9, Zenon DEF p

LEMMA HDqSucceeds ==
  ASSUME HInv, DqSucceeds
  PROVE  AllWanted' /\ NoPpsWait' /\ OutputPlaneBalanced'
<1>1. PICK c \in Chns, type \in {"I", "P", "PKG"}, e \in DecType_ :
        /\ main = Waiting(c, type) /\ main' = Idle
        /\ plane[c].done > 0 /\ ~plane[c].aborted
        /\ Wanted(e) /\ e.qCount = dec[c].qCount
        /\ Flush(c, [plane[c] EXCEPT !.done = plane[c].done - 1], e, TRUE)
  BY HFlushes
<1> DEFINE p == [plane[c] EXCEPT !.done = plane[c].done - 1]
           f == [e EXCEPT !.started = FALSE]
<1>2. /\ plane[c] \in PlaneType
      /\ InCirculation(plane[c]) = dec[c].qCount
      /\ buf[c] \in Seq(AllFragments)
  BY <1>1, BalancedEveryChannel DEF HInv, IInv, ChannelTypes, Balanced
<1>3. p \in PlaneType /\ InCirculation(p) + 1 = dec[c].qCount
  BY <1>1, <1>2, DequeuedType
<1> HIDE DEF p
<1>4. f.qCount = dec[c].qCount /\ Wanted(f)
  BY <1>1 DEF DecType_, Wanted
<1>5. dec' = [dec EXCEPT ![c] = f]
  BY <1>1 DEF Flush
<1>6. PICK q \in QueueOutcomes(p, buf[c]) : plane' = [plane EXCEPT ![c] = q]
  BY <1>1 DEF Flush, p
<1>7. Balanced(q, f.qCount)
  <2>1. Balanced(p, InCirculation(p))
    BY DEF Balanced
  <2>2. Balanced(q, InCirculation(p) + 1)
    BY <1>2, <1>3, <1>6, <2>1, QueuedBalanced
  <2> QED
    BY <1>3, <1>4, <2>2
<1> HIDE DEF f
<1>8. AllWanted' /\ OutputPlaneBalanced'
  BY <1>4, <1>5, <1>6, <1>7, OneBalanced
<1>9. NoPpsWait'
  BY <1>1, IdleNotWaiting DEF NoPpsWait
<1> QED
  BY <1>8, <1>9

\* Resetting channels keeps them wanted and their counts as they are.
LEMMA HReset ==
  ASSUME HInv, UNCHANGED <<plane, main>>,
         \A c \in Chns : dec'[c] = dec[c] \/ \E err \in BOOLEAN : dec'[c] = ResetDec(dec[c], err)
  PROVE  AllWanted' /\ NoPpsWait' /\ OutputPlaneBalanced'
<1>1. dec \in [Chns -> DecType_] /\ AllWanted /\ NoPpsWait /\ OutputPlaneBalanced
  BY DEF HInv, IInv, ChannelTypes
<1>2. ASSUME NEW d \in DecType_, Wanted(d), NEW err
      PROVE  Wanted(ResetDec(d, err)) /\ ResetDec(d, err).qCount = d.qCount
  BY <1>2 DEF DecType_, Wanted, ResetDec
<1>3. ASSUME NEW c \in Chns
      PROVE  Wanted(dec'[c]) /\ dec'[c].qCount = dec[c].qCount
  BY <1>1, <1>2 DEF AllWanted
<1>4. AllWanted'
  BY <1>3 DEF AllWanted, Wanted
<1> QED
  BY <1>1, <1>3, <1>4 DEF NoPpsWait, OutputPlaneBalanced

LEMMA HStatus ==
  ASSUME HInv, NEW id \in PeerChns,
         \/ \E update \in BOOLEAN, subwin \in Subwins : RecvSubwin(id, update, subwin)
         \/ RecvChnErr(id)
         \/ RecvStray(id)
  PROVE  AllWanted' /\ NoPpsWait' /\ OutputPlaneBalanced'
<1>1. dec \in [Chns -> DecType_]
  BY DEF HInv, IInv, ChannelTypes
<1>2. CASE UNCHANGED dec
  <2>1. UNCHANGED <<plane, main>>
    BY DEF RecvSubwin, Refresh, Cut, RecvChnErr, RecvStray, IndexOutOfRange, chnVars
  <2> QED
    BY <1>2, <2>1, HReset
<1>3. CASE ~(UNCHANGED dec)
  <2>1. UNCHANGED <<plane, main>>
    BY DEF RecvSubwin, Refresh, Cut, RecvChnErr, RecvStray, IndexOutOfRange, chnVars
  <2>2. \/ dec' = [c \in Chns |-> IF WasShown(c) THEN ResetDec(dec[c], FALSE) ELSE dec[c]]
        \/ dec' = [dec EXCEPT ![id] = ResetDec(dec[id], FALSE)]
        \/ dec' = [dec EXCEPT ![id] = ResetDec(dec[id], TRUE)]
    BY <1>3 DEF RecvSubwin, Refresh, Cut, RecvChnErr, RecvStray, IndexOutOfRange, chnVars
  <2>3. \A c \in Chns : dec'[c] = dec[c] \/ \E err \in BOOLEAN : dec'[c] = ResetDec(dec[c], err)
    BY <1>1, <2>2
  <2> QED
    BY <2>1, <2>3, HReset
<1> QED
  BY <1>2, <1>3

LEMMA HEnvironment ==
  ASSUME HInv, NEW c \in Chns,
         SendFrame(c) \/ Lose(c) \/ TimerFires(c) \/ DeviceTakes(c) \/ CaptureAborts(c)
  PROVE  AllWanted' /\ NoPpsWait' /\ OutputPlaneBalanced'
<1>1. UNCHANGED <<dec, main>>
  BY DEF SendFrame, Lose, TimerFires, DeviceTakes, CaptureAborts
<1>2. /\ dec \in [Chns -> DecType_]
      /\ plane[c] \in PlaneType
      /\ InCirculation(plane[c]) <= dec[c].qCount
      /\ Wanted(dec[c])
      /\ Balanced(plane[c], dec[c].qCount)
      /\ NoPpsWait
  BY BalancedEveryChannel DEF HInv, IInv, ChannelTypes, AllWanted, NoExtraBuffers
<1>3. NoPpsWait'
  BY <1>1, <1>2 DEF NoPpsWait
<1>4. dec' = [dec EXCEPT ![c] = dec[c]]
  BY <1>1, <1>2
<1>5. CASE UNCHANGED plane
  BY <1>1, <1>3, <1>5, HReset
<1>6. CASE DeviceTakes(c)
  <2> DEFINE p == plane[c]
             q == [p EXCEPT !.queued = Tail(p.queued), !.done = p.done + 1]
  <2>1. p.queued # << >> /\ plane' = [plane EXCEPT ![c] = q]
    BY <1>6 DEF DeviceTakes
  <2>2. InCirculation(p) <= NumBuffers
    <3>1. dec[c].qCount \in 0 .. NumBuffers
      BY <1>2 DEF DecType_
    <3>2. InCirculation(p) \in Nat
      BY <1>2, SizesAssumption DEF InCirculation, PlaneType
    <3> QED
      BY <1>2, <3>1, <3>2, SizesAssumption
  <2>3. InCirculation(q) = InCirculation(p) /\ q.aborted = p.aborted
    BY <1>2, <2>1, <2>2, TakenType
  <2> HIDE DEF q
  <2>4. Balanced(q, dec[c].qCount)
    BY <1>2, <2>3 DEF Balanced
  <2> QED
    BY <1>2, <1>3, <1>4, <2>1, <2>4, OneBalanced
<1>7. CASE CaptureAborts(c)
  <2>1. plane' = [plane EXCEPT ![c] = Aborted(plane[c])]
    BY <1>7 DEF CaptureAborts
  <2>2. Balanced(Aborted(plane[c]), dec[c].qCount)
    BY AbortedType DEF Balanced
  <2> QED
    BY <1>2, <1>3, <1>4, <2>1, <2>2, OneBalanced
<1> QED
  BY <1>5, <1>6, <1>7 DEF SendFrame, Lose, TimerFires

LEMMA HStep ==
  ASSUME DecType = "H264", HInv, [ChnNext]_chnVars
  PROVE  HInv'
<1>1. IInv'
  BY StepInvariant DEF HInv
<1>2. AllWanted' /\ NoPpsWait' /\ OutputPlaneBalanced'
  <2>1. CASE Receive
    BY <2>1, HRecvData, HStatus DEF Receive
  <2>2. CASE DqFails
    <3>1. UNCHANGED <<dec, plane>> /\ main' = Idle
      BY <2>2 DEF DqFails
    <3> QED
      BY <3>1, IdleNotWaiting DEF HInv, AllWanted, NoPpsWait, OutputPlaneBalanced
  <2>3. CASE DqSucceeds
    BY <2>3, HDqSucceeds
  <2>4. CASE Environment
    BY <2>4, HEnvironment DEF Environment
  <2>5. CASE UNCHANGED chnVars
    BY <2>5 DEF chnVars, HInv, AllWanted, NoPpsWait, OutputPlaneBalanced
  <2> QED
    BY <2>1, <2>2, <2>3, <2>4, <2>5 DEF ChnNext, Decode
<1> QED
  BY <1>1, <1>2 DEF HInv

\* A wait starts when all buffers circulate, so one of them can come back.
LEMMA BalancedWaitEnds == ASSUME HInv PROVE WaitCanEnd
<1> SUFFICES ASSUME main.at = "dqBuffer", ~plane[main.chn].aborted
             PROVE  plane[main.chn].done > 0 \/ plane[main.chn].queued # << >>
  BY DEF WaitCanEnd
<1>1. PICK c \in Chns, type \in {"I", "P", "PKG", "PPS"} : main = Waiting(c, type)
  BY IdleNotWaiting DEF HInv, IInv, ChannelTypes
<1>2. main.chn = c
  BY <1>1 DEF Waiting
<1>3. dec[c].qCount = NumBuffers
  BY <1>1 DEF HInv, IInv, WaitsPrimed
<1>4. Len(plane[c].queued) + plane[c].done = NumBuffers
  BY <1>2, <1>3 DEF HInv, OutputPlaneBalanced
<1>5. plane[c].done \in Nat
  BY SizesAssumption DEF HInv, IInv, ChannelTypes, PlaneType
<1>6. CASE plane[c].queued = << >>
  <2>1. Len(plane[c].queued) = 0
    BY <1>6
  <2> QED
    BY <1>2, <1>4, <1>5, <2>1, SizesAssumption
<1> QED
  BY <1>2, <1>6

(* With H.264 the program never holds back a buffer of the output plane,   *)
(* for any number of channels and buffers, whatever packets, resets,       *)
(* losses and device errors occur (stream.c:45-211).                       *)
THEOREM H264Balanced ==
  ASSUME DecType = "H264"
  PROVE  Spec => []OutputPlaneBalanced
<1>1. Init => HInv
  BY HInit
<1>2. HInv /\ [Next]_vars => HInv'
  BY ChnStep, HStep
<1>3. HInv => OutputPlaneBalanced
  BY DEF HInv
<1> QED
  BY <1>1, <1>2, <1>3, PTL DEF Spec

(* With H.264 the thread never waits in dqBuffer (stream.c:59) for a       *)
(* buffer that cannot come back: one is done or still with the device, or  *)
(* the plane was aborted and the call fails.                               *)
THEOREM H264WaitCanEnd ==
  ASSUME DecType = "H264"
  PROVE  Spec => []WaitCanEnd
<1>1. Init => HInv
  BY HInit
<1>2. HInv /\ [Next]_vars => HInv'
  BY ChnStep, HStep
<1>3. HInv => WaitCanEnd
  BY BalancedWaitEnds
<1> QED
  BY <1>1, <1>2, <1>3, PTL DEF Spec
-----------------------------------------------------------------------------
(* A channel without video, for both codecs.                               *)

LEMMA UnpackedErr ==
  ASSUME NEW d \in DecType_, NEW b, NEW x
  PROVE  Unpacked(d, b, x).d.err = d.err
<1>1. Counted(d, x).err = d.err /\ "err" \in DOMAIN Counted(d, x)
  <2> DEFINE parsed == IF x.of.kind = "Pps" THEN [d EXCEPT !.columns = x.of.tiles] ELSE d
  <2>1. parsed.err = d.err /\ DOMAIN parsed = DOMAIN d /\ parsed = [f \in DOMAIN d |-> parsed[f]]
    BY DEF DecType_
  <2> QED
    BY <2>1 DEF Counted, DecType_
<1> QED
  BY <1>1 DEF Unpacked, UnpackedH264, UnpackedH265, DecType_

VInv == IInv /\ NoVideoMeansReset

LEMMA VRecvData ==
  ASSUME VInv, NEW c \in Chns, RecvData(c)
  PROVE  NoVideoMeansReset'
<1> DEFINE d == [dec[c] EXCEPT !.err = FALSE, !.startRcv = TRUE]
           u == Unpacked(d, buf[c], Head(rest[c]))
<1>1. dec \in [Chns -> DecType_] /\ buf \in [Chns -> Seq(AllFragments)] /\ main = Idle
  BY DEF VInv, IInv, ChannelTypes, RecvData
<1>2. d \in DecType_ /\ d.err = FALSE
  BY <1>1 DEF DecType_
<1>3. rest[c] \in Seq(AllFragments) /\ rest[c] # << >>
  BY DEF VInv, IInv, ChannelTypes, RecvData
<1>4. Head(rest[c]) \in AllFragments
  BY <1>3, HeadTailProperties
<1>5. u.d \in DecType_ /\ u.d.err = FALSE
  <2> HIDE DEF d
  <2>1. buf[c] \in Seq(AllFragments)
    BY <1>1
  <2> QED
    BY <1>2, <1>4, <2>1, UnpackedType, UnpackedErr DEF u
<1>6. \E e, b : /\ e.err = FALSE
                /\ dec' = [dec EXCEPT ![c] = e]
                /\ buf' = buf \/ buf' = [buf EXCEPT ![c] = b]
                /\ main' = main \/ \E type : main' = Waiting(c, type)
  <2>1. CASE c < wnd /\ Process(c, d, Head(rest[c]))
    <3> HIDE DEF d
    <3>1. [u.d EXCEPT !.qCount = u.d.qCount + 1].err = FALSE
      BY <1>5 DEF DecType_
    <3> HIDE DEF u
    <3>2. CASE dec' = [dec EXCEPT ![c] = u.d] /\ buf' = [buf EXCEPT ![c] = u.b] /\ main' = main
      BY <1>5, <3>2
    <3>3. CASE PrimePlane(c, u.d, u.b)
      BY <3>1, <3>3 DEF PrimePlane
    <3>4. CASE AwaitBuffer(c, u.d, u.b, u.type)
      BY <1>5, <3>4 DEF AwaitBuffer
    <3> QED
      BY <2>1, <3>2, <3>3, <3>4 DEF Process, u
  <2>2. CASE dec' = [dec EXCEPT ![c] = d] /\ UNCHANGED <<buf, main>>
    BY <1>2, <2>2
  <2> QED
    BY <2>1, <2>2 DEF RecvData
<1>7. PICK e, b : /\ e.err = FALSE
                  /\ dec' = [dec EXCEPT ![c] = e]
                  /\ buf' = buf \/ buf' = [buf EXCEPT ![c] = b]
                  /\ main' = main \/ \E type : main' = Waiting(c, type)
  BY <1>6
<1>8. dec'[c].err = FALSE
  BY <1>1, <1>7
<1>9. ASSUME NEW a \in Chns, dec'[a].err
      PROVE  /\ buf'[a] = << >> /\ ~dec'[a].started /\ ~dec'[a].startRcv
             /\ ~(main'.at = "dqBuffer" /\ main'.chn = a)
  <2>1. a # c
    BY <1>8, <1>9
  <2>2. dec'[a] = dec[a] /\ buf'[a] = buf[a]
    BY <1>1, <1>7, <2>1
  <2>3. ~(main'.at = "dqBuffer" /\ main'.chn = a)
    BY <1>1, <1>7, <2>1, IdleNotWaiting DEF Waiting
  <2> QED
    BY <1>9, <2>2, <2>3 DEF VInv, NoVideoMeansReset
<1> QED
  BY <1>9 DEF NoVideoMeansReset

LEMMA VDqSucceeds ==
  ASSUME VInv, DqSucceeds
  PROVE  NoVideoMeansReset'
<1>1. PICK c \in Chns, type \in {"I", "P", "PKG", "PPS"} : main = Waiting(c, type)
  BY IdleNotWaiting DEF VInv, IInv, ChannelTypes, DqSucceeds
<1>2. main.at = "dqBuffer" /\ main.chn = c
  BY <1>1 DEF Waiting
<1>3. dec \in [Chns -> DecType_] /\ buf \in [Chns -> Seq(AllFragments)]
  BY DEF VInv, IInv, ChannelTypes
<1>4. dec[c] \in DecType_ /\ dec[c].err = FALSE
  BY <1>2, <1>3 DEF VInv, NoVideoMeansReset, DecType_
<1>5. main' = Idle
  BY DEF DqSucceeds
<1>6. \/ UNCHANGED <<dec, buf>>
      \/ \E e, b : /\ e.err = FALSE
                   /\ dec' = [dec EXCEPT ![c] = e]
                   /\ buf' = [buf EXCEPT ![c] = b]
  <2> DEFINE d == dec[c]
             p == [plane[c] EXCEPT !.done = @ - 1]
  <2>1. \/ DecodePps(c, p, d) \/ DecodeP(c, p, d) \/ DecodeI(c, p, d) \/ DecodePkg(c, p, d)
    BY <1>2 DEF DqSucceeds
  <2>2. ASSUME NEW q, NEW e, NEW wanted, e.err = FALSE, DOMAIN e = DOMAIN dec[c],
               Flush(c, q, e, wanted)
        PROVE  \E f, b : f.err = FALSE /\ dec' = [dec EXCEPT ![c] = f] /\ buf' = [buf EXCEPT ![c] = b]
    <3>1. [e EXCEPT !.started = FALSE].err = FALSE
      BY <1>4, <2>2 DEF DecType_
    <3> QED
      BY <2>2, <3>1 DEF Flush
  <2> HIDE DEF p
  <2>3. CASE DecodePps(c, p, d)
    <3>1. [d EXCEPT !.enPps = TRUE].err = FALSE /\ DOMAIN [d EXCEPT !.enPps = TRUE] = DOMAIN d
      BY <1>4 DEF DecType_
    <3> HIDE DEF d
    <3> QED
      BY <2>2, <2>3, <3>1 DEF DecodePps, Keep, d
  <2>4. CASE DecodeP(c, p, d)
    <3> DEFINE e == [d EXCEPT !.waitIfream = d.waitIfream \/ d.refused, !.sliceP = 0]
    <3>1. e.err = FALSE /\ DOMAIN e = DOMAIN d
      BY <1>4 DEF DecType_
    <3>2. DecodeP(c, p, d) <=>
            IF ~AllSlices(d, d.sliceP) THEN Keep(c, p)
            ELSE Flush(c, p, e, ~d.refused /\ ~d.waitIfream)
      BY DEF DecodeP
    <3> HIDE DEF e
    <3> QED
      BY <2>2, <2>4, <3>1, <3>2 DEF Keep
  <2>5. CASE DecodeI(c, p, d)
    <3> DEFINE e == [d EXCEPT !.waitIfream = d.refused]
    <3>1. e.err = FALSE /\ DOMAIN e = DOMAIN d
      BY <1>4 DEF DecType_
    <3>2. DecodeI(c, p, d) <=>
            IF ~AllSlices(d, d.sliceI) THEN Keep(c, p) ELSE Flush(c, p, e, ~d.refused)
      BY DEF DecodeI
    <3> HIDE DEF e
    <3> QED
      BY <2>2, <2>5, <3>1, <3>2 DEF Keep
  <2>6. CASE DecodePkg(c, p, d)
    BY <1>4, <2>2, <2>6 DEF DecodePkg
  <2> QED
    BY <2>1, <2>3, <2>4, <2>5, <2>6
<1> QED
  <2>1. CASE UNCHANGED <<dec, buf>>
    BY <1>5, <2>1, IdleNotWaiting DEF VInv, NoVideoMeansReset
  <2>2. ASSUME NEW e, NEW b, e.err = FALSE,
               dec' = [dec EXCEPT ![c] = e], buf' = [buf EXCEPT ![c] = b]
        PROVE  NoVideoMeansReset'
    BY <1>3, <1>5, <2>2, IdleNotWaiting DEF VInv, NoVideoMeansReset
  <2> QED
    BY <1>6, <2>1, <2>2

LEMMA ResetIsQuiet ==
  ASSUME NEW d \in DecType_, NEW err \in BOOLEAN
  PROVE  ResetDec(d, err).started = FALSE /\ ResetDec(d, err).startRcv = FALSE
BY DEF ResetDec, DecType_

\* A status packet comes when the thread is idle, and resets what it marks.
LEMMA VStatus ==
  ASSUME VInv,
         \/ \E id \in PeerChns, update \in BOOLEAN, subwin \in Subwins :
              RecvSubwin(id, update, subwin)
         \/ \E id \in PeerChns : RecvChnErr(id) \/ RecvStray(id)
  PROVE  NoVideoMeansReset'
<1>1. dec \in [Chns -> DecType_] /\ buf \in [Chns -> Seq(AllFragments)]
  BY DEF VInv, IInv, ChannelTypes
<1>2. ASSUME main' = main, main = Idle,
             \A a \in Chns :
               \/ dec'[a] = dec[a] /\ buf'[a] = buf[a]
               \/ buf'[a] = << >> /\ \E err \in BOOLEAN : dec'[a] = ResetDec(dec[a], err)
      PROVE  NoVideoMeansReset'
  <2>1. ASSUME NEW a \in Chns, dec'[a].err
        PROVE  buf'[a] = << >> /\ ~dec'[a].started /\ ~dec'[a].startRcv
    <3>1. CASE dec'[a] = dec[a] /\ buf'[a] = buf[a]
      BY <2>1, <3>1 DEF VInv, NoVideoMeansReset
    <3>2. CASE buf'[a] = << >> /\ \E err \in BOOLEAN : dec'[a] = ResetDec(dec[a], err)
      BY <1>1, <3>2, ResetIsQuiet
    <3> QED
      BY <1>2, <3>1, <3>2
  <2>2. main'.at # "dqBuffer"
    BY <1>2, IdleNotWaiting
  <2> QED
    BY <2>1, <2>2 DEF NoVideoMeansReset
<1>3. ASSUME NEW id \in PeerChns, NEW update \in BOOLEAN, NEW subwin \in Subwins,
             RecvSubwin(id, update, subwin)
      PROVE  NoVideoMeansReset'
  <2>1. CASE UNCHANGED chnVars \/ IndexOutOfRange
    BY <2>1 DEF VInv, NoVideoMeansReset, chnVars, IndexOutOfRange
  <2>2. CASE id \in Chns /\ dec' = [dec EXCEPT ![id] = ResetDec(dec[id], FALSE)]
             /\ buf' = [buf EXCEPT ![id] = << >>] /\ main' = main
    BY <1>1, <1>2, <1>3, <2>2 DEF RecvSubwin
  <2>3. CASE Cut(subwin) /\ ~(wnd > NumChns)
    <3>1. /\ dec' = [a \in Chns |-> IF WasShown(a) THEN ResetDec(dec[a], FALSE) ELSE dec[a]]
          /\ buf' = [a \in Chns |-> IF WasShown(a) THEN << >> ELSE buf[a]]
          /\ main' = main
      BY <2>3, Zenon DEF Cut
    <3>2. main = Idle
      BY <1>3 DEF RecvSubwin
    <3> QED
      BY <1>2, <3>1, <3>2
  <2>4. CASE Cut(subwin) /\ wnd > NumChns
    BY <2>1, <2>4, Zenon DEF Cut
  <2> QED
    BY <1>3, <2>1, <2>2, <2>3, <2>4 DEF RecvSubwin, Refresh
<1>4. ASSUME NEW id \in PeerChns, RecvChnErr(id) \/ RecvStray(id)
      PROVE  NoVideoMeansReset'
  <2>1. CASE IndexOutOfRange
    BY <2>1 DEF VInv, NoVideoMeansReset, IndexOutOfRange
  <2>2. CASE id \in Chns /\ dec' = [dec EXCEPT ![id] = ResetDec(dec[id], TRUE)]
             /\ buf' = [buf EXCEPT ![id] = << >>] /\ main' = main
    BY <1>1, <1>2, <1>4, <2>2 DEF RecvChnErr, RecvStray
  <2> QED
    BY <1>4, <2>1, <2>2 DEF RecvChnErr, RecvStray
<1> QED
  BY <1>3, <1>4

LEMMA VStep == ASSUME VInv, [ChnNext]_chnVars PROVE VInv'
<1>1. IInv'
  BY StepInvariant DEF VInv
<1>2. NoVideoMeansReset'
  <2>1. CASE Receive
    BY <2>1, VRecvData, VStatus DEF Receive
  <2>2. CASE DqFails
    BY <2>2, IdleNotWaiting DEF DqFails, VInv, NoVideoMeansReset
  <2>3. CASE DqSucceeds
    BY <2>3, VDqSucceeds
  <2>4. CASE UNCHANGED <<dec, buf, main>>
    BY <2>4 DEF VInv, NoVideoMeansReset
  <2>5. CASE Environment
    BY <2>4, <2>5 DEF Environment, SendFrame, Lose, TimerFires, DeviceTakes, CaptureAborts
  <2>6. CASE UNCHANGED chnVars
    BY <2>4, <2>6 DEF chnVars
  <2> QED
    BY <2>1, <2>2, <2>3, <2>5, <2>6 DEF ChnNext, Decode
<1> QED
  BY <1>1, <1>2 DEF VInv

(* A channel that shows no video (err, decoder.h:55) holds nothing of a    *)
(* frame, assembles none and is not being decoded, for both codecs, any    *)
(* number of channels, packets, resets, losses and device errors.          *)
THEOREM NoVideoIsReset == Spec => []NoVideoMeansReset
<1>1. Init => VInv
  <2>1. ASSUME Init PROVE NoVideoMeansReset
    BY <2>1, IdleNotWaiting DEF Init, NoVideoMeansReset, InitialDec
  <2> QED
    BY <2>1, InitInvariant DEF VInv
<1>2. VInv /\ [Next]_vars => VInv'
  BY ChnStep, VStep
<1>3. VInv => NoVideoMeansReset
  BY DEF VInv
<1> QED
  BY <1>1, <1>2, <1>3, PTL DEF Spec
-----------------------------------------------------------------------------
(* A channel that no window shows, for both codecs.                        *)

LEMMA CRecvData ==
  ASSUME IInv, HiddenIsClean, NEW c \in Chns, RecvData(c)
  PROVE  HiddenIsClean'
<1> DEFINE d == [dec[c] EXCEPT !.err = FALSE, !.startRcv = TRUE]
<1>1. dec \in [Chns -> DecType_] /\ buf \in [Chns -> Seq(AllFragments)] /\ wnd' = wnd /\ wnd \in Nat
  BY DEF IInv, ChannelTypes, RecvData
<1>2. CASE c < wnd /\ Process(c, d, Head(rest[c]))
  <2>1. \E e, b : dec' = [dec EXCEPT ![c] = e] /\ buf' = [buf EXCEPT ![c] = b]
    <3> HIDE DEF d
    <3> QED
      BY <1>2 DEF Process, PrimePlane, AwaitBuffer
  <2> QED
    BY <1>1, <1>2, <2>1 DEF HiddenIsClean, Chns
<1>3. CASE dec' = [dec EXCEPT ![c] = d] /\ buf' = buf
  <2>1. d.started = dec[c].started
    BY <1>1 DEF DecType_
  <2> HIDE DEF d
  <2> QED
    BY <1>1, <1>3, <2>1 DEF HiddenIsClean
<1> QED
  BY <1>2, <1>3 DEF RecvData

LEMMA CDqSucceeds ==
  ASSUME IInv, HiddenIsClean, DqSucceeds
  PROVE  HiddenIsClean'
<1>1. PICK c \in Chns, type \in {"I", "P", "PKG", "PPS"} : main = Waiting(c, type)
  BY IdleNotWaiting DEF IInv, ChannelTypes, DqSucceeds
<1>2. main.chn = c /\ wnd' = wnd
  BY <1>1 DEF Waiting, DqSucceeds
<1>3. dec \in [Chns -> DecType_] /\ buf \in [Chns -> Seq(AllFragments)]
  BY DEF IInv, ChannelTypes
<1>4. \/ UNCHANGED <<dec, buf>>
      \/ \E e : /\ dec' = [dec EXCEPT ![c] = [e EXCEPT !.started = FALSE]]
                /\ "started" \in DOMAIN e
                /\ buf' = [buf EXCEPT ![c] = << >>]
  <2> DEFINE d == dec[c]
             p == [plane[c] EXCEPT !.done = @ - 1]
  <2>1. \/ DecodePps(c, p, d) \/ DecodeP(c, p, d) \/ DecodeI(c, p, d) \/ DecodePkg(c, p, d)
    BY <1>2 DEF DqSucceeds
  <2>2. "started" \in DOMAIN d
    BY <1>3 DEF DecType_
  <2> HIDE DEF p, d
  <2>3. ASSUME NEW e, NEW wanted, "started" \in DOMAIN e, Flush(c, p, e, wanted)
        PROVE  \E f : /\ dec' = [dec EXCEPT ![c] = [f EXCEPT !.started = FALSE]]
                      /\ "started" \in DOMAIN f
                      /\ buf' = [buf EXCEPT ![c] = << >>]
    BY <2>3 DEF Flush
  <2>4. CASE DecodePps(c, p, d)
    <3>1. "started" \in DOMAIN [d EXCEPT !.enPps = TRUE]
      BY <2>2
    <3> QED
      BY <2>3, <2>4, <3>1 DEF DecodePps, Keep
  <2>5. CASE DecodeP(c, p, d)
    <3> DEFINE e == [d EXCEPT !.waitIfream = d.waitIfream \/ d.refused, !.sliceP = 0]
    <3>1. "started" \in DOMAIN e
      BY <2>2
    <3>2. DecodeP(c, p, d) <=>
            IF ~AllSlices(d, d.sliceP) THEN Keep(c, p)
            ELSE Flush(c, p, e, ~d.refused /\ ~d.waitIfream)
      BY DEF DecodeP
    <3> HIDE DEF e
    <3> QED
      BY <2>3, <2>5, <3>1, <3>2 DEF Keep
  <2>6. CASE DecodeI(c, p, d)
    <3> DEFINE e == [d EXCEPT !.waitIfream = d.refused]
    <3>1. "started" \in DOMAIN e
      BY <2>2
    <3>2. DecodeI(c, p, d) <=>
            IF ~AllSlices(d, d.sliceI) THEN Keep(c, p) ELSE Flush(c, p, e, ~d.refused)
      BY DEF DecodeI
    <3> HIDE DEF e
    <3> QED
      BY <2>3, <2>6, <3>1, <3>2 DEF Keep
  <2>7. CASE DecodePkg(c, p, d)
    BY <2>2, <2>3, <2>7 DEF DecodePkg
  <2> QED
    BY <2>1, <2>4, <2>5, <2>6, <2>7
<1> QED
  <2>1. CASE UNCHANGED <<dec, buf>>
    BY <1>2, <2>1 DEF HiddenIsClean
  <2>2. ASSUME NEW e, "started" \in DOMAIN e,
               dec' = [dec EXCEPT ![c] = [e EXCEPT !.started = FALSE]],
               buf' = [buf EXCEPT ![c] = << >>]
        PROVE  HiddenIsClean'
    <3>1. [e EXCEPT !.started = FALSE].started = FALSE
      BY <2>2
    <3> QED
      BY <1>2, <1>3, <2>2, <3>1 DEF HiddenIsClean
  <2> QED
    BY <1>4, <2>1, <2>2

LEMMA CStatus ==
  ASSUME IInv, HiddenIsClean,
         \/ \E id \in PeerChns, update \in BOOLEAN, subwin \in Subwins :
              RecvSubwin(id, update, subwin)
         \/ \E id \in PeerChns : RecvChnErr(id) \/ RecvStray(id)
  PROVE  HiddenIsClean'
<1>1. dec \in [Chns -> DecType_] /\ buf \in [Chns -> Seq(AllFragments)] /\ wnd \in Nat
  BY DEF IInv, ChannelTypes
<1>2. CASE UNCHANGED <<dec, buf, wnd>>
  BY <1>2 DEF HiddenIsClean
<1>3. ASSUME NEW id \in Chns, NEW err \in BOOLEAN, wnd' = wnd,
             dec' = [dec EXCEPT ![id] = ResetDec(dec[id], err)],
             buf' = [buf EXCEPT ![id] = << >>]
      PROVE  HiddenIsClean'
  BY <1>1, <1>3, ResetIsQuiet DEF HiddenIsClean
<1>4. ASSUME NEW subwin, Cut(subwin), ~(wnd > NumChns)
      PROVE  HiddenIsClean'
  <2>1. /\ dec' = [a \in Chns |-> IF WasShown(a) THEN ResetDec(dec[a], FALSE) ELSE dec[a]]
        /\ buf' = [a \in Chns |-> IF WasShown(a) THEN << >> ELSE buf[a]]
    BY <1>4, Zenon DEF Cut
  <2>2. ASSUME NEW a \in Chns
        PROVE  buf'[a] = << >> /\ ~dec'[a].started
    <3>1. CASE WasShown(a)
      BY <1>1, <2>1, <3>1, ResetIsQuiet
    <3>2. CASE ~WasShown(a)
      BY <1>1, <2>1, <3>2 DEF WasShown, HiddenIsClean, Chns
    <3> QED
      BY <3>1, <3>2
  <2> QED
    BY <2>2 DEF HiddenIsClean
<1>5. ASSUME NEW id \in PeerChns, NEW update \in BOOLEAN, NEW subwin \in Subwins,
             RecvSubwin(id, update, subwin)
      PROVE  HiddenIsClean'
  <2>1. CASE Cut(subwin)
    BY <1>2, <1>4, <2>1, Zenon DEF Cut, IndexOutOfRange
  <2>2. CASE Refresh(id, update)
    BY <1>2, <1>3, <2>2 DEF Refresh, IndexOutOfRange, chnVars
  <2> QED
    BY <1>5, <2>1, <2>2 DEF RecvSubwin
<1>6. ASSUME NEW id \in PeerChns, RecvChnErr(id) \/ RecvStray(id)
      PROVE  HiddenIsClean'
  BY <1>2, <1>3, <1>6 DEF RecvChnErr, RecvStray, IndexOutOfRange
<1> QED
  BY <1>5, <1>6

LEMMA CStep == ASSUME IInv, HiddenIsClean, [ChnNext]_chnVars PROVE HiddenIsClean'
<1>1. CASE Receive
  BY <1>1, CRecvData, CStatus DEF Receive
<1>2. CASE DqSucceeds
  BY <1>2, CDqSucceeds
<1>3. CASE UNCHANGED <<dec, buf, wnd>>
  BY <1>3 DEF HiddenIsClean
<1>4. CASE DqFails
  BY <1>3, <1>4 DEF DqFails
<1>5. CASE Environment
  BY <1>3, <1>5 DEF Environment, SendFrame, Lose, TimerFires, DeviceTakes, CaptureAborts
<1>6. CASE UNCHANGED chnVars
  BY <1>3, <1>6 DEF chnVars
<1> QED
  BY <1>1, <1>2, <1>4, <1>5, <1>6 DEF ChnNext, Decode

(* A channel that no window shows holds nothing of a frame, so that it     *)
(* starts clean when a later layout shows it, whatever the order of        *)
(* packets, layouts and losses (rtpPkgProcess.c:84-134).                   *)
THEOREM HiddenStaysClean == Spec => []HiddenIsClean
<1>1. Init => IInv /\ HiddenIsClean
  <2>1. ASSUME Init PROVE HiddenIsClean
    BY <2>1 DEF Init, HiddenIsClean, InitialDec
  <2> QED
    BY <2>1, InitInvariant
<1>2. IInv /\ HiddenIsClean /\ [Next]_vars => (IInv /\ HiddenIsClean)'
  BY ChnStep, StepInvariant, CStep
<1> QED
  BY <1>1, <1>2, PTL DEF Spec
-----------------------------------------------------------------------------
(* The clear-screen timer, for both codecs.                                *)

ArmedInv == IInv /\ ClearsOnlyIdleChannels /\ wnd # 0

LEMMA ARecvData ==
  ASSUME ArmedInv, NEW c \in Chns, RecvData(c)
  PROVE  ClearsOnlyIdleChannels'
<1>1. /\ dec \in [Chns -> DecType_] /\ buf \in [Chns -> Seq(AllFragments)]
      /\ armed' = armed \ {c} /\ armed \subseteq Chns
  BY DEF ArmedInv, IInv, ChannelTypes, RecvData, Disarmed
<1>2. \E e, b : dec' = [dec EXCEPT ![c] = e] /\ (buf' = buf \/ buf' = [buf EXCEPT ![c] = b])
  <2> DEFINE d == [dec[c] EXCEPT !.err = FALSE, !.startRcv = TRUE]
  <2>1. \/ Process(c, d, Head(rest[c]))
        \/ dec' = [dec EXCEPT ![c] = d] /\ buf' = buf
    BY DEF RecvData
  <2> HIDE DEF d
  <2> QED
    BY <2>1 DEF Process, PrimePlane, AwaitBuffer
<1> QED
  BY <1>1, <1>2 DEF ArmedInv, ClearsOnlyIdleChannels

LEMMA ADqSucceeds ==
  ASSUME ArmedInv, DqSucceeds
  PROVE  ClearsOnlyIdleChannels'
<1>1. PICK c \in Chns, type \in {"I", "P", "PKG", "PPS"} : main = Waiting(c, type)
  BY IdleNotWaiting DEF ArmedInv, IInv, ChannelTypes, DqSucceeds
<1>2. main.chn = c /\ armed' = armed
  BY <1>1 DEF Waiting, DqSucceeds
<1>3. dec \in [Chns -> DecType_] /\ buf \in [Chns -> Seq(AllFragments)] /\ armed \subseteq Chns
  BY DEF ArmedInv, IInv, ChannelTypes
<1>4. \/ UNCHANGED <<dec, buf>>
      \/ \E f : /\ dec' = [dec EXCEPT ![c] = f]
                /\ f.startRcv = dec[c].startRcv
                /\ buf' = [buf EXCEPT ![c] = << >>]
  <2> DEFINE d == dec[c]
             p == [plane[c] EXCEPT !.done = @ - 1]
  <2>1. \/ DecodePps(c, p, d) \/ DecodeP(c, p, d) \/ DecodeI(c, p, d) \/ DecodePkg(c, p, d)
    BY <1>2 DEF DqSucceeds
  <2>2. d \in DecType_
    BY <1>3
  <2> HIDE DEF p, d
  <2>3. ASSUME NEW e, NEW wanted, "startRcv" \in DOMAIN e, e.startRcv = d.startRcv,
               Flush(c, p, e, wanted)
        PROVE  \E f : /\ dec' = [dec EXCEPT ![c] = f]
                      /\ f.startRcv = d.startRcv
                      /\ buf' = [buf EXCEPT ![c] = << >>]
    <3>1. [e EXCEPT !.started = FALSE].startRcv = d.startRcv
      BY <2>3
    <3> QED
      BY <2>3, <3>1 DEF Flush
  <2>4. CASE DecodePps(c, p, d)
    <3> DEFINE e == [d EXCEPT !.enPps = TRUE]
    <3>1. "startRcv" \in DOMAIN e /\ e.startRcv = d.startRcv
      BY <2>2 DEF DecType_
    <3>2. DecodePps(c, p, d) <=> IF d.enPps THEN Keep(c, p) ELSE Flush(c, p, e, ~d.refused)
      BY DEF DecodePps
    <3> HIDE DEF e
    <3> QED
      BY <2>3, <2>4, <3>1, <3>2 DEF Keep, d
  <2>5. CASE DecodeP(c, p, d)
    <3> DEFINE e == [d EXCEPT !.waitIfream = d.waitIfream \/ d.refused, !.sliceP = 0]
    <3>1. "startRcv" \in DOMAIN e /\ e.startRcv = d.startRcv
      BY <2>2 DEF DecType_
    <3>2. DecodeP(c, p, d) <=>
            IF ~AllSlices(d, d.sliceP) THEN Keep(c, p)
            ELSE Flush(c, p, e, ~d.refused /\ ~d.waitIfream)
      BY DEF DecodeP
    <3> HIDE DEF e
    <3> QED
      BY <2>3, <2>5, <3>1, <3>2 DEF Keep, d
  <2>6. CASE DecodeI(c, p, d)
    <3> DEFINE e == [d EXCEPT !.waitIfream = d.refused]
    <3>1. "startRcv" \in DOMAIN e /\ e.startRcv = d.startRcv
      BY <2>2 DEF DecType_
    <3>2. DecodeI(c, p, d) <=>
            IF ~AllSlices(d, d.sliceI) THEN Keep(c, p) ELSE Flush(c, p, e, ~d.refused)
      BY DEF DecodeI
    <3> HIDE DEF e
    <3> QED
      BY <2>3, <2>6, <3>1, <3>2 DEF Keep, d
  <2>7. CASE DecodePkg(c, p, d)
    <3>1. "startRcv" \in DOMAIN d
      BY <2>2 DEF DecType_
    <3> QED
      BY <2>3, <2>7, <3>1 DEF DecodePkg, d
  <2> QED
    BY <2>1, <2>4, <2>5, <2>6, <2>7
<1> QED
  <2>1. CASE UNCHANGED <<dec, buf>>
    BY <1>2, <2>1 DEF ArmedInv, ClearsOnlyIdleChannels
  <2>2. ASSUME NEW f, f.startRcv = dec[c].startRcv,
               dec' = [dec EXCEPT ![c] = f], buf' = [buf EXCEPT ![c] = << >>]
        PROVE  ClearsOnlyIdleChannels'
    BY <1>2, <1>3, <2>2 DEF ArmedInv, ClearsOnlyIdleChannels
  <2> QED
    BY <1>4, <2>1, <2>2

\* A layout arms the timer of channel 0, which the old one showed.
LEMMA AStatus ==
  ASSUME ArmedInv,
         \/ \E id \in PeerChns, update \in BOOLEAN, subwin \in Subwins :
              RecvSubwin(id, update, subwin)
         \/ \E id \in PeerChns : RecvChnErr(id) \/ RecvStray(id)
  PROVE  ClearsOnlyIdleChannels' /\ wnd' # 0
<1>1. /\ dec \in [Chns -> DecType_] /\ buf \in [Chns -> Seq(AllFragments)]
      /\ wnd \in Nat /\ wnd # 0 /\ armed \subseteq Chns
  BY DEF ArmedInv, IInv, ChannelTypes
<1>2. CASE UNCHANGED <<dec, buf, armed, wnd>>
  BY <1>1, <1>2 DEF ArmedInv, ClearsOnlyIdleChannels
<1>3. ASSUME NEW id \in Chns, NEW err \in BOOLEAN, wnd' = wnd,
             dec' = [dec EXCEPT ![id] = ResetDec(dec[id], err)],
             buf' = [buf EXCEPT ![id] = << >>],
             armed' \subseteq armed \cup {id}
      PROVE  ClearsOnlyIdleChannels' /\ wnd' # 0
  BY <1>1, <1>3, ResetIsQuiet DEF ArmedInv, ClearsOnlyIdleChannels
<1>4. ASSUME NEW subwin \in Subwins, Cut(subwin), ~(wnd > NumChns)
      PROVE  ClearsOnlyIdleChannels' /\ wnd' # 0
  <2>1. /\ dec' = [a \in Chns |-> IF WasShown(a) THEN ResetDec(dec[a], FALSE) ELSE dec[a]]
        /\ buf' = [a \in Chns |-> IF WasShown(a) THEN << >> ELSE buf[a]]
        /\ armed' = { a \in armed : ~WasShown(a) } \cup {0}
        /\ wnd' = subwin
    BY <1>4, Zenon DEF Cut
  <2>2. 0 \in Chns /\ WasShown(0)
    BY <1>1, SizesAssumption DEF Chns, WasShown
  <2>3. ASSUME NEW a \in armed'
        PROVE  buf'[a] = << >> /\ ~dec'[a].startRcv
    <3>1. CASE a = 0
      BY <1>1, <2>1, <2>2, <3>1, ResetIsQuiet
    <3>2. CASE a \in armed /\ ~WasShown(a)
      BY <1>1, <2>1, <3>2 DEF ArmedInv, ClearsOnlyIdleChannels
    <3> QED
      BY <2>1, <2>3, <3>1, <3>2
  <2>4. wnd' # 0
    BY <2>1, SizesAssumption
  <2> QED
    BY <2>3, <2>4 DEF ClearsOnlyIdleChannels
<1>5. ASSUME NEW id \in PeerChns, NEW update \in BOOLEAN, NEW subwin \in Subwins,
             RecvSubwin(id, update, subwin)
      PROVE  ClearsOnlyIdleChannels' /\ wnd' # 0
  <2>1. CASE Cut(subwin)
    BY <1>2, <1>4, <2>1, Zenon DEF Cut, IndexOutOfRange
  <2>2. CASE Refresh(id, update)
    BY <1>2, <1>3, <2>2 DEF Refresh, IndexOutOfRange, chnVars
  <2> QED
    BY <1>5, <2>1, <2>2 DEF RecvSubwin
<1>6. ASSUME NEW id \in PeerChns, RecvChnErr(id) \/ RecvStray(id)
      PROVE  ClearsOnlyIdleChannels' /\ wnd' # 0
  BY <1>2, <1>3, <1>6 DEF RecvChnErr, RecvStray, IndexOutOfRange, Disarmed
<1> QED
  BY <1>5, <1>6

LEMMA AStep == ASSUME ArmedInv, [ChnNext]_chnVars PROVE ArmedInv'
<1>1. IInv'
  BY StepInvariant DEF ArmedInv
<1>2. ClearsOnlyIdleChannels' /\ wnd' # 0
  <2>1. ASSUME NEW c \in Chns, RecvData(c)
        PROVE  ClearsOnlyIdleChannels' /\ wnd' # 0
    BY <2>1, ARecvData DEF RecvData, ArmedInv
  <2>2. CASE DqSucceeds
    BY <2>2, ADqSucceeds DEF DqSucceeds, ArmedInv
  <2>3. CASE UNCHANGED <<dec, buf, wnd>> /\ armed' \subseteq armed
    BY <2>3 DEF ArmedInv, ClearsOnlyIdleChannels
  <2>4. CASE DqFails
    BY <2>3, <2>4 DEF DqFails
  <2>5. CASE Environment
    BY <2>3, <2>5 DEF Environment, SendFrame, Lose, TimerFires, DeviceTakes, CaptureAborts
  <2>6. CASE UNCHANGED chnVars
    BY <2>3, <2>6 DEF chnVars
  <2> QED
    BY <2>1, <2>2, <2>4, <2>5, <2>6, AStatus DEF ChnNext, Receive, Decode
<1> QED
  BY <1>1, <1>2 DEF ArmedInv

(* While the timer that clears a channel's window runs, the channel        *)
(* receives nothing and holds nothing: no picture is wiped off by it.  The *)
(* layout the process starts with has windows, four of them                *)
(* (rtpPkgProcess.c:26, 71, 116, 154, 162, 227).                           *)
THEOREM ArmedChannelsAreIdle ==
  ASSUME InitialWnd # 0
  PROVE  Spec => []ClearsOnlyIdleChannels
<1>1. Init => ArmedInv
  <2>1. ASSUME Init PROVE ClearsOnlyIdleChannels /\ wnd # 0
    BY <2>1 DEF Init, ClearsOnlyIdleChannels
  <2> QED
    BY <2>1, InitInvariant DEF ArmedInv
<1>2. ArmedInv /\ [Next]_vars => ArmedInv'
  BY ChnStep, AStep
<1>3. ArmedInv => ClearsOnlyIdleChannels
  BY DEF ArmedInv
<1> QED
  BY <1>1, <1>2, <1>3, PTL DEF Spec

-----------------------------------------------------------------------------
(* H.264: from the fragments of a camera to the frames its decoder gets.   *)
(* What is said of a channel is said of its values: s is what the camera   *)
(* has begun to send, r what of it is still on its way, l what was lost, b *)
(* the buffer, st whether a start was seen, q the queued frames, sh the    *)
(* one last shown.                                                         *)

\* The frame that completed content.
Ident(content) == IF content = << >> THEN 0 ELSE content[Len(content)].of.id

LostEnd(l, n) == \E x \in l : x.of.id = n /\ x.i = x.of.len

\* A fragment of frame n was lost, or the one that ends the frame before.
Spoilt(l, n) == LostEnd(l, n - 1) \/ \E x \in l : x.of.id = n

\* content is what frame n of the camera was, unless n was spoilt.
WholeIn(s, l, content) ==
  /\ Ident(content) \in 1 .. Len(s)
  /\ ~Spoilt(l, Ident(content)) => content = s[Ident(content)]

\* The frames of which nothing is on its way, and what has left of the latest.
Past(s, r) == IF r = << >> THEN Len(s) ELSE Len(s) - 1
Gone(s, r) == Len(s[Len(s)]) - Len(r)

Numbered(s) ==
  \A k \in 1 .. Len(s) :
    /\ Len(s[k]) \in 1 .. MaxLen
    /\ \A i \in 1 .. Len(s[k]) :
         s[k][i].of.id = k /\ s[k][i].i = i /\ s[k][i].of.len = Len(s[k])

OnTheWay(s, r) ==
  r # << >> =>
    /\ Len(s) >= 1
    /\ Len(r) <= Len(s[Len(s)])
    /\ \A i \in 1 .. Len(r) : r[i] = s[Len(s)][Gone(s, r) + i]

\* What is shown and queued is in the order of the camera, and behind it.
Going(s, r, l, q, sh) ==
  /\ sh # << >> => WholeIn(s, l, sh) /\ Ident(sh) <= Past(s, r)
  /\ \A j \in 1 .. Len(q) :
       /\ WholeIn(s, l, q[j])
       /\ Ident(sh) < Ident(q[j]) /\ Ident(q[j]) <= Past(s, r)
       /\ \A i \in 1 .. j - 1 : Ident(q[i]) < Ident(q[j])

\* While the thread waits for an output buffer, the frame it is to take.
Taken(s, r, l, b, q, sh) ==
  /\ WholeIn(s, l, b)
  /\ Ident(sh) < Ident(b) /\ Ident(b) <= Past(s, r)
  /\ \A j \in 1 .. Len(q) : Ident(q[j]) < Ident(b)

\* While it does not, the part of the latest frame that has come.
Held(s, r, l, b, st) ==
  /\ r = << >> /\ ~LostEnd(l, Len(s)) => b = << >>
  /\ r # << >> /\ ~Spoilt(l, Len(s)) =>
       /\ Gone(s, r) = 0 => b = << >>
       /\ st => b = SubSeq(s[Len(s)], 1, Gone(s, r))

FrameInv(s, r, l, b, st, p, w, sh) ==
  /\ Numbered(s) /\ OnTheWay(s, r)
  /\ Going(s, r, l, p.queued, sh)
  /\ \/ p.aborted
     \/ w /\ Taken(s, r, l, b, p.queued, sh)
     \/ ~w /\ Held(s, r, l, b, st)

WaitsOn(m, c) == \E type \in {"I", "P", "PKG", "PPS"} : m = Waiting(c, type)

ChannelFrames(c) ==
  FrameInv(stream[c], rest[c], lost[c], buf[c], dec[c].started, plane[c],
           WaitsOn(main, c), shown[c])

FramesInOrder == \A c \in Chns : ChannelFrames(c)

FInv == HInv /\ HiddenIsClean /\ FramesInOrder


LEMMA IdentLast ==
  ASSUME NEW b \in Seq(AllFragments), NEW x \in AllFragments
  PROVE  Ident(Append(b, x)) = x.of.id /\ Ident(<<x>>) = x.of.id
<1>1. Append(b, x) # << >> /\ Append(b, x)[Len(Append(b, x))] = x
  BY AppendProperties
<1>2. <<x>> # << >> /\ <<x>>[Len(<<x>>)] = x
  OBVIOUS
<1> QED
  BY <1>1, <1>2, Zenon DEF Ident

\* What the next fragment on the way is, and what it leaves.
LEMMA NextFragment ==
  ASSUME NEW s \in Seq(Seq(AllFragments)), NEW r \in Seq(AllFragments), r # << >>,
         Numbered(s), OnTheWay(s, r)
  PROVE  LET f == s[Len(s)]
             g == Gone(s, r)
             x == Head(r)
         IN  /\ Len(s) \in Nat \ {0} /\ f \in Seq(AllFragments) /\ Len(f) \in 1 .. MaxLen
             /\ g \in 0 .. Len(f) - 1
             /\ x = f[g + 1] /\ x \in AllFragments
             /\ x.of.id = Len(s) /\ x.i = g + 1 /\ x.of.len = Len(f)
             /\ Tail(r) \in Seq(AllFragments)
             /\ Tail(r) = << >> <=> g + 1 = Len(f)
             /\ Gone(s, Tail(r)) = g + 1
             /\ OnTheWay(s, Tail(r))
             /\ Past(s, r) = Len(s) - 1
             /\ Past(s, Tail(r)) = IF g + 1 = Len(f) THEN Len(s) ELSE Len(s) - 1
<1> DEFINE f == s[Len(s)]
           g == Gone(s, r)
           x == Head(r)
<1>1. Len(s) \in Nat \ {0} /\ f \in Seq(AllFragments) /\ Len(f) \in 1 .. MaxLen
  BY DEF OnTheWay, Numbered
<1>2. Len(r) \in 1 .. Len(f) /\ Len(f) \in Nat
  BY <1>1 DEF OnTheWay
<1>3. g \in 0 .. Len(f) - 1
  BY <1>2 DEF Gone
<1>4. x \in AllFragments /\ Tail(r) \in Seq(AllFragments) /\ Len(Tail(r)) = Len(r) - 1
      /\ \A i \in 1 .. Len(Tail(r)) : Tail(r)[i] = r[i + 1]
  BY HeadTailProperties
<1>5. x = f[g + 1]
  BY <1>2 DEF OnTheWay
<1>6. x.of.id = Len(s) /\ x.i = g + 1 /\ x.of.len = Len(f)
  <2>1. \A i \in 1 .. Len(f) : f[i].of.id = Len(s) /\ f[i].i = i /\ f[i].of.len = Len(f)
    BY <1>1 DEF Numbered
  <2>2. g + 1 \in 1 .. Len(f)
    BY <1>2, <1>3
  <2> HIDE DEF f, g, x
  <2> QED
    BY <1>5, <2>1, <2>2
<1>7. Gone(s, Tail(r)) = g + 1
  BY <1>2, <1>4 DEF Gone
<1>8. Tail(r) = << >> <=> g + 1 = Len(f)
  <2>1. Len(Tail(r)) = Len(f) - (g + 1)
    BY <1>2, <1>4 DEF Gone
  <2>2. Tail(r) = << >> <=> Len(Tail(r)) = 0
    BY <1>4
  <2>3. Len(f) - (g + 1) = 0 <=> g + 1 = Len(f)
    <3> HIDE DEF f, g
    <3> QED
      BY <1>2, <1>3
  <2> QED
    BY <2>1, <2>2, <2>3, Zenon
<1>9. OnTheWay(s, Tail(r))
  <2>1. \A i \in 1 .. Len(Tail(r)) : Tail(r)[i] = f[g + 1 + i]
    <3> SUFFICES ASSUME NEW i \in 1 .. Len(Tail(r)) PROVE Tail(r)[i] = f[g + 1 + i]
      OBVIOUS
    <3>1. i + 1 \in 1 .. Len(r)
      BY <1>2, <1>4
    <3>2. r[i + 1] = f[g + (i + 1)]
      BY <3>1 DEF OnTheWay
    <3>3. g + (i + 1) = g + 1 + i
      BY <1>2, <1>3
    <3> QED
      BY <1>4, <3>2, <3>3
  <2> QED
    BY <1>1, <1>2, <1>4, <1>7, <2>1 DEF OnTheWay
<1>10. Past(s, r) = Len(s) - 1
  BY DEF Past
<1> HIDE DEF f, g, x
<1>11. Past(s, Tail(r)) = IF g + 1 = Len(f) THEN Len(s) ELSE Len(s) - 1
  BY <1>8, Zenon DEF Past
<1> QED
  BY <1>1, <1>3, <1>4, <1>5, <1>6, <1>7, <1>8, <1>9, <1>10, <1>11, Zenon DEF f, g, x

\* Which place of a frame ends it.
LEMMA EndPlace ==
  ASSUME NEW n \in Nat, NEW g \in Nat, g + 1 <= n
  PROVE  (n = 1 \/ (n > 1 /\ g + 1 = n)) = (g + 1 = n)
         /\ (g = 0 \/ n > 1)
<1>1. CASE n = 1
  BY <1>1
<1>2. CASE n > 1
  BY <1>2
<1> QED
  BY <1>1, <1>2

\* Unpacking the next fragment: the frame goes on, or is whole in the buffer.
LEMMA UnpackedFrame ==
  ASSUME DecType = "H264",
         NEW s \in Seq(Seq(AllFragments)), NEW r \in Seq(AllFragments), r # << >>,
         NEW l, NEW b \in Seq(AllFragments), NEW d \in DecType_,
         Numbered(s), OnTheWay(s, r), Held(s, r, l, b, d.started)
  PROVE  LET u == Unpacked(d, b, Head(r))
         IN  /\ u.type = "none" => Held(s, Tail(r), l, u.b, u.d.started)
             /\ u.type # "none" =>
                  Tail(r) = << >> /\ WholeIn(s, l, u.b) /\ Ident(u.b) = Len(s)
<1> DEFINE f == s[Len(s)]
           g == Gone(s, r)
           x == Head(r)
           n == Len(s)
           u == Unpacked(d, b, x)
<1>1. /\ n \in Nat \ {0} /\ f \in Seq(AllFragments) /\ Len(f) \in 1 .. MaxLen
      /\ g \in 0 .. Len(f) - 1
      /\ x = f[g + 1] /\ x \in AllFragments
      /\ x.of.id = n /\ x.i = g + 1 /\ x.of.len = Len(f)
      /\ Tail(r) = << >> <=> g + 1 = Len(f)
      /\ Gone(s, Tail(r)) = g + 1
  BY NextFragment, Zenon
<1>2. ~Spoilt(l, n) => (g = 0 => b = << >>) /\ (d.started => b = SubSeq(f, 1, g))
  BY Zenon DEF Held
<1>3. u = UnpackedH264(d, b, x)
  BY DEF Unpacked
<1>4. /\ IsSingle(x) = (Len(f) = 1)
      /\ IsStart(x) = (Len(f) > 1 /\ g = 0)
      /\ IsEnd(x) = (Len(f) > 1 /\ g + 1 = Len(f))
  <2> HIDE DEF f, g, x, n
  <2> QED
    BY <1>1, SizesAssumption DEF IsSingle, IsStart, IsEnd
<1>5. d.started \in BOOLEAN
  BY DEF DecType_
<1> HIDE DEF f, g, x, n, u
<1>6. g \in Nat /\ Len(f) \in Nat /\ Len(f) <= BufCap /\ g + 1 <= Len(f)
  BY <1>1, SizesAssumption
\* A fragment behind the g that are held.
<1>7. ASSUME b = SubSeq(f, 1, g)
      PROVE  Appended(b, x) = SubSeq(f, 1, g + 1)
  <2>1. Len(b) = g /\ \A i \in 1 .. g : b[i] = f[i]
    BY <1>1, <1>6, <1>7
  <2>2. Appended(b, x) = Append(b, x)
    BY <1>6, <2>1, SizesAssumption DEF Appended
  <2>3. SubSeq(f, 1, g + 1) = Append(b, x)
    <3>1. SubSeq(f, 1, g + 1) = SubSeq(f, 1, g) \o <<f[g + 1]>>
      BY <1>1, <1>6, SubSeqRecursiveSecond
    <3> QED
      BY <1>1, <1>7, <3>1, AppendIsConcat
  <2> QED
    BY <2>2, <2>3
<1>8. Ident(Appended(b, x)) = n
  BY <1>1, IdentLast DEF Appended
<1>9. CASE Headless(d, x)
  <2>1. u.type = "none" /\ u.b = << >> /\ IsEnd(x)
    BY <1>3, <1>9 DEF UnpackedH264, Headless
  <2>2. Tail(r) = << >>
    BY <1>1, <1>4, <2>1
  <2> QED
    BY <2>1, <2>2 DEF Held, u, x
<1>10. CASE ~Headless(d, x)
  <2>1. u.b = Appended(b, x) /\ u.type = CompletedH264(x)
        /\ u.d = [d EXCEPT !.started = d.started \/ IsStart(x)]
    BY <1>3, <1>10 DEF UnpackedH264
  <2>2. u.d.started <=> d.started \/ IsStart(x)
    BY <2>1 DEF DecType_
  <2>3. g = 0 => << >> = SubSeq(f, 1, g)
    BY <1>1, SubSeqEmpty
  <2>4. ~Spoilt(l, n) /\ (g = 0 \/ d.started) => u.b = SubSeq(f, 1, g + 1)
    BY <1>2, <1>7, <2>1, <2>3
  <2>5. CASE u.type = "none"
    <3>1. ~IsSingle(x) /\ ~IsEnd(x)
      BY <2>1, <2>5 DEF CompletedH264
    <3>2. Tail(r) # << >>
      <4>1. Len(f) # 1 /\ ~(Len(f) > 1 /\ g + 1 = Len(f))
        BY <1>4, <3>1, Zenon
      <4>2. g + 1 # Len(f)
        BY <1>6, <4>1, EndPlace, Zenon
      <4> QED
        BY <1>1, <4>2, Zenon
    <3>3. g + 1 # 0
      BY <1>6
    <3>4. ~Spoilt(l, n) /\ u.d.started => u.b = SubSeq(f, 1, g + 1)
      BY <1>4, <2>2, <2>4
    <3>5. Held(s, Tail(r), l, u.b, u.d.started)
      BY <1>1, <3>2, <3>3, <3>4, Zenon DEF Held, f, n
    <3> QED
      BY <2>5, <3>5, Zenon DEF u, x
  <2>6. CASE u.type # "none"
    <3>1. IsSingle(x) \/ IsEnd(x)
      BY <2>1, <2>6 DEF CompletedH264
    <3>2. g + 1 = Len(f) /\ (g = 0 \/ d.started)
      <4>1. Len(f) = 1 \/ (Len(f) > 1 /\ g + 1 = Len(f))
        BY <1>4, <3>1, Zenon
      <4>2. Len(f) > 1 /\ g + 1 = Len(f) => d.started
        BY <1>4, <1>10, Zenon DEF Headless
      <4>3. g + 1 = Len(f) /\ (g = 0 \/ Len(f) > 1)
        BY <1>6, <4>1, EndPlace, Zenon
      <4> QED
        BY <4>2, <4>3, Zenon
    <3>3. SubSeq(f, 1, g + 1) = f
      BY <1>1, <3>2, SubSeqFull
    <3>4. ~Spoilt(l, n) => u.b = f
      BY <2>4, <3>2, <3>3
    <3>5. WholeIn(s, l, u.b)
      BY <1>1, <1>8, <2>1, <3>4 DEF WholeIn, f, n
    <3>6. Tail(r) = << >>
      BY <1>1, <3>2
    <3> QED
      BY <1>8, <2>1, <2>6, <3>5, <3>6, Zenon DEF u, x, n
  <2> QED
    BY <2>5, <2>6
<1> QED
  BY <1>9, <1>10

-----------------------------------------------------------------------------
(* What each step does to the values of its channel.                       *)

\* What was whole stays whole while the camera goes on and more is lost.
LEMMA WholeStays ==
  ASSUME NEW s \in Seq(Seq(AllFragments)), NEW s2 \in Seq(Seq(AllFragments)),
         Len(s) <= Len(s2), \A k \in 1 .. Len(s) : s2[k] = s[k],
         NEW l, NEW l2, l \subseteq l2, NEW content, WholeIn(s, l, content)
  PROVE  WholeIn(s2, l2, content)
<1>1. Ident(content) \in 1 .. Len(s) /\ Ident(content) \in 1 .. Len(s2)
  BY DEF WholeIn
<1>2. Spoilt(l, Ident(content)) => Spoilt(l2, Ident(content))
  BY DEF Spoilt, LostEnd
<1> QED
  BY <1>1, <1>2 DEF WholeIn

LEMMA GoingOn ==
  ASSUME NEW s \in Seq(Seq(AllFragments)), NEW s2 \in Seq(Seq(AllFragments)),
         Len(s) <= Len(s2), \A k \in 1 .. Len(s) : s2[k] = s[k],
         NEW l, NEW l2, l \subseteq l2, NEW r, NEW r2, NEW q, NEW sh,
         Past(s, r) <= Past(s2, r2)
  PROVE  /\ Going(s, r, l, q, sh) => Going(s2, r2, l2, q, sh)
         /\ \A b : Taken(s, r, l, b, q, sh) => Taken(s2, r2, l2, b, q, sh)
<1>1. ASSUME NEW content, WholeIn(s, l, content), Ident(content) <= Past(s, r)
      PROVE  WholeIn(s2, l2, content) /\ Ident(content) <= Past(s2, r2)
  <2>1. WholeIn(s2, l2, content)
    BY <1>1, WholeStays
  <2>2. Ident(content) \in Int /\ Past(s, r) \in Int /\ Past(s2, r2) \in Int
    BY <1>1 DEF WholeIn, Past
  <2> QED
    BY <1>1, <2>1, <2>2
<1>2. ASSUME Going(s, r, l, q, sh) PROVE Going(s2, r2, l2, q, sh)
  BY <1>1, <1>2 DEF Going
<1>3. ASSUME NEW b, Taken(s, r, l, b, q, sh) PROVE Taken(s2, r2, l2, b, q, sh)
  BY <1>1, <1>3 DEF Taken
<1> QED
  BY <1>2, <1>3

\* A packet that goes by without effect on the frames behind it.
LEMMA GoingNext ==
  ASSUME NEW s \in Seq(Seq(AllFragments)), NEW r \in Seq(AllFragments), r # << >>,
         Numbered(s), OnTheWay(s, r), NEW l, NEW l2, l \subseteq l2, NEW q, NEW sh,
         Going(s, r, l, q, sh)
  PROVE  Going(s, Tail(r), l2, q, sh)
<1>1. Past(s, r) <= Past(s, Tail(r))
  <2>1. Past(s, r) = Len(s) - 1 /\ Past(s, Tail(r)) \in {Len(s), Len(s) - 1}
    BY NextFragment, Zenon
  <2> QED
    BY <2>1
<1>2. Len(s) <= Len(s) /\ \A k \in 1 .. Len(s) : s[k] = s[k]
  OBVIOUS
<1> QED
  BY <1>1, <1>2, GoingOn, Zenon

\* A frame behind those that are queued.
LEMMA GoingAppend ==
  ASSUME NEW s, NEW r, NEW l, NEW b, NEW q \in Seq(Seq(AllFragments)), NEW sh,
         b \in Seq(AllFragments),
         Going(s, r, l, q, sh), Taken(s, r, l, b, q, sh)
  PROVE  Going(s, r, l, Append(q, b), sh)
<1>1. /\ Len(Append(q, b)) = Len(q) + 1 /\ Len(q) \in Nat
      /\ \A j \in 1 .. Len(q) : Append(q, b)[j] = q[j]
      /\ Append(q, b)[Len(q) + 1] = b
  OBVIOUS
<1> DEFINE a == Append(q, b)
<1> HIDE DEF a
<1>2. \A j \in 1 .. Len(q) + 1 :
        \/ j \in 1 .. Len(q) /\ a[j] = q[j]
        \/ j = Len(q) + 1 /\ a[j] = b
  BY <1>1 DEF a
<1>3. ASSUME NEW j \in 1 .. Len(q) + 1
      PROVE  /\ WholeIn(s, l, a[j])
             /\ Ident(sh) < Ident(a[j]) /\ Ident(a[j]) <= Past(s, r)
             /\ \A i \in 1 .. j - 1 : Ident(a[i]) < Ident(a[j])
  <2>1. CASE j \in 1 .. Len(q)
    <3>1. a[j] = q[j] /\ \A i \in 1 .. j - 1 : a[i] = q[i]
      BY <1>1, <2>1 DEF a
    <3> QED
      BY <2>1, <3>1 DEF Going
  <2>2. CASE j = Len(q) + 1
    <3>1. a[j] = b /\ j - 1 = Len(q)
      BY <1>1, <2>2 DEF a
    <3>2. \A i \in 1 .. Len(q) : a[i] = q[i]
      BY <1>1 DEF a
    <3> QED
      BY <3>1, <3>2 DEF Taken
  <2> QED
    BY <1>2, <2>1, <2>2
<1> QED
  BY <1>1, <1>3 DEF Going, a

LEMMA NothingGoing ==
  ASSUME NEW s, NEW r, NEW l, NEW q, NEW sh, Going(s, r, l, q, sh)
  PROVE  Going(s, r, l, << >>, sh)
  BY DEF Going

\* What the outcomes of queueing a frame leave on the plane.
LEMMA GoingQueued ==
  ASSUME NEW s, NEW r, NEW l, NEW b \in Seq(AllFragments), NEW sh, NEW p \in PlaneType,
         Going(s, r, l, p.queued, sh), ~p.aborted => Taken(s, r, l, b, p.queued, sh),
         NEW q \in QueueOutcomes(p, b)
  PROVE  Going(s, r, l, q.queued, sh)
<1>1. p.queued \in Seq(Seq(AllFragments))
  BY DEF PlaneType
<1>2. CASE q = Aborted(p)
  <2>1. q.queued = << >>
    BY <1>2 DEF Aborted
  <2> QED
    BY <2>1, NothingGoing
<1>3. CASE q = p
  BY <1>3
<1>4. CASE ~p.aborted /\ q = [p EXCEPT !.queued = Append(p.queued, b)]
  <2>1. q.queued = Append(p.queued, b)
    BY <1>4 DEF PlaneType
  <2> QED
    BY <1>1, <1>4, <2>1, GoingAppend
<1> QED
  BY <1>2, <1>3, <1>4 DEF QueueOutcomes, Queued

\* A channel without a start and with an empty buffer.
LEMMA NothingHeld ==
  ASSUME NEW s, NEW r, NEW l
  PROVE  Held(s, r, l, << >>, FALSE)
  BY Zenon DEF Held

\* Status packets, and do_decode giving up or flushing the frame.
LEMMA FrameReset ==
  ASSUME NEW s, NEW r, NEW l, NEW b, NEW st, NEW p, NEW w, NEW sh,
         FrameInv(s, r, l, b, st, p, w, sh)
  PROVE  FrameInv(s, r, l, << >>, FALSE, p, FALSE, sh)
  BY NothingHeld, Zenon DEF FrameInv

LEMMA FrameFlushed ==
  ASSUME NEW s, NEW r, NEW l, NEW b \in Seq(AllFragments), NEW st,
         NEW p \in PlaneType, NEW p2 \in PlaneType, NEW sh,
         FrameInv(s, r, l, b, st, p, TRUE, sh), ~p.aborted,
         p2.queued = p.queued, NEW q \in QueueOutcomes(p2, b)
  PROVE  FrameInv(s, r, l, << >>, FALSE, q, FALSE, sh)
<1>1. Numbered(s) /\ OnTheWay(s, r) /\ Going(s, r, l, p.queued, sh)
      /\ Taken(s, r, l, b, p.queued, sh)
  BY Zenon DEF FrameInv
<1>2. Going(s, r, l, q.queued, sh)
  BY <1>1, GoingQueued
<1> QED
  BY <1>1, <1>2, NothingHeld, Zenon DEF FrameInv

\* The camera starts its next frame.
LEMMA FrameSent ==
  ASSUME NEW s \in Seq(Seq(AllFragments)), NEW l, NEW b, NEW st, NEW p, NEW w, NEW sh,
         NEW nalu \in Nalus(Len(s) + 1), Fragments(nalu) \in Seq(AllFragments),
         FrameInv(s, << >>, l, b, st, p, w, sh)
  PROVE  FrameInv(Append(s, Fragments(nalu)), Fragments(nalu), l, b, st, p, w, sh)
<1> DEFINE f == Fragments(nalu)
           s2 == Append(s, f)
           n == Len(s)
<1>1. n \in Nat /\ s2 \in Seq(Seq(AllFragments)) /\ Len(s2) = n + 1
      /\ s2[n + 1] = f /\ \A k \in 1 .. n : s2[k] = s[k]
  OBVIOUS
<1>2. nalu.len \in 1 .. MaxLen /\ nalu.id = n + 1 /\ MaxLen \in Nat
  <2>1. PICK kind \in Kinds : \E tiles : \E len \in Pieces(kind) :
               nalu = Nalu(n + 1, kind, tiles, len)
    BY DEF Nalus
  <2> QED
    BY <2>1, SizesAssumption DEF Nalu, Pieces
<1>3. Len(f) = nalu.len /\ f # << >>
      /\ \A i \in 1 .. Len(f) : f[i].of = nalu /\ f[i].i = i
  BY <1>2 DEF Fragments
<1>4. Numbered(s) /\ Going(s, << >>, l, p.queued, sh)
  BY Zenon DEF FrameInv
<1> HIDE DEF f, s2, n
<1>5. Numbered(s2)
  <2>1. ASSUME NEW k \in 1 .. n + 1
        PROVE  /\ Len(s2[k]) \in 1 .. MaxLen
               /\ \A i \in 1 .. Len(s2[k]) :
                    s2[k][i].of.id = k /\ s2[k][i].i = i /\ s2[k][i].of.len = Len(s2[k])
    <3>1. CASE k = n + 1
      BY <1>1, <1>2, <1>3, <3>1
    <3>2. CASE k \in 1 .. n
      <4>1. s2[k] = s[k]
        BY <1>1, <3>2
      <4>2. \A m \in 1 .. n :
              /\ Len(s[m]) \in 1 .. MaxLen
              /\ \A i \in 1 .. Len(s[m]) :
                   s[m][i].of.id = m /\ s[m][i].i = i /\ s[m][i].of.len = Len(s[m])
        BY <1>4, Zenon DEF Numbered, n
      <4> QED
        BY <3>2, <4>1, <4>2
    <3> QED
      BY <1>1, <3>1, <3>2
  <2> QED
    BY <1>1, <2>1 DEF Numbered
<1>6. Gone(s2, f) = 0
  BY <1>1, <1>2, <1>3 DEF Gone
<1>7. OnTheWay(s2, f)
  <2>1. \A i \in 1 .. Len(f) : f[i] = f[0 + i]
    BY <1>2, <1>3
  <2> QED
    BY <1>1, <1>2, <1>3, <1>6, <2>1 DEF OnTheWay
<1>8. Past(s, << >>) = n /\ Past(s2, f) = n
  BY <1>1, <1>3 DEF Past, n
<1>9. /\ Len(s) <= Len(s2)
      /\ \A k \in 1 .. Len(s) : s2[k] = s[k]
      /\ Past(s, << >>) <= Past(s2, f)
  BY <1>1, <1>8 DEF n
<1>10. /\ Going(s2, f, l, p.queued, sh)
       /\ Taken(s, << >>, l, b, p.queued, sh) => Taken(s2, f, l, b, p.queued, sh)
  <2>1. l \subseteq l
    OBVIOUS
  <2> QED
    BY <1>1, <1>4, <1>9, <2>1, GoingOn
<1>11. Held(s, << >>, l, b, st) => Held(s2, f, l, b, st)
  <2>1. SubSeq(s2[Len(s2)], 1, 0) = << >>
    BY <1>1, SubSeqEmpty DEF f
  <2>2. Spoilt(l, Len(s2)) \/ ~LostEnd(l, n)
    <3>1. Len(s2) - 1 = n
      BY <1>1
    <3> QED
      BY <3>1, Zenon DEF Spoilt
  <2> QED
    BY <1>3, <1>6, <2>1, <2>2, Zenon DEF Held, n
<1> QED
  BY <1>5, <1>7, <1>10, <1>11, Zenon DEF FrameInv, f, s2

\* A fragment is lost: its frame is spoilt, and the next one if it was the end.
LEMMA FrameLost ==
  ASSUME NEW s \in Seq(Seq(AllFragments)), NEW r \in Seq(AllFragments), r # << >>,
         NEW l, NEW b, NEW st, NEW p, NEW w, NEW sh,
         FrameInv(s, r, l, b, st, p, w, sh)
  PROVE  FrameInv(s, Tail(r), l \cup {Head(r)}, b, st, p, w, sh)
<1> DEFINE l2 == l \cup {Head(r)}
           n == Len(s)
<1>1. Numbered(s) /\ OnTheWay(s, r) /\ Going(s, r, l, p.queued, sh)
  BY Zenon DEF FrameInv
<1>2. /\ OnTheWay(s, Tail(r))
      /\ Head(r).of.id = n
      /\ Tail(r) = << >> => Head(r).i = Head(r).of.len
  <2>1. /\ OnTheWay(s, Tail(r)) /\ Head(r).of.id = n
        /\ Head(r).i = Gone(s, r) + 1 /\ Head(r).of.len = Len(s[Len(s)])
        /\ Tail(r) = << >> <=> Gone(s, r) + 1 = Len(s[Len(s)])
    BY <1>1, NextFragment, Zenon
  <2> QED
    BY <2>1, Zenon
<1>3. Spoilt(l2, n) /\ (Tail(r) = << >> => LostEnd(l2, n))
  <2>1. Head(r) \in l2
    OBVIOUS
  <2> HIDE DEF l2
  <2> QED
    BY <1>2, <2>1, Zenon DEF Spoilt, LostEnd
<1>4. /\ Len(s) <= Len(s) /\ \A k \in 1 .. Len(s) : s[k] = s[k]
      /\ Past(s, r) <= Past(s, Tail(r)) /\ l \subseteq l2
  <2>1. Past(s, r) = Len(s) - 1 /\ Past(s, Tail(r)) \in {Len(s), Len(s) - 1}
    BY <1>1, NextFragment, Zenon
  <2> QED
    BY <2>1
<1> HIDE DEF l2
<1>5. /\ Going(s, Tail(r), l2, p.queued, sh)
      /\ Taken(s, r, l, b, p.queued, sh) => Taken(s, Tail(r), l2, b, p.queued, sh)
  BY <1>1, <1>4, GoingOn, Zenon
<1>6. Held(s, Tail(r), l2, b, st)
  BY <1>3, Zenon DEF Held, n
<1> QED
  BY <1>1, <1>2, <1>5, <1>6, Zenon DEF FrameInv, l2

\* A fragment for a channel that no window shows.
LEMMA FrameSkipped ==
  ASSUME NEW s \in Seq(Seq(AllFragments)), NEW r \in Seq(AllFragments), r # << >>,
         NEW l, NEW b, NEW st, NEW p, NEW sh,
         FrameInv(s, r, l, b, st, p, FALSE, sh)
  PROVE  FrameInv(s, Tail(r), l, << >>, FALSE, p, FALSE, sh)
<1>1. Numbered(s) /\ OnTheWay(s, r) /\ Going(s, r, l, p.queued, sh)
  BY Zenon DEF FrameInv
<1>2. OnTheWay(s, Tail(r))
  BY <1>1, NextFragment, Zenon
<1>3. Going(s, Tail(r), l, p.queued, sh)
  BY <1>1, GoingNext
<1> QED
  BY <1>1, <1>2, <1>3, NothingHeld, Zenon DEF FrameInv

\* The fragment that completes a frame leaves it to be taken.
LEMMA FrameCompleted ==
  ASSUME NEW s \in Seq(Seq(AllFragments)), NEW r \in Seq(AllFragments), r # << >>,
         NEW l, NEW q, NEW sh, NEW b,
         Numbered(s), OnTheWay(s, r), Going(s, r, l, q, sh),
         Tail(r) = << >>, WholeIn(s, l, b), Ident(b) = Len(s)
  PROVE  Taken(s, Tail(r), l, b, q, sh)
<1>1. Past(s, r) = Len(s) - 1 /\ Past(s, Tail(r)) = Len(s) /\ Len(s) \in Nat \ {0}
  BY NextFragment, Zenon DEF Past
<1>2. Ident(sh) < Len(s)
  <2>1. CASE sh = << >>
    BY <1>1, <2>1 DEF Ident
  <2>2. CASE sh # << >>
    <3>1. Ident(sh) <= Len(s) - 1 /\ Ident(sh) \in 1 .. Len(s)
      BY <1>1, <2>2 DEF Going, WholeIn
    <3> QED
      BY <1>1, <3>1
  <2> QED
    BY <2>1, <2>2
<1>3. \A j \in 1 .. Len(q) : Ident(q[j]) < Len(s)
  <2> SUFFICES ASSUME NEW j \in 1 .. Len(q) PROVE Ident(q[j]) < Len(s)
    OBVIOUS
  <2>1. Ident(q[j]) <= Len(s) - 1 /\ Ident(q[j]) \in 1 .. Len(s)
    BY <1>1 DEF Going, WholeIn
  <2> QED
    BY <1>1, <2>1
<1>4. Len(s) <= Len(s)
  BY <1>1
<1> QED
  BY <1>1, <1>2, <1>3, <1>4 DEF Taken

\* process_rtp: the frame goes on, is queued, or is to be taken.
LEMMA FrameUnpacked ==
  ASSUME DecType = "H264",
         NEW s \in Seq(Seq(AllFragments)), NEW r \in Seq(AllFragments), r # << >>,
         NEW l, NEW b \in Seq(AllFragments), NEW d \in DecType_,
         NEW p \in PlaneType, NEW sh,
         FrameInv(s, r, l, b, d.started, p, FALSE, sh)
  PROVE  LET u == Unpacked(d, b, Head(r))
         IN  /\ u.type = "none" =>
                  FrameInv(s, Tail(r), l, u.b, u.d.started, p, FALSE, sh)
             /\ u.type # "none" =>
                  /\ \A st : FrameInv(s, Tail(r), l, u.b, st, p, TRUE, sh)
                  /\ \A st : \A q \in QueueOutcomes(p, u.b) :
                       FrameInv(s, Tail(r), l, << >>, st, q, FALSE, sh)
<1> DEFINE u == Unpacked(d, b, Head(r))
<1>1. Numbered(s) /\ OnTheWay(s, r) /\ Going(s, r, l, p.queued, sh)
  BY Zenon DEF FrameInv
<1>2. p.aborted \/ Held(s, r, l, b, d.started)
  BY Zenon DEF FrameInv
<1>3. OnTheWay(s, Tail(r)) /\ Head(r) \in AllFragments
  BY <1>1, NextFragment, Zenon
<1>4. Going(s, Tail(r), l, p.queued, sh)
  BY <1>1, GoingNext
<1>5. u.b \in Seq(AllFragments)
  BY <1>3, UnpackedType
<1>6. CASE p.aborted
  <2>1. \A q \in QueueOutcomes(p, u.b) : q.aborted /\ Going(s, Tail(r), l, q.queued, sh)
    <3> SUFFICES ASSUME NEW q \in QueueOutcomes(p, u.b)
                 PROVE  q.aborted /\ Going(s, Tail(r), l, q.queued, sh)
      OBVIOUS
    <3> HIDE DEF u
    <3>1. Going(s, Tail(r), l, q.queued, sh)
      BY <1>4, <1>5, <1>6, GoingQueued
    <3>2. q.aborted
      BY <1>6 DEF QueueOutcomes, Queued, Aborted
    <3> QED
      BY <3>1, <3>2
  <2> HIDE DEF u
  <2> QED
    BY <1>1, <1>3, <1>4, <1>6, <2>1, Zenon DEF FrameInv, u
<1>7. CASE ~p.aborted
  <2>1. /\ u.type = "none" => Held(s, Tail(r), l, u.b, u.d.started)
        /\ u.type # "none" =>
             Tail(r) = << >> /\ WholeIn(s, l, u.b) /\ Ident(u.b) = Len(s)
    BY <1>1, <1>2, <1>7, UnpackedFrame, Zenon
  <2> HIDE DEF u
  <2>2. u.type # "none" => Taken(s, Tail(r), l, u.b, p.queued, sh)
    BY <1>1, <2>1, FrameCompleted
  <2>3. ASSUME u.type # "none", NEW q \in QueueOutcomes(p, u.b)
        PROVE  Going(s, Tail(r), l, q.queued, sh)
    BY <1>4, <1>5, <2>2, <2>3, GoingQueued
  <2>4. u.type # "none" => \A st : Held(s, Tail(r), l, << >>, st)
    BY <2>1, Zenon DEF Held
  <2> QED
    BY <1>1, <1>3, <1>4, <2>1, <2>2, <2>3, <2>4, Zenon DEF FrameInv, u
<1> QED
  BY <1>6, <1>7

\* The device takes the frame at the head of the plane.
LEMMA FrameShown ==
  ASSUME NEW s, NEW r, NEW l, NEW b, NEW st, NEW p \in PlaneType, NEW w, NEW sh,
         p.queued # << >>, FrameInv(s, r, l, b, st, p, w, sh),
         NEW p2, p2.queued = Tail(p.queued), p2.aborted = p.aborted
  PROVE  /\ FrameInv(s, r, l, b, st, p2, w, Head(p.queued))
         /\ WholeIn(s, l, Head(p.queued))
         /\ Ident(sh) < Ident(Head(p.queued))
<1> DEFINE q == p.queued
           h == Head(q)
<1>1. q \in Seq(Seq(AllFragments)) /\ q # << >>
  BY DEF PlaneType
<1>2. /\ h = q[1] /\ 1 \in 1 .. Len(q) /\ Len(Tail(q)) = Len(q) - 1 /\ Len(q) \in Nat
      /\ \A j \in 1 .. Len(Tail(q)) : j + 1 \in 1 .. Len(q) /\ Tail(q)[j] = q[j + 1]
  BY <1>1, HeadTailProperties
<1>3. Going(s, r, l, q, sh)
  BY Zenon DEF FrameInv
<1> HIDE DEF h, q
<1>4. WholeIn(s, l, h) /\ Ident(sh) < Ident(h) /\ Ident(h) <= Past(s, r)
  BY <1>2, <1>3 DEF Going
<1>5. ASSUME NEW j \in 1 .. Len(Tail(q))
      PROVE  /\ WholeIn(s, l, Tail(q)[j])
             /\ Ident(h) < Ident(Tail(q)[j]) /\ Ident(Tail(q)[j]) <= Past(s, r)
             /\ \A i \in 1 .. j - 1 : Ident(Tail(q)[i]) < Ident(Tail(q)[j])
  <2>1. Tail(q)[j] = q[j + 1] /\ j + 1 \in 1 .. Len(q) /\ 1 \in 1 .. (j + 1) - 1
    BY <1>2
  <2>2. /\ WholeIn(s, l, q[j + 1]) /\ Ident(q[j + 1]) <= Past(s, r)
        /\ \A i \in 1 .. (j + 1) - 1 : Ident(q[i]) < Ident(q[j + 1])
    BY <1>3, <2>1 DEF Going
  <2>3. ASSUME NEW i \in 1 .. j - 1
        PROVE  Tail(q)[i] = q[i + 1] /\ i + 1 \in 1 .. (j + 1) - 1
    BY <1>2
  <2> QED
    BY <1>2, <2>1, <2>2, <2>3
<1>6. Going(s, r, l, Tail(q), h)
  BY <1>4, <1>5 DEF Going
<1>7. Taken(s, r, l, b, q, sh) => Taken(s, r, l, b, Tail(q), h)
  BY <1>2 DEF Taken
<1> QED
  BY <1>4, <1>6, <1>7, Zenon DEF FrameInv, h, q

\* The capture thread aborts the decoder.
LEMMA FrameAborted ==
  ASSUME NEW s, NEW r, NEW l, NEW b, NEW st, NEW p, NEW w, NEW sh,
         FrameInv(s, r, l, b, st, p, w, sh)
  PROVE  FrameInv(s, r, l, b, st, Aborted(p), w, sh)
<1>1. Aborted(p).queued = << >> /\ Aborted(p).aborted
  BY DEF Aborted
<1>2. Numbered(s) /\ OnTheWay(s, r) /\ Going(s, r, l, << >>, sh)
  BY NothingGoing, Zenon DEF FrameInv
<1> QED
  BY <1>1, <1>2, Zenon DEF FrameInv

-----------------------------------------------------------------------------
(* What each action does to the channels.                                  *)

LEMMA WaitsOnNone ==
  ASSUME NEW e
  PROVE  WaitsOn(Idle, e) = FALSE
<1>1. ~WaitsOn(Idle, e)
  BY IdleNotWaiting DEF WaitsOn
<1>2. WaitsOn(Idle, e) \in BOOLEAN
  BY DEF WaitsOn
<1> QED
  BY <1>1, <1>2

LEMMA WaitsOnOne ==
  ASSUME NEW c, NEW type \in {"I", "P", "PKG", "PPS"}
  PROVE  WaitsOn(Waiting(c, type), c) = TRUE
<1>1. WaitsOn(Waiting(c, type), c)
  BY DEF WaitsOn
<1>2. WaitsOn(Waiting(c, type), c) \in BOOLEAN
  BY DEF WaitsOn
<1> QED
  BY <1>1, <1>2

LEMMA WaitsOnNoOther ==
  ASSUME NEW c, NEW type, NEW e, e # c
  PROVE  WaitsOn(Waiting(c, type), e) = FALSE
<1>1. ~WaitsOn(Waiting(c, type), e)
  BY WaitingInjective DEF WaitsOn
<1>2. WaitsOn(Waiting(c, type), e) \in BOOLEAN
  BY DEF WaitsOn
<1> QED
  BY <1>1, <1>2

\* A channel that a step does not concern.
SameChannel(e) ==
  /\ stream'[e] = stream[e] /\ rest'[e] = rest[e] /\ lost'[e] = lost[e]
  /\ buf'[e] = buf[e] /\ dec'[e].started = dec[e].started
  /\ plane'[e] = plane[e] /\ shown'[e] = shown[e]
  /\ WaitsOn(main', e) = WaitsOn(main, e)

LEMMA OneChannelFrames ==
  ASSUME FramesInOrder, NEW c \in Chns, ChannelFrames(c)',
         \A e \in Chns : e # c => SameChannel(e)
  PROVE  FramesInOrder'
<1> SUFFICES ASSUME NEW e \in Chns, e # c PROVE ChannelFrames(e)'
  BY Zenon DEF FramesInOrder
<1>1. ChannelFrames(e) /\ SameChannel(e)
  BY Zenon DEF FramesInOrder
<1> QED
  BY <1>1, Zenon DEF ChannelFrames, SameChannel

\* pkgProcess with RTP data.
LEMMA FRecvData ==
  ASSUME DecType = "H264", FInv, NEW c \in Chns, RecvData(c)
  PROVE  FramesInOrder'
<1> DEFINE d == [dec[c] EXCEPT !.err = FALSE, !.startRcv = TRUE]
           x == Head(rest[c])
           u == Unpacked(d, buf[c], x)
<1>1. /\ dec \in [Chns -> DecType_]
      /\ plane \in [Chns -> PlaneType]
      /\ buf \in [Chns -> Seq(AllFragments)]
      /\ stream \in [Chns -> Seq(Seq(AllFragments))]
      /\ rest \in [Chns -> Seq(AllFragments)]
      /\ shown \in [Chns -> Seq(AllFragments)]
  BY DEF FInv, HInv, IInv, ChannelTypes
<1>2. d \in DecType_ /\ d.started = dec[c].started
  BY <1>1 DEF DecType_
<1>3. /\ main = Idle /\ rest[c] # << >>
      /\ rest' = [rest EXCEPT ![c] = Tail(rest[c])]
      /\ UNCHANGED <<stream, lost, shown>>
      /\ \/ c < wnd /\ Process(c, d, x)
         \/ c >= wnd /\ dec' = [dec EXCEPT ![c] = d] /\ UNCHANGED <<buf, plane, main>>
  BY DEF RecvData
<1>4. FrameInv(stream[c], rest[c], lost[c], buf[c], d.started, plane[c], FALSE, shown[c])
  <2>1. WaitsOn(main, c) = FALSE
    BY <1>3, WaitsOnNone
  <2> QED
    BY <1>2, <2>1, Zenon DEF FInv, FramesInOrder, ChannelFrames
<1>5. x \in AllFragments
  BY <1>1, <1>3, HeadTailProperties
<1> HIDE DEF d, x
\* What is left to show: the channel itself, once the others are untouched.
<1>6. ASSUME NEW d2, NEW b2, NEW p2,
             dec' = [dec EXCEPT ![c] = d2], buf' = [buf EXCEPT ![c] = b2],
             plane' = [plane EXCEPT ![c] = p2],
             \A e \in Chns : e # c => WaitsOn(main', e) = WaitsOn(main, e),
             FrameInv(stream[c], Tail(rest[c]), lost[c], b2, d2.started, p2,
                      WaitsOn(main', c), shown[c])
      PROVE  FramesInOrder'
  <2>1. \A e \in Chns : e # c => SameChannel(e)
    BY <1>1, <1>3, <1>6 DEF SameChannel
  <2>2. ChannelFrames(c)'
    <3>1. /\ dec'[c] = d2 /\ buf'[c] = b2 /\ plane'[c] = p2 /\ rest'[c] = Tail(rest[c])
          /\ stream' = stream /\ lost' = lost /\ shown' = shown
      BY <1>1, <1>3, <1>6
    <3> QED
      BY <1>6, <3>1, Zenon DEF ChannelFrames
  <2> QED
    BY <2>1, <2>2, OneChannelFrames DEF FInv
<1>7. CASE c >= wnd /\ dec' = [dec EXCEPT ![c] = d] /\ UNCHANGED <<buf, plane, main>>
  <2>1. buf[c] = << >> /\ d.started = FALSE
    BY <1>1, <1>2, <1>7 DEF FInv, HiddenIsClean, DecType_
  <2>2. FrameInv(stream[c], Tail(rest[c]), lost[c], << >>, FALSE, plane[c], FALSE, shown[c])
    BY <1>1, <1>3, <1>4, FrameSkipped
  <2>3. WaitsOn(main', c) = FALSE
    BY <1>3, <1>7, WaitsOnNone
  <2>4. buf' = [buf EXCEPT ![c] = buf[c]] /\ plane' = [plane EXCEPT ![c] = plane[c]]
    BY <1>1, <1>7
  <2>5. FrameInv(stream[c], Tail(rest[c]), lost[c], buf[c], d.started, plane[c],
                 WaitsOn(main', c), shown[c])
    BY <2>1, <2>2, <2>3, Zenon
  <2> QED
    BY <1>6, <1>7, <2>4, <2>5
<1>8. CASE Process(c, d, x)
  <2>1. /\ u.type = "none" =>
             FrameInv(stream[c], Tail(rest[c]), lost[c], u.b, u.d.started, plane[c],
                      FALSE, shown[c])
        /\ u.type # "none" =>
             /\ \A st : FrameInv(stream[c], Tail(rest[c]), lost[c], u.b, st, plane[c],
                                TRUE, shown[c])
             /\ \A st : \A q \in QueueOutcomes(plane[c], u.b) :
                  FrameInv(stream[c], Tail(rest[c]), lost[c], << >>, st, q, FALSE, shown[c])
    <3>1. buf[c] \in Seq(AllFragments) /\ plane[c] \in PlaneType
          /\ stream[c] \in Seq(Seq(AllFragments)) /\ rest[c] \in Seq(AllFragments)
      BY <1>1
    <3> QED
      BY <1>2, <1>3, <1>4, <3>1, FrameUnpacked, Zenon DEF x
  <2>2. u.type \in {"none", "I", "P", "PKG", "PPS"}
    BY <1>1, <1>2, <1>5, UnpackedType
  <2> HIDE DEF u
  <2>3. \/ /\ u.type = "none"
           /\ dec' = [dec EXCEPT ![c] = u.d] /\ buf' = [buf EXCEPT ![c] = u.b]
           /\ UNCHANGED <<plane, main>>
        \/ u.type # "none" /\ PrimePlane(c, u.d, u.b)
        \/ u.type # "none" /\ AwaitBuffer(c, u.d, u.b, u.type)
    BY <1>8 DEF Process, u
  <2>4. plane = [plane EXCEPT ![c] = plane[c]]
    BY <1>1
  <2>5. main' = main =>
          WaitsOn(main', c) = FALSE /\ \A e \in Chns : WaitsOn(main', e) = WaitsOn(main, e)
    BY <1>3, WaitsOnNone
  <2>6. CASE /\ u.type = "none"
             /\ dec' = [dec EXCEPT ![c] = u.d] /\ buf' = [buf EXCEPT ![c] = u.b]
             /\ UNCHANGED <<plane, main>>
    BY <1>6, <2>1, <2>4, <2>5, <2>6
  <2>7. CASE u.type # "none" /\ PrimePlane(c, u.d, u.b)
    <3>1. PICK q \in QueueOutcomes(plane[c], u.b) : plane' = [plane EXCEPT ![c] = q]
      BY <2>7 DEF PrimePlane
    <3> DEFINE d2 == [u.d EXCEPT !.qCount = @ + 1]
    <3>2. dec' = [dec EXCEPT ![c] = d2] /\ buf' = [buf EXCEPT ![c] = << >>] /\ main' = main
      BY <2>7 DEF PrimePlane
    <3> HIDE DEF d2
    <3>3. FrameInv(stream[c], Tail(rest[c]), lost[c], << >>, d2.started, q,
                   WaitsOn(main', c), shown[c])
      <4>1. FrameInv(stream[c], Tail(rest[c]), lost[c], << >>, d2.started, q, FALSE, shown[c])
        BY <2>1, <2>7, <3>1, Zenon
      <4>2. WaitsOn(main', c) = FALSE
        BY <2>5, <3>2, Zenon
      <4> QED
        BY <4>1, <4>2, Zenon
    <3>4. \A e \in Chns : e # c => WaitsOn(main', e) = WaitsOn(main, e)
      BY <2>5, <3>2, Zenon
    <3> QED
      BY <1>6, <3>1, <3>2, <3>3, <3>4, Zenon
  <2>8. CASE u.type # "none" /\ AwaitBuffer(c, u.d, u.b, u.type)
    <3>1. /\ dec' = [dec EXCEPT ![c] = u.d] /\ buf' = [buf EXCEPT ![c] = u.b]
          /\ main' = Waiting(c, u.type) /\ plane' = plane
      BY <2>8 DEF AwaitBuffer
    <3>2. WaitsOn(main', c) = TRUE
          /\ \A e \in Chns : e # c => WaitsOn(main', e) = WaitsOn(main, e)
      <4>1. u.type \in {"I", "P", "PKG", "PPS"}
        BY <2>2, <2>8
      <4>2. WaitsOn(main', c) = TRUE
        BY <3>1, <4>1, WaitsOnOne, Zenon
      <4>3. ASSUME NEW e \in Chns, e # c PROVE WaitsOn(main', e) = WaitsOn(main, e)
        <5>1. WaitsOn(main', e) = FALSE
          BY <3>1, <4>3, WaitsOnNoOther, Zenon
        <5>2. WaitsOn(main, e) = FALSE
          BY <1>3, WaitsOnNone, Zenon
        <5> QED
          BY <5>1, <5>2
      <4> QED
        BY <4>2, <4>3, Zenon
    <3>3. FrameInv(stream[c], Tail(rest[c]), lost[c], u.b, u.d.started, plane[c],
                   WaitsOn(main', c), shown[c])
      BY <2>1, <2>8, <3>2, Zenon
    <3>4. plane' = [plane EXCEPT ![c] = plane[c]]
      BY <2>4, <3>1
    <3>5. \A e \in Chns : e # c => WaitsOn(main', e) = WaitsOn(main, e)
      BY <3>2
    <3> QED
      BY <1>6, <3>1, <3>3, <3>4, <3>5, Zenon
  <2> QED
    BY <2>3, <2>6, <2>7, <2>8
<1> QED
  BY <1>3, <1>7, <1>8

LEMMA FDqSucceeds ==
  ASSUME FInv, DqSucceeds
  PROVE  FramesInOrder'
<1>1. PICK c \in Chns, type \in {"I", "P", "PKG"}, e \in DecType_ :
        /\ main = Waiting(c, type) /\ main' = Idle
        /\ plane[c].done > 0 /\ ~plane[c].aborted
        /\ Wanted(e) /\ e.qCount = dec[c].qCount
        /\ Flush(c, [plane[c] EXCEPT !.done = plane[c].done - 1], e, TRUE)
        /\ UNCHANGED <<wnd, armed, wild, cameras, shown>>
  BY HFlushes DEF FInv
<1> DEFINE p == [plane[c] EXCEPT !.done = plane[c].done - 1]
           f == [e EXCEPT !.started = FALSE]
<1>2. /\ dec \in [Chns -> DecType_]
      /\ plane \in [Chns -> PlaneType]
      /\ buf \in [Chns -> Seq(AllFragments)]
  BY DEF FInv, HInv, IInv, ChannelTypes
<1>3. p \in PlaneType /\ p.queued = plane[c].queued
  <2>1. plane[c] \in PlaneType
    BY <1>2
  <2>2. p \in PlaneType
    BY <1>1, <2>1, DequeuedType, Zenon
  <2> QED
    BY <2>1, <2>2 DEF PlaneType
<1>4. PICK q \in QueueOutcomes(p, buf[c]) : plane' = [plane EXCEPT ![c] = q]
  BY <1>1, Zenon DEF Flush
<1>5. dec' = [dec EXCEPT ![c] = f] /\ buf' = [buf EXCEPT ![c] = << >>] /\ f.started = FALSE
  BY <1>1 DEF Flush, DecType_
<1> HIDE DEF p, f
<1>6. FrameInv(stream[c], rest[c], lost[c], buf[c], dec[c].started, plane[c], TRUE, shown[c])
  <2>1. WaitsOn(main, c) = TRUE
    <3>1. type \in {"I", "P", "PKG", "PPS"}
      BY <1>1
    <3> QED
      BY <1>1, <3>1, WaitsOnOne, Zenon
  <2> QED
    BY <2>1, Zenon DEF FInv, FramesInOrder, ChannelFrames
<1>7. FrameInv(stream[c], rest[c], lost[c], << >>, FALSE, q, FALSE, shown[c])
  <2>1. plane[c] \in PlaneType /\ buf[c] \in Seq(AllFragments)
    BY <1>2
  <2> QED
    BY <1>1, <1>3, <1>4, <1>6, <2>1, FrameFlushed, Zenon
<1>8. WaitsOn(main', c) = FALSE
  BY <1>1, WaitsOnNone, Zenon
<1>9. ChannelFrames(c)'
  <2>1. /\ dec'[c].started = FALSE /\ buf'[c] = << >> /\ plane'[c] = q
        /\ stream' = stream /\ rest' = rest /\ lost' = lost /\ shown' = shown
    BY <1>1, <1>2, <1>4, <1>5 DEF cameras
  <2> QED
    BY <1>7, <1>8, <2>1, Zenon DEF ChannelFrames
<1>10. ASSUME NEW g \in Chns, g # c PROVE SameChannel(g)
  <2>1. WaitsOn(main', g) = FALSE
    BY <1>1, WaitsOnNone, Zenon
  <2>2. WaitsOn(main, g) = FALSE
    BY <1>1, <1>10, WaitsOnNoOther, Zenon
  <2>3. /\ dec'[g] = dec[g] /\ buf'[g] = buf[g] /\ plane'[g] = plane[g]
        /\ stream' = stream /\ rest' = rest /\ lost' = lost /\ shown' = shown
    BY <1>1, <1>2, <1>4, <1>5, <1>10 DEF cameras
  <2> QED
    BY <2>1, <2>2, <2>3, Zenon DEF SameChannel
<1> QED
  BY <1>9, <1>10, OneChannelFrames DEF FInv

\* The wait fails only once the plane was aborted.
LEMMA FDqFails ==
  ASSUME FInv, DqFails
  PROVE  FramesInOrder'
<1>1. PICK c \in Chns, type \in {"I", "P", "PKG", "PPS"} : main = Waiting(c, type)
  BY IdleNotWaiting DEF FInv, HInv, IInv, ChannelTypes, DqFails
<1>2. main.chn = c
  BY <1>1 DEF Waiting
<1>3. /\ plane[c].aborted /\ main' = Idle
      /\ UNCHANGED <<dec, buf, plane, cameras, shown>>
  BY <1>2 DEF DqFails
<1>4. ChannelFrames(c)'
  <2>1. FrameInv(stream[c], rest[c], lost[c], buf[c], dec[c].started, plane[c],
                 WaitsOn(main', c), shown[c])
    BY <1>3, Zenon DEF FInv, FramesInOrder, ChannelFrames, FrameInv
  <2> QED
    BY <1>3, <2>1, Zenon DEF ChannelFrames, cameras
<1>5. ASSUME NEW g \in Chns, g # c PROVE SameChannel(g)
  <2>1. WaitsOn(main', g) = FALSE
    BY <1>3, WaitsOnNone, Zenon
  <2>2. WaitsOn(main, g) = FALSE
    BY <1>1, <1>5, WaitsOnNoOther, Zenon
  <2> QED
    BY <1>3, <2>1, <2>2, Zenon DEF SameChannel, cameras
<1> QED
  BY <1>4, <1>5, OneChannelFrames DEF FInv

LEMMA FStatus ==
  ASSUME FInv, NEW id \in PeerChns,
         \/ \E update \in BOOLEAN, subwin \in Subwins : RecvSubwin(id, update, subwin)
         \/ RecvChnErr(id)
         \/ RecvStray(id)
  PROVE  FramesInOrder'
<1>1. dec \in [Chns -> DecType_] /\ buf \in [Chns -> Seq(AllFragments)]
  BY DEF FInv, HInv, IInv, ChannelTypes
<1>2. main = Idle /\ UNCHANGED <<plane, main, cameras, shown>>
  BY DEF RecvSubwin, Refresh, Cut, RecvChnErr, RecvStray, IndexOutOfRange, chnVars, cameras
<1>3. \/ UNCHANGED <<dec, buf>>
      \/ /\ dec' = [c \in Chns |-> IF WasShown(c) THEN ResetDec(dec[c], FALSE) ELSE dec[c]]
         /\ buf' = [c \in Chns |-> IF WasShown(c) THEN << >> ELSE buf[c]]
      \/ /\ \E err \in BOOLEAN : dec' = [dec EXCEPT ![id] = ResetDec(dec[id], err)]
         /\ buf' = [buf EXCEPT ![id] = << >>]
  BY DEF RecvSubwin, Refresh, Cut, RecvChnErr, RecvStray, IndexOutOfRange, chnVars
<1>4. ASSUME NEW d \in DecType_, NEW err PROVE ResetDec(d, err).started = FALSE
  BY DEF DecType_, ResetDec
<1>5. ASSUME NEW c \in Chns
      PROVE  \/ dec'[c] = dec[c] /\ buf'[c] = buf[c]
             \/ dec'[c].started = FALSE /\ buf'[c] = << >>
  <2>1. dec[c] \in DecType_
    BY <1>1
  <2>2. CASE UNCHANGED <<dec, buf>>
    BY <2>2
  <2>3. CASE /\ dec' = [e \in Chns |-> IF WasShown(e) THEN ResetDec(dec[e], FALSE) ELSE dec[e]]
             /\ buf' = [e \in Chns |-> IF WasShown(e) THEN << >> ELSE buf[e]]
    BY <1>4, <2>1, <2>3
  <2>4. ASSUME NEW err \in BOOLEAN, dec' = [dec EXCEPT ![id] = ResetDec(dec[id], err)],
               buf' = [buf EXCEPT ![id] = << >>]
        PROVE  \/ dec'[c] = dec[c] /\ buf'[c] = buf[c]
               \/ dec'[c].started = FALSE /\ buf'[c] = << >>
    BY <1>1, <1>4, <2>1, <2>4
  <2> QED
    BY <1>3, <2>2, <2>3, <2>4
<1>6. ASSUME NEW c \in Chns PROVE ChannelFrames(c)'
  <2>1. WaitsOn(main, c) = FALSE
    BY <1>2, WaitsOnNone, Zenon
  <2>2. FrameInv(stream[c], rest[c], lost[c], buf[c], dec[c].started, plane[c], FALSE, shown[c])
    BY <2>1, Zenon DEF FInv, FramesInOrder, ChannelFrames
  <2>3. FrameInv(stream[c], rest[c], lost[c], << >>, FALSE, plane[c], FALSE, shown[c])
    BY <2>2, FrameReset
  <2>4. WaitsOn(main', c) = FALSE
    BY <1>2, WaitsOnNone, Zenon
  <2>5. FrameInv(stream[c], rest[c], lost[c], buf'[c], dec'[c].started, plane[c], FALSE, shown[c])
    BY <1>5, <2>2, <2>3, Zenon
  <2> QED
    BY <1>2, <2>4, <2>5, Zenon DEF ChannelFrames, cameras
<1> QED
  BY <1>6 DEF FramesInOrder

LEMMA FEnvironment ==
  ASSUME FInv, NEW c \in Chns,
         SendFrame(c) \/ Lose(c) \/ TimerFires(c) \/ DeviceTakes(c) \/ CaptureAborts(c)
  PROVE  FramesInOrder'
<1>1. UNCHANGED <<dec, buf, main>>
  BY DEF SendFrame, Lose, TimerFires, DeviceTakes, CaptureAborts
<1>2. /\ plane \in [Chns -> PlaneType]
      /\ stream \in [Chns -> Seq(Seq(AllFragments))]
      /\ rest \in [Chns -> Seq(AllFragments)]
      /\ lost \in [Chns -> SUBSET AllFragments]
      /\ shown \in [Chns -> Seq(AllFragments)]
  BY DEF FInv, HInv, IInv, ChannelTypes
<1> DEFINE F(s, r, l, p, sh) ==
             FrameInv(s, r, l, buf[c], dec[c].started, p, WaitsOn(main, c), sh)
<1>3. F(stream[c], rest[c], lost[c], plane[c], shown[c])
  BY Zenon DEF FInv, FramesInOrder, ChannelFrames
<1>4. ASSUME F(stream'[c], rest'[c], lost'[c], plane'[c], shown'[c]),
             \A e \in Chns : e # c =>
               /\ stream'[e] = stream[e] /\ rest'[e] = rest[e] /\ lost'[e] = lost[e]
               /\ plane'[e] = plane[e] /\ shown'[e] = shown[e]
      PROVE  FramesInOrder'
  <2>1. ChannelFrames(c)'
    BY <1>1, <1>4, Zenon DEF ChannelFrames
  <2>2. \A e \in Chns : e # c => SameChannel(e)
    BY <1>1, <1>4, Zenon DEF SameChannel
  <2> QED
    BY <2>1, <2>2, OneChannelFrames DEF FInv
<1>5. CASE SendFrame(c)
  <2>1. PICK nalu \in Nalus(Len(stream[c]) + 1) :
          /\ stream' = [stream EXCEPT ![c] = Append(stream[c], Fragments(nalu))]
          /\ rest' = [rest EXCEPT ![c] = Fragments(nalu)]
    BY <1>5 DEF SendFrame
  <2>2. rest[c] = << >> /\ Len(stream[c]) < MaxFrames /\ UNCHANGED <<lost, plane, shown>>
    BY <1>5 DEF SendFrame
  <2>3. Fragments(nalu) \in Seq(AllFragments)
    <3>1. Len(stream[c]) + 1 \in 1 .. MaxFrames
      BY <1>2, <2>2, SizesAssumption
    <3> QED
      BY <3>1, NaluFragments
  <2>4. F(Append(stream[c], Fragments(nalu)), Fragments(nalu), lost[c], plane[c], shown[c])
    <3>1. stream[c] \in Seq(Seq(AllFragments))
      BY <1>2
    <3>2. F(stream[c], << >>, lost[c], plane[c], shown[c])
      BY <1>3, <2>2, Zenon
    <3> QED
      BY <2>3, <3>1, <3>2, FrameSent, Zenon
  <2> HIDE DEF F
  <2>5. /\ stream'[c] = Append(stream[c], Fragments(nalu)) /\ rest'[c] = Fragments(nalu)
        /\ lost' = lost /\ plane' = plane /\ shown' = shown
        /\ \A e \in Chns : e # c => stream'[e] = stream[e] /\ rest'[e] = rest[e]
    BY <1>2, <2>1, <2>2
  <2> QED
    BY <1>4, <2>4, <2>5, Zenon
<1>6. CASE Lose(c)
  <2>1. /\ rest[c] # << >> /\ lost' = [lost EXCEPT ![c] = lost[c] \cup {Head(rest[c])}]
        /\ rest' = [rest EXCEPT ![c] = Tail(rest[c])] /\ UNCHANGED <<stream, plane, shown>>
    BY <1>6 DEF Lose
  <2>2. F(stream[c], Tail(rest[c]), lost[c] \cup {Head(rest[c])}, plane[c], shown[c])
    <3>1. stream[c] \in Seq(Seq(AllFragments)) /\ rest[c] \in Seq(AllFragments)
      BY <1>2
    <3> QED
      BY <1>3, <2>1, <3>1, FrameLost, Zenon
  <2> HIDE DEF F
  <2>3. /\ rest'[c] = Tail(rest[c]) /\ lost'[c] = lost[c] \cup {Head(rest[c])}
        /\ stream' = stream /\ plane' = plane /\ shown' = shown
        /\ \A e \in Chns : e # c => lost'[e] = lost[e] /\ rest'[e] = rest[e]
    BY <1>2, <2>1
  <2> QED
    BY <1>4, <2>2, <2>3, Zenon
<1>7. CASE TimerFires(c)
  <2>1. UNCHANGED <<stream, rest, lost, plane, shown>>
    BY <1>7 DEF TimerFires, cameras
  <2> HIDE DEF F
  <2> QED
    BY <1>3, <1>4, <2>1, Zenon
<1>8. CASE DeviceTakes(c)
  <2> DEFINE p2 == [plane[c] EXCEPT !.queued = Tail(plane[c].queued), !.done = plane[c].done + 1]
  <2>1. /\ plane[c].queued # << >> /\ shown' = [shown EXCEPT ![c] = Head(plane[c].queued)]
        /\ plane' = [plane EXCEPT ![c] = p2] /\ UNCHANGED <<stream, rest, lost>>
    BY <1>8 DEF DeviceTakes, cameras
  <2>2. p2.queued = Tail(plane[c].queued) /\ p2.aborted = plane[c].aborted
        /\ plane[c] \in PlaneType
    BY <1>2 DEF PlaneType
  <2> HIDE DEF p2
  <2>3. F(stream[c], rest[c], lost[c], p2, Head(plane[c].queued))
    BY <1>3, <2>1, <2>2, FrameShown, Zenon
  <2> HIDE DEF F
  <2>4. /\ plane'[c] = p2 /\ shown'[c] = Head(plane[c].queued)
        /\ stream' = stream /\ rest' = rest /\ lost' = lost
        /\ \A e \in Chns : e # c => plane'[e] = plane[e] /\ shown'[e] = shown[e]
    BY <1>2, <2>1
  <2> QED
    BY <1>4, <2>3, <2>4, Zenon
<1>9. CASE CaptureAborts(c)
  <2>1. plane' = [plane EXCEPT ![c] = Aborted(plane[c])] /\ UNCHANGED <<cameras, shown>>
    BY <1>9 DEF CaptureAborts
  <2>2. F(stream[c], rest[c], lost[c], Aborted(plane[c]), shown[c])
    BY <1>3, FrameAborted, Zenon
  <2> HIDE DEF F
  <2>3. /\ plane'[c] = Aborted(plane[c])
        /\ stream' = stream /\ rest' = rest /\ lost' = lost /\ shown' = shown
        /\ \A e \in Chns : e # c => plane'[e] = plane[e]
    BY <1>2, <2>1 DEF cameras
  <2> QED
    BY <1>4, <2>2, <2>3, Zenon
<1> QED
  BY <1>5, <1>6, <1>7, <1>8, <1>9

LEMMA FInit == ASSUME Init PROVE FInv
<1>1. HInv
  BY HInit
<1>2. InitialDec.started = FALSE /\ InitialPlane.queued = << >>
  BY DEF InitialDec, InitialPlane
<1>3. HiddenIsClean
  BY <1>2 DEF Init, HiddenIsClean
<1>4. ASSUME NEW c \in Chns PROVE ChannelFrames(c)
  <2>1. /\ stream[c] = << >> /\ rest[c] = << >> /\ lost[c] = {} /\ buf[c] = << >>
        /\ dec[c].started = FALSE /\ plane[c].queued = << >> /\ shown[c] = << >>
    BY <1>2 DEF Init
  <2>2. Numbered(<< >>) /\ OnTheWay(<< >>, << >>)
    BY DEF Numbered, OnTheWay
  <2>3. Going(<< >>, << >>, {}, << >>, << >>)
    BY DEF Going
  <2>4. WaitsOn(main, c) = FALSE
    BY WaitsOnNone, Zenon DEF Init
  <2> QED
    BY <2>1, <2>2, <2>3, <2>4, NothingHeld, Zenon DEF ChannelFrames, FrameInv
<1> QED
  BY <1>1, <1>3, <1>4 DEF FInv, FramesInOrder

LEMMA FStep ==
  ASSUME DecType = "H264", FInv, [ChnNext]_chnVars
  PROVE  FInv'
<1>1. HInv'
  BY HStep DEF FInv
<1>2. HiddenIsClean'
  BY CStep DEF FInv, HInv
<1>3. FramesInOrder'
  <2>1. CASE Receive
    BY <2>1, FRecvData, FStatus DEF Receive
  <2>2. CASE Decode
    BY <2>2, FDqFails, FDqSucceeds DEF Decode
  <2>3. CASE Environment
    BY <2>3, FEnvironment DEF Environment
  <2>4. CASE UNCHANGED chnVars
    BY <2>4, Zenon DEF chnVars, FInv, FramesInOrder, ChannelFrames
  <2> QED
    BY <2>1, <2>2, <2>3, <2>4 DEF ChnNext
<1> QED
  BY <1>1, <1>2, <1>3 DEF FInv

-----------------------------------------------------------------------------
(* What the viewer gets.                                                   *)

\* A frame that was not spoilt is named alike by its first and last fragment.
LEMMA ShownFrame ==
  ASSUME NEW s, NEW l, NEW content, Numbered(s), WholeIn(s, l, content),
         ~Spoilt(l, Ident(content)), content \in Seq(AllFragments)
  PROVE  /\ content = s[Ident(content)] /\ Ident(content) \in 1 .. Len(s)
         /\ FrameId(content) = Ident(content)
<1> DEFINE n == Ident(content)
<1>1. content = s[n] /\ n \in 1 .. Len(s)
  BY DEF WholeIn
<1> HIDE DEF n
<1>2. Len(content) \in 1 .. MaxLen /\ \A i \in 1 .. Len(content) : content[i].of.id = n
  BY <1>1 DEF Numbered
<1>3. 1 \in 1 .. Len(content) /\ content # << >>
  BY <1>2, SizesAssumption
<1> QED
  BY <1>1, <1>2, <1>3, Zenon DEF FrameId, n

\* A lost fragment harms no frame but its own and the one behind its end.
LEMMA FramesResync == ASSUME FInv PROVE ResyncsAfterLoss
<1> SUFFICES ASSUME NEW c \in Chns, shown[c] # << >>
             PROVE  LET content == shown[c]
                        n == content[Len(content)].of.id
                    IN  ~Spoilt(lost[c], n) => content = stream[c][n]
  BY Zenon DEF ResyncsAfterLoss, Spoilt, LostEnd
<1>1. WholeIn(stream[c], lost[c], shown[c])
  BY Zenon DEF FInv, FramesInOrder, ChannelFrames, FrameInv, Going
<1> QED
  BY <1>1, Zenon DEF WholeIn, Ident

LEMMA PipeInit == ASSUME Init PROVE Pipe!Init
<1>1. FrameId(<< >>) = 0
  BY DEF FrameId
<1> QED
  BY <1>1 DEF Init, Pipe!Init

\* The device shows the next frame of an unharmed channel, or skips some.
LEMMA PipeShows ==
  ASSUME FInv, NEW c \in Chns, DeviceTakes(c), NothingLost'
  PROVE  Pipe!Next
<1> DEFINE h == Head(plane[c].queued)
           n == Ident(h)
<1>1. /\ plane[c].queued # << >> /\ lost[c] = {}
      /\ shown' = [shown EXCEPT ![c] = h] /\ stream' = stream
  BY DEF DeviceTakes, cameras, NothingLost
<1>2. /\ plane[c] \in PlaneType /\ shown \in [Chns -> Seq(AllFragments)]
      /\ stream[c] \in Seq(Seq(AllFragments))
  BY DEF FInv, HInv, IInv, ChannelTypes
<1>3. Numbered(stream[c])
      /\ Going(stream[c], rest[c], lost[c], plane[c].queued, shown[c])
  BY Zenon DEF FInv, FramesInOrder, ChannelFrames, FrameInv
<1>4. ~Spoilt(lost[c], n) /\ ~Spoilt(lost[c], Ident(shown[c]))
  BY <1>1 DEF Spoilt, LostEnd
<1>5. h \in Seq(AllFragments) /\ h = plane[c].queued[1] /\ 1 \in 1 .. Len(plane[c].queued)
  <2>1. plane[c].queued \in Seq(Seq(AllFragments))
    BY <1>2 DEF PlaneType
  <2> QED
    BY <1>1, <2>1, HeadTailProperties
<1> HIDE DEF h
<1>6. WholeIn(stream[c], lost[c], h) /\ Ident(shown[c]) < Ident(h)
  BY <1>3, <1>5, Zenon DEF Going
<1>7. h = stream[c][n] /\ n \in 1 .. Len(stream[c]) /\ FrameId(h) = n
  BY <1>3, <1>4, <1>5, <1>6, ShownFrame, Zenon
<1>8. FrameId(shown[c]) = Ident(shown[c]) /\ Ident(shown[c]) \in Nat
  <2>1. CASE shown[c] = << >>
    BY <2>1, Zenon DEF FrameId, Ident
  <2>2. CASE shown[c] # << >>
    <3>1. WholeIn(stream[c], lost[c], shown[c])
      BY <1>3, <2>2, Zenon DEF Going
    <3>2. FrameId(shown[c]) = Ident(shown[c]) /\ Ident(shown[c]) \in 1 .. Len(stream[c])
      BY <1>2, <1>3, <1>4, <3>1, ShownFrame
    <3> QED
      BY <3>2
  <2> QED
    BY <2>1, <2>2
<1> HIDE DEF n
<1>9. n \in FrameId(shown[c]) + 1 .. Len(stream[c])
  <2>1. Ident(shown[c]) < n
    BY <1>6, Zenon DEF n
  <2> QED
    BY <1>2, <1>7, <1>8, <2>1
<1>10. [e \in Chns |-> FrameId(shown'[e])]
         = [[e \in Chns |-> FrameId(shown[e])] EXCEPT ![c] = n]
  BY <1>1, <1>2, <1>7
<1>11. Pipe!Show(c, n)
  BY <1>1, <1>7, <1>10 DEF Pipe!Show
<1> QED
  BY <1>9, <1>11 DEF Pipe!Next

LEMMA PipeSends ==
  ASSUME FInv, NEW c \in Chns, SendFrame(c)
  PROVE  Pipe!Next
<1>1. PICK nalu \in Nalus(Len(stream[c]) + 1) :
        stream' = [stream EXCEPT ![c] = Append(stream[c], Fragments(nalu))]
  BY DEF SendFrame
<1>2. shown' = shown /\ stream[c] \in Seq(Seq(AllFragments)) /\ Len(stream[c]) < MaxFrames
  BY DEF SendFrame, FInv, HInv, IInv, ChannelTypes
<1>3. nalu \in AllNalus
  <2>1. Len(stream[c]) + 1 \in 1 .. MaxFrames
    BY <1>2, SizesAssumption
  <2> QED
    BY <2>1 DEF AllNalus
<1>4. Pipe!Send(c, Fragments(nalu))
  BY <1>1, <1>2 DEF Pipe!Send
<1> QED
  BY <1>3, <1>4 DEF Pipe!Next

LEMMA PipeStep ==
  ASSUME FInv, [ChnNext]_chnVars
  PROVE  [NothingLost' => Pipe!Next]_<<stream, shown>>
<1>1. ASSUME ChnNext
      PROVE  \/ \E c \in Chns : SendFrame(c) \/ DeviceTakes(c)
             \/ UNCHANGED <<stream, shown>>
  <2>1. CASE Receive
    BY <2>1 DEF Receive, RecvData, RecvSubwin, Refresh, Cut, RecvChnErr, RecvStray,
                IndexOutOfRange, chnVars, cameras
  <2>2. CASE Decode
    BY <2>2 DEF Decode, DqFails, DqSucceeds, cameras
  <2>3. CASE Environment
    BY <2>3 DEF Environment, Lose, TimerFires, CaptureAborts, cameras
  <2> QED
    BY <1>1, <2>1, <2>2, <2>3 DEF ChnNext
<1> QED
  BY <1>1, PipeSends, PipeShows DEF chnVars

(* The channels of H.264 keep the frames of their cameras apart and in     *)
(* order, and what they hold of the latest one is what has come of it: the *)
(* invariant under the two theorems that follow (stream.c, nvdec.c).       *)
THEOREM H264FramesInOrder ==
  ASSUME DecType = "H264"
  PROVE  Spec => []FramesInOrder
<1>1. Init => FInv
  BY FInit
<1>2. FInv /\ [Next]_vars => FInv'
  BY ChnStep, FStep
<1>3. FInv => FramesInOrder
  BY DEF FInv
<1> QED
  BY <1>1, <1>2, <1>3, PTL DEF Spec

(* A lost fragment harms its own frame and, when it is the end of one, the *)
(* next; every other frame the decoder gets is whole, for any number of    *)
(* channels, cameras, losses, layouts and failing device calls.            *)
THEOREM H264ResyncsAfterLoss ==
  ASSUME DecType = "H264"
  PROVE  Spec => []ResyncsAfterLoss
<1>1. Init => FInv
  BY FInit
<1>2. FInv /\ [Next]_vars => FInv'
  BY ChnStep, FStep
<1>3. FInv => ResyncsAfterLoss
  BY FramesResync
<1> QED
  BY <1>1, <1>2, <1>3, PTL DEF Spec

(* As long as nothing is lost the decoding process is a pipe of frames:    *)
(* each goes to the decoder of its channel whole, at most once and in the  *)
(* order of the camera, across resets and failing device calls.            *)
THEOREM H264FramePipe ==
  ASSUME DecType = "H264"
  PROVE  Spec => ImplementsFramePipe
<1>1. Init => FInv /\ Pipe!Init
  BY FInit, PipeInit
<1>2. FInv /\ [Next]_vars => FInv'
  BY ChnStep, FStep
<1>3. FInv /\ [Next]_vars => [NothingLost' => Pipe!Next]_<<stream, shown>>
  BY ChnStep, PipeStep
<1> QED
  BY <1>1, <1>2, <1>3, PTL DEF Spec, ImplementsFramePipe
-----------------------------------------------------------------------------
(* What the decoder gets, for both codecs, whatever is lost on the way.    *)
(* With H.265 NAL units are collected until one that is decoded, so what   *)
(* is said is about the units of a run.                                    *)

Hit(l, n) == \E x \in l : x.of.id = n

\* In the order of the camera; a run is no longer than what has come.
Ordered(b) ==
  \A k \in 1 .. Len(b) :
    k <= Place(b[k]) /\ \A j \in 1 .. k - 1 : Place(b[j]) < Place(b[k])

Upto(b, u, g) == \A i \in 1 .. g : Has(b, u, i)

Complete(l, b, u) == Hit(l, u.id) \/ Upto(b, u, u.len)

\* What may be given to the decoder.
Good(l, b) == Ordered(b) /\ \A k \in 1 .. Len(b) : Complete(l, b, b[k].of)

Framed(s) == \A k \in 1 .. Len(s) : \E n \in Nalus(k) : s[k] = Fragments(n)

Newest(s) == s[Len(s)][1].of

\* Of the newest unit all has left the camera, or nothing.
Between(s, r) == r = << >> \/ Gone(s, r) = 0

\* x has left the camera.
Came(s, r, x) ==
  /\ x.of.id <= Len(s)
  /\ x.of.id = Len(s) => x.of = Newest(s) /\ x.i <= Gone(s, r)

Behind(s, r, b) == Ordered(b) /\ \A k \in 1 .. Len(b) : Came(s, r, b[k])

\* Only of the newest unit something may be missing that was not lost.
Sound(s, r, l, b) ==
  \A k \in 1 .. Len(b) :
    Complete(l, b, b[k].of) \/ (~Between(s, r) /\ b[k].of.id = Len(s))

\* In the middle of a unit nothing of which was lost, the buffer has all of it
\* that came, once its start was seen.
Growing(s, r, l, b, st, w) ==
  ~Between(s, r) => Hit(l, Len(s)) \/ (~w /\ (st => Upto(b, Newest(s), Gone(s, r))))

\* As in FrameInv; q are the queued buffers.
UnitInv(s, r, l, b, st, q, w, sh) ==
  /\ Framed(s) /\ OnTheWay(s, r)
  /\ Good(l, sh) /\ \A j \in 1 .. Len(q) : Good(l, q[j])
  /\ Behind(s, r, b) /\ Sound(s, r, l, b)
  /\ Growing(s, r, l, b, st, w)

ChannelUnits(c) ==
  UnitInv(stream[c], rest[c], lost[c], buf[c], dec[c].started, plane[c].queued,
          WaitsOn(main, c), shown[c])

UnitsInOrder == \A c \in Chns : ChannelUnits(c)

NInv == IInv /\ HiddenIsClean /\ UnitsInOrder

LEMMA NaluFacts ==
  ASSUME NEW id, NEW n \in Nalus(id)
  PROVE  n.id = id /\ n.len \in 1 .. MaxLen
<1>1. PICK kind \in Kinds : \E tiles : \E len \in Pieces(kind) : n = Nalu(id, kind, tiles, len)
  BY DEF Nalus
<1> QED
  BY <1>1, SizesAssumption DEF Nalu, Pieces

LEMMA FragmentPlace ==
  ASSUME NEW x \in AllFragments
  PROVE  /\ x.of.id \in 1 .. MaxFrames /\ x.of.len \in 1 .. MaxLen /\ x.i \in 1 .. x.of.len
         /\ MaxLen \in Nat /\ MaxFrames \in Nat
<1>1. PICK n \in AllNalus : \E i \in 1 .. n.len : x = Fragments(n)[i]
  BY DEF AllFragments
<1>5. PICK id \in 1 .. MaxFrames : n \in Nalus(id)
  BY DEF AllNalus
<1>2. n.id = id /\ n.len \in 1 .. MaxLen
  BY <1>5, NaluFacts
<1>3. x.of = n /\ x.i \in 1 .. n.len
  BY <1>1 DEF Fragments
<1> QED
  BY <1>2, <1>3, SizesAssumption

LEMMA Multiples ==
  ASSUME NEW a \in Nat, NEW b \in Nat, NEW m \in Nat, a <= b
  PROVE  a * m \in Nat /\ b * m \in Nat /\ a * m <= b * m
<1>1. PICK k \in Nat : b = a + k
  <2>1. b - a \in Nat /\ b = a + (b - a)
    OBVIOUS
  <2> QED
    BY <2>1
<1>2. a * m \in Nat /\ k * m \in Nat
  OBVIOUS
<1>3. b * m = a * m + k * m
  BY <1>1
<1> QED
  BY <1>2, <1>3

LEMMA OneMore ==
  ASSUME NEW a \in Nat \ {0}, NEW m \in Nat
  PROVE  a * m = (a - 1) * m + m /\ (a - 1) * m \in Nat /\ a * m \in Nat
<1>1. PICK k \in Nat : a = k + 1
  <2>1. a - 1 \in Nat /\ a = (a - 1) + 1
    OBVIOUS
  <2> QED
    BY <2>1
<1>2. (k + 1) * m = k * m + m /\ k * m \in Nat
  OBVIOUS
<1> QED
  BY <1>1, <1>2

LEMMA PlaceGrows ==
  ASSUME NEW x \in AllFragments, NEW y \in AllFragments,
         x.of.id < y.of.id \/ (x.of = y.of /\ x.i < y.i)
  PROVE  Place(x) < Place(y) /\ Place(x) \in Nat \ {0} /\ Place(y) \in Nat \ {0}
<1> DEFINE m == x.of.id
           n == y.of.id
           p == (m - 1) * MaxLen
           q == (n - 1) * MaxLen
<1>1. /\ m \in Nat \ {0} /\ x.i \in 1 .. MaxLen /\ MaxLen \in Nat
      /\ n \in Nat \ {0} /\ y.i \in 1 .. MaxLen
  BY FragmentPlace
<1>2. p \in Nat /\ q \in Nat /\ m * MaxLen = p + MaxLen
  <2>1. m * MaxLen = (m - 1) * MaxLen + MaxLen /\ (m - 1) * MaxLen \in Nat
    BY <1>1, OneMore, Zenon
  <2>2. (n - 1) * MaxLen \in Nat
    BY <1>1, OneMore, Zenon
  <2> QED
    BY <2>1, <2>2
<1>3. Place(x) = p + x.i /\ Place(y) = q + y.i
  BY DEF Place
<1>4. CASE m < n
  <2>2. m * MaxLen <= q
    <3>1. m \in Nat /\ n - 1 \in Nat /\ m <= n - 1
      BY <1>1, <1>4
    <3> QED
      BY <1>1, <3>1, Multiples
  <2> HIDE DEF m, n, p, q
  <2> QED
    BY <1>1, <1>2, <1>3, <2>2
<1>5. CASE x.of = y.of /\ x.i < y.i
  <2>1. p = q
    BY <1>5
  <2> HIDE DEF m, n, p, q
  <2> QED
    BY <1>1, <1>2, <1>3, <1>5, <2>1
<1> QED
  BY <1>4, <1>5

\* A fragment is its unit and its place in it.
LEMMA FragmentForm ==
  ASSUME NEW x \in AllFragments
  PROVE  x = [of |-> x.of, i |-> x.i]
<1>1. PICK f \in AllNalus : \E i \in 1 .. f.len : x = Fragments(f)[i]
  BY DEF AllFragments
<1> QED
  BY <1>1 DEF Fragments

\* A fragment that comes behind those of the buffer, and what that leaves.
LEMMA AppendedUnit ==
  ASSUME NEW b \in Seq(AllFragments), NEW x \in AllFragments, Ordered(b),
         \A k \in 1 .. Len(b) : Place(b[k]) < Place(x)
  PROVE  LET a == Appended(b, x)
         IN  /\ a \in Seq(AllFragments) /\ Ordered(a)
             /\ Upto(b, x.of, x.i - 1) => Upto(a, x.of, x.i)
             /\ \A k \in 1 .. Len(a) :
                  \/ a[k] = x
                  \/ \E j \in 1 .. Len(b) :
                       /\ a[k] = b[j]
                       /\ \A l : Complete(l, b, a[k].of) => Complete(l, a, a[k].of)
<1> DEFINE n == Len(b)
<1>1. /\ n \in Nat /\ BufCap \in Nat /\ x.i \in Nat \ {0}
      /\ Place(x) \in Nat \ {0} /\ \A k \in 1 .. n : Place(b[k]) \in Nat
  <2>1. \A y \in AllFragments : Place(y) \in Nat \ {0}
    <3> SUFFICES ASSUME NEW y \in AllFragments PROVE Place(y) \in Nat \ {0}
      OBVIOUS
    <3>1. y.of.id \in Nat \ {0} /\ MaxLen \in Nat /\ y.i \in Nat \ {0}
      BY FragmentPlace
    <3>2. (y.of.id - 1) * MaxLen \in Nat
      BY <3>1, OneMore, Zenon
    <3> DEFINE p == (y.of.id - 1) * MaxLen
    <3>3. Place(y) = p + y.i
      BY DEF Place
    <3> HIDE DEF p
    <3>4. p \in Nat
      BY <3>2 DEF p
    <3> QED
      BY <3>1, <3>3, <3>4
  <2>2. \A k \in 1 .. n : b[k] \in AllFragments
    BY ElementOfSeq
  <2>3. x.i \in Nat \ {0}
    BY FragmentPlace
  <2> QED
    BY <2>1, <2>2, <2>3, SizesAssumption
<1>2. n + 1 <= Place(x)
  <2>1. CASE n = 0
    BY <1>1, <2>1
  <2>2. CASE n # 0
    <3>1. n \in 1 .. n
      BY <1>1, <2>2
    <3>2. n <= Place(b[n]) /\ Place(b[n]) < Place(x) /\ Place(b[n]) \in Nat
      BY <1>1, <3>1 DEF Ordered
    <3> HIDE DEF n
    <3> QED
      BY <1>1, <3>2
  <2> QED
    BY <2>1, <2>2
<1>3. x = [of |-> x.of, i |-> x.i]
  BY FragmentForm
<1>4. CASE n + 1 > BufCap
  <2> DEFINE a == <<x>>
  <2>1. Appended(b, x) = a
    BY <1>4 DEF Appended
  <2>2. a \in Seq(AllFragments) /\ Len(a) = 1 /\ a[1] = x /\ a # << >> /\ DOMAIN a = 1 .. 1
    OBVIOUS
  <2> HIDE DEF a
  <2>3. Ordered(a)
    BY <1>1, <2>2 DEF Ordered
  <2>4. Upto(a, x.of, x.i)
    <3> SUFFICES ASSUME NEW i \in 1 .. x.i PROVE Has(a, x.of, i)
      BY DEF Upto
    <3>1. CASE i = x.i
      <4>1. a[1] = [of |-> x.of, i |-> i] /\ 1 \in DOMAIN a
        BY <1>3, <2>2, <3>1
      <4> QED
        BY <4>1, Zenon DEF Has
    <3>2. CASE i # x.i
      <4>1. a[1].of = x.of /\ a[1].i > i /\ Place(a[1]) > BufCap
        BY <1>1, <1>2, <1>4, <2>2, <3>2
      <4> QED
        BY <2>2, <4>1, Zenon DEF Has
    <3> QED
      BY <3>1, <3>2
  <2>5. \A k \in 1 .. Len(a) : a[k] = x
    BY <2>2
  <2> QED
    BY <2>1, <2>2, <2>3, <2>4, <2>5
<1>5. CASE n + 1 <= BufCap
  <2> DEFINE a == Append(b, x)
  <2>1. Appended(b, x) = a
    BY <1>1, <1>5 DEF Appended
  <2>2. /\ a \in Seq(AllFragments) /\ Len(a) = n + 1 /\ a[n + 1] = x /\ a # << >>
        /\ DOMAIN a = 1 .. n + 1 /\ DOMAIN b = 1 .. n
        /\ \A k \in 1 .. n : a[k] = b[k]
    BY AppendProperties
  <2> HIDE DEF a
  <2>3. Ordered(a)
    <3> SUFFICES ASSUME NEW k \in 1 .. n + 1
                 PROVE  k <= Place(a[k]) /\ \A j \in 1 .. k - 1 : Place(a[j]) < Place(a[k])
      BY <2>2 DEF Ordered
    <3>1. CASE k = n + 1
      <4>1. \A j \in 1 .. k - 1 : j \in 1 .. n /\ a[j] = b[j]
        BY <1>1, <2>2, <3>1
      <4>2. a[k] = x
        BY <2>2, <3>1
      <4> QED
        BY <1>2, <3>1, <4>1, <4>2
    <3>2. CASE k # n + 1
      <4>1. k \in 1 .. n
        BY <1>1, <3>2
      <4>2. \A j \in 1 .. k - 1 : j \in 1 .. n /\ a[j] = b[j]
        BY <1>1, <2>2, <4>1
      <4>3. k <= Place(b[k]) /\ \A j \in 1 .. k - 1 : Place(b[j]) < Place(b[k])
        BY <4>1 DEF Ordered
      <4> QED
        BY <2>2, <4>1, <4>2, <4>3
    <3> QED
      BY <3>1, <3>2
  <2>4. ASSUME NEW u, NEW i, Has(b, u, i) PROVE Has(a, u, i)
    <3>1. CASE \E k \in DOMAIN b : b[k] = [of |-> u, i |-> i]
      <4>1. PICK k \in 1 .. n : b[k] = [of |-> u, i |-> i]
        BY <2>2, <3>1
      <4>2. k \in DOMAIN a /\ a[k] = [of |-> u, i |-> i]
        <5>1. a[k] = b[k]
          BY <2>2
        <5>2. k \in 1 .. n + 1
          BY <1>1
        <5> QED
          BY <2>2, <4>1, <5>1, <5>2
      <4> QED
        BY <4>2, Zenon DEF Has
    <3>2. CASE b # << >> /\ b[1].of = u /\ b[1].i > i /\ Place(b[1]) > BufCap
      <4>1. 1 \in 1 .. n
        BY <3>2
      <4>2. a[1] = b[1]
        BY <2>2, <4>1
      <4> QED
        BY <2>2, <3>2, <4>2, Zenon DEF Has
    <3> QED
      BY <2>4, <3>1, <3>2, Zenon DEF Has
  <2>5. ASSUME Upto(b, x.of, x.i - 1) PROVE Upto(a, x.of, x.i)
    <3> SUFFICES ASSUME NEW i \in 1 .. x.i PROVE Has(a, x.of, i)
      BY DEF Upto
    <3>1. CASE i = x.i
      <4>1. a[n + 1] = [of |-> x.of, i |-> i] /\ n + 1 \in DOMAIN a
        BY <1>1, <1>3, <2>2, <3>1
      <4> QED
        BY <4>1, Zenon DEF Has
    <3>2. CASE i # x.i
      <4>1. i \in 1 .. x.i - 1
        BY <1>1, <3>2
      <4> QED
        BY <2>4, <2>5, <4>1, Zenon DEF Upto
    <3> QED
      BY <3>1, <3>2
  <2>6. ASSUME NEW l, NEW u, Complete(l, b, u) PROVE Complete(l, a, u)
    BY <2>4, <2>6, Zenon DEF Complete, Upto
  <2>7. ASSUME NEW k \in 1 .. Len(a), a[k] # x
        PROVE  \E j \in 1 .. Len(b) : a[k] = b[j]
    <3>1. k \in 1 .. n
      BY <1>1, <2>2, <2>7
    <3> QED
      BY <2>2, <3>1
  <2> HIDE DEF n
  <2> QED
    BY <2>1, <2>2, <2>3, <2>5, <2>6, <2>7, Zenon
<1> QED
  BY <1>1, <1>4, <1>5

LEMMA FramedIsNumbered ==
  ASSUME NEW s \in Seq(Seq(AllFragments)), Framed(s)
  PROVE  Numbered(s)
<1> SUFFICES ASSUME NEW k \in 1 .. Len(s)
             PROVE  /\ Len(s[k]) \in 1 .. MaxLen
                    /\ \A i \in 1 .. Len(s[k]) :
                         s[k][i].of.id = k /\ s[k][i].i = i /\ s[k][i].of.len = Len(s[k])
  BY DEF Numbered
<1>1. PICK n \in Nalus(k) : s[k] = Fragments(n)
  BY DEF Framed
<1>2. n.id = k /\ n.len \in 1 .. MaxLen
  BY NaluFacts
<1>3. Len(s[k]) = n.len /\ \A i \in 1 .. n.len : s[k][i].of = n /\ s[k][i].i = i
  BY <1>1, <1>2, SizesAssumption DEF Fragments
<1> QED
  BY <1>2, <1>3

\* The newest unit, while some of it is on its way.
LEMMA NewestUnit ==
  ASSUME NEW s \in Seq(Seq(AllFragments)), Framed(s), Len(s) >= 1
  PROVE  /\ Newest(s).id = Len(s)
         /\ \A i \in 1 .. Len(s[Len(s)]) : s[Len(s)][i] = [of |-> Newest(s), i |-> i]
<1> DEFINE n == Len(s)
<1>1. n \in 1 .. Len(s)
  OBVIOUS
<1>2. PICK nalu \in Nalus(n) : s[n] = Fragments(nalu)
  BY <1>1 DEF Framed
<1>3. nalu.id = n /\ nalu.len \in 1 .. MaxLen
  BY NaluFacts
<1>4. Len(s[n]) = nalu.len /\ 1 \in 1 .. nalu.len
  BY <1>2, <1>3, SizesAssumption DEF Fragments
<1>5. \A i \in 1 .. nalu.len : s[n][i] = [of |-> nalu, i |-> i]
  BY <1>2 DEF Fragments
<1>6. Newest(s) = nalu
  <2>1. s[n][1] = [of |-> nalu, i |-> 1]
    BY <1>4, <1>5, Zenon
  <2>2. Newest(s) = s[n][1].of
    BY DEF Newest
  <2> HIDE DEF n
  <2> QED
    BY <2>1, <2>2
<1> QED
  BY <1>3, <1>4, <1>5, <1>6

\* Unpacking with H.265: what happens to the buffer, and what it says.
LEMMA UnpackedUnitH265 ==
  ASSUME DecType = "H265", NEW d \in DecType_, NEW b, NEW x \in AllFragments
  PROVE  LET u == Unpacked(d, b, x)
             skipped == x.of.kind = "Skipped"
             headless == ~skipped /\ Headless(d, x)
         IN  /\ skipped => u.b = b /\ u.type = "none" /\ u.d.started = d.started
             /\ headless => u.b = << >> /\ u.type = "none" /\ u.d.started = d.started
             /\ ~skipped /\ ~headless =>
                  /\ u.b = Appended(b, x)
                  /\ u.d.started = (d.started \/ IsStart(x))
                  /\ u.type # "none" => IsSingle(x) \/ IsEnd(x)
<1>1. Unpacked(d, b, x) = UnpackedH265(d, b, x)
  BY DEF Unpacked
<1>2. /\ Counted(d, x).started = d.started
      /\ [Counted(d, x) EXCEPT !.started = @ \/ IsStart(x)].started = (d.started \/ IsStart(x))
  <2>1. Counted(d, x) \in DecType_ /\ Counted(d, x).started = d.started
    <3>1. x.of.tiles \in Nat
      BY FragmentFacts
    <3> DEFINE type   == CompletedH265(x)
               parsed == IF x.of.kind = "Pps" THEN [d EXCEPT !.columns = x.of.tiles] ELSE d
               si == IF type = "I" /\ IsEnd(x) /\ d.columns > 0
                     THEN parsed.sliceI + 1 ELSE parsed.sliceI
               sp == IF type = "P" /\ d.columns > 0
                     THEN parsed.sliceP + 1 ELSE parsed.sliceP
    <3>2. parsed \in DecType_ /\ parsed.started = d.started
      BY <3>1 DEF DecType_
    <3>3. \/ Counted(d, x) = [parsed EXCEPT !.sliceI = 0, !.sliceP = 0]
          \/ Counted(d, x) = [parsed EXCEPT !.sliceI = si, !.sliceP = sp]
      BY Zenon DEF Counted
    <3> HIDE DEF parsed, type
    <3>4. si \in Nat /\ sp \in Nat
      BY <3>2 DEF DecType_
    <3> HIDE DEF si, sp
    <3>7. CASE Counted(d, x) = [parsed EXCEPT !.sliceI = 0, !.sliceP = 0]
      <4> DEFINE e == [parsed EXCEPT !.sliceI = 0, !.sliceP = 0]
      <4>1. e \in DecType_ /\ e.started = d.started
        BY <3>2 DEF DecType_
      <4>2. Counted(d, x) = e
        BY <3>7, Zenon
      <4> HIDE DEF e
      <4> QED
        BY <4>1, <4>2, Zenon
    <3>8. CASE Counted(d, x) = [parsed EXCEPT !.sliceI = si, !.sliceP = sp]
      <4> DEFINE e == [parsed EXCEPT !.sliceI = si, !.sliceP = sp]
      <4>1. e \in DecType_ /\ e.started = d.started
        BY <3>2, <3>4 DEF DecType_
      <4>2. Counted(d, x) = e
        BY <3>8, Zenon
      <4> HIDE DEF e
      <4> QED
        BY <4>1, <4>2, Zenon
    <3> QED
      BY <3>3, <3>7, <3>8, Zenon
  <2> HIDE DEF Counted
  <2> QED
    BY <2>1 DEF DecType_
<1>3. CompletedH265(x) # "none" => IsSingle(x) \/ IsEnd(x)
  BY DEF CompletedH265
<1>4. CASE x.of.kind = "Skipped"
  BY <1>1, <1>4 DEF UnpackedH265
<1>5. CASE x.of.kind # "Skipped" /\ Headless(d, x)
  <2>1. UnpackedH265(d, b, x) = [d |-> Counted(d, x), b |-> << >>, type |-> "none"]
    BY <1>5, Zenon DEF UnpackedH265
  <2> QED
    BY <1>1, <1>2, <1>5, <2>1
<1>6. CASE x.of.kind # "Skipped" /\ ~Headless(d, x)
  <2> DEFINE e == [Counted(d, x) EXCEPT !.started = @ \/ IsStart(x)]
             a == Appended(b, x)
             t == CompletedH265(x)
  <2>1. UnpackedH265(d, b, x) = [d |-> e, b |-> a, type |-> t]
    BY <1>6, Zenon DEF UnpackedH265
  <2>2. e.started = (d.started \/ IsStart(x)) /\ (t # "none" => IsSingle(x) \/ IsEnd(x))
    BY <1>2, <1>3, Zenon
  <2> HIDE DEF e, a, t
  <2>3. Unpacked(d, b, x).d = e /\ Unpacked(d, b, x).b = a /\ Unpacked(d, b, x).type = t
    BY <1>1, <2>1
  <2> QED
    BY <1>6, <2>2, <2>3, Zenon DEF a
<1> QED
  BY <1>4, <1>5, <1>6

LEMMA UnpackedUnit ==
  ASSUME NEW d \in DecType_, NEW b, NEW x \in AllFragments
  PROVE  LET u == Unpacked(d, b, x)
         IN  \/ /\ x.of.kind = "Skipped"
                /\ u.b = b /\ u.type = "none" /\ u.d.started = d.started
             \/ /\ Headless(d, x)
                /\ u.b = << >> /\ u.type = "none" /\ u.d.started = d.started
             \/ /\ ~Headless(d, x)
                /\ u.b = Appended(b, x)
                /\ u.d.started = (d.started \/ IsStart(x))
                /\ u.type # "none" => IsSingle(x) \/ IsEnd(x)
<1>1. CASE DecType = "H265"
  BY <1>1, UnpackedUnitH265
<1>2. CASE DecType # "H265"
  <2>1. Unpacked(d, b, x) = UnpackedH264(d, b, x)
    BY <1>2 DEF Unpacked
  <2>2. CompletedH264(x) # "none" => IsSingle(x) \/ IsEnd(x)
    BY DEF CompletedH264
  <2>3. [d EXCEPT !.started = @ \/ IsStart(x)].started = (d.started \/ IsStart(x))
    BY DEF DecType_
  <2> QED
    BY <2>1, <2>2, <2>3 DEF UnpackedH264
<1> QED
  BY <1>1, <1>2

\* A NAL unit that is passed over comes in a single packet.
LEMMA SkippedIsSingle ==
  ASSUME NEW x \in AllFragments, x.of.kind = "Skipped"
  PROVE  x.of.len = 1
<1>1. PICK n \in AllNalus : \E i \in 1 .. n.len : x = Fragments(n)[i]
  BY DEF AllFragments
<1>2. PICK id \in 1 .. MaxFrames, kind \in Kinds : \E tiles : \E len \in Pieces(kind) :
        n = Nalu(id, kind, tiles, len)
  BY DEF AllNalus, Nalus
<1>3. x.of = n
  BY <1>1 DEF Fragments
<1> QED
  BY <1>2, <1>3 DEF Nalu, Pieces

\* The next packet: a unit is complete, or it goes on.
LEMMA UnpackedUnits ==
  ASSUME NEW s \in Seq(Seq(AllFragments)), NEW r \in Seq(AllFragments), r # << >>,
         NEW l, NEW b \in Seq(AllFragments), NEW d \in DecType_,
         Framed(s), OnTheWay(s, r), Behind(s, r, b), Sound(s, r, l, b),
         Growing(s, r, l, b, d.started, FALSE)
  PROVE  LET u == Unpacked(d, b, Head(r))
         IN  /\ Behind(s, Tail(r), u.b) /\ Sound(s, Tail(r), l, u.b)
             /\ Growing(s, Tail(r), l, u.b, u.d.started, FALSE)
             /\ u.type # "none" => Between(s, Tail(r))
<1> DEFINE n == Len(s)
           m == Len(s[n])
           g == Gone(s, r)
           x == Head(r)
           a == Appended(b, x)
           u == Unpacked(d, b, x)
           t == Tail(r)
<1>1. /\ n \in Nat \ {0} /\ m \in 1 .. MaxLen /\ g \in 0 .. m - 1
      /\ x = s[n][g + 1] /\ x \in AllFragments
      /\ x.of.id = n /\ x.i = g + 1 /\ x.of.len = m
      /\ t = << >> <=> g + 1 = m
      /\ Gone(s, t) = g + 1
  BY FramedIsNumbered, NextFragment, Zenon
<1>2. m \in Nat /\ g \in Nat /\ g + 1 <= m /\ m >= 1 /\ g + 1 \in 1 .. m
  BY <1>1, SizesAssumption
<1>3. x.of = Newest(s)
  <2>1. \A i \in 1 .. m : s[n][i] = [of |-> Newest(s), i |-> i]
    <3>1. Len(s) >= 1
      BY <1>1
    <3> QED
      BY <3>1, NewestUnit, Zenon
  <2>2. s[n][g + 1] = [of |-> Newest(s), i |-> g + 1]
    BY <1>2, <2>1, Zenon
  <2> QED
    BY <1>1, <2>2
<1>4. \/ /\ x.of.kind = "Skipped"
         /\ u.b = b /\ u.type = "none" /\ u.d.started = d.started
      \/ /\ Headless(d, x)
         /\ u.b = << >> /\ u.type = "none" /\ u.d.started = d.started
      \/ /\ ~Headless(d, x)
         /\ u.b = a
         /\ u.d.started = (d.started \/ IsStart(x))
         /\ u.type # "none" => IsSingle(x) \/ IsEnd(x)
  <2>1. x \in AllFragments
    BY <1>1, Zenon
  <2> HIDE DEF x
  <2> QED
    BY <2>1, UnpackedUnit
<1>5. x.of.kind = "Skipped" => m = 1
  BY <1>1, SkippedIsSingle
<1>6. b # << >> => \A k \in 1 .. Len(b) : b[k] \in AllFragments
  BY ElementOfSeq
<1> HIDE DEF n, m, g, x, a, u, t
<1>7. /\ IsSingle(x) <=> m = 1
      /\ IsStart(x) <=> m > 1 /\ g = 0
      /\ IsEnd(x) <=> m > 1 /\ g + 1 = m
  BY <1>1, <1>2 DEF IsSingle, IsStart, IsEnd
<1>8. (Between(s, r) <=> g = 0) /\ (Between(s, t) <=> g + 1 = m)
  <2>1. Between(s, r) <=> g = 0
    BY Zenon DEF Between, g
  <2>2. Between(s, t) <=> g + 1 = m
    BY <1>1, <1>2 DEF Between
  <2> QED
    BY <2>1, <2>2
\* What has come before x.
<1>9. ASSUME NEW k \in 1 .. Len(b)
      PROVE  /\ b[k] \in AllFragments
             /\ b[k].of.id < n \/ (b[k].of = x.of /\ b[k].i < x.i)
             /\ Came(s, t, b[k])
  <2>1. b[k] \in AllFragments
    BY ElementOfSeq
  <2>2. b[k].of.id \in Nat /\ b[k].i \in Nat
    BY <2>1, FragmentPlace
  <2>3. b[k].of.id <= n /\ (b[k].of.id = n => b[k].of = x.of /\ b[k].i <= g)
    BY <1>3, Zenon DEF Behind, Came, n, g
  <2>4. b[k].of.id < n \/ (b[k].of = x.of /\ b[k].i < x.i)
    BY <1>1, <1>2, <2>2, <2>3
  <2>5. b[k].of.id = n => b[k].of = Newest(s) /\ b[k].i <= g + 1
    BY <1>2, <1>3, <2>2, <2>3
  <2>6. Came(s, t, b[k])
    BY <1>1, <2>3, <2>5, Zenon DEF Came, n
  <2> QED
    BY <2>1, <2>4, <2>6
<1>10. CASE u.b = << >> /\ u.type = "none" /\ (g + 1 = m \/ ~u.d.started)
  <2>1. Behind(s, t, << >>) /\ Sound(s, t, l, << >>)
    BY DEF Behind, Ordered, Sound
  <2>2. Growing(s, t, l, << >>, u.d.started, FALSE)
    BY <1>8, <1>10, Zenon DEF Growing
  <2> QED
    BY <1>10, <2>1, <2>2, Zenon DEF u, t, x
<1>11. CASE x.of.kind = "Skipped" /\ u.b = b /\ u.type = "none"
  <2>1. m = 1 /\ g = 0 /\ g + 1 = m
    BY <1>2, <1>5, <1>11
  <2>2. Between(s, r) /\ Between(s, t)
    BY <1>8, <2>1
  <2>3. Behind(s, t, b)
    BY <1>9, Zenon DEF Behind
  <2>4. Sound(s, t, l, b)
    BY <2>2, Zenon DEF Sound
  <2>5. Growing(s, t, l, b, u.d.started, FALSE)
    BY <2>2, Zenon DEF Growing
  <2> QED
    BY <1>11, <2>3, <2>4, <2>5, Zenon DEF u, t, x
<1>12. CASE /\ ~Headless(d, x) /\ u.b = a
            /\ u.d.started = (d.started \/ IsStart(x))
            /\ u.type # "none" => IsSingle(x) \/ IsEnd(x)
  <2>1. /\ a \in Seq(AllFragments) /\ Ordered(a)
        /\ Upto(b, x.of, x.i - 1) => Upto(a, x.of, x.i)
        /\ \A k \in 1 .. Len(a) :
             \/ a[k] = x
             \/ \E j \in 1 .. Len(b) :
                  /\ a[k] = b[j]
                  /\ \A h : Complete(h, b, a[k].of) => Complete(h, a, a[k].of)
    <3>1. \A k \in 1 .. Len(b) : Place(b[k]) < Place(x)
      BY <1>1, <1>9, PlaceGrows
    <3>2. Ordered(b)
      BY Zenon DEF Behind
    <3> QED
      BY <1>1, <3>1, <3>2, AppendedUnit, Zenon DEF a
  <2>2. Behind(s, t, a)
    <3> SUFFICES ASSUME NEW k \in 1 .. Len(a) PROVE Came(s, t, a[k])
      BY <2>1, Zenon DEF Behind
    <3>1. CASE a[k] = x
      <4>1. x.of.id <= n /\ x.i <= g + 1
        BY <1>1, <1>2
      <4> QED
        BY <1>1, <1>3, <3>1, <4>1, Zenon DEF Came, n
    <3>2. CASE \E j \in 1 .. Len(b) : a[k] = b[j]
      BY <1>9, <3>2, Zenon
    <3> QED
      BY <2>1, <3>1, <3>2, Zenon
  \* What there is of the unit of x, once its start was seen.
  <2>3. ASSUME ~Hit(l, n), g = 0 \/ d.started PROVE Upto(a, x.of, g + 1)
    <3>1. CASE g = 0
      <4>1. Upto(b, x.of, 0)
        BY DEF Upto
      <4>2. x.i - 1 = 0
        BY <1>1, <3>1
      <4> QED
        BY <1>1, <2>1, <4>1, <4>2, Zenon
    <3>2. CASE g # 0
      <4>1. Upto(b, x.of, g)
        BY <1>3, <1>8, <2>3, <3>2, Zenon DEF Growing, n, g
      <4>2. x.i - 1 = g
        BY <1>1, <1>2
      <4> QED
        BY <1>1, <2>1, <4>1, <4>2, Zenon
    <3> QED
      BY <3>1, <3>2
  <2>4. g + 1 = m => g = 0 \/ d.started
    BY <1>2, <1>7, <1>12 DEF Headless
  <2>5. Sound(s, t, l, a)
    <3> SUFFICES ASSUME NEW k \in 1 .. Len(a), Between(s, t) \/ a[k].of.id # n
                 PROVE  Complete(l, a, a[k].of)
      BY Zenon DEF Sound, n
    <3>1. CASE a[k].of = x.of
      <4>1. g + 1 = m
        BY <1>1, <1>8, <3>1
      <4>2. ~Hit(l, n) => Upto(a, x.of, x.of.len)
        BY <1>1, <2>3, <2>4, <4>1, Zenon
      <4> QED
        BY <1>1, <3>1, <4>2, Zenon DEF Complete
    <3>2. ASSUME NEW j \in 1 .. Len(b), a[k] = b[j], a[k].of # x.of,
                 \A h : Complete(h, b, a[k].of) => Complete(h, a, a[k].of)
          PROVE  Complete(l, a, a[k].of)
      <4>1. b[j].of.id < n
        BY <1>9, <3>2, Zenon
      <4>2. b[j].of.id # n
        <5>1. b[j].of.id \in Nat
          BY <1>9, FragmentPlace
        <5> QED
          BY <1>1, <4>1, <5>1
      <4>3. Complete(l, b, b[j].of)
        BY <4>2, Zenon DEF Sound, n
      <4> QED
        BY <3>2, <4>3, Zenon
    <3> QED
      BY <2>1, <3>1, <3>2, Zenon
  <2>6. Growing(s, t, l, a, u.d.started, FALSE)
    <3> SUFFICES ASSUME g + 1 # m, ~Hit(l, n), u.d.started
                 PROVE  Upto(a, Newest(s), g + 1)
      BY <1>1, <1>8, Zenon DEF Growing, n
    <3>1. g = 0 \/ d.started
      BY <1>7, <1>12, Zenon
    <3> QED
      BY <1>3, <2>3, <3>1, Zenon
  <2>7. u.type # "none" => Between(s, t)
    <3>1. u.type # "none" => m = 1 \/ g + 1 = m
      BY <1>7, <1>12
    <3>2. m = 1 => g + 1 = m
      BY <1>2
    <3> QED
      BY <1>8, <3>1, <3>2
  <2> QED
    BY <1>12, <2>2, <2>5, <2>6, <2>7, Zenon DEF u, t, x
<1>13. Headless(d, x) => g + 1 = m
  BY <1>7 DEF Headless
<1> QED
  BY <1>4, <1>10, <1>11, <1>12, <1>13

\* Queueing what is good leaves only such runs in the plane.
LEMMA UnitsQueued ==
  ASSUME NEW p \in PlaneType, NEW l, NEW b \in Seq(AllFragments), Good(l, b),
         \A j \in 1 .. Len(p.queued) : Good(l, p.queued[j]),
         NEW q \in QueueOutcomes(p, b)
  PROVE  \A j \in 1 .. Len(q.queued) : Good(l, q.queued[j])
<1>1. p.queued \in Seq(Seq(AllFragments))
  BY DEF PlaneType
<1>2. CASE q = Aborted(p)
  <2>1. q.queued = << >>
    BY <1>2 DEF Aborted
  <2> QED
    BY <2>1
<1>3. CASE q = p
  BY <1>3
<1>4. CASE q = [p EXCEPT !.queued = Append(p.queued, b)]
  <2>1. q.queued = Append(p.queued, b)
    BY <1>4 DEF PlaneType
  <2>2. /\ Len(p.queued) \in Nat /\ Len(q.queued) = Len(p.queued) + 1
        /\ q.queued[Len(p.queued) + 1] = b
        /\ \A j \in 1 .. Len(p.queued) : q.queued[j] = p.queued[j]
    BY <1>1, <2>1, AppendProperties
  <2> SUFFICES ASSUME NEW j \in 1 .. Len(q.queued) PROVE Good(l, q.queued[j])
    OBVIOUS
  <2>3. CASE j = Len(p.queued) + 1
    BY <2>2, <2>3, Zenon
  <2>4. CASE j # Len(p.queued) + 1
    <3>1. j \in 1 .. Len(p.queued)
      BY <2>2, <2>4
    <3> QED
      BY <2>2, <3>1, Zenon
  <2> QED
    BY <2>3, <2>4
<1> QED
  BY <1>2, <1>3, <1>4 DEF QueueOutcomes, Queued

\* While the newest unit is no concern, nothing depends on the start seen or on
\* the thread.
Steady(s, r, l) == Between(s, r) \/ Hit(l, Len(s))

LEMMA UnitRests ==
  ASSUME NEW s, NEW r, NEW l, Framed(s), OnTheWay(s, r), Steady(s, r, l),
         NEW b, Behind(s, r, b), Sound(s, r, l, b),
         NEW q, \A j \in 1 .. Len(q) : Good(l, q[j]), NEW sh, Good(l, sh)
  PROVE  \A st, w : UnitInv(s, r, l, b, st, q, w, sh)
  BY Zenon DEF UnitInv, Steady, Growing

LEMMA NothingRests ==
  ASSUME NEW s, NEW r, NEW l
  PROVE  Behind(s, r, << >>) /\ Sound(s, r, l, << >>) /\ Good(l, << >>)
  BY DEF Behind, Sound, Good, Ordered

\* A channel that is reset, with the thread elsewhere.
LEMMA UnitReset ==
  ASSUME NEW s, NEW r, NEW l, NEW b, NEW st, NEW q, NEW w, NEW sh,
         UnitInv(s, r, l, b, st, q, w, sh)
  PROVE  UnitInv(s, r, l, << >>, FALSE, q, FALSE, sh)
<1>1. Growing(s, r, l, << >>, FALSE, FALSE)
  BY Zenon DEF Growing
<1> QED
  BY <1>1, NothingRests, Zenon DEF UnitInv

\* What a thread that waits for an output buffer is about to queue.
LEMMA UnitWaits ==
  ASSUME NEW s, NEW r, NEW l, NEW b, NEW st, NEW q, NEW sh,
         UnitInv(s, r, l, b, st, q, TRUE, sh)
  PROVE  /\ Framed(s) /\ OnTheWay(s, r) /\ Steady(s, r, l) /\ Good(l, b) /\ Good(l, sh)
         /\ \A j \in 1 .. Len(q) : Good(l, q[j])
         /\ \A v, w : UnitInv(s, r, l, b, v, q, w, sh)
<1>1. /\ Framed(s) /\ OnTheWay(s, r) /\ Good(l, sh)
      /\ \A j \in 1 .. Len(q) : Good(l, q[j])
      /\ Behind(s, r, b) /\ Sound(s, r, l, b)
  BY Zenon DEF UnitInv
<1>2. Steady(s, r, l)
  BY Zenon DEF UnitInv, Growing, Steady
<1>3. Good(l, b)
  <2> SUFFICES ASSUME NEW k \in 1 .. Len(b) PROVE Complete(l, b, b[k].of)
    BY <1>1, Zenon DEF Good, Behind
  <2>1. Complete(l, b, b[k].of) \/ (~Between(s, r) /\ b[k].of.id = Len(s))
    BY <1>1, Zenon DEF Sound
  <2> QED
    BY <1>2, <2>1, Zenon DEF Steady, Complete
<1> QED
  BY <1>1, <1>2, <1>3, UnitRests, Zenon

\* process_rtp: the run goes on, or it is queued or about to be.
LEMMA UnitUnpacked ==
  ASSUME NEW s \in Seq(Seq(AllFragments)), NEW r \in Seq(AllFragments), r # << >>,
         NEW l, NEW b \in Seq(AllFragments), NEW d \in DecType_, NEW p \in PlaneType, NEW sh,
         UnitInv(s, r, l, b, d.started, p.queued, FALSE, sh)
  PROVE  LET u == Unpacked(d, b, Head(r))
         IN  /\ u.type = "none" =>
                  UnitInv(s, Tail(r), l, u.b, u.d.started, p.queued, FALSE, sh)
             /\ u.type # "none" =>
                  /\ \A st : UnitInv(s, Tail(r), l, u.b, st, p.queued, TRUE, sh)
                  /\ \A st : \A q \in QueueOutcomes(p, u.b) :
                       UnitInv(s, Tail(r), l, << >>, st, q.queued, FALSE, sh)
<1> DEFINE x == Head(r)
           u == Unpacked(d, b, x)
           t == Tail(r)
<1>1. /\ Framed(s) /\ OnTheWay(s, r) /\ Good(l, sh)
      /\ \A j \in 1 .. Len(p.queued) : Good(l, p.queued[j])
      /\ Behind(s, r, b) /\ Sound(s, r, l, b)
      /\ Growing(s, r, l, b, d.started, FALSE)
  BY Zenon DEF UnitInv
<1>2. OnTheWay(s, t) /\ x \in AllFragments
  BY <1>1, FramedIsNumbered, NextFragment, Zenon
<1>3. /\ Behind(s, t, u.b) /\ Sound(s, t, l, u.b)
      /\ Growing(s, t, l, u.b, u.d.started, FALSE)
      /\ u.type # "none" => Between(s, t)
  BY <1>1, UnpackedUnits, Zenon
<1> HIDE DEF x
<1>4. u.b \in Seq(AllFragments)
  BY <1>2, UnpackedType
<1> HIDE DEF u, t
<1>5. UnitInv(s, t, l, u.b, u.d.started, p.queued, FALSE, sh)
  BY <1>1, <1>2, <1>3, Zenon DEF UnitInv
<1>6. ASSUME u.type # "none"
      PROVE  /\ \A st : UnitInv(s, t, l, u.b, st, p.queued, TRUE, sh)
             /\ \A st : \A q \in QueueOutcomes(p, u.b) :
                  UnitInv(s, t, l, << >>, st, q.queued, FALSE, sh)
  <2>1. Steady(s, t, l)
    BY <1>3, <1>6, Zenon DEF Steady
  <2>2. \A st, w : UnitInv(s, t, l, u.b, st, p.queued, w, sh)
    BY <1>1, <1>2, <1>3, <2>1, UnitRests, Zenon
  <2>3. Good(l, u.b)
    BY <2>2, UnitWaits, Zenon
  <2>4. ASSUME NEW st, NEW q \in QueueOutcomes(p, u.b)
        PROVE  UnitInv(s, t, l, << >>, st, q.queued, FALSE, sh)
    <3>1. \A j \in 1 .. Len(q.queued) : Good(l, q.queued[j])
      BY <1>1, <1>4, <2>3, <2>4, UnitsQueued, Zenon
    <3> QED
      BY <1>1, <1>2, <2>1, <3>1, NothingRests, UnitRests, Zenon
  <2> QED
    BY <2>2, <2>4, Zenon
<1> QED
  BY <1>5, <1>6, Zenon DEF u, x, t

\* A packet for a channel that no window shows: it is clean and stays so.
LEMMA UnitSkipped ==
  ASSUME NEW s \in Seq(Seq(AllFragments)), NEW r \in Seq(AllFragments), r # << >>,
         NEW l, NEW b, NEW st, NEW q, NEW sh, UnitInv(s, r, l, b, st, q, FALSE, sh)
  PROVE  UnitInv(s, Tail(r), l, << >>, FALSE, q, FALSE, sh)
<1>1. Framed(s) /\ OnTheWay(s, r) /\ Good(l, sh) /\ \A j \in 1 .. Len(q) : Good(l, q[j])
  BY Zenon DEF UnitInv
<1>2. OnTheWay(s, Tail(r))
  BY <1>1, FramedIsNumbered, NextFragment, Zenon
<1>3. Growing(s, Tail(r), l, << >>, FALSE, FALSE)
  BY Zenon DEF Growing
<1> QED
  BY <1>1, <1>2, <1>3, NothingRests, Zenon DEF UnitInv

\* The more is lost, the less is asked for.
LEMMA CompleteStays ==
  ASSUME NEW l, NEW k, l \subseteq k, NEW b, NEW u, Complete(l, b, u)
  PROVE  Complete(k, b, u)
  BY Zenon DEF Complete, Hit

LEMMA GoodStays ==
  ASSUME NEW l, NEW k, l \subseteq k, NEW b, Good(l, b)
  PROVE  Good(k, b)
  BY CompleteStays, Zenon DEF Good

\* The next fragment is lost: nothing more is asked of its unit.
LEMMA UnitLost ==
  ASSUME NEW s \in Seq(Seq(AllFragments)), NEW r \in Seq(AllFragments), r # << >>,
         NEW l, NEW b \in Seq(AllFragments), NEW st, NEW q, NEW w, NEW sh,
         UnitInv(s, r, l, b, st, q, w, sh)
  PROVE  UnitInv(s, Tail(r), l \cup {Head(r)}, b, st, q, w, sh)
<1> DEFINE n == Len(s)
           g == Gone(s, r)
           x == Head(r)
           t == Tail(r)
           k == l \cup {x}
<1>1. /\ Framed(s) /\ OnTheWay(s, r) /\ Good(l, sh)
      /\ \A j \in 1 .. Len(q) : Good(l, q[j])
      /\ Behind(s, r, b) /\ Sound(s, r, l, b)
  BY Zenon DEF UnitInv
<1>2. /\ n \in Nat \ {0} /\ g \in Nat /\ x.of.id = n
      /\ Gone(s, t) = g + 1 /\ OnTheWay(s, t)
  <2>1. /\ n \in Nat \ {0} /\ Len(s[n]) \in 1 .. MaxLen /\ g \in 0 .. Len(s[n]) - 1
        /\ x.of.id = n /\ Gone(s, t) = g + 1 /\ OnTheWay(s, t)
    BY <1>1, FramedIsNumbered, NextFragment, Zenon
  <2> HIDE DEF n, g, x, t
  <2> QED
    BY <2>1, SizesAssumption
<1> HIDE DEF n, g, x, t
<1>3. l \subseteq k /\ x \in k
  OBVIOUS
<1> HIDE DEF k
<1>4. Hit(k, n)
  BY <1>2, <1>3, Zenon DEF Hit
<1>5. Good(k, sh) /\ \A j \in 1 .. Len(q) : Good(k, q[j])
  BY <1>1, <1>3, GoodStays, Zenon
<1>6. Behind(s, t, b)
  <2> SUFFICES ASSUME NEW j \in 1 .. Len(b) PROVE Came(s, t, b[j])
    BY <1>1, Zenon DEF Behind
  <2>1. Came(s, r, b[j])
    BY <1>1, Zenon DEF Behind
  <2>2. b[j].i \in Nat
    <3>1. b[j] \in AllFragments
      BY ElementOfSeq
    <3> QED
      BY <3>1, FragmentPlace
  <2>3. b[j].i <= g => b[j].i <= g + 1
    BY <1>2, <2>2
  <2> QED
    BY <1>2, <2>1, <2>3, Zenon DEF Came, g
<1>7. Sound(s, t, k, b)
  <2> SUFFICES ASSUME NEW j \in 1 .. Len(b) PROVE Complete(k, b, b[j].of)
    BY Zenon DEF Sound
  <2>1. Complete(l, b, b[j].of) \/ b[j].of.id = n
    BY <1>1, Zenon DEF Sound, n
  <2> QED
    BY <1>3, <1>4, <2>1, CompleteStays, Zenon DEF Complete
<1>8. Steady(s, t, k)
  BY <1>4, Zenon DEF Steady, n
<1> QED
  BY <1>1, <1>2, <1>5, <1>6, <1>7, <1>8, UnitRests, Zenon DEF k, t, x

\* The camera starts its next unit.
LEMMA UnitSent ==
  ASSUME NEW s \in Seq(Seq(AllFragments)), NEW l, NEW b \in Seq(AllFragments),
         NEW st, NEW q, NEW w, NEW sh, NEW nalu \in Nalus(Len(s) + 1),
         Fragments(nalu) \in Seq(AllFragments),
         UnitInv(s, << >>, l, b, st, q, w, sh)
  PROVE  UnitInv(Append(s, Fragments(nalu)), Fragments(nalu), l, b, st, q, w, sh)
<1> DEFINE f == Fragments(nalu)
           s2 == Append(s, f)
           n == Len(s)
<1>1. n \in Nat /\ s2 \in Seq(Seq(AllFragments)) /\ Len(s2) = n + 1
      /\ s2[n + 1] = f /\ \A k \in 1 .. n : s2[k] = s[k]
  OBVIOUS
<1>2. nalu.len \in 1 .. MaxLen /\ MaxLen \in Nat
  BY <1>1, NaluFacts, SizesAssumption
<1>3. Len(f) = nalu.len /\ f # << >>
  BY <1>2 DEF Fragments
<1>4. /\ Framed(s) /\ Good(l, sh) /\ \A j \in 1 .. Len(q) : Good(l, q[j])
      /\ Behind(s, << >>, b) /\ \A k \in 1 .. Len(b) : Complete(l, b, b[k].of)
  BY Zenon DEF UnitInv, Sound, Between
<1> HIDE DEF s2, n
<1>5. Framed(s2)
  <2>1. ASSUME NEW k \in 1 .. n + 1
        PROVE  \E m \in Nalus(k) : s2[k] = Fragments(m)
    <3>1. CASE k = n + 1
      <4>1. nalu \in Nalus(k) /\ s2[k] = Fragments(nalu)
        BY <1>1, <3>1, Zenon DEF n
      <4> QED
        BY <4>1, Zenon
    <3>2. CASE k # n + 1
      <4>1. k \in 1 .. n /\ s2[k] = s[k]
        BY <1>1, <3>2
      <4> QED
        BY <1>4, <4>1, Zenon DEF Framed, n
    <3> QED
      BY <3>1, <3>2
  <2> QED
    BY <1>1, <2>1 DEF Framed
<1> HIDE DEF f
<1>6. Gone(s2, f) = 0
  BY <1>1, <1>2, <1>3 DEF Gone
<1>7. OnTheWay(s2, f)
  <2>1. \A i \in 1 .. Len(f) : f[i] = f[0 + i]
    BY <1>2, <1>3
  <2> QED
    BY <1>1, <1>2, <1>3, <1>6, <2>1 DEF OnTheWay
<1>8. Behind(s2, f, b)
  <2> SUFFICES ASSUME NEW k \in 1 .. Len(b) PROVE Came(s2, f, b[k])
    BY <1>4, Zenon DEF Behind
  <2>1. b[k].of.id <= n
    BY <1>4, Zenon DEF Behind, Came, n
  <2>2. b[k].of.id \in Nat
    <3>1. b[k] \in AllFragments
      BY ElementOfSeq
    <3> QED
      BY <3>1, FragmentPlace
  <2>3. b[k].of.id <= n + 1 /\ b[k].of.id # n + 1
    BY <1>1, <2>1, <2>2
  <2> QED
    BY <1>1, <2>3, Zenon DEF Came
<1>9. Sound(s2, f, l, b)
  BY <1>4, Zenon DEF Sound
<1>10. Steady(s2, f, l)
  BY <1>6, Zenon DEF Steady, Between
<1> QED
  BY <1>4, <1>5, <1>7, <1>8, <1>9, <1>10, UnitRests, Zenon DEF s2, f

\* The device takes the run at the head of the plane.
LEMMA UnitShown ==
  ASSUME NEW s, NEW r, NEW l, NEW b, NEW st, NEW p \in PlaneType, NEW w, NEW sh,
         p.queued # << >>, UnitInv(s, r, l, b, st, p.queued, w, sh)
  PROVE  UnitInv(s, r, l, b, st, Tail(p.queued), w, Head(p.queued))
<1> DEFINE q == p.queued
<1>1. q \in Seq(Seq(AllFragments)) /\ q # << >>
  BY DEF PlaneType
<1>2. /\ Head(q) = q[1] /\ 1 \in 1 .. Len(q)
      /\ \A j \in 1 .. Len(Tail(q)) : j + 1 \in 1 .. Len(q) /\ Tail(q)[j] = q[j + 1]
  BY <1>1, HeadTailProperties
<1>3. \A j \in 1 .. Len(q) : Good(l, q[j])
  BY Zenon DEF UnitInv
<1> HIDE DEF q
<1>4. Good(l, Head(q)) /\ \A j \in 1 .. Len(Tail(q)) : Good(l, Tail(q)[j])
  BY <1>2, <1>3, Zenon
<1> QED
  BY <1>4, Zenon DEF UnitInv, q

-----------------------------------------------------------------------------
(* What each action does to the units of the channels.                     *)

LEMMA OneChannelUnits ==
  ASSUME UnitsInOrder, NEW c \in Chns, ChannelUnits(c)',
         \A e \in Chns : e # c => SameChannel(e)
  PROVE  UnitsInOrder'
<1> SUFFICES ASSUME NEW e \in Chns, e # c PROVE ChannelUnits(e)'
  BY Zenon DEF UnitsInOrder
<1>1. ChannelUnits(e) /\ SameChannel(e)
  BY Zenon DEF UnitsInOrder
<1> QED
  BY <1>1, Zenon DEF ChannelUnits, SameChannel

\* pkgProcess with RTP data.
LEMMA NRecvData ==
  ASSUME NInv, NEW c \in Chns, RecvData(c)
  PROVE  UnitsInOrder'
<1> DEFINE d == [dec[c] EXCEPT !.err = FALSE, !.startRcv = TRUE]
           x == Head(rest[c])
           u == Unpacked(d, buf[c], x)
<1>1. /\ dec \in [Chns -> DecType_]
      /\ plane \in [Chns -> PlaneType]
      /\ buf \in [Chns -> Seq(AllFragments)]
      /\ stream \in [Chns -> Seq(Seq(AllFragments))]
      /\ rest \in [Chns -> Seq(AllFragments)]
      /\ shown \in [Chns -> Seq(AllFragments)]
  BY DEF NInv, IInv, ChannelTypes
<1>2. d \in DecType_ /\ d.started = dec[c].started
  BY <1>1 DEF DecType_
<1>3. /\ main = Idle /\ rest[c] # << >>
      /\ rest' = [rest EXCEPT ![c] = Tail(rest[c])]
      /\ UNCHANGED <<stream, lost, shown>>
      /\ \/ c < wnd /\ Process(c, d, x)
         \/ c >= wnd /\ dec' = [dec EXCEPT ![c] = d] /\ UNCHANGED <<buf, plane, main>>
  BY DEF RecvData
<1>4. UnitInv(stream[c], rest[c], lost[c], buf[c], d.started, plane[c].queued, FALSE, shown[c])
  <2>1. WaitsOn(main, c) = FALSE
    BY <1>3, WaitsOnNone
  <2> QED
    BY <1>2, <2>1, Zenon DEF NInv, UnitsInOrder, ChannelUnits
<1>5. x \in AllFragments
  BY <1>1, <1>3, HeadTailProperties
<1> HIDE DEF d, x
\* What is left to show: the channel itself, once the others are untouched.
<1>6. ASSUME NEW d2, NEW b2, NEW p2,
             dec' = [dec EXCEPT ![c] = d2], buf' = [buf EXCEPT ![c] = b2],
             plane' = [plane EXCEPT ![c] = p2],
             \A e \in Chns : e # c => WaitsOn(main', e) = WaitsOn(main, e),
             UnitInv(stream[c], Tail(rest[c]), lost[c], b2, d2.started, p2.queued,
                      WaitsOn(main', c), shown[c])
      PROVE  UnitsInOrder'
  <2>1. \A e \in Chns : e # c => SameChannel(e)
    BY <1>1, <1>3, <1>6 DEF SameChannel
  <2>2. ChannelUnits(c)'
    <3>1. /\ dec'[c] = d2 /\ buf'[c] = b2 /\ plane'[c] = p2 /\ rest'[c] = Tail(rest[c])
          /\ stream' = stream /\ lost' = lost /\ shown' = shown
      BY <1>1, <1>3, <1>6
    <3> QED
      BY <1>6, <3>1, Zenon DEF ChannelUnits
  <2> QED
    BY <2>1, <2>2, OneChannelUnits DEF NInv
<1>7. CASE c >= wnd /\ dec' = [dec EXCEPT ![c] = d] /\ UNCHANGED <<buf, plane, main>>
  <2>1. buf[c] = << >> /\ d.started = FALSE
    BY <1>1, <1>2, <1>7 DEF NInv, HiddenIsClean, DecType_
  <2>2. UnitInv(stream[c], Tail(rest[c]), lost[c], << >>, FALSE, plane[c].queued, FALSE, shown[c])
    BY <1>1, <1>3, <1>4, UnitSkipped
  <2>3. WaitsOn(main', c) = FALSE
    BY <1>3, <1>7, WaitsOnNone
  <2>4. buf' = [buf EXCEPT ![c] = buf[c]] /\ plane' = [plane EXCEPT ![c] = plane[c]]
    BY <1>1, <1>7
  <2>5. UnitInv(stream[c], Tail(rest[c]), lost[c], buf[c], d.started, plane[c].queued,
                 WaitsOn(main', c), shown[c])
    BY <2>1, <2>2, <2>3, Zenon
  <2> QED
    BY <1>6, <1>7, <2>4, <2>5
<1>8. CASE Process(c, d, x)
  <2>1. /\ u.type = "none" =>
             UnitInv(stream[c], Tail(rest[c]), lost[c], u.b, u.d.started, plane[c].queued,
                      FALSE, shown[c])
        /\ u.type # "none" =>
             /\ \A st : UnitInv(stream[c], Tail(rest[c]), lost[c], u.b, st, plane[c].queued,
                                TRUE, shown[c])
             /\ \A st : \A q \in QueueOutcomes(plane[c], u.b) :
                  UnitInv(stream[c], Tail(rest[c]), lost[c], << >>, st, q.queued, FALSE, shown[c])
    <3>1. buf[c] \in Seq(AllFragments) /\ plane[c] \in PlaneType
          /\ stream[c] \in Seq(Seq(AllFragments)) /\ rest[c] \in Seq(AllFragments)
      BY <1>1
    <3> QED
      BY <1>2, <1>3, <1>4, <3>1, UnitUnpacked, Zenon DEF x
  <2>2. u.type \in {"none", "I", "P", "PKG", "PPS"}
    BY <1>1, <1>2, <1>5, UnpackedType
  <2> HIDE DEF u
  <2>3. \/ /\ u.type = "none"
           /\ dec' = [dec EXCEPT ![c] = u.d] /\ buf' = [buf EXCEPT ![c] = u.b]
           /\ UNCHANGED <<plane, main>>
        \/ u.type # "none" /\ PrimePlane(c, u.d, u.b)
        \/ u.type # "none" /\ AwaitBuffer(c, u.d, u.b, u.type)
    BY <1>8 DEF Process, u
  <2>4. plane = [plane EXCEPT ![c] = plane[c]]
    BY <1>1
  <2>5. main' = main =>
          WaitsOn(main', c) = FALSE /\ \A e \in Chns : WaitsOn(main', e) = WaitsOn(main, e)
    BY <1>3, WaitsOnNone
  <2>6. CASE /\ u.type = "none"
             /\ dec' = [dec EXCEPT ![c] = u.d] /\ buf' = [buf EXCEPT ![c] = u.b]
             /\ UNCHANGED <<plane, main>>
    BY <1>6, <2>1, <2>4, <2>5, <2>6
  <2>7. CASE u.type # "none" /\ PrimePlane(c, u.d, u.b)
    <3>1. PICK q \in QueueOutcomes(plane[c], u.b) : plane' = [plane EXCEPT ![c] = q]
      BY <2>7 DEF PrimePlane
    <3> DEFINE d2 == [u.d EXCEPT !.qCount = @ + 1]
    <3>2. dec' = [dec EXCEPT ![c] = d2] /\ buf' = [buf EXCEPT ![c] = << >>] /\ main' = main
      BY <2>7 DEF PrimePlane
    <3> HIDE DEF d2
    <3>3. UnitInv(stream[c], Tail(rest[c]), lost[c], << >>, d2.started, q.queued,
                   WaitsOn(main', c), shown[c])
      <4>1. UnitInv(stream[c], Tail(rest[c]), lost[c], << >>, d2.started, q.queued, FALSE, shown[c])
        BY <2>1, <2>7, <3>1, Zenon
      <4>2. WaitsOn(main', c) = FALSE
        BY <2>5, <3>2, Zenon
      <4> QED
        BY <4>1, <4>2, Zenon
    <3>4. \A e \in Chns : e # c => WaitsOn(main', e) = WaitsOn(main, e)
      BY <2>5, <3>2, Zenon
    <3> QED
      BY <1>6, <3>1, <3>2, <3>3, <3>4, Zenon
  <2>8. CASE u.type # "none" /\ AwaitBuffer(c, u.d, u.b, u.type)
    <3>1. /\ dec' = [dec EXCEPT ![c] = u.d] /\ buf' = [buf EXCEPT ![c] = u.b]
          /\ main' = Waiting(c, u.type) /\ plane' = plane
      BY <2>8 DEF AwaitBuffer
    <3>2. WaitsOn(main', c) = TRUE
          /\ \A e \in Chns : e # c => WaitsOn(main', e) = WaitsOn(main, e)
      <4>1. u.type \in {"I", "P", "PKG", "PPS"}
        BY <2>2, <2>8
      <4>2. WaitsOn(main', c) = TRUE
        BY <3>1, <4>1, WaitsOnOne, Zenon
      <4>3. ASSUME NEW e \in Chns, e # c PROVE WaitsOn(main', e) = WaitsOn(main, e)
        <5>1. WaitsOn(main', e) = FALSE
          BY <3>1, <4>3, WaitsOnNoOther, Zenon
        <5>2. WaitsOn(main, e) = FALSE
          BY <1>3, WaitsOnNone, Zenon
        <5> QED
          BY <5>1, <5>2
      <4> QED
        BY <4>2, <4>3, Zenon
    <3>3. UnitInv(stream[c], Tail(rest[c]), lost[c], u.b, u.d.started, plane[c].queued,
                   WaitsOn(main', c), shown[c])
      BY <2>1, <2>8, <3>2, Zenon
    <3>4. plane' = [plane EXCEPT ![c] = plane[c]]
      BY <2>4, <3>1
    <3>5. \A e \in Chns : e # c => WaitsOn(main', e) = WaitsOn(main, e)
      BY <3>2
    <3> QED
      BY <1>6, <3>1, <3>3, <3>4, <3>5, Zenon
  <2> QED
    BY <2>3, <2>6, <2>7, <2>8
<1> QED
  BY <1>3, <1>7, <1>8

LEMMA NStatus ==
  ASSUME NInv, NEW id \in PeerChns,
         \/ \E update \in BOOLEAN, subwin \in Subwins : RecvSubwin(id, update, subwin)
         \/ RecvChnErr(id)
         \/ RecvStray(id)
  PROVE  UnitsInOrder'
<1>1. dec \in [Chns -> DecType_] /\ buf \in [Chns -> Seq(AllFragments)]
  BY DEF NInv, IInv, ChannelTypes
<1>2. main = Idle /\ UNCHANGED <<plane, main, cameras, shown>>
  BY DEF RecvSubwin, Refresh, Cut, RecvChnErr, RecvStray, IndexOutOfRange, chnVars, cameras
<1>3. \/ UNCHANGED <<dec, buf>>
      \/ /\ dec' = [c \in Chns |-> IF WasShown(c) THEN ResetDec(dec[c], FALSE) ELSE dec[c]]
         /\ buf' = [c \in Chns |-> IF WasShown(c) THEN << >> ELSE buf[c]]
      \/ /\ \E err \in BOOLEAN : dec' = [dec EXCEPT ![id] = ResetDec(dec[id], err)]
         /\ buf' = [buf EXCEPT ![id] = << >>]
  BY DEF RecvSubwin, Refresh, Cut, RecvChnErr, RecvStray, IndexOutOfRange, chnVars
<1>4. ASSUME NEW d \in DecType_, NEW err PROVE ResetDec(d, err).started = FALSE
  BY DEF DecType_, ResetDec
<1>5. ASSUME NEW c \in Chns
      PROVE  \/ dec'[c] = dec[c] /\ buf'[c] = buf[c]
             \/ dec'[c].started = FALSE /\ buf'[c] = << >>
  <2>1. dec[c] \in DecType_
    BY <1>1
  <2>2. CASE UNCHANGED <<dec, buf>>
    BY <2>2
  <2>3. CASE /\ dec' = [e \in Chns |-> IF WasShown(e) THEN ResetDec(dec[e], FALSE) ELSE dec[e]]
             /\ buf' = [e \in Chns |-> IF WasShown(e) THEN << >> ELSE buf[e]]
    BY <1>4, <2>1, <2>3
  <2>4. ASSUME NEW err \in BOOLEAN, dec' = [dec EXCEPT ![id] = ResetDec(dec[id], err)],
               buf' = [buf EXCEPT ![id] = << >>]
        PROVE  \/ dec'[c] = dec[c] /\ buf'[c] = buf[c]
               \/ dec'[c].started = FALSE /\ buf'[c] = << >>
    BY <1>1, <1>4, <2>1, <2>4
  <2> QED
    BY <1>3, <2>2, <2>3, <2>4
<1>6. ASSUME NEW c \in Chns PROVE ChannelUnits(c)'
  <2>1. WaitsOn(main, c) = FALSE
    BY <1>2, WaitsOnNone, Zenon
  <2>2. UnitInv(stream[c], rest[c], lost[c], buf[c], dec[c].started, plane[c].queued, FALSE, shown[c])
    BY <2>1, Zenon DEF NInv, UnitsInOrder, ChannelUnits
  <2>3. UnitInv(stream[c], rest[c], lost[c], << >>, FALSE, plane[c].queued, FALSE, shown[c])
    BY <2>2, UnitReset
  <2>4. WaitsOn(main', c) = FALSE
    BY <1>2, WaitsOnNone, Zenon
  <2>5. UnitInv(stream[c], rest[c], lost[c], buf'[c], dec'[c].started, plane[c].queued, FALSE, shown[c])
    BY <1>5, <2>2, <2>3, Zenon
  <2> QED
    BY <1>2, <2>2, <2>4, <2>5, Zenon DEF ChannelUnits, cameras
<1> QED
  BY <1>6 DEF UnitsInOrder


\* do_decode takes the run out of the buffer, and queues it or drops it.
TakesRun(c, p) ==
  /\ \E e : /\ dec' = [dec EXCEPT ![c] = [e EXCEPT !.started = FALSE]]
            /\ "started" \in DOMAIN e
  /\ buf' = [buf EXCEPT ![c] = << >>]
  /\ \E q \in {p} \cup QueueOutcomes(p, buf[c]) : plane' = [plane EXCEPT ![c] = q]

LEMMA NTakes ==
  ASSUME IInv, DqSucceeds
  PROVE  \E c \in Chns, type \in {"I", "P", "PKG", "PPS"} :
           LET p == [plane[c] EXCEPT !.done = plane[c].done - 1]
           IN  /\ main = Waiting(c, type) /\ main' = Idle
               /\ plane[c].done > 0
               /\ UNCHANGED <<wnd, armed, wild, cameras, shown>>
               /\ Keep(c, p) \/ TakesRun(c, p)
<1>1. PICK c \in Chns, type \in {"I", "P", "PKG", "PPS"} : main = Waiting(c, type)
  BY IdleNotWaiting DEF IInv, ChannelTypes, DqSucceeds
<1>2. main.chn = c
  BY <1>1 DEF Waiting
<1>3. dec \in [Chns -> DecType_]
  BY DEF IInv, ChannelTypes
<1> DEFINE d == dec[c]
           p == [plane[c] EXCEPT !.done = plane[c].done - 1]
<1>4. \/ DecodePps(c, p, d) \/ DecodeP(c, p, d) \/ DecodeI(c, p, d) \/ DecodePkg(c, p, d)
  BY <1>2 DEF DqSucceeds
<1>5. plane[c].done > 0 /\ main' = Idle /\ UNCHANGED <<wnd, armed, wild, cameras, shown>>
  BY <1>2 DEF DqSucceeds
<1>6. "started" \in DOMAIN d
  BY <1>3 DEF DecType_
<1> HIDE DEF p, d
<1>7. ASSUME NEW e, NEW wanted, "started" \in DOMAIN e, Flush(c, p, e, wanted)
      PROVE  TakesRun(c, p)
  BY <1>7 DEF Flush, TakesRun
<1>8. Keep(c, p) \/ TakesRun(c, p)
  <2>1. CASE DecodePps(c, p, d)
    <3>1. "started" \in DOMAIN [d EXCEPT !.enPps = TRUE]
      BY <1>6
    <3> QED
      BY <1>7, <2>1, <3>1 DEF DecodePps
  <2>2. CASE DecodeP(c, p, d)
    <3> DEFINE e == [d EXCEPT !.waitIfream = d.waitIfream \/ d.refused, !.sliceP = 0]
    <3>1. "started" \in DOMAIN e
      BY <1>6
    <3>2. DecodeP(c, p, d) <=>
            IF ~AllSlices(d, d.sliceP) THEN Keep(c, p)
            ELSE Flush(c, p, e, ~d.refused /\ ~d.waitIfream)
      BY DEF DecodeP
    <3> HIDE DEF e
    <3> QED
      BY <1>7, <2>2, <3>1, <3>2
  <2>3. CASE DecodeI(c, p, d)
    <3> DEFINE e == [d EXCEPT !.waitIfream = d.refused]
    <3>1. "started" \in DOMAIN e
      BY <1>6
    <3>2. DecodeI(c, p, d) <=>
            IF ~AllSlices(d, d.sliceI) THEN Keep(c, p) ELSE Flush(c, p, e, ~d.refused)
      BY DEF DecodeI
    <3> HIDE DEF e
    <3> QED
      BY <1>7, <2>3, <3>1, <3>2
  <2>4. CASE DecodePkg(c, p, d)
    BY <1>6, <1>7, <2>4 DEF DecodePkg
  <2> QED
    BY <1>4, <2>1, <2>2, <2>3, <2>4
<1> QED
  BY <1>1, <1>5, <1>8, Zenon DEF p

LEMMA NDqSucceeds ==
  ASSUME NInv, DqSucceeds
  PROVE  UnitsInOrder'
<1>1. PICK c \in Chns, type \in {"I", "P", "PKG", "PPS"} :
           LET p == [plane[c] EXCEPT !.done = plane[c].done - 1]
           IN  /\ main = Waiting(c, type) /\ main' = Idle
               /\ plane[c].done > 0
               /\ UNCHANGED <<wnd, armed, wild, cameras, shown>>
               /\ Keep(c, p) \/ TakesRun(c, p)
  BY NTakes DEF NInv
<1> DEFINE p == [plane[c] EXCEPT !.done = plane[c].done - 1]
<1>2. /\ dec \in [Chns -> DecType_]
      /\ plane \in [Chns -> PlaneType]
      /\ buf \in [Chns -> Seq(AllFragments)]
  BY DEF NInv, IInv, ChannelTypes
<1>3. p \in PlaneType /\ p.queued = plane[c].queued
  <2>1. plane[c] \in PlaneType
    BY <1>2
  <2>2. p \in PlaneType
    BY <1>1, <2>1, DequeuedType, Zenon
  <2> QED
    BY <2>1, <2>2 DEF PlaneType
<1> HIDE DEF p
<1>4. \/ plane' = [plane EXCEPT ![c] = p] /\ UNCHANGED <<dec, buf>>
      \/ \E e, q : /\ dec' = [dec EXCEPT ![c] = [e EXCEPT !.started = FALSE]]
                   /\ "started" \in DOMAIN e
                   /\ buf' = [buf EXCEPT ![c] = << >>]
                   /\ q = p \/ q \in QueueOutcomes(p, buf[c])
                   /\ plane' = [plane EXCEPT ![c] = q]
  BY <1>1 DEF p, Keep, TakesRun
<1>5. UnitInv(stream[c], rest[c], lost[c], buf[c], dec[c].started, plane[c].queued, TRUE, shown[c])
  <2>1. WaitsOn(main, c) = TRUE
    BY <1>1, WaitsOnOne, Zenon
  <2> QED
    BY <2>1, Zenon DEF NInv, UnitsInOrder, ChannelUnits
<1>6. /\ Framed(stream[c]) /\ OnTheWay(stream[c], rest[c])
      /\ Steady(stream[c], rest[c], lost[c]) /\ Good(lost[c], buf[c])
      /\ Good(lost[c], shown[c])
      /\ \A j \in 1 .. Len(plane[c].queued) : Good(lost[c], plane[c].queued[j])
      /\ \A v, w : UnitInv(stream[c], rest[c], lost[c], buf[c], v, plane[c].queued, w, shown[c])
  BY <1>5, UnitWaits, Zenon
<1>7. WaitsOn(main', c) = FALSE
  BY <1>1, WaitsOnNone, Zenon
<1>8. stream' = stream /\ rest' = rest /\ lost' = lost /\ shown' = shown
  BY <1>1, Zenon DEF cameras
<1>9. ASSUME plane'[c].queued = plane[c].queued, buf'[c] = buf[c]
      PROVE  ChannelUnits(c)'
  BY <1>5, <1>6, <1>7, <1>8, <1>9, Zenon DEF ChannelUnits
<1>10. ASSUME NEW q, q = p \/ q \in QueueOutcomes(p, buf[c]),
              plane'[c] = q, buf'[c] = << >>
       PROVE  ChannelUnits(c)'
  <2>1. \A j \in 1 .. Len(q.queued) : Good(lost[c], q.queued[j])
    <3>1. CASE q = p
      BY <1>3, <1>6, <3>1, Zenon
    <3>2. CASE q \in QueueOutcomes(p, buf[c])
      <4>1. buf[c] \in Seq(AllFragments)
        BY <1>2
      <4>2. \A j \in 1 .. Len(p.queued) : Good(lost[c], p.queued[j])
        BY <1>3, <1>6, Zenon
      <4> QED
        BY <1>3, <1>6, <3>2, <4>1, <4>2, UnitsQueued, Zenon
    <3> QED
      BY <1>10, <3>1, <3>2
  <2>2. \A v, w : UnitInv(stream[c], rest[c], lost[c], << >>, v, q.queued, w, shown[c])
    BY <1>6, <2>1, NothingRests, UnitRests, Zenon
  <2> QED
    BY <1>5, <1>7, <1>8, <1>10, <2>2, Zenon DEF ChannelUnits
<1>11. ChannelUnits(c)'
  <2>1. CASE plane' = [plane EXCEPT ![c] = p] /\ UNCHANGED <<dec, buf>>
    <3>1. plane'[c].queued = plane[c].queued /\ buf'[c] = buf[c]
      BY <1>2, <1>3, <2>1
    <3> QED
      BY <1>9, <3>1, Zenon
  <2>2. ASSUME NEW q, q = p \/ q \in QueueOutcomes(p, buf[c]),
               plane' = [plane EXCEPT ![c] = q], buf' = [buf EXCEPT ![c] = << >>]
        PROVE  ChannelUnits(c)'
    <3>1. plane'[c] = q /\ buf'[c] = << >>
      BY <1>2, <2>2
    <3> QED
      BY <1>10, <2>2, <3>1, Zenon
  <2> QED
    BY <1>4, <2>1, <2>2, Zenon
<1>12. ASSUME NEW g \in Chns, g # c PROVE SameChannel(g)
  <2>1. WaitsOn(main', g) = FALSE
    BY <1>1, WaitsOnNone, Zenon
  <2>2. WaitsOn(main, g) = FALSE
    BY <1>1, <1>12, WaitsOnNoOther, Zenon
  <2>3. /\ dec'[g] = dec[g] /\ buf'[g] = buf[g] /\ plane'[g] = plane[g]
    BY <1>2, <1>4, <1>12
  <2> QED
    BY <1>8, <2>1, <2>2, <2>3, Zenon DEF SameChannel
<1> QED
  BY <1>11, <1>12, OneChannelUnits DEF NInv

LEMMA NDqFails ==
  ASSUME NInv, DqFails
  PROVE  UnitsInOrder'
<1>1. PICK c \in Chns, type \in {"I", "P", "PKG", "PPS"} : main = Waiting(c, type)
  BY IdleNotWaiting DEF NInv, IInv, ChannelTypes, DqFails
<1>2. main.chn = c
  BY <1>1 DEF Waiting
<1>3. /\ plane[c].aborted /\ main' = Idle
      /\ UNCHANGED <<dec, buf, plane, cameras, shown>>
  BY <1>2 DEF DqFails
<1>4. ChannelUnits(c)'
  <2>1. WaitsOn(main, c) = TRUE
    BY <1>1, WaitsOnOne, Zenon
  <2>2. UnitInv(stream[c], rest[c], lost[c], buf[c], dec[c].started, plane[c].queued, TRUE, shown[c])
    BY <2>1, Zenon DEF NInv, UnitsInOrder, ChannelUnits
  <2>3. \A v, w : UnitInv(stream[c], rest[c], lost[c], buf[c], v, plane[c].queued, w, shown[c])
    BY <2>2, UnitWaits, Zenon
  <2> QED
    BY <1>3, <2>2, <2>3, Zenon DEF ChannelUnits, cameras
<1>5. ASSUME NEW g \in Chns, g # c PROVE SameChannel(g)
  <2>1. WaitsOn(main', g) = FALSE
    BY <1>3, WaitsOnNone, Zenon
  <2>2. WaitsOn(main, g) = FALSE
    BY <1>1, <1>5, WaitsOnNoOther, Zenon
  <2> QED
    BY <1>3, <2>1, <2>2, Zenon DEF SameChannel, cameras
<1> QED
  BY <1>4, <1>5, OneChannelUnits DEF NInv

LEMMA NEnvironment ==
  ASSUME NInv, NEW c \in Chns,
         SendFrame(c) \/ Lose(c) \/ TimerFires(c) \/ DeviceTakes(c) \/ CaptureAborts(c)
  PROVE  UnitsInOrder'
<1>1. UNCHANGED <<dec, buf, main>>
  BY DEF SendFrame, Lose, TimerFires, DeviceTakes, CaptureAborts
<1>2. /\ plane \in [Chns -> PlaneType]
      /\ stream \in [Chns -> Seq(Seq(AllFragments))]
      /\ rest \in [Chns -> Seq(AllFragments)]
      /\ buf \in [Chns -> Seq(AllFragments)]
      /\ shown \in [Chns -> Seq(AllFragments)]
      /\ lost \in [Chns -> SUBSET AllFragments]
  BY DEF NInv, IInv, ChannelTypes
<1> DEFINE F(s, r, l, q, sh) ==
             UnitInv(s, r, l, buf[c], dec[c].started, q, WaitsOn(main, c), sh)
<1>3. F(stream[c], rest[c], lost[c], plane[c].queued, shown[c])
  BY Zenon DEF NInv, UnitsInOrder, ChannelUnits
<1>4. ASSUME F(stream'[c], rest'[c], lost'[c], plane'[c].queued, shown'[c]),
             \A e \in Chns : e # c =>
               /\ stream'[e] = stream[e] /\ rest'[e] = rest[e] /\ lost'[e] = lost[e]
               /\ plane'[e] = plane[e] /\ shown'[e] = shown[e]
      PROVE  UnitsInOrder'
  <2>1. ChannelUnits(c)'
    BY <1>1, <1>4, Zenon DEF ChannelUnits
  <2>2. \A e \in Chns : e # c => SameChannel(e)
    BY <1>1, <1>4, Zenon DEF SameChannel
  <2> QED
    BY <2>1, <2>2, OneChannelUnits DEF NInv
<1>5. CASE SendFrame(c)
  <2>1. PICK nalu \in Nalus(Len(stream[c]) + 1) :
          /\ stream' = [stream EXCEPT ![c] = Append(stream[c], Fragments(nalu))]
          /\ rest' = [rest EXCEPT ![c] = Fragments(nalu)]
    BY <1>5 DEF SendFrame
  <2>2. rest[c] = << >> /\ Len(stream[c]) < MaxFrames /\ UNCHANGED <<lost, plane, shown>>
    BY <1>5 DEF SendFrame
  <2>3. Fragments(nalu) \in Seq(AllFragments)
    <3>1. Len(stream[c]) + 1 \in 1 .. MaxFrames
      BY <1>2, <2>2, SizesAssumption
    <3> QED
      BY <3>1, NaluFragments
  <2>4. F(Append(stream[c], Fragments(nalu)), Fragments(nalu), lost[c], plane[c].queued, shown[c])
    <3>1. stream[c] \in Seq(Seq(AllFragments)) /\ buf[c] \in Seq(AllFragments)
      BY <1>2
    <3>2. F(stream[c], << >>, lost[c], plane[c].queued, shown[c])
      BY <1>3, <2>2, Zenon
    <3> QED
      BY <2>3, <3>1, <3>2, UnitSent, Zenon
  <2> HIDE DEF F
  <2>5. /\ stream'[c] = Append(stream[c], Fragments(nalu)) /\ rest'[c] = Fragments(nalu)
        /\ lost' = lost /\ plane' = plane /\ shown' = shown
        /\ \A e \in Chns : e # c => stream'[e] = stream[e] /\ rest'[e] = rest[e]
    BY <1>2, <2>1, <2>2
  <2> QED
    BY <1>4, <2>4, <2>5, Zenon
<1>6. CASE Lose(c)
  <2> DEFINE x == Head(rest[c])
             t == Tail(rest[c])
  <2>1. /\ rest[c] # << >> /\ lost' = [lost EXCEPT ![c] = lost[c] \cup {x}]
        /\ rest' = [rest EXCEPT ![c] = t] /\ UNCHANGED <<stream, plane, shown>>
    BY <1>6 DEF Lose
  <2>2. stream[c] \in Seq(Seq(AllFragments)) /\ rest[c] \in Seq(AllFragments)
        /\ buf[c] \in Seq(AllFragments)
    BY <1>2
  <2>3. F(stream[c], t, lost[c] \cup {x}, plane[c].queued, shown[c])
    BY <1>3, <2>1, <2>2, UnitLost, Zenon
  <2> HIDE DEF F, x, t
  <2>4. /\ lost'[c] = lost[c] \cup {x} /\ rest'[c] = t
        /\ stream' = stream /\ plane' = plane /\ shown' = shown
        /\ \A e \in Chns : e # c => lost'[e] = lost[e] /\ rest'[e] = rest[e]
    BY <1>2, <2>1
  <2> QED
    BY <1>4, <2>3, <2>4, Zenon
<1>7. CASE TimerFires(c)
  <2>1. UNCHANGED <<stream, rest, lost, plane, shown>>
    BY <1>7 DEF TimerFires, cameras
  <2> HIDE DEF F
  <2> QED
    BY <1>3, <1>4, <2>1, Zenon
<1>8. CASE DeviceTakes(c)
  <2> DEFINE p2 == [plane[c] EXCEPT !.queued = Tail(plane[c].queued), !.done = plane[c].done + 1]
  <2>1. /\ plane[c].queued # << >> /\ shown' = [shown EXCEPT ![c] = Head(plane[c].queued)]
        /\ plane' = [plane EXCEPT ![c] = p2] /\ UNCHANGED <<stream, rest, lost>>
    BY <1>8 DEF DeviceTakes, cameras
  <2>2. p2.queued = Tail(plane[c].queued) /\ plane[c] \in PlaneType
    BY <1>2 DEF PlaneType
  <2> HIDE DEF p2
  <2>3. F(stream[c], rest[c], lost[c], p2.queued, Head(plane[c].queued))
    BY <1>3, <2>1, <2>2, UnitShown, Zenon
  <2> HIDE DEF F
  <2>4. /\ plane'[c] = p2 /\ shown'[c] = Head(plane[c].queued)
        /\ stream' = stream /\ rest' = rest /\ lost' = lost
        /\ \A e \in Chns : e # c => plane'[e] = plane[e] /\ shown'[e] = shown[e]
    BY <1>2, <2>1
  <2> QED
    BY <1>4, <2>3, <2>4, Zenon
<1>9. CASE CaptureAborts(c)
  <2>1. plane' = [plane EXCEPT ![c] = Aborted(plane[c])] /\ UNCHANGED <<cameras, shown>>
    BY <1>9 DEF CaptureAborts
  <2>2. F(stream[c], rest[c], lost[c], Aborted(plane[c]).queued, shown[c])
    <3>1. Aborted(plane[c]).queued = << >>
      BY DEF Aborted
    <3>2. \A j \in 1 .. Len(<< >>) : Good(lost[c], << >>[j])
      OBVIOUS
    <3> QED
      BY <1>3, <3>1, <3>2, Zenon DEF UnitInv
  <2> HIDE DEF F
  <2>3. /\ plane'[c] = Aborted(plane[c])
        /\ stream' = stream /\ rest' = rest /\ lost' = lost /\ shown' = shown
        /\ \A e \in Chns : e # c => plane'[e] = plane[e]
    BY <1>2, <2>1 DEF cameras
  <2> QED
    BY <1>4, <2>2, <2>3, Zenon
<1> QED
  BY <1>5, <1>6, <1>7, <1>8, <1>9

LEMMA NInit == ASSUME Init PROVE NInv
<1>1. IInv
  BY InitInvariant
<1>2. InitialDec.started = FALSE /\ InitialPlane.queued = << >>
  BY DEF InitialDec, InitialPlane
<1>3. HiddenIsClean
  BY <1>2 DEF Init, HiddenIsClean
<1>4. ASSUME NEW c \in Chns PROVE ChannelUnits(c)
  <2>1. /\ stream[c] = << >> /\ rest[c] = << >> /\ lost[c] = {} /\ buf[c] = << >>
        /\ dec[c].started = FALSE /\ plane[c].queued = << >> /\ shown[c] = << >>
    BY <1>2 DEF Init
  <2>2. Framed(<< >>) /\ OnTheWay(<< >>, << >>) /\ Between(<< >>, << >>)
        /\ \A j \in 1 .. Len(<< >>) : Good({}, << >>[j])
    BY DEF Framed, OnTheWay, Between
  <2>4. Steady(<< >>, << >>, {})
    BY <2>2, Zenon DEF Steady
  <2>3. \A v, w : UnitInv(<< >>, << >>, {}, << >>, v, << >>, w, << >>)
    BY <2>2, <2>4, NothingRests, UnitRests, Zenon
  <2> QED
    BY <2>1, <2>3, Zenon DEF ChannelUnits
<1> QED
  BY <1>1, <1>3, <1>4 DEF NInv, UnitsInOrder

LEMMA NStep ==
  ASSUME NInv, [ChnNext]_chnVars
  PROVE  NInv'
<1>1. IInv'
  BY StepInvariant DEF NInv
<1>2. HiddenIsClean'
  BY CStep DEF NInv
<1>3. UnitsInOrder'
  <2>1. CASE Receive
    BY <2>1, NRecvData, NStatus DEF Receive
  <2>2. CASE Decode
    BY <2>2, NDqFails, NDqSucceeds DEF Decode
  <2>3. CASE Environment
    BY <2>3, NEnvironment DEF Environment
  <2>4. CASE UNCHANGED chnVars
    BY <2>4, Zenon DEF chnVars, NInv, UnitsInOrder, ChannelUnits
  <2> QED
    BY <2>1, <2>2, <2>3, <2>4 DEF ChnNext
<1> QED
  BY <1>1, <1>2, <1>3 DEF NInv

LEMMA ShownUnits == ASSUME NInv PROVE WholeNalusInOrder
<1> SUFFICES ASSUME NEW c \in Chns
             PROVE  LET content == shown[c]
                        H(id) == \E x \in lost[c] : x.of.id = id
                    IN  /\ \A j, k \in DOMAIN content :
                             j < k => Place(content[j]) < Place(content[k])
                        /\ \A k \in DOMAIN content :
                             LET nalu == content[k].of
                             IN  ~H(nalu.id) =>
                                   \A i \in 1 .. nalu.len : Has(content, nalu, i)
  BY Zenon DEF WholeNalusInOrder
<1> DEFINE b == shown[c]
<1>1. Good(lost[c], b)
  BY Zenon DEF NInv, UnitsInOrder, ChannelUnits, UnitInv
<1>2. b \in Seq(AllFragments)
  BY DEF NInv, IInv, ChannelTypes
<1> HIDE DEF b
<1>3. DOMAIN b = 1 .. Len(b)
  BY <1>2
<1>4. ASSUME NEW j \in 1 .. Len(b), NEW k \in 1 .. Len(b), j < k
      PROVE  Place(b[j]) < Place(b[k])
  <2>1. j \in 1 .. k - 1
    BY <1>4
  <2> QED
    BY <1>1, <2>1, Zenon DEF Good, Ordered
<1>5. ASSUME NEW k \in 1 .. Len(b), ~(\E x \in lost[c] : x.of.id = b[k].of.id)
      PROVE  \A i \in 1 .. b[k].of.len : Has(b, b[k].of, i)
  BY <1>1, <1>5, Zenon DEF Good, Complete, Hit, Upto
<1> QED
  BY <1>3, <1>4, <1>5, Zenon DEF b

(* What the decoder of a channel gets is in the order of the camera,       *)
(* nothing of it twice, and every NAL unit in it of which nothing was lost *)
(* is whole, but for a first one the buffer was too small for: with both   *)
(* codecs, for any number of channels and units, any losses, layouts,      *)
(* resets and failing device calls, parameter sets that are held back      *)
(* (stream.c:91-92) included.                                              *)
THEOREM NalusInOrder == Spec => []WholeNalusInOrder
<1>1. Init => NInv
  BY NInit
<1>2. NInv /\ [Next]_vars => NInv'
  BY ChnStep, NStep
<1>3. NInv => WholeNalusInOrder
  BY ShownUnits
<1> QED
  BY <1>1, <1>2, <1>3, PTL DEF Spec
=============================================================================
