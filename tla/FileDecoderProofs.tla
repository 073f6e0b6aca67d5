------------------------- MODULE FileDecoderProofs --------------------------
(* The file decoder, for every set of files whose start codes lie apart,   *)
(* any size of the window, and any number of buffers: what its variables   *)
(* hold, where its buffers are, and what of the file is sent.              *)
EXTENDS FileDecoder, SequenceTheorems, WellFoundedInduction, TLAPS

-----------------------------------------------------------------------------
(* Two sequences of buffers, of which one hands to the other.              *)

\* No buffer is twice in one of them, nor in both.
Separate(s, t) ==
  /\ \A i, j \in DOMAIN s : s[i] = s[j] => i = j
  /\ \A i, j \in DOMAIN t : t[i] = t[j] => i = j
  /\ \A i \in DOMAIN s : \A j \in DOMAIN t : s[i] # t[j]

Below(s, n) == \A i \in DOMAIN s : s[i] < n

LEMMA SeparateSymmetric ==
  ASSUME NEW s, NEW t, Separate(s, t) PROVE Separate(t, s)
BY DEF Separate

LEMMA ConcatInjective ==
  ASSUME NEW S, NEW s \in Seq(S), NEW t \in Seq(S), Separate(s, t)
  PROVE  IsInjective(s \o t)
<1>1. /\ s \o t \in Seq(S) /\ Len(s \o t) = Len(s) + Len(t)
      /\ Len(s) \in Nat /\ Len(t) \in Nat
      /\ DOMAIN (s \o t) = 1 .. Len(s) + Len(t)
      /\ DOMAIN s = 1 .. Len(s) /\ DOMAIN t = 1 .. Len(t)
  BY ConcatProperties, LenProperties
<1>2. \A i \in 1 .. Len(s) + Len(t) :
        \/ i \in DOMAIN s /\ (s \o t)[i] = s[i]
        \/ i - Len(s) \in DOMAIN t /\ (s \o t)[i] = t[i - Len(s)]
  BY <1>1, ConcatProperties
<1> SUFFICES ASSUME NEW i \in 1 .. Len(s) + Len(t), NEW j \in 1 .. Len(s) + Len(t),
                    (s \o t)[i] = (s \o t)[j]
             PROVE  i = j
  BY <1>1 DEF IsInjective
<1>3. CASE i \in DOMAIN s /\ (s \o t)[i] = s[i] /\ j \in DOMAIN s /\ (s \o t)[j] = s[j]
  BY <1>3 DEF Separate
<1>4. CASE /\ i - Len(s) \in DOMAIN t /\ (s \o t)[i] = t[i - Len(s)]
           /\ j - Len(s) \in DOMAIN t /\ (s \o t)[j] = t[j - Len(s)]
  <2>1. i - Len(s) = j - Len(s)
    BY <1>4 DEF Separate
  <2> QED
    BY <1>1, <2>1
<1> QED
  BY <1>2, <1>3, <1>4 DEF Separate

LEMMA AppendSeparate ==
  ASSUME NEW S, NEW s \in Seq(S), NEW t \in Seq(S), NEW e \in S, Separate(s, t),
         \A i \in DOMAIN s : s[i] # e, \A i \in DOMAIN t : t[i] # e
  PROVE  Separate(Append(s, e), t)
BY AppendProperties, LenProperties DEF Separate

\* The head of one becomes the last of the other.
LEMMA MoveSeparate ==
  ASSUME NEW S, NEW s \in Seq(S), NEW t \in Seq(S), Separate(s, t), t # << >>
  PROVE  Separate(Append(s, Head(t)), Tail(t)) /\ Separate(s, Tail(t))
<1>1. /\ Head(t) \in S /\ Tail(t) \in Seq(S) /\ Head(t) = t[1]
      /\ Len(t) \in Nat \ {0} /\ DOMAIN t = 1 .. Len(t)
      /\ DOMAIN Tail(t) = 1 .. Len(t) - 1
      /\ \A i \in 1 .. Len(t) - 1 : Tail(t)[i] = t[i + 1]
  BY HeadTailProperties, EmptySeq, LenProperties
<1>2. Separate(s, Tail(t))
  BY <1>1 DEF Separate
<1>3. \A i \in DOMAIN Tail(t) : Tail(t)[i] # Head(t)
  BY <1>1 DEF Separate
<1>4. \A i \in DOMAIN s : s[i] # Head(t)
  BY <1>1 DEF Separate
<1> QED
  BY <1>1, <1>2, <1>3, <1>4, AppendSeparate

LEMMA MoveBelow ==
  ASSUME NEW S, NEW s \in Seq(S), NEW t \in Seq(S), t # << >>, NEW n,
         Below(s, n), Below(t, n)
  PROVE  Below(Append(s, Head(t)), n) /\ Below(Tail(t), n)
<1>1. /\ Head(t) \in S /\ Tail(t) \in Seq(S) /\ Head(t) = t[1]
      /\ Len(t) \in Nat \ {0} /\ DOMAIN t = 1 .. Len(t)
      /\ DOMAIN Tail(t) = 1 .. Len(t) - 1
      /\ \A i \in 1 .. Len(t) - 1 : Tail(t)[i] = t[i + 1]
  BY HeadTailProperties, EmptySeq, LenProperties
<1>2. Below(Tail(t), n)
  BY <1>1 DEF Below
<1>3. Below(Append(s, Head(t)), n)
  BY <1>1, AppendProperties, LenProperties DEF Below
<1> QED
  BY <1>2, <1>3

-----------------------------------------------------------------------------
(* Where the buffers are.                                                  *)

OutputTypes ==
  /\ given \in Seq(Buffers) /\ done \in Seq(Buffers)
  /\ primed \in Nat

\* Only buffers that were primed are queued, until all are.
PrimedInTurn ==
  /\ main = "open" => given = << >> /\ done = << >>
  /\ main = "prime" /\ ~eos => Below(given, primed) /\ Below(done, primed)

CaptureBalanced ==
  /\ capture \in [num : Nat, free : Nat, pics : Nat, lost : Nat]
  /\ capture.free + capture.pics + capture.lost + (IF thread = "show" THEN 1 ELSE 0)
       = capture.num

\* The capture thread is not there before main starts it.
StartedOnce == main \in {"open", "prime"} => thread = "none"

BInv ==
  OutputTypes /\ Separate(given, done) /\ PrimedInTurn /\ CaptureBalanced /\ StartedOnce

LEMMA InitBuffers == Init => BInv
<1> SUFFICES ASSUME Init PROVE BInv
  OBVIOUS
<1>1. << >> \in Seq(Buffers) /\ DOMAIN << >> = {}
  BY EmptySeq, LenProperties
<1>2. OutputTypes /\ PrimedInTurn /\ CaptureBalanced /\ StartedOnce
  BY <1>1 DEF Init, OutputTypes, PrimedInTurn, CaptureBalanced, NoCapture, StartedOnce
<1>3. Separate(given, done)
  BY <1>1 DEF Init, Separate
<1> QED
  BY <1>2, <1>3 DEF BInv

\* A buffer that nobody has is queued, or nobody sees it.
LEMMA PrimeBuffers == ASSUME BInv, PrimeBuffer PROVE BInv'
<1> USE DEF BInv
<1>1. CaptureBalanced' /\ StartedOnce'
  BY DEF PrimeBuffer, pictures, CaptureBalanced, StartedOnce
<1>2. CASE ReadAndFail(primed) /\ UNCHANGED primed
  <2>1. UNCHANGED <<given, done, primed, main, eos>>
    BY <1>2 DEF PrimeBuffer, ReadAndFail
  <2> QED
    BY <1>1, <2>1 DEF OutputTypes, PrimedInTurn
<1>3. CASE ReadAndQueue(primed) /\ primed' = primed + (IF eos' THEN 0 ELSE 1)
  <2>1. given' = Append(given, primed) /\ done' = done /\ main' = main /\ main = "prime" /\ ~eos
    BY <1>3 DEF PrimeBuffer, ReadAndQueue
  <2>2. primed \in Buffers /\ primed \in Nat
    BY FileDecoderAssumption DEF PrimeBuffer, OutputTypes, Buffers
  <2>3. OutputTypes'
    BY <1>3, <2>1, <2>2, AppendProperties DEF OutputTypes
  <2>4. Below(given, primed) /\ Below(done, primed)
    BY <2>1 DEF PrimedInTurn
  <2>5. Separate(given', done')
    <3>1. \A i \in DOMAIN given : given[i] # primed
      BY <2>4, <2>2 DEF Below
    <3>2. \A i \in DOMAIN done : done[i] # primed
      BY <2>4, <2>2 DEF Below
    <3> QED
      BY <2>1, <2>2, <3>1, <3>2, AppendSeparate DEF OutputTypes
  <2>6. PrimedInTurn'
    <3> SUFFICES ASSUME ~eos' PROVE Below(given', primed') /\ Below(done', primed')
      BY <2>1 DEF PrimedInTurn
    <3>1. primed' = primed + 1
      BY <1>3
    <3>2. \A i \in DOMAIN given : given[i] \in Nat
      BY LenProperties, FileDecoderAssumption DEF OutputTypes, Buffers
    <3>3. \A i \in DOMAIN done : done[i] \in Nat
      BY LenProperties, FileDecoderAssumption DEF OutputTypes, Buffers
    <3>4. Below(done', primed')
      BY <2>1, <2>2, <2>4, <3>1, <3>3 DEF Below
    <3>5. Below(given', primed')
      <4> SUFFICES ASSUME NEW i \in DOMAIN Append(given, primed)
                   PROVE  Append(given, primed)[i] < primed + 1
        BY <2>1, <3>1 DEF Below
      <4>1. \/ i \in DOMAIN given /\ Append(given, primed)[i] = given[i]
            \/ Append(given, primed)[i] = primed
        BY <2>2, AppendProperties, LenProperties DEF OutputTypes
      <4> QED
        BY <2>2, <2>4, <3>2, <4>1 DEF Below
    <3> QED
      BY <3>4, <3>5
  <2> QED
    BY <1>1, <2>3, <2>5, <2>6
<1> QED
  BY <1>2, <1>3 DEF PrimeBuffer

LEMMA FeedBuffers == ASSUME BInv, Feed PROVE BInv'
<1> USE DEF BInv
<1>1. CaptureBalanced' /\ StartedOnce'
  BY DEF Feed, pictures, CaptureBalanced, StartedOnce
<1>2. /\ done # << >> /\ done' = Tail(done) /\ main' = main /\ main = "feed" /\ primed' = primed
      /\ given' \in {given, Append(given, Head(done))}
  BY DEF Feed, ReadAndQueue, ReadAndFail
<1>3. Head(done) \in Buffers /\ Tail(done) \in Seq(Buffers)
  BY <1>2, HeadTailProperties DEF OutputTypes
<1>4. OutputTypes'
  BY <1>2, <1>3, AppendProperties DEF OutputTypes
<1>5. Separate(given', done')
  BY <1>2, MoveSeparate DEF OutputTypes
<1> QED
  BY <1>1, <1>2, <1>4, <1>5 DEF PrimedInTurn

LEMMA DrainBuffers == ASSUME BInv, Drain PROVE BInv'
<1> USE DEF BInv
<1>1. /\ done # << >> /\ done' = Tail(done) /\ main' \in {"cleanup", "drain"} /\ primed' = primed
      /\ given' = given
  BY DEF Drain
<1>2. CaptureBalanced' /\ StartedOnce'
  BY DEF Drain, pictures, CaptureBalanced, StartedOnce
<1>3. OutputTypes'
  BY <1>1, HeadTailProperties DEF OutputTypes
<1>4. Separate(given', done')
  BY <1>1, MoveSeparate DEF OutputTypes
<1> QED
  BY <1>1, <1>2, <1>3, <1>4 DEF PrimedInTurn

\* The device hands a buffer back.
LEMMA DeviceBuffers == ASSUME BInv, Device PROVE BInv'
<1> USE DEF BInv
<1>1. CaptureBalanced' /\ StartedOnce'
  <2>1. thread' = thread /\ main' = main
    BY DEF Device, DeviceAnnounces, DeviceSkips, DeviceDecodes, DeviceDrains, GivesBack
  <2>2. CASE capture' = capture
    BY <2>1, <2>2 DEF CaptureBalanced, StartedOnce
  <2>3. CASE DeviceDecodes
    <3>1. /\ capture' = [capture EXCEPT !.free = capture.free - 1, !.pics = capture.pics + 1]
          /\ capture.free > 0
      BY <2>3 DEF DeviceDecodes
    <3>2. /\ capture' \in [num : Nat, free : Nat, pics : Nat, lost : Nat]
          /\ capture'.num = capture.num /\ capture'.lost = capture.lost
          /\ capture'.free = capture.free - 1 /\ capture'.pics = capture.pics + 1
      <4> DEFINE f == capture.free - 1
                 p == capture.pics + 1
      <4>1. f \in Nat /\ p \in Nat
        BY <3>1 DEF CaptureBalanced
      <4>2. capture' = [[capture EXCEPT !.free = f] EXCEPT !.pics = p]
        BY <3>1
      <4> HIDE DEF f, p
      <4>3. capture' \in [num : Nat, free : Nat, pics : Nat, lost : Nat] /\ capture'.free = f
            /\ capture'.pics = p /\ capture'.num = capture.num /\ capture'.lost = capture.lost
        BY <4>1, <4>2 DEF CaptureBalanced
      <4> QED
        BY <4>3 DEF f, p
    <3>3. capture'.free + capture'.pics = capture.free + capture.pics
      BY <3>2 DEF CaptureBalanced
    <3> QED
      BY <2>1, <3>2, <3>3 DEF CaptureBalanced, StartedOnce
  <2> QED
    BY <2>2, <2>3 DEF Device, DeviceAnnounces, DeviceSkips, DeviceDrains, pictures
<1>2. CASE DeviceAnnounces
  BY <1>1, <1>2 DEF DeviceAnnounces, input, OutputTypes, PrimedInTurn
<1>3. CASE DeviceSkips \/ DeviceDecodes \/ DeviceDrains
  <2>1. /\ given # << >> /\ given' = Tail(given) /\ done' = Append(done, Head(given))
        /\ UNCHANGED <<main, primed, eos>>
    BY <1>3 DEF DeviceSkips, DeviceDecodes, DeviceDrains, HasUnit, GivesBack
  <2>2. Head(given) \in Buffers /\ Tail(given) \in Seq(Buffers)
    BY <2>1, HeadTailProperties DEF OutputTypes
  <2>3. OutputTypes'
    BY <2>1, <2>2, AppendProperties DEF OutputTypes
  <2>4. Separate(done, given)
    BY SeparateSymmetric
  <2>5. Separate(done', given')
    BY <2>1, <2>4, MoveSeparate DEF OutputTypes
  <2>6. Separate(given', done')
    BY <2>5, SeparateSymmetric
  <2>7. PrimedInTurn'
    BY <2>1, MoveBelow DEF OutputTypes, PrimedInTurn
  <2> QED
    BY <1>1, <2>3, <2>6, <2>7
<1> QED
  BY <1>2, <1>3 DEF Device

\* What leaves the queues alone.
LEMMA OtherMainBuffers ==
  ASSUME BInv,
         CreateFails \/ OpenFails \/ Open \/ StartThread \/ DqFails \/ FeedEnds \/ DrainEnds \/ Cleanup
  PROVE  BInv'
<1> USE DEF BInv
<1>1. UNCHANGED <<primed, eos, given, done>>
  BY DEF CreateFails, OpenFails, Open, StartThread, DqFails, FeedEnds, DrainEnds, Cleanup, input
<1>2. main' = main \/ main' # "open"
  BY DEF CreateFails, OpenFails, Open, StartThread, DqFails, FeedEnds, DrainEnds, Cleanup
<1>3. PrimedInTurn'
  <2>1. CASE main' = main
    BY <1>1, <2>1 DEF PrimedInTurn
  <2>2. CASE Open
    <3>1. DOMAIN << >> = {}
      BY EmptySeq, LenProperties
    <3> QED
      BY <1>1, <2>2, <3>1 DEF Open, PrimedInTurn, Below
  <2>3. CASE main' \notin {"open", "prime"}
    BY <2>3 DEF PrimedInTurn
  <2> QED
    BY <2>1, <2>2, <2>3
       DEF CreateFails, OpenFails, Open, StartThread, DqFails, FeedEnds, DrainEnds, Cleanup
<1>4. CaptureBalanced'
  <2>1. CASE Cleanup
    BY <2>1 DEF Cleanup, CaptureBalanced, NoCapture
  <2>2. CASE StartThread
    BY <2>2 DEF StartThread, CaptureBalanced, pictures, StartedOnce
  <2> QED
    BY <2>1, <2>2
       DEF CreateFails, OpenFails, Open, DqFails, FeedEnds, DrainEnds, pictures, CaptureBalanced
<1>5. StartedOnce'
  BY DEF CreateFails, OpenFails, Open, StartThread, DqFails, FeedEnds, DrainEnds, Cleanup, StartedOnce
<1> QED
  BY <1>1, <1>3, <1>4, <1>5 DEF OutputTypes

LEMMA ThreadBuffers == ASSUME BInv, CaptureThread PROVE BInv'
<1> USE DEF BInv
<1>1. UNCHANGED <<main, primed, eos, given, done>>
  BY DEF CaptureThread, FirstEvent, QueryAndSetCapture, NoFormat, NoTransformBuffer, NoWindow,
       NoPlane, CannotSet, NoSecondWindow, SetCapture, Loop, Take, TakeNothing, TakeFails, Show,
       TransformFails, RequeueFails, input
<1>2. thread # "none"
  BY DEF CaptureThread, FirstEvent, QueryAndSetCapture, NoFormat, NoTransformBuffer, NoWindow,
       NoPlane, CannotSet, NoSecondWindow, SetCapture, Loop, Take, TakeNothing, TakeFails, Show,
       TransformFails, RequeueFails
<1>3. CaptureBalanced'
  <2>1. CASE FirstEvent \/ Loop \/ TakeNothing \/ TakeFails
    BY <2>1 DEF FirstEvent, Loop, TakeNothing, TakeFails, pictures, CaptureBalanced
  <2>2. CASE QueryAndSetCapture
    <3>1. CASE NoPlane
      BY <3>1 DEF NoPlane, CannotSet, NoCapture, CaptureBalanced
    <3>2. CASE SetCapture
      BY <3>2, FileDecoderAssumption DEF SetCapture, CaptureBalanced
    <3>3. CASE NoFormat \/ NoTransformBuffer \/ NoWindow \/ NoSecondWindow
      <4>1. capture' = capture /\ thread = "set" /\ thread' \in {"set", "loop"}
        BY <3>3 DEF NoFormat, NoTransformBuffer, NoWindow, NoSecondWindow, CannotSet
      <4> QED
        BY <4>1 DEF CaptureBalanced
    <3> QED
      BY <2>2, <3>1, <3>2, <3>3 DEF QueryAndSetCapture
  <2>3. CASE Take
    <3>1. /\ capture' = [capture EXCEPT !.pics = capture.pics - 1] /\ capture.pics > 0
          /\ thread = "take" /\ thread' = "show"
      BY <2>3 DEF Take
    <3> QED
      BY <3>1 DEF CaptureBalanced
  <2>4. CASE Show
    <3>1. /\ capture' = [capture EXCEPT !.free = capture.free + 1]
          /\ thread = "show" /\ thread' = "take"
      BY <2>4 DEF Show, Requeued
    <3> QED
      BY <3>1 DEF CaptureBalanced
  <2>5. CASE TransformFails \/ RequeueFails
    <3>1. /\ capture' = [capture EXCEPT !.lost = capture.lost + 1]
          /\ thread = "show" /\ thread' = "loop"
      BY <2>5 DEF TransformFails, RequeueFails, Lost
    <3> QED
      BY <3>1 DEF CaptureBalanced
  <2> QED
    BY <2>1, <2>2, <2>3, <2>4, <2>5 DEF CaptureThread
<1> QED
  BY <1>1, <1>2, <1>3 DEF OutputTypes, PrimedInTurn, StartedOnce

LEMMA StepBuffers == BInv /\ [Next]_vars => BInv'
<1> SUFFICES ASSUME BInv, [Next]_vars PROVE BInv'
  OBVIOUS
<1>1. CASE UNCHANGED vars
  BY <1>1 DEF vars, input, pictures, BInv, OutputTypes, PrimedInTurn, CaptureBalanced, StartedOnce
<1>2. CASE MainThread
  BY <1>2, PrimeBuffers, FeedBuffers, DrainBuffers, OtherMainBuffers DEF MainThread
<1> QED
  BY <1>1, <1>2, ThreadBuffers, DeviceBuffers DEF Next

(* A buffer of the output plane is with the device, given back by it or    *)
(* with main, and one of the capture plane with the device, holding a      *)
(* picture, with the thread or dropped: never in two places, for any       *)
(* number of them and whatever fails.                                      *)
THEOREM FileBuffersInOnePlace == Spec => []BuffersInOnePlace
<1>1. BInv => BuffersInOnePlace
  BY ConcatInjective DEF BInv, OutputTypes, CaptureBalanced, BuffersInOnePlace
<1> QED
  BY <1>1, InitBuffers, StepBuffers, PTL DEF Spec
-----------------------------------------------------------------------------
(* The least of a set of natural numbers.                                  *)

LEMMA MinOfSet ==
  ASSUME NEW S \in SUBSET Nat, S # {}
  PROVE  Min(S) \in S /\ \A y \in S : Min(S) <= y
<1> DEFINE R == {p \in Nat \X Nat : p[1] < p[2]}
<1>1. IsWellFoundedOn(R, Nat)
  BY NatLessThanWellFounded, Zenon DEF OpToRel
<1>2. PICK x \in S : \A y \in S : ~(<<y, x>> \in R)
  <2> HIDE DEF R
  <2> QED
    BY <1>1, WFMin
<1>3. \A y \in S : x <= y
  <2> TAKE y \in S
  <2>1. <<y, x>> \in Nat \X Nat
    OBVIOUS
  <2>2. ~(y < x)
    BY <1>2, <2>1
  <2> QED
    BY <2>2
<1> HIDE DEF R
<1> QED
  BY <1>3 DEF Min

LEMMA MinIs ==
  ASSUME NEW S \in SUBSET Nat, NEW x \in S, \A y \in S : x <= y
  PROVE  Min(S) = x
<1>1. Min(S) \in S /\ Min(S) <= x
  BY MinOfSet
<1> DEFINE m == Min(S)
<1>2. x \in Nat /\ m \in Nat /\ m <= x /\ x <= m
  BY <1>1
<1> HIDE DEF m
<1>3. m = x
  BY <1>2
<1> QED
  BY <1>3 DEF m

LEMMA MinOfTwo ==
  ASSUME NEW a \in Nat, NEW b \in Nat
  PROVE  Min({a, b}) = IF a <= b THEN a ELSE b
<1>1. {a, b} \in SUBSET Nat
  OBVIOUS
<1>2. CASE a <= b
  <2>1. \A y \in {a, b} : a <= y
    BY <1>2
  <2> QED
    BY <1>1, <1>2, <2>1, MinIs
<1>3. CASE ~(a <= b)
  <2>1. \A y \in {a, b} : b <= y
    BY <1>3
  <2> QED
    BY <1>1, <1>3, <2>1, MinIs
<1> QED
  BY <1>2, <1>3

LEMMA MaxOfTwo ==
  ASSUME NEW a \in Int, NEW b \in Int
  PROVE  Max({a, b}) = IF a >= b THEN a ELSE b
BY DEF Max

-----------------------------------------------------------------------------
(* One call of read_decoder_input_nalu.                                    *)

StreamTypes(f) == [pos : 0 .. f.len, fail : BOOLEAN]

LEMMA UnitTypes ==
  ASSUME NEW f, WellFormed(f)
  PROVE  /\ f.len \in Nat /\ Len(f.units) \in Nat /\ DOMAIN f.units = 1 .. Len(f.units)
         /\ \A n \in 1 .. Len(f.units) : f.units[n].at \in Nat /\ f.units[n].code \in {3, 4}
<1> DEFINE U == [at : Nat, code : {3, 4}, slice : BOOLEAN]
<1>1. f.len \in Nat /\ f.units \in Seq(U)
  BY DEF WellFormed
<1> HIDE DEF U
<1>2. /\ Len(f.units) \in Nat /\ DOMAIN f.units = 1 .. Len(f.units)
      /\ \A n \in 1 .. Len(f.units) : f.units[n] \in U
  BY <1>1, LenProperties
<1> QED
  BY <1>1, <1>2 DEF U

LEMMA StartIs ==
  ASSUME NEW f, WellFormed(f), NEW q
  PROVE  q \in Starts(f) <=> \E n \in 1 .. Len(f.units) :
                               q = f.units[n].at \/ (f.units[n].code = 4 /\ q = f.units[n].at + 1)
BY UnitTypes DEF Starts, ToSet

LEMMA StartTypes ==
  ASSUME NEW f, WellFormed(f)
  PROVE  Starts(f) \in SUBSET Nat
<1> SUFFICES ASSUME NEW q \in Starts(f) PROVE q \in Nat
  OBVIOUS
<1>1. PICK n \in 1 .. Len(f.units) :
        q = f.units[n].at \/ (f.units[n].code = 4 /\ q = f.units[n].at + 1)
  BY StartIs
<1>2. f.units[n].at \in Nat
  BY UnitTypes
<1> QED
  BY <1>1, <1>2

LEMMA BytesReadTypes ==
  ASSUME NEW f, WellFormed(f), NEW st \in StreamTypes(f)
  PROVE  /\ BytesRead(f, st) = IF st.fail THEN 0 ELSE IF Chunk <= f.len - st.pos THEN Chunk
                                                ELSE f.len - st.pos
         /\ WindowEnd(f, st) \in st.pos .. f.len
<1>1. st.pos \in 0 .. f.len /\ f.len \in Nat /\ f.len - st.pos \in Nat /\ Chunk \in Nat
  BY UnitTypes, ChunkAssumption DEF StreamTypes
<1>2. BytesRead(f, st) = IF st.fail THEN 0 ELSE IF Chunk <= f.len - st.pos THEN Chunk
                                           ELSE f.len - st.pos
  BY <1>1, MinOfTwo DEF BytesRead
<1> QED
  BY <1>1, <1>2 DEF WindowEnd

LEMMA SeenTypes ==
  ASSUME NEW f, WellFormed(f), NEW st \in StreamTypes(f), NEW from
  PROVE  Seen(f, st, from) \in SUBSET Nat
BY StartTypes DEF Seen

\* What is copied begins at a start code of the window and ends where the stream
\* goes on, or earlier.
LEMMA ReadGoesOn ==
  ASSUME NEW f, WellFormed(f), NEW st \in StreamTypes(f), NEW held,
         NEW r, r = ReadNalu(f, st, held)
  PROVE  /\ r.stream \in StreamTypes(f) /\ st.pos <= r.stream.pos
         /\ \/ r.data \in {Nothing, held}
            \/ /\ r.data \in Nat \X Nat /\ r.data[1] \in Starts(f)
               /\ st.pos <= r.data[1] /\ r.data[2] <= r.stream.pos
<1> DEFINE firsts == Seen(f, st, st.pos)
           first == Min(firsts)
           nexts == Seen(f, st, first + 4)
           we == WindowEnd(f, st)
<1>1. st.pos \in 0 .. f.len /\ st.fail \in BOOLEAN /\ f.len \in Nat /\ we \in st.pos .. f.len
  BY UnitTypes, BytesReadTypes DEF StreamTypes
<1>2. AfterWindow(f, st) \in StreamTypes(f) /\ AfterWindow(f, st).pos = we
  BY <1>1 DEF AfterWindow, StreamTypes
<1>3. CASE BytesRead(f, st) = 0
  <2>1. r.stream = [st EXCEPT !.fail = TRUE] /\ r.data = Nothing
    BY <1>3 DEF ReadNalu
  <2>2. r.stream \in StreamTypes(f) /\ r.stream.pos = st.pos
    BY <2>1 DEF StreamTypes
  <2> QED
    BY <1>1, <2>1, <2>2
<1>4. CASE BytesRead(f, st) # 0 /\ firsts = {}
  <2>1. r.stream = AfterWindow(f, st) /\ r.data = held
    BY <1>4 DEF ReadNalu
  <2> QED
    BY <1>1, <1>2, <2>1
<1>5. CASE BytesRead(f, st) # 0 /\ firsts # {}
  <2>1. first \in firsts
    BY <1>5, SeenTypes, MinOfSet
  <2>2. first \in Nat /\ first \in Starts(f) /\ st.pos <= first /\ first < we - 3
    <3>1. \A q \in firsts : q \in Nat /\ q \in Starts(f) /\ st.pos <= q /\ q < we - 3
      BY StartTypes DEF Seen
    <3> QED
      BY <2>1, <3>1
  <2>3. CASE nexts = {}
    <3>1. /\ r.stream = AfterWindow(f, st)
          /\ r.data = <<first, Max({first + 4, we - 3})>>
      BY <1>5, <2>3 DEF ReadNalu
    <3>2. Max({first + 4, we - 3}) \in Nat /\ Max({first + 4, we - 3}) <= we
      BY <1>1, <2>2, MaxOfTwo
    <3> HIDE DEF first, we
    <3> QED
      BY <1>1, <1>2, <2>2, <3>1, <3>2
  <2>4. CASE nexts # {}
    <3>1. /\ r.stream = [pos |-> Min(nexts), fail |-> FALSE]
          /\ r.data = <<first, Min(nexts)>>
      BY <1>5, <2>4 DEF ReadNalu, AtNext
    <3>2. Min(nexts) \in nexts
      BY <2>4, SeenTypes, MinOfSet
    <3>3. Min(nexts) \in Nat /\ first + 4 <= Min(nexts) /\ Min(nexts) < we - 3
      BY <3>2, StartTypes DEF Seen
    <3> DEFINE next == Min(nexts)
    <3>4. next \in Nat /\ first + 4 <= next /\ next < we - 3 /\ r.stream = [pos |-> next, fail |-> FALSE]
          /\ r.data = <<first, next>>
      BY <3>1, <3>3
    <3> HIDE DEF first, we, next
    <3>5. r.stream \in StreamTypes(f) /\ r.stream.pos = next
      BY <1>1, <2>2, <3>4 DEF StreamTypes
    <3> QED
      BY <1>1, <2>2, <3>4, <3>5
  <2> QED
    BY <2>3, <2>4
<1> QED
  BY <1>3, <1>4, <1>5


\* The units lie apart.
LEMMA UnitsAscend ==
  ASSUME NEW f, WellFormed(f), NEW m \in 1 .. Len(f.units), NEW n \in 1 .. Len(f.units)
  PROVE  /\ m < n => /\ f.units[m].at + f.units[m].code < f.units[n].at
                     /\ f.units[m].at + 3 < f.units[n].at
         /\ m <= n => f.units[m].at <= f.units[n].at
         /\ f.units[n].at + 3 < f.len
<1>1. /\ f.units[m].at \in Nat /\ f.units[m].code \in {3, 4}
      /\ f.units[n].at \in Nat /\ f.units[n].code \in {3, 4}
      /\ f.len \in Nat
  BY UnitTypes
<1>2. m < n => f.units[m].at + f.units[m].code < f.units[n].at
  BY UnitTypes DEF WellFormed
<1>3. f.units[n].at + f.units[n].code < f.len
  BY UnitTypes DEF WellFormed
<1>4. m = n => f.units[m].at = f.units[n].at
  OBVIOUS
<1> DEFINE a == f.units[m].at
           b == f.units[n].at
<1>5. a \in Nat /\ b \in Nat /\ (m < n => a + 3 < b) /\ (m = n => a = b) /\ b + 3 < f.len
  BY <1>1, <1>2, <1>3, <1>4
<1> HIDE DEF a, b
<1>6. (m < n => a + 3 < b) /\ (m <= n => a <= b) /\ b + 3 < f.len
  BY <1>5
<1> QED
  BY <1>2, <1>6 DEF a, b

\* Where the stream stands when it is unit n's turn.
From(n) == IF n = 1 THEN 0 ELSE file.units[n].at
AtUnit(st, n) ==
  IF n <= Len(file.units) THEN ~st.fail /\ st.pos = From(n) ELSE BytesRead(file, st) = 0

\* If the units fit the window, unit n is read whole in its turn.
LEMMA ReadsUnit ==
  ASSUME WellFormed(file), Fits, NEW n \in 1 .. Len(file.units),
         NEW st \in StreamTypes(file), AtUnit(st, n),
         NEW held, NEW r, r = ReadNalu(file, st, held)
  PROVE  r.data = Expected[n] /\ AtUnit(r.stream, n + 1)
<1> DEFINE N == Len(file.units)
           at(m) == file.units[m].at
           a == at(n)
           next == at(n + 1)
           we == WindowEnd(file, st)
           firsts == Seen(file, st, st.pos)
           nexts == Seen(file, st, a + 4)
<1>1. N \in Nat /\ n \in 1 .. N /\ file.len \in Nat /\ Chunk \in Nat /\ Chunk > 3
  BY UnitTypes, ChunkAssumption
<1>2. \A m \in 1 .. N : at(m) \in Nat
  BY UnitTypes
<1>3. ~st.fail /\ st.pos = From(n) /\ st.pos \in 0 .. file.len
  BY DEF AtUnit, StreamTypes
<1>4. a \in Nat /\ st.pos <= a /\ a + 3 < file.len /\ (n # 1 => st.pos = a)
  BY <1>1, <1>2, <1>3, UnitsAscend DEF From
<1>5. n < N => next \in Nat /\ a + 3 < next /\ next + 3 < file.len
  BY <1>1, <1>2, UnitsAscend
<1>6. n < N => next - st.pos <= Chunk - 4
  BY <1>1, <1>3, UnitTypes DEF Fits, UnitEnd, From
<1>7. n = N => file.len - st.pos <= Chunk
  BY <1>1, <1>3, UnitTypes DEF Fits, UnitEnd, From
<1>8. we = IF Chunk <= file.len - st.pos THEN st.pos + Chunk ELSE file.len
  BY <1>1, <1>3, BytesReadTypes DEF WindowEnd
<1>9. BytesRead(file, st) # 0
  BY <1>1, <1>3, <1>4, BytesReadTypes
<1>10. \A q : q \in Starts(file) <=>
               \E m \in 1 .. N : q = at(m) \/ (file.units[m].code = 4 /\ q = at(m) + 1)
  BY StartIs
<1>11. \A m \in 1 .. N : /\ m < n => at(m) + 3 < a
                         /\ m >= n => a <= at(m)
  BY UnitsAscend
<1>12. n < N => \A m \in 1 .. N : m > n => next <= at(m)
  BY <1>1, UnitsAscend
<1>13. we \in Nat /\ a < we - 3 /\ (n < N => next < we - 3) /\ (n = N => we = file.len)
  <2> DEFINE p == st.pos
             len == file.len
  <2>1. /\ p \in Nat /\ len \in Nat /\ p <= len /\ Chunk \in Nat /\ Chunk > 3
        /\ a \in Nat /\ p <= a /\ a + 3 < len
        /\ we = IF Chunk <= len - p THEN p + Chunk ELSE len
    BY <1>1, <1>3, <1>4, <1>8
  <2>2. n < N => next \in Nat /\ a + 3 < next /\ next + 3 < len /\ next - p <= Chunk - 4
    BY <1>5, <1>6
  <2>3. n = N => len - p <= Chunk
    BY <1>7
  <2>4. N \in Nat /\ n \in Nat /\ n <= N
    BY <1>1
  <2>5. /\ we \in Nat /\ a < we - 3 /\ (n < N => next < we - 3) /\ (n = N => we = len)
    <3> HIDE DEF a, next, we, N, p, len
    <3> QED
      BY <2>1, <2>2, <2>3, <2>4
  <2> QED
    BY <2>5 DEF len
<1>14. a \in firsts
  BY <1>4, <1>10, <1>13 DEF Seen
<1>15. \A q \in firsts : a <= q
  <2> SUFFICES ASSUME NEW q \in firsts PROVE a <= q
    OBVIOUS
  <2>1. q \in Starts(file) /\ st.pos <= q
    BY DEF Seen
  <2>2. PICK m \in 1 .. N : q = at(m) \/ q = at(m) + 1
    BY <2>1, <1>10
  <2>3. CASE n # 1
    BY <1>4, <2>1, <2>3
  <2>4. CASE n = 1
    BY <1>1, <1>2, <1>4, <1>11, <2>2, <2>4
  <2> QED
    BY <2>3, <2>4
<1>16. Min(firsts) = a
  BY <1>14, <1>15, SeenTypes, MinIs
<1>17. CASE n < N
  <2>1. next \in nexts
    <3>1. next \in Starts(file)
      <4>1. n + 1 \in 1 .. N
        BY <1>1, <1>17
      <4> QED
        BY <1>10, <4>1
    <3>2. a + 4 <= next
      <4>1. next \in Nat /\ a + 3 < next /\ a \in Nat
        BY <1>4, <1>5, <1>17
      <4> HIDE DEF a, next
      <4> QED
        BY <4>1
    <3> QED
      BY <1>13, <1>17, <3>1, <3>2 DEF Seen
  <2>2. \A q \in nexts : next <= q
    <3> SUFFICES ASSUME NEW q \in nexts PROVE next <= q
      OBVIOUS
    <3>1. q \in Starts(file) /\ a + 4 <= q
      BY DEF Seen
    <3>2. PICK m \in 1 .. N : q = at(m) \/ q = at(m) + 1
      BY <3>1, <1>10
    <3>3. m > n
      BY <1>1, <1>2, <1>4, <1>11, <3>1, <3>2
    <3> QED
      BY <1>2, <1>5, <1>12, <1>17, <3>2, <3>3
  <2>3. Min(nexts) = next
    BY <2>1, <2>2, SeenTypes, MinIs
  <2>4. r.stream = [pos |-> next, fail |-> FALSE] /\ r.data = <<a, next>>
    BY <1>9, <1>14, <1>16, <2>1, <2>3 DEF ReadNalu, AtNext
  <2>5. Expected[n] = <<a, next>>
    BY <1>1, <1>17 DEF Expected, UnitEnd
  <2>6. AtUnit(r.stream, n + 1)
    BY <1>1, <1>17, <2>4 DEF AtUnit, From
  <2> QED
    BY <2>4, <2>5, <2>6
<1>18. CASE n = N
  <2>1. nexts = {}
    <3> SUFFICES ASSUME NEW q \in nexts PROVE FALSE
      OBVIOUS
    <3>1. q \in Starts(file) /\ a + 4 <= q
      BY DEF Seen
    <3>2. PICK m \in 1 .. N : q = at(m) \/ q = at(m) + 1
      BY <3>1, <1>10
    <3>3. m < n \/ m = n
      BY <1>1, <1>18
    <3> QED
      BY <1>1, <1>2, <1>4, <1>11, <3>1, <3>2, <3>3
  <2>2. r.stream = AfterWindow(file, st) /\ r.data = <<a, Max({a + 4, we - 3})>>
    BY <1>9, <1>14, <1>16, <2>1 DEF ReadNalu
  <2>3. Expected[n] = <<a, Max({a + 4, file.len - 3})>>
    BY <1>1, <1>18 DEF Expected
  <2>4. r.data = Expected[n]
    BY <1>13, <1>18, <2>2, <2>3
  <2>5. r.stream = [pos |-> file.len, fail |-> BytesRead(file, st) < Chunk]
    BY <1>13, <1>18, <2>2 DEF AfterWindow
  <2>6. r.stream \in StreamTypes(file)
    BY ReadGoesOn
  <2>7. BytesRead(file, r.stream) = 0
    BY <1>1, <2>5, <2>6, BytesReadTypes
  <2> QED
    BY <1>1, <1>18, <2>4, <2>7 DEF AtUnit
<1> QED
  BY <1>1, <1>17, <1>18

\* Behind the last one, nothing.
LEMMA ReadsEnd ==
  ASSUME WellFormed(file), NEW st, AtUnit(st, Len(file.units) + 1),
         NEW held, NEW r, r = ReadNalu(file, st, held)
  PROVE  r.data = Nothing /\ Expected[Len(file.units) + 1] = Nothing
<1>1. Len(file.units) \in Nat
  BY UnitTypes
<1>2. BytesRead(file, st) = 0
  BY <1>1 DEF AtUnit
<1>3. Expected[Len(file.units) + 1] = Nothing
  BY <1>1 DEF Expected
<1> QED
  BY <1>2, <1>3 DEF ReadNalu


-----------------------------------------------------------------------------
(* What is read and what is sent.                                          *)

Ranges == Nat \X Nat

ReadTypes ==
  /\ file \in Files /\ stream \in StreamTypes(file)
  /\ data \in [Buffers -> Ranges] /\ sent \in Seq(Ranges)

\* The units are sent as the file has them, and the stream stands at the next.
FollowsFile ==
  /\ Len(sent) <= Len(file.units) + 1
  /\ \A i \in 1 .. Len(sent) : sent[i] = Expected[i]
  /\ Works /\ ~eos => Len(sent) <= Len(file.units) /\ AtUnit(stream, Len(sent) + 1)

Repeats(j) == \E i \in 1 .. j - 1 : sent[i] = sent[j]
GoesOn(j) == sent[j][1] \in Starts(file) /\ \A i \in 1 .. j - 1 : sent[i][2] <= sent[j][1]

\* What is sent lies before the stream, and what a buffer holds was sent.
NeverBack ==
  /\ \A j \in 1 .. Len(sent) : sent[j] = Nothing \/ Repeats(j) \/ GoesOn(j)
  /\ Works => /\ \A i \in 1 .. Len(sent) : sent[i][2] <= stream.pos
              /\ \A b \in Buffers : data[b] = Nothing \/ \E i \in 1 .. Len(sent) : sent[i] = data[b]

UInv == ReadTypes /\ (Fits => FollowsFile) /\ (~Fits => NeverBack)

LEMMA NothingIs == Nothing \in Ranges /\ Nothing[2] = 0
BY DEF Nothing, Ranges

LEMMA InitUnits == Init => UInv
<1> SUFFICES ASSUME Init PROVE UInv
  OBVIOUS
<1>1. WellFormed(file) /\ file \in Files
  BY FilesAssumption DEF Init
<1>2. /\ file.len \in Nat /\ Len(file.units) \in Nat /\ DOMAIN file.units = 1 .. Len(file.units)
  BY <1>1, UnitTypes
<1>3. sent = << >> /\ sent \in Seq(Ranges) /\ Len(sent) = 0
  BY EmptySeq DEF Init
<1>4. stream = [pos |-> 0, fail |-> FALSE] /\ stream \in StreamTypes(file)
  BY <1>2 DEF Init, StreamTypes
<1>5. data \in [Buffers -> Ranges] /\ \A b \in Buffers : data[b] = Nothing
  BY NothingIs DEF Init
<1>6. ReadTypes
  BY <1>1, <1>3, <1>4, <1>5 DEF ReadTypes
<1>7. ASSUME Fits PROVE FollowsFile
  <2>1. Len(file.units) # 0
    <3> DEFINE U == [at : Nat, code : {3, 4}, slice : BOOLEAN]
    <3>1. file.units \in Seq(U) /\ file.units # << >>
      BY <1>1, <1>7 DEF WellFormed, Fits
    <3> HIDE DEF U
    <3> QED
      BY <3>1, EmptySeq
  <2> QED
    BY <1>2, <1>3, <1>4, <2>1 DEF FollowsFile, AtUnit, From
<1>8. NeverBack
  BY <1>3, <1>5 DEF NeverBack
<1> QED
  BY <1>6, <1>7, <1>8 DEF UInv

\* A step that reads nothing and, if anything, ends the reading.
LEMMA OtherUnits ==
  ASSUME UInv, UNCHANGED <<file, stream, data, sent, eos>>, gotError => gotError'
  PROVE  UInv'
<1>1. Fits' <=> Fits
  BY DEF Fits, UnitEnd
<1>2. ReadTypes'
  BY DEF UInv, ReadTypes
<1>3. FollowsFile => FollowsFile'
  BY DEF FollowsFile, Expected, UnitEnd, AtUnit, From, Works
<1>4. NeverBack => NeverBack'
  BY DEF NeverBack, Repeats, GoesOn, Works
<1> QED
  BY <1>1, <1>2, <1>3, <1>4 DEF UInv

\* A unit that is read for a buffer that is not taken is lost, with the decoder.
LEMMA FailUnits ==
  ASSUME UInv, NEW b \in Buffers, ReadAndFail(b), UNCHANGED file
  PROVE  UInv'
<1> DEFINE r == ReadNalu(file, stream, data[b])
<1>1. WellFormed(file) /\ stream \in StreamTypes(file) /\ data[b] \in Ranges
  BY FilesAssumption DEF UInv, ReadTypes
<1>2. /\ stream' = r.stream /\ data' = [data EXCEPT ![b] = r.data]
      /\ gotError' = TRUE /\ UNCHANGED <<sent, eos>>
  BY DEF ReadAndFail
<1>3. r.stream \in StreamTypes(file) /\ r.data \in Ranges
  BY <1>1, ReadGoesOn, NothingIs DEF Ranges
<1>4. ReadTypes'
  BY <1>2, <1>3 DEF UInv, ReadTypes
<1>5. Fits' <=> Fits
  BY DEF Fits, UnitEnd
<1>6. FollowsFile => FollowsFile'
  BY <1>2 DEF FollowsFile, Expected, UnitEnd, Works
<1>7. NeverBack => NeverBack'
  BY <1>2 DEF NeverBack, Repeats, GoesOn, Works
<1> QED
  BY <1>4, <1>5, <1>6, <1>7 DEF UInv

\* One that is queued is the next one.
LEMMA QueueUnits ==
  ASSUME UInv, NEW b \in Buffers, ReadAndQueue(b), UNCHANGED <<file, gotError>>, Works, ~eos
  PROVE  UInv'
<1> SUFFICES ASSUME NEW r, r = ReadNalu(file, stream, data[b]), NEW n, n = Len(sent)
             PROVE  UInv'
  OBVIOUS
<1>1. /\ WellFormed(file) /\ stream \in StreamTypes(file) /\ data[b] \in Ranges
      /\ sent \in Seq(Ranges) /\ n \in Nat /\ data \in [Buffers -> Ranges]
  BY FilesAssumption, LenProperties DEF UInv, ReadTypes
<1>2. /\ stream' = r.stream /\ data' = [data EXCEPT ![b] = r.data]
      /\ sent' = Append(sent, r.data) /\ eos' = IsNothing(r.data)
  BY DEF ReadAndQueue
<1>3. /\ r.stream \in StreamTypes(file) /\ stream.pos <= r.stream.pos
      /\ \/ r.data \in {Nothing, data[b]}
         \/ /\ r.data \in Ranges /\ r.data[1] \in Starts(file)
            /\ stream.pos <= r.data[1] /\ r.data[2] <= r.stream.pos
  BY <1>1, ReadGoesOn DEF Ranges
<1>4. r.data \in Ranges
  BY <1>1, <1>3, NothingIs
<1>5. /\ sent' \in Seq(Ranges) /\ Len(sent') = n + 1
      /\ \A i \in 1 .. n : sent'[i] = sent[i]
      /\ sent'[n + 1] = r.data
  BY <1>1, <1>2, <1>4, AppendProperties
<1>6. ReadTypes'
  BY <1>1, <1>2, <1>3, <1>4, <1>5 DEF UInv, ReadTypes
<1>7. Fits' <=> Fits
  BY DEF Fits, UnitEnd
<1>8. ASSUME Fits PROVE FollowsFile'
  <2>1. FollowsFile /\ AtUnit(stream, n + 1) /\ n <= Len(file.units) /\ Len(file.units) \in Nat
    BY <1>1, <1>8, UnitTypes DEF UInv, FollowsFile
  <2>2. r.data = Expected[n + 1] /\ (~eos' => n + 1 <= Len(file.units) /\ AtUnit(r.stream, n + 2))
    <3>1. CASE n < Len(file.units)
      <4>1. n + 1 \in 1 .. Len(file.units) /\ (n + 1) + 1 = n + 2
        BY <1>1, <2>1, <3>1
      <4>2. r.data = Expected[n + 1] /\ AtUnit(r.stream, (n + 1) + 1)
        BY <1>1, <1>8, <2>1, <4>1, ReadsUnit
      <4> QED
        BY <4>1, <4>2
    <3>2. CASE n = Len(file.units)
      <4>1. r.data = Nothing /\ Expected[n + 1] = Nothing
        BY <1>1, <2>1, <3>2, ReadsEnd
      <4>2. eos' = IsNothing(r.data)
        BY <1>2
      <4>3. IsNothing(Nothing)
        BY DEF IsNothing, Nothing
      <4>4. IsNothing(r.data)
        BY <4>1, <4>3, Zenon
      <4> QED
        BY <4>1, <4>2, <4>4, Zenon
    <3> QED
      BY <1>1, <2>1, <3>1, <3>2
  <2>3. Expected' = Expected
    BY DEF Expected, UnitEnd
  <2>4. \A i \in 1 .. n + 1 : sent'[i] = Expected[i]
    BY <1>1, <1>5, <2>1, <2>2 DEF FollowsFile
  <2>5. ~eos' => AtUnit(stream, n + 2)'
    BY <1>2, <2>2, <1>5 DEF AtUnit, From
  <2>6. n + 1 <= Len(file.units) + 1 /\ (n + 1) + 1 = n + 2
    BY <1>1, <2>1
  <2> QED
    BY <1>5, <2>2, <2>3, <2>4, <2>5, <2>6 DEF FollowsFile
<1>9. ASSUME ~Fits PROVE NeverBack'
  <2>1. NeverBack /\ Works
    BY <1>9 DEF UInv
  <2>2. \A i \in 1 .. n : sent[i] \in Ranges /\ sent[i][2] \in Nat
    BY <1>1, LenProperties DEF Ranges
  <2>3. stream.pos \in Nat /\ r.stream.pos \in Nat
    BY <1>1, <1>3, UnitTypes DEF StreamTypes
  <2>4. \A j \in 1 .. n : sent'[j] = Nothing \/ Repeats(j)' \/ GoesOn(j)'
    <3> SUFFICES ASSUME NEW j \in 1 .. n PROVE sent'[j] = Nothing \/ Repeats(j)' \/ GoesOn(j)'
      OBVIOUS
    <3>1. \A i \in 1 .. j : sent'[i] = sent[i]
      BY <1>1, <1>5
    <3>2. j \in 1 .. j /\ \A i \in 1 .. j - 1 : i \in 1 .. j
      BY <1>1
    <3>3. sent[j] = Nothing \/ Repeats(j) \/ GoesOn(j)
      BY <2>1 DEF NeverBack
    <3> QED
      BY <3>1, <3>2, <3>3 DEF Repeats, GoesOn
  <2>5. r.data = Nothing \/ (\E i \in 1 .. n : sent'[i] = r.data) \/ GoesOn(n + 1)'
    <3>1. CASE r.data = data[b]
      BY <1>5, <2>1, <3>1 DEF NeverBack
    <3>2. CASE r.data[1] \in Starts(file) /\ stream.pos <= r.data[1] /\ r.data \in Ranges
      <4>1. \A i \in 1 .. n : sent'[i][2] <= r.data[1]
        BY <1>5, <2>1, <2>2, <2>3, <3>2 DEF NeverBack, Ranges
      <4>2. (n + 1) - 1 = n
        BY <1>1
      <4> QED
        BY <1>5, <3>2, <4>1, <4>2 DEF GoesOn
    <3> QED
      BY <1>3, <3>1, <3>2
  <2>6. \A j \in 1 .. n + 1 : sent'[j] = Nothing \/ Repeats(j)' \/ GoesOn(j)'
    <3>1. (n + 1) - 1 = n /\ \A j \in 1 .. n + 1 : j \in 1 .. n \/ j = n + 1
      BY <1>1
    <3>2. sent'[n + 1] = Nothing \/ Repeats(n + 1)' \/ GoesOn(n + 1)'
      <4> QED
        BY <1>5, <2>5, <3>1 DEF Repeats
    <3> QED
      BY <2>4, <3>1, <3>2
  <2>7. \A i \in 1 .. n + 1 : sent'[i][2] <= r.stream.pos
    <3>1. \A i \in 1 .. n : sent'[i][2] <= r.stream.pos
      BY <1>3, <1>5, <2>1, <2>2, <2>3 DEF NeverBack
    <3>2. r.data[2] <= r.stream.pos
      <4>1. CASE r.data = Nothing
        BY <2>3, <4>1, NothingIs
      <4>2. CASE \E i \in 1 .. n : sent'[i] = r.data
        BY <3>1, <4>2
      <4>3. CASE r.data = data[b]
        BY <1>5, <2>1, <3>1, <4>1, <4>3 DEF NeverBack
      <4> QED
        BY <1>3, <4>1, <4>3
    <3> QED
      BY <1>1, <1>5, <3>1, <3>2
  <2>8. \A c \in Buffers : data'[c] = Nothing \/ \E i \in 1 .. n + 1 : sent'[i] = data'[c]
    <3> SUFFICES ASSUME NEW c \in Buffers
                 PROVE  data'[c] = Nothing \/ \E i \in 1 .. n + 1 : sent'[i] = data'[c]
      OBVIOUS
    <3>1. n + 1 \in 1 .. n + 1 /\ \A i \in 1 .. n : i \in 1 .. n + 1
      BY <1>1
    <3>2. CASE c = b
      BY <1>1, <1>2, <1>5, <3>1, <3>2
    <3>3. CASE c # b
      <4>1. data'[c] = data[c]
        BY <1>1, <1>2, <3>3
      <4>2. data[c] = Nothing \/ \E i \in 1 .. n : sent[i] = data[c]
        BY <2>1 DEF NeverBack
      <4> QED
        BY <1>5, <3>1, <4>1, <4>2
    <3> QED
      BY <3>2, <3>3
  <2> QED
    BY <1>2, <1>5, <2>6, <2>7, <2>8 DEF NeverBack
<1> QED
  BY <1>6, <1>7, <1>8, <1>9 DEF UInv

LEMMA StepUnits == BInv /\ UInv /\ [Next]_vars => UInv'
<1> SUFFICES ASSUME BInv, UInv, [Next]_vars PROVE UInv'
  OBVIOUS
<1>1. CASE PrimeBuffer
  <2>1. primed \in Buffers /\ Works /\ ~eos /\ file' = file
    BY <1>1, FileDecoderAssumption DEF PrimeBuffer, BInv, OutputTypes, Buffers
  <2>2. ReadAndFail(primed) \/ (ReadAndQueue(primed) /\ gotError' = gotError)
    BY <1>1 DEF PrimeBuffer
  <2> QED
    BY <2>1, <2>2, QueueUnits, FailUnits
<1>2. CASE Feed
  <2>1. Head(done) \in Buffers /\ Works /\ ~eos /\ file' = file
    BY <1>2, HeadTailProperties DEF Feed, BInv, OutputTypes
  <2>2. ReadAndFail(Head(done)) \/ (ReadAndQueue(Head(done)) /\ gotError' = gotError)
    BY <1>2 DEF Feed
  <2> QED
    BY <2>1, <2>2, QueueUnits, FailUnits
<1>3. CASE MainThread /\ ~PrimeBuffer /\ ~Feed
  <2>1. UNCHANGED <<file, stream, data, sent, eos>>
    BY <1>3 DEF MainThread, CreateFails, OpenFails, Open, StartThread, DqFails, FeedEnds, Drain,
                DrainEnds, Cleanup, input
  <2>2. gotError => gotError'
    BY <1>3 DEF MainThread, CreateFails, OpenFails, Open, StartThread, DqFails, Abort, FeedEnds, Drain,
                DrainEnds, Cleanup
  <2> QED
    BY <2>1, <2>2, OtherUnits
<1>4. CASE CaptureThread
  <2>1. UNCHANGED <<file, stream, data, sent, eos>>
    BY <1>4 DEF CaptureThread, FirstEvent, QueryAndSetCapture, NoFormat, NoTransformBuffer, NoWindow,
         NoPlane, CannotSet, NoSecondWindow, SetCapture, Loop, Take, TakeNothing, TakeFails, Show,
         TransformFails, RequeueFails, input
  <2>2. gotError => gotError'
    BY <1>4 DEF CaptureThread, FirstEvent, QueryAndSetCapture, NoFormat, NoTransformBuffer, NoWindow,
         NoPlane, CannotSet, NoSecondWindow, SetCapture, Loop, Take, TakeNothing, TakeFails, Show,
         TransformFails, RequeueFails, Abort
  <2> QED
    BY <2>1, <2>2, OtherUnits
<1>5. CASE Device \/ UNCHANGED vars
  <2>1. UNCHANGED <<file, stream, data, sent, eos, gotError>>
    BY <1>5 DEF Device, DeviceAnnounces, DeviceSkips, DeviceDecodes, DeviceDrains, GivesBack, vars,
         input
  <2> QED
    BY <2>1, OtherUnits
<1> QED
  BY <1>1, <1>2, <1>3, <1>4, <1>5 DEF Next

LEMMA SameLength ==
  ASSUME NEW m \in Nat, NEW n \in Nat, 1 .. m = 1 .. n
  PROVE  m = n
<1>1. \A i \in Nat : 1 <= i /\ i <= m <=> 1 <= i /\ i <= n
  <2> TAKE i \in Nat
  <2>1. i \in 1 .. m <=> i \in 1 .. n
    OBVIOUS
  <2> QED
    BY <2>1
<1>2. m <= n /\ n <= m
  BY <1>1
<1> QED
  BY <1>2

\* What the invariant says of the sequence that was sent.
LEMMA FollowedIsPrefix ==
  ASSUME ReadTypes, FollowsFile PROVE IsPrefix(sent, Expected)
<1> DEFINE N == Len(file.units) + 1
           S == {Expected[i] : i \in 1 .. N}
           n == Len(sent)
<1>1. N \in Nat /\ n \in Nat /\ n <= N /\ sent \in Seq(Ranges) /\ sent \in [1 .. n -> Ranges]
  BY FilesAssumption, UnitTypes, LenProperties DEF ReadTypes, FollowsFile
<1>2. Expected \in [1 .. N -> S]
  <2>1. Expected = [i \in 1 .. N |-> Expected[i]]
    BY DEF Expected
  <2> QED
    BY <2>1
<1>3. Expected \in Seq(S)
  <2> HIDE DEF N, S
  <2> QED
    BY <1>1, <1>2, SeqDef
<1>4. Len(Expected) = N
  <2> HIDE DEF S
  <2>1. Len(Expected) \in Nat /\ DOMAIN Expected = 1 .. Len(Expected)
    BY <1>3, LenProperties
  <2>2. DOMAIN Expected = 1 .. N
    BY <1>2
  <2> HIDE DEF N
  <2> QED
    BY <1>1, <2>1, <2>2, SameLength
<1>5. \A i \in 1 .. n : sent[i] = Expected[i] /\ Expected[i] \in S
  BY <1>1, <1>2 DEF FollowsFile
<1> HIDE DEF N, S, n
<1>6. /\ SubSeq(Expected, 1, n) \in Seq(S)
      /\ Len(SubSeq(Expected, 1, n)) = n
      /\ \A i \in 1 .. n : SubSeq(Expected, 1, n)[i] = sent[i]
  BY <1>1, <1>5, SubSeqProperties
<1>7. /\ SubSeq(sent, 1, n) \in Seq(S)
      /\ Len(SubSeq(sent, 1, n)) = n
      /\ \A i \in 1 .. n : SubSeq(sent, 1, n)[i] = sent[i]
  BY <1>1, <1>5, SubSeqProperties
<1>8. SubSeq(sent, 1, n) = SubSeq(Expected, 1, n)
  BY <1>6, <1>7, SeqEqual
<1> QED
  BY <1>1, <1>4, <1>8 DEF IsPrefix, n

(* Whatever the file, the window and the number of buffers: the units are  *)
(* queued whole, once and in order, and the empty buffer behind them, if   *)
(* each fits the window.  Otherwise what is queued begins at start codes   *)
(* and never goes back, but for buffers queued again as they were.         *)
THEOREM FileUnitsInOrder == Spec => []UnitsInOrder
<1>1. UInv => UnitsInOrder
  <2> SUFFICES ASSUME UInv PROVE UnitsInOrder
    OBVIOUS
  <2>1. ReadTypes /\ DOMAIN sent = 1 .. Len(sent)
    BY LenProperties DEF UInv, ReadTypes
  <2>2. CASE Fits
    BY <2>1, <2>2, FollowedIsPrefix DEF UInv, UnitsInOrder
  <2>3. CASE ~Fits
    BY <2>1, <2>3 DEF UInv, UnitsInOrder, NeverBack, Repeats, GoesOn, IsNothing, Nothing
  <2> QED
    BY <2>2, <2>3
<1>2. Init => BInv /\ UInv
  BY InitBuffers, InitUnits
<1>3. BInv /\ UInv /\ [Next]_vars => (BInv /\ UInv)'
  BY StepBuffers, StepUnits
<1> QED
  BY <1>1, <1>2, <1>3, PTL DEF Spec


-----------------------------------------------------------------------------
(* The types of the rest.                                                  *)

ControlTypes ==
  /\ main \in {"open", "prime", "feed", "drain", "cleanup", "done"}
  /\ primed \in 0 .. NumBuffers
  /\ eos \in BOOLEAN /\ error \in BOOLEAN /\ gotError \in BOOLEAN
  /\ event \in BOOLEAN /\ last \in BOOLEAN /\ wild \in BOOLEAN
  /\ thread \in {"none", "first", "set", "loop", "take", "show", "ended"}
  /\ screen \in [dst : BOOLEAN, windows : SUBSET {0, 1}]
  /\ device \in {"new", "waits", "decodes"}
  /\ changes \in 0 .. MaxChanges
  /\ capture.num \in Counts \cup {0}

LEMMA InitControl == Init => ControlTypes
<1>1. 0 \in 0 .. NumBuffers /\ 0 \in 0 .. MaxChanges
  BY FileDecoderAssumption
<1> SUFFICES ASSUME Init PROVE ControlTypes
  OBVIOUS
<1>2. screen \in [dst : BOOLEAN, windows : SUBSET {0, 1}]
  BY DEF Init
<1>3. capture.num = 0
  BY DEF Init, NoCapture
<1> QED
  BY <1>1, <1>2, <1>3 DEF Init, ControlTypes

LEMMA ReadControl ==
  ASSUME NEW b, ReadAndQueue(b) \/ ReadAndFail(b), eos \in BOOLEAN
  PROVE  eos' \in BOOLEAN
<1>1. \A d : IsNothing(d) \in BOOLEAN
  BY DEF IsNothing
<1> QED
  BY <1>1 DEF ReadAndQueue, ReadAndFail

LEMMA MainControl == ASSUME ControlTypes, MainThread PROVE ControlTypes'
<1> USE DEF ControlTypes
<1>1. UNCHANGED <<event, last, device, changes>>
  BY DEF MainThread, CreateFails, OpenFails, Open, PrimeBuffer, StartThread, Feed, DqFails, FeedEnds,
       Drain, DrainEnds, Cleanup, decoder
<1>2. CASE PrimeBuffer
  <2>1. UNCHANGED <<main, error, thread, capture, screen, wild>> /\ gotError' \in BOOLEAN
    BY <1>2 DEF PrimeBuffer, ReadAndFail, pictures
  <2>2. eos' \in BOOLEAN
    BY <1>2, ReadControl DEF PrimeBuffer
  <2>3. primed' \in {primed, primed + 1} /\ primed < NumBuffers
    BY <1>2 DEF PrimeBuffer
  <2>4. primed' \in 0 .. NumBuffers
    BY <2>3, FileDecoderAssumption
  <2> QED
    BY <1>1, <2>1, <2>2, <2>4
<1>3. CASE Feed
  <2>1. /\ UNCHANGED <<primed, main, error, thread, capture, screen, wild>>
        /\ gotError' \in BOOLEAN
    BY <1>3 DEF Feed, ReadAndFail, pictures
  <2>2. eos' \in BOOLEAN
    BY <1>3, ReadControl DEF Feed
  <2> QED
    BY <1>1, <2>1, <2>2
<1>4. CASE Cleanup
  <2>1. /\ UNCHANGED <<primed, eos, gotError, thread, wild>>
        /\ main' = "done" /\ error' = (error \/ gotError) /\ capture' = NoCapture
        /\ screen' = [dst |-> FALSE, windows |-> screen.windows \ {0}]
    BY <1>4 DEF Cleanup, input
  <2>2. screen' \in [dst : BOOLEAN, windows : SUBSET {0, 1}]
    BY <2>1
  <2>3. capture'.num = 0
    BY <2>1 DEF NoCapture
  <2>4. error' \in BOOLEAN
    BY <2>1
  <2> QED
    BY <1>1, <2>1, <2>2, <2>3, <2>4
<1>5. CASE CreateFails \/ OpenFails \/ Open \/ StartThread
  <2>1. /\ UNCHANGED <<primed, eos, gotError, capture, screen>>
        /\ main' \in {main, "cleanup", "prime", "feed"} /\ thread' \in {thread, "first"}
    BY <1>5 DEF CreateFails, OpenFails, Open, StartThread, input, pictures
  <2>2. error' \in BOOLEAN /\ wild' \in BOOLEAN
    BY <1>5 DEF CreateFails, OpenFails, Open, StartThread
  <2> QED
    BY <1>1, <2>1, <2>2
<1>6. CASE DqFails \/ FeedEnds \/ Drain \/ DrainEnds
  <2>1. /\ UNCHANGED <<primed, eos, error, wild, thread, capture, screen>>
        /\ main' \in {main, "drain", "cleanup"}
    BY <1>6 DEF DqFails, FeedEnds, Drain, DrainEnds, input, pictures
  <2>2. gotError' \in BOOLEAN
    BY <1>6 DEF DqFails, FeedEnds, Drain, DrainEnds, Abort
  <2> QED
    BY <1>1, <2>1, <2>2
<1> QED
  BY <1>2, <1>3, <1>4, <1>5, <1>6 DEF MainThread

LEMMA ThreadControl == ASSUME ControlTypes, BInv, CaptureThread PROVE ControlTypes'
<1> USE DEF ControlTypes
<1>1. UNCHANGED <<main, primed, eos, error, last, changes>>
  BY DEF CaptureThread, FirstEvent, QueryAndSetCapture, NoFormat, NoTransformBuffer, NoWindow,
       NoPlane, CannotSet, NoSecondWindow, SetCapture, Loop, Take, TakeNothing, TakeFails, Show,
       TransformFails, RequeueFails, input, decoder
<1>2. CASE FirstEvent
  BY <1>1, <1>2 DEF FirstEvent, Abort, pictures
<1>3. CASE Loop
  BY <1>1, <1>3 DEF Loop, Works, pictures
<1>4. CASE TakeNothing \/ TakeFails
  BY <1>1, <1>4 DEF TakeNothing, TakeFails, Abort, pictures, decoder
<1>5. CASE Take \/ Show \/ TransformFails \/ RequeueFails
  <2>1. /\ UNCHANGED <<event, screen, device, wild>> /\ gotError' \in BOOLEAN
        /\ thread' \in {"show", "take", "loop"}
    BY <1>5 DEF Take, Show, TransformFails, RequeueFails, Abort, decoder
  <2>2. capture'.num = capture.num
    BY <1>5 DEF Take, Show, TransformFails, RequeueFails, Lost, Requeued, BInv, CaptureBalanced
  <2> QED
    BY <1>1, <2>1, <2>2
<1>6. CASE NoFormat \/ NoTransformBuffer \/ NoWindow \/ NoPlane
  <2>1. /\ UNCHANGED <<event, device, wild>> /\ gotError' = TRUE /\ thread' = "loop"
    BY <1>6 DEF NoFormat, NoTransformBuffer, NoWindow, NoPlane, CannotSet, Abort, decoder
  <2>2. capture'.num \in {capture.num, 0}
    BY <1>6 DEF NoFormat, NoTransformBuffer, NoWindow, NoPlane, CannotSet, NoCapture
  <2>3. screen' \in [dst : BOOLEAN, windows : SUBSET {0, 1}]
    <3>1. CASE NoFormat
      BY <3>1 DEF NoFormat, CannotSet
    <3>2. CASE NoTransformBuffer
      BY <3>2 DEF NoTransformBuffer, CannotSet
    <3>3. CASE NoWindow
      BY <3>3 DEF NoWindow, CannotSet
    <3>4. CASE NoPlane
      BY <3>4 DEF NoPlane, CannotSet
    <3> QED
      BY <1>6, <3>1, <3>2, <3>3, <3>4
  <2> QED
    BY <1>1, <2>1, <2>2, <2>3
<1>7. CASE NoSecondWindow
  BY <1>1, <1>7 DEF NoSecondWindow, decoder
<1>8. CASE SetCapture
  <2>1. capture'.num \in Counts
    BY <1>8 DEF SetCapture
  <2>2. screen' \in [dst : BOOLEAN, windows : SUBSET {0, 1}]
    BY <1>8 DEF SetCapture
  <2> QED
    BY <1>1, <1>8, <2>1, <2>2 DEF SetCapture
<1> QED
  BY <1>2, <1>3, <1>4, <1>5, <1>6, <1>7, <1>8 DEF CaptureThread, QueryAndSetCapture

LEMMA DeviceControl == ASSUME ControlTypes, BInv, Device PROVE ControlTypes'
<1> USE DEF ControlTypes
<1>1. UNCHANGED <<main, primed, eos, error, gotError, thread, screen, wild>>
  BY DEF Device, DeviceAnnounces, DeviceSkips, DeviceDecodes, DeviceDrains, GivesBack, input, pictures
<1>2. CASE DeviceAnnounces
  <2>1. changes' \in 0 .. MaxChanges
    <3>1. CASE device = "new"
      BY <1>2, <3>1 DEF DeviceAnnounces
    <3>2. CASE device # "new"
      BY <1>2, <3>2, FileDecoderAssumption DEF DeviceAnnounces
    <3> QED
      BY <3>1, <3>2
  <2> QED
    BY <1>1, <1>2, <2>1 DEF DeviceAnnounces, pictures
<1>3. CASE DeviceSkips
  BY <1>1, <1>3 DEF DeviceSkips, decoder
<1>4. CASE DeviceDecodes
  <2>1. capture'.num = capture.num
    BY <1>4 DEF DeviceDecodes, BInv, CaptureBalanced
  <2> QED
    BY <1>1, <1>4, <2>1 DEF DeviceDecodes, decoder
<1>5. CASE DeviceDrains
  BY <1>1, <1>5 DEF DeviceDrains
<1> QED
  BY <1>2, <1>3, <1>4, <1>5 DEF Device

LEMMA StepControl == ControlTypes /\ BInv /\ [Next]_vars => ControlTypes'
<1>1. ASSUME ControlTypes, UNCHANGED vars PROVE ControlTypes'
  BY <1>1 DEF ControlTypes, vars, input, pictures, decoder
<1> QED
  BY <1>1, MainControl, ThreadControl, DeviceControl DEF Next

(* Types of the file decoder's state, for any files and bounds.            *)
THEOREM FileTypeOK == Spec => []TypeOK
<1>1. ControlTypes /\ BInv /\ UInv => TypeOK
  <2> SUFFICES ASSUME ControlTypes, BInv, UInv PROVE TypeOK
    OBVIOUS
  <2>1. capture \in [num : Counts \cup {0}, free : Nat, pics : Nat, lost : Nat]
    BY DEF ControlTypes, BInv, CaptureBalanced
  <2>2. BufferTypes
    BY <2>1 DEF BufferTypes, BInv, OutputTypes, UInv, ReadTypes, Ranges
  <2> QED
    BY <2>2 DEF ControlTypes, UInv, ReadTypes, StreamTypes, TypeOK
<1>2. Init => ControlTypes /\ BInv /\ UInv
  BY InitControl, InitBuffers, InitUnits
<1>3. ControlTypes /\ BInv /\ UInv /\ [Next]_vars => (ControlTypes /\ BInv /\ UInv)'
  BY StepControl, StepBuffers, StepUnits
<1> QED
  BY <1>1, <1>2, <1>3, PTL DEF Spec

=============================================================================
