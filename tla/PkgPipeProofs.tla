--------------------------- MODULE PkgPipeProofs ----------------------------
(* The pipe between the processes keeps its packets whole and in order,    *)
(* for every length of packets, chunks and of the socket's buffer.         *)
EXTENDS PkgPipe, SequenceTheorems, WellFoundedInduction, TLAPS

\* The bytes of s come right after the first n of the stream.
Follows(s, n) == \A i \in 1 .. Len(s) : s[i] = n + i

\* The byte up to which packets have been handled, data read, and written.
HandledTo == Len(handled) * PkgLen
ReadTo == HandledTo + Len(readBuf)
WrittenTo == ReadTo + Len(sock)

\* The three buffers hold the stream without a gap.
NoGap ==
  /\ Follows(readBuf, HandledTo)
  /\ Follows(sock, ReadTo)
  /\ Follows(unixBuf, WrittenTo)
  /\ WrittenTo + Len(unixBuf) = sent * PkgLen

\* What has been handled is packets of the stream.
HandledWhole == \A n \in 1 .. Len(handled) : handled[n] = Packet(n)

PInv == Types /\ NoGap /\ LittleLeft /\ HandledWhole

LEMMA Times ==
  ASSUME NEW a \in Nat, NEW b \in Nat, NEW p \in Nat
  PROVE  /\ a * p \in Nat
         /\ (a + b) * p = a * p + b * p
         /\ a * p < b * p => a < b
  OBVIOUS

\* Moving the first bytes of one buffer to the end of the one before it.
LEMMA Moved ==
  ASSUME NEW s \in Seq(Nat), NEW t \in Seq(Nat), NEW at \in Nat,
         NEW n \in 1 .. Len(t),
         Follows(s, at), Follows(t, at + Len(s))
  PROVE  /\ s \o SubSeq(t, 1, n) \in Seq(Nat)
         /\ Len(s \o SubSeq(t, 1, n)) = Len(s) + n
         /\ Follows(s \o SubSeq(t, 1, n), at)
         /\ Consumed(t, n) \in Seq(Nat)
         /\ Len(Consumed(t, n)) = Len(t) - n
         /\ Follows(Consumed(t, n), at + Len(s) + n)
<1>1. /\ SubSeq(t, 1, n) \in Seq(Nat) /\ Len(SubSeq(t, 1, n)) = n
      /\ \A i \in 1 .. n : SubSeq(t, 1, n)[i] = t[i]
  OBVIOUS
<1>2. /\ Consumed(t, n) \in Seq(Nat) /\ Len(Consumed(t, n)) = Len(t) - n
      /\ \A i \in 1 .. Len(t) - n : Consumed(t, n)[i] = t[n + i]
  BY DEF Consumed
<1>3. Follows(s \o SubSeq(t, 1, n), at)
  BY <1>1 DEF Follows
<1>4. Follows(Consumed(t, n), at + Len(s) + n)
  BY <1>2 DEF Follows
<1> QED
  BY <1>1, <1>2, <1>3, <1>4

\* The types that the sums of lengths need.
LEMMA Lengths ==
  ASSUME Types
  PROVE  /\ PkgLen \in Nat \ {0} /\ ChunkLen \in Nat /\ SockLen \in Nat /\ MaxPkgs \in Nat
         /\ sent \in Nat /\ Len(handled) \in Nat
         /\ Len(readBuf) \in Nat /\ Len(sock) \in Nat /\ Len(unixBuf) \in Nat
         /\ HandledTo \in Nat /\ ReadTo \in Nat /\ WrittenTo \in Nat /\ sent * PkgLen \in Nat
<1>1. PkgLen \in Nat \ {0} /\ ChunkLen \in Nat /\ SockLen \in Nat /\ MaxPkgs \in Nat
  BY PipeAssumption
<1>2. sent \in Nat
  BY <1>1 DEF Types
<1>3. Len(handled) \in Nat
  <2>1. handled \in Seq(Seq(Nat))
    BY DEF Types
  <2> QED
    BY <2>1
<1>4. Len(readBuf) \in Nat /\ Len(sock) \in Nat /\ Len(unixBuf) \in Nat
  BY DEF Types
<1>5. HandledTo \in Nat
  BY <1>1, <1>3, Times DEF HandledTo
<1>6. sent * PkgLen \in Nat
  BY <1>1, <1>2, Times
<1>7. ReadTo \in Nat
  BY <1>4, <1>5 DEF ReadTo
<1>8. WrittenTo \in Nat
  BY <1>4, <1>7 DEF WrittenTo
<1> QED
  BY <1>1, <1>2, <1>3, <1>4, <1>5, <1>6, <1>7, <1>8

LEMMA InitPipe == ASSUME Init PROVE PInv
<1>1. PkgLen \in Nat \ {0} /\ ChunkLen \in Nat \ {0} /\ SockLen \in Nat \ {0} /\ MaxPkgs \in Nat
  BY PipeAssumption
<1>2. sent = 0 /\ unixBuf = << >> /\ sock = << >> /\ readBuf = << >> /\ handled = << >>
  BY DEF Init
<1>3. << >> \in Seq(Nat) /\ << >> \in Seq(Seq(Nat)) /\ Len(<< >>) = 0
  OBVIOUS
<1>4. ready \in BOOLEAN /\ armed \in BOOLEAN /\ cut \in BOOLEAN
  BY DEF Init
<1>5. writer = "loop" /\ reader = "loop"
  BY DEF Init
<1>6. Types
  <2>1. Len(sock) <= SockLen /\ Len(readBuf) < PkgLen + ChunkLen /\ sent \in 0 .. MaxPkgs
    BY <1>1, <1>2, <1>3
  <2> QED
    BY <1>2, <1>3, <1>4, <1>5, <2>1 DEF Types
<1>7. NoGap
  <2>1. HandledTo = 0 /\ sent * PkgLen = 0
    BY <1>1, <1>2, <1>3 DEF HandledTo
  <2>2. ReadTo = 0 /\ WrittenTo = 0 /\ Len(unixBuf) = 0
    BY <1>2, <1>3, <2>1 DEF ReadTo, WrittenTo
  <2> QED
    BY <1>2, <1>3, <2>1, <2>2 DEF NoGap, Follows
<1>8. LittleLeft
  BY <1>1, <1>2, <1>3, <1>5 DEF LittleLeft
<1>9. HandledWhole
  BY <1>2, <1>3 DEF HandledWhole
<1> QED
  BY <1>6, <1>7, <1>8, <1>9 DEF PInv

LEMMA SendKeeps ==
  ASSUME PInv, NEW k \in 0 .. MaxPkgs, SendPkgs(k)
  PROVE  PInv'
<1>1. sent \in Nat /\ PkgLen \in Nat /\ MaxPkgs \in Nat /\ armed \in BOOLEAN
  BY PipeAssumption DEF PInv, Types
<1> DEFINE new == [i \in 1 .. k * PkgLen |-> sent * PkgLen + i]
<1>2. k * PkgLen \in Nat /\ sent * PkgLen \in Nat /\ (sent + k) * PkgLen = sent * PkgLen + k * PkgLen
  BY <1>1, Times
<1>3. new \in Seq(Nat) /\ Len(new) = k * PkgLen /\ \A i \in 1 .. Len(new) : new[i] = sent * PkgLen + i
  BY <1>2
<1>4. sent' = sent + k /\ unixBuf' = unixBuf \o new /\ UNCHANGED <<writer, ready, sock, readBuf, reader, handled>>
  BY DEF SendPkgs, decoderVars
<1>5. armed' \in BOOLEAN /\ cut' \in BOOLEAN
  BY DEF SendPkgs
<1>6. Types'
  <2>1. sent' \in 0 .. MaxPkgs
    BY <1>1, <1>4 DEF SendPkgs
  <2>2. unixBuf' \in Seq(Nat)
    BY <1>3, <1>4 DEF PInv, Types
  <2> QED
    BY <1>4, <1>5, <2>1, <2>2 DEF PInv, Types
<1>7. NoGap'
  <2>1. HandledTo' = HandledTo /\ ReadTo' = ReadTo /\ WrittenTo' = WrittenTo
    BY <1>4 DEF HandledTo, ReadTo, WrittenTo
  <2>2. HandledTo \in Nat /\ WrittenTo \in Nat
    BY Lengths DEF PInv
  <2>3. WrittenTo + Len(unixBuf) = sent * PkgLen /\ Follows(unixBuf, WrittenTo) /\ unixBuf \in Seq(Nat)
    BY DEF PInv, NoGap, Types
  <2>. new \in Seq(Nat)
    BY <1>3
  <2> HIDE DEF new
  <2>4. Len(unixBuf') = Len(unixBuf) + Len(new)
    BY <1>4, <2>3
  <2>5. Follows(unixBuf', WrittenTo)
    BY <1>3, <1>4, <2>2, <2>3, <2>4 DEF Follows
  <2>6. WrittenTo + Len(unixBuf') = sent' * PkgLen
    BY <1>2, <1>3, <1>4, <2>2, <2>3, <2>4
  <2> QED
    BY <1>4, <2>1, <2>5, <2>6 DEF PInv, NoGap, Follows
<1> QED
  BY <1>4, <1>6, <1>7 DEF PInv, LittleLeft, HasPacket, HandledWhole

LEMMA WriteKeeps == ASSUME PInv, Write PROVE PInv'
<1>1. unixBuf \in Seq(Nat) /\ sock \in Seq(Nat) /\ readBuf \in Seq(Nat) /\ Len(sock) \in Nat
      /\ ChunkLen \in Nat
  BY PipeAssumption DEF PInv, Types
<1>2. PICK n \in 1 .. Asked :
        /\ Len(sock) + n <= SockLen
        /\ sock' = sock \o SubSeq(unixBuf, 1, n)
        /\ unixBuf' = Consumed(unixBuf, n)
        /\ ready' = (n = Asked) /\ cut' = (cut \/ n # Asked)
  BY DEF Write, Unwritten
<1>3. n \in 1 .. Len(unixBuf)
  BY <1>1, <1>2 DEF Asked
<1>4. UNCHANGED <<sent, writer, armed, readBuf, reader, handled>>
  BY DEF Write, decoderVars
<1>5. ReadTo \in Nat
  BY Lengths DEF PInv
<1>6. /\ sock' \in Seq(Nat) /\ Len(sock') = Len(sock) + n /\ Follows(sock', ReadTo)
      /\ unixBuf' \in Seq(Nat) /\ Len(unixBuf') = Len(unixBuf) - n
      /\ Follows(unixBuf', ReadTo + Len(sock) + n)
  BY <1>1, <1>2, <1>3, <1>5, Moved DEF PInv, NoGap, WrittenTo
<1>7. ReadTo' = ReadTo /\ HandledTo' = HandledTo /\ WrittenTo' = ReadTo + Len(sock) + n
  BY <1>1, <1>4, <1>5, <1>6 DEF ReadTo, HandledTo, WrittenTo
<1>8. Types'
  <2>1. ready' \in BOOLEAN /\ armed' \in BOOLEAN /\ cut' \in BOOLEAN
    BY <1>2, <1>4, Zenon DEF PInv, Types
  <2>2. Len(sock') <= SockLen
    BY <1>2, <1>6
  <2>3. /\ sent' \in 0 .. MaxPkgs /\ writer' \in {"loop", "writing"}
        /\ readBuf' \in Seq(Nat) /\ Len(readBuf') < PkgLen + ChunkLen
        /\ reader' \in {"loop", "recv", "packets", "pkgProcess"} /\ handled' \in Seq(Seq(Nat))
    BY <1>4 DEF PInv, Types
  <2> QED
    BY <1>6, <2>1, <2>2, <2>3 DEF Types
<1>9. WrittenTo' + Len(unixBuf') = sent' * PkgLen
  BY <1>1, <1>3, <1>4, <1>5, <1>6, <1>7 DEF PInv, NoGap, WrittenTo
<1>10. NoGap'
  BY <1>4, <1>6, <1>7, <1>9 DEF PInv, NoGap, Follows
<1> QED
  BY <1>4, <1>8, <1>10 DEF PInv, LittleLeft, HasPacket, HandledWhole

LEMMA RecvKeeps == ASSUME PInv, Recv PROVE PInv'
<1>1. unixBuf \in Seq(Nat) /\ sock \in Seq(Nat) /\ readBuf \in Seq(Nat)
      /\ ChunkLen \in Nat /\ PkgLen \in Nat /\ SockLen \in Nat
  BY PipeAssumption DEF PInv, Types
<1>2. PICK n \in 1 .. ChunkLen :
        n <= Len(sock) /\ readBuf' = readBuf \o SubSeq(sock, 1, n) /\ sock' = Consumed(sock, n)
  BY DEF Recv
<1>3. n \in 1 .. Len(sock)
  BY <1>1, <1>2
<1>4. reader = "recv" /\ reader' = "packets"
      /\ UNCHANGED <<sent, unixBuf, writer, ready, armed, cut, handled>>
  BY DEF Recv
<1>5. HandledTo \in Nat
  BY Lengths DEF PInv
<1>6. /\ readBuf' \in Seq(Nat) /\ Len(readBuf') = Len(readBuf) + n /\ Follows(readBuf', HandledTo)
      /\ sock' \in Seq(Nat) /\ Len(sock') = Len(sock) - n
      /\ Follows(sock', HandledTo + Len(readBuf) + n)
  BY <1>1, <1>2, <1>3, <1>5, Moved DEF PInv, NoGap, ReadTo
<1>7. HandledTo' = HandledTo /\ ReadTo' = HandledTo + Len(readBuf) + n /\ WrittenTo' = WrittenTo
  BY <1>1, <1>4, <1>5, <1>6 DEF ReadTo, HandledTo, WrittenTo
<1>8. Len(readBuf) < PkgLen
  BY <1>4 DEF PInv, LittleLeft
<1>9. Types'
  <2>1. Len(sock') <= SockLen /\ Len(readBuf') < PkgLen + ChunkLen
    BY <1>1, <1>2, <1>6, <1>8 DEF PInv, Types
  <2> QED
    BY <1>4, <1>6, <2>1, Zenon DEF PInv, Types
<1>10. NoGap'
  BY <1>4, <1>6, <1>7 DEF PInv, NoGap, Follows
<1> QED
  BY <1>4, <1>9, <1>10 DEF PInv, LittleLeft, HasPacket, HandledWhole

\* The packet at the head is the next of the stream, and has been sent.
LEMMA HandlesNext ==
  ASSUME PInv, HandlePacket
  PROVE  /\ handled' = Append(handled, Packet(Len(handled) + 1))
         /\ Len(handled) < sent
<1>1. readBuf \in Seq(Nat) /\ sock \in Seq(Nat) /\ unixBuf \in Seq(Nat) /\ PkgLen \in Nat \ {0}
      /\ sent \in Nat /\ Len(handled) \in Nat /\ HandledTo \in Nat
  BY Lengths DEF PInv, Types
<1>2. Len(readBuf) >= PkgLen
  BY DEF PInv, LittleLeft, HandlePacket, HasPacket
<1>3. SubSeq(readBuf, 1, PkgLen) = Packet(Len(handled) + 1)
  <2>1. /\ SubSeq(readBuf, 1, PkgLen) = [i \in 1 .. PkgLen |-> readBuf[i]]
    BY <1>1, <1>2
  <2>2. \A i \in 1 .. PkgLen : readBuf[i] = HandledTo + i
    BY <1>1, <1>2 DEF PInv, NoGap, Follows
  <2>3. (Len(handled) + 1) - 1 = Len(handled)
    BY <1>1
  <2>4. Packet(Len(handled) + 1) = [i \in 1 .. PkgLen |-> HandledTo + i]
    BY <2>3 DEF Packet, HandledTo
  <2> QED
    BY <2>1, <2>2, <2>4
<1>4. HandledTo < sent * PkgLen
  <2>1. HandledTo + Len(readBuf) + Len(sock) + Len(unixBuf) = sent * PkgLen
    BY DEF PInv, NoGap, WrittenTo, ReadTo
  <2> QED
    BY <1>1, <1>2, <2>1
<1> QED
  <2>1. Len(handled) < sent
    BY <1>1, <1>4, Times DEF HandledTo
  <2> QED
    BY <1>3, <2>1 DEF HandlePacket

LEMMA HandleKeeps == ASSUME PInv, HandlePacket PROVE PInv'
<1>1. readBuf \in Seq(Nat) /\ sock \in Seq(Nat) /\ unixBuf \in Seq(Nat) /\ PkgLen \in Nat \ {0}
      /\ sent \in Nat /\ handled \in Seq(Seq(Nat)) /\ HandledTo \in Nat /\ ChunkLen \in Nat
  BY Lengths DEF PInv, Types
<1>2. Len(readBuf) >= PkgLen /\ readBuf' = Consumed(readBuf, PkgLen) /\ reader' = "packets"
      /\ UNCHANGED <<sent, unixBuf, writer, ready, armed, cut, sock>>
  BY DEF PInv, LittleLeft, HandlePacket, HasPacket
<1>3. handled' = Append(handled, Packet(Len(handled) + 1))
  BY HandlesNext
<1>4. /\ readBuf' \in Seq(Nat) /\ Len(readBuf') = Len(readBuf) - PkgLen
      /\ \A i \in 1 .. Len(readBuf') : readBuf'[i] = readBuf[PkgLen + i]
  BY <1>1, <1>2 DEF Consumed
<1>5. Packet(Len(handled) + 1) \in Seq(Nat)
  <2>1. (Len(handled) + 1) - 1 = Len(handled)
    BY <1>1
  <2> QED
    <3>1. Packet(Len(handled) + 1) = [i \in 1 .. PkgLen |-> HandledTo + i]
      BY <2>1 DEF Packet, HandledTo
    <3> QED
      BY <1>1, <3>1
<1>6. /\ handled' \in Seq(Seq(Nat)) /\ Len(handled') = Len(handled) + 1
      /\ \A n \in 1 .. Len(handled) : handled'[n] = handled[n]
      /\ handled'[Len(handled) + 1] = Packet(Len(handled) + 1)
  BY <1>1, <1>3, <1>5
<1>7. HandledTo' = HandledTo + PkgLen
  BY <1>1, <1>6, Times DEF HandledTo
<1>8. ReadTo' = ReadTo /\ WrittenTo' = WrittenTo
  BY <1>1, <1>2, <1>4, <1>7 DEF ReadTo, WrittenTo
<1>9. Follows(readBuf', HandledTo')
  BY <1>1, <1>2, <1>4, <1>7 DEF PInv, NoGap, Follows
<1>10. NoGap'
  BY <1>2, <1>8, <1>9 DEF PInv, NoGap, Follows
<1>11. Types'
  BY <1>1, <1>2, <1>4, <1>6 DEF PInv, Types
<1>12. HandledWhole'
  <2>1. Len(handled) \in Nat
    BY <1>1
  <2>2. \A n \in 1 .. Len(handled) : handled[n] = Packet(n)
    BY DEF PInv, HandledWhole
  <2>3. \A n \in 1 .. Len(handled') : n \in 1 .. Len(handled) \/ n = Len(handled) + 1
    BY <1>6, <2>1
  <2>4. \A n \in 1 .. Len(handled') : handled'[n] = Packet(n)
    BY <1>6, <2>2, <2>3, Zenon
  <2> QED
    BY <2>4 DEF HandledWhole, Packet
<1> QED
  BY <1>2, <1>10, <1>11, <1>12 DEF PInv, LittleLeft

LEMMA StepPipe == ASSUME PInv, [Next]_vars PROVE PInv'
<1>1. CASE SendPkg
  <2>1. 1 \in 0 .. MaxPkgs
    BY <1>1, Lengths DEF SendPkg, SendPkgs, PInv
  <2> QED
    BY <1>1, <2>1, SendKeeps DEF SendPkg
<1>2. CASE Configure
  BY <1>2, SendKeeps DEF Configure
<1>3. CASE Write
  BY <1>3, WriteKeeps
<1>4. CASE Recv
  BY <1>4, RecvKeeps
<1>5. CASE HandlePacket
  BY <1>5, HandleKeeps
<1>6. CASE SendTooLong \/ Ask \/ WriteEvent \/ WriteRefused \/ WriteEnds \/ ReadEvent
           \/ RecvNothing \/ Dispatch \/ PacketsEnd \/ UNCHANGED vars
  <2> USE DEF SendTooLong, Ask, WriteEvent, WriteRefused, WriteEnds, ReadEvent, RecvNothing,
          Dispatch, PacketsEnd, vars, decoderVars
  <2>1. UNCHANGED <<sent, unixBuf, sock, readBuf, handled>>
    BY <1>6
  <2>2. ready' \in BOOLEAN /\ armed' \in BOOLEAN /\ cut' \in BOOLEAN
    BY <1>6, Zenon DEF PInv, Types
  <2>3. /\ writer' \in {"loop", "writing"}
        /\ reader' \in {"loop", "recv", "packets", "pkgProcess"}
    BY <1>6 DEF PInv, Types
  <2>4. reader' = reader \/ (reader' = "pkgProcess" /\ HasPacket)
        \/ (reader' \in {"loop", "recv"} /\ (reader \in {"loop", "recv"} \/ ~HasPacket))
        \/ reader' = "packets"
    BY <1>6
  <2>5. Len(readBuf) \in Nat /\ PkgLen \in Nat
    BY PipeAssumption DEF PInv, Types
  <2>6. LittleLeft'
    BY <2>1, <2>4, <2>5 DEF PInv, LittleLeft, HasPacket
  <2> QED
    BY <2>1, <2>2, <2>3, <2>6 DEF PInv, Types, NoGap, HandledWhole, Follows, HandledTo,
       ReadTo, WrittenTo
<1> QED
  BY <1>1, <1>2, <1>3, <1>4, <1>5, <1>6 DEF Next, Known, Writes, Reads

(* Types, and dec_bin never keeps more of what it has read than one chunk  *)
(* and less than a packet (decoder/main.c:48-77).                          *)
THEOREM PipeTypeOK == Spec => []TypeOK
<1>1. Init => wild \in BOOLEAN
  BY DEF Init
<1>2. wild \in BOOLEAN /\ [Next]_vars => (wild \in BOOLEAN)'
  BY DEF Next, Known, SendTooLong, vars
<1>3. PInv /\ wild \in BOOLEAN => TypeOK
  BY DEF PInv, TypeOK
<1> QED
  BY InitPipe, StepPipe, <1>1, <1>2, <1>3, PTL DEF Spec

(* Packets are handled whole, each once and in order, wherever the chunks  *)
(* of the socket end: every step of the pipe is a step of the queue of     *)
(* packets, or none.                                                       *)
THEOREM PipeImplementsQueue == Spec => ImplementsPkgQueue
<1>1. Init => Queue!Init
  BY DEF Init, Queue!Init
<1>2. PInv /\ [Next]_vars => [Queue!Next]_<<sent, handled>>
  <2> SUFFICES ASSUME PInv, [Next]_vars
               PROVE  Queue!Next \/ UNCHANGED <<sent, handled>>
    OBVIOUS
  <2>1. ASSUME NEW k \in 0 .. MaxPkgs, SendPkgs(k)
        PROVE  Queue!Send \/ UNCHANGED <<sent, handled>>
    <3>1. sent \in Nat /\ k \in Nat /\ sent' = sent + k /\ UNCHANGED handled
      BY <2>1, Lengths DEF SendPkgs, decoderVars, PInv
    <3>2. CASE k = 0
      BY <3>1, <3>2
    <3>3. CASE k > 0
      BY <3>1, <3>3 DEF Queue!Send
    <3> QED
      BY <3>1, <3>2, <3>3
  <2>2. CASE SendPkg
    <3>1. 1 \in 0 .. MaxPkgs
      BY <2>2, Lengths DEF SendPkg, SendPkgs, PInv
    <3> QED
      BY <2>1, <2>2, <3>1 DEF SendPkg, Queue!Next
  <2>3. CASE Configure
    BY <2>1, <2>3 DEF Configure, Queue!Next
  <2>4. CASE HandlePacket
    BY <2>4, HandlesNext DEF Queue!Next, Queue!Handle, HandlePacket
  <2>5. CASE SendTooLong \/ Ask \/ Writes \/ Reads \/ UNCHANGED vars
    BY <2>5 DEF SendTooLong, Ask, Writes, WriteEvent, Write, WriteRefused, WriteEnds, Reads, ReadEvent,
       Recv, RecvNothing, Dispatch, PacketsEnd, vars, decoderVars
  <2> QED
    BY <2>2, <2>3, <2>4, <2>5 DEF Next, Known
<1> QED
  BY InitPipe, StepPipe, <1>1, <1>2, PTL DEF Spec, ImplementsPkgQueue, Queue!Spec

-----------------------------------------------------------------------------
(* The configuration port.  The bytes that were sent and neither served    *)
(* nor thrown away are a stream of packages, with noise before each.       *)

Bytes == Nat \X Nat

\* Where the packages of a stream begin.
Starts(s) == {p \in 1 .. Len(s) : s[p][1] # 0 /\ s[p][2] = 1}

Whole(s) ==
  \A p \in Starts(s) :
    /\ p + CfgLen - 1 <= Len(s)
    /\ \A i \in 1 .. CfgLen : s[p + i - 1] = <<s[p][1], i>>

InOrder(s) == \A p \in Starts(s), q \in Starts(s) : p < q => s[p][1] < s[q][1]

\* The packages of the stream are those after the first l of a.
Holds(s, l, a) ==
  /\ \A p \in Starts(s) : s[p][1] \in l + 1 .. a
  /\ \A n \in l + 1 .. a : \E p \in Starts(s) : s[p][1] = n

\* The magic number is only found where a package begins.
TrueHeads(s) == \A p \in 0 .. Len(s) - 4 : Heads(s, p, 4) => s[p + 1][1] # 0

EndsWhole(s) == s # << >> => s[Len(s)][2] = CfgLen

Stream(s, l, a) ==
  /\ s \in Seq(Bytes)
  /\ Whole(s) /\ InOrder(s) /\ Holds(s, l, a) /\ TrueHeads(s) /\ EndsWhole(s)

LEMMA ByteParts ==
  ASSUME NEW s \in Seq(Bytes), NEW i \in 1 .. Len(s)
  PROVE  s[i][1] \in Nat /\ s[i][2] \in Nat /\ s[i] = <<s[i][1], s[i][2]>>
<1>1. s[i] \in Bytes
  BY ElementOfSeq
<1> QED
  BY <1>1 DEF Bytes

LEMMA Suffix ==
  ASSUME NEW S, NEW s \in Seq(S), NEW d \in 0 .. Len(s)
  PROVE  /\ SubSeq(s, d + 1, Len(s)) \in Seq(S)
         /\ Len(SubSeq(s, d + 1, Len(s))) = Len(s) - d
         /\ \A i \in 1 .. Len(s) - d : SubSeq(s, d + 1, Len(s))[i] = s[d + i]
<1> DEFINE r == SubSeq(s, d + 1, Len(s))
           n == Len(s)
<1>1. n \in Nat /\ d \in Nat /\ d <= n
  BY LenProperties
<1>2. d + 1 \in Int /\ n \in Int /\ \A i \in d + 1 .. n : s[i] \in S
  BY <1>1, ElementOfSeq
<1>3. /\ r \in Seq(S) /\ Len(r) = IF d + 1 <= n THEN n - (d + 1) + 1 ELSE 0
      /\ \A i \in 1 .. n - (d + 1) + 1 : r[i] = s[(d + 1) + i - 1]
  BY <1>2, SubSeqProperties
<1> HIDE DEF r, n
<1>4. r \in Seq(S) /\ Len(r) = n - d /\ \A i \in 1 .. n - d : r[i] = s[d + i]
  BY <1>1, <1>3
<1> QED
  BY <1>4 DEF r, n

\* What the client sends for one package.
LEMMA OneArrival ==
  ASSUME NEW noise \in Noise, NEW n \in Nat
  PROVE  LET t == Garbage(noise) \o Package(n)
         IN  /\ t \in Seq(Bytes) /\ Len(noise) \in Nat /\ Len(t) = Len(noise) + CfgLen
             /\ \A i \in 1 .. Len(noise) : t[i] = <<0, noise[i]>> /\ noise[i] \in Nat
             /\ \A i \in 1 .. CfgLen : t[Len(noise) + i] = <<n, i>>
<1>1. noise \in Seq(Nat) /\ CfgLen \in Nat
  BY PortAssumption
<1> DEFINE g == Garbage(noise)
           p == Package(n)
           m == Len(noise)
<1>2. m \in Nat /\ DOMAIN noise = 1 .. m /\ \A i \in 1 .. m : noise[i] \in Nat
  BY <1>1, LenProperties, ElementOfSeq
<1>3. g = [i \in 1 .. m |-> <<0, noise[i]>>] /\ \A i \in 1 .. m : g[i] = <<0, noise[i]>>
  BY <1>2 DEF Garbage
<1>4. g \in Seq(Bytes) /\ Len(g) = m
  <2>1. \A i \in 1 .. m : <<0, noise[i]>> \in Bytes
    BY <1>2 DEF Bytes
  <2>2. g \in [1 .. m -> Bytes]
    BY <1>3, <2>1
  <2> HIDE DEF g, m
  <2>3. g \in Seq(Bytes) /\ DOMAIN g = 1 .. m
    BY <1>2, <2>2, SeqDef
  <2> QED
    BY <1>2, <2>3, LenProperties
<1>5. p \in Seq(Bytes) /\ Len(p) = CfgLen /\ \A i \in 1 .. CfgLen : p[i] = <<n, i>>
  <2>1. p = [i \in 1 .. CfgLen |-> <<n, i>>] /\ \A i \in 1 .. CfgLen : <<n, i>> \in Bytes
    BY <1>1 DEF Package, Bytes
  <2>2. p \in [1 .. CfgLen -> Bytes] /\ \A i \in 1 .. CfgLen : p[i] = <<n, i>>
    BY <2>1
  <2> HIDE DEF p
  <2>3. p \in Seq(Bytes) /\ DOMAIN p = 1 .. CfgLen
    BY <1>1, <2>2, SeqDef
  <2> QED
    BY <1>1, <2>2, <2>3, LenProperties
<1> HIDE DEF g, p, m
<1>6. /\ g \o p \in Seq(Bytes) /\ Len(g \o p) = Len(g) + Len(p)
      /\ \A i \in 1 .. Len(g) + Len(p) : (g \o p)[i] = IF i <= Len(g) THEN g[i] ELSE p[i - Len(g)]
  BY <1>4, <1>5, ConcatProperties
<1>7. \A i \in 1 .. m : (g \o p)[i] = <<0, noise[i]>>
  BY <1>1, <1>2, <1>3, <1>4, <1>5, <1>6
<1>8. \A i \in 1 .. CfgLen : (g \o p)[m + i] = <<n, i>>
  <2> TAKE i \in 1 .. CfgLen
  <2>1. m + i \in 1 .. m + CfgLen /\ ~(m + i <= m) /\ (m + i) - m = i
    BY <1>1, <1>2
  <2> QED
    BY <1>4, <1>5, <1>6, <2>1
<1> QED
  BY <1>2, <1>4, <1>5, <1>6, <1>7, <1>8 DEF g, p, m

\* A package that arrives is one more of the stream.
LEMMA Arrives ==
  ASSUME NEW l \in Nat, NEW a \in Nat, l <= a, NEW s, Stream(s, l, a), NEW noise \in Noise
  PROVE  Stream(s \o (Garbage(noise) \o Package(a + 1)), l, a + 1)
<1> DEFINE t == Garbage(noise) \o Package(a + 1)
           u == s \o t
           n == Len(s)
           m == Len(noise)
<1>1. CfgLen \in Nat /\ CfgLen >= 4
  BY PortAssumption
<1>2. /\ t \in Seq(Bytes) /\ m \in Nat /\ Len(t) = m + CfgLen
      /\ \A i \in 1 .. m : t[i] = <<0, noise[i]>> /\ noise[i] \in Nat
      /\ \A i \in 1 .. CfgLen : t[m + i] = <<a + 1, i>>
  <2>1. a + 1 \in Nat
    OBVIOUS
  <2> QED
    BY <2>1, OneArrival
<1>3. s \in Seq(Bytes) /\ n \in Nat
  BY LenProperties DEF Stream
<1> HIDE DEF t
<1>4. /\ u \in Seq(Bytes) /\ Len(u) = n + m + CfgLen
      /\ \A i \in 1 .. n + m + CfgLen : u[i] = IF i <= n THEN s[i] ELSE t[i - n]
  <2>1. /\ u \in Seq(Bytes) /\ Len(u) = n + Len(t)
        /\ \A i \in 1 .. n + Len(t) : u[i] = IF i <= n THEN s[i] ELSE t[i - n]
    BY <1>2, <1>3, ConcatProperties
  <2>2. n + Len(t) = n + m + CfgLen
    BY <1>1, <1>2, <1>3
  <2> QED
    BY <2>1, <2>2
<1>0. \A i \in 0 .. Len(noise) - 4 : \E v \in 1 .. 4 : noise[i + v] # v
  BY PortAssumption
<1> HIDE DEF u, n, m
<1>5. \A i \in 1 .. n : u[i] = s[i]
  BY <1>1, <1>2, <1>3, <1>4
<1>6. \A i \in 1 .. m : u[n + i] = <<0, noise[i]>>
  <2> TAKE i \in 1 .. m
  <2>1. n + i \in 1 .. n + m + CfgLen /\ ~(n + i <= n) /\ (n + i) - n = i
    BY <1>1, <1>2, <1>3
  <2> QED
    BY <1>2, <1>4, <2>1
<1>7. \A i \in 1 .. CfgLen : u[n + m + i] = <<a + 1, i>>
  <2> TAKE i \in 1 .. CfgLen
  <2>1. n + m + i \in 1 .. n + m + CfgLen /\ ~(n + m + i <= n) /\ (n + m + i) - n = m + i
    BY <1>1, <1>2, <1>3
  <2> QED
    BY <1>2, <1>4, <2>1
<1>8. \A i \in 1 .. n + m + CfgLen :
        \/ i \in 1 .. n
        \/ \E j \in 1 .. m : i = n + j
        \/ \E j \in 1 .. CfgLen : i = n + m + j
  <2> TAKE i \in 1 .. n + m + CfgLen
  <2>1. CASE i <= n
    BY <2>1
  <2>2. CASE n < i /\ i <= n + m
    <3>1. i - n \in 1 .. m /\ i = n + (i - n)
      BY <1>2, <1>3, <2>2
    <3> QED
      BY <3>1
  <2>3. CASE n + m < i
    <3>1. i - (n + m) \in 1 .. CfgLen /\ i = n + m + (i - (n + m))
      BY <1>1, <1>2, <1>3, <2>3
    <3> QED
      BY <3>1
  <2> QED
    BY <1>2, <1>3, <2>1, <2>2, <2>3
<1>9. Starts(u) = Starts(s) \cup {n + m + 1}
  <2>1. ASSUME NEW p \in Starts(u) PROVE p \in Starts(s) \cup {n + m + 1}
    <3>1. p \in 1 .. n + m + CfgLen /\ u[p][1] # 0 /\ u[p][2] = 1
      BY <1>4 DEF Starts
    <3>2. CASE p \in 1 .. n
      BY <1>5, <3>1, <3>2 DEF Starts, n
    <3>3. ASSUME NEW j \in 1 .. m, p = n + j PROVE FALSE
      BY <1>6, <3>1, <3>3
    <3>4. ASSUME NEW j \in 1 .. CfgLen, p = n + m + j PROVE p = n + m + 1
      <4>1. j = 1
        BY <1>7, <3>1, <3>4
      <4> QED
        BY <3>4, <4>1
    <3> QED
      BY <1>8, <3>1, <3>2, <3>3, <3>4
  <2>2. ASSUME NEW p \in Starts(s) PROVE p \in Starts(u)
    <3>1. p \in 1 .. n /\ s[p][1] # 0 /\ s[p][2] = 1
      BY DEF Starts, n
    <3>2. p \in 1 .. n + m + CfgLen
      BY <1>1, <1>2, <1>3, <3>1
    <3> QED
      BY <1>4, <1>5, <3>1, <3>2 DEF Starts
  <2>3. n + m + 1 \in Starts(u)
    <3>1. u[n + m + 1] = <<a + 1, 1>>
      BY <1>1, <1>7
    <3>2. n + m + 1 \in 1 .. n + m + CfgLen
      BY <1>1, <1>2, <1>3
    <3> QED
      BY <1>4, <3>1, <3>2 DEF Starts
  <2> QED
    BY <2>1, <2>2, <2>3
<1>10. u[n + m + 1] = <<a + 1, 1>>
  BY <1>1, <1>7
<1>11. ASSUME NEW p \in Starts(s)
       PROVE  /\ p \in 1 .. n /\ u[p] = s[p] /\ s[p][1] \in l + 1 .. a
              /\ p + CfgLen - 1 <= n
              /\ \A i \in 1 .. CfgLen : s[p + i - 1] = <<s[p][1], i>>
  BY <1>5 DEF Stream, Holds, Whole, Starts, n
<1>12. Whole(u)
  <2> SUFFICES ASSUME NEW p \in Starts(u)
               PROVE  /\ p + CfgLen - 1 <= n + m + CfgLen
                      /\ \A i \in 1 .. CfgLen : u[p + i - 1] = <<u[p][1], i>>
    BY <1>4 DEF Whole
  <2>1. CASE p \in Starts(s)
    <3>1. p + CfgLen - 1 <= n + m + CfgLen /\ \A i \in 1 .. CfgLen : p + i - 1 \in 1 .. n
      <4>1. p \in 1 .. n /\ p + CfgLen - 1 <= n
        BY <1>11, <2>1
      <4> QED
        BY <1>1, <1>2, <1>3, <4>1
    <3> QED
      BY <1>5, <1>11, <2>1, <3>1
  <2>2. CASE p = n + m + 1
    <3>1. \A i \in 1 .. CfgLen : p + i - 1 = n + m + i
      BY <1>1, <1>2, <1>3, <2>2
    <3>2. p + CfgLen - 1 <= n + m + CfgLen
      BY <1>1, <1>2, <1>3, <2>2
    <3> QED
      BY <1>7, <1>10, <2>2, <3>1, <3>2
  <2> QED
    BY <1>9, <2>1, <2>2
<1>13. InOrder(u)
  <2> SUFFICES ASSUME NEW p \in Starts(u), NEW q \in Starts(u), p < q
               PROVE  u[p][1] < u[q][1]
    BY DEF InOrder
  <2>1. CASE p \in Starts(s) /\ q \in Starts(s)
    BY <1>11, <2>1 DEF Stream, InOrder
  <2>2. CASE p \in Starts(s) /\ q = n + m + 1
    <3>1. s[p][1] \in l + 1 .. a /\ u[p] = s[p]
      BY <1>11, <2>2
    <3>2. u[q] = <<a + 1, 1>>
      BY <1>10, <2>2, Zenon
    <3>3. u[q][1] = a + 1
      BY <3>2
    <3> HIDE DEF u
    <3> QED
      BY <3>1, <3>3
  <2>3. CASE p = n + m + 1 /\ q \in Starts(s)
    <3>1. q \in 1 .. n
      BY <1>11, <2>3, Zenon
    <3>2. m \in Nat /\ n \in Nat /\ p = n + m + 1
      BY <1>2, <1>3, <2>3
    <3> QED
      BY <3>1, <3>2
  <2> QED
    BY <1>2, <1>3, <1>9, <2>1, <2>2, <2>3
<1>14. Holds(u, l, a + 1)
  <2>1. ASSUME NEW p \in Starts(u) PROVE u[p][1] \in l + 1 .. a + 1
    <3>1. CASE p \in Starts(s)
      BY <1>11, <3>1
    <3>2. CASE p = n + m + 1
      BY <1>10, <3>2
    <3> QED
      BY <1>9, <3>1, <3>2
  <2>2. ASSUME NEW k \in l + 1 .. a + 1 PROVE \E p \in Starts(u) : u[p][1] = k
    <3>1. CASE k = a + 1
      BY <1>9, <1>10, <3>1
    <3>2. CASE k \in l + 1 .. a
      <4>1. PICK p \in Starts(s) : s[p][1] = k
        BY <3>2 DEF Stream, Holds
      <4> QED
        BY <1>9, <1>11, <4>1
    <3> QED
      BY <3>1, <3>2
  <2> QED
    BY <2>1, <2>2 DEF Holds
<1>15. TrueHeads(u)
  <2> SUFFICES ASSUME NEW p \in 0 .. Len(u) - 4, Heads(u, p, 4), u[p + 1][1] = 0
               PROVE  FALSE
    BY DEF TrueHeads
  <2>0. /\ p \in Nat /\ p + 4 <= n + m + CfgLen
        /\ \A i \in 1 .. 4 : u[p + i][2] = i
    <3>1. n + m + CfgLen \in Nat
      BY <1>1, <1>2, <1>3
    <3>2. p \in Nat /\ p + 4 <= n + m + CfgLen
      BY <1>4, <3>1
    <3> QED
      BY <3>2 DEF Heads
  <2>1. CASE p + 4 <= n
    <3>1. p \in 0 .. n - 4 /\ \A i \in 1 .. 4 : p + i \in 1 .. n
      BY <1>3, <2>0, <2>1
    <3>2. p + 1 \in 1 .. n /\ \A i \in 1 .. 4 : u[p + i] = s[p + i]
      BY <1>5, <3>1
    <3>3. Heads(s, p, 4) /\ s[p + 1][1] = 0
      BY <2>0, <3>2 DEF Heads
    <3> QED
      BY <3>1, <3>3 DEF Stream, TrueHeads, n
  <2>2. CASE p < n /\ n < p + 4
    <3>1. n - p \in 1 .. 4 /\ n - p < 4 /\ p + (n - p) = n /\ n \in 1 .. n
      BY <1>3, <2>0, <2>2
    <3>2. u[n][2] = n - p
      BY <2>0, <3>1
    <3>3. s # << >>
      <4>1. Len(<< >>) = 0
        OBVIOUS
      <4>2. n # 0
        BY <1>3, <3>1
      <4> QED
        BY <4>1, <4>2, Zenon DEF n
    <3>4. u[n][2] = CfgLen
      BY <1>5, <3>1, <3>3 DEF Stream, EndsWhole, n
    <3> QED
      BY <1>1, <3>1, <3>2, <3>4
  <2>3. CASE n <= p /\ p < n + m /\ p + 4 <= n + m
    <3>1. p - n \in 0 .. m - 4 /\ \A i \in 1 .. 4 : p + i = n + ((p - n) + i) /\ (p - n) + i \in 1 .. m
      BY <1>2, <1>3, <2>0, <2>3
    <3>2. \A i \in 1 .. 4 : u[p + i] = <<0, noise[(p - n) + i]>>
      BY <1>6, <3>1
    <3>3. \A i \in 1 .. 4 : noise[(p - n) + i] = i
      BY <2>0, <3>2
    <3> QED
      BY <1>0, <3>1, <3>3 DEF m
  <2>4. CASE n <= p /\ p < n + m /\ n + m < p + 4
    <3>1. (n + m) - p \in 1 .. 3 /\ p + ((n + m) - p + 1) = n + m + 1 /\ (n + m) - p + 1 \in 1 .. 4
      BY <1>2, <1>3, <2>0, <2>4
    <3>2. u[n + m + 1][2] = (n + m) - p + 1
      BY <2>0, <3>1
    <3> QED
      BY <1>10, <3>1, <3>2
  <2>5. CASE n + m <= p
    <3>1. PICK j \in 1 .. CfgLen : p + 1 = n + m + j
      <4>1. n + m \in Nat
        BY <1>2, <1>3
      <4>2. p + 1 - (n + m) \in 1 .. CfgLen
        BY <1>1, <2>0, <2>5, <4>1
      <4>3. p + 1 = n + m + (p + 1 - (n + m))
        BY <2>0, <4>1
      <4> QED
        BY <4>2, <4>3, Zenon
    <3>2. u[n + m + j] = <<a + 1, j>>
      BY <1>7, Zenon
    <3>3. u[p + 1] = <<a + 1, j>>
      BY <3>1, <3>2, Zenon
    <3>4. u[p + 1][1] = a + 1
      BY <3>3
    <3> QED
      BY <2>0, <3>4
  <2> QED
    BY <1>1, <1>2, <1>3, <2>0, <2>1, <2>2, <2>3, <2>4, <2>5
<1>16. EndsWhole(u)
  <2>1. CfgLen \in 1 .. CfgLen
    BY <1>1
  <2>2. u[n + m + CfgLen] = <<a + 1, CfgLen>>
    BY <1>7, <2>1
  <2> QED
    BY <1>4, <2>2 DEF EndsWhole
<1>17. Stream(u, l, a + 1)
  BY <1>4, <1>12, <1>13, <1>14, <1>15, <1>16 DEF Stream
<1> QED
  BY <1>17 DEF u, t

\* The stream behind its first d bytes, when the packages after the first m begin there.
LEMMA Dropped ==
  ASSUME NEW l \in Nat, NEW a \in Nat, NEW s, Stream(s, l, a), NEW d \in 0 .. Len(s), NEW m \in Nat,
         \A p \in Starts(s) : p > d => s[p][1] \in m + 1 .. a,
         \A k \in m + 1 .. a : \E p \in Starts(s) : p > d /\ s[p][1] = k
  PROVE  Stream(SubSeq(s, d + 1, Len(s)), m, a)
<1> DEFINE r == SubSeq(s, d + 1, Len(s))
           n == Len(s)
<1>1. CfgLen \in Nat /\ CfgLen >= 4
  BY PortAssumption
<1>2. s \in Seq(Bytes) /\ n \in Nat /\ d \in Nat /\ d <= n /\ \A i \in 1 .. n : s[i] \in Bytes
  BY LenProperties, ElementOfSeq DEF Stream
<1>3. r \in Seq(Bytes) /\ Len(r) = n - d /\ \A i \in 1 .. n - d : r[i] = s[d + i]
  BY <1>2, Suffix
<1> HIDE DEF r, n
<1>4. ASSUME NEW p \in Starts(r)
      PROVE  d + p \in Starts(s) /\ r[p] = s[d + p] /\ p \in 1 .. n - d /\ d + p > d
  <2>1. p \in 1 .. n - d /\ r[p] = s[d + p] /\ r[p][1] # 0 /\ r[p][2] = 1
    BY <1>3 DEF Starts
  <2>2. d + p \in 1 .. n /\ d + p > d
    BY <1>2, <2>1
  <2> QED
    BY <2>1, <2>2 DEF Starts, n
<1>5. ASSUME NEW p \in Starts(s), p > d
      PROVE  p - d \in Starts(r) /\ r[p - d] = s[p]
  <2>1. p \in 1 .. n /\ p > d /\ s[p][1] # 0 /\ s[p][2] = 1
    BY <1>5 DEF Starts, n
  <2>2. p - d \in 1 .. n - d /\ d + (p - d) = p
    BY <1>2, <2>1
  <2> QED
    BY <1>3, <2>1, <2>2 DEF Starts
<1>6. Whole(r)
  <2> SUFFICES ASSUME NEW p \in Starts(r)
               PROVE  /\ p + CfgLen - 1 <= n - d
                      /\ \A i \in 1 .. CfgLen : r[p + i - 1] = <<r[p][1], i>>
    BY <1>3 DEF Whole
  <2>1. /\ (d + p) + CfgLen - 1 <= n
        /\ \A i \in 1 .. CfgLen : s[(d + p) + i - 1] = <<s[d + p][1], i>>
    BY <1>4 DEF Stream, Whole, n
  <2>2. p \in 1 .. n - d
    BY <1>4
  <2>3. p + CfgLen - 1 <= n - d
    BY <1>1, <1>2, <2>1, <2>2
  <2>4. \A i \in 1 .. CfgLen : p + i - 1 \in 1 .. n - d /\ d + (p + i - 1) = (d + p) + i - 1
    BY <1>1, <1>2, <2>2, <2>3
  <2> QED
    BY <1>3, <1>4, <2>1, <2>3, <2>4
<1>7. InOrder(r)
  <2> SUFFICES ASSUME NEW p \in Starts(r), NEW q \in Starts(r), p < q
               PROVE  r[p][1] < r[q][1]
    BY DEF InOrder
  <2>1. p \in Nat /\ q \in Nat
    BY DEF Starts
  <2>2. d + p < d + q
    BY <1>2, <2>1
  <2> QED
    BY <1>4, <2>2 DEF Stream, InOrder
<1>8. Holds(r, m, a)
  <2>1. \A p \in Starts(r) : r[p][1] \in m + 1 .. a
    BY <1>4
  <2>2. ASSUME NEW k \in m + 1 .. a PROVE \E p \in Starts(r) : r[p][1] = k
    <3>1. PICK p \in Starts(s) : p > d /\ s[p][1] = k
      OBVIOUS
    <3> QED
      BY <1>5, <3>1
  <2> QED
    BY <2>1, <2>2 DEF Holds
<1>9. TrueHeads(r)
  <2> SUFFICES ASSUME NEW p \in 0 .. Len(r) - 4, Heads(r, p, 4) PROVE r[p + 1][1] # 0
    BY DEF TrueHeads
  <2>1. p \in Nat /\ p + 4 <= n - d
    BY <1>2, <1>3
  <2>2. \A i \in 1 .. 4 : p + i \in 1 .. n - d /\ d + (p + i) = (d + p) + i
    BY <1>2, <2>1
  <2>3. \A i \in 1 .. 4 : r[p + i] = s[(d + p) + i]
    BY <1>3, <2>2
  <2>4. Heads(s, d + p, 4)
    BY <2>3 DEF Heads
  <2>5. d + p \in 0 .. n - 4
    BY <1>2, <2>1
  <2>6. s[(d + p) + 1][1] # 0
    BY <2>4, <2>5 DEF Stream, TrueHeads, n
  <2> QED
    BY <2>3, <2>6
<1>10. EndsWhole(r)
  <2> SUFFICES ASSUME r # << >> PROVE r[Len(r)][2] = CfgLen
    BY DEF EndsWhole
  <2>1. Len(r) \in Nat \ {0}
    BY <1>3, EmptySeq
  <2>2. n - d \in 1 .. n - d /\ d + (n - d) = n /\ n # 0
    BY <1>2, <1>3, <2>1
  <2>3. s # << >>
    <3>1. Len(<< >>) = 0
      OBVIOUS
    <3> QED
      BY <2>2, <3>1, Zenon DEF n
  <2>4. s[n][2] = CfgLen
    BY <2>3 DEF Stream, EndsWhole, n
  <2> QED
    BY <1>3, <2>2, <2>4
<1>11. Stream(r, m, a)
  BY <1>3, <1>6, <1>7, <1>8, <1>9, <1>10 DEF Stream
<1> QED
  BY <1>11 DEF r, n

\* A package at the head of the stream is the next one; the stream goes on behind it.
LEMMA NextAtHead ==
  ASSUME NEW l \in Nat, NEW a \in Nat, NEW s, Stream(s, l, a),
         CfgLen <= Len(s), Heads(s, 0, 4)
  PROVE  /\ s[1][1] = l + 1 /\ l + 1 <= a
         /\ Stream(SubSeq(s, CfgLen + 1, Len(s)), l + 1, a)
<1> DEFINE n == Len(s)
<1>1. CfgLen \in Nat /\ CfgLen >= 4
  BY PortAssumption
<1>2. s \in Seq(Bytes) /\ n \in Nat /\ CfgLen <= n
  BY LenProperties DEF Stream
<1>3. 1 \in Starts(s)
  <2>1. 0 \in 0 .. n - 4 /\ 1 \in 1 .. n
    BY <1>1, <1>2
  <2>2. s[0 + 1][2] = 1 /\ s[0 + 1][1] # 0
    BY <2>1 DEF Heads, Stream, TrueHeads
  <2> QED
    BY <2>1, <2>2 DEF Starts
<1>4. s[1][1] \in l + 1 .. a
  BY <1>3 DEF Stream, Holds
<1>5. l + 1 \in l + 1 .. a
  BY <1>4
<1>6. PICK q \in Starts(s) : s[q][1] = l + 1
  BY <1>5 DEF Stream, Holds
<1>7. q \in 1 .. n
  BY DEF Starts
<1>8. q = 1
  <2>1. 1 < q => s[1][1] < l + 1
    BY <1>3, <1>6 DEF Stream, InOrder
  <2> QED
    BY <1>2, <1>4, <1>7, <2>1
<1>9. s[1][1] = l + 1
  BY <1>6, <1>8
<1>10. \A p \in Starts(s) : p = 1 \/ (p > CfgLen /\ s[p][1] \in (l + 1) + 1 .. a)
  <2> TAKE p \in Starts(s)
  <2>1. p \in 1 .. n /\ s[p][2] = 1 /\ s[p][1] \in l + 1 .. a
    BY DEF Starts, Stream, Holds
  <2>2. ASSUME p # 1, p <= CfgLen PROVE FALSE
    <3>1. p \in 1 .. CfgLen /\ 1 + p - 1 = p
      BY <1>1, <2>1, <2>2
    <3>2. s[1 + p - 1] = <<s[1][1], p>>
      BY <1>3, <3>1 DEF Stream, Whole
    <3> QED
      BY <2>1, <2>2, <3>1, <3>2
  <2>3. 1 < p => l + 1 < s[p][1]
    BY <1>3, <1>9 DEF Stream, InOrder
  <2>4. CASE p # 1
    <3>1. 1 < p /\ p > CfgLen
      BY <1>1, <2>1, <2>2, <2>4
    <3> QED
      BY <2>1, <2>3, <3>1
  <2> QED
    BY <2>4
<1>11. ASSUME NEW k \in (l + 1) + 1 .. a PROVE \E p \in Starts(s) : p > CfgLen /\ s[p][1] = k
  <2>1. k \in l + 1 .. a /\ k # l + 1
    OBVIOUS
  <2>2. PICK p \in Starts(s) : s[p][1] = k
    BY <2>1 DEF Stream, Holds
  <2> QED
    BY <1>9, <1>10, <2>1, <2>2
<1>12. Stream(SubSeq(s, CfgLen + 1, Len(s)), l + 1, a)
  <2>1. l + 1 \in Nat /\ CfgLen \in 0 .. Len(s)
    BY <1>1, <1>2
  <2>2. \A p \in Starts(s) : p > CfgLen => s[p][1] \in (l + 1) + 1 .. a
    BY <1>1, <1>10
  <2> QED
    BY <1>11, <2>1, <2>2, Dropped
<1> QED
  BY <1>4, <1>9, <1>12

-----------------------------------------------------------------------------
LEMMA MinOfSet ==
  ASSUME NEW S \in SUBSET Nat, S # {}
  PROVE  Min(S) \in S /\ \A y \in S : Min(S) <= y
<1> DEFINE R == {p \in Nat \X Nat : p[1] < p[2]}
<1>1. IsWellFoundedOn(R, Nat)
  BY NatLessThanWellFounded, Zenon DEF OpToRel
<1>2. PICK x \in S : \A y \in S : ~(<<y, x>> \in R)
  <2> HIDE DEF R
  <2> QED
    BY <1>1, WFMin
<1>3. \A y \in S : x <= y
  <2> TAKE y \in S
  <2>1. <<y, x>> \in Nat \X Nat
    OBVIOUS
  <2>2. ~(y < x)
    BY <1>2, <2>1
  <2> QED
    BY <2>2
<1> HIDE DEF R
<1> QED
  BY <1>3 DEF Min

\* What holds of 0, and of a successor when it holds of the number before, up to n.
LEMMA UpTo ==
  ASSUME NEW S, NEW n \in Nat, 0 \in S, \A j \in 0 .. n - 1 : j \in S => j + 1 \in S
  PROVE  n \in S
<1> SUFFICES ASSUME n \notin S PROVE FALSE
  OBVIOUS
<1> DEFINE bad == {j \in 0 .. n : j \notin S}
           b == Min(bad)
<1>1. bad \in SUBSET Nat /\ n \in bad
  OBVIOUS
<1>2. b \in bad /\ \A y \in bad : b <= y
  BY <1>1, MinOfSet
<1> HIDE DEF b
<1>3. b \in 0 .. n /\ b \notin S /\ b # 0
  BY <1>2
<1>4. b - 1 \in 0 .. n - 1 /\ b - 1 \in 0 .. n /\ ~(b <= b - 1) /\ (b - 1) + 1 = b
  BY <1>3
<1>5. b - 1 \in S
  BY <1>2, <1>4
<1> QED
  BY <1>3, <1>4, <1>5

\* The packages at the head of the stream are the next ones, as far as they follow each other.
LEMMA NextOnes ==
  ASSUME NEW l \in Nat, NEW a \in Nat, l <= a, NEW s, Stream(s, l, a), NEW k \in Nat,
         \A j \in 0 .. k - 1 : j * CfgLen + CfgLen <= Len(s) /\ Heads(s, j * CfgLen, 4)
  PROVE  /\ k * CfgLen \in 0 .. Len(s) /\ l + k <= a
         /\ Stream(SubSeq(s, k * CfgLen + 1, Len(s)), l + k, a)
         /\ \A i \in 1 .. k : s[(i - 1) * CfgLen + 1][1] = l + i
<1> DEFINE n == Len(s)
           From(j) == SubSeq(s, j * CfgLen + 1, n)
           S == {j \in 0 .. k : /\ j * CfgLen <= n /\ l + j <= a
                               /\ Stream(From(j), l + j, a)
                               /\ \A i \in 1 .. j : s[(i - 1) * CfgLen + 1][1] = l + i}
<1>1. CfgLen \in Nat /\ CfgLen >= 4
  BY PortAssumption
<1>2. s \in Seq(Bytes) /\ n \in Nat /\ \A i \in 1 .. n : s[i] \in Bytes
  BY LenProperties, ElementOfSeq DEF Stream
<1>3. 0 \in S
  <2>1. 0 * CfgLen = 0
    BY <1>1
  <2>2. From(0) = s
    <3>1. SubSeq(s, 1, Len(s)) = s
      BY <1>2, SubSeqFull
    <3> QED
      BY <2>1, <3>1
  <2> HIDE DEF From
  <2> QED
    BY <1>2, <2>1, <2>2
<1>4. ASSUME NEW j \in 0 .. k - 1, j \in S PROVE j + 1 \in S
  <2> DEFINE c == j * CfgLen
             r == From(j)
  <2>1. c \in Nat /\ (j + 1) * CfgLen = c + CfgLen
    BY <1>1, Times
  <2>2. c + CfgLen <= n /\ Heads(s, c, 4) /\ Stream(r, l + j, a) /\ l + j <= a /\ l + j \in Nat
    BY <1>4
  <2> HIDE DEF c
  <2>3. r \in Seq(Bytes) /\ Len(r) = n - c /\ \A i \in 1 .. n - c : r[i] = s[c + i]
    <3>1. c \in 0 .. Len(s)
      BY <1>1, <1>2, <2>1, <2>2
    <3>2. r = SubSeq(s, c + 1, Len(s))
      BY DEF c
    <3> HIDE DEF r
    <3> QED
      BY <1>2, <3>1, <3>2, Suffix
  <2> HIDE DEF r, n
  <2>4. Heads(r, 0, 4) /\ CfgLen <= Len(r)
    <3>1. \A i \in 1 .. 4 : i \in 1 .. n - c /\ 0 + i = i
      BY <1>1, <1>2, <2>1, <2>2
    <3>2. \A i \in 1 .. 4 : r[0 + i][2] = i
      BY <2>2, <2>3, <3>1 DEF Heads
    <3> QED
      BY <1>1, <1>2, <2>1, <2>2, <2>3, <3>2 DEF Heads
  <2>5. /\ r[1][1] = (l + j) + 1 /\ (l + j) + 1 <= a
        /\ Stream(SubSeq(r, CfgLen + 1, Len(r)), (l + j) + 1, a)
    BY <2>2, <2>4, NextAtHead
  <2>6. SubSeq(r, CfgLen + 1, Len(r)) = From(j + 1)
    <3> DEFINE x == SubSeq(r, CfgLen + 1, Len(r))
               y == SubSeq(s, (c + CfgLen) + 1, n)
    <3>1. CfgLen \in 0 .. Len(r) /\ c + CfgLen \in 0 .. Len(s)
      BY <1>1, <1>2, <2>1, <2>2, <2>3 DEF n
    <3>2. x \in Seq(Bytes) /\ Len(x) = Len(r) - CfgLen /\ \A i \in 1 .. Len(r) - CfgLen : x[i] = r[CfgLen + i]
      BY <2>3, <3>1, Suffix
    <3>3. /\ y \in Seq(Bytes) /\ Len(y) = n - (c + CfgLen)
          /\ \A i \in 1 .. n - (c + CfgLen) : y[i] = s[(c + CfgLen) + i]
      BY <1>2, <3>1, Suffix DEF n
    <3> HIDE DEF x, y
    <3>4. Len(x) = Len(y) /\ Len(x) = (n - c) - CfgLen
      BY <1>1, <1>2, <2>1, <2>3, <3>2, <3>3
    <3>5. ASSUME NEW i \in 1 .. Len(x) PROVE x[i] = y[i]
      <4>1. /\ i \in 1 .. Len(r) - CfgLen /\ i \in 1 .. n - (c + CfgLen)
            /\ CfgLen + i \in 1 .. n - c /\ c + (CfgLen + i) = (c + CfgLen) + i
        BY <1>1, <1>2, <2>1, <2>2, <2>3, <3>4
      <4> QED
        BY <2>3, <3>2, <3>3, <4>1
    <3>6. x = y
      BY <3>2, <3>3, <3>4, <3>5, SeqEqual
    <3>7. y = From(j + 1)
      BY <2>1 DEF y
    <3> QED
      BY <3>6, <3>7 DEF x
  <2>7. r[1] = s[((j + 1) - 1) * CfgLen + 1]
    <3>1. 1 \in 1 .. n - c /\ (j + 1) - 1 = j
      BY <1>1, <1>2, <2>1, <2>2
    <3> QED
      BY <2>3, <3>1 DEF c
  <2>8. \A i \in 1 .. j + 1 : s[(i - 1) * CfgLen + 1][1] = l + i
    <3> TAKE i \in 1 .. j + 1
    <3>1. CASE i = j + 1
      BY <2>5, <2>7, <3>1
    <3>2. CASE i # j + 1
      <4>1. i \in 1 .. j
        BY <3>2
      <4> QED
        BY <1>4, <4>1
    <3> QED
      BY <3>1, <3>2
  <2>9. (l + j) + 1 = l + (j + 1) /\ j + 1 \in 0 .. k /\ (j + 1) * CfgLen <= n
    BY <1>1, <2>1, <2>2
  <2>10. Stream(From(j + 1), l + (j + 1), a) /\ l + (j + 1) <= a
    BY <2>5, <2>6, <2>9
  <2> HIDE DEF From
  <2> QED
    BY <2>8, <2>9, <2>10
<1> HIDE DEF S
<1>5. k \in S
  BY <1>3, <1>4, UpTo
<1>6. k * CfgLen \in Nat
  BY <1>1, Times
<1> QED
  BY <1>2, <1>5, <1>6 DEF S

\* search_pkg_head passes no head, and stops two bytes before the end.
LEMMA SearchStops ==
  ASSUME NEW s \in Seq(Bytes), 2 <= Len(s)
  PROVE  /\ SearchPkgHead(s) \in 0 .. Len(s) - 2
         /\ \A i \in 0 .. Len(s) - 3 : Heads(s, i, 3) => SearchPkgHead(s) <= i
<1> DEFINE S == { i \in 0 .. Len(s) - 3 : Heads(s, i, 3) } \cup {Len(s) - 2}
<1>1. Len(s) \in Nat
  BY LenProperties
<1>2. S \in SUBSET Nat /\ Len(s) - 2 \in S
  BY <1>1
<1>3. SearchPkgHead(s) = Min(S)
  BY DEF SearchPkgHead
<1>4. Min(S) \in S /\ \A y \in S : Min(S) <= y
  BY <1>2, MinOfSet
<1>5. Min(S) \in Nat /\ Min(S) <= Len(s) - 2
  BY <1>2, <1>4
<1>6. \A i \in 0 .. Len(s) - 3 : Heads(s, i, 3) => i \in S
  OBVIOUS
<1> HIDE DEF S
<1> QED
  BY <1>1, <1>3, <1>4, <1>5, <1>6

-----------------------------------------------------------------------------
PortInv ==
  /\ asked \in Nat
  /\ served \in Seq(Nat) /\ Len(served) <= asked
  /\ cfgBuf \in Seq(Bytes) /\ port \in Seq(Bytes)
  /\ \A k \in 1 .. Len(served) : served[k] = k
  /\ Stream(cfgBuf \o port, Len(served), asked)

LEMMA InitPort == ASSUME PortInit PROVE PortInv
<1>1. asked = 0 /\ port = << >> /\ cfgBuf = << >> /\ served = << >>
  BY DEF PortInit
<1>2. << >> \in Seq(Bytes) /\ << >> \in Seq(Nat) /\ << >> \o << >> = << >> /\ Len(<< >>) = 0
  OBVIOUS
<1>3. Starts(<< >>) = {} /\ 0 .. Len(<< >>) - 4 = {}
  BY <1>2 DEF Starts
<1>4. Stream(<< >>, 0, 0)
  <2>1. Holds(<< >>, 0, 0)
    BY <1>3 DEF Holds
  <2> QED
    BY <1>2, <1>3, <2>1 DEF Stream, Whole, InOrder, TrueHeads, EndsWhole
<1> QED
  BY <1>1, <1>2, <1>4 DEF PortInv

LEMMA SendPackagePort == ASSUME PortInv, SendPackage PROVE PortInv'
<1>1. PICK noise \in Noise : port' = port \o (Garbage(noise) \o Package(asked + 1))
  BY DEF SendPackage
<1>2. asked' = asked + 1 /\ UNCHANGED <<cfgBuf, served>>
  BY DEF SendPackage
<1> DEFINE t == Garbage(noise) \o Package(asked + 1)
           l == Len(served)
<1>3. l \in Nat /\ asked \in Nat /\ asked + 1 \in Nat /\ l <= asked /\ Stream(cfgBuf \o port, l, asked)
  BY LenProperties DEF PortInv
<1>4. t \in Seq(Bytes)
  BY <1>3, OneArrival
<1>5. Stream((cfgBuf \o port) \o t, l, asked + 1)
  BY <1>3, Arrives
<1> HIDE DEF t, l
<1>6. cfgBuf \in Seq(Bytes) /\ port \in Seq(Bytes)
  BY DEF PortInv
<1>7. (cfgBuf \o port) \o t = cfgBuf \o (port \o t)
  BY <1>4, <1>6, ConcatAssociative
<1>8. port \o t \in Seq(Bytes)
  BY <1>4, <1>6, ConcatProperties
<1>9. port' = port \o t
  BY <1>1 DEF t
<1>10. Stream(cfgBuf' \o port', Len(served'), asked')
  BY <1>2, <1>5, <1>7, <1>9 DEF l
<1>11. served' \in Seq(Nat) /\ Len(served') <= asked' /\ \A k \in 1 .. Len(served') : served'[k] = k
  <2>1. served \in Seq(Nat) /\ \A k \in 1 .. Len(served) : served[k] = k
    BY DEF PortInv
  <2>2. Len(served) <= asked + 1
    BY <1>3 DEF l
  <2> QED
    BY <1>2, <2>1, <2>2
<1> QED
  BY <1>2, <1>3, <1>6, <1>8, <1>9, <1>10, <1>11 DEF PortInv

\* However many bytes come, and however many packages are served of them.
LEMMA ReadConfigPort ==
  ASSUME PortInv, NEW n \in 1 .. Len(port), NEW k \in Nat, ReadConfig(n, k)
  PROVE  PortInv'
<1> DEFINE h == Len(cfgBuf)
           new == SubSeq(port, 1, n)
           buf == cfgBuf \o new
           s == cfgBuf \o port
           b == h + n
           l == Len(served)
           c == k * CfgLen
           r == SubSeq(s, c + 1, Len(s))
           rest == SubSeq(buf, c + 1, Len(buf))
           d == IF Len(rest) < CfgLen THEN 0 ELSE SearchPkgHead(rest)
           tail == SubSeq(port, n + 1, Len(port))
<1>1. CfgLen \in Nat /\ CfgLen >= 4
  BY PortAssumption
<1>2. /\ cfgBuf \in Seq(Bytes) /\ port \in Seq(Bytes) /\ h \in Nat /\ Len(port) \in Nat
      /\ n \in Nat /\ n <= Len(port) /\ \A i \in 1 .. Len(port) : port[i] \in Bytes
      /\ served \in Seq(Nat) /\ l \in Nat /\ l <= asked /\ asked \in Nat
      /\ Stream(s, l, asked)
  BY LenProperties, ElementOfSeq DEF PortInv
<1>3. /\ HoldsPackages(buf, k) /\ port' = tail /\ cfgBuf' = Left(buf, k)
      /\ served' = served \o [j \in 1 .. k |-> buf[(j - 1) * CfgLen + 1][1]]
      /\ asked' = asked
  BY DEF ReadConfig
<1>4. new \in Seq(Bytes) /\ Len(new) = n /\ \A i \in 1 .. n : new[i] = port[i]
  <2>1. 1 \in Int /\ n \in Int /\ \A i \in 1 .. n : port[i] \in Bytes
    BY <1>2
  <2>2. /\ new \in Seq(Bytes) /\ Len(new) = IF 1 <= n THEN n - 1 + 1 ELSE 0
        /\ \A i \in 1 .. n - 1 + 1 : new[i] = port[1 + i - 1]
    BY <2>1, SubSeqProperties
  <2> HIDE DEF new
  <2> QED
    BY <1>2, <2>2
<1> HIDE DEF new
<1>5. /\ buf \in Seq(Bytes) /\ Len(buf) = b
      /\ \A i \in 1 .. b : buf[i] = IF i <= h THEN cfgBuf[i] ELSE port[i - h]
  <2>1. /\ buf \in Seq(Bytes) /\ Len(buf) = h + Len(new)
        /\ \A i \in 1 .. h + Len(new) : buf[i] = IF i <= h THEN cfgBuf[i] ELSE new[i - h]
    BY <1>2, <1>4, ConcatProperties
  <2> HIDE DEF buf, h
  <2> QED
    BY <1>2, <1>4, <2>1
<1>6. /\ s \in Seq(Bytes) /\ Len(s) = h + Len(port) /\ b <= Len(s)
      /\ \A i \in 1 .. h + Len(port) : s[i] = IF i <= h THEN cfgBuf[i] ELSE port[i - h]
  <2>1. /\ s \in Seq(Bytes) /\ Len(s) = h + Len(port)
        /\ \A i \in 1 .. h + Len(port) : s[i] = IF i <= h THEN cfgBuf[i] ELSE port[i - h]
    BY <1>2, ConcatProperties
  <2> HIDE DEF s, h
  <2> QED
    BY <1>2, <2>1
<1> HIDE DEF buf, s, h
<1>7. b \in Nat /\ \A i \in 1 .. b : buf[i] = s[i] /\ i \in 1 .. h + Len(port)
  <2>1. b \in Nat /\ b <= h + Len(port) /\ h + Len(port) \in Nat
    BY <1>2, <1>6
  <2> HIDE DEF b
  <2>2. \A i \in 1 .. b : i \in 1 .. h + Len(port)
    BY <2>1
  <2> QED
    BY <1>5, <1>6, <2>1, <2>2
<1>8. c \in Nat
  BY <1>1, Times
<1>9. ASSUME NEW j \in 0 .. k - 1
      PROVE  /\ j * CfgLen \in Nat /\ j * CfgLen + CfgLen <= b
             /\ Heads(s, j * CfgLen, 4)
  <2>1. j * CfgLen \in Nat
    BY <1>1, Times
  <2>2. j * CfgLen + CfgLen <= b /\ Heads(buf, j * CfgLen, 4)
    BY <1>3, <1>5 DEF HoldsPackages, IsPackage
  <2> HIDE DEF b
  <2>3. \A i \in 1 .. 4 : j * CfgLen + i \in 1 .. b
    BY <1>1, <1>7, <2>1, <2>2
  <2> QED
    BY <1>7, <2>1, <2>2, <2>3 DEF Heads
<1>10. /\ c \in 0 .. Len(s) /\ l + k <= asked /\ Stream(r, l + k, asked)
       /\ \A i \in 1 .. k : s[(i - 1) * CfgLen + 1][1] = l + i
  <2>1. \A j \in 0 .. k - 1 : j * CfgLen + CfgLen <= Len(s) /\ Heads(s, j * CfgLen, 4)
    <3> TAKE j \in 0 .. k - 1
    <3>1. j * CfgLen \in Nat /\ j * CfgLen + CfgLen <= b /\ Heads(s, j * CfgLen, 4)
      BY <1>9
    <3> QED
      BY <1>1, <1>2, <1>6, <1>7, <3>1
  <2>2. l \in Nat /\ asked \in Nat /\ l <= asked /\ Stream(s, l, asked)
    BY <1>2
  <2> HIDE DEF l, b
  <2> QED
    BY <2>1, <2>2, NextOnes
<1>11. c <= b
  <2>1. CASE k = 0
    BY <1>1, <1>7, <2>1
  <2>2. CASE k # 0
    <3>1. k - 1 \in 0 .. k - 1 /\ k - 1 \in Nat /\ (k - 1) + 1 = k
      BY <2>2
    <3>2. k * CfgLen = (k - 1) * CfgLen + 1 * CfgLen
      BY <1>1, <3>1, Times
    <3>3. 1 * CfgLen = CfgLen
      BY <1>1
    <3> QED
      BY <1>9, <3>1, <3>2, <3>3
  <2> QED
    BY <2>1, <2>2
<1> HIDE DEF c, l
<1>12. r \in Seq(Bytes) /\ Len(r) = Len(s) - c /\ \A i \in 1 .. Len(s) - c : r[i] = s[c + i]
  BY <1>6, <1>10, Suffix
<1>13. rest \in Seq(Bytes) /\ Len(rest) = b - c /\ \A i \in 1 .. b - c : rest[i] = buf[c + i]
  <2>1. c \in 0 .. Len(buf)
    BY <1>5, <1>8, <1>11, <1>7
  <2> QED
    BY <1>5, <2>1, Suffix
<1> HIDE DEF r, rest, b
<1>14. Len(rest) \in Nat /\ Len(rest) <= Len(r) /\ \A i \in 1 .. Len(rest) : rest[i] = r[i]
  <2>1. Len(s) \in Nat /\ b <= Len(s)
    BY <1>2, <1>6
  <2>2. b - c \in Nat /\ b - c <= Len(s) - c
    BY <1>7, <1>8, <1>11, <2>1
  <2>3. \A i \in 1 .. b - c : c + i \in 1 .. b /\ i \in 1 .. Len(s) - c
    BY <1>7, <1>8, <1>11, <2>1
  <2> QED
    BY <1>7, <1>12, <1>13, <2>2, <2>3
<1>15. d \in 0 .. Len(rest) /\ Left(buf, k) = SubSeq(rest, d + 1, Len(rest))
  <2>1. Left(buf, k) = IF Len(rest) < CfgLen THEN rest
                       ELSE SubSeq(rest, SearchPkgHead(rest) + 1, Len(rest))
    BY DEF Left, rest, c
  <2>2. CASE Len(rest) < CfgLen
    <3>1. d = 0 /\ SubSeq(rest, 1, Len(rest)) = rest
      BY <1>13, <2>2, SubSeqFull
    <3>2. d + 1 = 1
      BY <3>1
    <3> QED
      BY <1>14, <2>1, <2>2, <3>1, <3>2
  <2>3. CASE ~(Len(rest) < CfgLen)
    <3>1. 2 <= Len(rest)
      BY <1>1, <1>14, <2>3
    <3>2. SearchPkgHead(rest) \in 0 .. Len(rest) - 2
      BY <1>13, <3>1, SearchStops
    <3>3. SearchPkgHead(rest) \in 0 .. Len(rest)
      BY <1>14, <3>2
    <3> QED
      BY <2>1, <2>3, <3>3
  <2> QED
    BY <2>2, <2>3
<1>16. \A p \in Starts(r) : p > d
  <2> TAKE p \in Starts(r)
  <2>1. /\ p \in 1 .. Len(r) /\ Len(r) \in Nat /\ p + CfgLen - 1 <= Len(r)
        /\ \A i \in 1 .. CfgLen : r[p + i - 1] = <<r[p][1], i>>
    BY <1>10, <1>12, LenProperties DEF Starts, Stream, Whole
  <2>2. CASE Len(rest) < CfgLen
    BY <2>1, <2>2
  <2>3. CASE ~(Len(rest) < CfgLen)
    <3>1. 2 <= Len(rest)
      BY <1>1, <1>14, <2>3
    <3>2. /\ d \in 0 .. Len(rest) - 2
          /\ \A i \in 0 .. Len(rest) - 3 : Heads(rest, i, 3) => d <= i
      BY <1>13, <2>3, <3>1, SearchStops
    <3> HIDE DEF d
    <3>3. CASE p + 2 <= Len(rest)
      <4>1. p - 1 \in 0 .. Len(rest) - 3
        BY <1>14, <2>1, <3>3
      <4>2. \A i \in 1 .. 3 : /\ i \in 1 .. CfgLen /\ (p - 1) + i = p + i - 1
                              /\ (p - 1) + i \in 1 .. Len(rest)
        BY <1>1, <1>14, <2>1, <3>3
      <4>3. \A i \in 1 .. 3 : rest[(p - 1) + i] = <<r[p][1], i>>
        BY <1>14, <2>1, <4>2
      <4>4. Heads(rest, p - 1, 3)
        BY <4>3 DEF Heads
      <4>5. d <= p - 1
        BY <3>2, <4>1, <4>4
      <4> QED
        BY <2>1, <3>2, <4>5
    <3>4. CASE ~(p + 2 <= Len(rest))
      BY <1>14, <2>1, <3>2, <3>4
    <3> QED
      BY <3>3, <3>4
  <2> QED
    BY <2>2, <2>3
<1> HIDE DEF d
<1>17. Stream(SubSeq(r, d + 1, Len(r)), l + k, asked)
  <2>1. d \in 0 .. Len(r) /\ l + k \in Nat
    BY <1>2, <1>12, <1>14, <1>15, LenProperties
  <2>2. \A p \in Starts(r) : r[p][1] \in (l + k) + 1 .. asked
    BY <1>10 DEF Stream, Holds
  <2>3. \A j \in (l + k) + 1 .. asked : \E p \in Starts(r) : r[p][1] = j
    BY <1>10 DEF Stream, Holds
  <2> QED
    BY <1>2, <1>10, <1>16, <2>1, <2>2, <2>3, Dropped
<1>18. tail \in Seq(Bytes) /\ Len(tail) = Len(port) - n /\ \A i \in 1 .. Len(port) - n : tail[i] = port[n + i]
  <2>1. n \in 0 .. Len(port)
    BY <1>2
  <2> QED
    BY <1>2, <2>1, Suffix
<1> DEFINE left == SubSeq(rest, d + 1, Len(rest))
           x == SubSeq(r, d + 1, Len(r))
           y == left \o tail
           m == Len(rest) - d
<1>19. left \in Seq(Bytes) /\ Len(left) = m /\ \A i \in 1 .. m : left[i] = rest[d + i]
  BY <1>13, <1>15, Suffix
<1> HIDE DEF tail, left
<1>20. /\ y \in Seq(Bytes) /\ Len(y) = m + (Len(port) - n)
       /\ \A i \in 1 .. m + (Len(port) - n) : y[i] = IF i <= m THEN left[i] ELSE tail[i - m]
  <2>1. /\ y \in Seq(Bytes) /\ Len(y) = Len(left) + Len(tail)
        /\ \A i \in 1 .. Len(left) + Len(tail) :
             y[i] = IF i <= Len(left) THEN left[i] ELSE tail[i - Len(left)]
    BY <1>18, <1>19, ConcatProperties
  <2> HIDE DEF y, m
  <2> QED
    BY <1>18, <1>19, <2>1
<1>21. x \in Seq(Bytes) /\ Len(x) = Len(r) - d /\ \A i \in 1 .. Len(r) - d : x[i] = r[d + i]
  <2>1. d \in 0 .. Len(r)
    BY <1>12, <1>14, <1>15, LenProperties
  <2> QED
    BY <1>12, <2>1, Suffix
<1> HIDE DEF x, y
<1>22. x = y
  <2>1. /\ b \in Nat /\ h \in Nat /\ b = h + n /\ Len(s) = h + Len(port) /\ Len(r) = Len(s) - c
        /\ m = (b - c) - d /\ c \in Nat /\ c <= b /\ d \in Nat /\ d <= b - c
    BY <1>2, <1>6, <1>7, <1>8, <1>11, <1>12, <1>13, <1>15 DEF b
  <2> HIDE DEF m
  <2>2. Len(x) = Len(y) /\ Len(x) = (Len(s) - c) - d
    BY <1>2, <1>20, <1>21, <2>1, SMTT(30)
  <2>3. ASSUME NEW i \in 1 .. Len(x) PROVE x[i] = y[i]
    <3>1. /\ d + i \in 1 .. Len(s) - c /\ c + (d + i) \in 1 .. h + Len(port)
          /\ i \in 1 .. Len(r) - d /\ i \in 1 .. m + (Len(port) - n)
      BY <1>2, <2>1, <2>2
    <3>2. x[i] = r[d + i] /\ r[d + i] = s[c + (d + i)]
      BY <1>12, <1>21, <3>1
    <3>3. CASE i <= m
      <4>1. i \in 1 .. m /\ d + i \in 1 .. Len(rest)
        BY <1>13, <2>1, <3>1, <3>3
      <4> QED
        BY <1>14, <1>19, <1>20, <3>1, <3>2, <3>3, <4>1
    <3>4. CASE ~(i <= m)
      <4>1. /\ i - m \in 1 .. Len(port) - n /\ ~(c + (d + i) <= h)
            /\ n + (i - m) = (c + (d + i)) - h
        BY <1>2, <2>1, <3>1, <3>4
      <4>2. y[i] = port[n + (i - m)]
        BY <1>18, <1>20, <3>1, <3>4, <4>1
      <4>3. s[c + (d + i)] = port[(c + (d + i)) - h]
        BY <1>6, <3>1, <4>1
      <4> QED
        BY <3>2, <4>1, <4>2, <4>3
    <3> QED
      BY <3>3, <3>4
  <2> QED
    BY <1>20, <1>21, <2>2, <2>3, SeqEqual
<1>23. Stream(cfgBuf' \o port', l + k, asked)
  <2>1. cfgBuf' \o port' = y
    BY <1>3, <1>15 DEF y, left
  <2> QED
    BY <1>17, <1>22, <2>1 DEF x
<1>24. cfgBuf' \in Seq(Bytes) /\ port' \in Seq(Bytes)
  BY <1>3, <1>15, <1>18, <1>19 DEF left
<1> DEFINE more == [j \in 1 .. k |-> buf[(j - 1) * CfgLen + 1][1]]
<1>25. more \in Seq(Nat) /\ Len(more) = k /\ \A j \in 1 .. k : more[j] = l + j
  <2>1. ASSUME NEW j \in 1 .. k PROVE buf[(j - 1) * CfgLen + 1][1] = l + j
    <3>1. j - 1 \in 0 .. k - 1
      OBVIOUS
    <3>2. (j - 1) * CfgLen \in Nat /\ (j - 1) * CfgLen + CfgLen <= b
      BY <1>9, <3>1
    <3>3. (j - 1) * CfgLen + 1 \in 1 .. b
      BY <1>1, <1>7, <3>2
    <3> QED
      BY <1>7, <1>10, <3>3
  <2>2. \A j \in 1 .. k : more[j] = l + j /\ l + j \in Nat
    BY <1>2, <2>1
  <2>3. more \in [1 .. k -> Nat]
    BY <2>2
  <2> HIDE DEF more
  <2>4. more \in Seq(Nat) /\ DOMAIN more = 1 .. k
    BY <2>3, SeqDef
  <2> QED
    BY <2>2, <2>4, LenProperties
<1> HIDE DEF more
<1>26. /\ served' \in Seq(Nat) /\ Len(served') = l + k
       /\ \A i \in 1 .. l + k : served'[i] = IF i <= l THEN served[i] ELSE more[i - l]
  <2>1. served' = served \o more
    BY <1>3 DEF more
  <2>2. /\ served \o more \in Seq(Nat) /\ Len(served \o more) = Len(served) + Len(more)
        /\ \A i \in 1 .. Len(served) + Len(more) :
             (served \o more)[i] = IF i <= Len(served) THEN served[i] ELSE more[i - Len(served)]
    BY <1>2, <1>25, ConcatProperties
  <2>3. Len(served) = l /\ Len(more) = k
    BY <1>25 DEF l
  <2> QED
    BY <2>1, <2>2, <2>3
<1>27. \A i \in 1 .. l + k : served'[i] = i
  <2> TAKE i \in 1 .. l + k
  <2>1. CASE i <= l
    <3>1. i \in 1 .. Len(served)
      BY <1>2, <2>1 DEF l
    <3>2. served[i] = i
      BY <3>1 DEF PortInv
    <3> QED
      BY <1>26, <2>1, <3>2
  <2>2. CASE ~(i <= l)
    <3>1. i - l \in 1 .. k /\ l + (i - l) = i
      BY <1>2, <2>2
    <3> QED
      BY <1>25, <1>26, <2>2, <3>1
  <2> QED
    BY <2>1, <2>2
<1> QED
  BY <1>2, <1>3, <1>10, <1>23, <1>24, <1>26, <1>27 DEF PortInv

LEMMA StepPort == ASSUME PortInv, [Next]_vars PROVE PortInv'
<1>1. CASE Ask
  BY <1>1, SendPackagePort DEF Ask
<1>2. CASE Configure
  <2>1. MaxPkgs \in Nat
    BY PipeAssumption
  <2>2. PICK n \in 1 .. Len(port), k \in 0 .. MaxPkgs : ReadConfig(n, k)
    BY <1>2 DEF Configure
  <2>3. k \in Nat
    BY <2>1
  <2> QED
    BY <2>2, <2>3, ReadConfigPort
<1>3. CASE SendPkg \/ SendTooLong \/ Writes \/ Reads \/ HandlePacket \/ UNCHANGED vars
  <2>1. UNCHANGED portVars
    BY <1>3 DEF SendPkg, SendTooLong, Writes, WriteEvent, Write, WriteRefused, WriteEnds, Reads,
       ReadEvent, Recv, RecvNothing, Dispatch, HandlePacket, PacketsEnd, vars
  <2> QED
    BY <2>1 DEF portVars, PortInv
<1> QED
  BY <1>1, <1>2, <1>3 DEF Next, Known

(* Whatever comes between the packages, of whatever length they are, and   *)
(* wherever the chunks end: the packages are served in order, each once,   *)
(* and of those that wait no byte was thrown away.                         *)
THEOREM NoConfigLost == Spec => []NoPackageLost
<1>1. Init => PortInv
  BY InitPort DEF Init
<1>2. PortInv => NoPackageLost
  <2> SUFFICES ASSUME PortInv PROVE NoPackageLost
    OBVIOUS
  <2> DEFINE s == cfgBuf \o port
             l == Len(served)
  <2>1. CfgLen \in Nat /\ CfgLen >= 4
    BY PortAssumption
  <2>2. /\ served \in Seq(Nat) /\ DOMAIN served = 1 .. l /\ l \in Nat
        /\ \A k \in 1 .. l : served[k] = k
        /\ Stream(s, l, asked) /\ s \in Seq(Bytes)
    BY LenProperties DEF PortInv, Stream
  <2>3. /\ Len(s) = Len(cfgBuf) + Len(port) /\ Len(s) \in Nat
        /\ Len(cfgBuf) \in Nat /\ Len(port) \in Nat
    BY <2>2, ConcatProperties, LenProperties DEF PortInv
  <2> HIDE DEF s, l
  <2>4. ASSUME NEW n \in l + 1 .. asked PROVE Waiting(n)
    <3>1. PICK p \in Starts(s) : s[p][1] = n
      BY <2>2 DEF Stream, Holds
    <3>2. /\ p \in 1 .. Len(s) /\ p + CfgLen - 1 <= Len(s)
          /\ \A i \in 1 .. CfgLen : s[p + i - 1] = <<n, i>>
      BY <2>2, <3>1 DEF Stream, Whole, Starts
    <3> DEFINE q == p - 1
               t == SubSeq(s, q + 1, q + CfgLen)
    <3>3. q \in 0 .. Len(s) - CfgLen
      BY <2>1, <2>3, <3>2
    <3>4. \A i \in 1 .. CfgLen : q + 1 + i - 1 = p + i - 1 /\ q + 1 + i - 1 \in 1 .. Len(s)
      BY <2>1, <2>3, <3>2
    <3> HIDE DEF q
    <3>5. /\ t \in Seq(Bytes) /\ Len(t) = CfgLen
          /\ \A i \in 1 .. CfgLen : t[i] = s[q + 1 + i - 1]
      <4>1. q + 1 \in Int /\ q + CfgLen \in Int /\ \A i \in q + 1 .. q + CfgLen : s[i] \in Bytes
        <5>1. \A i \in q + 1 .. q + CfgLen : i \in 1 .. Len(s)
          BY <2>1, <2>3, <3>3
        <5> QED
          BY <2>1, <2>2, <2>3, <3>3, <5>1, ElementOfSeq
      <4>2. /\ t \in Seq(Bytes)
            /\ Len(t) = IF q + 1 <= q + CfgLen THEN (q + CfgLen) - (q + 1) + 1 ELSE 0
            /\ \A i \in 1 .. (q + CfgLen) - (q + 1) + 1 : t[i] = s[(q + 1) + i - 1]
        BY <4>1, SubSeqProperties
      <4> HIDE DEF t
      <4>3. q \in Nat
        BY <2>1, <2>3, <3>3
      <4>4. (q + CfgLen) - (q + 1) + 1 = CfgLen /\ q + 1 <= q + CfgLen
        BY <2>1, <4>3
      <4> QED
        BY <4>2, <4>4
    <3> HIDE DEF t
    <3>6. t = Package(n)
      <4>1. t = [i \in 1 .. CfgLen |-> t[i]]
        BY <3>5, LenProperties
      <4>2. \A i \in 1 .. CfgLen : t[i] = <<n, i>>
        BY <3>2, <3>4, <3>5
      <4> QED
        BY <4>1, <4>2 DEF Package
    <3>7. SubSeq(cfgBuf \o port, q + 1, q + CfgLen) = Package(n)
      BY <3>6 DEF t, s
    <3>8. q \in 0 .. Len(cfgBuf) + Len(port) - CfgLen
      BY <2>1, <2>3, <3>3
    <3> QED
      BY <3>7, <3>8 DEF Waiting
  <2> QED
    BY <2>2, <2>4 DEF NoPackageLost, l
<1> QED
  BY <1>1, <1>2, StepPort, PTL DEF Spec
=============================================================================
