------------------------------ MODULE PkgPipe -------------------------------
(***************************************************************************)
(* The way of a packet from rtsp_bin to dec_bin.  send_pkg                 *)
(* (rtsp/shmring.c) puts it into unixBuf whole; unix_write_handle          *)
(* (rtsp/main.c) writes unixBuf to the socket in chunks as long as it      *)
(* takes them; server_read_handle (decoder/main.c) reads chunks and cuts   *)
(* packets off the head of its buffer.  A byte is its number in the stream *)
(* of all packets.                                                         *)
(*                                                                         *)
(* The socket and the event loop are external.  A call to send may write   *)
(* less than it was asked to; the socket is then not ready.  The loop      *)
(* reports room once for each time it is asked to (as rtsp.c:358-362 has   *)
(* it), and only send_pkg asks.  Both buffers are connet's, and grow.      *)
(***************************************************************************)
EXTENDS ConfigPort

CONSTANTS
  PkgLen,      \* sizeof(struct rtpPkg_st)
  ChunkLen,    \* bytes of one send and of one recv, 4096
  SockLen,     \* bytes the socket holds
  MaxPkgs      \* bound: packets sent

ASSUME PipeAssumption ==
  /\ PkgLen \in Nat \ {0}
  /\ ChunkLen \in Nat \ {0}
  /\ SockLen \in Nat \ {0}
  /\ MaxPkgs \in Nat

VARIABLES
  sent,        \* packets given to send_pkg
  unixBuf,     \* the bytes rtsp_bin has still to write
  writer,      \* rtsp_bin: in its event loop, or in unix_write_handle
  ready,       \* c->write->ready
  armed,       \* the loop will report that the socket has room
  cut,         \* history: a send was cut short since the last send_pkg
  wild,        \* rtpPkg was written past its end: nothing is known any more
  sock,        \* the bytes on their way
  readBuf,     \* the bytes dec_bin has read and not handled
  reader,      \* dec_bin: in its event loop, at recv, at the packets, in pkgProcess
  handled      \* the packets pkgProcess is done with

decoderVars == <<readBuf, reader, handled>>
vars == <<portVars, sent, unixBuf, writer, ready, armed, cut, wild, sock, decoderVars>>

Packet(n) == [i \in 1 .. PkgLen |-> (n - 1) * PkgLen + i]

Init ==
  /\ PortInit
  /\ sent = 0
  /\ unixBuf = << >>
  /\ writer = "loop"
  /\ ready = FALSE
  /\ armed = FALSE
  /\ cut = FALSE
  /\ wild = FALSE
  /\ sock = << >>
  /\ readBuf = << >>
  /\ reader = "loop"
  /\ handled = << >>

\* buf_consume.
Consumed(buf, n) == SubSeq(buf, n + 1, Len(buf))

-----------------------------------------------------------------------------
(* rtsp_bin.                                                               *)

\* Mutant of Rearmed: the event is not asked for.
RearmedNever == FALSE

\* send_pkg calls add_event for every packet.
Rearmed == TRUE

\* send_pkg, k times.
SendPkgs(k) ==
  /\ sent + k <= MaxPkgs
  /\ sent' = sent + k
  /\ unixBuf' = unixBuf \o [i \in 1 .. k * PkgLen |-> sent * PkgLen + i]
  /\ armed' = (armed \/ (k > 0 /\ Rearmed))
  /\ cut' = (cut /\ k = 0)
  /\ UNCHANGED <<writer, ready, sock, decoderVars>>

\* The RTSP clients send RTP packets and reports of lost cameras.
SendPkg ==
  /\ writer = "loop"
  /\ SendPkgs(1)
  /\ UNCHANGED portVars

\* The same with the data of a packet that is longer than rtpPkg->data: a
\* length comes from the camera (get_resp_len), and the copy does not ask.
SendTooLong ==
  /\ writer = "loop"
  /\ wild' = TRUE
  /\ UNCHANGED <<portVars, sent, unixBuf, writer, ready, armed, cut, sock, decoderVars>>

\* The client of the configuration port.
Ask ==
  /\ SendPackage
  /\ UNCHANGED <<sent, unixBuf, writer, ready, armed, cut, sock, decoderVars>>

\* For each package the decoder is told of the layout.
Configure ==
  /\ writer = "loop"
  /\ \E n \in 1 .. Len(port), k \in 0 .. MaxPkgs : ReadConfig(n, k) /\ SendPkgs(k)

WriteEvent ==
  /\ writer = "loop"
  /\ armed
  /\ Len(sock) < SockLen
  /\ writer' = "writing"
  /\ ready' = TRUE
  /\ armed' = FALSE
  /\ UNCHANGED <<portVars, sent, unixBuf, cut, sock, decoderVars>>

\* Bytes of one call to send.
Asked == IF Len(unixBuf) >= ChunkLen THEN ChunkLen ELSE Len(unixBuf)

\* Mutant of Unwritten: what was asked for is taken as written.
UnwrittenAsAsked(n) == Consumed(unixBuf, Asked)

Unwritten(n) == Consumed(unixBuf, n)

Write ==
  /\ writer = "writing"
  /\ ready /\ unixBuf # << >>
  /\ \E n \in 1 .. Asked :
       /\ Len(sock) + n <= SockLen
       /\ sock' = sock \o SubSeq(unixBuf, 1, n)
       /\ unixBuf' = Unwritten(n)
       /\ ready' = (n = Asked)
       /\ cut' = (cut \/ n # Asked)
  /\ UNCHANGED <<portVars, sent, writer, armed, decoderVars>>

\* send returns -1.
WriteRefused ==
  /\ writer = "writing"
  /\ ready /\ unixBuf # << >>
  /\ Len(sock) = SockLen
  /\ ready' = FALSE
  /\ cut' = TRUE
  /\ UNCHANGED <<portVars, sent, unixBuf, writer, armed, sock, decoderVars>>

WriteEnds ==
  /\ writer = "writing"
  /\ ~ready \/ unixBuf = << >>
  /\ writer' = "loop"
  /\ UNCHANGED <<portVars, sent, unixBuf, ready, armed, cut, sock, decoderVars>>

Writes == WriteEvent \/ Write \/ WriteRefused \/ WriteEnds

-----------------------------------------------------------------------------
(* dec_bin.                                                                *)

ReadEvent ==
  /\ reader = "loop"
  /\ sock # << >>
  /\ reader' = "recv"
  /\ UNCHANGED <<portVars, sent, unixBuf, writer, ready, armed, cut, sock, readBuf, handled>>

Recv ==
  /\ reader = "recv"
  /\ \E n \in 1 .. ChunkLen :
       /\ n <= Len(sock)
       /\ readBuf' = readBuf \o SubSeq(sock, 1, n)
       /\ sock' = Consumed(sock, n)
  /\ reader' = "packets"
  /\ UNCHANGED <<portVars, sent, unixBuf, writer, ready, armed, cut, handled>>

\* recv returns -1, and the loop reports again when there is more.
RecvNothing ==
  /\ reader = "recv"
  /\ sock = << >>
  /\ reader' = "loop"
  /\ UNCHANGED <<portVars, sent, unixBuf, writer, ready, armed, cut, sock, readBuf, handled>>

HasPacket == Len(readBuf) >= PkgLen

\* The packet at the head is given to pkgProcess, with whatever do_decode
\* waits for in it (module DecChannels).
Dispatch ==
  /\ reader = "packets"
  /\ HasPacket
  /\ reader' = "pkgProcess"
  /\ UNCHANGED <<portVars, sent, unixBuf, writer, ready, armed, cut, sock, readBuf, handled>>

\* pkgProcess returns, which it need not.
HandlePacket ==
  /\ reader = "pkgProcess"
  /\ handled' = Append(handled, SubSeq(readBuf, 1, PkgLen))
  /\ readBuf' = Consumed(readBuf, PkgLen)
  /\ reader' = "packets"
  /\ UNCHANGED <<portVars, sent, unixBuf, writer, ready, armed, cut, sock>>

\* The socket is read again while it is ready, which it may no longer be.
PacketsEnd ==
  /\ reader = "packets"
  /\ ~HasPacket
  /\ reader' \in {"recv", "loop"}
  /\ UNCHANGED <<portVars, sent, unixBuf, writer, ready, armed, cut, sock, readBuf, handled>>

Reads == ReadEvent \/ Recv \/ RecvNothing \/ Dispatch \/ PacketsEnd

-----------------------------------------------------------------------------
Known == ~wild /\ UNCHANGED wild

Next ==
  \/ Known /\ (SendPkg \/ Ask \/ Configure \/ Writes \/ Reads \/ HandlePacket)
  \/ ~wild /\ SendTooLong

Spec == Init /\ [][Next]_vars

\* Both event loops go round.  That pkgProcess returns is not assumed.
Fairness == WF_vars(Known /\ Writes) /\ WF_vars(Known /\ Reads)

FairSpec == Spec /\ Fairness

-----------------------------------------------------------------------------
Types ==
  /\ sent \in 0 .. MaxPkgs
  /\ unixBuf \in Seq(Nat)
  /\ writer \in {"loop", "writing"}
  /\ ready \in BOOLEAN
  /\ armed \in BOOLEAN
  /\ cut \in BOOLEAN
  /\ sock \in Seq(Nat) /\ Len(sock) <= SockLen
  /\ readBuf \in Seq(Nat) /\ Len(readBuf) < PkgLen + ChunkLen
  /\ reader \in {"loop", "recv", "packets", "pkgProcess"}
  /\ handled \in Seq(Seq(Nat))

\* What is left of the bytes read, wherever the reader is.
LittleLeft ==
  /\ reader \in {"loop", "recv"} => Len(readBuf) < PkgLen
  /\ reader = "pkgProcess" => HasPacket

\* Types, and how much dec_bin ever keeps of what it has read.
TypeOK == Types /\ LittleLeft /\ wild \in BOOLEAN

Queue == INSTANCE PkgQueue

(* Packets are handled whole, each once and in the order in which they     *)
(* were sent, however the socket splits and joins what is written.  The    *)
(* reader keeps no mark by which it could find the next packet again       *)
(* (decoder/main.c:65-71 only reports a wrong head).                       *)
ImplementsPkgQueue == Queue!Spec

(* A packet that is sent is handled, unless a send was cut short after it: *)
(* unix_write_handle does not ask for another event (main.c:113-135), and  *)
(* what it leaves waits for the next packet (shmring.c:22).  The reader    *)
(* leaves nothing behind (decoder/main.c:65-77), unless it never returns   *)
(* from pkgProcess (run channel_h265_starves).                             *)
EveryPkgArrives ==
  \/ <>[](reader = "pkgProcess")
  \/ \A n \in 1 .. MaxPkgs : sent >= n ~> (Len(handled) >= n \/ cut \/ wild)
=============================================================================
