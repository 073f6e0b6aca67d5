----------------------------- MODULE RtspStream -----------------------------
(***************************************************************************)
(* How rtsp_read_handle cuts the bytes of a connection into packets and    *)
(* answers (rtsp/rtsp.c), however recv delivers them, and looks for the    *)
(* next one when something else is among them.  What a packet carries may  *)
(* look like the beginning of another.                                     *)
(*                                                                         *)
(* A byte is a number.  The empty line that ends the head of an answer is  *)
(* one byte here, EndOfHead, and so is a Content-Length line, BodyOf(n).   *)
(* The buffer is of the connet library (external): it keeps the bytes not  *)
(* consumed; consuming more than it has is undefined.  What the answers    *)
(* say is in RtspClient.                                                   *)
(***************************************************************************)
EXTENDS Integers, Sequences, SequencesExt, FiniteSetsExt

CONSTANTS
  Pieces,       \* the packets and the answers the camera may send
  Noises,       \* what it may send besides
  MaxSent,      \* bound on pieces sent
  MaxNoise,     \* bound on noises sent
  Behind        \* the byte behind the last one of the buffer

Dollar == 36
RTSP == <<82, 84, 83, 80>>
Video == 96                             \* the payload type of H.264 and H.265
IsRtp(m) == IsPrefix(<<Dollar, 0>>, m)  \* interleaved, channel 0
EndOfHead == 13
BodyOf(n) == 1000 + n

\* A packet is as long as its head says; an answer ends with its head, or with
\* as much body as the one line in its head says.
IsPacket(m) == Len(m) >= 4 /\ m[1] = Dollar /\ Len(m) = 256 * m[3] + m[4] + 4

IsAnswer(m) ==
  \E end \in 5 .. Len(m) :
    /\ IsPrefix(RTSP, m) /\ m[end] = EndOfHead
    /\ \A i \in 1 .. end - 1 : m[i] # EndOfHead /\ (m[i] > 1000 => m[i] = BodyOf(Len(m) - end))
    /\ end < Len(m) => \E i \in 1 .. end - 1 : m[i] = BodyOf(Len(m) - end)

ASSUME StreamAssumption ==
  /\ {MaxSent, MaxNoise, Behind} \subseteq Nat
  /\ Pieces \subseteq Seq(Nat) /\ \A m \in Pieces : IsPacket(m) \/ IsAnswer(m)
  /\ Noises \subseteq Seq(Nat)

\* From its first-th byte on, s has none that a piece begins with.
Signs == {Dollar, RTSP[1]}
Plain(s, first) == \A i \in first .. Len(s) : s[i] \notin Signs

VARIABLES
  wire,      \* sent and not read yet
  buf,       \* c->readBuf
  sent,      \* history: the pieces sent
  noises,    \* history: how many noises were sent
  plain,     \* history: nothing sent looks like a piece but where one begins
  heads,     \* history: where in buf and wire video packets begin
  handled,   \* history: what was taken for a packet or an answer
  missed,    \* history: one of the heads was dropped, both its bytes read
  overdrawn  \* undefined: more was consumed than there was

streamVars == <<wire, buf, sent, noises, plain, heads, handled, missed, overdrawn>>

StreamInit ==
  /\ wire = << >> /\ buf = << >>
  /\ sent = << >> /\ noises = 0 /\ plain = TRUE
  /\ heads = {} /\ handled = << >>
  /\ missed = FALSE /\ overdrawn = FALSE

SendPiece(m) ==
  /\ Len(sent) < MaxSent
  /\ wire' = wire \o m
  /\ sent' = Append(sent, m)
  /\ plain' = (plain /\ Plain(m, 2))
  /\ heads' = heads \cup {h \in {Len(buf \o wire) + 1} : IsRtp(m)}
  /\ UNCHANGED <<buf, noises, handled, missed, overdrawn>>

SendNoise(n) ==
  /\ noises < MaxNoise
  /\ wire' = wire \o n
  /\ noises' = noises + 1
  /\ plain' = (plain /\ Plain(n, 1))
  /\ UNCHANGED <<buf, sent, heads, handled, missed, overdrawn>>

-----------------------------------------------------------------------------
Byte(data, i) == IF i <= Len(data) THEN data[i] ELSE Behind

\* The place of the first byte of text in data, or 0 (str_nstr).
Place(data, text) ==
  LET at == {i \in 1 .. Len(data) - Len(text) + 1 : SubSeq(data, i, i + Len(text) - 1) = text}
  IN IF at = {} THEN 0 ELSE Min(at)

Verdict(type, len) == [type |-> type, len |-> len]

\* Mutant of PacketLen: the head of the packet is not counted.
PacketLenShort(data) == 256 * data[3] + data[4]

PacketLen(data) == 256 * data[3] + data[4] + 4

\* The answer at the start of the buffer: its head, and as much as it says its
\* body is, whether that has been read or not.
TextVerdict(data) ==
  LET end == Place(data, <<EndOfHead>>)
      lengths == {data[i] - 1000 : i \in {j \in 1 .. end : data[j] > 1000}}
  IN IF end = 0 THEN Verdict("MIN", 0)
     ELSE Verdict("TXT", end + (IF lengths = {} THEN 0 ELSE Min(lengths)))

\* get_resp_len: what the buffer begins with, and how long it is.
GetRespLen(data) ==
  IF Len(data) < 4 THEN Verdict("MIN", 0)
  ELSE IF data[1] = Dollar
       THEN IF Len(data) < PacketLen(data) THEN Verdict("MIN", 0)
            ELSE Verdict(IF Byte(data, 6) % 128 = Video THEN "BIN" ELSE "NO_H264", PacketLen(data))
       ELSE IF IsPrefix(RTSP, data) THEN TextVerdict(data) ELSE Verdict("BAD", 0)

\* Mutant of Skip: the sign is found, and dropped with what comes before it.
SkipSign(data) ==
  LET packet == Place(data, <<Dollar, 0>>)
  IN IF packet # 0 THEN packet ELSE Len(data)

\* search_rtsp_head: what to drop of data that begins with neither.
Skip(data) ==
  LET packet == Place(data, <<Dollar, 0>>)
      text == Place(data, RTSP)
  IN IF packet # 0 THEN packet - 1 ELSE IF text # 0 THEN text - 1 ELSE Len(data)

Unread(data, n) == SubSeq(data, n + 1, Len(data))

\* One turn of the loop: s holds the buffer and what was handled.
CutOne(s) ==
  LET v == GetRespLen(s.buf)
  IN IF v.len = 0 THEN s
     ELSE IF v.len > Len(s.buf) THEN [buf |-> << >>, handled |-> s.handled, overdrawn |-> TRUE]
     ELSE [buf |-> Unread(s.buf, v.len),
           handled |-> Append(s.handled, SubSeq(s.buf, 1, v.len)),
           overdrawn |-> s.overdrawn]

\* The loop, which ends, for every turn consumes something.
Cut(data) ==
  LET loop[n \in 0 .. Len(data)] ==
        IF n = 0 THEN [buf |-> data, handled |-> handled, overdrawn |-> FALSE] ELSE CutOne(loop[n - 1])
  IN loop[Len(data)]

\* rtsp_read_handle when recv returns n bytes.
ReadBytes(n) ==
  LET data == buf \o SubSeq(wire, 1, n)
      end == Cut(data)
      bad == GetRespLen(end.buf).type = "BAD"
      begins == Len(data) - Len(end.buf)
      gone == Len(data) - Len(buf')
  IN /\ ~overdrawn /\ n <= 4096
     /\ buf' = IF bad THEN Unread(end.buf, Skip(end.buf)) ELSE end.buf
     /\ handled' = end.handled
     /\ overdrawn' = end.overdrawn
     /\ heads' = {h - gone : h \in {i \in heads : i > gone}}
     /\ missed' = (missed \/ \E h \in heads : h # Len(data) /\ h \in begins + 1 .. gone)
     /\ wire' = Unread(wire, n)
     /\ UNCHANGED <<sent, noises, plain>>

StreamNext ==
  \/ \E m \in Pieces : SendPiece(m)
  \/ \E n \in Noises : SendNoise(n)
  \/ \E n \in 1 .. Len(wire) : ReadBytes(n)

StreamSpec == StreamInit /\ [][StreamNext]_streamVars
-----------------------------------------------------------------------------
IsSubSeq(s, t) ==
  \E g \in [1 .. Len(s) -> 1 .. Len(t)] :
    /\ \A i, j \in 1 .. Len(s) : i < j => g[i] < g[j]
    /\ \A i \in 1 .. Len(s) : s[i] = t[g[i]]

\* Wherever recv cuts the stream, and whatever the packets carry, what is
\* handled is what was sent, whole and in order, and nothing is held back; with
\* something else in between, whole pieces in order, as long as nothing looks
\* like a piece that is none (rtsp.c:223-305).  An answer whose body has not
\* been read when its head is handled is excepted.
CutsWholeMessages ==
  ~overdrawn =>
    /\ noises = 0 => IsPrefix(handled, sent) /\ (wire = << >> => handled = sent)
    /\ plain => IsSubSeq(handled, sent)

\* Whatever was read before it, and whatever it and the others carry, no video
\* packet is dropped in search of the next one, unless the search ends between
\* its first two bytes (577).  Otherwise it may be lost only within what a wrong
\* head announces (rtsp.c:301-305, 569-585).
NoVideoIsDropped == ~missed
=============================================================================
