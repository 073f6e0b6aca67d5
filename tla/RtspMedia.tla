----------------------------- MODULE RtspMedia ------------------------------
(***************************************************************************)
(* The RTSP process: the clients of RtspClient, the table rc[] of the      *)
(* channels (rtsp/media.c) and the configuration messages that change it   *)
(* (server_read_handle in rtsp/main.c).  main starts one client for        *)
(* channel 0 itself and does not enter it in the table.                    *)
(***************************************************************************)
EXTENDS RtspClient

CONSTANTS
  Startup,     \* rtsp[0] of main
  Home,        \* its camera
  Subwins,     \* the layouts a peer asks for
  Empty,       \* what it may ask for without an address or without a URL
  Offers,      \* what it asks for in each channel
  Matches,     \* what has a camera's address and the beginning of its URL
  GetPool,     \* the pools get_pool may give, of those that are free
  Null         \* no client in the table

ASSUME MediaAssumption ==
  /\ Startup \in Clients
  /\ Home \in Cams
  /\ Subwins \subseteq Nat
  /\ Empty \cap Cams = {}
  /\ Offers \in [Channels -> SUBSET (Cams \cup Empty)]
  /\ Matches \in [Cams -> SUBSET (Cams \cup Empty)]
  /\ GetPool \in [SUBSET Clients -> SUBSET Clients]
  /\ \A free \in SUBSET Clients : GetPool[free] \subseteq free
  /\ Null \notin Clients

VARIABLES
  rc,            \* rc[chn]
  currentSunwin  \* the layout in use

table == <<rc, currentSunwin>>
vars == <<client, camera, source, misuse, rc, currentSunwin>>

Init ==
  /\ \E outcome \in Outcomes(Home) :
       /\ client = [i \in Clients |-> IF i = Startup THEN New(Home, 0, outcome) ELSE Blank]
       /\ camera = [i \in Clients |-> IF i = Startup THEN LinkOf(outcome) ELSE NoLink]
  /\ source = [c \in Channels |-> {}]
  /\ misuse = FALSE
  /\ rc = [c \in Channels |-> Null]
  /\ currentSunwin = 4

-----------------------------------------------------------------------------
(* One configuration message.  A peer sends one for each channel of its    *)
(* layout.  An empty address or URL closes the channel, unless the client  *)
(* has that address: an empty URL is the beginning of every other.         *)

InTable(c) == rc[c] # Null

\* Mutant of ClosedByLayout: the windows of the new layout instead of the old.
ClosedByNewLayout(subwin) ==
  IF subwin = currentSunwin THEN {} ELSE { c \in Channels : c < subwin /\ InTable(c) }

\* free_old_subwin: the channels it closes when the layout changes.
ClosedByLayout(subwin) ==
  IF subwin = currentSunwin THEN {} ELSE { c \in Channels : c < currentSunwin /\ InTable(c) }

\* set_cam_chn: does the channel keep its client?
Keeps(chn, cam, subwin) ==
  /\ chn \notin ClosedByLayout(subwin)
  /\ InTable(chn)
  /\ cam \in Matches[client[rc[chn]].cam]

\* Mutant of Closes: a replaced client is not freed.
ClosesOldOnly(chn, cam, subwin) == ClosedByLayout(subwin)

\* The channels whose clients the message frees.
Closes(chn, cam, subwin) ==
  ClosedByLayout(subwin) \cup
  { c \in {chn} : InTable(c) /\ ~Keeps(chn, cam, subwin) }

\* Mutant of Announced: a new layout resets the configured channel only.
AnnouncedAlone(src, chn, cam, subwin) ==
  [c \in Channels |-> IF c = chn /\ ~Keeps(chn, cam, subwin) THEN {} ELSE src[c]]

\* Command 88 resets every window of an old layout, or the channel if it is new.
Announced(src, chn, cam, subwin) ==
  LET reset == IF subwin = currentSunwin
               THEN { c \in {chn} : ~Keeps(chn, cam, subwin) }
               ELSE { c \in Channels : c < currentSunwin }
  IN  [c \in Channels |-> IF c \in reset THEN {} ELSE src[c]]

Config(chn, cam, subwin) ==
  LET closed == Closes(chn, cam, subwin)
      freed == { rc[c] : c \in closed }
      free == { i \in Clients : i \in freed \/ ~Used(i) }
      opens == cam \notin Empty /\ ~Keeps(chn, cam, subwin)
      left == [c \in Channels |-> GivenUp(source[c], freed)]
  IN  /\ ~misuse
      /\ \A i \in Clients : ~Due(i)
      /\ chn < subwin
      /\ \E new \in (IF opens THEN GetPool[free] ELSE {Null}),
            outcome \in (IF opens THEN Outcomes(cam) ELSE {"again"}) :
           /\ client' = [i \in Clients |->
                IF i = new THEN New(cam, chn, outcome) ELSE IF i \in freed THEN Blank ELSE client[i]]
           /\ camera' = [i \in Clients |->
                IF i = new THEN LinkOf(outcome) ELSE IF i \in freed THEN NoLink ELSE camera[i]]
           /\ rc' = [c \in Channels |->
                IF c = chn /\ ~Keeps(chn, cam, subwin) THEN new
                ELSE IF c \in closed THEN Null ELSE rc[c]]
      /\ source' = Announced(left, chn, cam, subwin)
      /\ currentSunwin' = subwin
      /\ UNCHANGED misuse

Next ==
  \/ \E i \in Clients : (Handlers(i) \/ Peer(i)) /\ UNCHANGED table
  \/ \E chn \in Channels, subwin \in Subwins :
       \E cam \in Offers[chn] : Config(chn, cam, subwin)

Spec == Init /\ [][Next]_vars

\* The loop of main goes round: as long as there is something to do for a client,
\* one of its events is taken up or one of its timers expires.  A read timer is
\* only known to expire when the camera has fallen silent.
Serve(i) ==
  \/ ConnectEvent(i) \/ ConnectTimeout(i) \/ ReadEnd(i)
  \/ camera[i].link # "up" /\ ReadTimeout(i)

Fairness == \A i \in Clients : WF_vars(Serve(i) /\ UNCHANGED table)

FairSpec == Spec /\ Fairness

-----------------------------------------------------------------------------
SessionType == [Fields -> {"null", "own", "old"}]

ClientType ==
  [ cam : Cams \cup {NoCam}, chn : Channels,
    write : {"none", "connect", "rewrite"}, wtimer : {"off", "now", "set"},
    rtimer : BOOLEAN, wevent : BOOLEAN, revent : BOOLEAN,
    next : Requests \cup {"none"}, success : BOOLEAN, sess : SessionType ]

CameraType ==
  [ link : {"none", "dialing", "refused", "up", "closed", "reset", "gone"},
    asked : Requests \cup {"none"}, stale : BOOLEAN, playing : BOOLEAN ]

\* Types of the variables.
TypeOK ==
  /\ client \in [Clients -> ClientType]
  /\ camera \in [Clients -> CameraType]
  /\ source \in [Channels -> SUBSET (Clients \cup {Gone})]
  /\ misuse \in BOOLEAN
  /\ rc \in [Channels -> Clients \cup {Null}]
  /\ currentSunwin \in Subwins \cup {4}

\* No request is made of anything learned on an earlier connection to the
\* camera: password digest, track and session are those of this dialogue
\* (the session is forgotten when a stream is lost, rtsp.c:187-211, 230-252).
RequestsUseThisDialogue == \A i \in Clients : ~camera[i].stale

\* Whenever a connection that has given the decoder video is given up, the
\* decoder has been told to reset the channel (89), or the new layout has
\* done so (88): since its last reset it has had no video of a connection that
\* is gone, nor of two clients, unless one of them is the client main started,
\* which sends to channel 0 beside the client of the table (main.c:203).
DecoderIsTold ==
  ~misuse =>
    \A c \in Channels :
      /\ Gone \notin source[c]
      /\ \A i, j \in source[c] : i = j \/ (c = 0 /\ Startup \in {i, j})

\* Before PLAY nothing is timed, so a camera that refuses the password is not
\* asked again and again (comment at rtsp.c:220).
RefusedIsLeftAlone ==
  \A i \in Clients :
    Used(i) /\ client[i].write = "rewrite" /\ ~client[i].success =>
      ~client[i].rtimer /\ client[i].wtimer = "off"

\* A client that is still connecting, and has a socket, has its write timer.
ConnectingIsTimed ==
  \A i \in Clients :
    Used(i) /\ client[i].write = "connect" /\ camera[i].link # "none" =>
      client[i].wtimer # "off"

\* The table holds live clients of its channels, each once, and no other
\* client is alive but the one main started.
TableOwnsClients ==
  ~misuse =>
    /\ \A c \in Channels : InTable(c) => Used(rc[c]) /\ client[rc[c]].chn = c
    /\ \A i \in Clients : Used(i) => i = Startup \/ \E c \in Channels : rc[c] = i

\* After a change to fewer windows no client of a window that is no longer
\* shown is left in the table (comment at media.c:46).
OldLayoutIsClosed == \A c \in Channels : InTable(c) => c < currentSunwin

Silent(i) == camera[i].link \in {"refused", "closed", "reset", "gone"}
\* The read timer runs, or the write timer does and connecting is over, or the
\* loss is still to be reported to a handler.
Watched(i) ==
  \/ client[i].rtimer
  \/ client[i].wtimer # "off" /\ ~client[i].wevent
  \/ camera[i].link \in {"refused", "closed"} /\ client[i].write # "none"
TriesAgain(i) == camera[i].link \in {"dialing", "up"}
\* The client is no more, or the operating system refused it a new socket.
Ended(i) == ~Used(i) \/ camera[i].link = "none" \/ misuse

\* A refused connection, a stream that stops, and a camera that closes the
\* connection at any time are followed by another try.
LossIsRetried ==
  \A i \in Clients : (Used(i) /\ Silent(i) /\ Watched(i)) ~> (TriesAgain(i) \/ Ended(i))

\* Whatever was not torn down on purpose is connected again (comment at
\* rtsp.c:227): the same without asking whether a timer runs.
EveryLossIsRetried ==
  \A i \in Clients : (Used(i) /\ Silent(i)) ~> (TriesAgain(i) \/ Ended(i))
=============================================================================
