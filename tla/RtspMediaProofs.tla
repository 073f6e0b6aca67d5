-------------------------- MODULE RtspMediaProofs ---------------------------
(***************************************************************************)
(* Safety of RtspMedia for every number of clients, channels and cameras.  *)
(* The invariant has a part about one client and its camera (Sound) and a  *)
(* part about the table and the decoder (Owned).                           *)
(***************************************************************************)
EXTENDS RtspMedia, TLAPS

-----------------------------------------------------------------------------
(* The invariant.                                                          *)

\* A client and the other end of its connection.  A client that is connecting
\* has forgotten the session; only one with nothing to forget is closed, so no
\* field is ever old.  While the read event is registered, a client that is
\* connecting again is about to do so, or its camera will not be heard.
Sound(cl, cm) ==
  /\ cl \in ClientType
  /\ cm \in CameraType
  /\ \A f \in Fields : cl.sess[f] # "old"
  /\ ~cm.stale
  /\ cl.write = "connect" => cl.sess = NoSession
  /\ cl.write = "none" =>
       cl.wtimer = "off" /\ ~cl.rtimer /\ ~cl.revent /\ cl.sess = NoSession
  /\ cl.wevent => cl.write = "connect" /\ ~cl.revent /\ ~cl.rtimer
  /\ cl.write = "rewrite" => cl.wtimer = "off" /\ (~cl.success => ~cl.rtimer)
  /\ cl.write = "connect" /\ cm.link # "none" => cl.wtimer # "off"
  /\ cl.write = "connect" /\ cl.revent /\ cl.wtimer # "now" => cm.link = "gone"

\* The table, the client beside it, and whose video the decoder has.
Heeded(c, i) == i \in Clients /\ Used(i) /\ client[i].chn = c

Owned ==
  /\ \A c \in Channels : InTable(c) => Used(rc[c]) /\ client[rc[c]].chn = c
  /\ \A i \in Clients : Used(i) => i = Startup \/ \E c \in Channels : rc[c] = i
  /\ Used(Startup) /\ client[Startup].chn = 0
  /\ \A c \in Channels : rc[c] # Startup
  /\ \A c \in Channels : \A i \in source[c] : Heeded(c, i)

IInv ==
  /\ TypeOK
  /\ \A i \in Clients : Sound(client[i], camera[i])
  /\ ~misuse => Owned
  /\ OldLayoutIsClosed

-----------------------------------------------------------------------------
(* The records the handlers leave.                                         *)

LEMMA NoSessionType ==
  /\ NoSession \in SessionType
  /\ \A f \in Fields : NoSession[f] = "null"
  /\ Aged(NoSession) = NoSession
BY DEF NoSession, SessionType, Aged

\* A pool that is not in use.
LEMMA BlankIsSound ==
  Sound(Blank, NoLink) /\ Blank.cam = NoCam
BY NoSessionType, ClientAssumption
   DEF Sound, Blank, NoLink, ClientType, CameraType, Requests

\* init_rtsp_clients, whatever connect_peer came to.
LEMMA NewIsSound ==
  ASSUME NEW cam \in Cams, NEW chn \in Channels, NEW outcome \in {"again", "ok", "failed"}
  PROVE  /\ Sound(New(cam, chn, outcome), LinkOf(outcome))
         /\ New(cam, chn, outcome).cam = cam
         /\ New(cam, chn, outcome).chn = chn
<1>1. LinkOf(outcome) \in CameraType /\ ~LinkOf(outcome).stale
  BY DEF LinkOf, Dialled, Met, NoLink, CameraType
<1>2. CASE outcome = "again"
  BY <1>1, <1>2, NoSessionType, ClientAssumption
     DEF Sound, New, Blank, ClientType, Requests
<1>3. CASE outcome # "again"
  BY <1>1, <1>3, NoSessionType, ClientAssumption
     DEF Sound, New, Blank, ClientType, Requests
<1> QED
  BY <1>2, <1>3

LEMMA OutcomesType ==
  ASSUME NEW cam
  PROVE  Outcomes(cam) \subseteq {"again", "ok", "failed"}
BY DEF Outcomes

\* generate_auth makes the digest of what the client knows now.
LEMMA AuthorisedType ==
  ASSUME NEW sess \in SessionType, \A f \in Fields : sess[f] # "old"
  PROVE  /\ Authorised(sess) \in SessionType
         /\ \A f \in Fields : Authorised(sess)[f] # "old"
BY DEF Authorised, SessionType, Fields

\* A connected client: between the handler's first lines and its request.
Speaking(cl) ==
  /\ cl \in ClientType
  /\ \A f \in Fields : cl.sess[f] # "old"
  /\ cl.write = "rewrite"
  /\ cl.wtimer = "off"
  /\ ~cl.wevent
  /\ ~cl.success => ~cl.rtimer

LEMMA UsesAreFields ==
  \A request \in Requests : Uses[request] \subseteq Fields /\ Then[request] \in Requests \cup {"none"}
BY DEF Uses, Then, Requests, Fields

\* Any of the four requests leaves a sound client, and is made of fields of
\* this connection.
LEMMA WrittenIsSound ==
  ASSUME NEW cl, Speaking(cl), NEW cm \in CameraType, NEW request \in Requests
  PROVE  /\ Sound(Written(cl, request), Asked(cm, Written(cl, request), request))
         /\ Written(cl, request).cam = cl.cam
         /\ Written(cl, request).chn = cl.chn
<1> DEFINE sess == IF request = "SETUP" THEN Authorised(cl.sess) ELSE cl.sess
           new == Written(cl, request)
<1>1. cl.sess \in SessionType
  BY DEF Speaking, ClientType
<1>2. sess \in SessionType /\ \A f \in Fields : sess[f] # "old"
  BY <1>1, AuthorisedType DEF Speaking
<1>3. new = [cl EXCEPT !.sess = sess, !.next = Then[request],
                       !.success = IF request = "PLAY" THEN TRUE ELSE @]
  BY DEF Written
<1>4. /\ new \in ClientType
      /\ new.sess = sess /\ new.cam = cl.cam /\ new.chn = cl.chn
      /\ new.write = cl.write /\ new.wtimer = cl.wtimer
      /\ new.wevent = cl.wevent /\ new.rtimer = cl.rtimer
      /\ cl.success => new.success
  <2> HIDE DEF sess, new
  <2> QED
    BY <1>2, <1>3, UsesAreFields DEF Speaking, ClientType
<1>5. /\ Asked(cm, new, request) \in CameraType
      /\ ~Asked(cm, new, request).stale
  <2>1. ~(\E f \in Uses[request] : new.sess[f] = "old")
    BY <1>2, <1>4, UsesAreFields
  <2> HIDE DEF new
  <2> QED
    BY <2>1 DEF Asked, CameraType
<1> HIDE DEF sess, new
<1>6. Sound(new, Asked(cm, new, request))
  BY <1>2, <1>4, <1>5 DEF Sound, Speaking
<1> QED
  BY <1>4, <1>6 DEF new

\* The end of rtsp_connect_handler, after a connection that is made late, or at once.
LEMMA ConnectedSpeaks ==
  ASSUME NEW cl, NEW cm, Sound(cl, cm), cl.write = "connect"
  PROVE  /\ cl.wevent => Speaking(Connected([cl EXCEPT !.wevent = FALSE]))
         /\ Connected([cl EXCEPT !.wevent = FALSE]).cam = cl.cam
         /\ Connected([cl EXCEPT !.wevent = FALSE]).chn = cl.chn
         /\ Speaking(Connected(Closed(cl)))
         /\ Connected(Closed(cl)).cam = cl.cam
         /\ Connected(Closed(cl)).chn = cl.chn
<1>1. cl \in ClientType /\ cl.sess = NoSession
  BY DEF Sound
<1>2. cl.wevent => Speaking(Connected([cl EXCEPT !.wevent = FALSE]))
  BY <1>1 DEF Sound, Speaking, Connected, ClientType
<1>3. Closed(cl) = [cl EXCEPT !.rtimer = FALSE, !.wtimer = "off", !.revent = FALSE,
                              !.wevent = FALSE]
  BY <1>1, NoSessionType DEF Closed, ClientType
<1>4. Speaking(Connected(Closed(cl)))
  BY <1>1, <1>3, NoSessionType DEF Speaking, Connected, ClientType
<1> QED
  BY <1>1, <1>2, <1>3, <1>4 DEF Connected, ClientType

\* rtsp_reconnect_peer, with a new connection on its way or without a socket.
LEMMA RedialledIsSound ==
  ASSUME NEW cl, NEW cm, Sound(cl, cm), cl.write = "connect"
  PROVE  /\ Sound(Redialled(cl), Dialled) /\ Sound(Closed(cl), NoLink)
         /\ Redialled(cl).cam = cl.cam /\ Redialled(cl).chn = cl.chn
         /\ Closed(cl).cam = cl.cam /\ Closed(cl).chn = cl.chn
<1>1. cl \in ClientType /\ cl.sess = NoSession
  BY DEF Sound
<1>2. Closed(cl) = [cl EXCEPT !.rtimer = FALSE, !.wtimer = "off", !.revent = FALSE,
                              !.wevent = FALSE]
  BY <1>1, NoSessionType DEF Closed, ClientType
<1>3. NoLink \in CameraType /\ Dialled \in CameraType /\ ~NoLink.stale /\ ~Dialled.stale
      /\ NoLink.link = "none" /\ Dialled.link = "dialing"
  BY DEF NoLink, Dialled, CameraType
<1>4. Sound(Closed(cl), NoLink)
  BY <1>1, <1>2, <1>3, NoSessionType DEF Sound, ClientType
<1>5. Sound(Redialled(cl), Dialled)
  BY <1>1, <1>2, <1>3, NoSessionType DEF Sound, Redialled, ClientType
<1> QED
  BY <1>1, <1>2, <1>4, <1>5 DEF Redialled, ClientType

\* A lost stream: reconnecting at once, or later when the camera is gone.
LEMMA LostIsSound ==
  ASSUME NEW cl \in ClientType, NEW cm \in CameraType, ~cm.stale, cl.write # "none",
         NEW delay \in {"now", "set"}, ~cl.wevent,
         delay = "now" \/ cm.link = "gone"
  PROVE  /\ Sound(Lost(cl, delay), cm)
         /\ Lost(cl, delay).cam = cl.cam /\ Lost(cl, delay).chn = cl.chn
BY NoSessionType DEF Sound, Lost, ClientType

\* Reads of a client in the dialogue or with its stream.
LEMMA RearmedSpeaks ==
  ASSUME NEW cl, NEW cm, Sound(cl, cm), cl.write = "rewrite"
  PROVE  /\ Speaking(Rearmed(cl))
         /\ Rearmed(cl).cam = cl.cam /\ Rearmed(cl).chn = cl.chn
<1>1. cl \in ClientType /\ cl.rtimer \in BOOLEAN /\ cl.success \in BOOLEAN
  BY DEF Sound, ClientType
<1> QED
  BY <1>1 DEF Sound, Speaking, Rearmed, ClientType

\* A client that speaks, and one that is not asked anything, are sound.
LEMMA SpeakingIsSound ==
  ASSUME NEW cl, Speaking(cl), NEW cm \in CameraType, ~cm.stale
  PROVE  Sound(cl, cm)
BY DEF Sound, Speaking

\* do_response adds what this connection says.
LEMMA LearnedSpeaks ==
  ASSUME NEW cl, Speaking(cl), NEW request
  PROVE  /\ Speaking(Learned(cl, request))
         /\ Learned(cl, request).cam = cl.cam /\ Learned(cl, request).chn = cl.chn
<1>1. cl \in ClientType /\ cl.sess \in SessionType
  BY DEF Speaking, ClientType
<1> DEFINE control == IF request = "DESCRIBE" THEN "own" ELSE cl.sess["control"]
           session == IF request \in {"SETUP", "PLAY"} /\ cl.sess["session"] = "null"
                      THEN "own" ELSE cl.sess["session"]
           sess == [cl.sess EXCEPT !["control"] = control, !["session"] = session]
<1>2. Learned(cl, request) = [cl EXCEPT !.sess = sess]
  BY <1>1 DEF Learned, ClientType, SessionType, Fields
<1>3. sess \in SessionType /\ \A f \in Fields : sess[f] # "old"
  BY <1>1 DEF Speaking, SessionType, Fields
<1> HIDE DEF sess
<1> QED
  BY <1>1, <1>2, <1>3 DEF Speaking, ClientType

-----------------------------------------------------------------------------
(* Every step of a client leaves it sound.                                 *)

Moved(i) ==
  \E x, y :
    /\ client' = [client EXCEPT ![i] = x]
    /\ camera' = [camera EXCEPT ![i] = y]
    /\ Sound(x, y)
    /\ misuse' \/ (x.cam = client[i].cam /\ x.chn = client[i].chn)

\* What a step of client i may do to the history of the video.
Heard(i) ==
  \A c \in Channels :
    \/ source'[c] = {}
    \/ source'[c] = source[c]
    \/ source'[c] = source[c] \cup {i} /\ c = client[i].chn

LEMMA MovedBy ==
  ASSUME NEW i, NEW x, NEW y,
         client' = [client EXCEPT ![i] = x], camera' = [camera EXCEPT ![i] = y],
         Sound(x, y), misuse' \/ (x.cam = client[i].cam /\ x.chn = client[i].chn)
  PROVE  Moved(i)
BY DEF Moved

Facts(i) ==
  /\ client \in [Clients -> ClientType]
  /\ camera \in [Clients -> CameraType]
  /\ source \in [Channels -> SUBSET (Clients \cup {Gone})]
  /\ i \in Clients
  /\ Sound(client[i], camera[i])

LEMMA TypesOfOne ==
  ASSUME NEW i, Facts(i)
  PROVE  /\ client[i] \in ClientType /\ camera[i] \in CameraType
         /\ client[i].chn \in Channels
BY DEF Facts, ClientType

LEMMA SendMoves ==
  ASSUME NEW i, Facts(i), NEW cl, Speaking(cl), NEW request \in Requests,
         cl.cam = client[i].cam, cl.chn = client[i].chn, Send(i, cl, request)
  PROVE  Moved(i)
<1> DEFINE x == Written(cl, request)
           y == Asked(camera[i], x, request)
<1>1. Sound(x, y) /\ x.cam = cl.cam /\ x.chn = cl.chn
  BY WrittenIsSound, TypesOfOne
<1>2. client' = [client EXCEPT ![i] = x] /\ camera' = [camera EXCEPT ![i] = y]
  BY DEF Send
<1> HIDE DEF x, y
<1> QED
  BY <1>1, <1>2 DEF Moved

LEMMA ConnectEventMoves ==
  ASSUME NEW i, Facts(i), ConnectEvent(i)
  PROVE  Moved(i) /\ Heard(i)
<1> DEFINE cl == [client[i] EXCEPT !.wevent = FALSE]
<1>1. /\ Sound(client[i], camera[i]) /\ client[i].wevent /\ client[i].write = "connect"
      /\ client[i] \in ClientType /\ camera[i] \in CameraType
  BY TypesOfOne DEF Facts, ConnectEvent, Sound
<1>2. cl \in ClientType /\ cl.cam = client[i].cam /\ cl.chn = client[i].chn
  BY <1>1 DEF ClientType
<1>3. CASE camera[i].link \in {"refused", "reset"}
  <2>1. client' = [client EXCEPT ![i] = cl] /\ camera' = camera
        /\ source' = Told(source, cl.chn)
    BY <1>3 DEF ConnectEvent
  <2>2. camera' = [camera EXCEPT ![i] = camera[i]]
    BY <2>1 DEF Facts
  <2>3. Sound(cl, camera[i])
    BY <1>1 DEF Sound, ClientType
  <2> HIDE DEF cl
  <2> QED
    BY <1>2, <2>1, <2>2, <2>3, TypesOfOne DEF Moved, Heard, Told, Facts
<1>4. CASE camera[i].link \notin {"refused", "reset"}
  <2>1. Send(i, Connected(cl), "OPTIONS") /\ source' = source
    BY <1>4 DEF ConnectEvent
  <2>2. Speaking(Connected(cl)) /\ Connected(cl).cam = client[i].cam
        /\ Connected(cl).chn = client[i].chn
    BY <1>1, ConnectedSpeaks
  <2>3. Moved(i)
    <3> HIDE DEF cl
    <3> QED
      BY <2>1, <2>2, SendMoves DEF Requests
  <2> QED
    BY <2>1, <2>3 DEF Heard
<1> QED
  BY <1>3, <1>4

LEMMA ConnectTimeoutMoves ==
  ASSUME NEW i, Facts(i), ConnectTimeout(i)
  PROVE  /\ Moved(i)
         /\ source' = Left(Told(source, client[i].chn), i)
<1>1. /\ Sound(client[i], camera[i]) /\ client[i].write = "connect"
      /\ client[i] \in ClientType /\ camera[i] \in CameraType
  BY TypesOfOne DEF Facts, ConnectTimeout
<1>2. source' = Left(Told(source, client[i].chn), i)
  BY DEF ConnectTimeout
<1>3. CASE Redials(i)
  <2> DEFINE x == Redialled(client[i])
  <2>1. client' = [client EXCEPT ![i] = x] /\ camera' = [camera EXCEPT ![i] = Dialled]
    BY <1>3 DEF Redials
  <2>2. Sound(x, Dialled) /\ x.cam = client[i].cam /\ x.chn = client[i].chn
    BY <1>1, RedialledIsSound
  <2> HIDE DEF x
  <2> QED
    BY <1>2, <2>1, <2>2, MovedBy
<1>4. CASE NoSocket(i)
  <2> DEFINE x == Closed(client[i])
  <2>1. client' = [client EXCEPT ![i] = x] /\ camera' = [camera EXCEPT ![i] = NoLink]
    BY <1>4 DEF NoSocket
  <2>2. Sound(x, NoLink) /\ x.cam = client[i].cam /\ x.chn = client[i].chn
    BY <1>1, RedialledIsSound
  <2> HIDE DEF x
  <2> QED
    BY <1>2, <2>1, <2>2, MovedBy
<1>5. CASE FreesItself(i)
  BY <1>2, <1>5, BlankIsSound, MovedBy DEF FreesItself
<1>6. CASE MeetsAtOnce(i)
  <2> DEFINE cl == Connected(Closed(client[i]))
             y == Asked(Met, cl, "OPTIONS")
  <2>1. Speaking(cl) /\ cl.cam = client[i].cam /\ cl.chn = client[i].chn
    BY <1>1, ConnectedSpeaks
  <2>2. client' = [client EXCEPT ![i] = Written(cl, "OPTIONS")]
        /\ camera' = [camera EXCEPT ![i] = y]
    BY <1>6 DEF MeetsAtOnce
  <2>3. Met \in CameraType
    BY DEF Met, NoLink, CameraType
  <2> HIDE DEF cl
  <2>4. y = Asked(Met, Written(cl, "OPTIONS"), "OPTIONS")
    BY DEF Asked, Uses
  <2>5. Sound(Written(cl, "OPTIONS"), y) /\ Written(cl, "OPTIONS").cam = cl.cam
        /\ Written(cl, "OPTIONS").chn = cl.chn
    BY <2>1, <2>3, <2>4, WrittenIsSound DEF Requests
  <2> HIDE DEF y
  <2> QED
    BY <1>2, <2>1, <2>2, <2>5, MovedBy
<1>7. Moved(i)
  BY <1>3, <1>4, <1>5, <1>6 DEF ConnectTimeout
<1> QED
  BY <1>2, <1>7

LEMMA ReadTimeoutMoves ==
  ASSUME NEW i, Facts(i), ReadTimeout(i)
  PROVE  Moved(i) /\ Heard(i)
<1> DEFINE cl == [client[i] EXCEPT !.rtimer = FALSE]
           x == Lost(cl, "now")
<1>1. /\ Sound(client[i], camera[i]) /\ client[i].rtimer
      /\ client[i] \in ClientType /\ camera[i] \in CameraType
  BY TypesOfOne DEF Facts, ReadTimeout
<1>2. /\ cl \in ClientType /\ cl.cam = client[i].cam /\ cl.chn = client[i].chn
      /\ cl.write # "none" /\ ~cl.wevent
  BY <1>1 DEF ClientType, Sound
<1>3. client' = [client EXCEPT ![i] = x] /\ camera' = camera
      /\ source' = Told(source, client[i].chn)
  BY DEF ReadTimeout
<1>4. camera' = [camera EXCEPT ![i] = camera[i]]
  BY <1>3 DEF Facts
<1> HIDE DEF cl
<1>5. Sound(x, camera[i]) /\ x.cam = cl.cam /\ x.chn = cl.chn
  BY <1>1, <1>2, LostIsSound DEF Sound
<1> HIDE DEF x
<1>6. Moved(i)
  BY <1>2, <1>3, <1>4, <1>5, MovedBy
<1>7. Heard(i)
  BY <1>3, TypesOfOne DEF Heard, Told, Facts
<1> QED
  BY <1>6, <1>7

\* A read finds the client in the dialogue or with its stream: while it is
\* connecting there is nothing to read.
LEMMA ReaderIsConnected ==
  ASSUME NEW i, Facts(i), Awake(i), client[i].revent,
         camera[i].link \in {"up", "closed", "reset"}
  PROVE  client[i].write = "rewrite" /\ Speaking(Rearmed(client[i]))
         /\ Rearmed(client[i]).cam = client[i].cam
         /\ Rearmed(client[i]).chn = client[i].chn
<1>1. client[i].write = "rewrite"
  BY TypesOfOne DEF Facts, Sound, Awake, Running, Due, Used, ClientType
<1> QED
  BY <1>1, RearmedSpeaks DEF Facts

LEMMA ReadEndMoves ==
  ASSUME NEW i, Facts(i), ReadEnd(i)
  PROVE  Moved(i) /\ Heard(i)
<1> DEFINE cl == Rearmed(client[i])
           x == IF camera[i].link = "closed" THEN Lost(cl, "set") ELSE cl
           y == [camera[i] EXCEPT !.link = "gone"]
<1>1. Speaking(cl) /\ cl.cam = client[i].cam /\ cl.chn = client[i].chn
  BY ReaderIsConnected DEF ReadEnd
<1>2. client' = [client EXCEPT ![i] = x] /\ camera' = [camera EXCEPT ![i] = y]
      /\ source' = source
  BY DEF ReadEnd
<1>3. y \in CameraType /\ ~y.stale /\ y.link = "gone"
  BY TypesOfOne DEF CameraType, Facts, Sound
<1> HIDE DEF cl, y
<1>4. cl \in ClientType /\ cl.write # "none" /\ ~cl.wevent
  BY <1>1 DEF Speaking
<1>5. Sound(x, y) /\ x.cam = cl.cam /\ x.chn = cl.chn
  BY <1>1, <1>3, <1>4, LostIsSound, SpeakingIsSound
<1> HIDE DEF x
<1>6. Moved(i)
  BY <1>1, <1>2, <1>5, MovedBy
<1> QED
  BY <1>2, <1>6 DEF Heard

LEMMA ReadStreamMoves ==
  ASSUME NEW i, Facts(i), ReadStream(i)
  PROVE  Moved(i) /\ Heard(i)
<1> DEFINE cl == Rearmed(client[i])
<1>1. Speaking(cl) /\ cl.cam = client[i].cam /\ cl.chn = client[i].chn
  BY ReaderIsConnected DEF ReadStream
<1>2. client' = [client EXCEPT ![i] = cl] /\ camera' = camera
      /\ (source' = source \/ source' = Given(source, client[i].chn, i))
  BY DEF ReadStream
<1>3. camera' = [camera EXCEPT ![i] = camera[i]]
  BY <1>2 DEF Facts
<1> HIDE DEF cl
<1>4. Sound(cl, camera[i])
  BY <1>1, TypesOfOne, SpeakingIsSound DEF Facts, Sound
<1>5. Moved(i)
  BY <1>1, <1>2, <1>3, <1>4, MovedBy
<1>6. Heard(i)
  BY <1>2, TypesOfOne DEF Heard, Given, Facts
<1> QED
  BY <1>5, <1>6

\* What the camera is left with when it has answered.
LEMMA AnsweredTypes ==
  ASSUME NEW i, Facts(i)
  PROVE  /\ \E y : /\ Quiet(i) = [camera EXCEPT ![i] = y]
                   /\ y \in CameraType /\ ~y.stale
         /\ \E y : /\ Declined(i) = [camera EXCEPT ![i] = y]
                   /\ y \in CameraType /\ ~y.stale
<1> DEFINE y == [camera[i] EXCEPT !.asked = "none"]
           z == [camera[i] EXCEPT !.asked = "none", !.playing = FALSE]
<1>1. camera[i] \in CameraType /\ ~camera[i].stale
  BY TypesOfOne DEF Facts, Sound
<1>2. y \in CameraType /\ ~y.stale /\ z \in CameraType /\ ~z.stale
  BY <1>1 DEF CameraType
<1>3. Quiet(i) = [camera EXCEPT ![i] = y]
  BY DEF Quiet
<1>4. Declined(i) = [camera EXCEPT ![i] = z]
  BY <1>1 DEF Declined, Facts
<1> HIDE DEF y, z
<1> QED
  BY <1>2, <1>3, <1>4

LEMMA Read200Moves ==
  ASSUME NEW i, Facts(i), Read200(i)
  PROVE  Moved(i) /\ Heard(i)
<1> DEFINE asked == camera[i].asked
           cl == Learned(Rearmed(client[i]), asked)
<1>1. Speaking(cl) /\ cl.cam = client[i].cam /\ cl.chn = client[i].chn
  BY ReaderIsConnected, LearnedSpeaks DEF Read200, Answering
<1>2. /\ IF cl.next = "none" THEN client' = [client EXCEPT ![i] = cl] /\ camera' = Quiet(i)
                             ELSE Send(i, cl, cl.next)
      /\ source' = source \/ source' = Given(source, cl.chn, i)
  BY DEF Read200
<1> HIDE DEF cl
<1>3. CASE cl.next = "none"
  <2>1. PICK y : Quiet(i) = [camera EXCEPT ![i] = y] /\ y \in CameraType /\ ~y.stale
    BY AnsweredTypes
  <2>2. Sound(cl, y)
    BY <1>1, <2>1, SpeakingIsSound
  <2>3. Moved(i)
    BY <1>1, <1>2, <1>3, <2>1, <2>2, MovedBy
  <2> QED
    BY <1>1, <1>2, <2>3, TypesOfOne DEF Heard, Given, Facts
<1>4. CASE cl.next # "none"
  <2>1. cl.next \in Requests
    BY <1>1, <1>4 DEF Speaking, ClientType
  <2>2. Moved(i)
    BY <1>1, <1>2, <1>4, <2>1, SendMoves
  <2> QED
    BY <1>1, <1>2, <2>2, TypesOfOne DEF Heard, Given, Facts
<1> QED
  BY <1>3, <1>4

LEMMA Read401Moves ==
  ASSUME NEW i, Facts(i), Read401(i)
  PROVE  Moved(i) /\ Heard(i)
<1>1. PICK nonce \in {"own", client[i].sess.nonce} :
        LET cl == [Rearmed(client[i]) EXCEPT !.sess.nonce = nonce]
        IN  IF cl.sess.auth = "null"
            THEN /\ Send(i, [cl EXCEPT !.sess = Authorised(@)], "DESCRIBE")
                 /\ UNCHANGED source
            ELSE /\ client' = [client EXCEPT ![i] = cl]
                 /\ camera' = Declined(i)
                 /\ source' = Told(source, cl.chn)
  BY DEF Read401
<1> DEFINE read == Rearmed(client[i])
           sess == [read.sess EXCEPT !["nonce"] = nonce]
           cl == [read EXCEPT !.sess = sess]
           again == [cl EXCEPT !.sess = Authorised(sess)]
<1>2. Speaking(read) /\ read.cam = client[i].cam /\ read.chn = client[i].chn
      /\ read \in ClientType /\ read.sess \in SessionType
  BY ReaderIsConnected DEF Read401, Answering, Speaking, ClientType
<1>3. client[i].sess.nonce \in {"null", "own"}
  BY TypesOfOne DEF Facts, Sound, ClientType, SessionType, Fields
<1>4. cl = [Rearmed(client[i]) EXCEPT !.sess.nonce = nonce]
  BY <1>2 DEF ClientType, SessionType, Fields
<1> HIDE DEF read
<1>5. sess \in SessionType /\ \A f \in Fields : sess[f] # "old"
  BY <1>2, <1>3 DEF Speaking, SessionType, Fields
<1>6. cl.sess = sess /\ again = [cl EXCEPT !.sess = Authorised(@)]
  BY <1>2 DEF ClientType
<1>7. Authorised(sess) \in SessionType /\ \A f \in Fields : Authorised(sess)[f] # "old"
  BY <1>5, AuthorisedType
<1> HIDE DEF sess
<1>8. Speaking(cl) /\ cl.cam = read.cam /\ cl.chn = read.chn
  BY <1>2, <1>5 DEF Speaking, ClientType
<1>9. Speaking(again) /\ again.cam = read.cam /\ again.chn = read.chn
  BY <1>2, <1>7 DEF Speaking, ClientType
<1> HIDE DEF cl, again
<1>10. \/ Send(i, again, "DESCRIBE") /\ source' = source
       \/ client' = [client EXCEPT ![i] = cl] /\ camera' = Declined(i)
          /\ source' = Told(source, cl.chn)
  BY <1>1, <1>4, <1>6
<1>11. CASE Send(i, again, "DESCRIBE") /\ source' = source
  <2>1. Moved(i)
    BY <1>2, <1>9, <1>11, SendMoves DEF Requests
  <2> QED
    BY <1>11, <2>1 DEF Heard
<1>12. CASE /\ client' = [client EXCEPT ![i] = cl] /\ camera' = Declined(i)
            /\ source' = Told(source, cl.chn)
  <2>1. PICK y : Declined(i) = [camera EXCEPT ![i] = y] /\ y \in CameraType /\ ~y.stale
    BY AnsweredTypes
  <2>2. Moved(i)
    BY <1>2, <1>8, <1>12, <2>1, SpeakingIsSound, MovedBy
  <2> QED
    BY <1>2, <1>8, <1>12, <2>2, TypesOfOne DEF Heard, Told, Facts
<1> QED
  BY <1>10, <1>11, <1>12

LEMMA ReadOtherMoves ==
  ASSUME NEW i, Facts(i), ReadOther(i)
  PROVE  Moved(i) /\ Heard(i)
<1> DEFINE cl == Rearmed(client[i])
<1>1. Speaking(cl) /\ cl.cam = client[i].cam /\ cl.chn = client[i].chn
  BY ReaderIsConnected DEF ReadOther, Answering
<1>2. client' = [client EXCEPT ![i] = cl] /\ camera' = Declined(i) /\ source' = source
  BY DEF ReadOther
<1> HIDE DEF cl
<1>3. PICK y : Declined(i) = [camera EXCEPT ![i] = y] /\ y \in CameraType /\ ~y.stale
  BY AnsweredTypes
<1>4. Moved(i)
  BY <1>1, <1>2, <1>3, SpeakingIsSound, MovedBy
<1> QED
  BY <1>2, <1>4 DEF Heard

LEMMA PeerMoves ==
  ASSUME NEW i, Facts(i), Peer(i)
  PROVE  Moved(i) /\ Heard(i)
<1>1. PICK to \in {"up", "refused", "closed", "reset", "gone"} :
        /\ camera[i].link \in {"dialing", "up"}
        /\ camera' = [camera EXCEPT ![i].link = to]
        /\ client' = client /\ source' = source
        /\ camera[i].link = "up" => to \in {"closed", "reset", "gone"}
        /\ camera[i].link = "dialing" => to \in {"up", "refused"}
  <2>1. CASE Accepts(i)
    BY <2>1 DEF Accepts, Turns
  <2>2. CASE Refuses(i)
    BY <2>2 DEF Refuses, Turns
  <2>3. CASE Dies(i)
    BY <2>3 DEF Dies, Turns
  <2> QED
    BY <2>1, <2>2, <2>3 DEF Peer
<1> DEFINE y == [camera[i] EXCEPT !.link = to]
<1>2. camera' = [camera EXCEPT ![i] = y] /\ client' = [client EXCEPT ![i] = client[i]]
  BY <1>1 DEF Facts
<1>3. Sound(client[i], camera[i]) /\ camera[i] \in CameraType
  BY TypesOfOne DEF Facts
<1>4. y \in CameraType /\ y.stale = camera[i].stale /\ y.link = to
  BY <1>3 DEF CameraType
<1> HIDE DEF y
<1>5. Sound(client[i], y)
  BY <1>1, <1>3, <1>4 DEF Sound
<1> QED
  BY <1>1, <1>2, <1>5, MovedBy DEF Heard

-----------------------------------------------------------------------------
(* The invariant is kept.                                                  *)

\* A client gives up its connection only after the decoder was told: the video
\* of a client is in its own channel.
LEMMA TimeoutIsHeard ==
  ASSUME NEW i, Facts(i), Owned, source' = Left(Told(source, client[i].chn), i)
  PROVE  Heard(i)
<1> DEFINE told == Told(source, client[i].chn)
<1>1. \A c \in Channels : source'[c] = GivenUp(told[c], {i})
  BY DEF Left
<1>2. \A c \in Channels : told[c] = IF c = client[i].chn THEN {} ELSE source[c]
  BY DEF Told, Facts
<1>3. \A c \in Channels : i \notin told[c]
  BY <1>2 DEF Owned, Heeded
<1> HIDE DEF told
<1>4. ASSUME NEW c \in Channels PROVE source'[c] = told[c]
  <2>1. GivenUp(told[c], {i}) = told[c]
    BY <1>3 DEF GivenUp
  <2> QED
    BY <1>1, <2>1
<1> QED
  BY <1>2, <1>4 DEF Heard

LEMMA ClientStepKeeps ==
  ASSUME IInv, NEW i \in Clients, Handlers(i) \/ Peer(i), UNCHANGED table
  PROVE  IInv'
<1>1. Facts(i) /\ TypeOK /\ misuse \in BOOLEAN
  BY DEF IInv, TypeOK, Facts
<1>2. ~misuse /\ Used(i) /\ Owned
  BY DEF IInv, Handlers, Peer, ConnectEvent, ConnectTimeout, ReadTimeout, ReadEnd, ReadStream,
         Read200, Read401, ReadOther, Answering, Awake, Running, Accepts, Refuses, Dies, Turns
<1>3. misuse' \in BOOLEAN
  BY <1>1 DEF Handlers, Peer, ConnectEvent, ConnectTimeout, ReadTimeout, ReadEnd, ReadStream,
         Read200, Read401, ReadOther, Accepts, Refuses, Dies, Turns,
         Redials, MeetsAtOnce, NoSocket, FreesItself
<1>4. Moved(i) /\ Heard(i)
  <2>1. CASE ConnectTimeout(i)
    BY <1>1, <1>2, <2>1, ConnectTimeoutMoves, TimeoutIsHeard
  <2>2. CASE Peer(i)
    BY <1>1, <2>2, PeerMoves
  <2> QED
    BY <1>1, <2>1, <2>2, ConnectEventMoves, ReadTimeoutMoves, ReadEndMoves, ReadStreamMoves,
       Read200Moves, Read401Moves, ReadOtherMoves DEF Handlers
<1>5. source' \in [Channels -> SUBSET (Clients \cup {Gone})]
  <2>1. \E f : source' = [c \in Channels |-> f[c]]
    <3>1. CASE ConnectTimeout(i)
      BY <1>1, <3>1, ConnectTimeoutMoves DEF Left
    <3>2. CASE ~ConnectTimeout(i)
      <4>1. \/ source' = source
            \/ \E c, v : source' = [source EXCEPT ![c] = v]
        BY <3>2 DEF Handlers, Peer, ConnectEvent, ReadTimeout, ReadEnd, ReadStream,
           Read200, Read401, ReadOther, Accepts, Refuses, Dies, Turns, Told, Given
      <4> QED
        BY <1>1, <4>1 DEF Facts
    <3> QED
      BY <3>1, <3>2
  <2>2. \A c \in Channels : source'[c] \in SUBSET (Clients \cup {Gone})
    BY <1>1, <1>4 DEF Heard, Facts
  <2> QED
    BY <2>1, <2>2
<1>6. PICK x, y :
        /\ client' = [client EXCEPT ![i] = x] /\ camera' = [camera EXCEPT ![i] = y]
        /\ Sound(x, y)
        /\ misuse' \/ (x.cam = client[i].cam /\ x.chn = client[i].chn)
  BY <1>4 DEF Moved
<1>7. /\ client' \in [Clients -> ClientType] /\ camera' \in [Clients -> CameraType]
      /\ client'[i] = x /\ camera'[i] = y
      /\ \A j \in Clients : j # i => client'[j] = client[j] /\ camera'[j] = camera[j]
  BY <1>1, <1>6 DEF Sound, Facts
<1>8. TypeOK'
  BY <1>1, <1>3, <1>5, <1>7 DEF TypeOK, table
<1>9. (\A j \in Clients : Sound(client[j], camera[j]))'
  BY <1>6, <1>7 DEF IInv
<1>10. OldLayoutIsClosed'
  BY DEF IInv, OldLayoutIsClosed, InTable, table
<1>11. ASSUME ~misuse' PROVE Owned'
  <2>1. \A j \in Clients : client'[j].cam = client[j].cam /\ client'[j].chn = client[j].chn
    BY <1>6, <1>7, <1>11
  <2>2. \A c \in Channels : rc[c] \in Clients \cup {Null}
    BY <1>1 DEF TypeOK
  <2>3. (\A c \in Channels : InTable(c) => Used(rc[c]) /\ client[rc[c]].chn = c)'
    BY <1>2, <2>1, <2>2 DEF Owned, InTable, Used, table
  <2>4. (\A j \in Clients : Used(j) => j = Startup \/ \E c \in Channels : rc[c] = j)'
    BY <1>2, <2>1 DEF Owned, Used, table
  <2>5. (\A c \in Channels : \A j \in source[c] : Heeded(c, j))'
    <3> SUFFICES ASSUME NEW c \in Channels, NEW j \in source'[c]
                 PROVE  j \in Clients /\ client'[j].cam # NoCam /\ client'[j].chn = c
      BY DEF Heeded, Used
    <3>1. j \in source[c] \/ (j = i /\ c = client[i].chn)
      BY <1>4 DEF Heard
    <3>2. j \in Clients /\ client[j].cam # NoCam /\ client[j].chn = c
      BY <1>2, <3>1 DEF Owned, Heeded, Used
    <3> QED
      BY <2>1, <3>2
  <2>6. (Used(Startup) /\ client[Startup].chn = 0 /\ \A c \in Channels : rc[c] # Startup)'
    BY <1>2, <2>1, MediaAssumption DEF Owned, Used, table
  <2> QED
    BY <2>3, <2>4, <2>5, <2>6 DEF Owned
<1> QED
  BY <1>8, <1>9, <1>10, <1>11 DEF IInv

\* A configuration message: clients are freed and one is started, the table
\* follows, and what the decoder has of the freed ones is reset.
LEMMA ConfigKeeps ==
  ASSUME IInv, NEW chn \in Channels, NEW cam \in Cams \cup Empty, NEW subwin \in Subwins,
         Config(chn, cam, subwin)
  PROVE  IInv'
<1> DEFINE closed == Closes(chn, cam, subwin)
           freed == { rc[c] : c \in closed }
           keeps == Keeps(chn, cam, subwin)
           opens == cam \notin Empty /\ ~keeps
           free == { i \in Clients : i \in freed \/ ~Used(i) }
           left == [c \in Channels |-> GivenUp(source[c], freed)]
<1>1. TypeOK /\ Owned /\ OldLayoutIsClosed /\ ~misuse /\ misuse' = misuse
  BY DEF IInv, Config
<1>2. PICK new \in (IF opens THEN GetPool[free] ELSE {Null}),
           outcome \in (IF opens THEN Outcomes(cam) ELSE {"again"}) :
        /\ client' = [i \in Clients |->
             IF i = new THEN New(cam, chn, outcome) ELSE IF i \in freed THEN Blank ELSE client[i]]
        /\ camera' = [i \in Clients |->
             IF i = new THEN LinkOf(outcome) ELSE IF i \in freed THEN NoLink ELSE camera[i]]
        /\ rc' = [c \in Channels |->
             IF c = chn /\ ~keeps THEN new ELSE IF c \in closed THEN Null ELSE rc[c]]
  BY DEF Config
<1>3. source' = Announced(left, chn, cam, subwin) /\ currentSunwin' = subwin /\ chn < subwin
  BY DEF Config
<1>4. /\ subwin # currentSunwin => closed = { c \in Channels : InTable(c) } /\ ~keeps
      /\ subwin = currentSunwin => closed = { c \in {chn} : InTable(c) /\ ~keeps }
      /\ InTable(chn) /\ ~keeps => chn \in closed
      /\ keeps => InTable(chn) /\ chn \notin closed
  <2>1. \A c \in Channels : InTable(c) => c < currentSunwin
    BY <1>1 DEF OldLayoutIsClosed
  <2>2. subwin # currentSunwin => ClosedByLayout(subwin) = { c \in Channels : InTable(c) }
    BY <2>1 DEF ClosedByLayout
  <2>3. subwin = currentSunwin => ClosedByLayout(subwin) = {}
    BY DEF ClosedByLayout
  <2>4. keeps => chn \notin ClosedByLayout(subwin) /\ InTable(chn)
    BY DEF Keeps
  <2> HIDE DEF keeps
  <2>5. closed = ClosedByLayout(subwin) \cup { c \in {chn} : InTable(c) /\ ~keeps }
    BY DEF Closes, keeps
  <2> HIDE DEF closed
  <2> QED
    BY <2>2, <2>3, <2>4, <2>5
<1>5. /\ \A c \in Channels : rc[c] \in Clients \cup {Null} /\ (InTable(c) => rc[c] \in Clients)
      /\ Null \notin Clients
  BY <1>1, MediaAssumption DEF TypeOK, InTable
<1>6. /\ closed \subseteq Channels
      /\ \A c \in closed : InTable(c)
      /\ freed \subseteq Clients
  BY <1>4, <1>5
<1>7. opens => new \in Clients /\ cam \in Cams /\ (new \in freed \/ ~Used(new))
  <2>1. opens => GetPool[free] \subseteq free
    BY MediaAssumption
  <2>2. opens => new \in free
    BY <1>2, <2>1
  <2> QED
    BY <2>2
<1>8. ~opens => new = Null
  BY <1>2
<1>0. outcome \in {"again", "ok", "failed"}
  BY <1>2, OutcomesType
<1> HIDE DEF opens, free
<1>9. \A i \in Clients : Sound(client'[i], camera'[i])
  <2> TAKE i \in Clients
  <2>1. CASE i = new
    BY <1>2, <1>5, <1>7, <1>8, <1>0, <2>1, NewIsSound
  <2>2. CASE i # new /\ i \in freed
    <3> HIDE DEF freed
    <3> QED
      BY <1>2, <2>2, BlankIsSound
  <2>3. CASE i # new /\ i \notin freed
    <3> HIDE DEF freed
    <3> QED
      BY <1>2, <2>3 DEF IInv
  <2> QED
    BY <2>1, <2>2, <2>3
<1>10. TypeOK'
  <2>1. client' \in [Clients -> ClientType] /\ camera' \in [Clients -> CameraType]
    BY <1>2, <1>9 DEF Sound
  <2>2. rc' \in [Channels -> Clients \cup {Null}]
    BY <1>2, <1>5, <1>7, <1>8
  <2>3. source' \in [Channels -> SUBSET (Clients \cup {Gone})]
    <3>1. left \in [Channels -> SUBSET (Clients \cup {Gone})]
      BY <1>1 DEF TypeOK, GivenUp
    <3> HIDE DEF left
    <3> QED
      BY <1>3, <3>1 DEF Announced
  <2> QED
    BY <1>1, <1>3, <2>1, <2>2, <2>3 DEF TypeOK
<1>11. OldLayoutIsClosed'
  <2>1. ASSUME NEW c \in Channels, rc'[c] # Null PROVE c < subwin
    <3>1. CASE c = chn
      BY <1>3, <3>1
    <3>2. CASE c # chn
      <4>1. c \notin closed /\ rc[c] # Null
        BY <1>2, <2>1, <3>2
      <4>2. subwin = currentSunwin
        BY <1>4, <4>1 DEF InTable
      <4> QED
        BY <1>1, <4>1, <4>2 DEF OldLayoutIsClosed, InTable
    <3> QED
      BY <3>1, <3>2
  <2> QED
    BY <1>3, <2>1 DEF OldLayoutIsClosed, InTable
<1>12. \A i \in Clients :
         /\ i = new => client'[i].cam # NoCam /\ client'[i].chn = chn
         /\ i # new /\ i \in freed => client'[i].cam = NoCam
         /\ i # new /\ i \notin freed => client'[i] = client[i]
  <2> HIDE DEF freed
  <2> QED
    BY <1>2, <1>5, <1>7, <1>8, <1>0, NewIsSound, BlankIsSound, ClientAssumption
<1>13. ASSUME NEW i \in Clients, NEW c \in Channels, rc[c] = i, c \notin closed
       PROVE  i \notin freed /\ i # new
  <2>1. InTable(c) /\ Used(i) /\ client[i].chn = c
    BY <1>1, <1>5, <1>13 DEF Owned, InTable
  <2>2. i \notin freed
    BY <1>1, <1>6, <1>13, <2>1 DEF Owned
  <2> HIDE DEF freed
  <2> QED
    BY <1>5, <1>7, <1>8, <2>1, <2>2
<1>14. Owned'
  <2>1. (\A c \in Channels : InTable(c) => Used(rc[c]) /\ client[rc[c]].chn = c)'
    <3> SUFFICES ASSUME NEW c \in Channels, rc'[c] # Null
                 PROVE  client'[rc'[c]].cam # NoCam /\ client'[rc'[c]].chn = c
      BY DEF InTable, Used
    <3>1. CASE c = chn /\ ~keeps
      BY <1>2, <1>7, <1>8, <1>12, <3>1
    <3>2. CASE ~(c = chn /\ ~keeps)
      <4>1. c \notin closed /\ rc'[c] = rc[c] /\ rc[c] \in Clients
        BY <1>2, <1>5, <3>2 DEF InTable
      <4>2. rc[c] \notin freed /\ rc[c] # new
        BY <1>13, <4>1
      <4> HIDE DEF freed
      <4> QED
        BY <1>1, <1>5, <1>12, <4>1, <4>2 DEF Owned, InTable, Used
    <3> QED
      BY <3>1, <3>2
  <2>2. (\A i \in Clients : Used(i) => i = Startup \/ \E c \in Channels : rc[c] = i)'
    <3> SUFFICES ASSUME NEW i \in Clients, client'[i].cam # NoCam, i # Startup
                 PROVE  \E c \in Channels : rc'[c] = i
      BY DEF Used
    <3>1. CASE i = new
      <4>1. ~keeps
        BY <1>5, <1>8, <3>1 DEF opens
      <4> QED
        BY <1>2, <3>1, <4>1
    <3>2. CASE i # new
      <4>1. i \notin freed /\ Used(i)
        <5> HIDE DEF freed
        <5> QED
          BY <1>12, <3>2 DEF Used
      <4>2. PICK c \in Channels : rc[c] = i
        BY <1>1, <4>1 DEF Owned
      <4>3. c \notin closed
        BY <4>1, <4>2
      <4>4. ~(c = chn /\ ~keeps)
        BY <1>4, <1>5, <4>2, <4>3 DEF InTable
      <4> QED
        BY <1>2, <4>2, <4>3, <4>4
    <3> QED
      BY <3>1, <3>2
  <2>3. (\A c \in Channels : \A i \in source[c] : Heeded(c, i))'
    <3> SUFFICES ASSUME NEW c \in Channels, NEW i \in source'[c]
                 PROVE  i \in Clients /\ client'[i].cam # NoCam /\ client'[i].chn = c
      BY DEF Heeded, Used
    <3>1. /\ subwin = currentSunwin => ~(c = chn /\ ~keeps)
          /\ subwin # currentSunwin => ~(c < currentSunwin)
          /\ source'[c] = GivenUp(source[c], freed)
      BY <1>3 DEF Announced
    <3>2. \A j \in source[c] : j \notin freed
      <4> SUFFICES ASSUME NEW j \in source[c], j \in freed PROVE FALSE
        OBVIOUS
      <4>1. PICK d \in closed : j = rc[d]
        OBVIOUS
      <4>2. d \in Channels /\ InTable(d) /\ client[j].chn = d
        BY <1>1, <1>6, <4>1 DEF Owned
      <4>3. d = c
        BY <1>1, <4>2 DEF Owned, Heeded
      <4>4. c < currentSunwin
        BY <1>1, <4>2, <4>3 DEF OldLayoutIsClosed
      <4>5. subwin = currentSunwin
        BY <3>1, <4>4
      <4> HIDE DEF closed, keeps
      <4> QED
        BY <1>4, <3>1, <4>1, <4>3, <4>5
    <3> HIDE DEF freed
    <3>3. i \in source[c] /\ i \notin freed
      BY <3>1, <3>2 DEF GivenUp
    <3>4. i \in Clients /\ Used(i) /\ client[i].chn = c
      BY <1>1, <3>3 DEF Owned, Heeded
    <3>5. i # new
      BY <1>5, <1>7, <1>8, <3>3, <3>4
    <3> QED
      BY <1>12, <3>3, <3>4, <3>5 DEF Used
  <2>4. Startup \in Clients /\ Startup \notin freed /\ Startup # new
    <3>1. Startup \in Clients /\ Startup \notin freed
      BY <1>1, <1>6, MediaAssumption DEF Owned
    <3> HIDE DEF freed
    <3> QED
      BY <1>1, <1>5, <1>7, <1>8, <3>1 DEF Owned
  <2>5. (Used(Startup) /\ client[Startup].chn = 0)'
    <3> HIDE DEF freed
    <3> QED
      BY <1>1, <1>12, <2>4 DEF Owned, Used
  <2>6. (\A c \in Channels : rc[c] # Startup)'
    <3> HIDE DEF freed, closed, keeps
    <3> QED
      BY <1>1, <1>2, <1>5, <2>4 DEF Owned
  <2> QED
    BY <2>1, <2>2, <2>3, <2>5, <2>6 DEF Owned
<1> QED
  BY <1>9, <1>10, <1>11, <1>14 DEF IInv

-----------------------------------------------------------------------------
(* The theorems.                                                           *)

LEMMA InitHolds ==
  ASSUME Init
  PROVE  IInv
<1>1. PICK outcome \in Outcomes(Home) :
        /\ client = [i \in Clients |-> IF i = Startup THEN New(Home, 0, outcome) ELSE Blank]
        /\ camera = [i \in Clients |-> IF i = Startup THEN LinkOf(outcome) ELSE NoLink]
  BY DEF Init
<1>0. /\ Sound(New(Home, 0, outcome), LinkOf(outcome)) /\ Sound(Blank, NoLink)
      /\ New(Home, 0, outcome).cam = Home /\ New(Home, 0, outcome).chn = 0
      /\ Blank.cam = NoCam
  BY NewIsSound, OutcomesType, BlankIsSound, ClientAssumption, MediaAssumption
<1>2. /\ \A i \in Clients : Sound(client[i], camera[i]) /\ (Used(i) => i = Startup)
      /\ Used(Startup) /\ client[Startup].chn = 0
  BY <1>1, <1>0, ClientAssumption, MediaAssumption DEF Used
<1>3. TypeOK
  <2>1. client \in [Clients -> ClientType] /\ camera \in [Clients -> CameraType]
    BY <1>1, <1>2 DEF Sound
  <2> QED
    BY <2>1 DEF TypeOK, Init
<1>4. Owned /\ OldLayoutIsClosed
  BY <1>2, MediaAssumption DEF Owned, OldLayoutIsClosed, InTable, Init
<1> QED
  BY <1>2, <1>3, <1>4 DEF IInv

LEMMA NextKeeps ==
  ASSUME IInv, [Next]_vars
  PROVE  IInv'
<1>1. CASE \E i \in Clients : (Handlers(i) \/ Peer(i)) /\ UNCHANGED table
  BY <1>1, ClientStepKeeps
<1>2. CASE \E chn \in Channels, subwin \in Subwins :
             \E cam \in Offers[chn] : Config(chn, cam, subwin)
  <2>1. \A chn \in Channels : Offers[chn] \subseteq Cams \cup Empty
    BY MediaAssumption
  <2> QED
    BY <1>2, <2>1, ConfigKeeps
<1>3. CASE UNCHANGED vars
  BY <1>3 DEF vars, IInv, TypeOK, Owned, Heeded, OldLayoutIsClosed, InTable, Used
<1> QED
  BY <1>1, <1>2, <1>3 DEF Next

THEOREM Invariance == Spec => []IInv
<1>1. Init => IInv
  BY InitHolds
<1>2. IInv /\ [Next]_vars => IInv'
  BY NextKeeps
<1> QED
  BY <1>1, <1>2, PTL DEF Spec

\* Types of the variables, for any number of clients, channels and cameras.
THEOREM MediaTypeOK == Spec => []TypeOK
<1>1. IInv => TypeOK
  BY DEF IInv
<1> QED
  BY <1>1, Invariance, PTL

\* Every request is made of what the client learned on the connection it is
\* sent on, whatever was lost before and however often (rtsp.c:187-211).
THEOREM MediaRequests == Spec => []RequestsUseThisDialogue
<1>1. IInv => RequestsUseThisDialogue
  BY DEF IInv, RequestsUseThisDialogue, Sound
<1> QED
  BY <1>1, Invariance, PTL

\* The decoder is told of every connection that is given up, by the client
\* (rtsp.c:95) or by the layout (main.c:78), and has no video of two clients at
\* once, but for the one main started (main.c:203).
THEOREM MediaDecoderIsTold == Spec => []DecoderIsTold
<1>1. ASSUME IInv, ~misuse, NEW c \in Channels, NEW i \in source[c], NEW j \in source[c]
      PROVE  /\ i # Gone
             /\ i = j \/ (c = 0 /\ Startup \in {i, j})
  <2>1. \A k \in source[c] : k \in Clients /\ Used(k) /\ client[k].chn = c
    BY <1>1 DEF IInv, Owned, Heeded
  <2>2. \A k \in source[c] : k = Startup \/ rc[c] = k
    <3> SUFFICES ASSUME NEW k \in source[c], k # Startup PROVE rc[c] = k
      OBVIOUS
    <3>1. PICK d \in Channels : rc[d] = k
      BY <1>1, <2>1 DEF IInv, Owned
    <3>2. InTable(d)
      BY <2>1, <3>1, MediaAssumption DEF InTable
    <3>3. client[k].chn = d
      BY <1>1, <3>1, <3>2 DEF IInv, Owned
    <3> QED
      BY <2>1, <3>1, <3>3
  <2>3. Startup \in source[c] => c = 0
    BY <1>1, <2>1 DEF IInv, Owned
  <2> QED
    BY <2>1, <2>2, <2>3, NamesAssumption
<1>2. IInv => DecoderIsTold
  BY <1>1 DEF DecoderIsTold
<1> QED
  BY <1>2, Invariance, PTL

\* No timer runs before PLAY is sent (rtsp.c:220).
THEOREM MediaRefused == Spec => []RefusedIsLeftAlone
<1>1. IInv => RefusedIsLeftAlone
  BY DEF IInv, RefusedIsLeftAlone, Sound
<1> QED
  BY <1>1, Invariance, PTL

\* A client that is connecting is timed (rtsp.c:69, 163, 214, 256).
THEOREM MediaConnecting == Spec => []ConnectingIsTimed
<1>1. IInv => ConnectingIsTimed
  BY DEF IInv, ConnectingIsTimed, Sound
<1> QED
  BY <1>1, Invariance, PTL

\* The table holds living clients of its own channels, and all of them but the
\* one main started (media.c:22-57).
THEOREM MediaTable == Spec => []TableOwnsClients
<1>1. IInv => TableOwnsClients
  BY DEF IInv, TableOwnsClients, Owned
<1> QED
  BY <1>1, Invariance, PTL

\* No client of an old layout is left in the table (media.c:49-57).
THEOREM MediaLayout == Spec => []OldLayoutIsClosed
<1>1. IInv => OldLayoutIsClosed
  BY DEF IInv
<1> QED
  BY <1>1, Invariance, PTL
=============================================================================
