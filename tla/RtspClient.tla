----------------------------- MODULE RtspClient -----------------------------
(***************************************************************************)
(* The connections of the RTSP process to its cameras (rtsp/rtsp.c): the   *)
(* dialogue OPTIONS, DESCRIBE, SETUP, PLAY, the stream, the time-outs and  *)
(* the reconnection.  One thread runs the handlers, so each is one action. *)
(*                                                                         *)
(* The connet library is not in the repository; from its use here:         *)
(* connecting and connect_peer do not block, connect_peer gives a conn_t   *)
(* even when it fails (init_rtsp_clients goes on with it), a write event   *)
(* is reported once (it is asked for again when a send is cut short),      *)
(* add_timer on a running timer sets it anew, and a timer of 0 ms is due   *)
(* in the round of expire_timers that starts it.  Time is left out: a      *)
(* running timer may expire at any moment.  Requests are short and are     *)
(* sent in one piece, answers are well formed and arrive whole.            *)
(***************************************************************************)
EXTENDS Naturals

CONSTANTS
  Clients,     \* the pools a client may live in
  Channels,    \* indices of rc[16]
  Cams,        \* cameras: address and URL
  Reachable,   \* those of whose host something is heard, if only a refusal
  Guarded,     \* those that ask for a password
  NoCam        \* the camera of a pool that is not in use

ASSUME ClientAssumption ==
  /\ Reachable \subseteq Cams /\ Guarded \subseteq Cams
  /\ NoCam \notin Cams
  /\ Channels \subseteq Nat
  /\ 0 \in Channels

Gone == "gone"          \* a connection given up since
ASSUME NamesAssumption == Gone \notin Clients

VARIABLES
  client,    \* struct rtspClient_st with its connection, for each pool
  camera,    \* the other end of its connection
  source,    \* history: whose video the decoder has had since the last reset,
             \* for each channel
  misuse     \* a handler went on with a client it had freed

clientVars == <<client, camera, source, misuse>>

-----------------------------------------------------------------------------
(* The client's record.  A field of the session is null, or it comes from  *)
(* the connection in use (own) or from one closed since (old).             *)

Fields == {"nonce", "auth", "control", "session"}
NoSession == [f \in Fields |-> "null"]
Aged(sess) == [f \in Fields |-> IF sess[f] = "null" THEN "null" ELSE "old"]

Blank ==
  [ cam |-> NoCam, chn |-> 0, write |-> "none", wtimer |-> "off",
    rtimer |-> FALSE, wevent |-> FALSE, revent |-> FALSE, next |-> "none",
    success |-> FALSE, sess |-> NoSession ]

NoLink == [link |-> "none", asked |-> "none", stale |-> FALSE, playing |-> FALSE]
Dialled == [NoLink EXCEPT !.link = "dialing"]
Met == [NoLink EXCEPT !.link = "up"]

Used(i) == client[i].cam # NoCam

\* What connect_peer may come to: the connection is in progress, made, or none.
Outcomes(cam) == {"again", "failed"} \cup (IF cam \in Reachable THEN {"ok"} ELSE {})

\* init_rtsp_clients: handlers and the write timer are set for a connection in
\* progress only; a client that has met its camera at once never speaks to it.
New(cam, chn, outcome) ==
  LET idle == [Blank EXCEPT !.cam = cam, !.chn = chn]
  IN  IF outcome = "again"
      THEN [idle EXCEPT !.write = "connect", !.wtimer = "set", !.wevent = TRUE]
      ELSE idle

LinkOf(outcome) ==
  CASE outcome = "again" -> Dialled [] outcome = "ok" -> Met [] outcome = "failed" -> NoLink

\* rtsp_reconnect_peer up to the new socket: nothing of the old one is left.
Closed(cl) ==
  [cl EXCEPT !.rtimer = FALSE, !.wtimer = "off", !.revent = FALSE,
             !.wevent = FALSE, !.sess = Aged(@)]

\* Mutant of Redialled: add_timer forgotten.
RedialledOnce(cl) == [Closed(cl) EXCEPT !.write = "connect", !.wevent = TRUE]

\* The rest of it: a connection is on its way and timed.
Redialled(cl) ==
  [Closed(cl) EXCEPT !.write = "connect", !.wevent = TRUE, !.wtimer = "set"]

\* Mutants of Lost: the session is kept; no timer is set.
LostButRemembered(cl, delay) ==
  [cl EXCEPT !.success = FALSE, !.write = "connect", !.wtimer = delay]
LostForGood(cl, delay) ==
  [cl EXCEPT !.success = FALSE, !.sess = NoSession, !.write = "connect"]

\* What a lost stream leaves (rtsp_read_handle): the session is forgotten.
Lost(cl, delay) ==
  [cl EXCEPT !.success = FALSE, !.sess = NoSession,
             !.write = "connect", !.wtimer = delay]

\* A reset of channel c reaches the decoder; client i gives up its connection.
Told(src, c) == [src EXCEPT ![c] = {}]
GivenUp(heard, who) == { IF i \in who THEN Gone ELSE i : i \in heard }
Left(src, i) == [c \in Channels |-> GivenUp(src[c], {i})]

\* The decoder is given video of client i.
Given(src, c, i) == [src EXCEPT ![c] = @ \cup {i}]

-----------------------------------------------------------------------------
(* Requests.  Then is do_next after each, Uses what its text is made of.   *)

Requests == {"OPTIONS", "DESCRIBE", "SETUP", "PLAY"}
Then == [OPTIONS |-> "DESCRIBE", DESCRIBE |-> "SETUP", SETUP |-> "PLAY", PLAY |-> "none"]
Uses == [ OPTIONS |-> {}, DESCRIBE |-> {"auth"}, SETUP |-> {"auth", "control"},
          PLAY |-> {"auth", "control", "session"} ]

\* generate_auth: a digest of the nonce, or the plain password without one.
Authorised(sess) ==
  [sess EXCEPT !.auth = IF sess.nonce = "null" THEN "own" ELSE sess.nonce]

Written(cl, request) ==
  LET sess == IF request = "SETUP" THEN Authorised(cl.sess) ELSE cl.sess
  IN  [cl EXCEPT !.sess = sess, !.next = Then[request],
                 !.success = IF request = "PLAY" THEN TRUE ELSE @]

Asked(cam, cl, request) ==
  [cam EXCEPT !.asked = request,
              !.stale = \E f \in Uses[request] : cl.sess[f] = "old",
              !.playing = @ \/ request = "PLAY"]

\* send_option, send_describe, send_setup, send_play.
Send(i, cl, request) ==
  /\ client' = [client EXCEPT ![i] = Written(cl, request)]
  /\ camera' = [camera EXCEPT ![i] = Asked(@, Written(cl, request), request)]

-----------------------------------------------------------------------------
(* The handlers.                                                           *)

\* A timer of 0 ms expires before the client's next event is looked at.
Due(i) == client[i].wtimer = "now"
Running(i) == Used(i) /\ ~misuse
Awake(i) == Running(i) /\ ~Due(i)

\* The end of rtsp_connect_handler.
Connected(cl) ==
  [cl EXCEPT !.wtimer = "off", !.revent = TRUE, !.write = "rewrite"]

\* rtsp_connect_handler, the connection is made or refused.
ConnectEvent(i) ==
  /\ Awake(i)
  /\ client[i].wevent
  /\ camera[i].link \notin {"none", "dialing"}
  /\ LET cl == [client[i] EXCEPT !.wevent = FALSE]
     IN  IF camera[i].link \in {"refused", "reset"}
         THEN /\ client' = [client EXCEPT ![i] = cl]
              /\ source' = Told(source, cl.chn)
              /\ UNCHANGED camera
         ELSE /\ Send(i, Connected(cl), "OPTIONS")
              /\ UNCHANGED source
  /\ UNCHANGED misuse

\* What the call of rtsp_reconnect_peer comes to.
Redials(i) ==
  /\ client' = [client EXCEPT ![i] = Redialled(@)]
  /\ camera' = [camera EXCEPT ![i] = Dialled]
  /\ UNCHANGED misuse

\* connect succeeds at once: the handler goes on as if it had been told so.
MeetsAtOnce(i) ==
  /\ client[i].cam \in Reachable
  /\ LET cl == Connected(Closed(client[i]))
     IN  /\ client' = [client EXCEPT ![i] = Written(cl, "OPTIONS")]
         /\ camera' = [camera EXCEPT ![i] =
                         Asked(Met, cl, "OPTIONS")]
  /\ UNCHANGED misuse

NoSocket(i) ==
  /\ client' = [client EXCEPT ![i] = Closed(@)]
  /\ camera' = [camera EXCEPT ![i] = NoLink]
  /\ UNCHANGED misuse

\* connect fails at once: the client is freed and test_connect looks at it.
FreesItself(i) ==
  /\ client' = [client EXCEPT ![i] = Blank]
  /\ camera' = [camera EXCEPT ![i] = NoLink]
  /\ misuse' = TRUE

\* rtsp_connect_handler, the write timer expired.
ConnectTimeout(i) ==
  /\ Running(i)
  /\ client[i].write = "connect"
  /\ client[i].wtimer # "off"
  /\ source' = Left(Told(source, client[i].chn), i)
  /\ Redials(i) \/ MeetsAtOnce(i) \/ NoSocket(i) \/ FreesItself(i)

\* rtsp_read_handle, the read timer expired.
ReadTimeout(i) ==
  /\ Awake(i)
  /\ client[i].rtimer
  /\ client' = [client EXCEPT ![i] = Lost([@ EXCEPT !.rtimer = FALSE], "now")]
  /\ source' = Told(source, client[i].chn)
  /\ UNCHANGED <<camera, misuse>>

\* Every read of a client that has sent PLAY starts the read timer anew.
Rearmed(cl) == [cl EXCEPT !.rtimer = @ \/ cl.success]

\* rtsp_read_handle, the camera closed (r = 0) or the read failed (r < 0).
ReadEnd(i) ==
  /\ Awake(i)
  /\ client[i].revent
  /\ camera[i].link \in {"closed", "reset"}
  /\ client' = [client EXCEPT ![i] =
                  IF camera[i].link = "closed" THEN Lost(Rearmed(@), "set") ELSE Rearmed(@)]
  /\ camera' = [camera EXCEPT ![i].link = "gone"]
  /\ UNCHANGED <<source, misuse>>

\* rtsp_read_handle, a packet of the stream: video is passed on, audio is not.
ReadStream(i) ==
  /\ Awake(i)
  /\ client[i].revent
  /\ camera[i].link = "up" /\ camera[i].playing
  /\ client' = [client EXCEPT ![i] = Rearmed(@)]
  /\ \/ source' = Given(source, client[i].chn, i)
     \/ UNCHANGED source
  /\ UNCHANGED <<camera, misuse>>

\* do_response: what is kept of an answer to DESCRIBE, and to SETUP or PLAY.
Learned(cl, request) ==
  [cl EXCEPT !.sess.control = IF request = "DESCRIBE" THEN "own" ELSE @,
             !.sess.session = IF request \in {"SETUP", "PLAY"} /\ @ = "null" THEN "own" ELSE @]

Answering(i) ==
  /\ Awake(i)
  /\ client[i].revent
  /\ camera[i].link = "up"
  /\ camera[i].asked # "none"

\* The camera has answered; what it did not accept it does not play.
Quiet(i) == [camera EXCEPT ![i].asked = "none"]
Declined(i) == [camera EXCEPT ![i].asked = "none", ![i].playing = FALSE]

\* 200: the parameter sets of the description go to the decoder, then do_next.
Read200(i) ==
  /\ Answering(i)
  /\ LET asked == camera[i].asked
         cl == Learned(Rearmed(client[i]), asked)
     IN  /\ IF cl.next = "none"
            THEN client' = [client EXCEPT ![i] = cl] /\ camera' = Quiet(i)
            ELSE Send(i, cl, cl.next)
         /\ \/ asked = "DESCRIBE" /\ source' = Given(source, cl.chn, i)
            \/ UNCHANGED source
  /\ UNCHANGED misuse

\* 401, digest or basic: once more with a password, or a report that it is wrong.
Read401(i) ==
  /\ Answering(i)
  /\ client[i].cam \in Guarded
  /\ \E nonce \in {"own", client[i].sess.nonce} :
       LET cl == [Rearmed(client[i]) EXCEPT !.sess.nonce = nonce]
       IN  IF cl.sess.auth = "null"
           THEN /\ Send(i, [cl EXCEPT !.sess = Authorised(@)], "DESCRIBE")
                /\ UNCHANGED source
           ELSE /\ client' = [client EXCEPT ![i] = cl]
                /\ camera' = Declined(i)
                /\ source' = Told(source, cl.chn)
  /\ UNCHANGED misuse

\* Any other answer: nothing follows it.
ReadOther(i) ==
  /\ Answering(i)
  /\ client' = [client EXCEPT ![i] = Rearmed(@)]
  /\ camera' = Declined(i)
  /\ UNCHANGED <<source, misuse>>

Handlers(i) ==
  \/ ConnectEvent(i) \/ ConnectTimeout(i) \/ ReadTimeout(i)
  \/ ReadEnd(i) \/ ReadStream(i)
  \/ Read200(i) \/ Read401(i) \/ ReadOther(i)

-----------------------------------------------------------------------------
(* The other end: a host accepts or refuses; a camera closes the           *)
(* connection, resets it, or is never heard of again.                      *)

Turns(i, from, to) ==
  /\ Running(i)
  /\ camera[i].link = from
  /\ camera' = [camera EXCEPT ![i].link = to]
  /\ UNCHANGED <<client, source, misuse>>

Accepts(i) == client[i].cam \in Reachable /\ Turns(i, "dialing", "up")
Refuses(i) == client[i].cam \in Reachable /\ Turns(i, "dialing", "refused")
Dies(i) == \E how \in {"closed", "reset", "gone"} : Turns(i, "up", how)

Peer(i) == Accepts(i) \/ Refuses(i) \/ Dies(i)
=============================================================================
