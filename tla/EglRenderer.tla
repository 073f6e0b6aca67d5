---------------------------- MODULE EglRenderer -----------------------------
(***************************************************************************)
(* NvEglRenderer (renderer/NvEglRenderer.cpp): a thread that shows         *)
(* pictures in a window, and the thread that owns the window and calls     *)
(* render().  They meet at one mutex and one condition variable, on which  *)
(* the owner waits for the painter, the painter waits for the owner, and   *)
(* the painter also waits for the time of the next picture.                *)
(*                                                                         *)
(* Every critical section begins with taking the mutex and ends with       *)
(* giving it up or waiting, so each is one action, and no thread holds the *)
(* mutex between two.  A thread that waits goes on when it is no longer in *)
(* waiting.  POSIX lets a wait end without a broadcast: Spurious.          *)
(* stop_thread is written and render_fd is written and read without the    *)
(* mutex.  A descriptor is the number of the call it was given in, 0 the   *)
(* one the constructor sets; X, EGL and GL are external.                   *)
(***************************************************************************)
EXTENDS Naturals, Sequences

CONSTANTS
  MaxCalls,      \* bound: calls of render() for one window
  MaxWindows,    \* bound: windows made one after the other
  MaxSpurious,   \* bound: waits that end by themselves
  MayFail        \* may calls of X, EGL and GL fail?

ASSUME RendererAssumption ==
  /\ {MaxCalls, MaxWindows, MaxSpurious} \subseteq Nat
  /\ MayFail \in BOOLEAN

VARIABLES
  owner,         \* the thread that owns the window
  painter,       \* the render thread
  waiting,       \* the threads that wait on render_cond
  render_fd,
  stop_thread,
  is_in_error,
  paced,         \* last_render_time is set
  painting,      \* the picture drawn and not yet swapped
  shown,         \* history: the pictures shown in this window
  windows,       \* windows made
  spurious,      \* waits that ended by themselves
  wild           \* undefined: a thread was joined that does not exist

counts == <<windows, spurious>>
window == <<render_fd, stop_thread, is_in_error, paced, painting, shown>>
vars == <<owner, painter, waiting, window, counts, wild>>

Init ==
  /\ owner = "none"
  /\ painter = "none"
  /\ waiting = {}
  /\ render_fd = 0 /\ painting = 0
  /\ stop_thread = FALSE /\ is_in_error = FALSE /\ paced = FALSE
  /\ shown = << >>
  /\ windows = 0 /\ spurious = 0
  /\ wild = FALSE

Works(thread) == thread \notin waiting

-----------------------------------------------------------------------------
(* The owner: createEglRenderer, render, delete.                           *)

\* The constructor starts the thread with the mutex held and waits for it.
Create ==
  /\ owner = "none" /\ windows < MaxWindows
  /\ owner' = "creating"
  /\ painter' = "starting"
  /\ waiting' = {"owner"}
  /\ windows' = windows + 1
  /\ UNCHANGED <<window, spurious, wild>>

\* EGL has not the functions, or no display is found: no thread was started,
\* and the destructor joins it.
CannotCreate ==
  /\ owner = "none" /\ MayFail /\ windows < MaxWindows
  /\ wild' = TRUE
  /\ UNCHANGED <<owner, painter, waiting, window, counts>>

\* The constructor looks at is_in_error when its wait is over.
Created ==
  /\ owner = "creating" /\ Works("owner")
  /\ owner' = IF is_in_error THEN "discarding" ELSE "ready"
  /\ UNCHANGED <<painter, waiting, window, counts, wild>>

\* The constructor joins the thread, and so does the destructor after it.
Discard ==
  /\ owner = "discarding" /\ painter = "ended"
  /\ wild' = TRUE
  /\ UNCHANGED <<owner, painter, waiting, window, counts>>

\* render: the descriptor is stored before the mutex is taken.
Render ==
  /\ owner = "ready" /\ render_fd < MaxCalls
  /\ render_fd' = render_fd + 1
  /\ owner' = "calling"
  /\ UNCHANGED <<painter, waiting, stop_thread, is_in_error, paced, painting, shown, counts, wild>>

\* pthread_cond_broadcast and pthread_cond_wait.
Wait ==
  /\ owner = "calling"
  /\ owner' = "waiting"
  /\ waiting' = {"owner"}
  /\ UNCHANGED <<painter, window, counts, wild>>

Return ==
  /\ owner = "waiting" /\ Works("owner")
  /\ owner' = "ready"
  /\ UNCHANGED <<painter, waiting, window, counts, wild>>

\* The destructor sets stop_thread without the mutex, ...
Stop ==
  /\ owner = "ready"
  /\ stop_thread' = TRUE
  /\ owner' = "stopping"
  /\ UNCHANGED <<painter, waiting, render_fd, is_in_error, paced, painting, shown, counts, wild>>

\* Mutant of Broadcast: nobody is woken.
NoBroadcast == waiting

\* Who still waits after a broadcast.
Broadcast == {}

\* ... wakes the thread, ...
WakeToStop ==
  /\ owner = "stopping"
  /\ waiting' = Broadcast
  /\ owner' = "joining"
  /\ UNCHANGED <<painter, window, counts, wild>>

\* ... and joins it; the window is gone.
Join ==
  /\ owner = "joining" /\ painter = "ended"
  /\ owner' = "none"
  /\ painter' = "none"
  /\ render_fd' = 0 /\ painting' = 0
  /\ stop_thread' = FALSE /\ is_in_error' = FALSE /\ paced' = FALSE
  /\ shown' = << >>
  /\ UNCHANGED <<waiting, counts, wild>>

Owner ==
  \/ Create \/ CannotCreate \/ Created \/ Discard
  \/ Render \/ Wait \/ Return \/ Stop \/ WakeToStop \/ Join

-----------------------------------------------------------------------------
(* The painter: renderThread and renderInternal.                           *)

StartFails ==
  /\ painter = "starting" /\ MayFail
  /\ is_in_error' = TRUE
  /\ painter' = "finishing"
  /\ UNCHANGED <<owner, waiting, render_fd, stop_thread, paced, painting, shown, counts, wild>>

\* The head of the loop, after a broadcast and with the mutex: wait or leave.
Loops ==
  /\ painter' = IF stop_thread \/ is_in_error THEN "finishing" ELSE "waiting"
  /\ waiting' = IF stop_thread \/ is_in_error THEN {} ELSE {"painter"}

Started ==
  /\ painter = "starting"
  /\ Loops
  /\ UNCHANGED <<owner, window, counts, wild>>

\* Mutant of Wake: the owner is told when the work begins.
WakeTelling ==
  /\ painter = "waiting" /\ Works("painter")
  /\ painter' = IF stop_thread THEN "finishing" ELSE "drawing"
  /\ waiting' = Broadcast
  /\ UNCHANGED <<owner, window, counts, wild>>

\* The wait for a picture is over and the mutex given up.
Wake ==
  /\ painter = "waiting" /\ Works("painter")
  /\ painter' = IF stop_thread THEN "finishing" ELSE "drawing"
  /\ UNCHANGED <<owner, waiting, window, counts, wild>>

\* There is no image of the descriptor, or it is not drawn.
DrawFails ==
  /\ painter = "drawing"
  /\ MayFail \/ render_fd = 0
  /\ painter' = "painted"
  /\ UNCHANGED <<owner, waiting, window, counts, wild>>

\* The first picture is shown at once, and only sets the time.
Draw ==
  /\ painter = "drawing" /\ render_fd # 0
  /\ painting' = render_fd
  /\ paced' = TRUE
  /\ painter' = IF paced THEN "pacing" ELSE "swapping"
  /\ UNCHANGED <<owner, waiting, render_fd, stop_thread, is_in_error, shown, counts, wild>>

\* Until the time of the next picture, or a broadcast.
Pace ==
  /\ painter = "pacing"
  /\ painter' = "resting"
  /\ waiting' = waiting \cup {"painter"}
  /\ UNCHANGED <<owner, window, counts, wild>>

Rested ==
  /\ painter = "resting"
  /\ painter' = "swapping"
  /\ waiting' = waiting \ {"painter"}
  /\ UNCHANGED <<owner, window, counts, wild>>

Swap ==
  /\ painter = "swapping"
  /\ painter' = "painted"
  /\ shown' = Append(shown, painting)
  /\ UNCHANGED <<owner, waiting, render_fd, stop_thread, is_in_error, paced, painting, counts, wild>>

SwapFails ==
  /\ painter = "swapping" /\ MayFail
  /\ painter' = "painted"
  /\ UNCHANGED <<owner, waiting, window, counts, wild>>

\* The owner is told, whatever renderInternal returned.
Painted ==
  /\ painter = "painted"
  /\ Loops
  /\ UNCHANGED <<owner, window, counts, wild>>

\* EGL is cleaned up, and whoever waits is told.
Finish ==
  /\ painter = "finishing"
  /\ painter' = "ended"
  /\ waiting' = Broadcast
  /\ UNCHANGED <<owner, window, counts, wild>>

Painter ==
  \/ StartFails \/ Started \/ Wake \/ DrawFails \/ Draw \/ Pace \/ Rested
  \/ Swap \/ SwapFails \/ Painted \/ Finish

-----------------------------------------------------------------------------
Spurious ==
  /\ spurious < MaxSpurious
  /\ \E thread \in waiting : waiting' = waiting \ {thread}
  /\ spurious' = spurious + 1
  /\ UNCHANGED <<owner, painter, window, windows, wild>>

Next == ~wild /\ (Owner \/ Painter \/ Spurious)

Spec == Init /\ [][Next]_vars

\* Both threads run; whether the owner makes another call is up to it.
Fairness ==
  /\ WF_vars(~wild /\ Painter)
  /\ WF_vars(~wild /\ (Created \/ Discard \/ Wait \/ Return \/ WakeToStop \/ Join))

FairSpec == Spec /\ Fairness
-----------------------------------------------------------------------------
TypeOK ==
  /\ owner \in {"none", "creating", "discarding", "ready", "calling", "waiting",
                "stopping", "joining"}
  /\ painter \in {"none", "starting", "waiting", "drawing", "pacing", "resting",
                  "swapping", "painted", "finishing", "ended"}
  /\ waiting \subseteq {"owner", "painter"}
  /\ render_fd \in 0 .. MaxCalls /\ painting \in 0 .. MaxCalls
  /\ {stop_thread, is_in_error, paced, wild} \subseteq BOOLEAN
  /\ shown \in Seq(0 .. MaxCalls)
  /\ windows \in 0 .. MaxWindows /\ spurious \in 0 .. MaxSpurious

\* The picture asked for has been dealt with: the painter is past it.
Dealt == painter = "painted" \/ Works("owner")

\* What has become of the owner's call.
Call ==
  IF owner = "calling" \/ (owner = "waiting" /\ ~Dealt) THEN "asked"
  ELSE IF owner = "waiting" THEN "dealt" ELSE "none"

Screen == INSTANCE PictureScreen WITH call <- Call, picture <- render_fd

\* render() comes back when its picture has been shown, or cannot be: never
\* with the picture before it, and never while the painter still works on its
\* buffer.  One condition variable serves both directions and is waited on
\* without a predicate (NvEglRenderer.cpp:259, 367), so this holds as long as
\* no wait ends by itself.
HandsOver == [][spurious' > 0 \/ [Screen!Next]_(Screen!vars)]_vars

Busy == owner \notin {"none", "ready"}

\* Every call of the class comes back: no broadcast is lost between the owner
\* and the painter (363, 254-272, 327).  Not so if a constructor was woken too
\* early to see that the thread failed: there is nobody left to wake render().
CallsReturn == Busy ~> (~Busy \/ wild \/ (spurious > 0 /\ is_in_error))
=============================================================================
