----------------------------- MODULE FramePipe ------------------------------
(***************************************************************************)
(* What the decoding process promises the viewer of its channels: the      *)
(* hardware decoder of a channel is given whole frames of its camera, each *)
(* at most once and in the order the camera sent them; frames may be       *)
(* skipped, and no channel sees the frames of another.                     *)
(***************************************************************************)
EXTENDS Naturals, Sequences

CONSTANTS
  Chns,
  Frames       \* a frame is the sequence of its fragments

VARIABLES
  stream,      \* by channel, the frames its camera has begun to send
  last,        \* by channel, the position in stream of the frame shown
  shown        \* by channel, the fragments last given to the decoder

Init ==
  /\ stream = [c \in Chns |-> << >>]
  /\ last = [c \in Chns |-> 0]
  /\ shown = [c \in Chns |-> << >>]

Send(c, frame) ==
  /\ stream' = [stream EXCEPT ![c] = Append(@, frame)]
  /\ UNCHANGED <<last, shown>>

Show(c, n) ==
  /\ last' = [last EXCEPT ![c] = n]
  /\ shown' = [shown EXCEPT ![c] = stream[c][n]]
  /\ UNCHANGED stream

Next ==
  \E c \in Chns :
    \/ \E frame \in Frames : Send(c, frame)
    \/ \E n \in last[c] + 1 .. Len(stream[c]) : Show(c, n)

Spec == Init /\ [][Next]_<<stream, last, shown>>
=============================================================================
