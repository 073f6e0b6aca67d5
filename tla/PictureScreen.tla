--------------------------- MODULE PictureScreen ----------------------------
(***************************************************************************)
(* What NvEglRenderer::render promises its caller: the call comes back     *)
(* when the picture it was given has been shown, or cannot be, so that the *)
(* buffer of the picture may be used again.                                *)
(***************************************************************************)
EXTENDS Naturals, Sequences

VARIABLES
  call,      \* no call, a picture asked for, or dealt with
  picture,   \* the last picture asked for
  shown      \* the pictures shown so far

vars == <<call, picture, shown>>

Init == call = "none" /\ picture = 0 /\ shown = << >>

Ask == call = "none" /\ call' = "asked" /\ picture' = picture + 1 /\ UNCHANGED shown

Show == call = "asked" /\ call' = "dealt" /\ shown' = Append(shown, picture) /\ UNCHANGED picture

\* There is no image of it, or it cannot be drawn.
Skip == call = "asked" /\ call' = "dealt" /\ UNCHANGED <<picture, shown>>

Return == call = "dealt" /\ call' = "none" /\ UNCHANGED <<picture, shown>>

\* The window is replaced by another.
Renew == call = "none" /\ call' = "none" /\ picture' = 0 /\ shown' = << >>

Next == Ask \/ Show \/ Skip \/ Return \/ Renew

Spec == Init /\ [][Next]_vars
=============================================================================
