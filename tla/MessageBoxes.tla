---------------------------- MODULE MessageBoxes ----------------------------
(***************************************************************************)
(* What the message box promises: each task gets the messages sent to it,  *)
(* each once and in the order they were sent, and is told of each.         *)
(***************************************************************************)
EXTENDS Naturals, Sequences

CONSTANTS Tasks, Messages, None

VARIABLES
  box,    \* the messages of each task
  events, \* the tasks that were told and have not noticed
  got,    \* what was got last
  pushed  \* how many messages were sent

vars == <<box, events, got, pushed>>

Init == box = [t \in Tasks |-> << >>] /\ events = {} /\ got = None /\ pushed = 0

Push(t, m) ==
  /\ box' = [box EXCEPT ![t] = Append(@, m)]
  /\ events' = events \cup {t}
  /\ pushed' = pushed + 1
  /\ UNCHANGED got

Pull(t) ==
  /\ \/ box[t] = << >> /\ got' = None /\ UNCHANGED box
     \/ box[t] # << >> /\ got' = Head(box[t]) /\ box' = [box EXCEPT ![t] = Tail(@)]
  /\ UNCHANGED <<events, pushed>>

Notice(t) == t \in events /\ events' = events \ {t} /\ UNCHANGED <<box, got, pushed>>

Next == \E t \in Tasks : Pull(t) \/ Notice(t) \/ (\E m \in Messages : Push(t, m))

Spec == Init /\ [][Next]_vars
=============================================================================
