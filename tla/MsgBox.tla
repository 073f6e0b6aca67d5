------------------------------- MODULE MsgBox -------------------------------
(***************************************************************************)
(* The message box of the scheduler (decoder/osal/msg.c): a list of        *)
(* records for all tasks.  pullMsg hands out a record it has already put   *)
(* in the cache, so the record is its caller's only until a push takes it. *)
(* The process sends no messages; these are the operations the interface   *)
(* offers (osal.c:87-96), one action each.                                 *)
(***************************************************************************)
EXTENDS RecordList

CONSTANTS
  Tasks,
  Messages,
  None,         \* no message
  MaxPushes     \* bound on the messages pushed

VARIABLES
  msgBox,
  events,   \* the tasks with the event OSALMSG
  got,      \* what the record that pullMsg returned last holds
  pushed,   \* history: how many messages were pushed
  held      \* history: records handed out and not taken by a push, with the
            \* message they were handed out with, the latest first

msgVars == <<msgBox, events, got, pushed, held>>

MsgInit ==
  /\ msgBox = EmptyList /\ events = {}
  /\ got = None /\ pushed = 0 /\ held = << >>

\* The record comes from the cache, the latest put there first.
PushMsg(task, msg) ==
  /\ pushed < MaxPushes
  /\ pushed' = pushed + 1
  /\ msgBox' = Appended(msgBox, task, msg)
  /\ events' = events \cup {task}
  /\ held' = IF held = << >> THEN held ELSE Tail(held)
  /\ UNCHANGED got

\* Mutant of HandedOut: the record is cleared as it goes into the cache.
HandedOutClean(box, n) == [Recycled(box, n) EXCEPT !.memory[n].body = None]

\* The box when a record has been handed out.
HandedOut(box, n) == Recycled(box, n)

PullMsg(task) ==
  LET n == Found(msgBox, task)
  IN IF n = Null
     THEN got' = None /\ UNCHANGED <<msgBox, events, pushed, held>>
     ELSE /\ msgBox' = HandedOut(msgBox, n)
          /\ got' = msgBox'.memory[n].body
          /\ held' = <<[at |-> n, msg |-> msgBox.memory[n].body]>> \o held
          /\ UNCHANGED <<events, pushed>>

\* The worker takes the events of a task to its handler (module Osal).
TakeEvent(task) ==
  /\ task \in events
  /\ events' = events \ {task}
  /\ UNCHANGED <<msgBox, got, pushed, held>>

MsgNext ==
  \E task \in Tasks : PullMsg(task) \/ TakeEvent(task) \/ (\E msg \in Messages : PushMsg(task, msg))

MsgSpec == MsgInit /\ [][MsgNext]_msgVars
-----------------------------------------------------------------------------
\* The messages of a task, along the list.
BoxIn(q, task) ==
  LET box[n \in 0 .. Len(q.memory)] ==
        IF n = Null THEN << >>
        ELSE IF q.memory[n].key = task THEN <<q.memory[n].body>> \o box[q.memory[n].next]
        ELSE box[q.memory[n].next]
  IN box[q.head]

Boxes == INSTANCE MessageBoxes WITH box <- [t \in Tasks |-> BoxIn(msgBox, t)]

\* Each task gets its messages once and in order, however the tasks' pushes and
\* pulls mix in the one list and its records are used again (msg.c:28-99).
ImplementsBoxes == Boxes!Spec

\* A record handed out keeps its message although it is in the cache already,
\* until a push takes it; pushes take the records handed out last first
\* (msg.c:31, 87-92).
PulledIsIntact == \A i \in DOMAIN held : msgBox.memory[held[i].at].body = held[i].msg
=============================================================================
