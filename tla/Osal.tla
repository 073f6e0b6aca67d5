-------------------------------- MODULE Osal --------------------------------
(***************************************************************************)
(* The event scheduler of the decoding process (decoder/osal, alltasks.c,  *)
(* decoder/main.c).  A worker thread goes round the list of tasks: it      *)
(* turns expired timers into event bits, hands each task its bits and      *)
(* stores what the handler leaves of them.  The thread of the event loop   *)
(* adds the tasks, starts and clears the clear-screen events of task 1 and *)
(* joins the worker in the end.  One mutex guards the timers; the worker   *)
(* reads and writes the event bits without it.                             *)
(***************************************************************************)
EXTENDS Integers

CONSTANTS
  Channels,      \* channels with a clear-screen event, bits 0 to 15 of task 1
  ClearAfter,    \* 300 ms, in ticks
  CheckAfter,    \* 1000 ms
  PrintAfter     \* 150000 ms

ASSUME DelaysAssumption ==
  /\ {ClearAfter, CheckAfter, PrintAfter} \subseteq Nat
  /\ Channels \cap {"START", "PRINT1", "CHECK"} = {}

\* The tasks in the order main adds them; a task's id is its place.
Tasks == 0 .. 2
Printer == 0
Clearer == 1
Checker == 2
End == 3                               \* next of the last task

Periodic == {Printer, Checker}
Events == {"START", "PRINT1", "CHECK"} \cup Channels

\* The event a periodic task starts for itself, and the two delays it uses.
Beat(t) == IF t = Printer THEN "PRINT1" ELSE "CHECK"
Again(t) == IF t = Printer THEN PrintAfter ELSE CheckAfter

\* A timer is known by its task and its event (findTimer).
Alarms == { <<t, Beat(t)>> : t \in Periodic } \cup ({Clearer} \X Channels)
Off == -1
Delays == {Off} \cup Nat

VARIABLES
  taskNum,    \* tasks counted
  linked,     \* tasks reachable from head
  flag,       \* eventFlag of each task
  left,       \* ticks until a timer expires, Off when it is not in the list
  lock,       \* who holds osalEnv->lock
  worker,     \* the worker: where it is, at which task, events not handled yet
  main,       \* the event loop's thread
  term,       \* got_sig_term
  owed,       \* history: timers that expired, neither handled nor cleared
  cancelled   \* history: channels cleared and not started again

vars == <<taskNum, linked, flag, left, lock, worker, main, term, owed, cancelled>>
list == <<taskNum, linked>>
history == <<owed, cancelled>>

Idle == [at |-> "idle"]
Adding(k, step) == [at |-> "adding", task |-> k, step |-> step]
Clearing(c, loaded) == [at |-> "clearing", chn |-> c, loaded |-> loaded]

Init ==
  /\ taskNum = 0
  /\ linked = 0
  /\ flag = [t \in Tasks |-> {"START"}]
  /\ left = [a \in Alarms |-> Off]
  /\ lock = "none"
  /\ worker = [at |-> "sleep", task |-> End, todo |-> {}]
  /\ main = Adding(0, 1)
  /\ term = FALSE
  /\ owed = {}
  /\ cancelled = {}

-----------------------------------------------------------------------------
(* The worker.                                                             *)

\* head, or next of a task, as the list is now.
From(t) == IF t < linked THEN t ELSE End

\* A loop that does not look at the signal.
WakeAgain ==
  /\ worker.at = "sleep"
  /\ worker' = [worker EXCEPT !.at = "update", !.task = From(0)]
  /\ UNCHANGED <<list, flag, left, lock, main, term, history>>

\* _osalLoop: head is read before the timers are looked at.
WakeUp ==
  /\ worker.at = "sleep"
  /\ worker' = IF term THEN [worker EXCEPT !.at = "exited"]
               ELSE [worker EXCEPT !.at = "update", !.task = From(0)]
  /\ UNCHANGED <<list, flag, left, lock, main, term, history>>

Expired == { a \in Alarms : left[a] = 0 }

\* setTaskEvent for every timer that expired.
Raised(t) == flag[t] \cup { a[2] : a \in { b \in Expired : b[1] = t } }

\* Without the mutex an update can fall between the two halves of a clear.
UpdateUnlocked ==
  /\ worker.at = "update"
  /\ flag' = [t \in Tasks |-> IF t < linked THEN Raised(t) ELSE flag[t]]
  /\ left' = [a \in Alarms |-> IF a \in Expired THEN Off ELSE left[a]]
  /\ owed' = owed \cup Expired
  /\ worker' = [worker EXCEPT !.at = "scan"]
  /\ UNCHANGED <<list, lock, main, term, cancelled>>

\* osalTicksUpdate: every expired timer leaves the list for its task's bits.
Update ==
  /\ worker.at = "update"
  /\ lock = "none"
  /\ flag' = [t \in Tasks |-> IF t < linked THEN Raised(t) ELSE flag[t]]
  /\ left' = [a \in Alarms |-> IF a \in Expired THEN Off ELSE left[a]]
  /\ owed' = owed \cup Expired
  /\ worker' = [worker EXCEPT !.at = "scan"]
  /\ UNCHANGED <<list, lock, main, term, cancelled>>

\* osalRunSystem at a task: its bits are loaded for the handler.
Scan ==
  /\ worker.at = "scan"
  /\ worker' =
       IF worker.task = End THEN [worker EXCEPT !.at = "sleep"]
       ELSE IF flag[worker.task] = {} THEN [worker EXCEPT !.task = From(@ + 1)]
       ELSE [worker EXCEPT !.at = "handle", !.todo = flag[worker.task]]
  /\ UNCHANGED <<list, flag, left, lock, main, term, history>>

\* osalStartTimerEx as the worker calls it; a task not yet counted is
\* refused, and the mutex kept.
StartAlarm(a, delay) ==
  /\ lock = "none"
  /\ IF a[1] < taskNum
     THEN left' = [left EXCEPT ![a] = delay] /\ UNCHANGED lock
     ELSE lock' = "worker" /\ UNCHANGED left

Handled(event) == worker' = [worker EXCEPT !.todo = @ \ {event}]

\* osal_printf and check_left_freams on OSALSTART.
HandleStart ==
  /\ worker.at = "handle"
  /\ worker.task \in Periodic
  /\ "START" \in worker.todo
  /\ StartAlarm(<<worker.task, Beat(worker.task)>>, CheckAfter)
  /\ Handled("START")
  /\ UNCHANGED <<list, flag, main, term, history>>

\* A beat that is handled and not started again.
BeatOnce ==
  /\ worker.at = "handle"
  /\ worker.task \in Periodic
  /\ "START" \notin worker.todo
  /\ Beat(worker.task) \in worker.todo
  /\ lock = "none"
  /\ Handled(Beat(worker.task))
  /\ owed' = owed \ {<<worker.task, Beat(worker.task)>>}
  /\ UNCHANGED <<list, flag, left, lock, main, term, cancelled>>

\* osal_printf on OSAL_PRINT1, check_left_freams on OSAL_CHECK.
HandleBeat ==
  /\ worker.at = "handle"
  /\ worker.task \in Periodic
  /\ "START" \notin worker.todo
  /\ Beat(worker.task) \in worker.todo
  /\ StartAlarm(<<worker.task, Beat(worker.task)>>, Again(worker.task))
  /\ Handled(Beat(worker.task))
  /\ owed' = owed \ {<<worker.task, Beat(worker.task)>>}
  /\ UNCHANGED <<list, flag, main, term, cancelled>>

\* dec_reset_handler: the channels' bits, and never OSALSTART.
HandleClear ==
  /\ worker.at = "handle"
  /\ worker.task = Clearer
  /\ worker.todo \cap Channels # {}
  /\ worker' = [worker EXCEPT !.todo = @ \ Channels]
  /\ owed' = owed \ { <<Clearer, c>> : c \in worker.todo \cap Channels }
  /\ UNCHANGED <<list, flag, left, lock, main, term, cancelled>>

\* What the handler of a task has nothing to do with.
Ignored(t) == IF t = Clearer THEN {"START"} ELSE {}

\* The handler returns and what it left is stored, without the mutex.
Return ==
  /\ worker.at = "handle"
  /\ worker.todo \subseteq Ignored(worker.task)
  /\ flag' = [flag EXCEPT ![worker.task] = worker.todo]
  /\ worker' = [at |-> "scan", task |-> From(worker.task + 1), todo |-> {}]
  /\ UNCHANGED <<list, left, lock, main, term, history>>

Work == WakeUp \/ Update \/ Scan \/ HandleStart \/ HandleBeat \/ HandleClear \/ Return

-----------------------------------------------------------------------------
(* The event loop's thread.                                                *)

\* addTask counts the task before it links it.
LinksFirst == <<"link", "count">>
AddSteps == <<"count", "link">>

\* main adds three tasks.
Following(k) == IF k = Checker THEN Idle ELSE Adding(k + 1, 1)

AddTask ==
  /\ main.at = "adding"
  /\ \/ /\ AddSteps[main.step] = "count"
        /\ taskNum' = taskNum + 1
        /\ UNCHANGED linked
     \/ /\ AddSteps[main.step] = "link"
        /\ linked' = linked + 1
        /\ UNCHANGED taskNum
  /\ main' = IF main.step = 1 THEN Adding(main.task, 2) ELSE Following(main.task)
  /\ UNCHANGED <<flag, left, lock, worker, term, history>>

\* osalStartTimerEx(1, 1 << c, 300); started again, a timer is put off.
Start(c) ==
  /\ main = Idle
  /\ lock = "none"
  /\ left' = [left EXCEPT ![<<Clearer, c>>] = ClearAfter]
  /\ cancelled' = cancelled \ {c}
  /\ UNCHANGED <<list, flag, lock, worker, main, term, owed>>

\* osalClearTaskEvent(1, 1 << c): the bits are read, ...
Clear(c) ==
  /\ main = Idle
  /\ lock = "none"
  /\ lock' = "main"
  /\ main' = Clearing(c, flag[Clearer])
  /\ UNCHANGED <<list, flag, left, worker, term, history>>

\* ... written back without the channel's, and the timer taken out.
Cleared ==
  /\ main.at = "clearing"
  /\ flag' = [flag EXCEPT ![Clearer] = main.loaded \ {main.chn}]
  /\ left' = [left EXCEPT ![<<Clearer, main.chn>>] = Off]
  /\ lock' = "none"
  /\ main' = Idle
  /\ owed' = owed \ {<<Clearer, main.chn>>}
  /\ cancelled' = cancelled \cup {main.chn}
  /\ UNCHANGED <<list, worker, term>>

\* The loop of main ends and waits for the worker.
Leave ==
  /\ main = Idle
  /\ term
  /\ main' = [at |-> "joining"]
  /\ UNCHANGED <<list, flag, left, lock, worker, term, history>>

Join ==
  /\ main.at = "joining"
  /\ worker.at = "exited"
  /\ main' = [at |-> "joined"]
  /\ UNCHANGED <<list, flag, left, lock, worker, term, history>>

-----------------------------------------------------------------------------
(* Time and signals.                                                       *)

Tick ==
  /\ \E a \in Alarms : left[a] > 0
  /\ left' = [a \in Alarms |-> IF left[a] > 0 THEN left[a] - 1 ELSE left[a]]
  /\ UNCHANGED <<list, flag, lock, worker, main, term, history>>

Signal ==
  /\ ~term
  /\ term' = TRUE
  /\ UNCHANGED <<list, flag, left, lock, worker, main, history>>

\* main has joined the worker; the process goes on to exit.
Over ==
  /\ main.at = "joined"
  /\ UNCHANGED vars

Loop == AddTask \/ Cleared \/ Leave \/ Join
Call == \E c \in Channels : Start(c) \/ Clear(c)
Next == Work \/ Loop \/ Call \/ Tick \/ Signal \/ Over

Spec == Init /\ [][Next]_vars

\* Both threads go on; a thread that waits for the mutex gets it in the end,
\* since the other holds it for a few instructions at a time; and the event
\* loop tests the signal after every round of packets.
Fairness ==
  /\ WF_vars(WakeUp) /\ WF_vars(Scan) /\ WF_vars(HandleClear) /\ WF_vars(Return)
  /\ SF_vars(Update) /\ SF_vars(HandleStart) /\ SF_vars(HandleBeat)
  /\ WF_vars(Loop) /\ SF_vars(Leave)
  /\ WF_vars(Tick)

FairSpec == Spec /\ Fairness

-----------------------------------------------------------------------------
WorkerType ==
  [ at : {"sleep", "update", "scan", "handle", "exited"},
    task : Tasks \cup {End}, todo : SUBSET Events ]

MainType ==
  {Idle, [at |-> "joining"], [at |-> "joined"]}
    \cup { Adding(k, step) : k \in Tasks, step \in {1, 2} }
    \cup { Clearing(c, loaded) : c \in Channels, loaded \in SUBSET Events }

TypeOK ==
  /\ taskNum \in 0 .. End
  /\ linked \in 0 .. End
  /\ flag \in [Tasks -> SUBSET Events]
  /\ left \in [Alarms -> Delays]
  /\ lock \in {"none", "worker", "main"}
  /\ worker \in WorkerType
  /\ main \in MainType
  /\ term \in BOOLEAN
  /\ owed \subseteq Alarms
  /\ cancelled \subseteq Channels

\* The worker is at task t and has event e still before it.
AboutTo(t, e) == worker.at = "handle" /\ worker.task = t /\ e \in worker.todo

(* An expired timer is not forgotten: until its event is handled or        *)
(* cleared, the event is in the task's bits or with the handler, although  *)
(* both threads rewrite the bits (osal.c:29, tasks.c:27).                  *)
NoEventLost == \A a \in owed : a[2] \in flag[a[1]] \/ AboutTo(a[1], a[2])

(* The printing and checking tasks keep themselves going by starting their *)
(* own timer again (alltasks.c:31, 93): once started, either the timer     *)
(* runs or the event waits to be handled.                                  *)
BeatGoesOn ==
  \A t \in Periodic :
    "START" \notin flag[t] =>
      left[<<t, Beat(t)>>] # Off \/ Beat(t) \in flag[t]

(* A cleared timer does not expire: after osalClearTaskEvent has returned  *)
(* no timer of the channel is in the list until it is started (osal.c:65). *)
ClearedHasNoTimer == \A c \in cancelled : left[<<Clearer, c>>] = Off

(* osal.c:65 “还未执行的也要清除”: what has not been executed yet is cleared  *)
(* too, so the handler never executes a channel cleared before it began.   *)
ClearedIsNotHandled == \A c \in cancelled : ~AboutTo(Clearer, c)

(* The early return of osalStartTimerEx that keeps the mutex (osal.c:54) is *)
(* never taken, not even while main still adds tasks to a list the worker  *)
(* already walks (main.c:131-134): a task is counted before it is linked.  *)
MutexNotKept == lock # "worker"

(* check_left_freams goes on checking until the process is told to end.    *)
KeepsChecking == []<>(term \/ AboutTo(Checker, "CHECK"))

(* After a signal the process ends: main joins the worker (main.c:158).    *)
SignalEnds == term ~> main.at = "joined"
=============================================================================
