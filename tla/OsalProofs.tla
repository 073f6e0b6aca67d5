----------------------------- MODULE OsalProofs -----------------------------
(***************************************************************************)
(* The safety properties of the scheduler hold for every set of channels   *)
(* and all delays.  The inductive invariant says, beside the properties,   *)
(* what each thread knows in the middle of its rewriting of the bits.      *)
(***************************************************************************)
EXTENDS Osal, TLAPS

\* The mutex is main's exactly while main is in the middle of a clear.
Mutex == lock = IF main.at = "clearing" THEN "main" ELSE "none"

\* Tasks are counted and linked one after the other, counted first; every
\* task the worker is at is linked, and so is every task with a timer.
ListGrows ==
  /\ \A k \in Tasks, step \in {1, 2} :
       main = Adding(k, step) => linked = k /\ taskNum = k + step - 1
  /\ main.at # "adding" => linked = End /\ taskNum = End
  /\ worker.task # End => worker.task < linked
  /\ \A a \in Alarms : left[a] # Off => a[1] < linked

\* The worker is at a task when it handles one, and before a task when it
\* does not.
HasTask == worker.at = "handle" => worker.task # End

\* What is owed to the task at hand, the handler has loaded.
HandlerKnows ==
  worker.at = "handle" =>
    \A a \in owed : a[1] = worker.task => a[2] \in worker.todo

\* What is owed to the clearing task, main has loaded or the handler has.
ClearKnows ==
  main.at = "clearing" =>
    \A a \in owed :
      a[1] = Clearer => a[2] \in main.loaded \/ AboutTo(Clearer, a[2])

\* The beat goes on in the handler's copy of the bits too.
BeatGoesOnInHandler ==
  worker.at = "handle" /\ worker.task \in Periodic /\ "START" \notin worker.todo =>
    \/ left[<<worker.task, Beat(worker.task)>>] # Off
    \/ Beat(worker.task) \in worker.todo

\* Outside the handler a pending beat has no timer running beside it.
BeatsOnce ==
  \A t \in Periodic :
    Beat(t) \in flag[t] /\ left[<<t, Beat(t)>>] # Off =>
      worker.at = "handle" /\ worker.task = t

IInv ==
  /\ TypeOK
  /\ Mutex
  /\ ListGrows
  /\ HasTask
  /\ HandlerKnows
  /\ ClearKnows
  /\ NoEventLost
  /\ BeatGoesOn
  /\ BeatGoesOnInHandler
  /\ BeatsOnce
  /\ ClearedHasNoTimer
-----------------------------------------------------------------------------
(* Timers and their tasks.                                                 *)

LEMMA AlarmFacts ==
  /\ \A a \in Alarms :
       /\ a = <<a[1], a[2]>>
       /\ a[1] \in Tasks
       /\ a[2] \in Events
       /\ a[1] = Clearer => a[2] \in Channels
       /\ a[1] \in Periodic => a[2] = Beat(a[1])
  /\ \A t \in Periodic : <<t, Beat(t)>> \in Alarms /\ t \in Tasks /\ t # Clearer
  /\ \A c \in Channels : <<Clearer, c>> \in Alarms
BY DEF Alarms, Tasks, Events, Periodic, Beat, Printer, Clearer, Checker

LEMMA EventFacts ==
  /\ \A c \in Channels : c # "START"
  /\ \A t \in Periodic : Beat(t) # "START" /\ Beat(t) \in Events
BY DelaysAssumption DEF Periodic, Beat, Printer, Checker, Events

LEMMA DelayFacts ==
  /\ ClearAfter \in Nat /\ CheckAfter \in Nat
  /\ \A t \in Periodic : Again(t) \in Nat
  /\ \A n \in Nat : n \in Delays /\ n # Off
  /\ Off \in Delays
BY DelaysAssumption DEF Again, Delays, Off

LEMMA WorkerFacts ==
  ASSUME NEW w \in WorkerType,
         NEW at \in {"sleep", "update", "scan", "handle", "exited"},
         NEW task \in Tasks \cup {End}, NEW todo \in SUBSET Events
  PROVE  /\ [w EXCEPT !.at = at] \in WorkerType
         /\ [w EXCEPT !.task = task] \in WorkerType
         /\ [w EXCEPT !.todo = todo] \in WorkerType
         /\ [w EXCEPT !.at = at, !.task = task] \in WorkerType
         /\ [w EXCEPT !.at = at, !.todo = todo] \in WorkerType
         /\ [at |-> at, task |-> task, todo |-> todo] \in WorkerType
BY DEF WorkerType

\* Following the list ends at a task or at its end.
LEMMA FromFacts ==
  ASSUME TypeOK, NEW t \in Nat
  PROVE  From(t) \in Tasks \cup {End} /\ (From(t) # End => From(t) < linked)
BY DEF TypeOK, From, Tasks, End

LEMMA MainFacts ==
  /\ Idle \in MainType
  /\ \A k \in Tasks, step \in {1, 2} : Adding(k, step) \in MainType
  /\ \A c \in Channels, loaded \in SUBSET Events : Clearing(c, loaded) \in MainType
  /\ \A m \in MainType :
       \/ m.at \in {"idle", "joining", "joined"}
       \/ \E k \in Tasks, step \in {1, 2} : m = Adding(k, step)
       \/ \E c \in Channels, loaded \in SUBSET Events : m = Clearing(c, loaded)
<1>1. Idle \in MainType
  BY DEF MainType
<1>2. \A k \in Tasks, step \in {1, 2} : Adding(k, step) \in MainType
  BY DEF MainType
<1>3. \A c \in Channels, loaded \in SUBSET Events : Clearing(c, loaded) \in MainType
  BY DEF MainType
<1>4. ASSUME NEW m \in MainType
      PROVE  \/ m.at \in {"idle", "joining", "joined"}
             \/ \E k \in Tasks, step \in {1, 2} : m = Adding(k, step)
             \/ \E c \in Channels, loaded \in SUBSET Events : m = Clearing(c, loaded)
  BY DEF MainType, Idle
<1> QED
  BY <1>1, <1>2, <1>3, <1>4

-----------------------------------------------------------------------------
(* The initial state.                                                      *)

LEMMA InitHolds == Init => IInv
<1> SUFFICES ASSUME Init PROVE IInv
  OBVIOUS
<1> USE DEF Init
<1>1. TypeOK
  <2>1. flag \in [Tasks -> SUBSET Events] /\ left \in [Alarms -> Delays]
    BY DelayFacts DEF Events
  <2>2. worker \in WorkerType
    BY DEF WorkerType
  <2>3. main \in MainType
    BY MainFacts DEF Tasks
  <2>4. taskNum \in 0 .. End /\ linked \in 0 .. End
    BY DEF End
  <2> QED
    BY <2>1, <2>2, <2>3, <2>4 DEF TypeOK
<1>2. Mutex /\ HasTask /\ HandlerKnows /\ ClearKnows /\ NoEventLost
  BY DEF Mutex, HasTask, HandlerKnows, ClearKnows, NoEventLost, Adding
<1>3. ListGrows
  BY DEF ListGrows, Adding, Tasks
<1>4. BeatGoesOn /\ BeatGoesOnInHandler /\ BeatsOnce /\ ClearedHasNoTimer
  BY AlarmFacts, EventFacts DEF BeatGoesOn, BeatGoesOnInHandler, BeatsOnce, ClearedHasNoTimer
<1> QED
  BY <1>1, <1>2, <1>3, <1>4 DEF IInv

-----------------------------------------------------------------------------
(* The worker's steps.                                                     *)

\* Waking up only moves the worker.
LEMMA WakeUpKeeps ==
  ASSUME IInv, WakeUp
  PROVE  IInv'
<1> USE DEF IInv, WakeUp, list, history
<1>1. TypeOK'
  <2>1. From(0) \in Tasks \cup {End}
    BY FromFacts
  <2>2. worker' \in WorkerType
    BY <2>1, WorkerFacts DEF TypeOK
  <2> QED
    BY <2>2 DEF TypeOK
<1>2. Mutex'
  BY DEF Mutex
<1>3. ListGrows'
  BY DEF ListGrows, From, TypeOK, End
<1>4. HasTask'
  BY DEF HasTask
<1>5. HandlerKnows'
  BY DEF HandlerKnows
<1>6. ClearKnows'
  BY DEF ClearKnows, AboutTo
<1>7. NoEventLost'
  BY DEF NoEventLost, AboutTo
<1>8. BeatGoesOn'
  BY DEF BeatGoesOn
<1>9. BeatGoesOnInHandler'
  BY DEF BeatGoesOnInHandler
<1>10. BeatsOnce'
  BY DEF BeatsOnce
<1>11. ClearedHasNoTimer'
  BY DEF ClearedHasNoTimer
<1> QED
  BY <1>1, <1>2, <1>3, <1>4, <1>5, <1>6, <1>7, <1>8, <1>9, <1>10, <1>11

\* An update turns expired timers into bits, with the mutex free.
LEMMA UpdateKeeps ==
  ASSUME IInv, Update
  PROVE  IInv'
<1> USE DEF IInv, Update, list, history
<1>1. TypeOK'
  BY AlarmFacts, DelayFacts DEF TypeOK, WorkerType, Expired, Raised
<1>2. Mutex'
  BY DEF Mutex
<1>3. ListGrows'
  BY DEF ListGrows, Expired
<1>4. HasTask'
  BY DEF HasTask
<1>5. HandlerKnows'
  BY DEF HandlerKnows
<1>6. ClearKnows'
  BY DEF ClearKnows, AboutTo, Mutex
<1>7. NoEventLost'
  BY AlarmFacts DEF NoEventLost, AboutTo, Expired, Raised, ListGrows, Off, TypeOK
<1>8. BeatGoesOn'
  BY AlarmFacts DEF BeatGoesOn, Expired, Raised, ListGrows, Off, TypeOK
<1>9. BeatGoesOnInHandler'
  BY DEF BeatGoesOnInHandler
<1>10. BeatsOnce'
  BY AlarmFacts DEF BeatsOnce, Expired, Raised, ListGrows, Off, TypeOK
<1>11. ClearedHasNoTimer'
  BY AlarmFacts DEF ClearedHasNoTimer, Expired, TypeOK, Off
<1> QED
  BY <1>1, <1>2, <1>3, <1>4, <1>5, <1>6, <1>7, <1>8, <1>9, <1>10, <1>11

\* A scan loads the bits of a task.
LEMMA ScanKeeps ==
  ASSUME IInv, Scan
  PROVE  IInv'
<1> USE DEF IInv, Scan, list, history
<1>1. TypeOK'
  <2>1. worker' \in WorkerType
    <3>1. CASE worker.task = End
      BY <3>1, WorkerFacts DEF TypeOK
    <3>2. CASE worker.task # End /\ flag[worker.task] = {}
      <4>1. From(worker.task + 1) \in Tasks \cup {End}
        BY <3>2, FromFacts DEF TypeOK, WorkerType, Tasks, End
      <4> QED
        BY <3>2, <4>1, WorkerFacts DEF TypeOK
    <3>3. CASE worker.task # End /\ flag[worker.task] # {}
      <4>1. flag[worker.task] \in SUBSET Events
        BY <3>3 DEF TypeOK, WorkerType
      <4> QED
        BY <3>3, <4>1, WorkerFacts DEF TypeOK
    <3> QED
      BY <3>1, <3>2, <3>3
  <2> QED
    BY <2>1 DEF TypeOK
<1>2. Mutex'
  BY DEF Mutex
<1>3. ListGrows'
  BY DEF ListGrows, From, TypeOK, End
<1>4. HasTask'
  BY DEF HasTask
<1>5. HandlerKnows'
  BY DEF HandlerKnows, NoEventLost, AboutTo
<1>6. ClearKnows'
  BY DEF ClearKnows, AboutTo
<1>7. NoEventLost'
  BY DEF NoEventLost, AboutTo
<1>8. BeatGoesOn'
  BY DEF BeatGoesOn
<1>9. BeatGoesOnInHandler'
  BY DEF BeatGoesOnInHandler, BeatGoesOn
<1>10. BeatsOnce'
  BY DEF BeatsOnce
<1>11. ClearedHasNoTimer'
  BY DEF ClearedHasNoTimer
<1> QED
  BY <1>1, <1>2, <1>3, <1>4, <1>5, <1>6, <1>7, <1>8, <1>9, <1>10, <1>11

\* The task at hand is counted, so its timer is started and the mutex given
\* back.
LEMMA AlarmGranted ==
  ASSUME IInv, worker.at = "handle", worker.task \in Periodic,
         NEW delay \in Nat,
         StartAlarm(<<worker.task, Beat(worker.task)>>, delay)
  PROVE  /\ lock = "none" /\ lock' = "none"
         /\ left' = [left EXCEPT ![<<worker.task, Beat(worker.task)>>] = delay]
         /\ left' \in [Alarms -> Delays]
         /\ worker.task < linked
<1>1. worker.task < linked
  BY DEF IInv, ListGrows, HasTask
<1>2. linked <= taskNum
  BY MainFacts DEF IInv, TypeOK, ListGrows, Adding, Idle, Clearing, Tasks, End
<1>3. worker.task \in Tasks
  BY AlarmFacts
<1>4. worker.task < taskNum
  BY <1>1, <1>2, <1>3 DEF IInv, TypeOK, Tasks, End
<1>5. lock = "none" /\ lock' = "none"
       /\ left' = [left EXCEPT ![<<worker.task, Beat(worker.task)>>] = delay]
  BY <1>4 DEF StartAlarm
<1> QED
  BY <1>1, <1>5, AlarmFacts, DelayFacts DEF IInv, TypeOK

\* On OSALSTART a periodic task starts its timer.
LEMMA HandleStartKeeps ==
  ASSUME IInv, HandleStart
  PROVE  IInv'
<1> USE DEF IInv, HandleStart, list, history
<1> DEFINE alarm == <<worker.task, Beat(worker.task)>>
<1>c. CheckAfter \in Nat /\ CheckAfter # Off /\ alarm \in Alarms
       /\ worker.task \in Periodic
  BY DelayFacts, AlarmFacts
<1>a. /\ lock = "none" /\ lock' = "none"
      /\ left' = [left EXCEPT ![alarm] = CheckAfter]
      /\ left' \in [Alarms -> Delays]
      /\ worker.task < linked
  BY <1>c, AlarmGranted
<1>b. /\ worker'.at = worker.at /\ worker'.task = worker.task
      /\ worker'.todo = worker.todo \ {"START"}
  BY DEF TypeOK, WorkerType, Handled
<1>d. left'[alarm] # Off /\ \A a \in Alarms : a # alarm => left'[a] = left[a]
  <2> HIDE DEF alarm
  <2> QED
    BY <1>a, <1>c DEF TypeOK
<1>e. /\ alarm[1] = worker.task
      /\ \A c \in Channels : <<Clearer, c>> # alarm
      /\ \A t \in Periodic : t # worker.task => <<t, Beat(t)>> # alarm
  BY AlarmFacts
<1> HIDE DEF alarm
<1>1. TypeOK'
  <2>1. worker' \in WorkerType
    <3>1. worker.todo \ {"START"} \in SUBSET Events
      BY DEF TypeOK, WorkerType
    <3> QED
      BY <3>1, WorkerFacts DEF TypeOK, Handled
  <2>2. owed' \subseteq Alarms
    BY DEF TypeOK
  <2> QED
    BY <1>a, <2>1, <2>2 DEF TypeOK
<1>2. Mutex'
  BY <1>a DEF Mutex
<1>3. ListGrows'
  BY <1>a, <1>b, <1>d, <1>e DEF ListGrows
<1>4. HasTask'
  BY <1>b DEF HasTask
<1>5. HandlerKnows'
  BY <1>b, EventFacts, AlarmFacts DEF HandlerKnows, TypeOK
<1>6. ClearKnows'
  BY <1>a, <1>b DEF ClearKnows, AboutTo, Mutex
<1>7. NoEventLost'
  BY <1>b, EventFacts, AlarmFacts DEF NoEventLost, AboutTo, TypeOK
<1>8. BeatGoesOn'
  BY <1>c, <1>d, <1>e, AlarmFacts DEF BeatGoesOn, alarm
<1>9. BeatGoesOnInHandler'
  BY <1>b, <1>d DEF BeatGoesOnInHandler, alarm
<1>10. BeatsOnce'
  BY <1>b, <1>d, <1>e, AlarmFacts DEF BeatsOnce
<1>11. ClearedHasNoTimer'
  BY <1>d, <1>e, AlarmFacts DEF ClearedHasNoTimer, TypeOK
<1> QED
  BY <1>1, <1>2, <1>3, <1>4, <1>5, <1>6, <1>7, <1>8, <1>9, <1>10, <1>11

\* On a beat a periodic task starts its timer again.
LEMMA HandleBeatKeeps ==
  ASSUME IInv, HandleBeat
  PROVE  IInv'
<1> USE DEF IInv, HandleBeat, list, history
<1> DEFINE alarm == <<worker.task, Beat(worker.task)>>
<1>c. Again(worker.task) \in Nat /\ Again(worker.task) # Off /\ alarm \in Alarms
       /\ worker.task \in Periodic
  BY DelayFacts, AlarmFacts
<1>a. /\ lock = "none" /\ lock' = "none"
      /\ left' = [left EXCEPT ![alarm] = Again(worker.task)]
      /\ left' \in [Alarms -> Delays]
      /\ worker.task < linked
  BY <1>c, AlarmGranted
<1>b. /\ worker'.at = worker.at /\ worker'.task = worker.task
      /\ worker'.todo = worker.todo \ {Beat(worker.task)}
  BY DEF TypeOK, WorkerType, Handled
<1>d. left'[alarm] # Off /\ \A a \in Alarms : a # alarm => left'[a] = left[a]
  <2> HIDE DEF alarm
  <2> QED
    BY <1>a, <1>c DEF TypeOK
<1>e. /\ alarm[1] = worker.task
      /\ \A c \in Channels : <<Clearer, c>> # alarm
      /\ \A t \in Periodic : t # worker.task => <<t, Beat(t)>> # alarm
  BY AlarmFacts
<1> HIDE DEF alarm
<1>1. TypeOK'
  <2>1. worker' \in WorkerType
    <3>1. worker.todo \ {Beat(worker.task)} \in SUBSET Events
      BY DEF TypeOK, WorkerType
    <3> QED
      BY <3>1, WorkerFacts DEF TypeOK, Handled
  <2>2. owed' \subseteq Alarms
    BY DEF TypeOK
  <2> QED
    BY <1>a, <2>1, <2>2 DEF TypeOK
<1>2. Mutex'
  BY <1>a DEF Mutex
<1>3. ListGrows'
  BY <1>a, <1>b, <1>d, <1>e DEF ListGrows
<1>4. HasTask'
  BY <1>b DEF HasTask
<1>5. HandlerKnows'
  BY <1>b, EventFacts, AlarmFacts DEF HandlerKnows, TypeOK
<1>6. ClearKnows'
  BY <1>a, <1>b DEF ClearKnows, AboutTo, Mutex
<1>7. NoEventLost'
  BY <1>b, EventFacts, AlarmFacts DEF NoEventLost, AboutTo, TypeOK
<1>8. BeatGoesOn'
  BY <1>c, <1>d, <1>e, AlarmFacts DEF BeatGoesOn, alarm
<1>9. BeatGoesOnInHandler'
  BY <1>b, <1>d DEF BeatGoesOnInHandler, alarm
<1>10. BeatsOnce'
  BY <1>b, <1>d, <1>e, AlarmFacts DEF BeatsOnce
<1>11. ClearedHasNoTimer'
  BY <1>d, <1>e, AlarmFacts DEF ClearedHasNoTimer, TypeOK
<1> QED
  BY <1>1, <1>2, <1>3, <1>4, <1>5, <1>6, <1>7, <1>8, <1>9, <1>10, <1>11

\* The clearing task takes every channel it was handed.
LEMMA HandleClearKeeps ==
  ASSUME IInv, HandleClear
  PROVE  IInv'
<1> USE DEF IInv, HandleClear, list, history
<1>a. /\ worker'.at = worker.at /\ worker'.task = worker.task
      /\ worker'.todo = worker.todo \ Channels
  BY DEF TypeOK, WorkerType
<1>1. TypeOK'
  <2>1. worker' \in WorkerType
    <3>1. worker.todo \ Channels \in SUBSET Events
      BY DEF TypeOK, WorkerType
    <3> QED
      BY <3>1, WorkerFacts DEF TypeOK
  <2> QED
    BY <2>1 DEF TypeOK
<1>2. Mutex'
  BY DEF Mutex
<1>3. ListGrows'
  BY <1>a DEF ListGrows
<1>4. HasTask'
  BY <1>a DEF HasTask
<1>5. HandlerKnows'
  BY <1>a, AlarmFacts DEF HandlerKnows, TypeOK
<1>6. ClearKnows'
  BY <1>a, AlarmFacts DEF ClearKnows, AboutTo, TypeOK
<1>7. NoEventLost'
  BY <1>a, AlarmFacts DEF NoEventLost, AboutTo, TypeOK
<1>8. BeatGoesOn'
  BY DEF BeatGoesOn
<1>9. BeatGoesOnInHandler'
  BY <1>a, AlarmFacts DEF BeatGoesOnInHandler
<1>10. BeatsOnce'
  BY <1>a, AlarmFacts DEF BeatsOnce
<1>11. ClearedHasNoTimer'
  BY DEF ClearedHasNoTimer
<1> QED
  BY <1>1, <1>2, <1>3, <1>4, <1>5, <1>6, <1>7, <1>8, <1>9, <1>10, <1>11

\* What the handler stores still holds all that is owed.
LEMMA ReturnKeeps ==
  ASSUME IInv, Return
  PROVE  IInv'
<1> USE DEF IInv, Return, list, history
<1>a. /\ worker.task \in Tasks
      /\ \A t \in Tasks : flag'[t] = IF t = worker.task THEN worker.todo ELSE flag[t]
      /\ worker'.at = "scan"
  BY DEF TypeOK, WorkerType, HasTask
<1>b. \A a \in owed : a[1] = Clearer => ~AboutTo(Clearer, a[2])
  BY EventFacts, AlarmFacts DEF AboutTo, Ignored, TypeOK
<1>1. TypeOK'
  <2>1. From(worker.task + 1) \in Tasks \cup {End}
    BY FromFacts DEF TypeOK, WorkerType, Tasks, End
  <2>2. worker' \in WorkerType
    BY <2>1, WorkerFacts DEF TypeOK
  <2>3. flag' \in [Tasks -> SUBSET Events]
    BY DEF TypeOK, WorkerType
  <2> QED
    BY <2>2, <2>3 DEF TypeOK
<1>2. Mutex'
  BY DEF Mutex
<1>3. ListGrows'
  <2>1. From(worker.task + 1) # End => From(worker.task + 1) < linked
    BY FromFacts DEF TypeOK, WorkerType, Tasks, End
  <2> QED
    BY <2>1 DEF ListGrows
<1>4. HasTask'
  BY DEF HasTask
<1>5. HandlerKnows'
  BY DEF HandlerKnows
<1>6. ClearKnows'
  BY <1>a, <1>b DEF ClearKnows, AboutTo
<1>7. NoEventLost'
  BY <1>a, <1>b, AlarmFacts DEF NoEventLost, AboutTo, HandlerKnows, TypeOK
<1>8. BeatGoesOn'
  BY <1>a, EventFacts, AlarmFacts DEF BeatGoesOn, BeatGoesOnInHandler, TypeOK, Ignored
<1>9. BeatGoesOnInHandler'
  BY DEF BeatGoesOnInHandler
<1>10. BeatsOnce'
  BY <1>a, EventFacts, AlarmFacts DEF BeatsOnce, TypeOK, Ignored
<1>11. ClearedHasNoTimer'
  BY DEF ClearedHasNoTimer
<1> QED
  BY <1>1, <1>2, <1>3, <1>4, <1>5, <1>6, <1>7, <1>8, <1>9, <1>10, <1>11

-----------------------------------------------------------------------------
(* The event loop's steps.                                                 *)

\* A task is counted, then linked.
LEMMA AddTaskKeeps ==
  ASSUME IInv, AddTask
  PROVE  IInv'
<1> USE DEF IInv, AddTask, list, history
<1>a. PICK k \in Tasks, step \in {1, 2} : main = Adding(k, step)
  BY MainFacts DEF TypeOK, Clearing
<1>b. /\ taskNum' \in 0 .. End /\ linked' \in 0 .. End
      /\ main' \in MainType /\ main'.at # "clearing" /\ main.at # "clearing"
  <2>1. CASE step = 1
    BY <1>a, <2>1, MainFacts DEF ListGrows, AddSteps, Adding, Tasks, End
  <2>2. CASE step = 2
    BY <1>a, <2>2, MainFacts DEF ListGrows, AddSteps, Adding, Following, Idle, Tasks, Checker, End
  <2> QED
    BY <2>1, <2>2
<1>1. TypeOK'
  BY <1>a, <1>b, MainFacts DEF TypeOK, WorkerType
<1>2. Mutex'
  BY <1>a, <1>b DEF Mutex
<1>3. ListGrows'
  <2>1. /\ linked' >= linked
        /\ \A j \in Tasks, i \in {1, 2} :
             main' = Adding(j, i) => linked' = j /\ taskNum' = j + i - 1
        /\ main'.at # "adding" => linked' = End /\ taskNum' = End
    <3>1. linked = k /\ taskNum = k + step - 1
      BY <1>a DEF ListGrows
    <3>2. CASE step = 1
      <4>1. main' = Adding(k, 2) /\ linked' = k /\ taskNum' = k + 1
        BY <1>a, <3>1, <3>2 DEF AddSteps, Adding, Tasks
      <4> QED
        BY <3>1, <4>1 DEF Adding, Tasks
    <3>3. CASE step = 2
      <4>1. main' = Following(k) /\ linked' = k + 1 /\ taskNum' = k + 1
        BY <1>a, <3>1, <3>3 DEF AddSteps, Adding, Tasks
      <4>2. CASE k = Checker
        BY <3>1, <4>1, <4>2 DEF Following, Adding, Idle, Checker, End
      <4>3. CASE k # Checker
        <5>1. main' = Adding(k + 1, 1)
          BY <4>1, <4>3 DEF Following
        <5> QED
          BY <3>1, <4>1, <5>1 DEF Adding, Tasks
      <4> QED
        BY <4>2, <4>3
    <3> QED
      BY <3>2, <3>3
  <2>2. \A n \in Nat : n < linked => n < linked'
    BY <1>b, <2>1 DEF TypeOK, End
  <2>3. \A a \in Alarms : a[1] \in Nat
    BY AlarmFacts DEF Tasks
  <2>4. worker.task \in Nat
    BY DEF TypeOK, WorkerType, Tasks, End
  <2> QED
    BY <2>1, <2>2, <2>3, <2>4 DEF ListGrows
<1>4. HasTask'
  BY DEF HasTask
<1>5. HandlerKnows'
  BY DEF HandlerKnows
<1>6. ClearKnows'
  BY <1>b DEF ClearKnows, AboutTo
<1>7. NoEventLost'
  BY DEF NoEventLost, AboutTo
<1>8. BeatGoesOn'
  BY DEF BeatGoesOn
<1>9. BeatGoesOnInHandler'
  BY DEF BeatGoesOnInHandler
<1>10. BeatsOnce'
  BY DEF BeatsOnce
<1>11. ClearedHasNoTimer'
  BY DEF ClearedHasNoTimer
<1> QED
  BY <1>1, <1>2, <1>3, <1>4, <1>5, <1>6, <1>7, <1>8, <1>9, <1>10, <1>11

\* Starting a channel's timer leaves every other timer alone.
LEMMA StartKeeps ==
  ASSUME IInv, NEW c \in Channels, Start(c)
  PROVE  IInv'
<1> USE DEF IInv, Start, list, history
<1>a. \A a \in Alarms : a # <<Clearer, c>> => left'[a] = left[a]
  BY AlarmFacts DEF TypeOK
<1>b. Clearer < linked
  BY DEF ListGrows, Idle, Clearer, End
<1>1. TypeOK'
  BY AlarmFacts, DelayFacts DEF TypeOK, WorkerType
<1>2. Mutex'
  BY DEF Mutex
<1>3. ListGrows'
  BY <1>a, <1>b DEF ListGrows
<1>4. HasTask'
  BY DEF HasTask
<1>5. HandlerKnows'
  BY DEF HandlerKnows
<1>6. ClearKnows'
  BY DEF ClearKnows, AboutTo
<1>7. NoEventLost'
  BY DEF NoEventLost, AboutTo
<1>8. BeatGoesOn'
  BY <1>a, <1>b, AlarmFacts DEF BeatGoesOn
<1>9. BeatGoesOnInHandler'
  BY <1>a, <1>b, AlarmFacts DEF BeatGoesOnInHandler
<1>10. BeatsOnce'
  BY <1>a, <1>b, AlarmFacts DEF BeatsOnce
<1>11. ClearedHasNoTimer'
  BY <1>a, <1>b, AlarmFacts DEF ClearedHasNoTimer, TypeOK
<1> QED
  BY <1>1, <1>2, <1>3, <1>4, <1>5, <1>6, <1>7, <1>8, <1>9, <1>10, <1>11

\* A clear begins with what the bits are.
LEMMA ClearKeeps ==
  ASSUME IInv, NEW c \in Channels, Clear(c)
  PROVE  IInv'
<1> USE DEF IInv, Clear, list, history
<1>1. TypeOK'
  BY MainFacts DEF TypeOK, WorkerType, Clearer, Tasks
<1>2. Mutex'
  BY DEF Mutex, Clearing
<1>3. ListGrows'
  BY DEF ListGrows, Clearing, Adding, Idle
<1>4. HasTask'
  BY DEF HasTask
<1>5. HandlerKnows'
  BY DEF HandlerKnows
<1>6. ClearKnows'
  BY DEF ClearKnows, AboutTo, NoEventLost, Clearing
<1>7. NoEventLost'
  BY DEF NoEventLost, AboutTo
<1>8. BeatGoesOn'
  BY DEF BeatGoesOn
<1>9. BeatGoesOnInHandler'
  BY DEF BeatGoesOnInHandler
<1>10. BeatsOnce'
  BY DEF BeatsOnce
<1>11. ClearedHasNoTimer'
  BY DEF ClearedHasNoTimer
<1> QED
  BY <1>1, <1>2, <1>3, <1>4, <1>5, <1>6, <1>7, <1>8, <1>9, <1>10, <1>11

\* A clear ends: only the channel's bit and timer go.
LEMMA ClearedKeeps ==
  ASSUME IInv, Cleared
  PROVE  IInv'
<1> USE DEF IInv, Cleared, list, history
<1>a. PICK c \in Channels, loaded \in SUBSET Events : main = Clearing(c, loaded)
  BY MainFacts DEF TypeOK, Adding
<1>b. /\ \A a \in Alarms : a # <<Clearer, c>> => left'[a] = left[a]
      /\ left'[<<Clearer, c>>] = Off
      /\ \A t \in Tasks : t # Clearer => flag'[t] = flag[t]
      /\ flag'[Clearer] = main.loaded \ {c}
      /\ main.chn = c
  BY <1>a, AlarmFacts DEF TypeOK, Clearing, Clearer, Tasks
<1>1. TypeOK'
  BY <1>a, <1>b, AlarmFacts, DelayFacts, MainFacts DEF TypeOK, WorkerType, Clearing, Clearer, Tasks
<1>2. Mutex'
  BY DEF Mutex, Idle
<1>3. ListGrows'
  BY <1>a, <1>b DEF ListGrows, Clearing, Adding, Idle
<1>4. HasTask'
  BY DEF HasTask
<1>5. HandlerKnows'
  BY DEF HandlerKnows
<1>6. ClearKnows'
  BY DEF ClearKnows, AboutTo, Idle
<1>7. NoEventLost'
  BY <1>a, <1>b, AlarmFacts DEF NoEventLost, AboutTo, ClearKnows, TypeOK, Clearing
<1>8. BeatGoesOn'
  BY <1>a, <1>b, AlarmFacts DEF BeatGoesOn, TypeOK
<1>9. BeatGoesOnInHandler'
  BY <1>a, <1>b, AlarmFacts DEF BeatGoesOnInHandler
<1>10. BeatsOnce'
  BY <1>a, <1>b, AlarmFacts DEF BeatsOnce, TypeOK
<1>11. ClearedHasNoTimer'
  BY <1>a, <1>b, AlarmFacts DEF ClearedHasNoTimer, TypeOK, Clearing
<1> QED
  BY <1>1, <1>2, <1>3, <1>4, <1>5, <1>6, <1>7, <1>8, <1>9, <1>10, <1>11

\* Leaving the loop.
LEMMA LeaveKeeps ==
  ASSUME IInv, Leave
  PROVE  IInv'
<1> USE DEF IInv, Leave, list, history
<1>1. TypeOK'
  BY DEF TypeOK, WorkerType, MainType
<1>2. Mutex'
  BY DEF Mutex, Idle
<1>3. ListGrows'
  BY DEF ListGrows, Adding, Idle
<1>4. HasTask'
  BY DEF HasTask
<1>5. HandlerKnows'
  BY DEF HandlerKnows
<1>6. ClearKnows'
  BY DEF ClearKnows, AboutTo
<1>7. NoEventLost'
  BY DEF NoEventLost, AboutTo
<1>8. BeatGoesOn'
  BY DEF BeatGoesOn
<1>9. BeatGoesOnInHandler'
  BY DEF BeatGoesOnInHandler
<1>10. BeatsOnce'
  BY DEF BeatsOnce
<1>11. ClearedHasNoTimer'
  BY DEF ClearedHasNoTimer
<1> QED
  BY <1>1, <1>2, <1>3, <1>4, <1>5, <1>6, <1>7, <1>8, <1>9, <1>10, <1>11

\* Joining the worker.
LEMMA JoinKeeps ==
  ASSUME IInv, Join
  PROVE  IInv'
<1> USE DEF IInv, Join, list, history
<1>1. TypeOK'
  BY DEF TypeOK, WorkerType, MainType
<1>2. Mutex'
  BY DEF Mutex
<1>3. ListGrows'
  BY DEF ListGrows, Adding
<1>4. HasTask'
  BY DEF HasTask
<1>5. HandlerKnows'
  BY DEF HandlerKnows
<1>6. ClearKnows'
  BY DEF ClearKnows, AboutTo
<1>7. NoEventLost'
  BY DEF NoEventLost, AboutTo
<1>8. BeatGoesOn'
  BY DEF BeatGoesOn
<1>9. BeatGoesOnInHandler'
  BY DEF BeatGoesOnInHandler
<1>10. BeatsOnce'
  BY DEF BeatsOnce
<1>11. ClearedHasNoTimer'
  BY DEF ClearedHasNoTimer
<1> QED
  BY <1>1, <1>2, <1>3, <1>4, <1>5, <1>6, <1>7, <1>8, <1>9, <1>10, <1>11

\* Time starts no timer and stops none.
LEMMA TickKeeps ==
  ASSUME IInv, Tick
  PROVE  IInv'
<1> USE DEF IInv, Tick, list, history
<1>a. /\ left' \in [Alarms -> Delays]
      /\ \A a \in Alarms : left'[a] = Off <=> left[a] = Off
  BY DEF TypeOK, Delays, Off
<1>1. TypeOK'
  BY <1>a DEF TypeOK, WorkerType
<1>2. Mutex'
  BY DEF Mutex
<1>3. ListGrows'
  BY <1>a DEF ListGrows
<1>4. HasTask'
  BY DEF HasTask
<1>5. HandlerKnows'
  BY DEF HandlerKnows
<1>6. ClearKnows'
  BY DEF ClearKnows, AboutTo
<1>7. NoEventLost'
  BY DEF NoEventLost, AboutTo
<1>8. BeatGoesOn'
  BY <1>a, AlarmFacts DEF BeatGoesOn
<1>9. BeatGoesOnInHandler'
  BY <1>a, AlarmFacts DEF BeatGoesOnInHandler
<1>10. BeatsOnce'
  BY <1>a, AlarmFacts DEF BeatsOnce
<1>11. ClearedHasNoTimer'
  BY <1>a, AlarmFacts DEF ClearedHasNoTimer, TypeOK
<1> QED
  BY <1>1, <1>2, <1>3, <1>4, <1>5, <1>6, <1>7, <1>8, <1>9, <1>10, <1>11

\* A signal only sets its flag.
LEMMA SignalKeeps ==
  ASSUME IInv, Signal
  PROVE  IInv'
<1> USE DEF IInv, Signal, list, history
<1>1. TypeOK'
  BY DEF TypeOK, WorkerType
<1>2. Mutex'
  BY DEF Mutex
<1>3. ListGrows'
  BY DEF ListGrows
<1>4. HasTask'
  BY DEF HasTask
<1>5. HandlerKnows'
  BY DEF HandlerKnows
<1>6. ClearKnows'
  BY DEF ClearKnows, AboutTo
<1>7. NoEventLost'
  BY DEF NoEventLost, AboutTo
<1>8. BeatGoesOn'
  BY DEF BeatGoesOn
<1>9. BeatGoesOnInHandler'
  BY DEF BeatGoesOnInHandler
<1>10. BeatsOnce'
  BY DEF BeatsOnce
<1>11. ClearedHasNoTimer'
  BY DEF ClearedHasNoTimer
<1> QED
  BY <1>1, <1>2, <1>3, <1>4, <1>5, <1>6, <1>7, <1>8, <1>9, <1>10, <1>11

-----------------------------------------------------------------------------
(* The theorems.                                                           *)

LEMMA StepHolds == IInv /\ [Next]_vars => IInv'
<1> SUFFICES ASSUME IInv, [Next]_vars PROVE IInv'
  OBVIOUS
<1>1. CASE Work
  BY <1>1, WakeUpKeeps, UpdateKeeps, ScanKeeps, HandleStartKeeps, HandleBeatKeeps,
     HandleClearKeeps, ReturnKeeps DEF Work
<1>2. CASE Loop
  BY <1>2, AddTaskKeeps, ClearedKeeps, LeaveKeeps, JoinKeeps DEF Loop
<1>3. CASE Call
  BY <1>3, StartKeeps, ClearKeeps DEF Call
<1>4. CASE Tick \/ Signal
  BY <1>4, TickKeeps, SignalKeeps
<1>5. CASE Over \/ UNCHANGED vars
  BY <1>5 DEF Over, vars, IInv, TypeOK, Mutex, ListGrows, HasTask, HandlerKnows,
     ClearKnows, NoEventLost, AboutTo, BeatGoesOn, BeatGoesOnInHandler, BeatsOnce,
     ClearedHasNoTimer
<1> QED
  BY <1>1, <1>2, <1>3, <1>4, <1>5 DEF Next

(* The invariant is inductive.                                             *)
THEOREM Invariant == Spec => []IInv
<1> QED
  BY InitHolds, StepHolds, PTL DEF Spec

(* Type correctness of the scheduler.                                      *)
THEOREM OsalTypeOK == Spec => []TypeOK
<1>1. IInv => TypeOK
  BY DEF IInv
<1> QED
  BY <1>1, Invariant, PTL

(* No expired timer is forgotten although both threads rewrite the bits of *)
(* the clearing task, one of them without the mutex (osal.c:29, tasks.c:27).*)
THEOREM OsalNoEventLost == Spec => []NoEventLost
<1>1. IInv => NoEventLost
  BY DEF IInv
<1> QED
  BY <1>1, Invariant, PTL

(* The periodic tasks never lose their beat (alltasks.c:31, 93).           *)
THEOREM OsalBeatGoesOn == Spec => []BeatGoesOn
<1>1. IInv => BeatGoesOn
  BY DEF IInv
<1> QED
  BY <1>1, Invariant, PTL

(* The early return of osalStartTimerEx, which would keep the mutex, is    *)
(* never taken (osal.c:54, tasks.c:54-64).                                 *)
THEOREM OsalMutexNotKept == Spec => []MutexNotKept
<1>1. IInv => MutexNotKept
  BY DEF IInv, Mutex, MutexNotKept
<1> QED
  BY <1>1, Invariant, PTL

(* A channel whose event was cleared has no timer until it is started      *)
(* again (osal.c:61-68).                                                   *)
THEOREM OsalClearedHasNoTimer == Spec => []ClearedHasNoTimer
<1>1. IInv => ClearedHasNoTimer
  BY DEF IInv
<1> QED
  BY <1>1, Invariant, PTL
=============================================================================
