----------------------------- MODULE TimerList ------------------------------
(***************************************************************************)
(* The timer list of the scheduler (decoder/osal/timers.c), link by link.  *)
(* Osal models what its users see of it; here is what keeps it so: the     *)
(* links, the records used again, the loop that takes records out of the   *)
(* list it walks, and the wall clock, which can be set while timers run.   *)
(* Every operation runs under osalEnv->lock (osal.c) and is one action.    *)
(***************************************************************************)
EXTENDS RecordList, Integers

CONSTANTS
  Timers,       \* the pairs of a task and an event
  Delays,       \* what timers are started with
  Settings,     \* times the clock may be set to
  MaxTime       \* bound on the clock

ASSUME TimersAssumption ==
  MaxTime \in Nat /\ Settings \subseteq 0 .. MaxTime /\ Delays \subseteq Nat

VARIABLES
  timerList,
  clock,       \* gettimeofday, in ticks
  rung,        \* setTaskEvent: the timers that rang in the last timerUpdate
  call         \* history: what was called last

timerVars == <<timerList, clock, rung, call>>

TimerInit == timerList = EmptyList /\ clock = 0 /\ rung = {} /\ call = <<"none">>

\* A timer already in the list only gets a new time.
AddTimer(timer, delay) ==
  /\ LET n == Found(timerList, timer)
     IN timerList' = IF n # Null
                     THEN [timerList EXCEPT !.memory[n].body = delay + clock]
                     ELSE Appended(timerList, timer, delay + clock)
  /\ rung' = {}
  /\ call' = <<"start", timer, delay>>
  /\ UNCHANGED clock

\* The time is written before the record is unlinked.
StopTimerEx(timer) ==
  /\ LET n == Found(timerList, timer)
     IN timerList' = IF n = Null THEN timerList
                     ELSE Recycled([timerList EXCEPT !.memory[n].body = 0], n)
  /\ rung' = {}
  /\ call' = <<"stop", timer>>
  /\ UNCHANGED clock

\* Mutant of Following: next is read when the record is already in the cache.
FollowingLate(before, after, n) == after.memory[n].next

\* The record the loop goes on with: next as it was before (timerPrev).
Following(before, after, n) == before.memory[n].next

\* One turn of the loop of timerUpdate: the list, the record it looks at, and
\* the timers rung.
Turn(s) ==
  IF s.at = Null THEN s
  ELSE LET r == s.list.memory[s.at]
       IN IF r.body <= clock
          THEN LET list == Recycled(s.list, s.at)
               IN [list |-> list, at |-> Following(s.list, list, s.at), rung |-> s.rung \cup {r.key}]
          ELSE [s EXCEPT !.at = r.next]

\* The loop looks at every record at most once.
TimerUpdate ==
  LET loop[n \in 0 .. Len(timerList.memory)] ==
        IF n = 0 THEN [list |-> timerList, at |-> timerList.head, rung |-> {}]
        ELSE Turn(loop[n - 1])
      end == loop[Len(timerList.memory)]
  IN /\ timerList' = end.list
     /\ rung' = end.rung
     /\ call' = <<"look">>
     /\ UNCHANGED clock

Tick ==
  /\ clock < MaxTime
  /\ clock' = clock + 1
  /\ rung' = {}
  /\ call' = <<"time">>
  /\ UNCHANGED timerList

SetClock ==
  /\ clock' \in Settings
  /\ rung' = {}
  /\ call' = <<"time">>
  /\ UNCHANGED timerList

TimerNext ==
  \/ \E timer \in Timers : StopTimerEx(timer) \/ (\E delay \in Delays : AddTimer(timer, delay))
  \/ TimerUpdate
  \/ Tick
  \/ SetClock

TimerSpec == TimerInit /\ [][TimerNext]_timerVars
-----------------------------------------------------------------------------
\* The time left of the timers that findTimer finds.
Left(q, now) ==
  [t \in {u \in Timers : Found(q, u) # Null} |-> q.memory[Found(q, t)].body - now]

Alarms == INSTANCE AlarmClock WITH
  left <- Left(timerList, clock),
  Shifts <- {s - c : s \in 0 .. MaxTime, c \in 0 .. MaxTime}

\* Every timer rings at the first timerUpdate after its time, once, whatever
\* was started, stopped or rung in between; a clock set back delays every timer
\* by as much, and by no more (timers.c:35, 49, 193).
ImplementsAlarms == Alarms!Spec
=============================================================================
