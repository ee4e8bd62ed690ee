------------------------------- MODULE Timer -------------------------------
(***************************************************************************)
(* The timer of a reactor: a multimap of TimerEvents by arrive time and a  *)
(* timerfd armed for its head.  Timer::onTimer runs on the reactor's       *)
(* thread; addTimerEvent and delTimerEvent are called by the owner of an   *)
(* event, a coroutine on whichever thread it has migrated to.  A step ends *)
(* where m_event_mutex is released or the clock is read.                   *)
(***************************************************************************)
EXTENDS Integers, FiniteSets

CONSTANTS
  Event,     \* TimerEvents, each constructed and added once by its owner
  Interval,  \* Interval[e]: m_interval
  Repeated,  \* the events with m_is_repeated (flush of the log, time wheel)
  Deleted,   \* the events whose owner may call delTimerEvent
  MaxTime,   \* bound: the last value of the clock
  MaxAdd,    \* bound: the last time an owner adds its event
  Off        \* the timerfd is disarmed

ASSUME TimerAssumption ==
  /\ Interval \in [Event -> Nat]
  /\ Repeated \in SUBSET Event
  /\ Deleted \in SUBSET Event
  /\ MaxTime \in Nat /\ MaxAdd \in Nat
  /\ Off \notin Nat

VARIABLES
  clock,      \* getNowMs()
  pending,    \* m_pending_events
  arrive,     \* m_arrive_time
  cancelled,  \* the events with m_is_cancled
  armed,      \* when the timerfd expires; readable once that time has come
  loop_pc,    \* where onTimer stands
  now,        \* now of onTimer
  fired,      \* tasks of onTimer still to run
  again,      \* repeated events of tmps still to be added again
  owner_pc,   \* where the owner of the event stands
  head,       \* first key of the copy resetArriveTime took, for each caller
  runs,       \* how many times the task of the event has run
  late,       \* history: a resetArriveTime found its head already due
  lost        \* history: events erased by the delTimerEvent of another event

Loop == "loop"
Caller == Event \cup {Loop}    \* of resetArriveTime

loopVars  == <<loop_pc, now, fired, again>>
eventVars == <<pending, arrive, cancelled>>
vars == <<clock, eventVars, armed, loopVars, owner_pc, head, runs, late, lost>>

LoopPc  == {"wait", "read", "collect", "readd", "arm", "tasks"}
OwnerPc == {"new", "copy", "arm", "added", "erase", "done"}

TypeOK ==
  /\ clock \in Nat
  /\ pending \in SUBSET Event
  /\ arrive \in [Event -> Nat]
  /\ cancelled \in SUBSET Event
  /\ armed \in Nat \cup {Off}
  /\ loop_pc \in LoopPc
  /\ now \in Nat
  /\ fired \in SUBSET Event
  /\ again \in SUBSET Event
  /\ owner_pc \in [Event -> OwnerPc]
  /\ head \in [Caller -> Nat]
  /\ runs \in [Event -> Nat]
  /\ late \in BOOLEAN
  /\ lost \in SUBSET Event

Init ==
  /\ clock = 0
  /\ pending = {}
  /\ arrive = [e \in Event |-> 0]
  /\ cancelled = {}
  /\ armed = Off
  /\ loop_pc = "wait"
  /\ now = 0
  /\ fired = {}
  /\ again = {}
  /\ owner_pc = [e \in Event |-> "new"]
  /\ head = [x \in Caller |-> 0]
  /\ runs = [e \in Event |-> 0]
  /\ late = FALSE
  /\ lost = {}

Tick ==
  /\ clock < MaxTime
  /\ clock' = clock + 1
  /\ UNCHANGED <<eventVars, armed, loopVars, owner_pc, head, runs, late, lost>>

-----------------------------------------------------------------------------
(* resetArriveTime                                                         *)

\* The events at the front of the multimap.
Earliest(S) == {e \in S : \A f \in S : arrive[e] <= arrive[f]}

\* Under the read lock: copy the map.  The caller goes on when it was empty.
CopyHead(x) ==
  /\ \E e \in Earliest(pending) : head' = [head EXCEPT ![x] = arrive[e]]
  /\ UNCHANGED <<clock, eventVars, armed, now, fired, again, runs, late, lost>>

NothingToCopy ==
  /\ pending = {}
  /\ UNCHANGED <<clock, eventVars, armed, now, fired, again, head, runs, late, lost>>

\* timerfd_settime for the head.  A head in the past leaves the timerfd alone, and
\* an interval of 0 disarms it.
Armed(x) ==
  IF head[x] < clock THEN armed
  ELSE IF head[x] = clock THEN Off
  ELSE head[x]

Arm(x) ==
  /\ armed' = Armed(x)
  /\ late' = (late \/ head[x] <= clock)
  /\ UNCHANGED <<clock, eventVars, now, fired, again, head, runs, lost>>

-----------------------------------------------------------------------------
(* onTimer, on the reactor's thread                                        *)

\* epoll_wait reports the timerfd.
Report ==
  /\ loop_pc = "wait" /\ armed # Off /\ armed <= clock
  /\ loop_pc' = "read"
  /\ UNCHANGED <<clock, eventVars, armed, now, fired, again, owner_pc, head, runs,
                 late, lost>>

\* Read the timerfd until EAGAIN, then the clock.
Read ==
  /\ loop_pc = "read"
  /\ armed' = IF armed # Off /\ armed <= clock THEN Off ELSE armed
  /\ now' = clock
  /\ loop_pc' = "collect"
  /\ UNCHANGED <<clock, eventVars, fired, again, owner_pc, head, runs, late, lost>>

\* The events up to the first that is not due or is cancelled; those of one key
\* stand in the order they were added, any order here.  The mutant collects every
\* pending event.
Due(S) ==
  /\ \A e \in S : arrive[e] <= now /\ e \notin cancelled
  /\ \A e \in S, f \in pending \ S : arrive[e] <= arrive[f]
  /\ S # pending => \E f \in Earliest(pending \ S) : f \in cancelled \/ arrive[f] > now

\* Under the write lock: take the due events out.  The mutants leave them in, and
\* take out everything.
RemainingAll(S) == pending

RemainingNone(S) == {}

Remaining(S) == pending \ S

\* Those that are to be added again.  The mutant forgets them.
RepeatsNone(S) == {}

Repeats(S) == S \cap Repeated

Collect ==
  /\ loop_pc = "collect"
  /\ \E S \in SUBSET pending :
       /\ Due(S)
       /\ pending' = Remaining(S)
       /\ fired' = S
       /\ again' = Repeats(S)
  /\ loop_pc' = "readd"
  /\ UNCHANGED <<clock, arrive, cancelled, armed, now, owner_pc, head, runs, late, lost>>

\* resetTime, and addTimerEvent(event, false).
Readd(e) ==
  /\ loop_pc = "readd" /\ e \in again
  /\ again' = again \ {e}
  /\ arrive' = [arrive EXCEPT ![e] = clock + Interval[e]]
  /\ cancelled' = cancelled \ {e}
  /\ pending' = pending \cup {e}
  /\ UNCHANGED <<clock, armed, loop_pc, now, fired, owner_pc, head, runs, late, lost>>

\* resetArriveTime after the repeated events are back.  The mutant forgets it.
LoopCopyNone ==
  /\ loop_pc = "readd" /\ again = {}
  /\ loop_pc' = "tasks"
  /\ UNCHANGED <<clock, eventVars, armed, now, fired, again, owner_pc, head, runs,
                 late, lost>>

LoopCopy ==
  /\ loop_pc = "readd" /\ again = {}
  /\ \/ CopyHead(Loop) /\ loop_pc' = "arm"
     \/ NothingToCopy /\ loop_pc' = "tasks"
  /\ UNCHANGED owner_pc

LoopArm ==
  /\ loop_pc = "arm"
  /\ Arm(Loop)
  /\ loop_pc' = "tasks"
  /\ UNCHANGED owner_pc

\* i.second().
RunTask(e) ==
  /\ loop_pc = "tasks" /\ e \in fired
  /\ fired' = fired \ {e}
  /\ runs' = [runs EXCEPT ![e] = @ + 1]
  /\ UNCHANGED <<clock, eventVars, armed, loop_pc, now, again, owner_pc, head, late, lost>>

TasksDone ==
  /\ loop_pc = "tasks" /\ fired = {}
  /\ loop_pc' = "wait"
  /\ UNCHANGED <<clock, eventVars, armed, now, fired, again, owner_pc, head, runs,
                 late, lost>>

-----------------------------------------------------------------------------
(* The owners                                                              *)

\* is_reset of addTimerEvent.
IsReset(t) == \A f \in pending : t < arrive[f]

\* The constructor of TimerEvent, and addTimerEvent(event) up to the unlock.
Add(e) ==
  LET t == clock + Interval[e] IN
  /\ owner_pc[e] = "new" /\ clock <= MaxAdd
  /\ arrive' = [arrive EXCEPT ![e] = t]
  /\ pending' = pending \cup {e}
  /\ owner_pc' = [owner_pc EXCEPT ![e] = IF IsReset(t) THEN "copy" ELSE "added"]
  /\ UNCHANGED <<clock, cancelled, armed, loopVars, head, runs, late, lost>>

OwnerCopy(e) ==
  /\ owner_pc[e] = "copy"
  /\ \/ CopyHead(e) /\ owner_pc' = [owner_pc EXCEPT ![e] = "arm"]
     \/ NothingToCopy /\ owner_pc' = [owner_pc EXCEPT ![e] = "added"]
  /\ UNCHANGED loop_pc

OwnerArm(e) ==
  /\ owner_pc[e] = "arm"
  /\ Arm(e)
  /\ owner_pc' = [owner_pc EXCEPT ![e] = "added"]
  /\ UNCHANGED loop_pc

\* delTimerEvent: m_is_cancled is set before the lock is taken.
Cancel(e) ==
  /\ owner_pc[e] = "added" /\ e \in Deleted
  /\ cancelled' = cancelled \cup {e}
  /\ owner_pc' = [owner_pc EXCEPT ![e] = "erase"]
  /\ UNCHANGED <<clock, pending, arrive, armed, loopVars, head, runs, late, lost>>

\* The erase under the lock.  For an event that is not in the map any more, the
\* iterator ends at the upper bound of its key, and that event is erased instead
\* unless there is none.
Later(e) == {f \in pending : arrive[f] > arrive[e]}

Erase(e) ==
  /\ owner_pc[e] = "erase"
  /\ \/ e \in pending /\ pending' = pending \ {e} /\ UNCHANGED lost
     \/ /\ e \notin pending
        /\ \E f \in Earliest(Later(e)) : pending' = pending \ {f} /\ lost' = lost \cup {f}
     \/ e \notin pending /\ Later(e) = {} /\ UNCHANGED <<pending, lost>>
  /\ owner_pc' = [owner_pc EXCEPT ![e] = "done"]
  /\ UNCHANGED <<clock, arrive, cancelled, armed, loopVars, head, runs, late>>

-----------------------------------------------------------------------------

LoopStep ==
  \/ Report \/ Read \/ Collect \/ LoopCopy \/ LoopArm \/ TasksDone
  \/ \E e \in Event : Readd(e) \/ RunTask(e)

Reset(e) == OwnerCopy(e) \/ OwnerArm(e)

Next ==
  \/ Tick
  \/ LoopStep
  \/ \E e \in Event : Add(e) \/ Reset(e) \/ Cancel(e) \/ Erase(e)

Spec == Init /\ [][Next]_vars

\* Time passes, the reactor's loop goes on, and a call of addTimerEvent or
\* delTimerEvent returns.  Nobody has to make one.
Fairness ==
  /\ WF_vars(Tick)
  /\ WF_vars(LoopStep)
  /\ \A e \in Event : WF_vars(Reset(e)) /\ WF_vars(Erase(e))

FairSpec == Spec /\ Fairness

-----------------------------------------------------------------------------
(* Properties                                                              *)

\* A task that is not repeated runs once at most and not before its time, and its
\* event does not come back: onTimer takes it out before it runs it.
OneShot ==
  \A e \in Event \ Repeated : runs[e] > 0 =>
    /\ runs[e] = 1 /\ arrive[e] <= clock
    /\ e \notin pending \cup fired

\* A repeated event is always on its way to its next run, whatever the other events
\* are collected, added and deleted meanwhile.
RepeatedStays ==
  \A e \in Repeated : owner_pc[e] # "new" =>
    e \in pending \cup again \cup cancelled \cup lost

\* While events are pending the timerfd is armed, or a reset that will arm it is
\* under way: in a caller of addTimerEvent or in onTimer.  The exception is a reset
\* that came too late for its head.
NeverDisarmed ==
  pending # {} =>
    \/ armed # Off \/ late
    \/ \E e \in Event : owner_pc[e] \in {"copy", "arm"}
    \/ loop_pc \in {"collect", "readd", "arm"}

\* What onTimer achieves: a pending event runs, unless it is cancelled, or is one
\* of the two kinds of victims the history variables record.
FiresUnlessDropped ==
  \A e \in Event :
    (e \in pending /\ arrive[e] <= MaxTime)
      ~> (runs[e] > 0 \/ e \in cancelled \cup lost \/ late)
=============================================================================
