---------------------- MODULE CoroutineSchedulerProofs ----------------------
(***************************************************************************)
(* Proofs about CoroutineScheduler for every number of IO threads,         *)
(* coroutines and sockets.  Four parts.  The types.  No wakeup is lost.    *)
(* The m:n hand-over between threads loses no coroutine, watches an fd in  *)
(* one place and resumes nobody for nothing: the order in which            *)
(* Reactor::loop and the hooks delete, push, pop, resume and listen again. *)
(* These hold whatever calls the coroutines make.  The last, that a        *)
(* coroutine is on one thread at a time, holds of a plain server, whose    *)
(* coroutines make no calls (CallFds is empty); the run                    *)
(* scheduler_double_run shows that it needs this assumption.               *)
(***************************************************************************)
EXTENDS CoroutineScheduler, SequenceTheorems, TLAPS

\* The program counters between toEpoll and the close of the fd: co_fd is set.
Hooked == {"armed", "suspended", "resumed", "reread", "closing", "cleared"}

HookFd == \A c \in Coroutine : co_pc[c] \in Hooked => co_fd[c] \in Fd

TypeInv == TypeOK /\ HookFd

-----------------------------------------------------------------------------
(* Type correctness                                                        *)

\* An update of one entry of a function of functions keeps its type.
LEMMA Update2 ==
  ASSUME NEW A, NEW B, NEW C, NEW g \in [A -> [B -> C]],
         NEW a \in A, NEW b \in B, NEW v \in C
  PROVE  [g EXCEPT ![a][b] = v] \in [A -> [B -> C]]
  OBVIOUS

\* What the steps with a helper for the pending lists do to the types.
LEMMA AddEventType ==
  ASSUME TypeOK, NEW r \in Reactor, NEW c \in Coroutine, NEW q \in Reactor,
         NEW f \in Fd, NEW mask \in Mask, AddEvent(r, c, q, f, mask)
  PROVE  /\ epoll' \in [Reactor -> [Fd -> Mask]]
         /\ pending_add' \in [Reactor -> [Fd -> Mask \cup {"none"}]]
         /\ owes' \in [Coroutine \cup {Main} -> Reactor \cup {NULL}]
  <1>1. CASE q = r
    <2>1. epoll' = [epoll EXCEPT ![r][f] = mask] /\ pending_add' = pending_add /\ owes' = owes
      BY <1>1 DEF AddEvent, AddEventInLoopThread
    <2>2. epoll' \in [Reactor -> [Fd -> Mask]]
      BY <2>1, Update2 DEF TypeOK
    <2>3. QED
      BY <2>1, <2>2 DEF TypeOK
  <1>2. CASE q # r
    <2>1. /\ pending_add' = [pending_add EXCEPT ![q][f] =
                              IF pending_add[q][f] = "none" THEN mask ELSE pending_add[q][f]]
          /\ owes' = [owes EXCEPT ![c] = q] /\ epoll' = epoll
      BY <1>2 DEF AddEvent, AddEventInLoopThread
    <2>2. (IF pending_add[q][f] = "none" THEN mask ELSE pending_add[q][f])
             \in Mask \cup {"none"}
      BY DEF TypeOK
    <2>3. pending_add' \in [Reactor -> [Fd -> Mask \cup {"none"}]]
      BY <2>1, <2>2, Update2 DEF TypeOK
    <2>4. QED
      BY <2>1, <2>3 DEF TypeOK
  <1>3. QED BY <1>1, <1>2

LEMMA DelEventType ==
  ASSUME TypeOK, NEW r \in Reactor, NEW c \in Coroutine, NEW q \in Reactor,
         NEW f \in Fd, DelEvent(r, c, q, f)
  PROVE  /\ epoll' \in [Reactor -> [Fd -> Mask]]
         /\ pending_del' \in [Reactor -> SUBSET Fd]
         /\ owes' \in [Coroutine \cup {Main} -> Reactor \cup {NULL}]
  <1>1. "absent" \in Mask
    BY DEF Mask
  <1>2. CASE q = r
    <2>1. /\ epoll' = [epoll EXCEPT ![r][f] = "absent"]
          /\ pending_del' = pending_del /\ owes' = owes
      BY <1>2 DEF DelEvent, DelEventInLoopThread
    <2>2. epoll' \in [Reactor -> [Fd -> Mask]]
      BY <1>1, <2>1, Update2 DEF TypeOK
    <2>3. QED
      BY <2>1, <2>2 DEF TypeOK
  <1>3. CASE q # r
    <2>1. /\ pending_del' = [pending_del EXCEPT ![q] = pending_del[q] \cup {f}]
          /\ owes' = [owes EXCEPT ![c] = q] /\ epoll' = epoll
      BY <1>3 DEF DelEvent, DelEventInLoopThread
    <2>2. pending_del' \in [Reactor -> SUBSET Fd]
      BY <2>1 DEF TypeOK
    <2>3. QED
      BY <2>1, <2>2 DEF TypeOK
  <1>4. QED BY <1>2, <1>3

LEMMA ResumeType ==
  ASSUME TypeInv, NEW r \in Reactor, NEW c \in Coroutine \cup {NULL}, Resume(r, c)
  PROVE  /\ cur' \in [Reactor -> Coroutine \cup {NULL}]
         /\ co_pc' \in [Coroutine -> CoPc]
         /\ \A d \in Coroutine : co_pc'[d] \in Hooked => co_pc[d] \in Hooked
  <1>1. CASE c = NULL \/ co_pc[c] \in {"new", "done"}
    BY <1>1 DEF Resume, TypeInv, TypeOK
  <1>2. CASE ~(c = NULL \/ co_pc[c] \in {"new", "done"})
    <2>1. c \in Coroutine
      BY <1>2
    <2>2. co_pc[c] \in CoPc
      BY <2>1 DEF TypeInv, TypeOK
    <2>3. CASE co_pc[c] = "posted"
      BY <1>2, <2>1, <2>3, ZenonT(40) DEF Resume, TypeInv, TypeOK, CoPc, Hooked
    <2>4. CASE co_pc[c] = "suspended"
      BY <1>2, <2>1, <2>4 DEF Resume, TypeInv, TypeOK, CoPc, Hooked
    <2>5. CASE co_pc[c] \notin {"posted", "suspended"}
      BY <1>2, <2>1, <2>2, <2>5 DEF Resume, TypeInv, TypeOK, CoPc, Hooked
    <2>6. QED BY <2>3, <2>4, <2>5
  <1>3. QED BY <1>1, <1>2

LEMMA LoopTypes ==
  ASSUME TypeInv, NEW r \in Reactor, LoopStep(r)
  PROVE  TypeInv'
  <1> USE SchedulerAssumption DEF TypeInv, TypeOK, HookFd
  <1>1. CASE StartLoop(r)
    BY <1>1 DEF StartLoop, LoopPc, pendVars, fdVars, coVars, envVars
  <1>2. CASE ResumeFirst(r)
    <2>1. first[r] \in Coroutine \cup {NULL}
      OBVIOUS
    <2>2. Resume(r, first[r])
      BY <1>2 DEF ResumeFirst
    <2>3. QED
      BY <1>2, <2>1, <2>2, ResumeType
      DEF ResumeFirst, ClearFirst, LoopPc, pendVars, fdVars, envVars
  <1>3. CASE PopQueue(r)
    <2>1. queue # <<>> /\ Resume(r, fd_cor[Head(queue)]) /\ queue' = Tail(queue)
      BY <1>3 DEF PopQueue, Pop
    <2>2. Head(queue) \in Fd /\ Tail(queue) \in Seq(Fd)
      BY <2>1, HeadTailProperties
    <2>3. QED
      BY <1>3, <2>1, <2>2, ResumeType DEF PopQueue, Pop, pendVars, envVars
  <1>4. CASE SwapTasks(r)
    BY <1>4 DEF SwapTasks, Taken, LoopPc, fdVars, coVars, envVars
  <1>5. CASE RunTask(r)
    <2>1. /\ tmp_tasks[r] # <<>> /\ Resume(r, Head(tmp_tasks[r]))
          /\ tmp_tasks' = [tmp_tasks EXCEPT ![r] = Tail(tmp_tasks[r])]
      BY <1>5 DEF RunTask
    <2>2. Head(tmp_tasks[r]) \in Coroutine /\ Tail(tmp_tasks[r]) \in Seq(Coroutine)
      BY <2>1, HeadTailProperties
    <2>3. QED
      BY <1>5, <2>1, <2>2, ResumeType DEF RunTask, pendVars, fdVars, envVars
  <1>6. CASE TasksDone(r)
    BY <1>6 DEF TasksDone, LoopPc, pendVars, fdVars, coVars, envVars
  <1>7. CASE EpollWait(r)
    <2>1. Reported(r) \subseteq Fd \cup {WakeFd}
      BY DEF Reported
    <2>2. QED
      BY <1>7, <2>1 DEF EpollWait, LoopPc, pendVars, fdVars, coVars, envVars
  <1>8. CASE HandleWake(r)
    BY <1>8 DEF HandleWake, pendVars, fdVars, coVars, envVars
  <1>9. CASE ApplyPending(r)
    <2>1. Applied(r) \in [Fd -> Mask]
      BY DEF Applied, Mask
    <2>2. QED
      BY <1>9, <2>1 DEF ApplyPending, LoopPc, fdVars, coVars, envVars
  <1>10. ASSUME NEW f \in Fd, HandleError(r, f)
         PROVE  TypeInv'
    <2>1. "absent" \in Mask
      BY DEF Mask
    <2>2. epoll' \in [Reactor -> [Fd -> Mask]]
      BY <1>10, <2>1, Update2 DEF HandleError, DelEventInLoopThread
    <2>3. QED
      BY <1>10, <2>2 DEF HandleError, DelEventInLoopThread, pendVars, fdVars, coVars, envVars
  <1>11. ASSUME NEW f \in Fd, HandleEvent(r, f)
         PROVE  TypeInv'
    <2>1. "absent" \in Mask
      BY DEF Mask
    <2>2. CASE first[r] = NULL
      BY <1>11, <2>2, ZenonT(40) DEF HandleEvent, pendVars, coVars, envVars
    <2>3. CASE first[r] # NULL
      <3>1. /\ epoll' = [epoll EXCEPT ![r][f] = "absent"]
            /\ fd_reactor' = [fd_reactor EXCEPT ![f] = NULL]
            /\ queue' = Append(queue, f) /\ first' = first
        BY <1>11, <2>3 DEF HandleEvent, Migrate, DelEventInLoopThread, Push
      <3>2. epoll' \in [Reactor -> [Fd -> Mask]]
        BY <2>1, <3>1, Update2
      <3>3. QED
        BY <1>11, <3>1, <3>2 DEF HandleEvent, pendVars, coVars, envVars
    <2>4. QED BY <2>2, <2>3
  <1>12. QED
    BY <1>1, <1>2, <1>3, <1>4, <1>5, <1>6, <1>7, <1>8, <1>9, <1>10, <1>11 DEF LoopStep

LEMMA CoroutineTypes ==
  ASSUME TypeInv, NEW r \in Reactor, NEW c \in Coroutine, CoroutineStep(r, c)
  PROVE  TypeInv'
  <1> USE SchedulerAssumption DEF TypeInv, TypeOK, HookFd
  <1>0. \A f \in Fd : ReactorOf(f, r) \in Reactor
    BY DEF ReactorOf
  <1>1. ASSUME NEW f \in Fd, HookSucceeds(r, c, f)
        PROVE  TypeInv'
    BY <1>0, <1>1 DEF HookSucceeds, loopVars, pendVars, coVars
  <1>2. ASSUME NEW f \in Fd, HookBlocks(r, c, f)
        PROVE  TypeInv'
    <2>1. /\ epoll' \in [Reactor -> [Fd -> Mask]]
          /\ pending_add' \in [Reactor -> [Fd -> Mask \cup {"none"}]]
          /\ owes' \in [Coroutine \cup {Main} -> Reactor \cup {NULL}]
      BY <1>0, <1>2, AddEventType, ZenonT(40) DEF HookBlocks, AddListenEvents, Mask
    <2>2. QED
      BY <1>0, <1>2, <2>1, ZenonT(40) DEF HookBlocks, AddListenEvents, SetCoroutine, CoPc, Hooked,
         loopVars, envVars
  <1>3. CASE YieldHook(r, c)
    BY <1>3 DEF YieldHook, CoPc, Hooked, pendVars, fdVars, envVars
  <1>4. CASE Unlisten(r, c)
    <2>1. co_fd[c] \in Fd
      BY <1>4 DEF Unlisten, Hooked
    <2>2. /\ epoll' \in [Reactor -> [Fd -> Mask]]
          /\ pending_add' \in [Reactor -> [Fd -> Mask \cup {"none"}]]
          /\ owes' \in [Coroutine \cup {Main} -> Reactor \cup {NULL}]
      BY <1>0, <1>4, <2>1, AddEventType, ZenonT(40) DEF Unlisten, Mask
    <2>3. QED
      <3>1. /\ fd_reactor' = [fd_reactor EXCEPT ![co_fd[c]] = ReactorOf(co_fd[c], r)]
            /\ listen' = [listen EXCEPT ![co_fd[c]] = FALSE]
            /\ fd_cor' = [fd_cor EXCEPT ![co_fd[c]] = NULL]
            /\ co_pc' = [co_pc EXCEPT ![c] = "reread"]
            /\ UNCHANGED <<loopVars, pending_tasks, pending_del, wake, queue, co_fd,
                           closed, envVars>>
            /\ co_pc[c] = "resumed"
        BY <1>4 DEF Unlisten
      <3>2. QED
        BY <1>0, <2>1, <2>2, <3>1 DEF CoPc, Hooked, loopVars, envVars
  <1>5. CASE Reread(r, c)
    BY <1>5 DEF Reread, CoPc, Hooked, loopVars, pendVars, fdVars
  <1>6. CASE ClearClient(r, c)
    <2>1. co_fd[c] \in Fd
      BY <1>6 DEF ClearClient, Hooked
    <2>2. DelEvent(r, c, ReactorOf(co_fd[c], r), co_fd[c])
      BY <1>6 DEF ClearClient, Unregister
    <2>3. QED
      <3>1. /\ epoll' \in [Reactor -> [Fd -> Mask]]
            /\ pending_del' \in [Reactor -> SUBSET Fd]
            /\ owes' \in [Coroutine \cup {Main} -> Reactor \cup {NULL}]
        BY <1>0, <2>1, <2>2, DelEventType
      <3>2. /\ fd_reactor' = [fd_reactor EXCEPT ![co_fd[c]] = ReactorOf(co_fd[c], r)]
            /\ listen' = [listen EXCEPT ![co_fd[c]] = FALSE]
            /\ closed' = closed \cup {co_fd[c]}
            /\ co_pc' = [co_pc EXCEPT ![c] = "cleared"]
            /\ UNCHANGED <<loopVars, pending_tasks, pending_add, wake, queue, fd_cor,
                           co_fd, envVars>>
            /\ co_pc[c] = "closing"
        BY <1>6 DEF ClearClient, Unregister
      <3>3. QED
        BY <1>0, <2>1, <3>1, <3>2 DEF CoPc, Hooked, loopVars, envVars
  <1>7. CASE Finish(r, c)
    BY <1>7 DEF Finish, CoPc, Hooked, pendVars, fdVars, envVars
  <1>8. ASSUME NEW f \in Fd, EndCall(r, c, f)
        PROVE  TypeInv'
    <2>1. DelEvent(r, c, ReactorOf(f, r), f)
      BY <1>8 DEF EndCall, Unregister
    <2>2. QED
      BY <1>0, <1>8, <2>1, DelEventType, ZenonT(40) DEF EndCall, Unregister, loopVars, envVars
  <1>9. QED
    BY <1>1, <1>2, <1>3, <1>4, <1>5, <1>6, <1>7, <1>8 DEF CoroutineStep

LEMMA TypeStep ==
  TypeInv /\ [Next]_vars => TypeInv'
  <1> SUFFICES ASSUME TypeInv, [Next]_vars PROVE TypeInv'
    OBVIOUS
  <1> USE SchedulerAssumption DEF TypeInv, TypeOK, HookFd
  <1>1. ASSUME NEW r \in Reactor, ThreadStep(r) PROVE TypeInv'
    BY <1>1, LoopTypes, CoroutineTypes DEF ThreadStep
  <1>2. ASSUME NEW a \in Coroutine \cup {Main}, Wakeup(a) PROVE TypeInv'
    <2>1. owes[a] \in Reactor
      BY <1>2 DEF Wakeup
    <2>2. Woken(owes[a]) \in BOOLEAN
      BY <2>1 DEF Woken
    <2>3. QED
      BY <1>2, <2>1, <2>2 DEF Wakeup, loopVars, pendVars, fdVars, coVars, envVars
  <1>3. ASSUME NEW c \in Coroutine, NEW r \in Reactor, Post(c, r) PROVE TypeInv'
    <2>1. Append(pending_tasks[r], c) \in Seq(Coroutine)
      OBVIOUS
    <2>2. QED
      BY <1>3, <2>1 DEF Post, CoPc, Hooked, loopVars, envVars
  <1>4. ASSUME NEW f \in Fd, Arrive(f) PROVE TypeInv'
    BY <1>4 DEF Arrive, loopVars, pendVars, fdVars, coVars
  <1>5. ASSUME NEW f \in Fd, HangUp(f) PROVE TypeInv'
    BY <1>5 DEF HangUp, loopVars, pendVars, fdVars, coVars
  <1>6. CASE UNCHANGED vars
    BY <1>6 DEF vars, loopVars, pendVars, fdVars, coVars, envVars
  <1>7. QED
    BY <1>1, <1>2, <1>3, <1>4, <1>5, <1>6 DEF Next

LEMMA TypeInit == Init => TypeInv
  BY SchedulerAssumption
  DEF Init, TypeInv, TypeOK, HookFd, Hooked, LoopPc, CoPc, Mask

\* The variables of the scheduler keep their types, and a coroutine that stands
\* inside a hooked call has an fd it made the call on.
THEOREM TypeCorrect == Spec => []TypeInv
  BY TypeInit, TypeStep, PTL DEF Spec

\* The type invariant the runs check.
THEOREM SpecTypeOK == Spec => []TypeOK
  BY TypeCorrect, PTL DEF TypeInv
-----------------------------------------------------------------------------
(* No wakeup is lost, with or without nested calls                         *)

OwnFds(c) == {ConnFd[c]} \cup CallFds[c]

\* The coroutine has not run yet.
Fresh(c) == co_pc[c] \in {"new", "posted"}

\* FdEvents, first_coroutine and the queue know coroutines that have run only, and a
\* hook is called on a socket of one's own.
FreshInv ==
  /\ \A f \in Fd : fd_cor[f] # NULL => f \in OwnFds(fd_cor[f]) /\ ~Fresh(fd_cor[f])
  /\ \A r \in Reactor : first[r] # NULL => ~Fresh(first[r])
  /\ \A i \in 1..Len(queue) : \A c \in Coroutine : queue[i] = ConnFd[c] => ~Fresh(c)
  /\ \A c \in Coroutine : co_pc[c] \in Hooked => co_fd[c] \in OwnFds(c)

\* A coroutine a reactor was given was posted, and while it has not run its connection
\* is in the reactor it was posted to.
PostedTo(c, r) ==
  co_pc[c] # "new" /\ (co_pc[c] = "posted" => fd_reactor[ConnFd[c]] = r)

HomeInv ==
  \A r \in Reactor :
    /\ \A i \in 1..Len(pending_tasks[r]) : PostedTo(pending_tasks[r][i], r)
    /\ \A i \in 1..Len(tmp_tasks[r]) : PostedTo(tmp_tasks[r][i], r)

\* A reactor whose loop has not begun has run nobody, and is the reactor of the
\* connections it was given only.
BegunInv ==
  \A r \in Reactor : loop_pc[r] = "start" =>
    /\ cur[r] = NULL /\ tmp_tasks[r] = <<>>
    /\ \A f \in Fd : fd_reactor[f] = r =>
         \E c \in Coroutine : f = ConnFd[c] /\ co_pc[c] = "posted"

\* The eventfd of the reactor is set, or somebody is about to set it.
WakeupDue(r) == wake[r] \/ \E a \in Coroutine \cup {Main} : owes[a] = r

Registrations(r) == pending_del[r] # {} \/ \E f \in Fd : pending_add[r][f] # "none"

\* What is pending is behind a wakeup, or ahead of the loop in this turn already.
GivenInv ==
  \A r \in Reactor :
    /\ pending_tasks[r] # <<>> =>
         WakeupDue(r) \/ loop_pc[r] \in {"start", "first", "pop", "batch"}
    /\ Registrations(r) => loop_pc[r] # "start" /\ (WakeupDue(r) \/ loop_pc[r] = "batch")

WakeInv == TypeInv /\ FreshInv /\ HomeInv /\ BegunInv /\ GivenInv

LEMMA OwnFdsApart ==
  ASSUME NEW c \in Coroutine, NEW d \in Coroutine, NEW f \in OwnFds(c), f \in OwnFds(d)
  PROVE  c = d
  BY SchedulerAssumption DEF OwnFds

\* What each part of the invariant depends on.
LEMMA WakeFrame ==
  /\ FreshInv /\ UNCHANGED <<fd_cor, first, queue, co_pc, co_fd>> => FreshInv'
  /\ HomeInv /\ UNCHANGED <<pending_tasks, tmp_tasks, co_pc, fd_reactor>> => HomeInv'
  /\ BegunInv /\ UNCHANGED <<loop_pc, cur, tmp_tasks, fd_reactor, co_pc>> => BegunInv'
  /\ GivenInv /\ UNCHANGED <<pendVars, wake, owes, loop_pc>> => GivenInv'
  BY DEF FreshInv, Fresh, HomeInv, PostedTo, BegunInv, GivenInv, WakeupDue, Registrations,
         pendVars

\* A coroutine that is resumed has run afterwards, and nobody else changes.
LEMMA ResumeFresh ==
  ASSUME TypeInv, NEW r \in Reactor, NEW c \in Coroutine \cup {NULL}, Resume(r, c)
  PROVE  /\ \A d \in Coroutine : co_pc'[d] \in Hooked => co_pc[d] \in Hooked
         /\ \A d \in Coroutine : Fresh(d)' => Fresh(d)
         /\ \A d \in Coroutine : co_pc'[d] = "posted" => co_pc[d] = "posted"
         /\ \A d \in Coroutine : co_pc'[d] = "new" => co_pc[d] = "new"
         /\ \A d \in Coroutine : d # c /\ co_pc[d] = "posted" => co_pc'[d] = "posted"
         /\ \A q \in Reactor : q # r => cur'[q] = cur[q]
  <1>1. \A d \in Coroutine : co_pc'[d] \in Hooked => co_pc[d] \in Hooked
    BY ResumeType
  <1>2. CASE c = NULL \/ co_pc[c] \in {"new", "done"}
    BY <1>1, <1>2 DEF Resume, Fresh
  <1>3. CASE ~(c = NULL \/ co_pc[c] \in {"new", "done"})
    <2>1. /\ c \in Coroutine
          /\ cur' = [cur EXCEPT ![r] = c]
          /\ co_pc' = [co_pc EXCEPT ![c] = IF co_pc[c] = "posted" THEN "run"
                                            ELSE IF co_pc[c] = "suspended" THEN "resumed"
                                            ELSE co_pc[c]]
      BY <1>3 DEF Resume
    <2>2. co_pc \in [Coroutine -> CoPc] /\ cur \in [Reactor -> Coroutine \cup {NULL}]
      BY DEF TypeInv, TypeOK
    <2>3. \A d \in Coroutine : d # c => co_pc'[d] = co_pc[d]
      BY <2>1, <2>2
    <2>4. co_pc'[c] \notin {"new", "posted"}
      BY <1>3, <2>1, <2>2
    <2>5. QED
      BY <1>1, <2>1, <2>2, <2>3, <2>4 DEF Fresh
  <1>4. QED BY <1>2, <1>3

\* FreshInv and HomeInv when no coroutine becomes fresh, and what the reactors know
\* only shrinks.
LEMMA FreshKept ==
  ASSUME FreshInv, UNCHANGED <<fd_cor, co_fd>>,
         \A d \in Coroutine : co_pc'[d] \in Hooked => co_pc[d] \in Hooked,
         \A d \in Coroutine : Fresh(d)' => Fresh(d),
         fd_cor \in [Fd -> Coroutine \cup {NULL}],
         first \in [Reactor -> Coroutine \cup {NULL}],
         \A r \in Reactor : first'[r] # NULL => first'[r] = first[r],
         \A i \in 1..Len(queue') : \E j \in 1..Len(queue) : queue'[i] = queue[j]
  PROVE  FreshInv'
  <1>0. \A d \in Coroutine : co_pc'[d] \in {"new", "posted"} => co_pc[d] \in {"new", "posted"}
    BY DEF Fresh
  <1>1. \A f \in Fd : fd_cor[f] # NULL =>
           f \in OwnFds(fd_cor[f]) /\ co_pc'[fd_cor[f]] \notin {"new", "posted"}
    BY <1>0 DEF FreshInv, Fresh
  <1>2. \A r \in Reactor : first'[r] # NULL => co_pc'[first'[r]] \notin {"new", "posted"}
    BY <1>0 DEF FreshInv, Fresh
  <1>3. \A i \in 1..Len(queue') : \A c \in Coroutine :
           queue'[i] = ConnFd[c] => co_pc'[c] \notin {"new", "posted"}
    BY <1>0 DEF FreshInv, Fresh
  <1>4. \A c \in Coroutine : co_pc'[c] \in Hooked => co_fd[c] \in OwnFds(c)
    BY DEF FreshInv
  <1>5. QED
    BY <1>1, <1>2, <1>3, <1>4 DEF FreshInv, Fresh, OwnFds

LEMMA HomeKept ==
  ASSUME HomeInv, UNCHANGED fd_reactor, TypeInv,
         \A d \in Coroutine : co_pc'[d] = "posted" => co_pc[d] = "posted",
         \A d \in Coroutine : co_pc'[d] = "new" => co_pc[d] = "new",
         \A r \in Reactor : \A i \in 1..Len(pending_tasks'[r]) :
           \E j \in 1..Len(pending_tasks[r]) : pending_tasks'[r][i] = pending_tasks[r][j],
         \A r \in Reactor : \A i \in 1..Len(tmp_tasks'[r]) :
           \/ \E j \in 1..Len(pending_tasks[r]) : tmp_tasks'[r][i] = pending_tasks[r][j]
           \/ \E j \in 1..Len(tmp_tasks[r]) : tmp_tasks'[r][i] = tmp_tasks[r][j]
  PROVE  HomeInv'
  <1>1. ASSUME NEW r \in Reactor, NEW i \in 1..Len(pending_tasks'[r])
        PROVE  PostedTo(pending_tasks[r][i], r)'
    <2>1. PICK j \in 1..Len(pending_tasks[r]) : pending_tasks'[r][i] = pending_tasks[r][j]
      BY <1>1
    <2>2. pending_tasks[r][j] \in Coroutine
      BY DEF TypeInv, TypeOK
    <2>3. PostedTo(pending_tasks[r][j], r)
      BY <2>1 DEF HomeInv
    <2>4. QED
      BY <2>1, <2>2, <2>3 DEF PostedTo
  <1>2. ASSUME NEW r \in Reactor, NEW i \in 1..Len(tmp_tasks'[r])
        PROVE  PostedTo(tmp_tasks[r][i], r)'
    <2>1. CASE \E j \in 1..Len(pending_tasks[r]) : tmp_tasks'[r][i] = pending_tasks[r][j]
      <3>1. PICK j \in 1..Len(pending_tasks[r]) : tmp_tasks'[r][i] = pending_tasks[r][j]
        BY <2>1
      <3>2. pending_tasks[r][j] \in Coroutine
        BY DEF TypeInv, TypeOK
      <3>3. PostedTo(pending_tasks[r][j], r)
        BY <3>1 DEF HomeInv
      <3>4. QED
        BY <3>1, <3>2, <3>3 DEF PostedTo
    <2>2. CASE \E j \in 1..Len(tmp_tasks[r]) : tmp_tasks'[r][i] = tmp_tasks[r][j]
      <3>1. PICK j \in 1..Len(tmp_tasks[r]) : tmp_tasks'[r][i] = tmp_tasks[r][j]
        BY <2>2
      <3>2. tmp_tasks[r][j] \in Coroutine
        BY DEF TypeInv, TypeOK
      <3>3. PostedTo(tmp_tasks[r][j], r)
        BY <3>1 DEF HomeInv
      <3>4. QED
        BY <3>1, <3>2, <3>3 DEF PostedTo
    <2>3. QED BY <1>2, <2>1, <2>2
  <1>3. QED
    BY <1>1, <1>2 DEF HomeInv

LEMMA LoopWake ==
  ASSUME WakeInv, NEW r \in Reactor, LoopStep(r)
  PROVE  FreshInv' /\ HomeInv' /\ BegunInv' /\ GivenInv'
  <1> USE DEF WakeInv
  <1>0. /\ loop_pc \in [Reactor -> LoopPc] /\ cur \in [Reactor -> Coroutine \cup {NULL}]
        /\ first \in [Reactor -> Coroutine \cup {NULL}]
        /\ tmp_tasks \in [Reactor -> Seq(Coroutine)]
        /\ pending_tasks \in [Reactor -> Seq(Coroutine)]
        /\ pending_add \in [Reactor -> [Fd -> Mask \cup {"none"}]]
        /\ pending_del \in [Reactor -> SUBSET Fd]
        /\ wake \in [Reactor -> BOOLEAN] /\ queue \in Seq(Fd)
        /\ fd_reactor \in [Fd -> Reactor \cup {NULL}]
        /\ fd_cor \in [Fd -> Coroutine \cup {NULL}]
        /\ co_pc \in [Coroutine -> CoPc]
        /\ ConnFd \in [Coroutine -> Fd]
    BY SchedulerAssumption DEF TypeInv, TypeOK
  <1>1. CASE StartLoop(r)
    <2>1. FreshInv' /\ HomeInv'
      BY <1>1, WakeFrame DEF StartLoop, pendVars, fdVars, coVars
    <2>2. BegunInv' /\ GivenInv'
      BY <1>0, <1>1 DEF StartLoop, pendVars, fdVars, coVars, BegunInv, GivenInv, WakeupDue,
         Registrations
    <2>3. QED BY <2>1, <2>2
  <1>2. CASE ResumeFirst(r)
    <2>1. /\ Resume(r, first[r]) /\ first' = [first EXCEPT ![r] = NULL]
          /\ loop_pc[r] = "first" /\ loop_pc' = [loop_pc EXCEPT ![r] = "pop"]
          /\ UNCHANGED <<tmp_tasks, pending_tasks, pending_add, pending_del, wake, queue,
                         fd_reactor, fd_cor, co_fd, owes>>
      BY <1>2 DEF ResumeFirst, ClearFirst, pendVars, fdVars
    <2>2. FreshInv'
      BY <1>0, <2>1, ResumeFresh, FreshKept
    <2>3. HomeInv'
      BY <1>0, <2>1, ResumeFresh, HomeKept
    <2>4. \A d \in Coroutine : co_pc[d] = "posted" => co_pc'[d] = "posted"
      <3>1. first[r] \in Coroutine \cup {NULL}
        BY <1>0
      <3>2. \A d \in Coroutine : d # first[r] /\ co_pc[d] = "posted" => co_pc'[d] = "posted"
        BY <2>1, <3>1, ResumeFresh
      <3>3. first[r] \in Coroutine => co_pc[first[r]] # "posted"
        BY SchedulerAssumption DEF FreshInv, Fresh
      <3>4. QED
        BY <3>2, <3>3
    <2>5. \A q \in Reactor : q # r => cur'[q] = cur[q]
      BY <1>0, <2>1, ResumeFresh
    <2>6. BegunInv'
      BY <1>0, <2>1, <2>4, <2>5 DEF BegunInv
    <2>7. GivenInv'
      BY <1>0, <2>1 DEF GivenInv, WakeupDue, Registrations
    <2>8. QED BY <2>2, <2>3, <2>6, <2>7
  <1>3. CASE PopQueue(r)
    <2>1. /\ queue # <<>> /\ queue' = Tail(queue)
          /\ Resume(r, fd_cor[Head(queue)])
          /\ fd_reactor' = [fd_reactor EXCEPT ![Head(queue)] = r]
          /\ loop_pc[r] = "pop"
          /\ UNCHANGED <<loop_pc, first, tmp_tasks, pending_tasks, pending_add, pending_del,
                         wake, fd_cor, co_fd, owes>>
      BY <1>3 DEF PopQueue, Pop, pendVars
    <2>2. /\ Head(queue) \in Fd /\ Head(queue) = queue[1] /\ 1 \in 1..Len(queue)
          /\ \A i \in 1..Len(queue') : queue'[i] = queue[i + 1] /\ i + 1 \in 1..Len(queue)
      BY <1>0, <2>1
    <2>3. fd_cor[Head(queue)] \in Coroutine \cup {NULL}
      BY <1>0, <2>2
    <2>4. FreshInv'
      BY <1>0, <2>1, <2>2, <2>3, ResumeFresh, FreshKept
    <2>5. \A d \in Coroutine : co_pc[d] = "posted" => co_pc'[d] = "posted"
      BY <1>0, <2>1, <2>2, <2>3, ResumeFresh, SchedulerAssumption DEF FreshInv, Fresh
    <2>6. \A d \in Coroutine : co_pc'[d] = "posted" =>
             co_pc[d] = "posted" /\ fd_reactor'[ConnFd[d]] = fd_reactor[ConnFd[d]]
      BY <1>0, <2>1, <2>2, <2>3, ResumeFresh DEF FreshInv, Fresh
    <2>7. HomeInv'
      <3>1. \A d \in Coroutine : co_pc'[d] = "new" => co_pc[d] = "new"
        BY <2>1, <2>3, ResumeFresh
      <3>2. ASSUME NEW q \in Reactor, NEW d \in Coroutine, PostedTo(d, q)
            PROVE  PostedTo(d, q)'
        BY <2>6, <3>1, <3>2 DEF PostedTo
      <3>3. ASSUME NEW q \in Reactor, NEW i \in 1..Len(pending_tasks[q])
            PROVE  PostedTo(pending_tasks[q][i], q)'
        <4>1. PICK d \in Coroutine : pending_tasks[q][i] = d
          BY <1>0
        <4>2. PostedTo(d, q)
          BY <4>1 DEF HomeInv
        <4>3. QED
          BY <2>1, <3>2, <4>1, <4>2 DEF PostedTo
      <3>4. ASSUME NEW q \in Reactor, NEW i \in 1..Len(tmp_tasks[q])
            PROVE  PostedTo(tmp_tasks[q][i], q)'
        <4>1. PICK d \in Coroutine : tmp_tasks[q][i] = d
          BY <1>0
        <4>2. PostedTo(d, q)
          BY <4>1 DEF HomeInv
        <4>3. QED
          BY <2>1, <3>2, <4>1, <4>2 DEF PostedTo
      <3>5. QED
        BY <2>1, <3>3, <3>4 DEF HomeInv
    <2>8. \A q \in Reactor : q # r => cur'[q] = cur[q]
      BY <1>0, <2>1, <2>3, ResumeFresh
    <2>9. BegunInv'
      BY <1>0, <2>1, <2>2, <2>5, <2>8 DEF BegunInv
    <2>10. GivenInv'
      BY <2>1, WakeFrame DEF pendVars
    <2>11. QED BY <2>4, <2>7, <2>9, <2>10
  <1>4. CASE SwapTasks(r)
    <2>1. /\ loop_pc[r] = "pop" /\ loop_pc' = [loop_pc EXCEPT ![r] = "tasks"]
          /\ tmp_tasks' = [tmp_tasks EXCEPT ![r] = pending_tasks[r]]
          /\ pending_tasks' = [pending_tasks EXCEPT ![r] = <<>>]
          /\ UNCHANGED <<cur, first, pending_add, pending_del, wake, queue, fd_reactor, fd_cor,
                         co_pc, co_fd, owes>>
      BY <1>4 DEF SwapTasks, Taken, fdVars, coVars
    <2>2. FreshInv'
      BY <2>1, WakeFrame
    <2>3. HomeInv'
      <3>1. \A d \in Coroutine : co_pc'[d] = "posted" => co_pc[d] = "posted"
        BY <2>1
      <3>2. \A q \in Reactor : \A i \in 1..Len(pending_tasks'[q]) :
              \E j \in 1..Len(pending_tasks[q]) : pending_tasks'[q][i] = pending_tasks[q][j]
        BY <1>0, <2>1
      <3>3. \A q \in Reactor : \A i \in 1..Len(tmp_tasks'[q]) :
              \/ \E j \in 1..Len(pending_tasks[q]) : tmp_tasks'[q][i] = pending_tasks[q][j]
              \/ \E j \in 1..Len(tmp_tasks[q]) : tmp_tasks'[q][i] = tmp_tasks[q][j]
        BY <1>0, <2>1
      <3>4. QED
        BY <2>1, <3>1, <3>2, <3>3, HomeKept
    <2>4. BegunInv'
      BY <1>0, <2>1 DEF BegunInv
    <2>5. GivenInv'
      BY <1>0, <2>1 DEF GivenInv, WakeupDue, Registrations
    <2>6. QED BY <2>2, <2>3, <2>4, <2>5
  <1>5. CASE RunTask(r)
    <2>1. /\ loop_pc[r] = "tasks" /\ tmp_tasks[r] # <<>>
          /\ Resume(r, Head(tmp_tasks[r]))
          /\ tmp_tasks' = [tmp_tasks EXCEPT ![r] = Tail(tmp_tasks[r])]
          /\ UNCHANGED <<loop_pc, first, pending_tasks, pending_add, pending_del, wake, queue,
                         fd_reactor, fd_cor, co_fd, owes>>
      BY <1>5 DEF RunTask, pendVars, fdVars
    <2>2. /\ Head(tmp_tasks[r]) \in Coroutine /\ Head(tmp_tasks[r]) = tmp_tasks[r][1]
          /\ 1 \in 1..Len(tmp_tasks[r])
          /\ \A i \in 1..Len(Tail(tmp_tasks[r])) :
               Tail(tmp_tasks[r])[i] = tmp_tasks[r][i + 1] /\ i + 1 \in 1..Len(tmp_tasks[r])
      BY <1>0, <2>1
    <2>3. FreshInv'
      BY <1>0, <2>1, <2>2, ResumeFresh, FreshKept
    <2>4. HomeInv'
      <3>1. \A q \in Reactor : \A i \in 1..Len(tmp_tasks'[q]) :
              \E j \in 1..Len(tmp_tasks[q]) : tmp_tasks'[q][i] = tmp_tasks[q][j]
        BY <1>0, <2>1, <2>2
      <3>2. QED
        BY <1>0, <2>1, <2>2, <3>1, ResumeFresh, HomeKept
    <2>5. \A d \in Coroutine : d # Head(tmp_tasks[r]) /\ co_pc[d] = "posted" => co_pc'[d] = "posted"
      BY <2>1, <2>2, ResumeFresh
    <2>6. co_pc[Head(tmp_tasks[r])] = "posted" => fd_reactor[ConnFd[Head(tmp_tasks[r])]] = r
      BY <2>2 DEF HomeInv, PostedTo
    <2>7. \A q \in Reactor : q # r => cur'[q] = cur[q]
      BY <2>1, <2>2, ResumeFresh
    <2>8. BegunInv'
      <3> SUFFICES ASSUME NEW q \in Reactor, loop_pc[q] = "start"
                   PROVE  /\ cur'[q] = NULL /\ tmp_tasks'[q] = <<>>
                          /\ \A f \in Fd : fd_reactor[f] = q =>
                               \E c \in Coroutine : f = ConnFd[c] /\ co_pc'[c] = "posted"
        BY <2>1 DEF BegunInv
      <3>1. q # r
        BY <2>1
      <3>2. cur'[q] = NULL /\ tmp_tasks'[q] = <<>>
        BY <1>0, <2>1, <2>7, <3>1 DEF BegunInv
      <3>3. ASSUME NEW f \in Fd, fd_reactor[f] = q
            PROVE  \E c \in Coroutine : f = ConnFd[c] /\ co_pc'[c] = "posted"
        <4>1. PICK c \in Coroutine : f = ConnFd[c] /\ co_pc[c] = "posted"
          BY <3>3 DEF BegunInv
        <4>2. c # Head(tmp_tasks[r])
          BY <2>6, <3>1, <3>3, <4>1
        <4>3. QED
          BY <2>5, <4>1, <4>2
      <3>4. QED BY <3>2, <3>3
    <2>9. GivenInv'
      BY <2>1, WakeFrame DEF pendVars
    <2>10. QED BY <2>3, <2>4, <2>8, <2>9
  <1>6. CASE TasksDone(r)
    <2>1. FreshInv' /\ HomeInv'
      BY <1>6, WakeFrame DEF TasksDone, pendVars, fdVars, coVars
    <2>2. BegunInv' /\ GivenInv'
      BY <1>0, <1>6 DEF TasksDone, pendVars, fdVars, coVars, BegunInv, GivenInv, WakeupDue,
         Registrations
    <2>3. QED BY <2>1, <2>2
  <1>7. CASE EpollWait(r)
    <2>1. FreshInv' /\ HomeInv'
      BY <1>7, WakeFrame DEF EpollWait, pendVars, fdVars, coVars
    <2>2. /\ loop_pc[r] = "wait" /\ loop_pc' = [loop_pc EXCEPT ![r] = "batch"]
          /\ UNCHANGED <<cur, tmp_tasks, pending_tasks, pending_add, pending_del, wake, owes,
                         fd_reactor, co_pc>>
      BY <1>7 DEF EpollWait, pendVars, fdVars, coVars
    <2>3. BegunInv' /\ GivenInv'
      BY <1>0, <2>2 DEF BegunInv, GivenInv, WakeupDue, Registrations
    <2>4. QED BY <2>1, <2>3
  <1>8. CASE HandleWake(r)
    <2>1. FreshInv' /\ HomeInv' /\ BegunInv'
      BY <1>8, WakeFrame DEF HandleWake, pendVars, fdVars, coVars
    <2>2. GivenInv'
      BY <1>0, <1>8 DEF HandleWake, pendVars, GivenInv, WakeupDue, Registrations
    <2>3. QED BY <2>1, <2>2
  <1>9. CASE ApplyPending(r)
    <2>1. FreshInv' /\ HomeInv'
      BY <1>9, WakeFrame DEF ApplyPending, fdVars, coVars
    <2>2. /\ loop_pc[r] = "batch"
          /\ pending_add' = [pending_add EXCEPT ![r] = [f \in Fd |-> "none"]]
          /\ pending_del' = [pending_del EXCEPT ![r] = {}]
          /\ loop_pc' = [loop_pc EXCEPT ![r] = IF first[r] = NULL THEN "pop" ELSE "first"]
          /\ UNCHANGED <<cur, tmp_tasks, pending_tasks, wake, owes, fd_reactor, co_pc>>
      BY <1>9 DEF ApplyPending, fdVars, coVars
    <2>3. BegunInv'
      BY <1>0, <2>2 DEF BegunInv
    <2>4. GivenInv'
      BY <1>0, <2>2 DEF GivenInv, WakeupDue, Registrations
    <2>5. QED BY <2>1, <2>3, <2>4
  <1>10. ASSUME NEW f \in Fd, HandleError(r, f)
         PROVE  FreshInv' /\ HomeInv' /\ BegunInv' /\ GivenInv'
    BY <1>10, WakeFrame DEF HandleError, pendVars, fdVars, coVars
  <1>11. ASSUME NEW f \in Fd, HandleEvent(r, f)
         PROVE  FreshInv' /\ HomeInv' /\ BegunInv' /\ GivenInv'
    <2>1. /\ loop_pc[r] = "batch" /\ fd_cor[f] # NULL
          /\ UNCHANGED <<loop_pc, cur, tmp_tasks, pending_tasks, pending_add, pending_del, wake,
                         fd_cor, co_pc, co_fd, owes>>
      BY <1>11 DEF HandleEvent, pendVars, coVars
    <2>2. GivenInv'
      BY <2>1, WakeFrame DEF pendVars
    <2>3. CASE first[r] = NULL
      <3>1. /\ first' = [first EXCEPT ![r] = fd_cor[f]] /\ UNCHANGED <<fd_reactor, queue>>
        BY <1>11, <2>3 DEF HandleEvent
      <3>2. HomeInv' /\ BegunInv'
        BY <2>1, <3>1, WakeFrame
      <3>3. FreshInv'
        BY <1>0, <2>1, <3>1 DEF FreshInv, Fresh
      <3>4. QED BY <2>2, <3>2, <3>3
    <2>4. CASE first[r] # NULL
      <3>1. /\ fd_reactor' = [fd_reactor EXCEPT ![f] = NULL]
            /\ queue' = Append(queue, f) /\ UNCHANGED first
        BY <1>11, <2>4 DEF HandleEvent, Migrate, Push
      <3>2. fd_cor[f] \in Coroutine /\ f \in OwnFds(fd_cor[f]) /\ ~Fresh(fd_cor[f])
        BY <1>0, <2>1 DEF FreshInv
      <3>3. \A c \in Coroutine : f = ConnFd[c] => ~Fresh(c)
        BY <3>2, OwnFdsApart DEF OwnFds
      <3>4. FreshInv'
        <4>1. \A i \in 1..Len(queue') : queue'[i] = f \/ (i \in 1..Len(queue) /\ queue'[i] = queue[i])
          BY <1>0, <3>1
        <4>2. QED
          BY <2>1, <3>1, <3>3, <4>1 DEF FreshInv, Fresh
      <3>5. HomeInv'
        <4>1. \A q \in Reactor : \A i \in 1..Len(pending_tasks[q]) : pending_tasks[q][i] \in Coroutine
          BY <1>0
        <4>2. \A q \in Reactor : \A i \in 1..Len(tmp_tasks[q]) : tmp_tasks[q][i] \in Coroutine
          BY <1>0
        <4>3. \A c \in Coroutine : co_pc[c] = "posted" => fd_reactor'[ConnFd[c]] = fd_reactor[ConnFd[c]]
          BY <1>0, <3>1, <3>3 DEF Fresh
        <4>4. QED
          BY <2>1, <4>1, <4>2, <4>3 DEF HomeInv, PostedTo
      <3>6. BegunInv'
        BY <1>0, <2>1, <3>1, SchedulerAssumption DEF BegunInv
      <3>7. QED BY <2>2, <3>4, <3>5, <3>6
    <2>5. QED BY <2>3, <2>4
  <1>12. QED
    BY <1>1, <1>2, <1>3, <1>4, <1>5, <1>6, <1>7, <1>8, <1>9, <1>10, <1>11 DEF LoopStep

\* The reactor of a socket of a coroutine that runs has begun its loop.
LEMMA OwnReactor ==
  ASSUME WakeInv, NEW r \in Reactor, NEW c \in Coroutine, cur[r] = c, ~Fresh(c),
         NEW f \in Fd, f \in OwnFds(c)
  PROVE  /\ ReactorOf(f, r) \in Reactor
         /\ loop_pc[r] # "start"
         /\ loop_pc[ReactorOf(f, r)] # "start"
  <1>1. ReactorOf(f, r) \in Reactor
    BY DEF WakeInv, TypeInv, TypeOK, ReactorOf
  <1>2. loop_pc[r] # "start"
    BY SchedulerAssumption DEF WakeInv, BegunInv
  <1>3. CASE fd_reactor[f] = NULL
    BY <1>1, <1>2, <1>3 DEF ReactorOf
  <1>4. CASE fd_reactor[f] # NULL /\ loop_pc[fd_reactor[f]] = "start"
    <2>1. fd_reactor[f] \in Reactor
      BY <1>4 DEF WakeInv, TypeInv, TypeOK
    <2>2. PICK d \in Coroutine : f = ConnFd[d] /\ co_pc[d] = "posted"
      BY <1>4, <2>1 DEF WakeInv, BegunInv
    <2>3. c = d
      BY <2>2, OwnFdsApart DEF OwnFds
    <2>4. QED
      BY <2>2, <2>3 DEF Fresh
  <1>5. QED BY <1>1, <1>2, <1>3, <1>4 DEF ReactorOf

\* A coroutine that updates the FdEvent of its own socket leaves those of the fresh
\* ones alone.
LEMMA TouchOwn ==
  ASSUME WakeInv, NEW r \in Reactor, NEW c \in Coroutine, cur[r] = c, ~Fresh(c),
         NEW f \in Fd, f \in OwnFds(c),
         fd_reactor' = [fd_reactor EXCEPT ![f] = ReactorOf(f, r)],
         \A d \in Coroutine : co_pc'[d] = "posted" <=> co_pc[d] = "posted",
         \A d \in Coroutine : co_pc'[d] = "new" => co_pc[d] = "new",
         UNCHANGED <<loop_pc, tmp_tasks, pending_tasks>>,
         \A q \in Reactor : q # r => cur'[q] = cur[q]
  PROVE  HomeInv' /\ BegunInv'
  <1>0. /\ fd_reactor \in [Fd -> Reactor \cup {NULL}] /\ ConnFd \in [Coroutine -> Fd]
        /\ pending_tasks \in [Reactor -> Seq(Coroutine)]
        /\ tmp_tasks \in [Reactor -> Seq(Coroutine)]
    BY SchedulerAssumption DEF WakeInv, TypeInv, TypeOK
  <1>1. loop_pc[r] # "start"
    BY OwnReactor
  <1>2. \A d \in Coroutine : co_pc[d] = "posted" => fd_reactor'[ConnFd[d]] = fd_reactor[ConnFd[d]]
    <2> SUFFICES ASSUME NEW d \in Coroutine, co_pc[d] = "posted", ConnFd[d] = f
                 PROVE  FALSE
      BY <1>0
    <2>1. c = d
      BY OwnFdsApart DEF OwnFds
    <2>2. QED
      BY <2>1 DEF Fresh
  <1>3. HomeInv'
    <2>1. ASSUME NEW q \in Reactor, NEW d \in Coroutine, PostedTo(d, q)
          PROVE  PostedTo(d, q)'
      BY <1>2, <2>1 DEF PostedTo
    <2>2. ASSUME NEW q \in Reactor, NEW i \in 1..Len(pending_tasks[q])
          PROVE  PostedTo(pending_tasks[q][i], q)'
      <3>1. PICK d \in Coroutine : pending_tasks[q][i] = d
        BY <1>0
      <3>2. PostedTo(d, q)
        BY <3>1 DEF WakeInv, HomeInv
      <3>3. QED
        BY <2>1, <3>1, <3>2 DEF PostedTo
    <2>3. ASSUME NEW q \in Reactor, NEW i \in 1..Len(tmp_tasks[q])
          PROVE  PostedTo(tmp_tasks[q][i], q)'
      <3>1. PICK d \in Coroutine : tmp_tasks[q][i] = d
        BY <1>0
      <3>2. PostedTo(d, q)
        BY <3>1 DEF WakeInv, HomeInv
      <3>3. QED
        BY <2>1, <3>1, <3>2 DEF PostedTo
    <2>4. QED
      BY <2>2, <2>3 DEF HomeInv
  <1>4. \A q \in Reactor, g \in Fd :
           loop_pc[q] = "start" /\ fd_reactor'[g] = q => fd_reactor[g] = q
    BY <1>0, <1>1 DEF ReactorOf
  <1>5. BegunInv'
    BY <1>1, <1>4 DEF WakeInv, BegunInv
  <1>6. QED BY <1>3, <1>5

\* What is added to or deleted from another reactor is followed by a wakeup.
LEMMA AddGiven ==
  ASSUME WakeInv, NEW r \in Reactor, NEW c \in Coroutine, owes[c] = NULL,
         NEW q \in Reactor, loop_pc[q] # "start", NEW f \in Fd, NEW mask \in Mask,
         AddEvent(r, c, q, f, mask), UNCHANGED <<pending_tasks, pending_del, wake, loop_pc>>
  PROVE  GivenInv'
  <1>0. /\ pending_add \in [Reactor -> [Fd -> Mask \cup {"none"}]]
        /\ owes \in [Coroutine \cup {Main} -> Reactor \cup {NULL}]
    BY DEF WakeInv, TypeInv, TypeOK
  <1>1. CASE q = r
    BY <1>1, WakeFrame DEF WakeInv, AddEvent, pendVars
  <1>2. CASE q # r
    <2>1. /\ owes' = [owes EXCEPT ![c] = q]
          /\ \A p \in Reactor : p # q => pending_add'[p] = pending_add[p]
      BY <1>0, <1>2 DEF AddEvent
    <2>2. owes'[c] = q
      BY <1>0, <2>1
    <2>3. \A p \in Reactor : WakeupDue(p) => wake[p] \/ \E a \in Coroutine \cup {Main} : owes'[a] = p
      BY <1>0, <2>1, SchedulerAssumption DEF WakeupDue
    <2>4. \A p \in Reactor : p # q =>
            /\ pending_tasks[p] # <<>> =>
                 \/ wake[p] \/ \E a \in Coroutine \cup {Main} : owes'[a] = p
                 \/ loop_pc[p] \in {"start", "first", "pop", "batch"}
            /\ (pending_del[p] # {} \/ \E g \in Fd : pending_add'[p][g] # "none") =>
                 loop_pc[p] # "start" /\ (\/ wake[p] \/ \E a \in Coroutine \cup {Main} : owes'[a] = p
                                          \/ loop_pc[p] = "batch")
      BY <2>1, <2>3 DEF WakeInv, GivenInv, Registrations
    <2>5. QED
      BY <2>2, <2>4 DEF GivenInv, WakeupDue, Registrations
  <1>3. QED BY <1>1, <1>2

LEMMA DelGiven ==
  ASSUME WakeInv, NEW r \in Reactor, NEW c \in Coroutine, owes[c] = NULL,
         NEW q \in Reactor, loop_pc[q] # "start", NEW f \in Fd,
         DelEvent(r, c, q, f), UNCHANGED <<pending_tasks, pending_add, wake, loop_pc>>
  PROVE  GivenInv'
  <1>0. /\ pending_del \in [Reactor -> SUBSET Fd]
        /\ owes \in [Coroutine \cup {Main} -> Reactor \cup {NULL}]
    BY DEF WakeInv, TypeInv, TypeOK
  <1>1. CASE q = r
    BY <1>1, WakeFrame DEF WakeInv, DelEvent, pendVars
  <1>2. CASE q # r
    <2>1. /\ owes' = [owes EXCEPT ![c] = q]
          /\ \A p \in Reactor : p # q => pending_del'[p] = pending_del[p]
      BY <1>0, <1>2 DEF DelEvent
    <2>2. owes'[c] = q
      BY <1>0, <2>1
    <2>3. \A p \in Reactor : WakeupDue(p) => wake[p] \/ \E a \in Coroutine \cup {Main} : owes'[a] = p
      BY <1>0, <2>1, SchedulerAssumption DEF WakeupDue
    <2>4. \A p \in Reactor : p # q =>
            /\ pending_tasks[p] # <<>> =>
                 \/ wake[p] \/ \E a \in Coroutine \cup {Main} : owes'[a] = p
                 \/ loop_pc[p] \in {"start", "first", "pop", "batch"}
            /\ (pending_del'[p] # {} \/ \E g \in Fd : pending_add[p][g] # "none") =>
                 loop_pc[p] # "start" /\ (\/ wake[p] \/ \E a \in Coroutine \cup {Main} : owes'[a] = p
                                          \/ loop_pc[p] = "batch")
      BY <2>1, <2>3 DEF WakeInv, GivenInv, Registrations
    <2>5. QED
      BY <2>2, <2>4 DEF GivenInv, WakeupDue, Registrations
  <1>3. QED BY <1>1, <1>2

LEMMA CoroutineWake ==
  ASSUME WakeInv, NEW r \in Reactor, NEW c \in Coroutine, CoroutineStep(r, c)
  PROVE  FreshInv' /\ HomeInv' /\ BegunInv' /\ GivenInv'
  <1>0. /\ cur \in [Reactor -> Coroutine \cup {NULL}]
        /\ fd_reactor \in [Fd -> Reactor \cup {NULL}]
        /\ fd_cor \in [Fd -> Coroutine \cup {NULL}]
        /\ first \in [Reactor -> Coroutine \cup {NULL}]
        /\ co_pc \in [Coroutine -> CoPc] /\ co_fd \in [Coroutine -> Fd \cup {NULL}]
        /\ ConnFd \in [Coroutine -> Fd] /\ CallFds \in [Coroutine -> SUBSET Fd]
    BY SchedulerAssumption DEF WakeInv, TypeInv, TypeOK
  <1>a. FreshInv /\ HomeInv /\ BegunInv /\ GivenInv /\ TypeInv
    BY DEF WakeInv
  <1>1. ASSUME NEW f \in Fd, HookSucceeds(r, c, f)
        PROVE  FreshInv' /\ HomeInv' /\ BegunInv' /\ GivenInv'
    <2>1. /\ cur[r] = c /\ ~Fresh(c) /\ f \in OwnFds(c)
          /\ fd_reactor' = [fd_reactor EXCEPT ![f] = ReactorOf(f, r)]
          /\ UNCHANGED <<loop_pc, cur, first, tmp_tasks, pendVars, pending_tasks, wake, queue,
                         fd_cor, co_pc, co_fd, owes>>
      BY <1>1 DEF HookSucceeds, Runs, MayUse, OwnFds, Fresh, loopVars, pendVars, coVars
    <2>2. HomeInv' /\ BegunInv'
      BY <2>1, TouchOwn
    <2>3. QED
      BY <1>a, <2>1, <2>2, WakeFrame
  <1>2. ASSUME NEW f \in Fd, HookBlocks(r, c, f)
        PROVE  FreshInv' /\ HomeInv' /\ BegunInv' /\ GivenInv'
    <2>1. /\ cur[r] = c /\ owes[c] = NULL /\ co_pc[c] = "run" /\ f \in OwnFds(c)
          /\ fd_reactor' = [fd_reactor EXCEPT ![f] = ReactorOf(f, r)]
          /\ fd_cor' = [fd_cor EXCEPT ![f] = c]
          /\ co_fd' = [co_fd EXCEPT ![c] = f]
          /\ co_pc' = [co_pc EXCEPT ![c] = "armed"]
          /\ UNCHANGED <<loop_pc, cur, first, tmp_tasks, pending_tasks, pending_del, wake, queue>>
      BY <1>2 DEF HookBlocks, Runs, MayUse, OwnFds, SetCoroutine, loopVars
    <2>2. ~Fresh(c)
      BY <2>1 DEF Fresh
    <2>3. /\ \A d \in Coroutine : co_pc'[d] = "posted" <=> co_pc[d] = "posted"
          /\ \A d \in Coroutine : co_pc'[d] = "new" <=> co_pc[d] = "new"
          /\ \A d \in Coroutine : d # c => co_pc'[d] = co_pc[d] /\ co_fd'[d] = co_fd[d]
          /\ co_fd'[c] = f
      BY <1>0, <2>1
    <2>4. HomeInv' /\ BegunInv'
      BY <2>1, <2>2, <2>3, TouchOwn
    <2>5. FreshInv'
      <3>1. \A g \in Fd : fd_cor'[g] # NULL =>
              g \in OwnFds(fd_cor'[g]) /\ co_pc'[fd_cor'[g]] \notin {"new", "posted"}
        BY <1>0, <1>a, <2>1, <2>2, <2>3 DEF FreshInv, Fresh
      <3>2. \A q \in Reactor : first[q] # NULL => co_pc'[first[q]] \notin {"new", "posted"}
        BY <1>0, <1>a, <2>3 DEF FreshInv, Fresh
      <3>3. \A i \in 1..Len(queue) : \A d \in Coroutine :
              queue[i] = ConnFd[d] => co_pc'[d] \notin {"new", "posted"}
        BY <1>a, <2>3 DEF FreshInv, Fresh
      <3>4. \A d \in Coroutine : co_pc'[d] \in Hooked => co_fd'[d] \in OwnFds(d)
        BY <1>a, <2>1, <2>3 DEF FreshInv
      <3>5. QED
        BY <2>1, <3>1, <3>2, <3>3, <3>4 DEF FreshInv, Fresh, OwnFds
    <2>6. GivenInv'
      <3>1. CASE listen[f]
        BY <1>a, <1>2, <2>1, <3>1, WakeFrame DEF HookBlocks, AddListenEvents, pendVars
      <3>2. CASE ~listen[f]
        <4>1. AddEvent(r, c, ReactorOf(f, r), f, "on")
          BY <1>2, <3>2 DEF HookBlocks, AddListenEvents
        <4>2. ReactorOf(f, r) \in Reactor /\ loop_pc[ReactorOf(f, r)] # "start"
          BY <2>1, <2>2, OwnReactor
        <4>3. "on" \in Mask
          BY DEF Mask
        <4>4. QED
          BY <2>1, <4>1, <4>2, <4>3, AddGiven
      <3>3. QED BY <3>1, <3>2
    <2>7. QED BY <2>4, <2>5, <2>6
  <1>3. CASE YieldHook(r, c) \/ Finish(r, c)
    <2>1. /\ co_pc[c] \in {"armed", "cleared"} /\ cur' = [cur EXCEPT ![r] = NULL]
          /\ co_pc' = [co_pc EXCEPT ![c] = IF co_pc[c] = "armed" THEN "suspended" ELSE "done"]
          /\ UNCHANGED <<loop_pc, first, tmp_tasks, pending_tasks, pending_add, pending_del, wake,
                         queue, fd_reactor, fd_cor, co_fd, owes>>
      BY <1>3 DEF YieldHook, Finish, pendVars, fdVars
    <2>2. /\ \A d \in Coroutine : co_pc'[d] = "posted" <=> co_pc[d] = "posted"
          /\ \A d \in Coroutine : co_pc'[d] = "new" => co_pc[d] = "new"
          /\ \A d \in Coroutine : Fresh(d)' => Fresh(d)
          /\ \A d \in Coroutine : co_pc'[d] \in Hooked => co_pc[d] \in Hooked
      BY <1>0, <2>1 DEF Fresh, Hooked
    <2>3. FreshInv'
      BY <1>0, <1>a, <2>1, <2>2, FreshKept
    <2>4. HomeInv'
      BY <1>a, <2>1, <2>2, HomeKept
    <2>5. BegunInv'
      BY <1>0, <1>a, <2>1, <2>2 DEF BegunInv
    <2>6. GivenInv'
      BY <1>a, <2>1, WakeFrame DEF pendVars
    <2>7. QED BY <2>3, <2>4, <2>5, <2>6
  <1>4. CASE Unlisten(r, c)
    <2>1. /\ cur[r] = c /\ owes[c] = NULL /\ co_pc[c] = "resumed"
          /\ fd_reactor' = [fd_reactor EXCEPT ![co_fd[c]] = ReactorOf(co_fd[c], r)]
          /\ fd_cor' = [fd_cor EXCEPT ![co_fd[c]] = NULL]
          /\ co_pc' = [co_pc EXCEPT ![c] = "reread"]
          /\ UNCHANGED <<loop_pc, cur, first, tmp_tasks, pending_tasks, pending_del, wake, queue,
                         co_fd>>
      BY <1>4 DEF Unlisten, Runs, loopVars
    <2>2. co_fd[c] \in OwnFds(c) /\ co_fd[c] \in Fd /\ ~Fresh(c)
      BY <1>0, <1>a, <2>1 DEF FreshInv, Hooked, OwnFds, Fresh
    <2>3. /\ \A d \in Coroutine : co_pc'[d] = "posted" <=> co_pc[d] = "posted"
          /\ \A d \in Coroutine : co_pc'[d] = "new" <=> co_pc[d] = "new"
          /\ \A d \in Coroutine : co_pc'[d] \in Hooked => co_pc[d] \in Hooked
      BY <1>0, <2>1 DEF Hooked
    <2>4. HomeInv' /\ BegunInv'
      BY <2>1, <2>2, <2>3, TouchOwn
    <2>5. FreshInv'
      <3>1. \A g \in Fd : fd_cor'[g] # NULL =>
              g \in OwnFds(fd_cor'[g]) /\ co_pc'[fd_cor'[g]] \notin {"new", "posted"}
        BY <1>0, <1>a, <2>1, <2>3 DEF FreshInv, Fresh
      <3>2. \A q \in Reactor : first[q] # NULL => co_pc'[first[q]] \notin {"new", "posted"}
        BY <1>0, <1>a, <2>3 DEF FreshInv, Fresh
      <3>3. \A i \in 1..Len(queue) : \A d \in Coroutine :
              queue[i] = ConnFd[d] => co_pc'[d] \notin {"new", "posted"}
        BY <1>a, <2>3 DEF FreshInv, Fresh
      <3>4. \A d \in Coroutine : co_pc'[d] \in Hooked => co_fd[d] \in OwnFds(d)
        BY <1>a, <2>3 DEF FreshInv
      <3>5. QED
        BY <2>1, <3>1, <3>2, <3>3, <3>4 DEF FreshInv, Fresh, OwnFds
    <2>6. GivenInv'
      <3>1. CASE listen[co_fd[c]]
        <4>1. AddEvent(r, c, ReactorOf(co_fd[c], r), co_fd[c], "off")
          BY <1>4, <3>1 DEF Unlisten
        <4>2. /\ ReactorOf(co_fd[c], r) \in Reactor
              /\ loop_pc[ReactorOf(co_fd[c], r)] # "start"
          BY <2>1, <2>2, OwnReactor
        <4>3. "off" \in Mask
          BY DEF Mask
        <4>4. QED
          BY <2>1, <2>2, <4>1, <4>2, <4>3, AddGiven
      <3>2. CASE ~listen[co_fd[c]]
        BY <1>a, <1>4, <2>1, <3>2, WakeFrame DEF Unlisten, pendVars
      <3>3. QED BY <3>1, <3>2
    <2>7. QED BY <2>4, <2>5, <2>6
  <1>5. CASE Reread(r, c)
    <2>1. /\ co_pc[c] = "reread"
          /\ co_pc' = [co_pc EXCEPT ![c] = IF co_fd[c] \in ready THEN "run" ELSE "closing"]
          /\ UNCHANGED <<loop_pc, cur, first, tmp_tasks, pendVars, pending_tasks, wake, queue,
                         fd_reactor, fd_cor, co_fd, owes>>
      BY <1>5 DEF Reread, loopVars, pendVars, fdVars
    <2>2. /\ \A d \in Coroutine : co_pc'[d] = "posted" <=> co_pc[d] = "posted"
          /\ \A d \in Coroutine : co_pc'[d] = "new" => co_pc[d] = "new"
          /\ \A d \in Coroutine : Fresh(d)' => Fresh(d)
          /\ \A d \in Coroutine : co_pc'[d] \in Hooked => co_pc[d] \in Hooked
      BY <1>0, <2>1 DEF Fresh, Hooked
    <2>3. FreshInv'
      BY <1>0, <1>a, <2>1, <2>2, FreshKept
    <2>4. HomeInv'
      BY <1>a, <2>1, <2>2, HomeKept
    <2>5. BegunInv'
      BY <1>a, <2>1, <2>2 DEF BegunInv
    <2>6. GivenInv'
      BY <1>a, <2>1, WakeFrame
    <2>7. QED BY <2>3, <2>4, <2>5, <2>6
  <1>6. ASSUME NEW f \in Fd, Unregister(r, c, f), Runs(r, c), f \in OwnFds(c), ~Fresh(c),
               \A d \in Coroutine : co_pc'[d] = "posted" <=> co_pc[d] = "posted",
               \A d \in Coroutine : co_pc'[d] = "new" => co_pc[d] = "new",
               \A d \in Coroutine : Fresh(d)' => Fresh(d),
               \A d \in Coroutine : co_pc'[d] \in Hooked => co_pc[d] \in Hooked
        PROVE  FreshInv' /\ HomeInv' /\ BegunInv' /\ GivenInv'
    <2>1. /\ cur[r] = c /\ owes[c] = NULL
          /\ fd_reactor' = [fd_reactor EXCEPT ![f] = ReactorOf(f, r)]
          /\ DelEvent(r, c, ReactorOf(f, r), f)
          /\ UNCHANGED <<loop_pc, cur, first, tmp_tasks, pending_tasks, pending_add, wake, queue,
                         fd_cor, co_fd>>
      BY <1>6 DEF Unregister, Runs, loopVars
    <2>2. HomeInv' /\ BegunInv'
      BY <1>6, <2>1, TouchOwn
    <2>3. FreshInv'
      BY <1>0, <1>a, <1>6, <2>1, FreshKept
    <2>4. GivenInv'
      <3>1. ReactorOf(f, r) \in Reactor /\ loop_pc[ReactorOf(f, r)] # "start"
        BY <1>6, <2>1, OwnReactor
      <3>2. QED
        BY <2>1, <3>1, DelGiven
    <2>5. QED BY <2>2, <2>3, <2>4
  <1>7. CASE ClearClient(r, c)
    <2>1. /\ Runs(r, c) /\ co_pc[c] = "closing" /\ Unregister(r, c, co_fd[c])
          /\ co_pc' = [co_pc EXCEPT ![c] = "cleared"]
      BY <1>7 DEF ClearClient
    <2>2. co_fd[c] \in OwnFds(c) /\ co_fd[c] \in Fd /\ ~Fresh(c)
      BY <1>0, <1>a, <2>1 DEF FreshInv, Hooked, OwnFds, Fresh
    <2>3. /\ \A d \in Coroutine : co_pc'[d] = "posted" <=> co_pc[d] = "posted"
          /\ \A d \in Coroutine : co_pc'[d] = "new" => co_pc[d] = "new"
          /\ \A d \in Coroutine : Fresh(d)' => Fresh(d)
          /\ \A d \in Coroutine : co_pc'[d] \in Hooked => co_pc[d] \in Hooked
      BY <1>0, <2>1 DEF Fresh, Hooked
    <2>4. QED
      BY <1>6, <2>1, <2>2, <2>3
  <1>8. ASSUME NEW f \in Fd, EndCall(r, c, f)
        PROVE  FreshInv' /\ HomeInv' /\ BegunInv' /\ GivenInv'
    <2>1. /\ Runs(r, c) /\ f \in OwnFds(c) /\ ~Fresh(c) /\ Unregister(r, c, f)
          /\ UNCHANGED co_pc
      BY <1>8 DEF EndCall, OwnFds, Fresh
    <2>2. QED
      BY <1>6, <2>1 DEF Fresh
  <1>9. QED
    BY <1>1, <1>2, <1>3, <1>4, <1>5, <1>7, <1>8 DEF CoroutineStep

LEMMA WakeStep ==
  WakeInv /\ [Next]_vars => WakeInv'
  <1> SUFFICES ASSUME WakeInv, [Next]_vars
               PROVE  FreshInv' /\ HomeInv' /\ BegunInv' /\ GivenInv'
    BY TypeStep DEF WakeInv
  <1>0. /\ loop_pc \in [Reactor -> LoopPc]
        /\ fd_reactor \in [Fd -> Reactor \cup {NULL}]
        /\ pending_tasks \in [Reactor -> Seq(Coroutine)]
        /\ tmp_tasks \in [Reactor -> Seq(Coroutine)]
        /\ wake \in [Reactor -> BOOLEAN]
        /\ owes \in [Coroutine \cup {Main} -> Reactor \cup {NULL}]
        /\ co_pc \in [Coroutine -> CoPc]
        /\ ConnFd \in [Coroutine -> Fd]
        /\ first \in [Reactor -> Coroutine \cup {NULL}]
        /\ fd_cor \in [Fd -> Coroutine \cup {NULL}]
    BY SchedulerAssumption DEF WakeInv, TypeInv, TypeOK
  <1>a. FreshInv /\ HomeInv /\ BegunInv /\ GivenInv /\ TypeInv
    BY DEF WakeInv
  <1>1. ASSUME NEW r \in Reactor, ThreadStep(r)
        PROVE  FreshInv' /\ HomeInv' /\ BegunInv' /\ GivenInv'
    BY <1>1, LoopWake, CoroutineWake DEF ThreadStep
  <1>2. ASSUME NEW a \in Coroutine \cup {Main}, Wakeup(a)
        PROVE  FreshInv' /\ HomeInv' /\ BegunInv' /\ GivenInv'
    <2>1. FreshInv' /\ HomeInv' /\ BegunInv'
      BY <1>a, <1>2, WakeFrame DEF Wakeup, loopVars, pendVars, fdVars, coVars
    <2>2. PICK q \in Reactor : owes[a] = q
      BY <1>0, <1>2 DEF Wakeup
    <2>3. /\ wake' = [wake EXCEPT ![q] = wake[q] \/ loop_pc[q] # "start"]
          /\ owes' = [owes EXCEPT ![a] = NULL]
          /\ UNCHANGED <<loop_pc, pending_tasks, pending_add, pending_del>>
      BY <1>2, <2>2 DEF Wakeup, Woken, loopVars, pendVars
    <2>4. \A p \in Reactor : p # q /\ WakeupDue(p) =>
             wake'[p] \/ \E b \in Coroutine \cup {Main} : owes'[b] = p
      BY <1>0, <2>2, <2>3 DEF WakeupDue
    <2>5. loop_pc[q] # "start" => wake'[q]
      BY <1>0, <2>3
    <2>6. GivenInv'
      BY <1>a, <2>3, <2>4, <2>5 DEF GivenInv, WakeupDue, Registrations
    <2>7. QED BY <2>1, <2>6
  <1>3. ASSUME NEW c \in Coroutine, NEW r \in Reactor, Post(c, r)
        PROVE  FreshInv' /\ HomeInv' /\ BegunInv' /\ GivenInv'
    <2>1. /\ co_pc[c] = "new" /\ owes[Main] = NULL
          /\ pending_tasks' = [pending_tasks EXCEPT ![r] = Append(pending_tasks[r], c)]
          /\ fd_reactor' = [fd_reactor EXCEPT ![ConnFd[c]] = r]
          /\ co_pc' = [co_pc EXCEPT ![c] = "posted"]
          /\ owes' = [owes EXCEPT ![Main] = r]
          /\ UNCHANGED <<loop_pc, cur, first, tmp_tasks, pending_add, pending_del, wake, queue,
                         fd_cor, co_fd>>
      BY <1>3 DEF Post, loopVars
    <2>2. /\ \A d \in Coroutine : co_pc'[d] \in Hooked => co_pc[d] \in Hooked
          /\ \A d \in Coroutine : Fresh(d)' => Fresh(d)
          /\ \A d \in Coroutine : d # c => co_pc'[d] = co_pc[d]
          /\ co_pc'[c] = "posted"
      BY <1>0, <2>1 DEF Fresh, Hooked
    <2>3. FreshInv'
      BY <1>0, <1>a, <2>1, <2>2, FreshKept
    <2>4. /\ \A d \in Coroutine : d # c => fd_reactor'[ConnFd[d]] = fd_reactor[ConnFd[d]]
          /\ fd_reactor'[ConnFd[c]] = r
          /\ \A f \in Fd : f # ConnFd[c] => fd_reactor'[f] = fd_reactor[f]
      BY <1>0, <2>1, SchedulerAssumption
    <2>5. HomeInv'
      <3>1. ASSUME NEW q \in Reactor, NEW i \in 1..Len(tmp_tasks[q])
            PROVE  PostedTo(tmp_tasks[q][i], q)'
        <4>1. PICK d \in Coroutine : tmp_tasks[q][i] = d
          BY <1>0
        <4>2. PostedTo(d, q)
          BY <1>a, <4>1 DEF HomeInv
        <4>3. d # c
          BY <2>1, <4>2 DEF PostedTo
        <4>4. co_pc'[d] = co_pc[d] /\ fd_reactor'[ConnFd[d]] = fd_reactor[ConnFd[d]]
          BY <2>2, <2>4, <4>3
        <4>5. QED
          BY <2>1, <4>1, <4>2, <4>4 DEF PostedTo
      <3>2. ASSUME NEW q \in Reactor, NEW i \in 1..Len(pending_tasks'[q])
            PROVE  PostedTo(pending_tasks[q][i], q)'
        <4>1. \/ pending_tasks'[q][i] = c /\ q = r
              \/ i \in 1..Len(pending_tasks[q]) /\ pending_tasks'[q][i] = pending_tasks[q][i]
          BY <1>0, <2>1
        <4>2. CASE pending_tasks'[q][i] = c /\ q = r
          BY <2>2, <2>4, <4>2 DEF PostedTo
        <4>3. CASE i \in 1..Len(pending_tasks[q]) /\ pending_tasks'[q][i] = pending_tasks[q][i]
          <5>1. PICK d \in Coroutine : pending_tasks[q][i] = d
            BY <1>0, <4>3
          <5>2. PostedTo(d, q)
            BY <1>a, <4>3, <5>1 DEF HomeInv
          <5>3. d # c
            BY <2>1, <5>2 DEF PostedTo
          <5>4. co_pc'[d] = co_pc[d] /\ fd_reactor'[ConnFd[d]] = fd_reactor[ConnFd[d]]
            BY <2>2, <2>4, <5>3
          <5>5. QED
            BY <4>3, <5>1, <5>2, <5>4 DEF PostedTo
        <4>4. QED
          BY <4>1, <4>2, <4>3
      <3>3. QED
        BY <2>1, <3>1, <3>2 DEF HomeInv
    <2>6. BegunInv'
      BY <1>0, <1>a, <2>1, <2>2, <2>4 DEF BegunInv
    <2>7. GivenInv'
      <3>1. \A p \in Reactor : p # r => pending_tasks'[p] = pending_tasks[p]
        BY <1>0, <2>1
      <3>2. owes'[Main] = r
        BY <1>0, <2>1
      <3>3. \A p \in Reactor : WakeupDue(p) =>
              wake[p] \/ \E b \in Coroutine \cup {Main} : owes'[b] = p
        BY <1>0, <2>1, SchedulerAssumption DEF WakeupDue
      <3>4. QED
        BY <1>a, <2>1, <3>1, <3>2, <3>3 DEF GivenInv, WakeupDue, Registrations
    <2>8. QED BY <2>3, <2>5, <2>6, <2>7
  <1>4. ASSUME NEW f \in Fd, Arrive(f) \/ HangUp(f)
        PROVE  FreshInv' /\ HomeInv' /\ BegunInv' /\ GivenInv'
    BY <1>a, <1>4, WakeFrame DEF Arrive, HangUp, loopVars, pendVars, fdVars, coVars
  <1>5. CASE UNCHANGED vars
    BY <1>a, <1>5, WakeFrame DEF vars, loopVars, pendVars, fdVars, coVars
  <1>6. QED
    BY <1>1, <1>2, <1>3, <1>4, <1>5 DEF Next

LEMMA WakeInit == Init => WakeInv
  <1> SUFFICES ASSUME Init PROVE FreshInv /\ HomeInv /\ BegunInv /\ GivenInv
    BY TypeInit DEF WakeInv
  <1>1. FreshInv /\ HomeInv
    BY DEF Init, FreshInv, HomeInv, Fresh, Hooked
  <1>2. BegunInv /\ GivenInv
    BY SchedulerAssumption DEF Init, BegunInv, GivenInv, Registrations
  <1>3. QED BY <1>1, <1>2

\* A reactor never sleeps over work another thread gave it, whatever calls the
\* coroutines make.
THEOREM SpecNoLostWakeup == Spec => []NoLostWakeup
  <1>1. WakeInv => NoLostWakeup
    BY DEF WakeInv, GivenInv, NoLostWakeup, WakeupDue, Registrations
  <1>2. QED
    BY <1>1, WakeInit, WakeStep, PTL DEF Spec

-----------------------------------------------------------------------------
(* The hand-over of a coroutine between threads                            *)

Waiting == {"armed", "suspended", "resumed"}

\* At a hook until somebody resumes it.
Asleep == {"armed", "suspended"}

Running == {"run", "armed", "resumed", "reread", "closing", "cleared"}

\* The fd of a hooked call is one of the coroutine's own and open, and from toEpoll to
\* clearCoroutine its FdEvent names the coroutine.
FdInv ==
  \A c \in Coroutine :
    /\ co_pc[c] \in Hooked \ {"cleared"} => co_fd[c] \in OwnFds(c) /\ co_fd[c] \notin closed
    /\ co_pc[c] \in Waiting => fd_cor[co_fd[c]] = c

\* And no longer than that: the FdEvent listens just as long.
NameInv ==
  \A f \in Fd :
    /\ fd_cor[f] # NULL => co_pc[fd_cor[f]] \in Waiting /\ co_fd[fd_cor[f]] = f
    /\ listen[f] <=> fd_cor[f] # NULL

\* While a thread executes a coroutine its loop stands still where it resumed it.  Who has
\* been resumed runs on the thread his FdEvent points to.
RunInv ==
  \A r \in Reactor : cur[r] # NULL =>
    /\ co_pc[cur[r]] \in Running
    /\ loop_pc[r] \in {"pop", "tasks"}
    /\ co_pc[cur[r]] = "resumed" => fd_reactor[co_fd[cur[r]]] = r

\* A coroutine that has begun and neither sleeps nor is done is on a thread, and on one
\* only, unless it was resumed between toEpoll and its Yield.
ThreadInv ==
  /\ \A c \in Coroutine : co_pc[c] \in Running => \E r \in Reactor : cur[r] = c
  /\ \A q, r \in Reactor : cur[q] = cur[r] /\ cur[q] # NULL => q = r \/ co_pc[cur[q]] = "armed"

\* The FdEvent of f names a coroutine that nobody has resumed.
Sleeper(f) == fd_cor[f] # NULL /\ co_pc[fd_cor[f]] \in Asleep

\* A reactor watches the fds whose FdEvents point to it, for a coroutine that nobody has
\* resumed, or that this thread has and that has not cleared its event yet.
WatchInv ==
  \A r \in Reactor, f \in Fd : epoll[r][f] = "on" =>
    /\ fd_reactor[f] = r
    /\ fd_cor[f] # NULL
    /\ Sleeper(f) \/ cur[r] = fd_cor[f]

\* What another thread asks a reactor to watch is not watched yet and points to it; what
\* it asks to forget is closed.
PendInv ==
  \A r \in Reactor :
    /\ \A f \in pending_del[r] : f \in closed
    /\ \A f \in Fd : pending_add[r][f] # "none" =>
         /\ pending_add[r][f] = "on" /\ epoll[r][f] # "on"
         /\ fd_reactor[f] = r
         /\ Sleeper(f)

\* first_coroutine has not been resumed, its fd is still watched and its event is not
\* handled a second time.
FirstInv ==
  \A r \in Reactor : first[r] # NULL =>
    /\ co_pc[first[r]] \in Asleep
    /\ epoll[r][co_fd[first[r]]] = "on"
    /\ co_fd[first[r]] \notin batch[r]
    /\ loop_pc[r] \in {"batch", "first"}

BatchInv == \A r \in Reactor : batch[r] # {} => loop_pc[r] = "batch"

\* An fd is in the queue once, for a coroutine that nobody has resumed, and it belongs to
\* no reactor.
QueueInv ==
  /\ \A i \in 1..Len(queue) : Sleeper(queue[i]) /\ fd_reactor[queue[i]] = NULL
  /\ \A i, j \in 1..Len(queue) : queue[i] = queue[j] => i = j

\* A fresh coroutine is in one task of the reactor that owns its fd.
TaskInv ==
  /\ \A r \in Reactor : \A i \in 1..Len(pending_tasks[r]) :
       /\ co_pc[pending_tasks[r][i]] = "posted"
       /\ fd_reactor[ConnFd[pending_tasks[r][i]]] = r
  /\ \A r \in Reactor : \A i \in 1..Len(tmp_tasks[r]) :
       /\ co_pc[tmp_tasks[r][i]] = "posted"
       /\ fd_reactor[ConnFd[tmp_tasks[r][i]]] = r
  /\ \A r \in Reactor : \A i, j \in 1..Len(pending_tasks[r]) :
       pending_tasks[r][i] = pending_tasks[r][j] => i = j
  /\ \A r \in Reactor : \A i, j \in 1..Len(tmp_tasks[r]) :
       tmp_tasks[r][i] = tmp_tasks[r][j] => i = j
  /\ \A r \in Reactor : \A i \in 1..Len(pending_tasks[r]), j \in 1..Len(tmp_tasks[r]) :
       pending_tasks[r][i] # tmp_tasks[r][j]

\* The coroutine is on one thread at most.
Single(c) == \A q, r \in Reactor : cur[q] = c /\ cur[r] = c => q = r

\* A reactor watches f, or is about to.
Watched(f) == \E r \in Reactor : "on" \in {epoll[r][f], pending_add[r][f]}

Queued(f) == \E i \in 1..Len(queue) : queue[i] = f

\* What is on its way to sleep or asleep has a source of wakeups, unless it has been
\* resumed before its Yield.
SourceInv ==
  \A c \in Coroutine : co_pc[c] \in Asleep /\ Single(c) => Watched(co_fd[c]) \/ Queued(co_fd[c])

\* What is on its way to a Resume, or was resumed and has not read yet, is ready or hung up.
Arrived == ready \cup hup

ReadyInv ==
  /\ \A r \in Reactor : \A f \in batch[r] \cap Fd : epoll[r][f] = "on" => f \in Arrived
  /\ \A r \in Reactor : first[r] # NULL => co_fd[first[r]] \in Arrived
  /\ \A i \in 1..Len(queue) : queue[i] \in Arrived
  /\ \A c \in Coroutine : co_pc[c] \in {"resumed", "reread"} => co_fd[c] \in Arrived

IInv ==
  /\ TypeInv /\ FdInv /\ NameInv /\ RunInv /\ ThreadInv /\ WatchInv /\ PendInv /\ FirstInv
  /\ BatchInv /\ QueueInv /\ TaskInv /\ SourceInv /\ ReadyInv

-----------------------------------------------------------------------------
\* What each part of the invariant depends on.
LEMMA Frame ==
  /\ FdInv /\ UNCHANGED <<co_pc, co_fd, fd_cor, closed>> => FdInv'
  /\ NameInv /\ UNCHANGED <<fd_cor, listen, co_pc, co_fd>> => NameInv'
  /\ RunInv /\ UNCHANGED <<cur, co_pc, co_fd, fd_reactor, loop_pc>> => RunInv'
  /\ ThreadInv /\ UNCHANGED <<cur, co_pc>> => ThreadInv'
  /\ WatchInv /\ UNCHANGED <<epoll, fd_reactor, fd_cor, co_pc, cur>> => WatchInv'
  /\ PendInv /\ UNCHANGED <<pending_add, pending_del, closed, epoll, fd_reactor, fd_cor, co_pc>>
       => PendInv'
  /\ FirstInv /\ UNCHANGED <<first, co_pc, co_fd, epoll, batch, loop_pc>> => FirstInv'
  /\ BatchInv /\ UNCHANGED <<batch, loop_pc>> => BatchInv'
  /\ QueueInv /\ UNCHANGED <<queue, fd_cor, co_pc, fd_reactor>> => QueueInv'
  /\ TaskInv /\ UNCHANGED <<pending_tasks, tmp_tasks, co_pc, fd_reactor>> => TaskInv'
  /\ SourceInv /\ UNCHANGED <<co_pc, co_fd, cur, epoll, pending_add, queue>> => SourceInv'
  /\ ReadyInv /\ UNCHANGED <<batch, epoll, first, queue, co_pc, co_fd, ready, hup>> => ReadyInv'
  <1>1. FdInv /\ UNCHANGED <<co_pc, co_fd, fd_cor, closed>> => FdInv'
    BY DEF FdInv, Waiting, Hooked, OwnFds
  <1>2. NameInv /\ UNCHANGED <<fd_cor, listen, co_pc, co_fd>> => NameInv'
    BY DEF NameInv, Waiting
  <1>3. RunInv /\ UNCHANGED <<cur, co_pc, co_fd, fd_reactor, loop_pc>> => RunInv'
    BY DEF RunInv, Running
  <1>4. ThreadInv /\ UNCHANGED <<cur, co_pc>> => ThreadInv'
    BY DEF ThreadInv, Running
  <1>5. WatchInv /\ UNCHANGED <<epoll, fd_reactor, fd_cor, co_pc, cur>> => WatchInv'
    BY DEF WatchInv, Sleeper, Asleep
  <1>6. PendInv /\ UNCHANGED <<pending_add, pending_del, closed, epoll, fd_reactor, fd_cor, co_pc>>
          => PendInv'
    BY DEF PendInv, Sleeper, Asleep
  <1>7. FirstInv /\ UNCHANGED <<first, co_pc, co_fd, epoll, batch, loop_pc>> => FirstInv'
    BY DEF FirstInv, Asleep
  <1>8. BatchInv /\ UNCHANGED <<batch, loop_pc>> => BatchInv'
    BY DEF BatchInv
  <1>9. QueueInv /\ UNCHANGED <<queue, fd_cor, co_pc, fd_reactor>> => QueueInv'
    BY DEF QueueInv, Sleeper, Asleep
  <1>10. TaskInv /\ UNCHANGED <<pending_tasks, tmp_tasks, co_pc, fd_reactor>> => TaskInv'
    BY DEF TaskInv
  <1>11. SourceInv /\ UNCHANGED <<co_pc, co_fd, cur, epoll, pending_add, queue>> => SourceInv'
    BY DEF SourceInv, Asleep, Single, Watched, Queued
  <1>12. ReadyInv /\ UNCHANGED <<batch, epoll, first, queue, co_pc, co_fd, ready, hup>> => ReadyInv'
    BY DEF ReadyInv, Arrived
  <1>13. QED
    BY <1>1, <1>2, <1>3, <1>4, <1>5, <1>6, <1>7, <1>8, <1>9, <1>10, <1>11, <1>12

\* Whom an FdEvent names, sleeps or has just been resumed, owns the fd and is at its hook.
LEMMA NamedBy ==
  ASSUME IInv, NEW f \in Fd, fd_cor[f] # NULL
  PROVE  /\ fd_cor[f] \in Coroutine
         /\ co_pc[fd_cor[f]] \in Waiting
         /\ co_fd[fd_cor[f]] = f
         /\ f \in OwnFds(fd_cor[f]) /\ f \notin closed
  <1>1. fd_cor[f] \in Coroutine
    BY DEF IInv, TypeInv, TypeOK
  <1>2. co_pc[fd_cor[f]] \in Waiting /\ co_fd[fd_cor[f]] = f
    BY DEF IInv, NameInv
  <1>3. Waiting \subseteq Hooked \ {"cleared"}
    BY DEF Waiting, Hooked
  <1>4. QED
    BY <1>1, <1>2, <1>3 DEF IInv, FdInv

\* No FdEvent names a coroutine that is not at a hook, and none of its own fds is named,
\* watched, asked for or queued.
LEMMA NotNamed ==
  ASSUME IInv, NEW c \in Coroutine, co_pc[c] \notin Waiting
  PROVE  /\ \A f \in Fd : fd_cor[f] # c
         /\ \A f \in OwnFds(c) \cap Fd :
              /\ fd_cor[f] = NULL /\ ~listen[f]
              /\ \A r \in Reactor : epoll[r][f] # "on" /\ pending_add[r][f] = "none"
              /\ \A i \in 1..Len(queue) : queue[i] # f
  <1>1. \A f \in Fd : fd_cor[f] # c
    BY SchedulerAssumption, NamedBy
  <1>2. ASSUME NEW f \in OwnFds(c) \cap Fd PROVE fd_cor[f] = NULL
    BY <1>1, NamedBy, OwnFdsApart
  <1>3. ASSUME NEW f \in OwnFds(c) \cap Fd
        PROVE  /\ ~listen[f]
               /\ \A r \in Reactor : epoll[r][f] # "on" /\ pending_add[r][f] = "none"
               /\ \A i \in 1..Len(queue) : queue[i] # f
    BY <1>2 DEF IInv, NameInv, WatchInv, PendInv, QueueInv, Sleeper
  <1>4. QED
    BY <1>1, <1>2, <1>3

\* The fd a coroutine waits on.
LEMMA WaitsOn ==
  ASSUME IInv, NEW c \in Coroutine, co_pc[c] \in Waiting
  PROVE  /\ co_fd[c] \in Fd /\ co_fd[c] \in OwnFds(c) /\ co_fd[c] \notin closed
         /\ fd_cor[co_fd[c]] = c /\ c # NULL /\ listen[co_fd[c]]
         /\ \A f \in Fd : fd_cor[f] = c => f = co_fd[c]
  <1>1. co_pc[c] \in Hooked /\ co_pc[c] \in Hooked \ {"cleared"} /\ c # NULL
    BY SchedulerAssumption DEF Waiting, Hooked
  <1>2. co_fd[c] \in Fd
    BY <1>1 DEF IInv, TypeInv, HookFd
  <1>3. QED
    BY <1>1, <1>2 DEF IInv, FdInv, NameInv

\* What is asleep.
LEMMA AsleepIs == Asleep \subseteq Waiting /\ Asleep \subseteq Hooked
  BY DEF Asleep, Waiting, Hooked

\* A task loses none of its meaning when others than the fresh move.
LEMMA TaskKept ==
  ASSUME TypeInv, TaskInv, UNCHANGED <<pending_tasks, tmp_tasks>>,
         \A d \in Coroutine : co_pc[d] = "posted" =>
           co_pc'[d] = "posted" /\ fd_reactor'[ConnFd[d]] = fd_reactor[ConnFd[d]]
  PROVE  TaskInv'
  <1>1. /\ \A r \in Reactor : \A i \in 1..Len(pending_tasks[r]) : pending_tasks[r][i] \in Coroutine
        /\ \A r \in Reactor : \A i \in 1..Len(tmp_tasks[r]) : tmp_tasks[r][i] \in Coroutine
    BY DEF TypeInv, TypeOK
  <1>2. QED
    BY <1>1 DEF TaskInv

\* Coroutine::Resume of a coroutine that is at a hook, or of a fresh one.
LEMMA ResumeEffect ==
  ASSUME TypeInv, NEW r \in Reactor, NEW c \in Coroutine, Resume(r, c)
  PROVE  /\ co_pc[c] \in Asleep =>
              /\ cur' = [cur EXCEPT ![r] = c]
              /\ \E p \in {"armed", "resumed"} :
                   /\ p = "armed" <=> co_pc[c] = "armed"
                   /\ co_pc' = [co_pc EXCEPT ![c] = p]
         /\ co_pc[c] = "posted" =>
              /\ cur' = [cur EXCEPT ![r] = c]
              /\ co_pc' = [co_pc EXCEPT ![c] = "run"]
  <1>1. c # NULL
    BY SchedulerAssumption
  <1>2. CASE co_pc[c] = "armed"
    BY <1>1, <1>2 DEF Resume, TypeInv, TypeOK, Asleep
  <1>3. CASE co_pc[c] = "suspended"
    BY <1>1, <1>3 DEF Resume, TypeInv, TypeOK, Asleep
  <1>4. CASE co_pc[c] = "posted"
    BY <1>1, <1>4 DEF Resume, TypeInv, TypeOK, Asleep
  <1>5. QED
    BY <1>2, <1>3, <1>4 DEF Asleep


\* Whom a reactor keeps as its first coroutine.
LEMMA FirstSleeps ==
  ASSUME IInv, NEW r \in Reactor, first[r] # NULL
  PROVE  first[r] \in Coroutine /\ co_pc[first[r]] \in Asleep
  <1>1. first[r] \in Coroutine
    BY DEF IInv, TypeInv, TypeOK
  <1>2. QED
    BY <1>1 DEF IInv, FirstInv

LEMMA StartLoopSafe ==
  ASSUME IInv, TypeInv', NEW r \in Reactor, StartLoop(r)
  PROVE  IInv'
  <1>1. /\ loop_pc[r] = "start"
        /\ loop_pc' = [loop_pc EXCEPT ![r] = "pop"]
        /\ UNCHANGED <<cur, first, tmp_tasks, pending_tasks, pending_add, pending_del, epoll, batch,
                       queue, fd_reactor, fd_cor, listen, co_pc, co_fd, closed, ready, hup>>
    BY DEF StartLoop, loopVars, pendVars, fdVars, coVars, envVars
  <1>2. RunInv'
    BY <1>1 DEF IInv, RunInv, Running
  <1>3. FirstInv'
    BY <1>1 DEF IInv, FirstInv, Asleep
  <1>4. BatchInv'
    BY <1>1 DEF IInv, BatchInv
  <1>5. QED
    BY <1>1, <1>2, <1>3, <1>4, Frame DEF IInv

LEMMA TasksDoneSafe ==
  ASSUME IInv, TypeInv', NEW r \in Reactor, TasksDone(r)
  PROVE  IInv'
  <1>1. /\ loop_pc[r] = "tasks" /\ cur[r] = NULL
        /\ loop_pc' = [loop_pc EXCEPT ![r] = "wait"]
        /\ UNCHANGED <<cur, first, tmp_tasks, pending_tasks, pending_add, pending_del, epoll, batch,
                       queue, fd_reactor, fd_cor, listen, co_pc, co_fd, closed, ready, hup>>
    BY DEF TasksDone, InLoop, loopVars, pendVars, fdVars, coVars, envVars
  <1>2. RunInv'
    BY <1>1 DEF IInv, RunInv, Running
  <1>3. FirstInv'
    BY <1>1 DEF IInv, FirstInv, Asleep
  <1>4. BatchInv'
    BY <1>1 DEF IInv, BatchInv
  <1>5. QED
    BY <1>1, <1>2, <1>3, <1>4, Frame DEF IInv

LEMMA SwapTasksSafe ==
  ASSUME IInv, TypeInv', NEW r \in Reactor, SwapTasks(r)
  PROVE  IInv'
  <1>1. /\ loop_pc[r] = "pop" /\ cur[r] = NULL
        /\ loop_pc' = [loop_pc EXCEPT ![r] = "tasks"]
        /\ tmp_tasks' = [tmp_tasks EXCEPT ![r] = pending_tasks[r]]
        /\ pending_tasks' = [pending_tasks EXCEPT ![r] = <<>>]
        /\ UNCHANGED <<cur, first, pending_add, pending_del, epoll, batch, queue, fd_reactor, fd_cor,
                       listen, co_pc, co_fd, closed, ready, hup>>
    BY DEF SwapTasks, Taken, InLoop, loopVars, pendVars, fdVars, coVars, envVars
  <1>2. RunInv'
    BY <1>1 DEF IInv, RunInv, Running
  <1>3. FirstInv'
    BY <1>1 DEF IInv, FirstInv, Asleep
  <1>4. BatchInv'
    BY <1>1 DEF IInv, BatchInv
  <1>5. TaskInv'
    BY <1>1 DEF IInv, TaskInv, TypeInv, TypeOK
  <1>6. QED
    BY <1>1, <1>2, <1>3, <1>4, <1>5, Frame DEF IInv

LEMMA EpollWaitSafe ==
  ASSUME IInv, TypeInv', NEW r \in Reactor, EpollWait(r)
  PROVE  IInv'
  <1>1. /\ loop_pc[r] = "wait" /\ cur[r] = NULL
        /\ loop_pc' = [loop_pc EXCEPT ![r] = "batch"]
        /\ \E S \in SUBSET Reported(r) : batch' = [batch EXCEPT ![r] = S]
        /\ UNCHANGED <<cur, first, tmp_tasks, pending_tasks, pending_add, pending_del, epoll, queue,
                       fd_reactor, fd_cor, listen, co_pc, co_fd, closed, ready, hup>>
    BY DEF EpollWait, InLoop, loopVars, pendVars, fdVars, coVars, envVars
  <1>2. RunInv'
    BY <1>1 DEF IInv, RunInv, Running
  <1>3. FirstInv'
    BY <1>1 DEF IInv, FirstInv, Asleep
  <1>4. BatchInv'
    BY <1>1 DEF IInv, BatchInv, TypeInv, TypeOK
  <1>5. ReadyInv'
    BY <1>1, SchedulerAssumption DEF IInv, ReadyInv, TypeInv, TypeOK, Arrived, Reported
  <1>6. QED
    BY <1>1, <1>2, <1>3, <1>4, <1>5, Frame DEF IInv

LEMMA HandleWakeSafe ==
  ASSUME IInv, TypeInv', NEW r \in Reactor, HandleWake(r)
  PROVE  IInv'
  <1>1. /\ batch' = [batch EXCEPT ![r] = batch[r] \ {WakeFd}]
        /\ UNCHANGED <<loop_pc, cur, first, tmp_tasks, pending_tasks, pending_add, pending_del, epoll,
                       queue, fd_reactor, fd_cor, listen, co_pc, co_fd, closed, ready, hup>>
    BY DEF HandleWake, loopVars, pendVars, fdVars, coVars, envVars
  <1>2. FirstInv'
    BY <1>1 DEF IInv, FirstInv, Asleep
  <1>3. BatchInv'
    BY <1>1 DEF IInv, BatchInv
  <1>4. ReadyInv'
    BY <1>1 DEF IInv, ReadyInv, TypeInv, TypeOK, Arrived
  <1>5. QED
    BY <1>1, <1>2, <1>3, <1>4, Frame DEF IInv

LEMMA HandleErrorSafe ==
  ASSUME IInv, TypeInv', NEW r \in Reactor, NEW f \in Fd, HandleError(r, f)
  PROVE  IInv'
  <1>1. /\ epoll[r][f] = "off"
        /\ batch' = [batch EXCEPT ![r] = batch[r] \ {f}]
        /\ epoll' = [epoll EXCEPT ![r][f] = "absent"]
        /\ UNCHANGED <<loop_pc, cur, first, tmp_tasks, pending_tasks, pending_add, pending_del, queue,
                       fd_reactor, fd_cor, listen, co_pc, co_fd, closed, ready, hup>>
    BY DEF HandleError, DelEventInLoopThread, loopVars, pendVars, fdVars, coVars, envVars
  <1>2. \A q \in Reactor, g \in Fd : epoll'[q][g] = "on" <=> epoll[q][g] = "on"
    BY <1>1 DEF IInv, TypeInv, TypeOK
  <1>3. WatchInv'
    BY <1>1, <1>2 DEF IInv, WatchInv, Sleeper, Asleep
  <1>4. PendInv'
    BY <1>1, <1>2 DEF IInv, PendInv, Sleeper, Asleep
  <1>5. FirstInv'
    <2>1. \A q \in Reactor : first[q] # NULL => first[q] \in Coroutine /\ co_fd[first[q]] \in Fd
      BY AsleepIs DEF IInv, TypeInv, TypeOK, HookFd, FirstInv
    <2>2. QED
      BY <1>1, <1>2, <2>1 DEF IInv, FirstInv, Asleep, TypeInv, TypeOK
  <1>6. BatchInv'
    BY <1>1 DEF IInv, BatchInv
  <1>7. SourceInv'
    <2>1. \A c \in Coroutine : co_pc[c] \in Asleep => co_fd[c] \in Fd
      BY AsleepIs DEF IInv, TypeInv, HookFd
    <2>2. QED
      BY <1>1, <1>2, <2>1 DEF IInv, SourceInv, Asleep, Single, Watched, Queued
  <1>8. ReadyInv'
    BY <1>1, <1>2 DEF IInv, ReadyInv, TypeInv, TypeOK, Arrived
  <1>9. QED
    BY <1>1, <1>3, <1>4, <1>5, <1>6, <1>7, <1>8, Frame DEF IInv

\* The first event of a batch.
LEMMA KeepEventSafe ==
  ASSUME IInv, TypeInv', NEW r \in Reactor, NEW f \in Fd, HandleEvent(r, f), first[r] = NULL
  PROVE  IInv'
  <1>1. /\ loop_pc[r] = "batch" /\ cur[r] = NULL /\ f \in batch[r]
        /\ epoll[r][f] = "on" /\ fd_cor[f] # NULL
        /\ batch' = [batch EXCEPT ![r] = batch[r] \ {f}]
        /\ first' = [first EXCEPT ![r] = fd_cor[f]]
        /\ UNCHANGED <<loop_pc, cur, tmp_tasks, pending_tasks, pending_add, pending_del, epoll, queue,
                       fd_reactor, fd_cor, listen, co_pc, co_fd, closed, ready, hup>>
    BY DEF HandleEvent, InLoop, loopVars, pendVars, fdVars, coVars, envVars
  <1>2. co_fd[fd_cor[f]] = f /\ co_pc[fd_cor[f]] \in Asleep
    BY <1>1, NamedBy DEF IInv, WatchInv, Sleeper
  <1>3. FirstInv'
    BY <1>1, <1>2 DEF IInv, FirstInv, TypeInv, TypeOK, Asleep
  <1>4. BatchInv'
    BY <1>1 DEF IInv, BatchInv
  <1>5. ReadyInv'
    BY <1>1, <1>2 DEF IInv, ReadyInv, TypeInv, TypeOK, Arrived
  <1>6. QED
    BY <1>1, <1>3, <1>4, <1>5, Frame DEF IInv

\* The other events of a batch.
LEMMA MigrateEventSafe ==
  ASSUME IInv, TypeInv', NEW r \in Reactor, NEW f \in Fd, HandleEvent(r, f), first[r] # NULL
  PROVE  IInv'
  <1>1. /\ loop_pc[r] = "batch" /\ cur[r] = NULL /\ f \in batch[r]
        /\ epoll[r][f] = "on" /\ fd_cor[f] # NULL
        /\ batch' = [batch EXCEPT ![r] = batch[r] \ {f}]
        /\ epoll' = [epoll EXCEPT ![r][f] = "absent"]
        /\ fd_reactor' = [fd_reactor EXCEPT ![f] = NULL]
        /\ queue' = Append(queue, f)
        /\ UNCHANGED <<loop_pc, cur, first, tmp_tasks, pending_tasks, pending_add, pending_del, fd_cor,
                       listen, co_pc, co_fd, closed, ready, hup>>
    BY DEF HandleEvent, Migrate, DelEventInLoopThread, Push, InLoop, loopVars, pendVars, fdVars, coVars,
       envVars
  <1>2. PICK c \in Coroutine :
          c = fd_cor[f] /\ co_fd[c] = f /\ co_pc[c] \in Asleep /\ f \in OwnFds(c)
    BY <1>1, NamedBy DEF IInv, WatchInv, Sleeper
  <1>3. Sleeper(f) /\ fd_reactor[f] = r
    BY <1>1, <1>2, SchedulerAssumption DEF IInv, WatchInv, Sleeper
  <1>4. \A q \in Reactor, g \in Fd : epoll'[q][g] = "on" <=> epoll[q][g] = "on" /\ g # f
    <2>1. \A q \in Reactor : epoll[q][f] = "on" => q = r
      BY <1>3 DEF IInv, WatchInv
    <2>2. QED
      BY <1>1, <2>1 DEF IInv, TypeInv, TypeOK
  <1>5. /\ Len(queue') = Len(queue) + 1 /\ queue'[Len(queue) + 1] = f /\ Len(queue) \in Nat
        /\ \A i \in 1..Len(queue) : queue'[i] = queue[i] /\ queue[i] \in Fd
        /\ \A i \in 1..Len(queue') : i \in 1..Len(queue) \/ i = Len(queue) + 1
    BY <1>1 DEF IInv, TypeInv, TypeOK
  <1>6. r # NULL
    BY SchedulerAssumption
  <1>7. RunInv'
    <2>1. ASSUME NEW q \in Reactor, cur[q] # NULL, co_pc[cur[q]] = "resumed"
          PROVE  co_fd[cur[q]] # f /\ co_fd[cur[q]] \in Fd
      <3>1. cur[q] \in Coroutine /\ co_pc[cur[q]] \in Waiting /\ cur[q] # c
        BY <1>2, <2>1 DEF IInv, TypeInv, TypeOK, Waiting, Asleep
      <3>2. QED
        BY <1>2, <3>1, WaitsOn
    <2>2. QED
      BY <1>1, <2>1 DEF IInv, RunInv, Running, TypeInv, TypeOK
  <1>8. WatchInv'
    BY <1>1, <1>4 DEF IInv, WatchInv, Sleeper, Asleep, TypeInv, TypeOK
  <1>9. PendInv'
    <2>1. \A q \in Reactor : pending_add[q][f] = "none"
      BY <1>1, <1>3 DEF IInv, PendInv
    <2>2. QED
      BY <1>1, <1>4, <2>1 DEF IInv, PendInv, Sleeper, Asleep, TypeInv, TypeOK
  <1>10. FirstInv'
    <2>1. ASSUME NEW q \in Reactor, first[q] # NULL PROVE co_fd[first[q]] \in Fd /\ co_fd[first[q]] # f
      <3>1. first[q] \in Coroutine /\ co_pc[first[q]] \in Waiting
        BY <2>1, AsleepIs DEF IInv, FirstInv, TypeInv, TypeOK
      <3>2. co_fd[first[q]] \in Fd /\ epoll[q][co_fd[first[q]]] = "on" /\ co_fd[first[q]] \notin batch[q]
        BY <2>1, <3>1, WaitsOn DEF IInv, FirstInv
      <3>3. fd_reactor[co_fd[first[q]]] = q
        BY <3>2 DEF IInv, WatchInv
      <3>4. QED
        BY <1>1, <1>3, <3>2, <3>3
    <2>2. QED
      BY <1>1, <1>4, <2>1 DEF IInv, FirstInv, Asleep, TypeInv, TypeOK
  <1>11. BatchInv'
    BY <1>1 DEF IInv, BatchInv
  <1>12. QueueInv'
    <2>1. \A i \in 1..Len(queue) : queue[i] # f
      BY <1>3, <1>6 DEF IInv, QueueInv
    <2>2. \A i \in 1..Len(queue) : Sleeper(queue[i]) /\ fd_reactor'[queue[i]] = NULL
      BY <1>1, <1>5, <2>1 DEF IInv, QueueInv, TypeInv, TypeOK
    <2>3. Sleeper(f) /\ fd_reactor'[f] = NULL
      BY <1>1, <1>3 DEF IInv, TypeInv, TypeOK
    <2>4. \A i, j \in 1..Len(queue') : queue'[i] = queue'[j] => i = j
      BY <1>5, <2>1 DEF IInv, QueueInv
    <2>5. \A i \in 1..Len(queue') : Sleeper(queue'[i]) /\ fd_reactor'[queue'[i]] = NULL
      BY <1>5, <2>2, <2>3
    <2>6. QED
      BY <1>1, <2>4, <2>5 DEF QueueInv, Sleeper, Asleep
  <1>13. TaskInv'
    <2>1. ASSUME NEW d \in Coroutine, co_pc[d] = "posted" PROVE ConnFd[d] # f /\ ConnFd[d] \in Fd
      BY <1>2, <2>1, OwnFdsApart, SchedulerAssumption DEF OwnFds, Asleep
    <2>2. QED
      BY <1>1, <2>1, TaskKept DEF IInv, TypeInv, TypeOK
  <1>14. SourceInv'
    <2> SUFFICES ASSUME NEW d \in Coroutine, co_pc[d] \in Asleep, Single(d)
                 PROVE  Watched(co_fd[d])' \/ Queued(co_fd[d])'
      BY <1>1 DEF SourceInv, Asleep, Single, Watched, Queued
    <2>1. co_fd[d] \in Fd /\ (Watched(co_fd[d]) \/ Queued(co_fd[d]))
      BY AsleepIs DEF IInv, SourceInv, TypeInv, HookFd
    <2>2. co_fd[d] = f => Queued(co_fd[d])'
      BY <1>1, <1>5 DEF Queued
    <2>3. co_fd[d] # f /\ Watched(co_fd[d]) => Watched(co_fd[d])'
      BY <1>1, <1>4, <2>1 DEF Watched
    <2>4. Queued(co_fd[d]) => Queued(co_fd[d])'
      BY <1>1, <1>5 DEF Queued
    <2>5. QED
      BY <2>1, <2>2, <2>3, <2>4
  <1>15. ReadyInv'
    <2>1. f \in Arrived
      BY <1>1 DEF IInv, ReadyInv
    <2>2. QED
      BY <1>1, <1>4, <1>5, <2>1 DEF IInv, ReadyInv, TypeInv, TypeOK, Arrived
  <1>16. FdInv' /\ NameInv' /\ ThreadInv'
    BY <1>1, Frame DEF IInv
  <1>17. QED
    BY <1>7, <1>8, <1>9, <1>10, <1>11, <1>12, <1>13, <1>14, <1>15, <1>16 DEF IInv

\* What is asked of a reactor is watched from now on, or was closed.
LEMMA ApplyPendingSafe ==
  ASSUME IInv, TypeInv', NEW r \in Reactor, ApplyPending(r)
  PROVE  IInv'
  <1>1. /\ loop_pc[r] = "batch" /\ batch[r] = {} /\ cur[r] = NULL
        /\ loop_pc' = [loop_pc EXCEPT ![r] = IF first[r] = NULL THEN "pop" ELSE "first"]
        /\ epoll' = [epoll EXCEPT ![r] = Applied(r)]
        /\ pending_add' = [pending_add EXCEPT ![r] = [f \in Fd |-> "none"]]
        /\ pending_del' = [pending_del EXCEPT ![r] = {}]
        /\ UNCHANGED <<cur, first, tmp_tasks, pending_tasks, batch, queue, fd_reactor, fd_cor, listen,
                       co_pc, co_fd, closed, ready, hup>>
    BY DEF ApplyPending, InLoop, fdVars, coVars, envVars
  <1>2. \A f \in Fd : Applied(r)[f] = "on" <=> epoll[r][f] = "on" \/ pending_add[r][f] = "on"
    <2> SUFFICES ASSUME NEW f \in Fd
                 PROVE  Applied(r)[f] = "on" <=> epoll[r][f] = "on" \/ pending_add[r][f] = "on"
      OBVIOUS
    <2>1. f \in pending_del[r] => epoll[r][f] # "on" /\ pending_add[r][f] # "on"
      <3>1. f \in pending_del[r] => fd_cor[f] = NULL
        BY NamedBy DEF IInv, PendInv
      <3>2. QED
        BY <3>1 DEF IInv, PendInv, WatchInv, Sleeper
    <2>2. pending_add[r][f] # "none" => pending_add[r][f] = "on"
      BY DEF IInv, PendInv
    <2>3. QED
      BY <2>1, <2>2 DEF Applied
  <1>3. /\ \A f \in Fd : epoll'[r][f] = "on" <=> epoll[r][f] = "on" \/ pending_add[r][f] = "on"
        /\ \A f \in Fd : pending_add'[r][f] = "none"
        /\ \A q \in Reactor : q # r =>
             /\ epoll'[q] = epoll[q] /\ pending_add'[q] = pending_add[q]
             /\ pending_del'[q] = pending_del[q]
        /\ pending_del'[r] = {}
    BY <1>1, <1>2 DEF IInv, TypeInv, TypeOK
  <1>4. RunInv'
    BY <1>1 DEF IInv, RunInv, Running
  <1>5. FirstInv'
    <2>1. \A q \in Reactor : first[q] # NULL => first[q] \in Coroutine /\ co_fd[first[q]] \in Fd
      BY AsleepIs DEF IInv, TypeInv, TypeOK, HookFd, FirstInv
    <2>2. QED
      BY <1>1, <1>3, <2>1 DEF IInv, FirstInv, Asleep, TypeInv, TypeOK
  <1>6. BatchInv'
    BY <1>1 DEF IInv, BatchInv
  <1>7. WatchInv'
    <2> SUFFICES ASSUME NEW q \in Reactor, NEW f \in Fd, epoll'[q][f] = "on"
                 PROVE  fd_reactor[f] = q /\ fd_cor[f] # NULL /\ (Sleeper(f) \/ cur[q] = fd_cor[f])
      BY <1>1 DEF WatchInv, Sleeper, Asleep
    <2>1. epoll[q][f] = "on" \/ pending_add[q][f] = "on"
      BY <1>3
    <2>2. QED
      BY <2>1 DEF IInv, WatchInv, PendInv, Sleeper
  <1>8. PendInv'
    BY <1>1, <1>3 DEF IInv, PendInv, Sleeper, Asleep
  <1>9. SourceInv'
    <2>1. \A f \in Fd : Watched(f) => Watched(f)'
      BY <1>3 DEF Watched
    <2>2. \A c \in Coroutine : co_pc[c] \in Asleep => co_fd[c] \in Fd
      BY AsleepIs DEF IInv, TypeInv, HookFd
    <2>3. QED
      BY <1>1, <2>1, <2>2 DEF IInv, SourceInv, Asleep, Single, Queued
  <1>10. ReadyInv'
    BY <1>1, <1>3 DEF IInv, ReadyInv, TypeInv, TypeOK, Arrived
  <1>11. QED
    BY <1>1, <1>4, <1>5, <1>6, <1>7, <1>8, <1>9, <1>10, Frame DEF IInv

\* A coroutine that nobody had resumed since its hook is resumed by thread r, which its
\* FdEvent points to from now on.  When it has not yielded yet, two threads have it.
LEMMA ResumeAsleep ==
  ASSUME IInv, TypeInv', NEW r \in Reactor, NEW c \in Coroutine, co_pc[c] \in Asleep,
         NEW p \in {"armed", "resumed"}, p = "armed" <=> co_pc[c] = "armed",
         cur[r] = NULL, loop_pc'[r] \in {"pop", "tasks"},
         \A q \in Reactor : q # r => loop_pc'[q] = loop_pc[q],
         cur' = [cur EXCEPT ![r] = c], co_pc' = [co_pc EXCEPT ![c] = p],
         fd_reactor' = [fd_reactor EXCEPT ![co_fd[c]] = r], co_fd[c] \in Arrived,
         UNCHANGED <<co_fd, fd_cor, listen, closed, pending_tasks, tmp_tasks>>
  PROVE  /\ FdInv' /\ NameInv' /\ RunInv' /\ ThreadInv' /\ TaskInv'
         /\ ~(co_pc'[c] \in Asleep /\ Single(c)')
         /\ \A d \in Coroutine : d # c => co_pc'[d] = co_pc[d] /\ (Single(d)' <=> Single(d))
  <1>1. /\ co_pc[c] \in Waiting /\ c # NULL /\ co_fd[c] \in Fd /\ co_fd[c] \in OwnFds(c)
        /\ fd_cor[co_fd[c]] = c
    BY AsleepIs, WaitsOn, SchedulerAssumption
  <1>2. /\ co_pc'[c] = p /\ p \in Waiting /\ p \in Running
        /\ \A d \in Coroutine : d # c => co_pc'[d] = co_pc[d]
    BY DEF IInv, TypeInv, TypeOK, Waiting, Running
  <1>3. /\ cur'[r] = c /\ \A q \in Reactor : q # r => cur'[q] = cur[q]
        /\ \A q \in Reactor : cur[q] # NULL => cur[q] \in Coroutine
    BY DEF IInv, TypeInv, TypeOK
  <1>4. FdInv'
    <2>1. p \in Hooked \ {"cleared"} /\ co_pc[c] \in Hooked \ {"cleared"}
      BY <1>1 DEF Hooked, Waiting
    <2>2. QED
      BY <1>1, <1>2, <2>1 DEF IInv, FdInv, Waiting, Hooked, OwnFds
  <1>5. NameInv'
    <2>1. \A f \in Fd : fd_cor[f] # NULL => fd_cor[f] \in Coroutine
      BY DEF IInv, TypeInv, TypeOK
    <2>2. QED
      BY <1>2, <2>1 DEF IInv, NameInv, Waiting
  <1>6. RunInv'
    <2> SUFFICES ASSUME NEW q \in Reactor, cur'[q] # NULL
                 PROVE  /\ co_pc'[cur'[q]] \in Running /\ loop_pc'[q] \in {"pop", "tasks"}
                        /\ co_pc'[cur'[q]] = "resumed" => fd_reactor'[co_fd[cur'[q]]] = q
      BY DEF RunInv, Running
    <2>1. CASE q = r
      BY <1>1, <1>2, <1>3, <2>1 DEF IInv, TypeInv, TypeOK
    <2>2. CASE q # r /\ cur[q] # c
      <3>1. /\ cur'[q] = cur[q] /\ cur[q] \in Coroutine /\ co_pc'[cur[q]] = co_pc[cur[q]]
            /\ loop_pc'[q] = loop_pc[q]
        BY <1>2, <1>3, <2>2
      <3>2. co_pc[cur[q]] = "resumed" => co_fd[cur[q]] \in Fd /\ co_fd[cur[q]] # co_fd[c]
        BY <1>1, <2>2, <3>1, WaitsOn DEF Waiting
      <3>3. QED
        BY <3>1, <3>2 DEF IInv, RunInv, TypeInv, TypeOK
    <2>3. CASE q # r /\ cur[q] = c
      <3>1. /\ cur'[q] = c /\ loop_pc'[q] = loop_pc[q] /\ co_pc[c] \in Running
            /\ loop_pc[q] \in {"pop", "tasks"}
        BY <1>1, <1>3, <2>3 DEF IInv, RunInv
      <3>2. co_pc[c] = "armed" /\ p = "armed"
        BY <3>1 DEF Running, Asleep
      <3>3. QED
        BY <1>2, <3>1, <3>2
    <2>4. QED
      BY <2>1, <2>2, <2>3
  <1>7. co_pc[c] = "armed" \/ \A q \in Reactor : cur[q] # c
    <2>1. \A q \in Reactor : cur[q] = c => co_pc[c] \in Running
      BY <1>1 DEF IInv, RunInv
    <2>2. QED
      BY <2>1 DEF Running, Asleep
  <1>8. ThreadInv'
    <2>1. ASSUME NEW d \in Coroutine, co_pc'[d] \in Running PROVE \E q \in Reactor : cur'[q] = d
      <3>1. CASE d = c
        BY <1>3, <3>1
      <3>2. CASE d # c
        <4>1. PICK q \in Reactor : cur[q] = d
          BY <1>2, <2>1, <3>2 DEF IInv, ThreadInv
        <4>2. q # r
          BY <4>1, SchedulerAssumption
        <4>3. QED
          BY <1>3, <4>1, <4>2
      <3>3. QED
        BY <3>1, <3>2
    <2>2. ASSUME NEW q \in Reactor, NEW s \in Reactor, cur'[q] = cur'[s], cur'[q] # NULL
          PROVE  q = s \/ co_pc'[cur'[q]] = "armed"
      <3>1. CASE cur'[q] = c
        <4>1. (q = r /\ s = r) \/ p = "armed"
          BY <1>3, <1>7, <2>2, <3>1
        <4>2. QED
          BY <1>2, <3>1, <4>1
      <3>2. CASE cur'[q] # c
        <4>1. cur'[q] = cur[q] /\ cur'[s] = cur[s] /\ cur[q] \in Coroutine
          BY <1>3, <2>2, <3>2
        <4>2. QED
          BY <1>2, <2>2, <3>2, <4>1 DEF IInv, ThreadInv
      <3>3. QED
        BY <3>1, <3>2
    <2>3. QED
      BY <2>1, <2>2 DEF ThreadInv, Running
  <1>9. TaskInv'
    <2>1. ASSUME NEW d \in Coroutine, co_pc[d] = "posted"
          PROVE  ConnFd[d] # co_fd[c] /\ ConnFd[d] \in Fd /\ d # c
      BY <1>1, <2>1, OwnFdsApart, SchedulerAssumption DEF OwnFds, Asleep
    <2>2. QED
      BY <1>2, <2>1, TaskKept DEF IInv, TypeInv, TypeOK
  <1>10. ~(co_pc'[c] \in Asleep /\ Single(c)')
    <2> SUFFICES ASSUME co_pc'[c] \in Asleep PROVE ~Single(c)'
      OBVIOUS
    <2>1. co_pc[c] = "armed"
      BY <1>2 DEF Asleep
    <2>2. PICK q \in Reactor : cur[q] = c
      BY <2>1 DEF IInv, ThreadInv, Running
    <2>3. q # r
      BY <1>1, <2>2
    <2>4. QED
      BY <1>3, <2>2, <2>3 DEF Single
  <1>11. \A d \in Coroutine : d # c => (Single(d)' <=> Single(d))
    BY <1>3, SchedulerAssumption DEF Single
  <1>12. QED
    BY <1>2, <1>4, <1>5, <1>6, <1>8, <1>9, <1>10, <1>11

LEMMA ResumeFirstSafe ==
  ASSUME IInv, TypeInv', NEW r \in Reactor, ResumeFirst(r), first[r] # NULL
  PROVE  IInv'
  <1>1. PICK c \in Coroutine : c = first[r] /\ co_pc[c] \in Asleep
    BY DEF IInv, FirstInv, TypeInv, TypeOK
  <1>2. PICK p \in {"armed", "resumed"} :
          /\ p = "armed" <=> co_pc[c] = "armed"
          /\ cur[r] = NULL /\ loop_pc[r] = "first"
          /\ cur' = [cur EXCEPT ![r] = c] /\ co_pc' = [co_pc EXCEPT ![c] = p]
          /\ first' = [first EXCEPT ![r] = NULL]
          /\ loop_pc' = [loop_pc EXCEPT ![r] = "pop"]
          /\ UNCHANGED <<tmp_tasks, pending_tasks, pending_add, pending_del, epoll, batch, queue,
                         fd_reactor, fd_cor, listen, co_fd, closed, ready, hup>>
    BY <1>1, ResumeEffect DEF IInv, ResumeFirst, ClearFirst, InLoop, pendVars, fdVars, envVars
  <1>3. /\ c # NULL /\ co_fd[c] \in Fd /\ fd_cor[co_fd[c]] = c
        /\ \A f \in Fd : fd_cor[f] = c => f = co_fd[c]
    BY <1>1, AsleepIs, WaitsOn
  <1>4. /\ epoll[r][co_fd[c]] = "on" /\ fd_reactor[co_fd[c]] = r /\ co_fd[c] \in Arrived
    BY <1>1, <1>3 DEF IInv, FirstInv, WatchInv, ReadyInv
  <1>5. fd_reactor' = [fd_reactor EXCEPT ![co_fd[c]] = r]
    BY <1>2, <1>3, <1>4 DEF IInv, TypeInv, TypeOK
  <1>6. loop_pc'[r] \in {"pop", "tasks"} /\ \A q \in Reactor : q # r => loop_pc'[q] = loop_pc[q]
    BY <1>2 DEF IInv, TypeInv, TypeOK
  <1>7. /\ FdInv' /\ NameInv' /\ RunInv' /\ ThreadInv' /\ TaskInv'
        /\ ~(co_pc'[c] \in Asleep /\ Single(c)')
        /\ \A d \in Coroutine : d # c => co_pc'[d] = co_pc[d] /\ (Single(d)' <=> Single(d))
    BY <1>1, <1>2, <1>4, <1>5, <1>6, ResumeAsleep
  <1>8. co_pc'[c] = p /\ cur'[r] = c /\ \A q \in Reactor : q # r => cur'[q] = cur[q]
    BY <1>2 DEF IInv, TypeInv, TypeOK
  <1>9. \A f \in Fd : f # co_fd[c] /\ Sleeper(f) => Sleeper(f)'
    <2>1. \A f \in Fd : fd_cor[f] # NULL => fd_cor[f] \in Coroutine
      BY DEF IInv, TypeInv, TypeOK
    <2>2. QED
      BY <1>2, <1>3, <1>7, <2>1 DEF Sleeper, Asleep
  <1>10. WatchInv'
    <2> SUFFICES ASSUME NEW q \in Reactor, NEW f \in Fd, epoll[q][f] = "on"
                 PROVE  fd_reactor[f] = q /\ fd_cor[f] # NULL /\ (Sleeper(f)' \/ cur'[q] = fd_cor[f])
      BY <1>2 DEF WatchInv, Sleeper, Asleep
    <2>1. fd_reactor[f] = q /\ fd_cor[f] # NULL /\ (Sleeper(f) \/ cur[q] = fd_cor[f])
      BY DEF IInv, WatchInv
    <2>2. CASE f = co_fd[c]
      BY <1>3, <1>4, <1>8, <2>1, <2>2
    <2>3. CASE f # co_fd[c]
      <3>1. cur[q] = fd_cor[f] => cur'[q] = fd_cor[f]
        BY <1>2, <1>8, <2>1
      <3>2. QED
        BY <1>9, <2>1, <2>3, <3>1
    <2>4. QED
      BY <2>2, <2>3
  <1>11. PendInv'
    <2> SUFFICES ASSUME NEW q \in Reactor, NEW f \in Fd, pending_add[q][f] # "none"
                 PROVE  /\ pending_add[q][f] = "on" /\ epoll[q][f] # "on" /\ fd_reactor[f] = q
                        /\ Sleeper(f)'
      BY <1>2 DEF IInv, PendInv, Sleeper, Asleep
    <2>1. /\ pending_add[q][f] = "on" /\ epoll[q][f] # "on" /\ fd_reactor[f] = q /\ Sleeper(f)
      BY DEF IInv, PendInv
    <2>2. f # co_fd[c]
      BY <1>4, <2>1
    <2>3. QED
      BY <1>9, <2>1, <2>2
  <1>12. FirstInv'
    <2> SUFFICES ASSUME NEW q \in Reactor, first'[q] # NULL
                 PROVE  /\ co_pc'[first'[q]] \in Asleep /\ epoll[q][co_fd[first'[q]]] = "on"
                        /\ co_fd[first'[q]] \notin batch[q] /\ loop_pc'[q] \in {"batch", "first"}
      BY <1>2 DEF FirstInv, Asleep
    <2>1. q # r /\ first'[q] = first[q]
      BY <1>2 DEF IInv, TypeInv, TypeOK
    <2>2. /\ first[q] \in Coroutine /\ co_pc[first[q]] \in Asleep /\ epoll[q][co_fd[first[q]]] = "on"
          /\ co_fd[first[q]] \notin batch[q] /\ loop_pc[q] \in {"batch", "first"}
      BY <2>1 DEF IInv, FirstInv, TypeInv, TypeOK
    <2>3. first[q] # c
      BY <1>3, <1>4, <2>1, <2>2 DEF IInv, WatchInv
    <2>4. QED
      BY <1>6, <1>7, <2>1, <2>2, <2>3
  <1>13. BatchInv'
    BY <1>2 DEF IInv, BatchInv
  <1>14. QueueInv'
    <2>1. ASSUME NEW i \in 1..Len(queue)
          PROVE  queue[i] \in Fd /\ queue[i] # co_fd[c] /\ Sleeper(queue[i]) /\ fd_reactor[queue[i]] = NULL
      <3>1. queue[i] \in Fd /\ Sleeper(queue[i]) /\ fd_reactor[queue[i]] = NULL
        BY DEF IInv, QueueInv, TypeInv, TypeOK
      <3>2. QED
        BY <1>4, <3>1, SchedulerAssumption
    <2>2. QED
      BY <1>2, <1>9, <2>1 DEF IInv, QueueInv, Sleeper, Asleep
  <1>15. SourceInv'
    <2>1. ASSUME NEW d \in Coroutine, co_pc'[d] \in Asleep, Single(d)'
          PROVE  Watched(co_fd[d]) \/ Queued(co_fd[d])
      BY <1>7, <2>1 DEF IInv, SourceInv
    <2>2. QED
      BY <1>2, <2>1 DEF SourceInv, Asleep, Single, Watched, Queued
  <1>16. ReadyInv'
    BY <1>2, <1>4, <1>7 DEF IInv, ReadyInv, TypeInv, TypeOK, Arrived
  <1>17. QED
    BY <1>7, <1>10, <1>11, <1>12, <1>13, <1>14, <1>15, <1>16 DEF IInv

\* No event was kept.
LEMMA ResumeNoneSafe ==
  ASSUME IInv, TypeInv', NEW r \in Reactor, ResumeFirst(r), first[r] = NULL
  PROVE  IInv'
  <1>1. /\ loop_pc[r] = "first" /\ cur[r] = NULL
        /\ loop_pc' = [loop_pc EXCEPT ![r] = "pop"]
        /\ UNCHANGED <<cur, first, tmp_tasks, pending_tasks, pending_add, pending_del, epoll, batch,
                       queue, fd_reactor, fd_cor, listen, co_pc, co_fd, closed, ready, hup>>
    BY DEF IInv, TypeInv, TypeOK, ResumeFirst, ClearFirst, Resume, InLoop, loopVars, pendVars, fdVars,
       coVars, envVars
  <1>2. RunInv'
    BY <1>1 DEF IInv, RunInv, Running
  <1>3. FirstInv'
    BY <1>1 DEF IInv, FirstInv, Asleep
  <1>4. BatchInv'
    BY <1>1 DEF IInv, BatchInv
  <1>5. QED
    BY <1>1, <1>2, <1>3, <1>4, Frame DEF IInv

LEMMA PopQueueSafe ==
  ASSUME IInv, TypeInv', NEW r \in Reactor, PopQueue(r)
  PROVE  IInv'
  <1>1. /\ loop_pc[r] = "pop" /\ cur[r] = NULL /\ queue # <<>> /\ queue' = Tail(queue)
        /\ fd_reactor' = [fd_reactor EXCEPT ![Head(queue)] = r] /\ Resume(r, fd_cor[Head(queue)])
        /\ UNCHANGED <<loop_pc, first, tmp_tasks, pending_tasks, pending_add, pending_del, batch, epoll,
                       fd_cor, listen, co_fd, closed, ready, hup>>
    BY DEF PopQueue, Pop, InLoop, pendVars, envVars
  <1>2. Head(queue) = queue[1] /\ 1 \in 1..Len(queue) /\ queue[1] \in Fd
    BY <1>1, HeadTailProperties DEF IInv, TypeInv, TypeOK
  <1>3. PICK f \in Fd : f = queue[1] /\ Head(queue) = f /\ Sleeper(f) /\ fd_reactor[f] = NULL
    BY <1>2 DEF IInv, QueueInv
  <1>4. PICK c \in Coroutine : c = fd_cor[f] /\ co_pc[c] \in Asleep /\ co_fd[c] = f /\ c # NULL
    BY <1>3, NamedBy, SchedulerAssumption DEF Sleeper
  <1>5. \A g \in Fd : fd_cor[g] = c => g = f
    BY <1>4, AsleepIs, WaitsOn
  <1>6. PICK p \in {"armed", "resumed"} :
          /\ p = "armed" <=> co_pc[c] = "armed"
          /\ cur' = [cur EXCEPT ![r] = c] /\ co_pc' = [co_pc EXCEPT ![c] = p]
    BY <1>1, <1>3, <1>4, ResumeEffect DEF IInv
  <1>7. f \in Arrived
    BY <1>2, <1>3 DEF IInv, ReadyInv
  <1>8. /\ FdInv' /\ NameInv' /\ RunInv' /\ ThreadInv' /\ TaskInv'
        /\ ~(co_pc'[c] \in Asleep /\ Single(c)')
        /\ \A d \in Coroutine : d # c => co_pc'[d] = co_pc[d] /\ (Single(d)' <=> Single(d))
    BY <1>1, <1>3, <1>4, <1>6, <1>7, ResumeAsleep
  <1>9. co_pc'[c] = p /\ cur'[r] = c /\ \A q \in Reactor : q # r => cur'[q] = cur[q]
    BY <1>6 DEF IInv, TypeInv, TypeOK
  <1>10. \A g \in Fd : g # f /\ Sleeper(g) => Sleeper(g)' /\ fd_reactor'[g] = fd_reactor[g]
    <2>1. \A g \in Fd : fd_cor[g] # NULL => fd_cor[g] \in Coroutine
      BY DEF IInv, TypeInv, TypeOK
    <2>2. QED
      BY <1>1, <1>3, <1>5, <1>8, <2>1 DEF Sleeper, Asleep, IInv, TypeInv, TypeOK
  <1>11. \A q \in Reactor : epoll[q][f] # "on" /\ pending_add[q][f] = "none"
    BY <1>3, SchedulerAssumption DEF IInv, WatchInv, PendInv
  <1>12. WatchInv'
    <2> SUFFICES ASSUME NEW q \in Reactor, NEW g \in Fd, epoll[q][g] = "on"
                 PROVE  fd_reactor'[g] = q /\ fd_cor[g] # NULL /\ (Sleeper(g)' \/ cur'[q] = fd_cor[g])
      BY <1>1 DEF WatchInv, Sleeper, Asleep
    <2>1. fd_reactor[g] = q /\ fd_cor[g] # NULL /\ (Sleeper(g) \/ cur[q] = fd_cor[g])
      BY DEF IInv, WatchInv
    <2>2. g # f /\ fd_reactor'[g] = fd_reactor[g]
      BY <1>1, <1>3, <1>11 DEF IInv, TypeInv, TypeOK
    <2>3. cur[q] = fd_cor[g] => cur'[q] = fd_cor[g]
      BY <1>1, <1>9, <2>1
    <2>4. QED
      BY <1>10, <2>1, <2>2, <2>3
  <1>13. PendInv'
    <2> SUFFICES ASSUME NEW q \in Reactor, NEW g \in Fd, pending_add[q][g] # "none"
                 PROVE  /\ pending_add[q][g] = "on" /\ epoll[q][g] # "on" /\ fd_reactor'[g] = q
                        /\ Sleeper(g)'
      BY <1>1 DEF IInv, PendInv, Sleeper, Asleep
    <2>1. /\ pending_add[q][g] = "on" /\ epoll[q][g] # "on" /\ fd_reactor[g] = q /\ Sleeper(g)
      BY DEF IInv, PendInv
    <2>2. QED
      BY <1>10, <1>11, <2>1
  <1>14. FirstInv'
    <2> SUFFICES ASSUME NEW q \in Reactor, first[q] # NULL PROVE co_pc'[first[q]] \in Asleep
      BY <1>1 DEF IInv, FirstInv, Asleep
    <2>1. first[q] \in Coroutine /\ co_pc[first[q]] \in Asleep /\ epoll[q][co_fd[first[q]]] = "on"
      BY DEF IInv, FirstInv, TypeInv, TypeOK
    <2>2. first[q] # c
      BY <1>4, <1>11, <2>1
    <2>3. QED
      BY <1>8, <2>1, <2>2
  <1>15. /\ Len(queue') = Len(queue) - 1 /\ Len(queue) \in Nat
         /\ \A i \in 1..Len(queue') : i + 1 \in 1..Len(queue) /\ queue'[i] = queue[i + 1]
         /\ \A i \in 1..Len(queue) : i # 1 => i - 1 \in 1..Len(queue') /\ queue'[i - 1] = queue[i]
         /\ \A i \in 1..Len(queue) : queue[i] \in Fd
    BY <1>1 DEF IInv, TypeInv, TypeOK
  <1>16. QueueInv'
    <2>1. ASSUME NEW i \in 1..Len(queue), i # 1
          PROVE  /\ fd_cor[queue[i]] # NULL /\ co_pc'[fd_cor[queue[i]]] \in Asleep
                 /\ fd_reactor'[queue[i]] = NULL
      <3>1. queue[i] # f
        BY <1>2, <1>3, <2>1 DEF IInv, QueueInv
      <3>2. PICK g \in Fd : g = queue[i]
        BY <1>15
      <3>3. Sleeper(g) /\ fd_reactor[g] = NULL
        BY <3>2 DEF IInv, QueueInv
      <3>4. Sleeper(g)' /\ fd_reactor'[g] = NULL
        BY <1>10, <3>1, <3>2, <3>3
      <3>5. QED
        BY <1>1, <3>2, <3>4 DEF Sleeper, Asleep
    <2>2. ASSUME NEW i \in 1..Len(queue'), NEW j \in 1..Len(queue'), queue'[i] = queue'[j] PROVE i = j
      <3>1. i + 1 = j + 1
        BY <1>15, <2>2 DEF IInv, QueueInv
      <3>2. QED
        BY <1>15, <3>1
    <2>3. ASSUME NEW i \in 1..Len(queue')
          PROVE  /\ fd_cor[queue'[i]] # NULL /\ co_pc'[fd_cor[queue'[i]]] \in Asleep
                 /\ fd_reactor'[queue'[i]] = NULL
      <3>1. i + 1 \in 1..Len(queue) /\ i + 1 # 1 /\ queue'[i] = queue[i + 1]
        BY <1>15
      <3>2. QED
        BY <2>1, <3>1
    <2>4. QED
      BY <1>1, <2>2, <2>3 DEF QueueInv, Sleeper, Asleep
  <1>17. SourceInv'
    <2> SUFFICES ASSUME NEW d \in Coroutine, co_pc'[d] \in Asleep, Single(d)'
                 PROVE  Watched(co_fd[d]) \/ \E i \in 1..Len(queue') : queue'[i] = co_fd[d]
      BY <1>1 DEF SourceInv, Asleep, Single, Watched, Queued
    <2>1. d # c /\ co_pc[d] \in Asleep /\ Single(d)
      BY <1>8
    <2>2. co_fd[d] # f
      BY <1>4, <2>1, AsleepIs, WaitsOn
    <2>3. ASSUME NEW i \in 1..Len(queue), queue[i] = co_fd[d]
          PROVE  \E j \in 1..Len(queue') : queue'[j] = co_fd[d]
      <3>1. i # 1
        BY <1>3, <2>2, <2>3
      <3>2. QED
        BY <1>15, <2>3, <3>1
    <2>4. QED
      BY <2>1, <2>3 DEF IInv, SourceInv, Queued
  <1>18. BatchInv'
    BY <1>1 DEF IInv, BatchInv
  <1>19. ReadyInv'
    <2>1. \A i \in 1..Len(queue') : queue'[i] \in Arrived
      BY <1>15 DEF IInv, ReadyInv
    <2>2. \A d \in Coroutine : co_pc'[d] \in {"resumed", "reread"} => co_fd[d] \in Arrived
      BY <1>4, <1>7, <1>8 DEF IInv, ReadyInv
    <2>3. QED
      BY <1>1, <2>1, <2>2 DEF IInv, ReadyInv, Arrived
  <1>20. QED
    BY <1>8, <1>12, <1>13, <1>14, <1>16, <1>17, <1>18, <1>19 DEF IInv

LEMMA RunTaskSafe ==
  ASSUME IInv, TypeInv', NEW r \in Reactor, NEW c \in Coroutine, RunTask(r),
         c = Head(tmp_tasks[r])
  PROVE  IInv'
  <1>1. /\ loop_pc[r] = "tasks" /\ cur[r] = NULL /\ tmp_tasks[r] # <<>>
        /\ c = tmp_tasks[r][1] /\ co_pc[c] = "posted"
        /\ tmp_tasks' = [tmp_tasks EXCEPT ![r] = Tail(tmp_tasks[r])]
        /\ cur' = [cur EXCEPT ![r] = c]
        /\ co_pc' = [co_pc EXCEPT ![c] = "run"]
        /\ UNCHANGED <<loop_pc, first, pending_tasks, pending_add, pending_del, epoll, batch, queue,
                       fd_reactor, fd_cor, listen, co_fd, closed, ready, hup>>
    BY ResumeEffect, HeadTailProperties DEF IInv, TaskInv, TypeInv, TypeOK, RunTask, InLoop, loopVars,
       pendVars, fdVars, coVars, envVars
  <1>2. /\ co_pc'[c] = "run" /\ \A d \in Coroutine : d # c => co_pc'[d] = co_pc[d]
        /\ cur'[r] = c /\ \A q \in Reactor : q # r => cur'[q] = cur[q]
        /\ \A q \in Reactor : cur[q] # c
        /\ \A q \in Reactor : cur[q] # NULL => cur[q] \in Coroutine
    <2>1. \A q \in Reactor : cur[q] # c
      BY <1>1, SchedulerAssumption DEF IInv, RunInv, Running
    <2>2. QED
      BY <1>1, <2>1 DEF IInv, TypeInv, TypeOK
  <1>3. /\ \A f \in Fd : fd_cor[f] # c
        /\ \A f \in Fd : Sleeper(f)' <=> Sleeper(f)
        /\ \A f \in Fd : fd_cor[f] # NULL => fd_cor[f] \in Coroutine
    <2>1. \A f \in Fd : fd_cor[f] # c
      BY <1>1, NotNamed DEF Waiting
    <2>2. \A f \in Fd : fd_cor[f] # NULL => fd_cor[f] \in Coroutine
      BY DEF IInv, TypeInv, TypeOK
    <2>3. QED
      BY <1>1, <1>2, <2>1, <2>2 DEF Sleeper, Asleep
  <1>4. FdInv'
    BY <1>1, <1>2 DEF IInv, FdInv, Waiting, Hooked, OwnFds
  <1>5. NameInv'
    BY <1>1, <1>2, <1>3 DEF IInv, NameInv, Waiting
  <1>6. RunInv'
    BY <1>1, <1>2 DEF IInv, RunInv, Running
  <1>7. ThreadInv'
    <2>1. ASSUME NEW d \in Coroutine, co_pc'[d] \in Running PROVE \E q \in Reactor : cur'[q] = d
      <3>1. CASE d = c
        BY <1>2, <3>1
      <3>2. CASE d # c
        <4>1. PICK q \in Reactor : cur[q] = d
          BY <1>2, <2>1, <3>2 DEF IInv, ThreadInv
        <4>2. q # r
          BY <1>1, <4>1, SchedulerAssumption
        <4>3. QED
          BY <1>2, <4>1, <4>2
      <3>3. QED
        BY <3>1, <3>2
    <2>2. ASSUME NEW q \in Reactor, NEW s \in Reactor, cur'[q] = cur'[s], cur'[q] # NULL
          PROVE  q = s \/ co_pc'[cur'[q]] = "armed"
      <3>1. CASE cur'[q] = c
        BY <1>2, <2>2, <3>1
      <3>2. CASE cur'[q] # c
        BY <1>2, <2>2, <3>2 DEF IInv, ThreadInv
      <3>3. QED
        BY <3>1, <3>2
    <2>3. QED
      BY <2>1, <2>2 DEF ThreadInv, Running
  <1>8. WatchInv'
    <2> SUFFICES ASSUME NEW q \in Reactor, NEW f \in Fd, epoll[q][f] = "on"
                 PROVE  fd_reactor[f] = q /\ fd_cor[f] # NULL /\ (Sleeper(f)' \/ cur'[q] = fd_cor[f])
      BY <1>1 DEF WatchInv, Sleeper, Asleep
    <2>1. fd_reactor[f] = q /\ fd_cor[f] # NULL /\ (Sleeper(f) \/ cur[q] = fd_cor[f])
      BY DEF IInv, WatchInv
    <2>2. cur[q] = fd_cor[f] => cur'[q] = fd_cor[f]
      BY <1>1, <1>2, <2>1
    <2>3. QED
      BY <1>3, <2>1, <2>2
  <1>9. PendInv'
    BY <1>1, <1>3 DEF IInv, PendInv, Sleeper, Asleep
  <1>10. FirstInv'
    <2>1. \A q \in Reactor : first[q] # NULL => first[q] \in Coroutine /\ first[q] # c
      BY <1>1, FirstSleeps DEF Asleep
    <2>2. QED
      BY <1>1, <1>2, <2>1 DEF IInv, FirstInv, Asleep
  <1>11. BatchInv'
    BY <1>1 DEF IInv, BatchInv
  <1>12. QueueInv'
    <2>1. \A i \in 1..Len(queue) : queue[i] \in Fd
      BY DEF IInv, TypeInv, TypeOK
    <2>2. QED
      BY <1>1, <1>3, <2>1 DEF IInv, QueueInv, Sleeper, Asleep
  <1>13. TaskInv'
    <2>1. /\ Len(tmp_tasks'[r]) = Len(tmp_tasks[r]) - 1 /\ 1 \in 1..Len(tmp_tasks[r])
          /\ \A i \in 1..Len(tmp_tasks'[r]) : /\ tmp_tasks'[r][i] = tmp_tasks[r][i + 1]
                                             /\ i + 1 \in 1..Len(tmp_tasks[r])
          /\ \A q \in Reactor : q # r => tmp_tasks'[q] = tmp_tasks[q]
      BY <1>1 DEF IInv, TypeInv, TypeOK
    <2>2. \A i \in 1..Len(tmp_tasks'[r]) : tmp_tasks[r][i + 1] # c
      BY <1>1, <2>1 DEF IInv, TaskInv
    <2>3. \A q \in Reactor : \A i \in 1..Len(tmp_tasks'[q]) : tmp_tasks'[q][i] # c
      BY <1>1, <2>1, <2>2, SMTT(20) DEF IInv, TaskInv
    <2>4. \A q \in Reactor : \A i \in 1..Len(pending_tasks[q]) : pending_tasks[q][i] # c
      BY <1>1, <2>1 DEF IInv, TaskInv
    <2>5. \A q \in Reactor : \A i \in 1..Len(tmp_tasks'[q]) :
            /\ co_pc'[tmp_tasks'[q][i]] = "posted"
            /\ fd_reactor[ConnFd[tmp_tasks'[q][i]]] = q
      <3> SUFFICES ASSUME NEW q \in Reactor, NEW i \in 1..Len(tmp_tasks'[q])
                   PROVE  /\ co_pc'[tmp_tasks'[q][i]] = "posted"
                          /\ fd_reactor[ConnFd[tmp_tasks'[q][i]]] = q
        OBVIOUS
      <3>1. \E j \in 1..Len(tmp_tasks[q]) : tmp_tasks'[q][i] = tmp_tasks[q][j]
        BY <2>1
      <3>2. co_pc[tmp_tasks'[q][i]] = "posted" /\ fd_reactor[ConnFd[tmp_tasks'[q][i]]] = q
        BY <3>1 DEF IInv, TaskInv
      <3>3. tmp_tasks'[q][i] # c
        BY <2>3
      <3>4. QED
        BY <1>1, <3>2, <3>3 DEF IInv, TypeInv, TypeOK
    <2>6. \A q \in Reactor : \A i, j \in 1..Len(tmp_tasks'[q]) :
            tmp_tasks'[q][i] = tmp_tasks'[q][j] => i = j
      <3> SUFFICES ASSUME NEW q \in Reactor, NEW i \in 1..Len(tmp_tasks'[q]),
                          NEW j \in 1..Len(tmp_tasks'[q]), tmp_tasks'[q][i] = tmp_tasks'[q][j]
                   PROVE  i = j
        OBVIOUS
      <3>1. CASE q = r
        <4>1. tmp_tasks[r][i + 1] = tmp_tasks[r][j + 1]
          BY <2>1, <3>1
        <4>2. i + 1 = j + 1
          BY <2>1, <3>1, <4>1, SMTT(20) DEF IInv, TaskInv
        <4>3. QED
          BY <4>2
      <3>2. CASE q # r
        BY <2>1, <3>2 DEF IInv, TaskInv
      <3>3. QED
        BY <3>1, <3>2
    <2>7. \A q \in Reactor : \A i \in 1..Len(pending_tasks[q]), j \in 1..Len(tmp_tasks'[q]) :
            pending_tasks[q][i] # tmp_tasks'[q][j]
      <3>1. \A q \in Reactor : \A j \in 1..Len(tmp_tasks'[q]) :
              \E k \in 1..Len(tmp_tasks[q]) : tmp_tasks'[q][j] = tmp_tasks[q][k]
        BY <2>1
      <3>2. \A q \in Reactor : \A i \in 1..Len(pending_tasks[q]), k \in 1..Len(tmp_tasks[q]) :
              pending_tasks[q][i] # tmp_tasks[q][k]
        BY DEF IInv, TaskInv
      <3>3. QED
        <4> SUFFICES ASSUME NEW q \in Reactor, NEW i \in 1..Len(pending_tasks[q]),
                            NEW j \in 1..Len(tmp_tasks'[q])
                     PROVE  pending_tasks[q][i] # tmp_tasks'[q][j]
          OBVIOUS
        <4>1. PICK k \in 1..Len(tmp_tasks[q]) : tmp_tasks'[q][j] = tmp_tasks[q][k]
          BY <3>1
        <4>2. QED
          BY <3>2, <4>1
    <2>8. \A q \in Reactor : \A i \in 1..Len(pending_tasks[q]) :
            co_pc'[pending_tasks[q][i]] = "posted"
      BY <1>1, <2>4 DEF IInv, TaskInv, TypeInv, TypeOK
    <2>9. QED
      BY <1>1, <2>5, <2>6, <2>7, <2>8 DEF IInv, TaskInv
  <1>14. SourceInv'
    <2> SUFFICES ASSUME NEW d \in Coroutine, co_pc'[d] \in Asleep, Single(d)'
                 PROVE  Watched(co_fd[d]) \/ Queued(co_fd[d])
      BY <1>1 DEF SourceInv, Asleep, Single, Watched, Queued
    <2>1. d # c /\ co_pc[d] \in Asleep
      BY <1>2 DEF Asleep
    <2>2. Single(d)
      BY <1>1, <1>2, <2>1, SchedulerAssumption DEF Single
    <2>3. QED
      BY <2>1, <2>2 DEF IInv, SourceInv
  <1>15. ReadyInv'
    BY <1>1, <1>2 DEF IInv, ReadyInv, Arrived
  <1>16. QED
    BY <1>4, <1>5, <1>6, <1>7, <1>8, <1>9, <1>10, <1>11, <1>12, <1>13, <1>14, <1>15 DEF IInv

\* A running coroutine that is neither at a hook nor resumed moves on without touching its
\* FdEvents: what the others have stays as it is.
LEMMA Unnamed ==
  ASSUME IInv, NEW c \in Coroutine, co_pc[c] \notin Waiting, NEW p \in CoPc, p \notin Waiting,
         co_pc' = [co_pc EXCEPT ![c] = p], UNCHANGED <<fd_cor, co_fd>>
  PROVE  /\ co_pc'[c] = p /\ \A d \in Coroutine : d # c => co_pc'[d] = co_pc[d]
         /\ NameInv /\ UNCHANGED listen => NameInv'
         /\ \A f \in Fd : Sleeper(f)' <=> Sleeper(f)
         /\ \A f \in Fd : fd_cor[f] # c
  <1>1. co_pc'[c] = p /\ \A d \in Coroutine : d # c => co_pc'[d] = co_pc[d]
    BY DEF IInv, TypeInv, TypeOK
  <1>2. \A f \in Fd : fd_cor[f] # c /\ (fd_cor[f] # NULL => fd_cor[f] \in Coroutine)
    BY NotNamed, NamedBy
  <1>3. NameInv /\ UNCHANGED listen => NameInv'
    BY <1>1, <1>2 DEF NameInv, Waiting
  <1>4. \A f \in Fd : Sleeper(f)' <=> Sleeper(f)
    BY <1>1, <1>2 DEF Sleeper, Asleep
  <1>5. QED
    BY <1>1, <1>2, <1>3, <1>4

\* A running coroutine that is not at a hook moves on: it uses, closes or stops watching one
\* of its own fds, which nobody watches, was asked to watch, has queued or named.
LEMMA MovesOn ==
  ASSUME IInv, TypeInv', NEW r \in Reactor, NEW c \in Coroutine, Runs(r, c),
         co_pc[c] \in {"run", "reread", "closing"}, NEW p \in {"run", "closing", "cleared"},
         NEW f \in OwnFds(c) \cap Fd,
         co_pc' = [co_pc EXCEPT ![c] = p],
         p = "closing" => co_fd[c] \in OwnFds(c) /\ co_fd[c] \notin closed',
         closed' \in {closed, closed \cup {f}},
         \A g \in Fd : g # f => fd_reactor'[g] = fd_reactor[g],
         \A q \in Reactor, g \in Fd : g # f => epoll'[q][g] = epoll[q][g],
         \A q \in Reactor : epoll'[q][f] = "on" => epoll[q][f] = "on",
         \A q \in Reactor : \A g \in pending_del'[q] : g \in closed',
         \A g \in Arrived : g # f => g \in Arrived',
         UNCHANGED <<loop_pc, cur, first, tmp_tasks, pending_tasks, pending_add, batch, queue,
                     fd_cor, listen, co_fd>>
  PROVE  IInv'
  <1>1. /\ cur[r] = c /\ \A q \in Reactor : cur[q] = c => q = r
        /\ co_pc[c] \notin Waiting /\ p \notin Waiting /\ p \in CoPc /\ p \in Running
    BY DEF Runs, Waiting, Running, CoPc
  <1>2. /\ fd_cor[f] = NULL
        /\ \A q \in Reactor : epoll'[q][f] # "on" /\ pending_add[q][f] = "none"
        /\ \A i \in 1..Len(queue) : queue[i] # f
        /\ \A g \in Fd : fd_cor[g] # c
    BY <1>1, NotNamed
  <1>3. /\ co_pc'[c] = p /\ \A d \in Coroutine : d # c => co_pc'[d] = co_pc[d]
        /\ \A g \in Fd : Sleeper(g)' <=> Sleeper(g)
        /\ NameInv'
    <2>1. co_pc'[c] = p /\ \A d \in Coroutine : d # c => co_pc'[d] = co_pc[d]
      BY DEF IInv, TypeInv, TypeOK
    <2>2. \A g \in Fd : fd_cor[g] # c /\ (fd_cor[g] # NULL => fd_cor[g] \in Coroutine)
      BY <1>2, NamedBy
    <2>3. NameInv'
      BY <1>1, <2>1, <2>2 DEF IInv, NameInv, Waiting
    <2>4. \A g \in Fd : Sleeper(g)' <=> Sleeper(g)
      BY <1>1, <2>1, <2>2 DEF Sleeper
    <2>5. QED
      BY <2>1, <2>3, <2>4
  <1>4. \A d \in Coroutine : co_pc[d] \in Hooked \ {"cleared"} /\ d # c =>
          /\ co_fd[d] \in OwnFds(d) /\ co_fd[d] \notin closed
          /\ co_fd[d] # f /\ co_fd[d] \in Fd
    BY OwnFdsApart DEF IInv, FdInv, TypeInv, HookFd
  <1>5. \A q \in Reactor : first[q] # NULL =>
          /\ first[q] \in Coroutine /\ first[q] # c /\ co_pc[first[q]] \in Asleep
          /\ co_fd[first[q]] # f /\ co_fd[first[q]] \in Fd
    <2>1. Asleep \subseteq Hooked \ {"cleared"} /\ co_pc[c] \notin Asleep
      BY <1>1 DEF Asleep, Hooked, Waiting
    <2>2. QED
      BY <1>4, <2>1, FirstSleeps
  <1>6. FdInv'
    <2>1. ASSUME NEW d \in Coroutine, co_pc'[d] \in Hooked \ {"cleared"}
          PROVE  co_fd[d] \in OwnFds(d) /\ co_fd[d] \notin closed'
      <3>1. CASE d = c
        BY <1>3, <2>1, <3>1 DEF Hooked
      <3>2. CASE d # c
        BY <1>3, <1>4, <2>1, <3>2
      <3>3. QED
        BY <3>1, <3>2
    <2>2. ASSUME NEW d \in Coroutine, co_pc'[d] \in Waiting PROVE fd_cor[co_fd[d]] = d
      BY <1>1, <1>3, <2>2 DEF IInv, FdInv
    <2>3. QED
      BY <2>1, <2>2 DEF FdInv, Waiting, Hooked, OwnFds
  <1>7. RunInv'
    <2> SUFFICES ASSUME NEW q \in Reactor, cur[q] # NULL
                 PROVE  /\ co_pc'[cur[q]] \in Running /\ loop_pc[q] \in {"pop", "tasks"}
                        /\ co_pc'[cur[q]] = "resumed" => fd_reactor'[co_fd[cur[q]]] = q
      BY DEF RunInv, Running
    <2>1. CASE cur[q] = c
      BY <1>1, <1>3, <2>1 DEF IInv, RunInv, Waiting
    <2>2. CASE cur[q] # c
      <3>1. cur[q] \in Coroutine /\ co_pc'[cur[q]] = co_pc[cur[q]]
        BY <1>3, <2>2 DEF IInv, TypeInv, TypeOK
      <3>2. co_pc[cur[q]] = "resumed" => co_fd[cur[q]] # f /\ co_fd[cur[q]] \in Fd
        BY <1>4, <2>2, <3>1 DEF Hooked
      <3>3. QED
        BY <3>1, <3>2 DEF IInv, RunInv
    <2>3. QED
      BY <2>1, <2>2
  <1>8. ThreadInv'
    <2>1. ASSUME NEW d \in Coroutine, co_pc'[d] \in Running PROVE \E q \in Reactor : cur[q] = d
      <3>1. CASE d = c
        BY <1>1, <3>1
      <3>2. CASE d # c
        BY <1>3, <2>1, <3>2 DEF IInv, ThreadInv
      <3>3. QED
        BY <3>1, <3>2
    <2>2. ASSUME NEW q \in Reactor, NEW s \in Reactor, cur[q] = cur[s], cur[q] # NULL
          PROVE  q = s \/ co_pc'[cur[q]] = "armed"
      <3>1. CASE cur[q] = c
        BY <1>1, <2>2, <3>1
      <3>2. CASE cur[q] # c
        <4>1. cur[q] \in Coroutine /\ co_pc'[cur[q]] = co_pc[cur[q]]
          BY <1>3, <2>2, <3>2 DEF IInv, TypeInv, TypeOK
        <4>2. QED
          BY <2>2, <4>1 DEF IInv, ThreadInv
      <3>3. QED
        BY <3>1, <3>2
    <2>3. QED
      BY <2>1, <2>2 DEF ThreadInv, Running
  <1>9. WatchInv'
    <2> SUFFICES ASSUME NEW q \in Reactor, NEW g \in Fd, epoll'[q][g] = "on"
                 PROVE  /\ fd_reactor'[g] = q /\ fd_cor[g] # NULL
                        /\ Sleeper(g)' \/ cur[q] = fd_cor[g]
      BY DEF WatchInv, Sleeper, Asleep
    <2>1. g # f
      BY <1>2
    <2>2. QED
      BY <1>3, <2>1 DEF IInv, WatchInv
  <1>10. PendInv'
    <2> SUFFICES ASSUME NEW q \in Reactor, NEW g \in Fd, pending_add[q][g] # "none"
                 PROVE  /\ pending_add[q][g] = "on" /\ epoll'[q][g] # "on" /\ fd_reactor'[g] = q
                        /\ Sleeper(g)'
      BY DEF PendInv, Sleeper, Asleep
    <2>1. g # f
      BY <1>2
    <2>2. QED
      BY <1>3, <2>1 DEF IInv, PendInv
  <1>11. FirstInv'
    <2> SUFFICES ASSUME NEW q \in Reactor, first[q] # NULL
                 PROVE  co_pc'[first[q]] \in Asleep /\ epoll'[q][co_fd[first[q]]] = "on"
                        /\ co_fd[first[q]] \notin batch[q] /\ loop_pc[q] \in {"batch", "first"}
      BY DEF FirstInv, Asleep
    <2>1. QED
      BY <1>3, <1>5 DEF IInv, FirstInv
  <1>12. BatchInv'
    BY Frame DEF IInv
  <1>13. QueueInv'
    <2>1. \A i \in 1..Len(queue) : queue[i] \in Fd /\ queue[i] # f
      BY <1>2 DEF IInv, TypeInv, TypeOK
    <2>2. QED
      BY <1>3, <2>1 DEF IInv, QueueInv, Sleeper, Asleep
  <1>14. TaskInv'
    <2>1. ASSUME NEW d \in Coroutine, co_pc[d] = "posted"
          PROVE  ConnFd[d] # f /\ ConnFd[d] \in Fd /\ d # c
      BY <2>1, OwnFdsApart, SchedulerAssumption DEF OwnFds
    <2>2. QED
      BY <1>3, <2>1, TaskKept DEF IInv
  <1>15. SourceInv'
    <2> SUFFICES ASSUME NEW d \in Coroutine, co_pc'[d] \in Asleep, Single(d)
                 PROVE  \/ \E q \in Reactor : "on" \in {epoll'[q][co_fd[d]], pending_add[q][co_fd[d]]}
                        \/ Queued(co_fd[d])
      BY DEF SourceInv, Asleep, Single, Watched, Queued
    <2>1. d # c
      BY <1>1, <1>3, AsleepIs
    <2>2. co_pc[d] \in Asleep /\ co_fd[d] \in Fd /\ co_fd[d] # f
      BY <1>3, <1>4, <2>1 DEF Asleep, Hooked
    <2>3. QED
      BY <2>2 DEF IInv, SourceInv, Watched
  <1>16. ReadyInv'
    <2>1. ASSUME NEW q \in Reactor, NEW g \in batch[q] \cap Fd, epoll'[q][g] = "on" PROVE g \in Arrived'
      <3>1. g # f
        BY <1>2, <2>1
      <3>2. QED
        BY <2>1, <3>1 DEF IInv, ReadyInv
    <2>2. ASSUME NEW q \in Reactor, first[q] # NULL PROVE co_fd[first[q]] \in Arrived'
      BY <1>5, <2>2 DEF IInv, ReadyInv
    <2>3. ASSUME NEW i \in 1..Len(queue) PROVE queue[i] \in Arrived'
      BY <1>2 DEF IInv, ReadyInv
    <2>4. ASSUME NEW d \in Coroutine, co_pc'[d] \in {"resumed", "reread"} PROVE co_fd[d] \in Arrived'
      <3>1. d # c
        BY <1>3, <2>4
      <3>2. co_pc[d] \in {"resumed", "reread"} /\ co_fd[d] # f
        BY <1>3, <1>4, <2>4, <3>1 DEF Hooked
      <3>3. QED
        BY <3>2 DEF IInv, ReadyInv
    <2>5. QED
      BY <2>1, <2>2, <2>3, <2>4 DEF ReadyInv
  <1>17. QED
    BY <1>3, <1>6, <1>7, <1>8, <1>9, <1>10, <1>11, <1>12, <1>13, <1>14, <1>15, <1>16 DEF IInv

\* The system call succeeds.
LEMMA HookSucceedsSafe ==
  ASSUME IInv, TypeInv', NEW r \in Reactor, NEW c \in Coroutine, NEW f \in Fd, HookSucceeds(r, c, f)
  PROVE  IInv'
  <1>1. /\ Runs(r, c) /\ co_pc[c] = "run" /\ f \in OwnFds(c)
        /\ ready' = ready \ {f}
        /\ fd_reactor' = [fd_reactor EXCEPT ![f] = ReactorOf(f, r)]
        /\ UNCHANGED <<loop_pc, cur, first, tmp_tasks, pending_tasks, pending_add, pending_del, epoll,
                       batch, queue, fd_cor, listen, co_pc, co_fd, closed, hup>>
    BY DEF HookSucceeds, MayUse, OwnFds, loopVars, pendVars, coVars
  <1>2. co_pc' = [co_pc EXCEPT ![c] = "run"] /\ \A g \in Fd : g # f => fd_reactor'[g] = fd_reactor[g]
    BY <1>1 DEF IInv, TypeInv, TypeOK
  <1>3. \A g \in Arrived : g # f => g \in Arrived'
    BY <1>1 DEF Arrived
  <1>4. \A q \in Reactor : \A g \in pending_del'[q] : g \in closed'
    BY <1>1 DEF IInv, PendInv
  <1>5. QED
    BY <1>1, <1>2, <1>3, <1>4, MovesOn

\* toEpoll: the FdEvent names the coroutine, and its reactor watches the fd or is asked to.
LEMMA HookBlocksSafe ==
  ASSUME IInv, TypeInv', NEW r \in Reactor, NEW c \in Coroutine, NEW f \in Fd, HookBlocks(r, c, f)
  PROVE  IInv'
  <1>1. /\ cur[r] = c /\ co_pc[c] = "run" /\ f \in OwnFds(c) /\ f \notin closed
        /\ fd_cor' = [fd_cor EXCEPT ![f] = c]
        /\ listen' = [listen EXCEPT ![f] = TRUE]
        /\ co_fd' = [co_fd EXCEPT ![c] = f]
        /\ co_pc' = [co_pc EXCEPT ![c] = "armed"]
        /\ fd_reactor' = [fd_reactor EXCEPT ![f] = ReactorOf(f, r)]
        /\ UNCHANGED <<loop_pc, cur, first, tmp_tasks, pending_tasks, pending_del, batch, queue, closed,
                       ready, hup>>
    BY DEF HookBlocks, AddListenEvents, SetCoroutine, MayUse, OwnFds, Runs, loopVars, envVars
  <1>2. /\ fd_cor[f] = NULL /\ ~listen[f]
        /\ \A q \in Reactor : epoll[q][f] # "on" /\ pending_add[q][f] = "none"
        /\ \A i \in 1..Len(queue) : queue[i] # f
        /\ \A g \in Fd : fd_cor[g] # c
    BY <1>1, NotNamed DEF Waiting
  <1>3. PICK q \in Reactor : q = ReactorOf(f, r)
    BY DEF ReactorOf, IInv, TypeInv, TypeOK
  <1>4. /\ fd_reactor'[f] = q /\ \A g \in Fd : g # f => fd_reactor'[g] = fd_reactor[g]
        /\ fd_cor'[f] = c /\ \A g \in Fd : g # f => fd_cor'[g] = fd_cor[g]
        /\ co_pc'[c] = "armed" /\ \A d \in Coroutine : d # c => co_pc'[d] = co_pc[d]
        /\ co_fd'[c] = f /\ \A d \in Coroutine : d # c => co_fd'[d] = co_fd[d]
        /\ listen'[f] /\ \A g \in Fd : g # f => listen'[g] = listen[g]
        /\ \A g \in Fd : fd_cor[g] # NULL => fd_cor[g] \in Coroutine
        /\ c # NULL
    BY <1>1, <1>3, SchedulerAssumption DEF IInv, TypeInv, TypeOK
  <1>5. \/ q = r /\ epoll' = [epoll EXCEPT ![r][f] = "on"] /\ UNCHANGED pending_add
        \/ /\ pending_add' = [pending_add EXCEPT ![q][f] = IF @ = "none" THEN "on" ELSE @]
           /\ UNCHANGED epoll
    BY <1>2, <1>3 DEF HookBlocks, AddListenEvents, AddEvent, AddEventInLoopThread
  <1>6. /\ \/ epoll'[q][f] = "on" /\ q = r /\ pending_add'[q][f] = "none"
           \/ epoll'[q][f] # "on" /\ pending_add'[q][f] = "on"
        /\ \A s \in Reactor : s # q => epoll'[s][f] # "on" /\ pending_add'[s][f] = "none"
        /\ \A s \in Reactor, g \in Fd : g # f =>
             epoll'[s][g] = epoll[s][g] /\ pending_add'[s][g] = pending_add[s][g]
    <2>1. /\ epoll \in [Reactor -> [Fd -> Mask]]
          /\ pending_add \in [Reactor -> [Fd -> Mask \cup {"none"}]]
      BY DEF IInv, TypeInv, TypeOK
    <2>2. CASE q = r /\ epoll' = [epoll EXCEPT ![r][f] = "on"] /\ UNCHANGED pending_add
      BY <1>2, <2>1, <2>2
    <2>3. CASE /\ pending_add' = [pending_add EXCEPT ![q][f] = IF @ = "none" THEN "on" ELSE @]
               /\ UNCHANGED epoll
      BY <1>2, <2>1, <2>3
    <2>4. QED
      BY <1>5, <2>2, <2>3
  <1>7. /\ \A g \in Fd : g # f => (Sleeper(g)' <=> Sleeper(g))
        /\ Sleeper(f)'
    BY <1>2, <1>4 DEF Sleeper, Asleep
  <1>8. FdInv'
    <2>1. ASSUME NEW d \in Coroutine, d # c, co_pc[d] \in Hooked \ {"cleared"}
          PROVE  co_fd[d] # f /\ co_fd[d] \in Fd
      BY <1>1, <2>1, OwnFdsApart DEF IInv, FdInv, TypeInv, HookFd
    <2>2. Waiting \subseteq Hooked \ {"cleared"}
      BY DEF Waiting, Hooked
    <2>3. QED
      BY <1>1, <1>4, <2>1, <2>2 DEF IInv, FdInv, Waiting, Hooked, OwnFds
  <1>9. NameInv'
    BY <1>2, <1>4 DEF IInv, NameInv, Waiting
  <1>10. RunInv'
    <2> SUFFICES ASSUME NEW s \in Reactor, cur[s] # NULL
                 PROVE  /\ co_pc'[cur[s]] \in Running /\ loop_pc[s] \in {"pop", "tasks"}
                        /\ co_pc'[cur[s]] = "resumed" => fd_reactor'[co_fd'[cur[s]]] = s
      BY <1>1 DEF RunInv, Running
    <2>1. CASE cur[s] = c
      BY <1>4, <2>1 DEF IInv, RunInv, Running
    <2>2. CASE cur[s] # c
      <3>1. cur[s] \in Coroutine
        BY DEF IInv, TypeInv, TypeOK
      <3>2. co_pc[cur[s]] = "resumed" => co_fd[cur[s]] # f /\ co_fd[cur[s]] \in Fd
        BY <1>2, <3>1, SchedulerAssumption, WaitsOn DEF Waiting
      <3>3. QED
        BY <1>4, <2>2, <3>1, <3>2 DEF IInv, RunInv
    <2>3. QED
      BY <2>1, <2>2
  <1>11. ThreadInv'
    <2>1. \A s \in Reactor : cur[s] # NULL => cur[s] \in Coroutine
      BY DEF IInv, TypeInv, TypeOK
    <2>2. \A d \in Coroutine : co_pc'[d] \in Running => co_pc[d] \in Running
      BY <1>1, <1>4 DEF Running
    <2>3. QED
      BY <1>1, <1>4, <2>1, <2>2 DEF IInv, ThreadInv, Running
  <1>12. WatchInv'
    <2> SUFFICES ASSUME NEW s \in Reactor, NEW g \in Fd, epoll'[s][g] = "on"
                 PROVE  /\ fd_reactor'[g] = s /\ fd_cor'[g] # NULL
                        /\ Sleeper(g)' \/ cur[s] = fd_cor'[g]
      BY <1>1 DEF WatchInv, Sleeper, Asleep
    <2>1. CASE g = f
      BY <1>4, <1>6, <1>7, <2>1
    <2>2. CASE g # f
      BY <1>4, <1>6, <1>7, <2>2 DEF IInv, WatchInv
    <2>3. QED
      BY <2>1, <2>2
  <1>13. PendInv'
    <2> SUFFICES ASSUME NEW s \in Reactor, NEW g \in Fd, pending_add'[s][g] # "none"
                 PROVE  /\ pending_add'[s][g] = "on" /\ epoll'[s][g] # "on" /\ fd_reactor'[g] = s
                        /\ Sleeper(g)'
      BY <1>1 DEF IInv, PendInv, Sleeper, Asleep
    <2>1. CASE g = f
      BY <1>4, <1>6, <1>7, <2>1
    <2>2. CASE g # f
      BY <1>4, <1>6, <1>7, <2>2 DEF IInv, PendInv
    <2>3. QED
      BY <2>1, <2>2
  <1>14. FirstInv'
    <2> SUFFICES ASSUME NEW s \in Reactor, first[s] # NULL
                 PROVE  co_pc'[first[s]] \in Asleep /\ epoll'[s][co_fd'[first[s]]] = "on"
                        /\ co_fd'[first[s]] \notin batch[s]
      BY <1>1 DEF IInv, FirstInv, Asleep
    <2>1. first[s] \in Coroutine /\ co_pc[first[s]] \in Asleep /\ first[s] # c
      BY <1>1 DEF IInv, FirstInv, TypeInv, TypeOK, Asleep
    <2>2. co_fd[first[s]] \in Fd /\ co_fd[first[s]] # f
      BY <1>2, <2>1, AsleepIs, WaitsOn
    <2>3. QED
      BY <1>4, <1>6, <2>1, <2>2 DEF IInv, FirstInv
  <1>15. QueueInv'
    <2>1. \A i \in 1..Len(queue) : queue[i] \in Fd /\ queue[i] # f
      BY <1>2 DEF IInv, TypeInv, TypeOK
    <2>2. QED
      BY <1>1, <1>4, <1>7, <2>1 DEF IInv, QueueInv, Sleeper, Asleep
  <1>16. TaskInv'
    <2>1. ASSUME NEW d \in Coroutine, co_pc[d] = "posted"
          PROVE  ConnFd[d] # f /\ ConnFd[d] \in Fd /\ d # c
      BY <1>1, <2>1, OwnFdsApart, SchedulerAssumption DEF OwnFds
    <2>2. QED
      BY <1>1, <1>4, <2>1, TaskKept DEF IInv
  <1>17. SourceInv'
    <2> SUFFICES ASSUME NEW d \in Coroutine, co_pc'[d] \in Asleep, Single(d)
                 PROVE  \/ \E s \in Reactor : "on" \in {epoll'[s][co_fd'[d]], pending_add'[s][co_fd'[d]]}
                        \/ Queued(co_fd'[d])
      BY <1>1 DEF SourceInv, Asleep, Single, Watched, Queued
    <2>1. CASE d = c
      BY <1>4, <1>6, <2>1
    <2>2. CASE d # c
      <3>1. co_pc[d] \in Asleep /\ co_fd[d] \in Fd /\ co_fd[d] # f
        BY <1>2, <1>4, <2>2, SchedulerAssumption, AsleepIs, WaitsOn
      <3>2. QED
        BY <1>4, <1>6, <2>2, <3>1 DEF IInv, SourceInv, Watched
    <2>3. QED
      BY <2>1, <2>2
  <1>18. ReadyInv'
    <2>1. batch[r] = {}
      BY <1>1, <1>4 DEF IInv, RunInv, BatchInv
    <2>2. ASSUME NEW s \in Reactor, NEW g \in batch[s] \cap Fd, epoll'[s][g] = "on" PROVE g \in Arrived
      BY <1>6, <2>1, <2>2 DEF IInv, ReadyInv
    <2>3. \A s \in Reactor : first[s] # NULL => co_fd'[first[s]] \in Arrived
      <3>1. \A s \in Reactor : first[s] # NULL => first[s] \in Coroutine /\ first[s] # c
        BY <1>1, FirstSleeps DEF Asleep
      <3>2. QED
        BY <1>4, <3>1 DEF IInv, ReadyInv
    <2>4. \A d \in Coroutine : co_pc'[d] \in {"resumed", "reread"} => co_fd'[d] \in Arrived
      BY <1>4 DEF IInv, ReadyInv
    <2>5. QED
      BY <1>1, <2>2, <2>3, <2>4 DEF IInv, ReadyInv, Arrived
  <1>19. BatchInv'
    BY <1>1 DEF IInv, BatchInv
  <1>20. QED
    BY <1>8, <1>9, <1>10, <1>11, <1>12, <1>13, <1>14, <1>15, <1>16, <1>17, <1>18, <1>19 DEF IInv

\* The second system call.
LEMMA RereadSafe ==
  ASSUME IInv, TypeInv', NEW r \in Reactor, NEW c \in Coroutine, Reread(r, c)
  PROVE  IInv'
  <1>1. PICK p \in {"run", "closing"} :
          /\ Runs(r, c) /\ co_pc[c] = "reread"
          /\ ready' = ready \ {co_fd[c]}
          /\ co_pc' = [co_pc EXCEPT ![c] = p]
          /\ UNCHANGED <<loop_pc, cur, first, tmp_tasks, pending_tasks, pending_add, pending_del, epoll,
                         batch, queue, fd_reactor, fd_cor, listen, co_fd, closed, hup>>
    BY DEF Reread, loopVars, pendVars, fdVars
  <1>2. co_fd[c] \in OwnFds(c) \cap Fd /\ co_fd[c] \notin closed
    BY <1>1 DEF IInv, FdInv, TypeInv, HookFd, Hooked
  <1>3. \A g \in Arrived : g # co_fd[c] => g \in Arrived'
    BY <1>1 DEF Arrived
  <1>4. \A q \in Reactor : \A g \in pending_del'[q] : g \in closed'
    BY <1>1 DEF IInv, PendInv
  <1>5. QED
    BY <1>1, <1>2, <1>3, <1>4, MovesOn

\* unregisterFromReactor and close of one of its own fds: of the connection, of the failed
\* call or of a call that has its answer.
LEMMA UnregisterSafe ==
  ASSUME IInv, TypeInv', NEW r \in Reactor, NEW c \in Coroutine, Runs(r, c),
         co_pc[c] \in {"run", "closing"}, NEW p \in {"run", "cleared"},
         co_pc' = [co_pc EXCEPT ![c] = p],
         NEW f \in OwnFds(c) \cap Fd, Unregister(r, c, f)
  PROVE  IInv'
  <1>1. /\ closed' = closed \cup {f}
        /\ fd_reactor' = [fd_reactor EXCEPT ![f] = ReactorOf(f, r)]
        /\ listen' = [listen EXCEPT ![f] = FALSE]
        /\ UNCHANGED <<loop_pc, cur, first, tmp_tasks, pending_tasks, pending_add, batch, queue,
                       fd_cor, co_fd, ready, hup>>
    BY DEF Unregister, loopVars, envVars
  <1>2. listen' = listen
    <2>1. co_pc[c] \notin Waiting
      BY DEF Waiting
    <2>2. ~listen[f]
      BY <2>1, NotNamed
    <2>3. QED
      BY <1>1, <2>2 DEF IInv, TypeInv, TypeOK
  <1>3. PICK q \in Reactor : q = ReactorOf(f, r)
    BY DEF ReactorOf, IInv, TypeInv, TypeOK
  <1>4. \/ epoll' = [epoll EXCEPT ![r][f] = "absent"] /\ pending_del' = pending_del
        \/ pending_del' = [pending_del EXCEPT ![q] = @ \cup {f}] /\ epoll' = epoll
    BY <1>3 DEF Unregister, DelEvent, DelEventInLoopThread
  <1>5. /\ \A s \in Reactor, g \in Fd : g # f => epoll'[s][g] = epoll[s][g]
        /\ \A s \in Reactor : epoll'[s][f] = "on" => epoll[s][f] = "on"
        /\ \A s \in Reactor : \A g \in pending_del'[s] : g \in closed'
    <2>1. /\ epoll \in [Reactor -> [Fd -> Mask]] /\ pending_del \in [Reactor -> SUBSET Fd]
          /\ \A s \in Reactor : \A g \in pending_del[s] : g \in closed
      BY DEF IInv, PendInv, TypeInv, TypeOK
    <2>2. CASE epoll' = [epoll EXCEPT ![r][f] = "absent"] /\ pending_del' = pending_del
      BY <1>1, <2>1, <2>2
    <2>3. CASE pending_del' = [pending_del EXCEPT ![q] = @ \cup {f}] /\ epoll' = epoll
      BY <1>1, <2>1, <2>3
    <2>4. QED
      BY <1>4, <2>2, <2>3
  <1>6. /\ \A g \in Fd : g # f => fd_reactor'[g] = fd_reactor[g]
        /\ \A g \in Arrived : g # f => g \in Arrived'
    BY <1>1 DEF Arrived, IInv, TypeInv, TypeOK
  <1>7. /\ closed' \in {closed, closed \cup {f}} /\ p # "closing"
        /\ p \in {"run", "closing", "cleared"} /\ co_pc[c] \in {"run", "reread", "closing"}
        /\ UNCHANGED <<loop_pc, cur, first, tmp_tasks, pending_tasks, pending_add, batch, queue,
                       fd_cor, listen, co_fd>>
    BY <1>1, <1>2
  <1>8. QED
    BY <1>5, <1>6, <1>7, MovesOn

LEMMA ClearClientSafe ==
  ASSUME IInv, TypeInv', NEW r \in Reactor, NEW c \in Coroutine, ClearClient(r, c)
  PROVE  IInv'
  <1>1. /\ Runs(r, c) /\ co_pc[c] = "closing" /\ co_pc' = [co_pc EXCEPT ![c] = "cleared"]
        /\ Unregister(r, c, co_fd[c])
    BY DEF ClearClient
  <1>2. co_fd[c] \in OwnFds(c) \cap Fd
    BY <1>1 DEF IInv, FdInv, TypeInv, HookFd, Hooked
  <1>3. QED
    BY <1>1, <1>2, UnregisterSafe

LEMMA EndCallSafe ==
  ASSUME IInv, TypeInv', NEW r \in Reactor, NEW c \in Coroutine, NEW f \in Fd, EndCall(r, c, f)
  PROVE  IInv'
  <1>1. /\ Runs(r, c) /\ co_pc[c] = "run" /\ f \in OwnFds(c) /\ Unregister(r, c, f)
        /\ co_pc' = co_pc
    BY DEF EndCall, OwnFds
  <1>2. co_pc' = [co_pc EXCEPT ![c] = "run"]
    BY <1>1 DEF IInv, TypeInv, TypeOK
  <1>3. QED
    BY <1>1, <1>2, UnregisterSafe

\* Yield: only a coroutine that no second thread has resumed gets there.
LEMMA YieldHookSafe ==
  ASSUME IInv, TypeInv', NEW r \in Reactor, NEW c \in Coroutine, YieldHook(r, c)
  PROVE  IInv'
  <1>1. /\ cur[r] = c /\ (\A q \in Reactor : cur[q] = c => q = r) /\ co_pc[c] = "armed"
        /\ cur' = [cur EXCEPT ![r] = NULL]
        /\ co_pc' = [co_pc EXCEPT ![c] = "suspended"]
        /\ UNCHANGED <<loop_pc, first, tmp_tasks, pending_tasks, pending_add, pending_del, epoll, batch,
                       queue, fd_reactor, fd_cor, listen, co_fd, closed, ready, hup>>
    BY DEF YieldHook, Runs, pendVars, fdVars, envVars
  <1>2. /\ co_pc'[c] = "suspended" /\ \A d \in Coroutine : d # c => co_pc'[d] = co_pc[d]
        /\ cur'[r] = NULL /\ \A q \in Reactor : q # r => cur'[q] = cur[q] /\ cur[q] # c
        /\ \A q \in Reactor : cur[q] # NULL => cur[q] \in Coroutine
        /\ c # NULL
    BY <1>1, SchedulerAssumption DEF IInv, TypeInv, TypeOK
  <1>3. \A g \in Fd : /\ fd_cor[g] # NULL => fd_cor[g] \in Coroutine
                      /\ Sleeper(g)' <=> Sleeper(g)
                      /\ fd_cor[g] = c => Sleeper(g)
    <2>1. \A g \in Fd : fd_cor[g] # NULL => fd_cor[g] \in Coroutine
      BY DEF IInv, TypeInv, TypeOK
    <2>2. QED
      BY <1>1, <1>2, <2>1 DEF Sleeper, Asleep
  <1>4. FdInv'
    BY <1>1, <1>2 DEF IInv, FdInv, Waiting, Hooked, OwnFds
  <1>5. NameInv'
    BY <1>1, <1>2, <1>3 DEF IInv, NameInv, Waiting
  <1>6. RunInv'
    BY <1>1, <1>2 DEF IInv, RunInv, Running
  <1>7. ThreadInv'
    <2>1. ASSUME NEW d \in Coroutine, co_pc'[d] \in Running PROVE \E q \in Reactor : cur'[q] = d
      <3>1. d # c /\ co_pc[d] \in Running
        BY <1>2, <2>1 DEF Running
      <3>2. PICK q \in Reactor : cur[q] = d
        BY <3>1 DEF IInv, ThreadInv
      <3>3. QED
        BY <1>1, <1>2, <3>1, <3>2
    <2>2. ASSUME NEW q \in Reactor, NEW s \in Reactor, cur'[q] = cur'[s], cur'[q] # NULL
          PROVE  q = s \/ co_pc'[cur'[q]] = "armed"
      <3>1. q # r /\ s # r /\ cur'[q] = cur[q] /\ cur'[s] = cur[s] /\ cur[q] \in Coroutine /\ cur[q] # c
        BY <1>2, <2>2
      <3>2. q = s \/ co_pc[cur[q]] = "armed"
        BY <2>2, <3>1 DEF IInv, ThreadInv
      <3>3. co_pc'[cur'[q]] = co_pc[cur[q]]
        BY <1>2, <3>1
      <3>4. QED
        BY <3>2, <3>3
    <2>3. QED
      BY <2>1, <2>2 DEF ThreadInv, Running
  <1>8. WatchInv'
    <2> SUFFICES ASSUME NEW q \in Reactor, NEW g \in Fd, epoll[q][g] = "on"
                 PROVE  fd_reactor[g] = q /\ fd_cor[g] # NULL /\ (Sleeper(g)' \/ cur'[q] = fd_cor[g])
      BY <1>1 DEF WatchInv, Sleeper, Asleep
    <2>1. fd_reactor[g] = q /\ fd_cor[g] # NULL /\ (Sleeper(g) \/ cur[q] = fd_cor[g])
      BY DEF IInv, WatchInv
    <2>2. CASE q = r
      BY <1>1, <1>3, <2>1, <2>2
    <2>3. CASE q # r
      BY <1>2, <1>3, <2>1, <2>3
    <2>4. QED
      BY <2>2, <2>3
  <1>9. PendInv'
    BY <1>1, <1>3 DEF IInv, PendInv, Sleeper, Asleep
  <1>10. FirstInv'
    BY <1>1, <1>2, FirstSleeps DEF IInv, FirstInv, Asleep
  <1>11. QueueInv'
    <2>1. \A i \in 1..Len(queue) : queue[i] \in Fd
      BY DEF IInv, TypeInv, TypeOK
    <2>2. QED
      BY <1>1, <1>3, <2>1 DEF IInv, QueueInv, Sleeper, Asleep
  <1>12. TaskInv'
    <2>1. \A d \in Coroutine : co_pc[d] = "posted" => co_pc'[d] = "posted"
      BY <1>1, <1>2
    <2>2. QED
      BY <1>1, <2>1, TaskKept DEF IInv
  <1>13. SourceInv'
    <2> SUFFICES ASSUME NEW d \in Coroutine, co_pc'[d] \in Asleep, Single(d)'
                 PROVE  Watched(co_fd[d]) \/ Queued(co_fd[d])
      BY <1>1 DEF SourceInv, Asleep, Single, Watched, Queued
    <2>1. co_pc[d] \in Asleep
      BY <1>1, <1>2 DEF Asleep
    <2>2. Single(d)
      <3>1. CASE d = c
        BY <1>1, <3>1 DEF Single
      <3>2. CASE d # c
        <4>1. \A q \in Reactor : cur[q] = d => cur'[q] = d
          BY <1>1, <1>2, <3>2
        <4>2. QED
          BY <4>1 DEF Single
      <3>3. QED
        BY <3>1, <3>2
    <2>3. QED
      BY <2>1, <2>2 DEF IInv, SourceInv
  <1>14. ReadyInv'
    BY <1>1, <1>2 DEF IInv, ReadyInv, Arrived
  <1>15. QED
    BY <1>1, <1>4, <1>5, <1>6, <1>7, <1>8, <1>9, <1>10, <1>11, <1>12, <1>13, <1>14, Frame DEF IInv

\* Back from Yield: the thread that resumed the coroutine is the one its FdEvent points to,
\* so the registration it takes back is the one that is watched.
LEMMA UnlistenSafe ==
  ASSUME IInv, TypeInv', NEW r \in Reactor, NEW c \in Coroutine, Unlisten(r, c)
  PROVE  IInv'
  <1> DEFINE f == co_fd[c]
  <1>1. Runs(r, c) /\ cur[r] = c /\ (\A q \in Reactor : cur[q] = c => q = r) /\ co_pc[c] = "resumed"
    BY DEF Unlisten, Runs
  <1>2. /\ f \in Fd /\ f \in OwnFds(c) /\ f \notin closed /\ fd_cor[f] = c /\ c # NULL /\ listen[f]
        /\ fd_reactor[f] = r /\ ReactorOf(f, r) = r
        /\ \A g \in Fd : fd_cor[g] = c => g = f
    <2>1. c # NULL
      BY SchedulerAssumption
    <2>2. fd_reactor[f] = r
      BY <1>1, <2>1 DEF IInv, RunInv
    <2>3. r # NULL
      BY SchedulerAssumption
    <2>4. QED
      BY <1>1, <2>2, <2>3, WaitsOn DEF Waiting, ReactorOf
  <1>3. /\ fd_cor' = [fd_cor EXCEPT ![f] = NULL]
        /\ listen' = [listen EXCEPT ![f] = FALSE]
        /\ epoll' = [epoll EXCEPT ![r][f] = "off"]
        /\ co_pc' = [co_pc EXCEPT ![c] = "reread"]
        /\ fd_reactor' = fd_reactor
        /\ UNCHANGED <<loop_pc, cur, first, tmp_tasks, pending_tasks, pending_add, pending_del, batch,
                       queue, co_fd, closed, ready, hup>>
    BY <1>2 DEF Unlisten, AddEvent, AddEventInLoopThread, IInv, TypeInv, TypeOK, loopVars, envVars
  <1> HIDE DEF f
  <1>4. /\ fd_cor'[f] = NULL /\ \A g \in Fd : g # f => fd_cor'[g] = fd_cor[g]
        /\ ~listen'[f] /\ \A g \in Fd : g # f => listen'[g] = listen[g]
        /\ co_pc'[c] = "reread" /\ \A d \in Coroutine : d # c => co_pc'[d] = co_pc[d]
        /\ epoll'[r][f] = "off"
        /\ \A q \in Reactor, g \in Fd : q # r \/ g # f => epoll'[q][g] = epoll[q][g]
        /\ \A g \in Fd : fd_cor[g] # NULL => fd_cor[g] \in Coroutine
    BY <1>2, <1>3 DEF IInv, TypeInv, TypeOK
  <1>5. /\ \A g \in Fd : g # f => (Sleeper(g)' <=> Sleeper(g))
        /\ ~Sleeper(f)
    <2>1. \A g \in Fd : g # f => fd_cor[g] # c
      BY <1>2
    <2>2. \A g \in Fd : g # f => (Sleeper(g)' <=> Sleeper(g))
      BY <1>4, <2>1 DEF Sleeper, Asleep
    <2>3. QED
      BY <1>1, <1>2, <2>2 DEF Sleeper, Asleep
  <1>6. \A d \in Coroutine : co_pc[d] \in Waiting /\ d # c => co_fd[d] \in Fd /\ co_fd[d] # f
    BY <1>2, WaitsOn
  <1>7. FdInv'
    <2>1. ASSUME NEW d \in Coroutine, co_pc'[d] \in Hooked \ {"cleared"}
          PROVE  co_fd[d] \in OwnFds(d) /\ co_fd[d] \notin closed
      <3>1. co_pc[d] \in Hooked \ {"cleared"}
        BY <1>1, <1>4, <2>1 DEF Hooked
      <3>2. QED
        BY <3>1 DEF IInv, FdInv
    <2>2. ASSUME NEW d \in Coroutine, co_pc'[d] \in Waiting PROVE fd_cor'[co_fd[d]] = d
      <3>1. d # c /\ co_pc[d] \in Waiting
        BY <1>4, <2>2 DEF Waiting
      <3>2. QED
        BY <1>4, <1>6, <3>1 DEF IInv, FdInv
    <2>3. QED
      BY <1>3, <2>1, <2>2 DEF FdInv, Waiting, Hooked, OwnFds
  <1>8. NameInv'
    <2>1. ASSUME NEW g \in Fd
          PROVE  /\ fd_cor'[g] # NULL => co_pc'[fd_cor'[g]] \in Waiting /\ co_fd[fd_cor'[g]] = g
                 /\ listen'[g] <=> fd_cor'[g] # NULL
      <3>1. CASE g = f
        BY <1>4, <3>1
      <3>2. CASE g # f
        <4>1. fd_cor'[g] = fd_cor[g] /\ listen'[g] = listen[g] /\ fd_cor[g] # c
          BY <1>2, <1>4, <3>2
        <4>2. fd_cor[g] # NULL => co_pc'[fd_cor[g]] = co_pc[fd_cor[g]]
          BY <1>4, <4>1
        <4>3. QED
          BY <4>1, <4>2 DEF IInv, NameInv
      <3>3. QED
        BY <3>1, <3>2
    <2>2. QED
      BY <1>3, <2>1 DEF NameInv, Waiting
  <1>9. RunInv'
    <2> SUFFICES ASSUME NEW q \in Reactor, cur[q] # NULL
                 PROVE  /\ co_pc'[cur[q]] \in Running /\ loop_pc[q] \in {"pop", "tasks"}
                        /\ co_pc'[cur[q]] = "resumed" => fd_reactor[co_fd[cur[q]]] = q
      BY <1>3 DEF RunInv, Running
    <2>1. CASE cur[q] = c
      BY <1>4, <2>1 DEF IInv, RunInv, Running
    <2>2. CASE cur[q] # c
      <3>1. co_pc'[cur[q]] = co_pc[cur[q]]
        BY <1>4, <2>2 DEF IInv, TypeInv, TypeOK
      <3>2. QED
        BY <3>1 DEF IInv, RunInv
    <2>3. QED
      BY <2>1, <2>2
  <1>10. ThreadInv'
    <2>1. ASSUME NEW d \in Coroutine, co_pc'[d] \in Running PROVE \E q \in Reactor : cur[q] = d
      <3>1. CASE d = c
        BY <1>1, <3>1
      <3>2. CASE d # c
        BY <1>4, <2>1, <3>2 DEF IInv, ThreadInv
      <3>3. QED
        BY <3>1, <3>2
    <2>2. ASSUME NEW q \in Reactor, NEW s \in Reactor, cur[q] = cur[s], cur[q] # NULL
          PROVE  q = s \/ co_pc'[cur[q]] = "armed"
      <3>1. CASE cur[q] = c
        BY <1>1, <2>2, <3>1
      <3>2. CASE cur[q] # c
        <4>1. co_pc'[cur[q]] = co_pc[cur[q]]
          BY <1>4, <2>2, <3>2 DEF IInv, TypeInv, TypeOK
        <4>2. QED
          BY <2>2, <4>1 DEF IInv, ThreadInv
      <3>3. QED
        BY <3>1, <3>2
    <2>3. QED
      BY <1>3, <2>1, <2>2 DEF ThreadInv, Running
  <1>11. WatchInv'
    <2> SUFFICES ASSUME NEW q \in Reactor, NEW g \in Fd, epoll'[q][g] = "on"
                 PROVE  /\ fd_reactor[g] = q /\ fd_cor'[g] # NULL
                        /\ Sleeper(g)' \/ cur[q] = fd_cor'[g]
      BY <1>3 DEF WatchInv, Sleeper, Asleep
    <2>1. epoll[q][g] = "on"
      BY <1>4
    <2>2. g # f
      BY <1>2, <1>4, <2>1 DEF IInv, WatchInv
    <2>3. QED
      BY <1>4, <1>5, <2>1, <2>2 DEF IInv, WatchInv
  <1>12. PendInv'
    <2>1. ASSUME NEW q \in Reactor, NEW g \in Fd, pending_add[q][g] # "none"
          PROVE  /\ pending_add[q][g] = "on" /\ epoll'[q][g] # "on" /\ fd_reactor[g] = q
                 /\ Sleeper(g)'
      <3>1. Sleeper(g) /\ g # f
        BY <1>5, <2>1 DEF IInv, PendInv
      <3>2. QED
        BY <1>4, <1>5, <2>1, <3>1 DEF IInv, PendInv
    <2>2. QED
      BY <1>3, <2>1 DEF IInv, PendInv, Sleeper, Asleep
  <1>13. \A q \in Reactor : first[q] # NULL =>
           /\ first[q] \in Coroutine /\ first[q] # c /\ co_pc[first[q]] \in Asleep
           /\ co_fd[first[q]] # f /\ co_fd[first[q]] \in Fd
    <2>1. \A q \in Reactor : first[q] # NULL =>
            first[q] \in Coroutine /\ first[q] # c /\ co_pc[first[q]] \in Asleep
      BY <1>1, FirstSleeps DEF Asleep
    <2>2. QED
      BY <1>6, <2>1, AsleepIs
  <1>14. FirstInv'
    <2> SUFFICES ASSUME NEW q \in Reactor, first[q] # NULL
                 PROVE  co_pc'[first[q]] \in Asleep /\ epoll'[q][co_fd[first[q]]] = "on"
                        /\ co_fd[first[q]] \notin batch[q] /\ loop_pc[q] \in {"batch", "first"}
      BY <1>3 DEF FirstInv, Asleep
    <2>1. QED
      BY <1>4, <1>13 DEF IInv, FirstInv
  <1>15. BatchInv'
    BY <1>3, Frame DEF IInv
  <1>16. QueueInv'
    <2>1. \A i \in 1..Len(queue) : queue[i] \in Fd /\ queue[i] # f
      BY <1>5 DEF IInv, QueueInv, TypeInv, TypeOK
    <2>2. \A i \in 1..Len(queue) : fd_cor'[queue[i]] # NULL /\ co_pc'[fd_cor'[queue[i]]] \in Asleep
      BY <1>5, <2>1 DEF IInv, QueueInv, Sleeper
    <2>3. QED
      BY <1>3, <2>2 DEF IInv, QueueInv, Sleeper, Asleep
  <1>17. TaskInv'
    <2>1. \A d \in Coroutine : co_pc[d] = "posted" => co_pc'[d] = "posted"
      BY <1>1, <1>4
    <2>2. QED
      BY <1>3, <2>1, TaskKept DEF IInv
  <1>18. SourceInv'
    <2> SUFFICES ASSUME NEW d \in Coroutine, co_pc'[d] \in Asleep, Single(d)
                 PROVE  \/ \E q \in Reactor : "on" \in {epoll'[q][co_fd[d]], pending_add[q][co_fd[d]]}
                        \/ Queued(co_fd[d])
      BY <1>3 DEF SourceInv, Asleep, Single, Watched, Queued
    <2>1. d # c /\ co_pc[d] \in Asleep
      BY <1>4 DEF Asleep
    <2>2. co_fd[d] \in Fd /\ co_fd[d] # f
      BY <1>6, <2>1, AsleepIs
    <2>3. QED
      BY <1>4, <2>1, <2>2 DEF IInv, SourceInv, Watched
  <1>19. ReadyInv'
    <2>1. ASSUME NEW q \in Reactor, NEW g \in batch[q] \cap Fd, epoll'[q][g] = "on" PROVE g \in Arrived
      <3>1. epoll[q][g] = "on"
        BY <1>4, <2>1
      <3>2. QED
        BY <3>1 DEF IInv, ReadyInv
    <2>2. \A d \in Coroutine : co_pc'[d] \in {"resumed", "reread"} => co_fd[d] \in Arrived
      BY <1>1, <1>4 DEF IInv, ReadyInv
    <2>3. QED
      BY <1>3, <2>1, <2>2 DEF IInv, ReadyInv, Arrived
  <1>20. QED
    BY <1>7, <1>8, <1>9, <1>10, <1>11, <1>12, <1>14, <1>15, <1>16, <1>17, <1>18, <1>19 DEF IInv

\* The last Yield.
LEMMA FinishSafe ==
  ASSUME IInv, TypeInv', NEW r \in Reactor, NEW c \in Coroutine, Finish(r, c)
  PROVE  IInv'
  <1>1. /\ cur[r] = c /\ (\A q \in Reactor : cur[q] = c => q = r) /\ co_pc[c] = "cleared"
        /\ cur' = [cur EXCEPT ![r] = NULL]
        /\ co_pc' = [co_pc EXCEPT ![c] = "done"]
        /\ UNCHANGED <<loop_pc, first, tmp_tasks, pending_tasks, pending_add, pending_del, epoll, batch,
                       queue, fd_reactor, fd_cor, listen, co_fd, closed, ready, hup>>
    BY DEF Finish, Runs, pendVars, fdVars, envVars
  <1>2. /\ co_pc'[c] = "done" /\ \A d \in Coroutine : d # c => co_pc'[d] = co_pc[d]
        /\ NameInv'
        /\ \A g \in Fd : fd_cor[g] # c /\ (Sleeper(g)' <=> Sleeper(g))
    <2>1. co_pc[c] \notin Waiting /\ "done" \notin Waiting /\ "done" \in CoPc
      BY <1>1 DEF Waiting, CoPc
    <2>2. NameInv /\ UNCHANGED listen
      BY <1>1 DEF IInv
    <2>3. QED
      BY <1>1, <2>1, <2>2, Unnamed
  <1>3. /\ cur'[r] = NULL /\ \A q \in Reactor : q # r => cur'[q] = cur[q] /\ cur[q] # c
        /\ \A q \in Reactor : cur[q] # NULL => cur[q] \in Coroutine
    BY <1>1, SchedulerAssumption DEF IInv, TypeInv, TypeOK
  <1>4. FdInv'
    BY <1>1, <1>2 DEF IInv, FdInv, Waiting, Hooked, OwnFds
  <1>5. RunInv'
    BY <1>1, <1>2, <1>3 DEF IInv, RunInv, Running
  <1>6. ThreadInv'
    <2>1. ASSUME NEW d \in Coroutine, co_pc'[d] \in Running PROVE \E q \in Reactor : cur'[q] = d
      <3>1. d # c /\ co_pc[d] \in Running
        BY <1>2, <2>1 DEF Running
      <3>2. PICK q \in Reactor : cur[q] = d
        BY <3>1 DEF IInv, ThreadInv
      <3>3. QED
        BY <1>1, <1>3, <3>1, <3>2
    <2>2. ASSUME NEW q \in Reactor, NEW s \in Reactor, cur'[q] = cur'[s], cur'[q] # NULL
          PROVE  q = s \/ co_pc'[cur'[q]] = "armed"
      <3>1. q # r /\ s # r /\ cur'[q] = cur[q] /\ cur'[s] = cur[s] /\ cur[q] \in Coroutine /\ cur[q] # c
        BY <1>3, <2>2
      <3>2. q = s \/ co_pc[cur[q]] = "armed"
        BY <2>2, <3>1 DEF IInv, ThreadInv
      <3>3. co_pc'[cur'[q]] = co_pc[cur[q]]
        BY <1>2, <3>1
      <3>4. QED
        BY <3>2, <3>3
    <2>3. QED
      BY <2>1, <2>2 DEF ThreadInv, Running
  <1>7. WatchInv'
    <2> SUFFICES ASSUME NEW q \in Reactor, NEW g \in Fd, epoll[q][g] = "on"
                 PROVE  fd_reactor[g] = q /\ fd_cor[g] # NULL /\ (Sleeper(g)' \/ cur'[q] = fd_cor[g])
      BY <1>1 DEF WatchInv, Sleeper, Asleep
    <2>1. fd_reactor[g] = q /\ fd_cor[g] # NULL /\ (Sleeper(g) \/ cur[q] = fd_cor[g])
      BY DEF IInv, WatchInv
    <2>2. cur[q] = fd_cor[g] => q # r
      BY <1>1, <1>2
    <2>3. QED
      BY <1>2, <1>3, <2>1, <2>2
  <1>8. PendInv'
    BY <1>1, <1>2 DEF IInv, PendInv, Sleeper, Asleep
  <1>9. FirstInv'
    <2>1. \A q \in Reactor : first[q] # NULL => first[q] \in Coroutine /\ first[q] # c
      BY <1>1, FirstSleeps DEF Asleep
    <2>2. QED
      BY <1>1, <1>2, <2>1 DEF IInv, FirstInv, Asleep
  <1>10. QueueInv'
    <2>1. \A i \in 1..Len(queue) : queue[i] \in Fd
      BY DEF IInv, TypeInv, TypeOK
    <2>2. QED
      BY <1>1, <1>2, <2>1 DEF IInv, QueueInv, Sleeper, Asleep
  <1>11. TaskInv'
    <2>1. \A d \in Coroutine : co_pc[d] = "posted" => co_pc'[d] = "posted"
      BY <1>1, <1>2
    <2>2. QED
      BY <1>1, <2>1, TaskKept DEF IInv
  <1>12. SourceInv'
    <2> SUFFICES ASSUME NEW d \in Coroutine, co_pc'[d] \in Asleep, Single(d)'
                 PROVE  Watched(co_fd[d]) \/ Queued(co_fd[d])
      BY <1>1 DEF SourceInv, Asleep, Single, Watched, Queued
    <2>1. d # c /\ co_pc[d] \in Asleep
      BY <1>2 DEF Asleep
    <2>2. \A q \in Reactor : cur[q] = d => cur'[q] = d
      BY <1>1, <1>3, <2>1
    <2>3. Single(d)
      BY <2>2 DEF Single
    <2>4. QED
      BY <2>1, <2>3 DEF IInv, SourceInv
  <1>13. ReadyInv'
    BY <1>1, <1>2 DEF IInv, ReadyInv, Arrived
  <1>14. QED
    BY <1>1, <1>2, <1>4, <1>5, <1>6, <1>7, <1>8, <1>9, <1>10, <1>11, <1>12, <1>13, Frame DEF IInv

\* A connection is accepted: nothing is known of its fd before.
LEMMA PostSafe ==
  ASSUME IInv, TypeInv', NEW r \in Reactor, NEW c \in Coroutine, Post(c, r)
  PROVE  IInv'
  <1>1. /\ co_pc[c] = "new"
        /\ pending_tasks' = [pending_tasks EXCEPT ![r] = Append(pending_tasks[r], c)]
        /\ fd_reactor' = [fd_reactor EXCEPT ![ConnFd[c]] = r]
        /\ co_pc' = [co_pc EXCEPT ![c] = "posted"]
        /\ UNCHANGED <<loop_pc, cur, first, tmp_tasks, pending_add, pending_del, epoll, batch, queue,
                       fd_cor, listen, co_fd, closed, ready, hup>>
    BY DEF Post, loopVars, envVars
  <1>2. /\ ConnFd[c] \in OwnFds(c) \cap Fd
        /\ \A d \in Coroutine : d # c => ConnFd[d] # ConnFd[c]
    BY SchedulerAssumption DEF OwnFds
  <1>3. /\ co_pc'[c] = "posted" /\ \A d \in Coroutine : d # c => co_pc'[d] = co_pc[d]
        /\ \A f \in Fd : f # ConnFd[c] => fd_reactor'[f] = fd_reactor[f]
        /\ NameInv'
        /\ \A f \in Fd : fd_cor[f] # c /\ (Sleeper(f)' <=> Sleeper(f))
    <2>1. co_pc[c] \notin Waiting /\ "posted" \notin Waiting /\ "posted" \in CoPc
      BY <1>1 DEF Waiting, CoPc
    <2>2. NameInv /\ UNCHANGED listen
      BY <1>1 DEF IInv
    <2>3. \A f \in Fd : f # ConnFd[c] => fd_reactor'[f] = fd_reactor[f]
      BY <1>1 DEF IInv, TypeInv, TypeOK
    <2>4. QED
      BY <1>1, <2>1, <2>2, <2>3, Unnamed
  <1>4. /\ \A q \in Reactor : epoll[q][ConnFd[c]] # "on" /\ pending_add[q][ConnFd[c]] = "none"
        /\ \A i \in 1..Len(queue) : queue[i] # ConnFd[c]
    BY <1>1, <1>2, NotNamed DEF Waiting
  <1>5. FdInv'
    BY <1>1, <1>3 DEF IInv, FdInv, Waiting, Hooked, OwnFds
  <1>6. RunInv' /\ ThreadInv'
    <2>1. ASSUME NEW q \in Reactor, cur[q] # NULL PROVE cur[q] \in Coroutine /\ cur[q] # c
      <3>1. cur[q] \in Coroutine /\ co_pc[cur[q]] \in Running
        BY <2>1 DEF IInv, RunInv, TypeInv, TypeOK
      <3>2. QED
        BY <1>1, <3>1 DEF Running
    <2>2. ASSUME NEW d \in Coroutine, co_pc[d] = "resumed"
          PROVE  co_fd[d] \in Fd /\ co_fd[d] # ConnFd[c]
      <3>1. d # c /\ co_fd[d] \in Fd /\ co_fd[d] \in OwnFds(d)
        BY <1>1, <2>2, WaitsOn DEF Waiting
      <3>2. QED
        BY <1>2, <3>1, OwnFdsApart
    <2>3. RunInv'
      BY <1>1, <1>3, <2>1, <2>2 DEF IInv, RunInv, Running
    <2>4. ThreadInv'
      BY <1>1, <1>3, <2>1 DEF IInv, ThreadInv, Running
    <2>5. QED
      BY <2>3, <2>4
  <1>7. WatchInv' /\ PendInv'
    <2>1. WatchInv'
      BY <1>1, <1>3, <1>4 DEF IInv, WatchInv, Sleeper, Asleep
    <2>2. PendInv'
      BY <1>1, <1>3, <1>4 DEF IInv, PendInv, Sleeper, Asleep
    <2>3. QED
      BY <2>1, <2>2
  <1>8. FirstInv'
    <2>1. \A q \in Reactor : first[q] # NULL => first[q] \in Coroutine /\ first[q] # c
      BY <1>1, FirstSleeps DEF Asleep
    <2>2. QED
      BY <1>1, <1>3, <2>1 DEF IInv, FirstInv, Asleep
  <1>9. QueueInv'
    <2>1. \A i \in 1..Len(queue) : queue[i] \in Fd
      BY DEF IInv, TypeInv, TypeOK
    <2>2. QED
      BY <1>1, <1>3, <1>4, <2>1 DEF IInv, QueueInv, Sleeper, Asleep
  <1>10. SourceInv' /\ ReadyInv'
    <2>1. SourceInv'
      BY <1>1, <1>3 DEF IInv, SourceInv, Asleep, Single, Watched, Queued
    <2>2. ReadyInv'
      BY <1>1, <1>3 DEF IInv, ReadyInv, Arrived
    <2>3. QED
      BY <2>1, <2>2
  <1>11. TaskInv'
    <2>1. /\ pending_tasks \in [Reactor -> Seq(Coroutine)]
          /\ tmp_tasks \in [Reactor -> Seq(Coroutine)]
      BY DEF IInv, TypeInv, TypeOK
    <2>2. \A d \in Coroutine : co_pc[d] = "posted" =>
            co_pc'[d] = "posted" /\ fd_reactor'[ConnFd[d]] = fd_reactor[ConnFd[d]]
      BY <1>1, <1>2, SchedulerAssumption DEF IInv, TypeInv, TypeOK
    <2>3. co_pc'[c] = "posted" /\ fd_reactor'[ConnFd[c]] = r
      BY <1>1, SchedulerAssumption DEF IInv, TypeInv, TypeOK
    <2>4. /\ \A q \in Reactor : \A i \in 1..Len(pending_tasks[q]) :
               pending_tasks[q][i] \in Coroutine /\ pending_tasks[q][i] # c
          /\ \A q \in Reactor : \A i \in 1..Len(tmp_tasks[q]) :
               tmp_tasks[q][i] \in Coroutine /\ tmp_tasks[q][i] # c
      BY <1>1, <2>1 DEF IInv, TaskInv
    <2>5. \A q \in Reactor : q # r => pending_tasks'[q] = pending_tasks[q]
      BY <1>1, <2>1
    <2>6. /\ Len(pending_tasks'[r]) = Len(pending_tasks[r]) + 1
          /\ pending_tasks'[r][Len(pending_tasks[r]) + 1] = c
          /\ \A i \in 1..Len(pending_tasks[r]) : pending_tasks'[r][i] = pending_tasks[r][i]
      BY <1>1, <2>1
    <2>7. \A q \in Reactor : \A i \in 1..Len(pending_tasks'[q]) :
            \/ i \in 1..Len(pending_tasks[q]) /\ pending_tasks'[q][i] = pending_tasks[q][i]
            \/ q = r /\ i = Len(pending_tasks[r]) + 1 /\ pending_tasks'[q][i] = c
      BY <2>1, <2>5, <2>6
    <2>8. ASSUME NEW q \in Reactor, NEW i \in 1..Len(pending_tasks'[q])
          PROVE  /\ co_pc'[pending_tasks'[q][i]] = "posted"
                 /\ fd_reactor'[ConnFd[pending_tasks'[q][i]]] = q
      <3>1. CASE i \in 1..Len(pending_tasks[q]) /\ pending_tasks'[q][i] = pending_tasks[q][i]
        BY <2>2, <2>4, <3>1 DEF IInv, TaskInv
      <3>2. CASE q = r /\ pending_tasks'[q][i] = c
        BY <2>3, <3>2
      <3>3. QED
        BY <2>7, <3>1, <3>2
    <2>9. ASSUME NEW q \in Reactor, NEW i \in 1..Len(tmp_tasks'[q])
           PROVE  /\ co_pc'[tmp_tasks'[q][i]] = "posted"
                  /\ fd_reactor'[ConnFd[tmp_tasks'[q][i]]] = q
      BY <1>1, <2>2, <2>4 DEF IInv, TaskInv
    <2>10. ASSUME NEW q \in Reactor, NEW i \in 1..Len(pending_tasks'[q]),
                  NEW j \in 1..Len(pending_tasks'[q]),
                  pending_tasks'[q][i] = pending_tasks'[q][j]
           PROVE  i = j
      <3>1. CASE pending_tasks'[q][i] = c
        <4>1. q = r /\ i = Len(pending_tasks[r]) + 1
          BY <2>4, <2>7, <3>1
        <4>2. q = r /\ j = Len(pending_tasks[r]) + 1
          BY <2>4, <2>7, <2>10, <3>1
        <4>3. QED
          BY <4>1, <4>2
      <3>2. CASE pending_tasks'[q][i] # c
        <4>1. /\ i \in 1..Len(pending_tasks[q]) /\ pending_tasks'[q][i] = pending_tasks[q][i]
              /\ j \in 1..Len(pending_tasks[q]) /\ pending_tasks'[q][j] = pending_tasks[q][j]
          BY <2>7, <2>10, <3>2
        <4>2. pending_tasks[q][i] = pending_tasks[q][j]
          BY <2>10, <4>1
        <4>3. QED
          BY <4>1, <4>2 DEF IInv, TaskInv
      <3>3. QED
        BY <3>1, <3>2
    <2>11. ASSUME NEW q \in Reactor, NEW i \in 1..Len(pending_tasks'[q]),
                  NEW j \in 1..Len(tmp_tasks'[q])
           PROVE  pending_tasks'[q][i] # tmp_tasks'[q][j]
      BY <1>1, <2>4, <2>7 DEF IInv, TaskInv
    <2>12. \A q \in Reactor : \A i, j \in 1..Len(tmp_tasks'[q]) :
             tmp_tasks'[q][i] = tmp_tasks'[q][j] => i = j
      BY <1>1 DEF IInv, TaskInv
    <2>13. QED
      BY <2>8, <2>9, <2>10, <2>11, <2>12 DEF TaskInv
  <1>12. QED
    BY <1>1, <1>3, <1>5, <1>6, <1>7, <1>8, <1>9, <1>10, <1>11, Frame DEF IInv

\* Data arrives, or the peer hangs up.
LEMMA PeerSafe ==
  ASSUME IInv, TypeInv', NEW f \in Fd, Arrive(f) \/ HangUp(f)
  PROVE  IInv'
  <1>1. /\ Arrived \subseteq Arrived'
        /\ UNCHANGED <<loop_pc, cur, first, tmp_tasks, pending_tasks, pending_add, pending_del, epoll,
                       batch, queue, fd_reactor, fd_cor, listen, co_pc, co_fd, closed>>
    BY DEF Arrive, HangUp, Arrived, loopVars, pendVars, fdVars, coVars
  <1>2. ReadyInv'
    BY <1>1 DEF IInv, ReadyInv
  <1>3. QED
    BY <1>1, <1>2, Frame DEF IInv

-----------------------------------------------------------------------------
(* The invariant is inductive                                              *)

LEMMA IInvInit == Init => IInv
  <1> SUFFICES ASSUME Init PROVE IInv
    OBVIOUS
  <1>1. TypeInv
    BY TypeInit
  <1>2. /\ \A r \in Reactor : /\ loop_pc[r] = "start" /\ cur[r] = NULL /\ first[r] = NULL
                              /\ tmp_tasks[r] = <<>> /\ pending_tasks[r] = <<>>
                              /\ pending_del[r] = {} /\ batch[r] = {}
        /\ \A r \in Reactor, f \in Fd : pending_add[r][f] = "none" /\ epoll[r][f] = "absent"
        /\ queue = <<>>
        /\ \A f \in Fd : fd_cor[f] = NULL /\ listen[f] = FALSE
        /\ \A c \in Coroutine : co_pc[c] = "new"
    BY DEF Init
  <1>3. FdInv /\ NameInv
    BY <1>2 DEF FdInv, NameInv, Waiting, Hooked
  <1>4. RunInv /\ ThreadInv /\ WatchInv /\ FirstInv /\ BatchInv
    BY <1>2 DEF RunInv, ThreadInv, Running, WatchInv, FirstInv, BatchInv
  <1>5. QueueInv /\ TaskInv /\ PendInv
    BY <1>2 DEF QueueInv, TaskInv, PendInv
  <1>6. SourceInv /\ ReadyInv
    BY <1>2 DEF SourceInv, Asleep, ReadyInv
  <1>7. QED
    BY <1>1, <1>3, <1>4, <1>5, <1>6 DEF IInv

\* The steps of the loop.
LEMMA LoopSafe ==
  ASSUME IInv, TypeInv', NEW r \in Reactor, LoopStep(r)
  PROVE  IInv'
  <1>1. CASE StartLoop(r)
    BY <1>1, StartLoopSafe
  <1>2. CASE ResumeFirst(r)
    BY <1>2, ResumeFirstSafe, ResumeNoneSafe
  <1>3. CASE PopQueue(r)
    <2>1. queue # <<>> /\ queue \in Seq(Fd)
      BY <1>3 DEF PopQueue, IInv, TypeInv, TypeOK
    <2>2. Head(queue) = queue[1] /\ 1 \in 1..Len(queue) /\ Head(queue) \in Fd
      BY <2>1
    <2>3. fd_cor[Head(queue)] \in Coroutine
      BY <2>2 DEF IInv, QueueInv, Sleeper, TypeInv, TypeOK
    <2>4. QED
      BY <1>3, <2>3, PopQueueSafe
  <1>4. CASE SwapTasks(r)
    BY <1>4, SwapTasksSafe
  <1>5. CASE RunTask(r)
    <2>1. tmp_tasks[r] # <<>> /\ tmp_tasks[r] \in Seq(Coroutine)
      BY <1>5 DEF RunTask, IInv, TypeInv, TypeOK
    <2>2. Head(tmp_tasks[r]) \in Coroutine
      BY <2>1
    <2>3. QED
      BY <1>5, <2>2, RunTaskSafe
  <1>6. CASE TasksDone(r)
    BY <1>6, TasksDoneSafe
  <1>7. CASE EpollWait(r)
    BY <1>7, EpollWaitSafe
  <1>8. CASE HandleWake(r)
    BY <1>8, HandleWakeSafe
  <1>9. CASE ApplyPending(r)
    BY <1>9, ApplyPendingSafe
  <1>10. ASSUME NEW f \in Fd, HandleError(r, f) PROVE IInv'
    BY <1>10, HandleErrorSafe
  <1>11. ASSUME NEW f \in Fd, HandleEvent(r, f) PROVE IInv'
    BY <1>11, KeepEventSafe, MigrateEventSafe
  <1>12. QED
    BY <1>1, <1>2, <1>3, <1>4, <1>5, <1>6, <1>7, <1>8, <1>9, <1>10, <1>11 DEF LoopStep

\* The steps of a coroutine.
LEMMA CoroutineSafe ==
  ASSUME IInv, TypeInv', NEW r \in Reactor, NEW c \in Coroutine, CoroutineStep(r, c)
  PROVE  IInv'
  <1>1. ASSUME NEW f \in Fd, HookSucceeds(r, c, f) PROVE IInv'
    BY <1>1, HookSucceedsSafe
  <1>2. ASSUME NEW f \in Fd, HookBlocks(r, c, f) PROVE IInv'
    BY <1>2, HookBlocksSafe
  <1>3. ASSUME NEW f \in Fd, EndCall(r, c, f) PROVE IInv'
    BY <1>3, EndCallSafe
  <1>4. CASE YieldHook(r, c)
    BY <1>4, YieldHookSafe
  <1>5. CASE Unlisten(r, c)
    BY <1>5, UnlistenSafe
  <1>6. CASE Reread(r, c)
    BY <1>6, RereadSafe
  <1>7. CASE ClearClient(r, c)
    BY <1>7, ClearClientSafe
  <1>8. CASE Finish(r, c)
    BY <1>8, FinishSafe
  <1>9. QED
    BY <1>1, <1>2, <1>3, <1>4, <1>5, <1>6, <1>7, <1>8 DEF CoroutineStep

LEMMA IInvStep == IInv /\ [Next]_vars => IInv'
  <1> SUFFICES ASSUME IInv, [Next]_vars PROVE IInv'
    OBVIOUS
  <1>1. TypeInv'
    BY TypeStep DEF IInv
  <1>2. ASSUME NEW r \in Reactor, ThreadStep(r) PROVE IInv'
    BY <1>1, <1>2, LoopSafe, CoroutineSafe DEF ThreadStep
  <1>3. ASSUME UNCHANGED <<loopVars, pendVars, epoll, queue, fdVars, coVars, envVars>> PROVE IInv'
    <2>1. UNCHANGED <<loop_pc, cur, first, tmp_tasks, pending_tasks, pending_add, pending_del, epoll,
                      batch, queue, fd_reactor, fd_cor, listen, co_pc, co_fd, closed, ready, hup>>
      BY <1>3 DEF loopVars, pendVars, fdVars, coVars, envVars
    <2>2. QED
      BY <1>1, <2>1, Frame DEF IInv
  <1>4. ASSUME NEW a \in Coroutine \cup {Main}, Wakeup(a) PROVE IInv'
    BY <1>3, <1>4 DEF Wakeup
  <1>5. ASSUME NEW c \in Coroutine, NEW r \in Reactor, Post(c, r) PROVE IInv'
    BY <1>1, <1>5, PostSafe
  <1>6. ASSUME NEW f \in Fd, Arrive(f) \/ HangUp(f) PROVE IInv'
    BY <1>1, <1>6, PeerSafe
  <1>7. CASE UNCHANGED vars
    BY <1>3, <1>7 DEF vars
  <1>8. QED
    BY <1>2, <1>4, <1>5, <1>6, <1>7 DEF Next

-----------------------------------------------------------------------------
(* What the invariant gives                                                *)

LEMMA IInvMeans ==
  ASSUME IInv
  PROVE  OneWatcher /\ EventHasCoroutine /\ NoSpuriousResume /\ NoLostCoroutine
  <1>1. OneWatcher
    BY DEF IInv, WatchInv, OneWatcher
  <1>2. EventHasCoroutine
    BY DEF IInv, WatchInv, EventHasCoroutine, TypeInv, TypeOK
  <1>3. NoSpuriousResume
    BY DEF IInv, ReadyInv, NoSpuriousResume, Arrived
  <1>4. NoLostCoroutine
    <2> SUFFICES ASSUME NEW c \in Coroutine, co_pc[c] = "suspended"
                 PROVE  \/ \E i \in 1..Len(queue) : fd_cor[queue[i]] = c
                        \/ \E r \in Reactor :
                             /\ "on" \in {epoll[r][co_fd[c]], pending_add[r][co_fd[c]]}
                             /\ co_fd[c] \notin pending_del[r]
      BY DEF NoLostCoroutine
    <2>1. fd_cor[co_fd[c]] = c /\ co_fd[c] \notin closed /\ c # NULL
      BY WaitsOn DEF Waiting
    <2>2. Single(c)
      <3>1. \A r \in Reactor : cur[r] # c
        BY <2>1 DEF IInv, RunInv, Running
      <3>2. QED
        BY <3>1 DEF Single
    <2>3. Watched(co_fd[c]) \/ Queued(co_fd[c])
      BY <2>2 DEF IInv, SourceInv, Asleep
    <2>4. \A r \in Reactor : co_fd[c] \notin pending_del[r]
      BY <2>1 DEF IInv, PendInv
    <2>5. QED
      BY <2>1, <2>3, <2>4 DEF Watched, Queued
  <1>5. QED
    BY <1>1, <1>2, <1>3, <1>4

THEOREM IInvHolds == Spec => []IInv
  BY IInvInit, IInvStep, PTL DEF Spec

\* An fd is watched for IO by one reactor at most, the one its FdEvent points to, which is
\* where delListenEvents takes the registration back.
THEOREM SpecOneWatcher == Spec => []OneWatcher
  BY IInvHolds, IInvMeans, PTL

\* Every IO event that Reactor::loop handles has a coroutine to resume.
THEOREM SpecEventHasCoroutine == Spec => []EventHasCoroutine
  BY IInvHolds, IInvMeans, PTL

\* A hook is resumed only when its fd is ready or hung up.
THEOREM SpecNoSpuriousResume == Spec => []NoSpuriousResume
  BY IInvHolds, IInvMeans, PTL

\* A suspended coroutine always has an event, a request for one or a queue entry that will
\* wake it.
THEOREM SpecNoLostCoroutine == Spec => []NoLostCoroutine
  BY IInvHolds, IInvMeans, PTL

-----------------------------------------------------------------------------
(* One thread for every coroutine of a plain server                        *)

\* No coroutine makes an RPC call of its own: the IO threads serve clients only.
NoCallFds == \A c \in Coroutine : CallFds[c] = {}

\* A coroutine that a thread executes has its fd with that thread: nobody else watches it.
HomeThread == \A r \in Reactor : cur[r] # NULL => fd_reactor[ConnFd[cur[r]]] = r

PlainInv == NoCallFds /\ IInv /\ HomeThread

\* Without calls the fd of every hook is the one of the connection.
LEMMA PlainFd ==
  ASSUME NoCallFds, IInv, NEW c \in Coroutine
  PROVE  /\ OwnFds(c) = {ConnFd[c]} /\ ConnFd[c] \in Fd /\ c # NULL
         /\ co_pc[c] \in Hooked \ {"cleared"} => co_fd[c] = ConnFd[c]
         /\ \A d \in Coroutine : ConnFd[c] = ConnFd[d] => c = d
  <1>1. OwnFds(c) = {ConnFd[c]} /\ ConnFd[c] \in Fd /\ c # NULL
    BY SchedulerAssumption DEF NoCallFds, OwnFds
  <1>2. \A d \in Coroutine : ConnFd[c] = ConnFd[d] => c = d
    BY SchedulerAssumption
  <1>3. QED
    BY <1>1, <1>2 DEF IInv, FdInv

\* A thread takes a coroutine on: from its own watch, from the queue or from its tasks.
LEMMA HomeTaken ==
  ASSUME PlainInv, NEW r \in Reactor, NEW c \in Coroutine, cur[r] = NULL,
         cur' = [cur EXCEPT ![r] = c],
         \A q \in Reactor : cur[q] # c,
         fd_reactor' \in {fd_reactor, [fd_reactor EXCEPT ![ConnFd[c]] = r]},
         fd_reactor'[ConnFd[c]] = r
  PROVE  HomeThread'
  <1>1. cur'[r] = c /\ \A q \in Reactor : q # r => cur'[q] = cur[q]
    BY DEF PlainInv, IInv, TypeInv, TypeOK
  <1>2. ASSUME NEW q \in Reactor, q # r, cur[q] # NULL PROVE fd_reactor'[ConnFd[cur[q]]] = q
    <2>1. cur[q] \in Coroutine /\ cur[q] # c
      BY <1>2 DEF PlainInv, IInv, TypeInv, TypeOK
    <2>2. ConnFd[cur[q]] # ConnFd[c] /\ ConnFd[cur[q]] \in Fd /\ ConnFd[c] \in Fd
      BY <2>1, PlainFd DEF PlainInv
    <2>3. fd_reactor'[ConnFd[cur[q]]] = fd_reactor[ConnFd[cur[q]]]
      BY <2>2 DEF PlainInv, IInv, TypeInv, TypeOK
    <2>4. QED
      BY <1>2, <2>3 DEF PlainInv, HomeThread
  <1>3. QED
    BY <1>1, <1>2 DEF HomeThread

\* Whom nobody has resumed and whose fd is watched by q, or by no reactor, runs on q at most.
LEMMA HomeAway ==
  ASSUME PlainInv, NEW r \in Reactor, NEW c \in Coroutine, co_pc[c] \in Asleep,
         cur[r] = NULL, fd_reactor[co_fd[c]] \in {r, NULL}
  PROVE  /\ co_fd[c] = ConnFd[c]
         /\ \A q \in Reactor : cur[q] # c
  <1>1. co_fd[c] = ConnFd[c] /\ c # NULL
    BY PlainFd DEF PlainInv, Asleep, Hooked
  <1>2. ASSUME NEW q \in Reactor, cur[q] = c PROVE FALSE
    <2>1. fd_reactor[ConnFd[c]] = q
      BY <1>1, <1>2 DEF PlainInv, HomeThread
    <2>2. q # NULL
      BY SchedulerAssumption
    <2>3. q = r
      BY <1>1, <2>1, <2>2
    <2>4. QED
      BY <1>1, <1>2, <2>3
  <1>3. QED
    BY <1>1, <1>2

LEMMA HomeLoop ==
  ASSUME PlainInv, NEW r \in Reactor, LoopStep(r)
  PROVE  HomeThread'
  <1>1. ASSUME UNCHANGED <<cur, fd_reactor>> PROVE HomeThread'
    BY <1>1 DEF PlainInv, HomeThread
  <1>2. CASE ResumeFirst(r)
    <2>1. CASE first[r] = NULL
      BY <1>1, <1>2, <2>1 DEF ResumeFirst, Resume, fdVars
    <2>2. CASE first[r] # NULL
      <3>1. PICK c \in Coroutine : c = first[r] /\ co_pc[c] \in Asleep
        BY <2>2, FirstSleeps DEF PlainInv
      <3>2. cur[r] = NULL /\ cur' = [cur EXCEPT ![r] = c] /\ fd_reactor' = fd_reactor
        BY <1>2, <3>1, ResumeEffect DEF PlainInv, IInv, ResumeFirst, InLoop, fdVars
      <3>3. co_fd[c] \in Fd /\ fd_reactor[co_fd[c]] = r
        BY <2>2, <3>1, AsleepIs, WaitsOn DEF PlainInv, IInv, FirstInv, WatchInv
      <3>4. QED
        BY <3>1, <3>2, <3>3, HomeAway, HomeTaken
    <2>3. QED
      BY <2>1, <2>2
  <1>3. CASE PopQueue(r)
    <2>1. /\ queue # <<>> /\ queue \in Seq(Fd) /\ cur[r] = NULL
          /\ fd_reactor' = [fd_reactor EXCEPT ![Head(queue)] = r]
          /\ Resume(r, fd_cor[Head(queue)])
      BY <1>3 DEF PopQueue, InLoop, PlainInv, IInv, TypeInv, TypeOK
    <2>2. Head(queue) = queue[1] /\ 1 \in 1..Len(queue) /\ Head(queue) \in Fd
      BY <2>1
    <2>3. Sleeper(Head(queue)) /\ fd_reactor[Head(queue)] = NULL
      BY <2>2 DEF PlainInv, IInv, QueueInv
    <2>4. PICK c \in Coroutine : c = fd_cor[Head(queue)] /\ co_pc[c] \in Asleep /\ co_fd[c] = Head(queue)
      BY <2>2, <2>3, NamedBy DEF Sleeper, PlainInv
    <2>5. cur' = [cur EXCEPT ![r] = c]
      BY <2>1, <2>4, ResumeEffect DEF PlainInv, IInv
    <2>6. fd_reactor'[co_fd[c]] = r
      BY <2>1, <2>2, <2>4 DEF PlainInv, IInv, TypeInv, TypeOK
    <2>7. QED
      <3>1. co_fd[c] = ConnFd[c] /\ \A q \in Reactor : cur[q] # c
        BY <2>1, <2>3, <2>4, HomeAway
      <3>2. fd_reactor' = [fd_reactor EXCEPT ![ConnFd[c]] = r] /\ fd_reactor'[ConnFd[c]] = r
        BY <2>1, <2>4, <2>6, <3>1
      <3>3. QED
        BY <2>1, <2>5, <3>1, <3>2, HomeTaken
  <1>4. CASE RunTask(r)
    <2>1. tmp_tasks[r] # <<>> /\ tmp_tasks[r] \in Seq(Coroutine) /\ cur[r] = NULL
          /\ Resume(r, Head(tmp_tasks[r])) /\ fd_reactor' = fd_reactor
      BY <1>4 DEF RunTask, InLoop, fdVars, PlainInv, IInv, TypeInv, TypeOK
    <2>2. PICK c \in Coroutine : c = Head(tmp_tasks[r]) /\ c = tmp_tasks[r][1] /\ 1 \in 1..Len(tmp_tasks[r])
      BY <2>1
    <2>3. co_pc[c] = "posted" /\ fd_reactor[ConnFd[c]] = r
      BY <2>2 DEF PlainInv, IInv, TaskInv
    <2>4. \A q \in Reactor : cur[q] # c
      BY <2>3, SchedulerAssumption DEF PlainInv, IInv, RunInv, Running
    <2>5. cur' = [cur EXCEPT ![r] = c]
      BY <2>1, <2>2, <2>3, ResumeEffect DEF PlainInv, IInv
    <2>6. QED
      BY <2>1, <2>3, <2>4, <2>5, HomeTaken
  <1>5. ASSUME NEW f \in Fd, HandleEvent(r, f) PROVE HomeThread'
    <2>1. /\ cur' = cur /\ cur[r] = NULL /\ epoll[r][f] = "on"
          /\ fd_reactor' \in {fd_reactor, [fd_reactor EXCEPT ![f] = NULL]}
      BY <1>5 DEF HandleEvent, Migrate, InLoop
    <2>2. fd_reactor[f] = r
      BY <2>1 DEF PlainInv, IInv, WatchInv
    <2>3. ASSUME NEW q \in Reactor, cur[q] # NULL PROVE fd_reactor'[ConnFd[cur[q]]] = q
      <3>1. fd_reactor[ConnFd[cur[q]]] = q /\ q # r
        BY <2>1, <2>3 DEF PlainInv, HomeThread
      <3>2. ConnFd[cur[q]] \in Fd /\ ConnFd[cur[q]] # f
        BY <2>2, <2>3, <3>1, PlainFd DEF PlainInv, IInv, TypeInv, TypeOK
      <3>3. QED
        BY <2>1, <3>1, <3>2 DEF PlainInv, IInv, TypeInv, TypeOK
    <2>4. QED
      BY <2>1, <2>3 DEF HomeThread
  <1>6. CASE StartLoop(r) \/ SwapTasks(r) \/ TasksDone(r) \/ EpollWait(r) \/ HandleWake(r) \/ ApplyPending(r)
    BY <1>1, <1>6 DEF StartLoop, SwapTasks, TasksDone, EpollWait, HandleWake, ApplyPending, fdVars
  <1>7. ASSUME NEW f \in Fd, HandleError(r, f) PROVE HomeThread'
    BY <1>1, <1>7 DEF HandleError, fdVars
  <1>8. QED
    BY <1>2, <1>3, <1>4, <1>5, <1>6, <1>7 DEF LoopStep

LEMMA HomeCoroutine ==
  ASSUME PlainInv, NEW r \in Reactor, NEW c \in Coroutine, CoroutineStep(r, c)
  PROVE  HomeThread'
  <1>1. Runs(r, c) /\ c # NULL /\ ConnFd[c] \in Fd
    BY PlainFd DEF PlainInv, CoroutineStep, HookSucceeds, HookBlocks, EndCall, YieldHook, Unlisten,
       Reread, ClearClient, Finish
  <1>2. fd_reactor[ConnFd[c]] = r /\ ReactorOf(ConnFd[c], r) = r
    <2>1. fd_reactor[ConnFd[c]] = r
      BY <1>1 DEF Runs, PlainInv, HomeThread
    <2>2. r # NULL
      BY SchedulerAssumption
    <2>3. QED
      BY <2>1, <2>2 DEF ReactorOf
  <1>3. ASSUME UNCHANGED <<cur, fd_reactor>> PROVE HomeThread'
    BY <1>3 DEF PlainInv, HomeThread
  <1>4. ASSUME cur' = [cur EXCEPT ![r] = NULL], UNCHANGED fd_reactor PROVE HomeThread'
    BY <1>4 DEF PlainInv, HomeThread, IInv, TypeInv, TypeOK
  <1>5. [fd_reactor EXCEPT ![ConnFd[c]] = ReactorOf(ConnFd[c], r)] = fd_reactor
    BY <1>1, <1>2 DEF PlainInv, IInv, TypeInv, TypeOK
  <1>6. ASSUME NEW f \in Fd, HookSucceeds(r, c, f) \/ HookBlocks(r, c, f) PROVE HomeThread'
    <2>1. f = ConnFd[c]
      BY <1>6 DEF HookSucceeds, HookBlocks, MayUse, PlainInv, NoCallFds
    <2>2. QED
      BY <1>3, <1>5, <1>6, <2>1 DEF HookSucceeds, HookBlocks, loopVars
  <1>7. ASSUME NEW f \in Fd, EndCall(r, c, f) PROVE FALSE
    BY <1>7 DEF EndCall, PlainInv, NoCallFds
  <1>8. CASE YieldHook(r, c) \/ Finish(r, c)
    BY <1>4, <1>8 DEF YieldHook, Finish, fdVars
  <1>9. CASE Unlisten(r, c) \/ ClearClient(r, c)
    <2>1. co_fd[c] = ConnFd[c]
      BY <1>9, PlainFd DEF PlainInv, Unlisten, ClearClient, Hooked
    <2>2. QED
      BY <1>3, <1>5, <1>9, <2>1 DEF Unlisten, ClearClient, Unregister, loopVars
  <1>10. CASE Reread(r, c)
    BY <1>3, <1>10 DEF Reread, loopVars, fdVars
  <1>11. QED
    BY <1>6, <1>7, <1>8, <1>9, <1>10 DEF CoroutineStep

LEMMA PlainStep == PlainInv /\ [Next]_vars => PlainInv'
  <1> SUFFICES ASSUME PlainInv, [Next]_vars PROVE PlainInv'
    OBVIOUS
  <1>1. NoCallFds' /\ IInv'
    BY IInvStep DEF PlainInv, NoCallFds
  <1>2. ASSUME UNCHANGED <<cur, fd_reactor>> PROVE HomeThread'
    BY <1>2 DEF PlainInv, HomeThread
  <1>3. ASSUME NEW r \in Reactor, ThreadStep(r) PROVE HomeThread'
    BY <1>3, HomeLoop, HomeCoroutine DEF ThreadStep
  <1>4. ASSUME NEW a \in Coroutine \cup {Main}, Wakeup(a) PROVE HomeThread'
    BY <1>2, <1>4 DEF Wakeup, loopVars, fdVars
  <1>5. ASSUME NEW c \in Coroutine, NEW r \in Reactor, Post(c, r) PROVE HomeThread'
    <2>1. cur' = cur /\ co_pc[c] = "new" /\ fd_reactor' = [fd_reactor EXCEPT ![ConnFd[c]] = r]
      BY <1>5 DEF Post, loopVars
    <2>2. ASSUME NEW q \in Reactor, cur[q] # NULL PROVE fd_reactor'[ConnFd[cur[q]]] = q
      <3>1. cur[q] \in Coroutine /\ cur[q] # c
        <4>1. cur[q] \in Coroutine /\ co_pc[cur[q]] \in Running
          BY <2>2 DEF PlainInv, IInv, RunInv, TypeInv, TypeOK
        <4>2. QED
          BY <2>1, <4>1 DEF Running
      <3>2. ConnFd[cur[q]] # ConnFd[c] /\ ConnFd[cur[q]] \in Fd
        BY <3>1, PlainFd DEF PlainInv
      <3>3. QED
        BY <2>1, <2>2, <3>2 DEF PlainInv, HomeThread, IInv, TypeInv, TypeOK
    <2>3. QED
      BY <2>1, <2>2 DEF HomeThread
  <1>6. ASSUME NEW f \in Fd, Arrive(f) \/ HangUp(f) PROVE HomeThread'
    <2>1. UNCHANGED <<cur, fd_reactor>>
      BY <1>6 DEF Arrive, HangUp, loopVars, fdVars
    <2>2. QED
      BY <1>2, <2>1
  <1>7. ASSUME UNCHANGED vars PROVE HomeThread'
    <2>1. UNCHANGED <<cur, fd_reactor>>
      BY <1>7 DEF vars, loopVars, fdVars
    <2>2. QED
      BY <1>2, <2>1
  <1>8. HomeThread'
    BY <1>3, <1>4, <1>5, <1>6, <1>7 DEF Next
  <1>9. QED
    BY <1>1, <1>8 DEF PlainInv

\* No connection coroutine of a plain server runs on two IO threads at once.
THEOREM SpecSingleRunner == NoCallFds /\ Spec => []SingleRunner
  <1>1. NoCallFds /\ Init => PlainInv
    BY IInvInit DEF PlainInv, HomeThread, Init
  <1>2. PlainInv => SingleRunner
    BY DEF PlainInv, HomeThread, SingleRunner
  <1>3. QED
    BY <1>1, <1>2, PlainStep, PTL DEF Spec
=============================================================================
