------------------------- MODULE CoroutineScheduler -------------------------
(***************************************************************************)
(* The m:n coroutine scheduler of TinyRPC: the loops of the IO threads     *)
(* (Reactor::loop), the FdEvents they watch, the process-wide              *)
(* CoroutineTaskQueue, Coroutine::Yield and Coroutine::Resume, and the     *)
(* hooked system calls (read_hook, write_hook) through which a coroutine   *)
(* gives its thread away and gets one back.                                *)
(*                                                                         *)
(* One reactor is one IO thread.  While cur[r] is a coroutine, thread r    *)
(* executes that coroutine and its loop stands still at loop_pc[r].        *)
(* A coroutine waits on one fd at a time for one kind of event, so READ    *)
(* and WRITE are not told apart: listen[f] is m_listen_events # 0.         *)
(***************************************************************************)
EXTENDS Integers, Sequences, FiniteSets

CONSTANTS
  Reactor,      \* the IO threads, one Reactor each
  Coroutine,    \* connection coroutines, each started once by the main thread
  Fd,           \* sockets
  ConnFd,       \* ConnFd[c]: the socket of the connection coroutine c serves
  CallFds,      \* CallFds[c]: the sockets of the RPCs c itself makes (TcpClient)
  Main,         \* the main thread, which accepts and starts coroutines
  WakeFd,       \* stands for the eventfd of whichever reactor reports it
  NULL,         \* nullptr
  MaxEvents,    \* MAX_EVENTS of one epoll_wait
  MaxArrivals   \* bound: how many times data arrives in a behaviour

ASSUME SchedulerAssumption ==
  /\ ConnFd \in [Coroutine -> Fd]
  /\ CallFds \in [Coroutine -> SUBSET Fd]
  /\ \A c, d \in Coroutine :
       /\ c # d => ({ConnFd[c]} \cup CallFds[c]) \cap ({ConnFd[d]} \cup CallFds[d]) = {}
       /\ ConnFd[c] \notin CallFds[c]
  /\ NULL \notin Reactor \cup Coroutine \cup Fd
  /\ Main \notin Coroutine
  /\ WakeFd \notin Fd
  /\ MaxEvents \in Nat \ {0}
  /\ MaxArrivals \in Nat

VARIABLES
  loop_pc,       \* where Reactor::loop of the thread stands
  cur,           \* t_cur_coroutine of the thread, NULL for its main coroutine
  first,         \* first_coroutine of Reactor::loop
  tmp_tasks,     \* tmp_tasks of Reactor::loop
  pending_tasks, \* m_pending_tasks: coroutines to Resume
  pending_add,   \* m_pending_add_fds: fd -> mask, "none" when not a key
  pending_del,   \* m_pending_del_fds
  wake,          \* the eventfd counter is not zero
  epoll,         \* registration of each fd in the reactor's epoll and m_fds
  batch,         \* events of the last epoll_wait not yet handled
  queue,         \* CoroutineTaskQueue::m_task
  fd_reactor,    \* FdEvent::m_reactor
  fd_cor,        \* FdEvent::m_coroutine
  listen,        \* FdEvent::m_listen_events # 0
  co_pc,         \* where the coroutine stands in its hooked call
  co_fd,         \* the fd of that call
  owes,          \* reactor whose wakeup() the actor has still to call
  closed,        \* fds unregistered by clearClient or ~TcpClient
  ready,         \* fds on which a system call would succeed
  hup,           \* fds whose peer has closed
  arrivals       \* number of arrivals so far

loopVars == <<loop_pc, cur, first, tmp_tasks, batch>>
pendVars == <<pending_tasks, pending_add, pending_del>>
fdVars   == <<fd_reactor, fd_cor, listen>>
coVars   == <<co_pc, co_fd, closed>>
envVars  == <<ready, hup, arrivals>>
vars == <<loopVars, pendVars, wake, epoll, queue, fdVars, coVars, owes, envVars>>

Mask   == {"absent", "off", "on"}
LoopPc == {"start", "first", "pop", "tasks", "wait", "batch"}
CoPc   == {"new", "posted", "run", "armed", "suspended", "resumed", "reread",
           "closing", "cleared", "done"}

TypeOK ==
  /\ loop_pc \in [Reactor -> LoopPc]
  /\ cur \in [Reactor -> Coroutine \cup {NULL}]
  /\ first \in [Reactor -> Coroutine \cup {NULL}]
  /\ tmp_tasks \in [Reactor -> Seq(Coroutine)]
  /\ pending_tasks \in [Reactor -> Seq(Coroutine)]
  /\ pending_add \in [Reactor -> [Fd -> Mask \cup {"none"}]]
  /\ pending_del \in [Reactor -> SUBSET Fd]
  /\ wake \in [Reactor -> BOOLEAN]
  /\ epoll \in [Reactor -> [Fd -> Mask]]
  /\ batch \in [Reactor -> SUBSET (Fd \cup {WakeFd})]
  /\ queue \in Seq(Fd)
  /\ fd_reactor \in [Fd -> Reactor \cup {NULL}]
  /\ fd_cor \in [Fd -> Coroutine \cup {NULL}]
  /\ listen \in [Fd -> BOOLEAN]
  /\ co_pc \in [Coroutine -> CoPc]
  /\ co_fd \in [Coroutine -> Fd \cup {NULL}]
  /\ owes \in [Coroutine \cup {Main} -> Reactor \cup {NULL}]
  /\ closed \in SUBSET Fd
  /\ ready \in SUBSET Fd
  /\ hup \in SUBSET Fd
  /\ arrivals \in Nat

Init ==
  /\ loop_pc = [r \in Reactor |-> "start"]
  /\ cur = [r \in Reactor |-> NULL]
  /\ first = [r \in Reactor |-> NULL]
  /\ tmp_tasks = [r \in Reactor |-> <<>>]
  /\ pending_tasks = [r \in Reactor |-> <<>>]
  /\ pending_add = [r \in Reactor |-> [f \in Fd |-> "none"]]
  /\ pending_del = [r \in Reactor |-> {}]
  /\ wake = [r \in Reactor |-> FALSE]
  /\ epoll = [r \in Reactor |-> [f \in Fd |-> "absent"]]
  /\ batch = [r \in Reactor |-> {}]
  /\ queue = <<>>
  /\ fd_reactor = [f \in Fd |-> NULL]
  /\ fd_cor = [f \in Fd |-> NULL]
  /\ listen = [f \in Fd |-> FALSE]
  /\ co_pc = [c \in Coroutine |-> "new"]
  /\ co_fd = [c \in Coroutine |-> NULL]
  /\ owes = [a \in Coroutine \cup {Main} |-> NULL]
  /\ closed = {}
  /\ ready = {}
  /\ hup = {}
  /\ arrivals = 0

-----------------------------------------------------------------------------
(* Resume and Yield                                                        *)

\* Coroutine::Resume(c) called by thread r, which is in its main coroutine.
\* A null pointer or a coroutine whose m_can_resume is false is refused.  A
\* fresh coroutine begins its callback, a suspended one returns from Yield.
Resume(r, c) ==
  IF c = NULL \/ co_pc[c] \in {"new", "done"}
  THEN UNCHANGED <<cur, co_pc>>
  ELSE /\ cur' = [cur EXCEPT ![r] = c]
       /\ co_pc' = [co_pc EXCEPT ![c] = IF @ = "posted" THEN "run"
                                         ELSE IF @ = "suspended" THEN "resumed" ELSE @]

\* Thread r runs the main coroutine: its loop may take a step.
InLoop(r) == cur[r] = NULL

\* Coroutine c runs on r and on no other thread.  A coroutine resumed on two
\* threads has a corrupt stack: what it does next is not modelled.
Runs(r, c) ==
  /\ cur[r] = c
  /\ \A q \in Reactor : cur[q] = c => q = r
  /\ owes[c] = NULL

-----------------------------------------------------------------------------
(* The loop of a reactor                                                   *)

StartLoop(r) ==
  /\ loop_pc[r] = "start"
  /\ loop_pc' = [loop_pc EXCEPT ![r] = "pop"]
  /\ UNCHANGED <<cur, first, tmp_tasks, batch, pendVars, wake, epoll, queue,
                 fdVars, coVars, owes, envVars>>

\* first_coroutine = NULL after its Resume.  The mutant leaves the pointer set.
KeepFirst(r) == UNCHANGED first

ClearFirst(r) == first' = [first EXCEPT ![r] = NULL]

\* if (first_coroutine) { Resume(first_coroutine); ... }
ResumeFirst(r) ==
  /\ loop_pc[r] = "first" /\ InLoop(r)
  /\ Resume(r, first[r])
  /\ ClearFirst(r)
  /\ loop_pc' = [loop_pc EXCEPT ![r] = "pop"]
  /\ UNCHANGED <<tmp_tasks, batch, pendVars, wake, epoll, queue, fdVars,
                 co_fd, closed, owes, envVars>>

\* The registrations of a thread with its own epoll.
AddEventInLoopThread(r, f, mask) == epoll' = [epoll EXCEPT ![r][f] = mask]

DelEventInLoopThread(r, f) == epoll' = [epoll EXCEPT ![r][f] = "absent"]

\* CoroutineTaskQueue, which all IO threads share.
Push(f) == queue' = Append(queue, f)

Pop == queue' = Tail(queue)

\* One turn of while(1) { ptr = pop(); ... }: take over the fd and resume its
\* coroutine.
PopQueue(r) ==
  /\ loop_pc[r] = "pop" /\ InLoop(r) /\ queue # <<>>
  /\ Pop
  /\ fd_reactor' = [fd_reactor EXCEPT ![Head(queue)] = r]
  /\ Resume(r, fd_cor[Head(queue)])
  /\ UNCHANGED <<loop_pc, first, tmp_tasks, batch, pendVars, wake, epoll, fd_cor,
                 listen, co_fd, closed, owes, envVars>>

\* tmp_tasks.swap(m_pending_tasks).  The mutant loses the first task.
TakenButFirst(r) == IF pending_tasks[r] = <<>> THEN <<>> ELSE Tail(pending_tasks[r])

Taken(r) == pending_tasks[r]

\* The queue is empty: leave that loop, and swap m_pending_tasks out.
SwapTasks(r) ==
  /\ loop_pc[r] = "pop" /\ InLoop(r) /\ queue = <<>>
  /\ tmp_tasks' = [tmp_tasks EXCEPT ![r] = Taken(r)]
  /\ pending_tasks' = [pending_tasks EXCEPT ![r] = <<>>]
  /\ loop_pc' = [loop_pc EXCEPT ![r] = "tasks"]
  /\ UNCHANGED <<cur, first, batch, pending_add, pending_del, wake, epoll, queue,
                 fdVars, coVars, owes, envVars>>

\* tmp_tasks[i]() for the tasks of Reactor::addCoroutine.
RunTask(r) ==
  /\ loop_pc[r] = "tasks" /\ InLoop(r) /\ tmp_tasks[r] # <<>>
  /\ tmp_tasks' = [tmp_tasks EXCEPT ![r] = Tail(tmp_tasks[r])]
  /\ Resume(r, Head(tmp_tasks[r]))
  /\ UNCHANGED <<loop_pc, first, batch, pendVars, wake, epoll, queue, fdVars, co_fd,
                 closed, owes, envVars>>

TasksDone(r) ==
  /\ loop_pc[r] = "tasks" /\ InLoop(r) /\ tmp_tasks[r] = <<>>
  /\ loop_pc' = [loop_pc EXCEPT ![r] = "wait"]
  /\ UNCHANGED <<cur, first, tmp_tasks, batch, pendVars, wake, epoll, queue, fdVars,
                 coVars, owes, envVars>>

\* What epoll_wait would report now: EPOLLIN/EPOLLOUT for a watched fd that is
\* ready or hung up, EPOLLHUP alone for a hung-up fd whose mask is 0.
Reported(r) ==
  {f \in Fd : \/ epoll[r][f] = "on" /\ f \in ready \cup hup
              \/ epoll[r][f] = "off" /\ f \in hup}
  \cup {w \in {WakeFd} : wake[r]}

\* epoll_wait: at most MAX_EVENTS of them, none when it times out.
EpollWait(r) ==
  /\ loop_pc[r] = "wait" /\ InLoop(r)
  /\ \E S \in SUBSET Reported(r) :
       /\ \/ Cardinality(S) = MaxEvents
          \/ S = Reported(r) /\ Cardinality(S) < MaxEvents
       /\ batch' = [batch EXCEPT ![r] = S]
  /\ loop_pc' = [loop_pc EXCEPT ![r] = "batch"]
  /\ UNCHANGED <<cur, first, tmp_tasks, pendVars, wake, epoll, queue, fdVars,
                 coVars, owes, envVars>>

\* The wakeup event: read the eventfd until EAGAIN.
HandleWake(r) ==
  /\ loop_pc[r] = "batch" /\ InLoop(r) /\ WakeFd \in batch[r]
  /\ batch' = [batch EXCEPT ![r] = @ \ {WakeFd}]
  /\ wake' = [wake EXCEPT ![r] = FALSE]
  /\ UNCHANGED <<loop_pc, cur, first, tmp_tasks, pendVars, epoll, queue, fdVars,
                 coVars, owes, envVars>>

\* Neither EPOLLIN nor EPOLLOUT: delEventInLoopThread(fd).
HandleError(r, f) ==
  /\ loop_pc[r] = "batch" /\ InLoop(r) /\ f \in batch[r]
  /\ epoll[r][f] = "off"
  /\ batch' = [batch EXCEPT ![r] = @ \ {f}]
  /\ DelEventInLoopThread(r, f)
  /\ UNCHANGED <<loop_pc, cur, first, tmp_tasks, pendVars, wake, queue, fdVars,
                 coVars, owes, envVars>>

\* The fd leaves this reactor for the queue, where every IO thread may take it.
\* The mutants push the fd without deleting it from this reactor's epoll, and
\* delete it without pushing it.
MigrateKeepsFd(r, f) ==
  /\ fd_reactor' = [fd_reactor EXCEPT ![f] = NULL]
  /\ queue' = Append(queue, f)
  /\ UNCHANGED epoll

MigrateDropsFd(r, f) ==
  /\ epoll' = [epoll EXCEPT ![r][f] = "absent"]
  /\ fd_reactor' = [fd_reactor EXCEPT ![f] = NULL]
  /\ UNCHANGED queue

Migrate(r, f) ==
  /\ DelEventInLoopThread(r, f)
  /\ fd_reactor' = [fd_reactor EXCEPT ![f] = NULL]
  /\ Push(f)

\* An event of an fd with a coroutine.  The first of the batch is kept for this
\* thread, still registered; any other migrates.  (An fd without a coroutine
\* would push its empty callback: EventHasCoroutine says that it does not happen.)
HandleEvent(r, f) ==
  /\ loop_pc[r] = "batch" /\ InLoop(r) /\ f \in batch[r]
  /\ epoll[r][f] = "on" /\ fd_cor[f] # NULL
  /\ batch' = [batch EXCEPT ![r] = @ \ {f}]
  /\ \/ /\ first[r] = NULL
        /\ first' = [first EXCEPT ![r] = fd_cor[f]]
        /\ UNCHANGED <<epoll, fd_reactor, queue>>
     \/ /\ first[r] # NULL
        /\ Migrate(r, f)
        /\ UNCHANGED first
  /\ UNCHANGED <<loop_pc, cur, tmp_tasks, pendVars, wake, fd_cor, listen,
                 coVars, owes, envVars>>

\* The registrations other threads asked for: all additions, then all deletions.
\* The mutant ignores the additions.
AppliedDeletes(r) ==
  [f \in Fd |-> IF f \in pending_del[r] THEN "absent" ELSE epoll[r][f]]

Applied(r) ==
  [f \in Fd |-> IF f \in pending_del[r] THEN "absent"
                ELSE IF pending_add[r][f] # "none" THEN pending_add[r][f]
                ELSE epoll[r][f]]

\* After the batch; the next turn of the loop begins with first_coroutine, if any.
ApplyPending(r) ==
  /\ loop_pc[r] = "batch" /\ InLoop(r) /\ batch[r] = {}
  /\ epoll' = [epoll EXCEPT ![r] = Applied(r)]
  /\ pending_add' = [pending_add EXCEPT ![r] = [f \in Fd |-> "none"]]
  /\ pending_del' = [pending_del EXCEPT ![r] = {}]
  /\ loop_pc' = [loop_pc EXCEPT ![r] = IF first[r] = NULL THEN "pop" ELSE "first"]
  /\ UNCHANGED <<cur, first, tmp_tasks, batch, pending_tasks, wake, queue, fdVars,
                 coVars, owes, envVars>>

-----------------------------------------------------------------------------
(* Registrations and wakeups                                               *)

\* Reactor::addEvent of reactor q by coroutine c on thread r: at once in its own
\* loop, otherwise through m_pending_add_fds, where insert() keeps the mask of a
\* key that is already there, and a wakeup to follow.
AddEvent(r, c, q, f, mask) ==
  IF q = r
  THEN /\ AddEventInLoopThread(r, f, mask)
       /\ UNCHANGED <<pending_add, owes>>
  ELSE /\ pending_add' = [pending_add EXCEPT ![q][f] = IF @ = "none" THEN mask ELSE @]
       /\ owes' = [owes EXCEPT ![c] = q]
       /\ UNCHANGED epoll

\* Reactor::delEvent, the same way.
DelEvent(r, c, q, f) ==
  IF q = r
  THEN /\ DelEventInLoopThread(r, f)
       /\ UNCHANGED <<pending_del, owes>>
  ELSE /\ pending_del' = [pending_del EXCEPT ![q] = @ \cup {f}]
       /\ owes' = [owes EXCEPT ![c] = q]
       /\ UNCHANGED epoll

\* Reactor::wakeup writes the eventfd unless the loop has not begun.  The mutant
\* writes it only for a reactor that is already in epoll_wait.
WokenIfWaiting(q) == wake[q] \/ loop_pc[q] = "wait"

Woken(q) == wake[q] \/ loop_pc[q] # "start"

\* wakeup() is called after the lock on the pending lists is released.
Wakeup(a) ==
  /\ owes[a] # NULL
  /\ wake' = [wake EXCEPT ![owes[a]] = Woken(owes[a])]
  /\ owes' = [owes EXCEPT ![a] = NULL]
  /\ UNCHANGED <<loopVars, pendVars, epoll, queue, fdVars, coVars, envVars>>

\* The accepting thread makes a connection and hands its coroutine to a reactor
\* (the constructor sets the FdEvent's reactor, setUpServer calls addCoroutine).
Post(c, r) ==
  /\ co_pc[c] = "new" /\ owes[Main] = NULL
  /\ pending_tasks' = [pending_tasks EXCEPT ![r] = Append(@, c)]
  /\ fd_reactor' = [fd_reactor EXCEPT ![ConnFd[c]] = r]
  /\ co_pc' = [co_pc EXCEPT ![c] = "posted"]
  /\ owes' = [owes EXCEPT ![Main] = r]
  /\ UNCHANGED <<loopVars, pending_add, pending_del, wake, epoll, queue, fd_cor,
                 listen, co_fd, closed, envVars>>

-----------------------------------------------------------------------------
(* A coroutine's hooked calls                                              *)

\* The reactor an FdEvent is updated in: its own, or the current thread's.
ReactorOf(f, r) == IF fd_reactor[f] = NULL THEN r ELSE fd_reactor[f]

\* A request is answered after the calls it makes: while one is in progress, its
\* socket is the only one the coroutine reads and writes.
InCall(c) == \E f \in CallFds[c] \ closed : fd_reactor[f] # NULL

MayUse(c, f) ==
  /\ f \notin closed
  /\ f \in CallFds[c] \/ (f = ConnFd[c] /\ ~InCall(c))

\* The system call succeeds at once: read_hook returns without yielding.
HookSucceeds(r, c, f) ==
  /\ Runs(r, c) /\ co_pc[c] = "run" /\ MayUse(c, f)
  /\ f \in ready
  /\ ready' = ready \ {f}
  /\ fd_reactor' = [fd_reactor EXCEPT ![f] = ReactorOf(f, r)]
  /\ UNCHANGED <<loopVars, pendVars, wake, epoll, queue, fd_cor, listen, coVars,
                 owes, hup, arrivals>>

\* toEpoll remembers whom to resume.  The mutant forgets.
SetNoCoroutine(f, c) == UNCHANGED fd_cor

SetCoroutine(f, c) == fd_cor' = [fd_cor EXCEPT ![f] = c]

\* FdEvent::addListenEvents, with updateToReactor unless it listens already.
AddListenEvents(r, c, f) ==
  /\ listen' = [listen EXCEPT ![f] = TRUE]
  /\ IF listen[f] THEN UNCHANGED <<epoll, pending_add, owes>>
                  ELSE AddEvent(r, c, ReactorOf(f, r), f, "on")

\* The system call would block (or reads 0 bytes): toEpoll registers the
\* coroutine and the event.
HookBlocks(r, c, f) ==
  /\ Runs(r, c) /\ co_pc[c] = "run" /\ MayUse(c, f)
  /\ f \notin ready
  /\ fd_reactor' = [fd_reactor EXCEPT ![f] = ReactorOf(f, r)]
  /\ SetCoroutine(f, c)
  /\ AddListenEvents(r, c, f)
  /\ co_fd' = [co_fd EXCEPT ![c] = f]
  /\ co_pc' = [co_pc EXCEPT ![c] = "armed"]
  /\ UNCHANGED <<loopVars, pending_tasks, pending_del, wake, queue, closed, envVars>>

\* Coroutine::Yield inside the hook.
YieldHook(r, c) ==
  /\ Runs(r, c) /\ co_pc[c] = "armed"
  /\ cur' = [cur EXCEPT ![r] = NULL]
  /\ co_pc' = [co_pc EXCEPT ![c] = "suspended"]
  /\ UNCHANGED <<loop_pc, first, tmp_tasks, batch, pendVars, wake, epoll, queue,
                 fdVars, co_fd, closed, owes, envVars>>

\* Back from Yield: delListenEvents, then clearCoroutine.
Unlisten(r, c) ==
  LET f == co_fd[c] IN
  /\ Runs(r, c) /\ co_pc[c] = "resumed"
  /\ fd_reactor' = [fd_reactor EXCEPT ![f] = ReactorOf(f, r)]
  /\ listen' = [listen EXCEPT ![f] = FALSE]
  /\ fd_cor' = [fd_cor EXCEPT ![f] = NULL]
  /\ IF listen[f] THEN AddEvent(r, c, ReactorOf(f, r), f, "off")
                  ELSE UNCHANGED <<epoll, pending_add, owes>>
  /\ co_pc' = [co_pc EXCEPT ![c] = "reread"]
  /\ UNCHANGED <<loopVars, pending_tasks, pending_del, wake, queue, co_fd, closed,
                 envVars>>

\* The second system call.  What it fails to get, the caller takes for a close.
Reread(r, c) ==
  /\ Runs(r, c) /\ co_pc[c] = "reread"
  /\ ready' = ready \ {co_fd[c]}
  /\ co_pc' = [co_pc EXCEPT ![c] = IF co_fd[c] \in ready THEN "run" ELSE "closing"]
  /\ UNCHANGED <<loopVars, pendVars, wake, epoll, queue, fdVars, co_fd, closed,
                 owes, hup, arrivals>>

\* FdEvent::unregisterFromReactor, and close.
Unregister(r, c, f) ==
  /\ fd_reactor' = [fd_reactor EXCEPT ![f] = ReactorOf(f, r)]
  /\ DelEvent(r, c, ReactorOf(f, r), f)
  /\ listen' = [listen EXCEPT ![f] = FALSE]
  /\ closed' = closed \cup {f}
  /\ UNCHANGED <<loopVars, pending_tasks, pending_add, wake, queue, fd_cor, co_fd,
                 envVars>>

\* clearClient, of the connection or of the client connection of a call.
ClearClient(r, c) ==
  /\ Runs(r, c) /\ co_pc[c] = "closing"
  /\ co_pc' = [co_pc EXCEPT ![c] = "cleared"]
  /\ Unregister(r, c, co_fd[c])

\* setCanResume(false), and the last Yield.
Finish(r, c) ==
  /\ Runs(r, c) /\ co_pc[c] = "cleared"
  /\ cur' = [cur EXCEPT ![r] = NULL]
  /\ co_pc' = [co_pc EXCEPT ![c] = "done"]
  /\ UNCHANGED <<loop_pc, first, tmp_tasks, batch, pendVars, wake, epoll, queue,
                 fdVars, co_fd, closed, owes, envVars>>

\* A call that got its answer: ~TcpClient.
EndCall(r, c, f) ==
  /\ Runs(r, c) /\ co_pc[c] = "run"
  /\ f \in CallFds[c] \ closed /\ fd_reactor[f] # NULL
  /\ Unregister(r, c, f)
  /\ UNCHANGED co_pc

-----------------------------------------------------------------------------
(* The peers                                                               *)

Arrive(f) ==
  /\ arrivals < MaxArrivals /\ f \notin ready \cup hup \cup closed
  /\ ready' = ready \cup {f}
  /\ arrivals' = arrivals + 1
  /\ UNCHANGED <<loopVars, pendVars, wake, epoll, queue, fdVars, coVars, owes, hup>>

HangUp(f) ==
  /\ f \notin hup \cup closed
  /\ hup' = hup \cup {f}
  /\ UNCHANGED <<loopVars, pendVars, wake, epoll, queue, fdVars, coVars, owes,
                 ready, arrivals>>

-----------------------------------------------------------------------------

LoopStep(r) ==
  \/ StartLoop(r) \/ ResumeFirst(r) \/ PopQueue(r) \/ SwapTasks(r) \/ RunTask(r)
  \/ TasksDone(r) \/ EpollWait(r) \/ HandleWake(r) \/ ApplyPending(r)
  \/ \E f \in Fd : HandleError(r, f) \/ HandleEvent(r, f)

CoroutineStep(r, c) ==
  \/ \E f \in Fd : HookSucceeds(r, c, f) \/ HookBlocks(r, c, f) \/ EndCall(r, c, f)
  \/ YieldHook(r, c) \/ Unlisten(r, c) \/ Reread(r, c) \/ ClearClient(r, c)
  \/ Finish(r, c)

ThreadStep(r) == LoopStep(r) \/ \E c \in Coroutine : CoroutineStep(r, c)

Next ==
  \/ \E r \in Reactor : ThreadStep(r)
  \/ \E a \in Coroutine \cup {Main} : Wakeup(a)
  \/ \E c \in Coroutine, r \in Reactor : Post(c, r)
  \/ \E f \in Fd : Arrive(f) \/ HangUp(f)

Spec == Init /\ [][Next]_vars

\* Every thread keeps running, the accepting one inside addTask included.
Fairness ==
  /\ \A r \in Reactor : WF_vars(ThreadStep(r))
  /\ \A a \in Coroutine \cup {Main} : WF_vars(Wakeup(a))

FairSpec == Spec /\ Fairness

-----------------------------------------------------------------------------
(* Properties                                                              *)

\* No coroutine runs on two IO threads at once: what README.md promises of the
\* framework for the m:n hand-over between reactors through CoroutineTaskQueue.
SingleRunner ==
  \A q, r \in Reactor : cur[q] = cur[r] /\ cur[q] # NULL => q = r

\* A suspended coroutine can still be woken: its event is watched by a reactor,
\* is about to be, waits in a batch as the first one, or is in the queue.  This
\* is what the order of deleting, pushing, popping and listening again in
\* Reactor::loop and in the hooks has to keep.
NoLostCoroutine ==
  \A c \in Coroutine : co_pc[c] = "suspended" =>
    \/ \E i \in 1..Len(queue) : fd_cor[queue[i]] = c
    \/ \E r \in Reactor : first[r] = c
    \/ \E r \in Reactor : /\ "on" \in {epoll[r][co_fd[c]], pending_add[r][co_fd[c]]}
                        /\ co_fd[c] \notin pending_del[r]

\* A hook that is resumed finds its fd readable, writable or closed: the second
\* system call of read_hook, whose failure the caller takes for a close of the
\* peer, is never made because of a Resume nobody had a reason for.
NoSpuriousResume ==
  \A c \in Coroutine : co_pc[c] = "reread" => co_fd[c] \in ready \cup hup

\* No event goes to two threads: one reactor at most watches an fd for IO, and
\* it is the one the FdEvent points to, which delListenEvents will update.
OneWatcher ==
  \A f \in Fd, r \in Reactor : epoll[r][f] = "on" => fd_reactor[f] = r

\* Every IO event reported by epoll_wait has a coroutine to resume.  Without one
\* Reactor::loop would push an empty callback on every turn, for ever.
EventHasCoroutine ==
  \A r \in Reactor : \A f \in batch[r] \ {WakeFd} :
    epoll[r][f] = "on" => fd_cor[f] # NULL

\* A reactor never sleeps in epoll_wait over work another thread gave it: its
\* eventfd is set, or the giver is just about to call wakeup().
NoLostWakeup ==
  \A r \in Reactor :
    /\ loop_pc[r] = "wait" /\ cur[r] = NULL
    /\ \/ pending_tasks[r] # <<>> \/ pending_del[r] # {}
       \/ \E f \in Fd : pending_add[r][f] # "none"
    => wake[r] \/ \E a \in Coroutine \cup {Main} : owes[a] = r

\* A connection handed to a reactor is eventually served by it.
EventuallyStarted ==
  \A c \in Coroutine : co_pc[c] = "posted" ~> co_pc[c] # "posted"

\* A coroutine suspended in a hook whose fd becomes ready is eventually resumed,
\* whichever thread its event ends up with.
EventuallyResumed ==
  \A c \in Coroutine :
    (co_pc[c] = "suspended" /\ co_fd[c] \in ready \cup hup) ~> co_pc[c] # "suspended"
=============================================================================
