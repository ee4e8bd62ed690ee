---------------------------- MODULE AsyncChannel ----------------------------
(***************************************************************************)
(* Asynchronous calls over the pool of IO threads                          *)
(* (net/tinypb/tinypb_rpc_async_channel.cc, net/tcp/io_thread.cc).  A      *)
(* caller, the coroutine of a connection, has CallMethod give the call to  *)
(* a pooled coroutine on another thread.  When the call is done, a task on *)
(* the thread where the channel was made runs the closure, marks the call  *)
(* finished and resumes the caller if it waits.  The channel lives as long *)
(* as the caller, the pooled coroutine or the task refers to it.           *)
(*                                                                         *)
(* The call itself is that of TcpClient: here it is one wait in a hook,    *)
(* after which whatever thread resumes the coroutine.  The caller may wait *)
(* in a hook too, between CallMethod and wait().                           *)
(***************************************************************************)
EXTENDS Integers, Sequences, FiniteSets

CONSTANTS
  m_size,     \* IO threads
  Caller,     \* coroutines that make one asynchronous call each
  Slot,       \* coroutines of the pool, in the order of m_free_cors: a sequence
  NULL

Thread == 0 .. m_size - 1

SlotOf == {Slot[i] : i \in DOMAIN Slot}

\* The undefined behaviours.
Wrong ==
  [what : {"runs twice", "null coroutine"}, who : Caller \cup SlotOf]

\* There is a coroutine for each caller, so that the pool needs no memory blocks.
ASSUME AsyncAssumption ==
  /\ m_size \in Nat \ {0}
  /\ NULL \notin Caller \cup SlotOf \cup Wrong
  /\ Caller \cap SlotOf = {}
  /\ IsFiniteSet(Caller) /\ Slot \in Seq(SlotOf)
  /\ \A i, j \in DOMAIN Slot : Slot[i] = Slot[j] => i = j
  /\ Cardinality(Caller) <= Len(Slot)

VARIABLES
  started,   \* how many IO threads have been let into their loops
  m_index,   \* of IOThreadPool: the next thread for a new connection
  tasks,     \* m_pending_tasks of each reactor
  current,   \* t_cur_coroutine of each thread, NULL for its main coroutine
  back,      \* the call_back the main coroutine of a thread is in, and where
  caller,    \* where a caller stands
  chan,      \* its channel
  pending,   \* where a coroutine of the pool stands
  taken,     \* the flag of m_free_cors
  wrong      \* NULL, or the undefined behaviour the process has run into

mainVars == <<started, m_index>>
vars     == <<mainVars, tasks, current, back, caller, chan, pending, taken, wrong>>

Coroutine == Caller \cup SlotOf

Resumption(co) == [task |-> "Resume", of |-> co]
CallBack(a)    == [task |-> "call_back", of |-> a]

NoChannel ==
  [m_current_iothread |-> NULL, m_is_pre_set |-> FALSE, m_is_finished |-> FALSE,
   m_need_resume |-> FALSE, m_pending_cor |-> NULL, refs |-> {}, result |-> "none",
   closure |-> 0]

InCoFunc(s) == pending[s] \in {"calling", "hook", "called", "posted", "leaving"}

TypeOK ==
  /\ started \in 0..m_size /\ m_index \in 0..m_size
  /\ tasks \in [Thread -> Seq({Resumption(co) : co \in Coroutine}
                               \cup {CallBack(a) : a \in Caller})]
  /\ current \in [Thread -> Coroutine \cup {NULL}]
  /\ caller \in [Caller -> {"new", "accepted", "begin", "call", "after", "hook", "ready",
                            "test", "yield", "waiting", "returned", "done"}]
  /\ pending \in [SlotOf -> {"out", "calling", "hook", "called", "posted", "leaving", "left"}]
  /\ taken \in [SlotOf -> BOOLEAN]

Init ==
  /\ started = 0 /\ m_index = 0
  /\ tasks = [t \in Thread |-> <<>>]
  /\ current = [t \in Thread |-> NULL]
  /\ back = [t \in Thread |-> NULL]
  /\ caller = [a \in Caller |-> "new"]
  /\ chan = [a \in Caller |-> NoChannel]
  /\ pending = [s \in SlotOf |-> "out"]
  /\ taken = [s \in SlotOf |-> FALSE]
  /\ wrong = NULL

AddTask(t, task) == tasks' = [tasks EXCEPT ![t] = Append(@, task)]

Looping(t) == t < started

Idle(t) == Looping(t) /\ current[t] = NULL /\ back[t] = NULL

Goto(a, pc) == caller' = [caller EXCEPT ![a] = pc]

-----------------------------------------------------------------------------
(* The main thread                                                         *)

\* MainAcceptCorFunc, with getIOThread: before the IO threads start and while the
\* main reactor loops.
GetIOThread == IF m_index = m_size THEN 0 ELSE m_index

Accept(a) ==
  /\ started \in {0, m_size} /\ caller[a] = "new"
  /\ m_index' = GetIOThread + 1
  /\ AddTask(GetIOThread, Resumption(a))
  /\ Goto(a, "accepted")
  /\ UNCHANGED <<started, current, back, chan, pending, taken, wrong>>

\* A client whose requests make no asynchronous call (none after the last caller: it
\* would change nothing).
AcceptOther ==
  /\ started \in {0, m_size} /\ \E a \in Caller : caller[a] = "new"
  /\ m_index' = GetIOThread + 1
  /\ UNCHANGED <<started, tasks, current, back, caller, chan, pending, taken, wrong>>

\* IOThreadPool::start posts the start semaphores one by one.
StartThread ==
  /\ started < m_size
  /\ started' = started + 1
  /\ UNCHANGED <<m_index, tasks, current, back, caller, chan, pending, taken, wrong>>

-----------------------------------------------------------------------------
(* Coroutine::Resume                                                       *)

\* A coroutine whose context has been saved, or set up by setCallBack.
Suspended(co) ==
  IF co \in Caller THEN caller[co] \in {"accepted", "hook", "waiting"}
  ELSE pending[co] \in {"out", "hook"}

Resumed(t, co) ==
  IF ~Suspended(co)
  THEN /\ wrong' = [what |-> "runs twice", who |-> co]
       /\ UNCHANGED <<current, caller, pending>>
  ELSE /\ current' = [current EXCEPT ![t] = co]
       /\ IF co \in Caller
          THEN /\ Goto(co, CASE caller[co] = "accepted" -> "begin"
                             [] caller[co] = "hook" -> "ready"
                             [] caller[co] = "waiting" -> "returned")
               /\ UNCHANGED pending
          ELSE /\ pending' = [pending EXCEPT ![co] = IF @ = "out" THEN "calling" ELSE "called"]
               /\ UNCHANGED caller
       /\ UNCHANGED wrong

RunTask(t) ==
  /\ Idle(t) /\ tasks[t] # <<>>
  /\ tasks' = [tasks EXCEPT ![t] = Tail(@)]
  /\ LET task == Head(tasks[t]) IN
     IF task.task = "Resume"
     THEN Resumed(t, task.of) /\ UNCHANGED back
     ELSE /\ back' = [back EXCEPT ![t] = [of |-> task.of, at |-> "closure"]]
          /\ UNCHANGED <<current, caller, pending, wrong>>
  /\ UNCHANGED <<mainVars, chan, taken>>

-----------------------------------------------------------------------------
(* The channel                                                             *)

\* Who refers to the channel after one has dropped it.  In the mutant the task does not.
KeptByTask(a, holder) == IF holder = "task" THEN chan[a].refs ELSE chan[a].refs \ {holder}

Without(a, holder) == chan[a].refs \ {holder}

\* ~TinyPbRpcAsyncChannel: returnCoroutine, which looks into a null pointer when
\* there was no call.
Released(a, holder) ==
  LET left == Without(a, holder) IN
  /\ chan' = [chan EXCEPT ![a].refs = left]
  /\ IF left # {} THEN UNCHANGED <<taken, wrong>>
     ELSE IF chan[a].m_pending_cor = NULL
          THEN wrong' = [what |-> "null coroutine", who |-> a] /\ UNCHANGED taken
          ELSE /\ taken' = [taken EXCEPT ![chan[a].m_pending_cor] = FALSE]
               /\ UNCHANGED wrong

\* The channel is made, and saveCallee called or forgotten.
Construct(t, a) ==
  /\ current[t] = a /\ caller[a] = "begin"
  /\ \E saved \in BOOLEAN :
       chan' = [chan EXCEPT ![a] = [NoChannel EXCEPT !.m_current_iothread = t,
                                                     !.m_is_pre_set = saved,
                                                     !.refs = {"caller"}]]
  /\ Goto(a, "call")
  /\ UNCHANGED <<mainVars, tasks, current, back, pending, taken, wrong>>

NotSaved(t, a) ==
  /\ current[t] = a /\ caller[a] = "call" /\ ~chan[a].m_is_pre_set
  /\ chan' = [chan EXCEPT ![a].m_is_finished = TRUE, ![a].result = "error"]
  /\ Goto(a, "after")
  /\ UNCHANGED <<mainVars, tasks, current, back, pending, taken, wrong>>

\* addCoroutineToRandomThread with the random number r, called on thread t.
RandomThread(r, t) ==
  IF m_size = 1 THEN 0
  ELSE IF r # t THEN r
  ELSE IF r + 1 = m_size THEN r + 1 - 2 ELSE r + 1

\* getCoroutineInstanse: the first that is neither taken nor in CoFunction.  The
\* mutant does not look at the flag.
FirstOutOfCoFunc == {i \in DOMAIN Slot : ~InCoFunc(Slot[i])}

Unused == {i \in DOMAIN Slot : ~InCoFunc(Slot[i]) /\ ~taken[Slot[i]]}

GetCoroutineInstanse == Slot[CHOOSE i \in Unused : \A j \in Unused : i <= j]

CallMethod(t, a) ==
  /\ current[t] = a /\ caller[a] = "call" /\ chan[a].m_is_pre_set
  /\ LET s == GetCoroutineInstanse IN
     /\ taken' = [taken EXCEPT ![s] = TRUE]
     /\ chan' = [chan EXCEPT ![a].m_pending_cor = s, ![a].refs = @ \cup {"pending"}]
     /\ IF pending[s] = "out"
        THEN /\ \E r \in Thread : AddTask(RandomThread(r, t), Resumption(s))
             /\ Goto(a, "after")
             /\ UNCHANGED wrong
        ELSE \* setCallBack of a coroutine that has not yielded yet
             /\ wrong' = [what |-> "runs twice", who |-> s]
             /\ UNCHANGED <<tasks, caller>>
  /\ UNCHANGED <<mainVars, current, back, pending>>

CallOf(s) == CHOOSE a \in Caller : "pending" \in chan[a].refs /\ chan[a].m_pending_cor = s

-----------------------------------------------------------------------------
(* The caller after CallMethod                                             *)

\* A hook blocks, at most once here; the scheduler lets any thread go on with it.
CallerBlocks(t, a) ==
  /\ current[t] = a /\ caller[a] = "after"
  /\ Goto(a, "hook")
  /\ current' = [current EXCEPT ![t] = NULL]
  /\ UNCHANGED <<mainVars, tasks, back, chan, pending, taken, wrong>>

HookReturns(t, co) ==
  /\ Idle(t)
  /\ IF co \in Caller THEN caller[co] = "hook" ELSE pending[co] = "hook"
  /\ Resumed(t, co)
  /\ UNCHANGED <<mainVars, tasks, back, chan, taken>>

\* wait(): m_need_resume, m_is_finished and Yield are three steps.
Wait(t, a) ==
  /\ current[t] = a /\ caller[a] \in {"after", "ready"}
  /\ chan' = [chan EXCEPT ![a].m_need_resume = TRUE]
  /\ Goto(a, "test")
  /\ UNCHANGED <<mainVars, tasks, current, back, pending, taken, wrong>>

\* The mutant has the test the wrong way round.
AfterTestReversed(a) == IF chan[a].m_is_finished THEN "yield" ELSE "returned"

AfterTest(a) == IF chan[a].m_is_finished THEN "returned" ELSE "yield"

TestFinished(t, a) ==
  /\ current[t] = a /\ caller[a] = "test"
  /\ Goto(a, AfterTest(a))
  /\ UNCHANGED <<mainVars, tasks, current, back, chan, pending, taken, wrong>>

WaitYields(t, a) ==
  /\ current[t] = a /\ caller[a] = "yield"
  /\ Goto(a, "waiting")
  /\ current' = [current EXCEPT ![t] = NULL]
  /\ UNCHANGED <<mainVars, tasks, back, chan, pending, taken, wrong>>

\* The caller's pointer goes, after wait() or without it, and the request ends.
Leave(t, a) ==
  /\ current[t] = a /\ caller[a] \in {"after", "ready", "returned"}
  /\ Released(a, "caller")
  /\ Goto(a, "done")
  /\ current' = [current EXCEPT ![t] = NULL]
  /\ UNCHANGED <<mainVars, tasks, back, pending>>

CallerStep(t, a) ==
  \/ Construct(t, a) \/ NotSaved(t, a) \/ CallMethod(t, a) \/ CallerBlocks(t, a)
  \/ Wait(t, a) \/ TestFinished(t, a) \/ WaitYields(t, a) \/ Leave(t, a)

-----------------------------------------------------------------------------
(* The coroutine that makes the call                                       *)

\* The blocking call yields in its hooks, and ends with a reply or an error.
CallBlocks(t, s) ==
  /\ current[t] = s /\ pending[s] = "calling"
  /\ pending' = [pending EXCEPT ![s] = "hook"]
  /\ current' = [current EXCEPT ![t] = NULL]
  /\ UNCHANGED <<mainVars, tasks, back, caller, chan, taken, wrong>>

\* The call has returned: call_back goes to the thread of the channel.  The mutant
\* gives it to the thread that made the call.
ThisThread(t, a) == t

OldThread(t, a) == chan[a].m_current_iothread

PostBack(t, s) ==
  /\ current[t] = s /\ pending[s] = "called"
  /\ \E result \in {"reply", "error"} :
       chan' = [chan EXCEPT ![CallOf(s)].refs = @ \cup {"task"}, ![CallOf(s)].result = result]
  /\ AddTask(OldThread(t, CallOf(s)), CallBack(CallOf(s)))
  /\ pending' = [pending EXCEPT ![s] = "posted"]
  /\ UNCHANGED <<mainVars, current, back, caller, taken, wrong>>

\* s_ptr.reset() of the coroutine's function.
DropPending(t, s) ==
  /\ current[t] = s /\ pending[s] = "posted"
  /\ Released(CallOf(s), "pending")
  /\ pending' = [pending EXCEPT ![s] = "leaving"]
  /\ UNCHANGED <<mainVars, tasks, current, back, caller>>

\* CoFunction: setIsInCoFunc(false), then Yield.
LeaveCoFunc(t, s) ==
  /\ current[t] = s /\ pending[s] = "leaving"
  /\ pending' = [pending EXCEPT ![s] = "left"]
  /\ UNCHANGED <<mainVars, tasks, current, back, caller, chan, taken, wrong>>

LastYield(t, s) ==
  /\ current[t] = s /\ pending[s] = "left"
  /\ pending' = [pending EXCEPT ![s] = "out"]
  /\ current' = [current EXCEPT ![t] = NULL]
  /\ UNCHANGED <<mainVars, tasks, back, caller, chan, taken, wrong>>

PendingStep(t, s) ==
  CallBlocks(t, s) \/ PostBack(t, s) \/ DropPending(t, s) \/ LeaveCoFunc(t, s) \/ LastYield(t, s)

-----------------------------------------------------------------------------
(* call_back                                                               *)

In(t, at) == current[t] = NULL /\ back[t] # NULL /\ back[t].at = at

RunClosure(t) ==
  /\ In(t, "closure")
  /\ chan' = [chan EXCEPT ![back[t].of].closure = @ + 1]
  /\ back' = [back EXCEPT ![t].at = "finish"]
  /\ UNCHANGED <<mainVars, tasks, current, caller, pending, taken, wrong>>

SetFinished(t) ==
  /\ In(t, "finish")
  /\ chan' = [chan EXCEPT ![back[t].of].m_is_finished = TRUE]
  /\ back' = [back EXCEPT ![t].at = "resume"]
  /\ UNCHANGED <<mainVars, tasks, current, caller, pending, taken, wrong>>

\* getNeedResume and Resume; the task goes on when the coroutine yields.
ResumeCaller(t) ==
  /\ In(t, "resume")
  /\ IF chan[back[t].of].m_need_resume THEN Resumed(t, back[t].of)
     ELSE UNCHANGED <<current, caller, pending, wrong>>
  /\ back' = [back EXCEPT ![t].at = "reset"]
  /\ UNCHANGED <<mainVars, tasks, chan, taken>>

DropTask(t) ==
  /\ In(t, "reset")
  /\ Released(back[t].of, "task")
  /\ back' = [back EXCEPT ![t] = NULL]
  /\ UNCHANGED <<mainVars, tasks, current, caller, pending>>

BackStep(t) == RunClosure(t) \/ SetFinished(t) \/ ResumeCaller(t) \/ DropTask(t)

-----------------------------------------------------------------------------

ThreadStep(t) ==
  /\ wrong = NULL
  /\ \/ RunTask(t) \/ BackStep(t)
     \/ \E a \in Caller : CallerStep(t, a)
     \/ \E s \in SlotOf : PendingStep(t, s)

Blocked(co) == wrong = NULL /\ \E t \in Thread : HookReturns(t, co)

Next ==
  \/ wrong = NULL /\ (StartThread \/ AcceptOther \/ \E a \in Caller : Accept(a))
  \/ \E t \in Thread : ThreadStep(t)
  \/ \E co \in Coroutine : Blocked(co)

Spec == Init /\ [][Next]_vars

\* The main thread and the loops go on.  A hook of a caller returns; that a call
\* returns is not assumed (TcpClient says when it does).
FairSpec ==
  /\ Spec
  /\ WF_vars(wrong = NULL /\ StartThread)
  /\ \A t \in Thread : WF_vars(ThreadStep(t))
  /\ \A a \in Caller : WF_vars(Blocked(a))

-----------------------------------------------------------------------------
(* Properties                                                              *)

\* A caller that is back from wait() finds the call over: its result is there, and
\* the closure has run, once.
WaitReturnsComplete ==
  \A a \in Caller : caller[a] = "returned" =>
    /\ chan[a].result # "none"
    /\ chan[a].m_is_pre_set => chan[a].closure = 1

\* As long as the caller waits on the thread of its channel, call_back and wait()
\* cannot run into each other.
SafeOnOwnThread ==
  wrong # NULL /\ wrong.who \in Caller /\ wrong.what = "runs twice" =>
    current[chan[wrong.who].m_current_iothread] # wrong.who

\* While a channel lives, the coroutine of its call belongs to it alone.
PendingExclusive ==
  \A a, b \in Caller : chan[a].refs # {} /\ chan[a].m_pending_cor # NULL =>
    /\ taken[chan[a].m_pending_cor]
    /\ chan[b].refs # {} /\ chan[b].m_pending_cor = chan[a].m_pending_cor => a = b

\* The channel of a call that has returned is destroyed, with or without a wait(),
\* and its coroutine given back.
EventuallyReleased ==
  \A a \in Caller :
    chan[a].result # "none" ~> chan[a].refs = {} \/ wrong # NULL
=============================================================================
