------------------------- MODULE AsyncChannelProofs -------------------------
(***************************************************************************)
(* Proofs about AsyncChannel, for every number of IO threads and callers:  *)
(* the coroutine of a call has one channel, who is back from wait() has    *)
(* the result, and the caller is not resumed while it waits on the thread  *)
(* of its channel.                                                         *)
(***************************************************************************)
EXTENDS AsyncChannel, FiniteSetTheorems, WellFoundedInduction, TLAPS

Tasks == {Resumption(co) : co \in Coroutine} \cup {CallBack(a) : a \in Caller}

Channels ==
  [m_current_iothread : Thread \cup {NULL}, m_is_pre_set : BOOLEAN, m_is_finished : BOOLEAN,
   m_need_resume : BOOLEAN, m_pending_cor : SlotOf \cup {NULL},
   refs : SUBSET {"caller", "pending", "task"}, result : {"none", "reply", "error"},
   closure : Nat]

CallerPlaces ==
  {"new", "accepted", "begin", "call", "after", "hook", "ready", "test", "yield", "waiting",
   "returned", "done"}

PendingPlaces == {"out", "calling", "hook", "called", "posted", "leaving", "left"}

TypeInv ==
  /\ started \in 0..m_size /\ m_index \in 0..m_size
  /\ tasks \in [Thread -> Seq(Tasks)]
  /\ current \in [Thread -> Coroutine \cup {NULL}]
  /\ back \in [Thread -> [of : Caller, at : {"closure", "finish", "resume", "reset"}] \cup {NULL}]
  /\ caller \in [Caller -> CallerPlaces]
  /\ chan \in [Caller -> Channels]
  /\ pending \in [SlotOf -> PendingPlaces]
  /\ taken \in [SlotOf -> BOOLEAN]

\* The task is one of those of thread t.
QueuedAt(t, task) == \E i \in DOMAIN tasks[t] : tasks[t][i] = task

\* A task is in one queue, once.
DistinctTasks ==
  \A t, u \in Thread : \A i \in DOMAIN tasks[t], j \in DOMAIN tasks[u] :
    tasks[t][i] = tasks[u][j] => t = u /\ i = j

\* What the channel of a caller holds, by where the caller stands.
CallerOf(a) ==
  /\ \A t \in Thread : QueuedAt(t, Resumption(a)) => caller[a] = "accepted"
  /\ caller[a] \in {"new", "accepted", "begin"} => chan[a] = NoChannel
  /\ caller[a] = "call" /\ wrong = NULL =>
       /\ chan[a].refs = {"caller"} /\ chan[a].m_pending_cor = NULL
       /\ chan[a].closure = 0 /\ chan[a].result = "none" /\ ~chan[a].m_is_finished
       /\ chan[a].m_current_iothread \in Thread
  /\ caller[a] \notin {"new", "accepted", "begin", "done"} => "caller" \in chan[a].refs
  /\ caller[a] \notin {"new", "accepted", "begin", "call"} /\ ~chan[a].m_is_pre_set =>
       chan[a].m_is_finished /\ chan[a].result # "none"
  /\ chan[a].m_is_finished /\ chan[a].m_is_pre_set =>
       chan[a].closure = 1 /\ chan[a].result # "none"
  /\ caller[a] = "returned" => chan[a].m_is_finished

CallerInv == \A a \in Caller : CallerOf(a)

\* The coroutine's function refers to the channel.
Owns(a, s) == "pending" \in chan[a].refs /\ chan[a].m_pending_cor = s

\* The call of a is still to be answered.
Unanswered(a) ==
  /\ "task" \notin chan[a].refs /\ chan[a].closure = 0 /\ chan[a].result = "none"
  /\ chan[a].m_is_pre_set /\ chan[a].m_current_iothread \in Thread

\* A coroutine of the pool that is to make or makes a call does so for a channel; it
\* has belonged to one when it is taken or in its function.
PendOf(s) ==
  /\ \A t \in Thread : QueuedAt(t, Resumption(s)) =>
       pending[s] = "out" /\ \E a \in Caller : Owns(a, s) /\ Unanswered(a)
  /\ pending[s] \in {"calling", "hook", "called"} =>
       \E a \in Caller : Owns(a, s) /\ Unanswered(a)
  /\ pending[s] = "posted" => \E a \in Caller : Owns(a, s)
  /\ InCoFunc(s) \/ taken[s] => \E a \in Caller : chan[a].m_pending_cor = s

PendInv == \A s \in SlotOf : PendOf(s)

\* call_back is run once, on the thread of the channel.
Answered(t, a) ==
  /\ "task" \in chan[a].refs /\ chan[a].m_current_iothread = t /\ chan[a].m_is_pre_set
  /\ chan[a].result # "none"

BackInv ==
  /\ \A t \in Thread, a \in Caller : QueuedAt(t, CallBack(a)) =>
       /\ Answered(t, a) /\ chan[a].closure = 0 /\ ~chan[a].m_is_finished
       /\ \A u \in Thread : back[u] # NULL => back[u].of # a
  /\ \A t \in Thread : back[t] # NULL =>
       /\ Answered(t, back[t].of)
       /\ back[t].at = "closure" =>
            chan[back[t].of].closure = 0 /\ ~chan[back[t].of].m_is_finished
       /\ back[t].at # "closure" => chan[back[t].of].closure = 1
       /\ back[t].at \in {"resume", "reset"} => chan[back[t].of].m_is_finished

IInv ==
  /\ TypeInv /\ DistinctTasks /\ CallerInv /\ PendInv /\ BackInv
  /\ PendingExclusive /\ SafeOnOwnThread

-----------------------------------------------------------------------------
(* Tasks                                                                   *)

USE DEF Coroutine

LEMMA Constants ==
  /\ NULL \notin Caller /\ NULL \notin SlotOf /\ NULL \notin Wrong
  /\ \A a \in Caller : a \notin SlotOf
  /\ \A r \in Thread, t \in Thread : RandomThread(r, t) \in Thread
<1>1. m_size \in Nat \ {0}
  BY AsyncAssumption
<1>2. ASSUME NEW r \in Thread, NEW t \in Thread PROVE RandomThread(r, t) \in Thread
  BY <1>1, <1>2 DEF RandomThread, Thread
<1>3. QED
  BY <1>2, AsyncAssumption

LEMMA TaskNames ==
  /\ \A x, y : Resumption(x) = Resumption(y) => x = y
  /\ \A x, y : CallBack(x) = CallBack(y) => x = y
  /\ \A x, y : Resumption(x) # CallBack(y)
  /\ \A x : Resumption(x).task = "Resume" /\ Resumption(x).of = x
  /\ \A x : CallBack(x).task # "Resume" /\ CallBack(x).of = x
  /\ \A co \in Coroutine : Resumption(co) \in Tasks
  /\ \A a \in Caller : CallBack(a) \in Tasks
<1>1. /\ \A x : Resumption(x).task = "Resume" /\ Resumption(x).of = x
      /\ \A x : CallBack(x).task = "call_back" /\ CallBack(x).of = x
  BY DEF Resumption, CallBack
<1>2. "call_back" # "Resume"
  OBVIOUS
<1>3. QED
  BY <1>1, <1>2 DEF Tasks

\* A task that is in no queue is put into one.
LEMMA TaskAdded ==
  ASSUME TypeInv, DistinctTasks, NEW t \in Thread, NEW task \in Tasks, AddTask(t, task),
         \A u \in Thread : ~QueuedAt(u, task)
  PROVE  /\ tasks' \in [Thread -> Seq(Tasks)] /\ DistinctTasks'
         /\ \A u \in Thread : \A k : QueuedAt(u, k)' <=> QueuedAt(u, k) \/ (u = t /\ k = task)
<1>1. tasks \in [Thread -> Seq(Tasks)]
  BY DEF TypeInv
<1>2. /\ tasks'[t] = Append(tasks[t], task)
      /\ \A u \in Thread : u # t => tasks'[u] = tasks[u]
      /\ tasks' \in [Thread -> Seq(Tasks)]
  BY <1>1 DEF AddTask
<1>3. /\ tasks[t] \in Seq(Tasks) /\ Len(tasks[t]) \in Nat
      /\ DOMAIN tasks[t] = 1..Len(tasks[t]) /\ DOMAIN tasks'[t] = 1..(Len(tasks[t]) + 1)
      /\ \A i \in DOMAIN tasks[t] : tasks'[t][i] = tasks[t][i]
      /\ tasks'[t][Len(tasks[t]) + 1] = task
  BY <1>1, <1>2
<1>4. \A u \in Thread : \A i : i \in DOMAIN tasks'[u] <=>
                             i \in DOMAIN tasks[u] \/ (u = t /\ i = Len(tasks[t]) + 1)
  BY <1>2, <1>3
<1>5. \A u \in Thread : \A i \in DOMAIN tasks[u] : tasks'[u][i] = tasks[u][i]
                                                 /\ tasks[u][i] # task
  BY <1>2, <1>3 DEF QueuedAt
<1>6. DistinctTasks'
  <2> SUFFICES ASSUME NEW u \in Thread, NEW v \in Thread,
                      NEW i \in DOMAIN tasks'[u], NEW j \in DOMAIN tasks'[v],
                      tasks'[u][i] = tasks'[v][j]
               PROVE  u = v /\ i = j
    BY DEF DistinctTasks
  <2>1. CASE i \in DOMAIN tasks[u] /\ j \in DOMAIN tasks[v]
    BY <1>5, <2>1 DEF DistinctTasks
  <2>2. CASE i \notin DOMAIN tasks[u] /\ j \in DOMAIN tasks[v]
    BY <1>3, <1>4, <1>5, <2>2
  <2>3. CASE i \in DOMAIN tasks[u] /\ j \notin DOMAIN tasks[v]
    BY <1>3, <1>4, <1>5, <2>3
  <2>4. CASE i \notin DOMAIN tasks[u] /\ j \notin DOMAIN tasks[v]
    BY <1>4, <2>4
  <2>5. QED
    BY <2>1, <2>2, <2>3, <2>4
<1>7. ASSUME NEW u \in Thread, NEW k
      PROVE  QueuedAt(u, k)' <=> QueuedAt(u, k) \/ (u = t /\ k = task)
  <2>1. ASSUME QueuedAt(u, k)' PROVE QueuedAt(u, k) \/ (u = t /\ k = task)
    BY <1>3, <1>4, <1>5, <2>1 DEF QueuedAt
  <2>2. ASSUME QueuedAt(u, k) PROVE QueuedAt(u, k)'
    BY <1>4, <1>5, <2>2 DEF QueuedAt
  <2>3. ASSUME u = t, k = task PROVE QueuedAt(u, k)'
    BY <1>3, <1>4, <2>3 DEF QueuedAt
  <2>4. QED
    BY <2>1, <2>2, <2>3
<1>8. QED
  BY <1>2, <1>6, <1>7

\* The first task of a queue is taken.
LEMMA TaskTaken ==
  ASSUME TypeInv, DistinctTasks, NEW t \in Thread, tasks[t] # <<>>,
         tasks' = [tasks EXCEPT ![t] = Tail(@)]
  PROVE  /\ tasks' \in [Thread -> Seq(Tasks)] /\ DistinctTasks'
         /\ Head(tasks[t]) \in Tasks /\ QueuedAt(t, Head(tasks[t]))
         /\ \A u \in Thread : \A k : QueuedAt(u, k)' <=> QueuedAt(u, k) /\ k # Head(tasks[t])
<1>1. tasks \in [Thread -> Seq(Tasks)]
  BY DEF TypeInv
<1>2. /\ tasks'[t] = Tail(tasks[t])
      /\ \A u \in Thread : u # t => tasks'[u] = tasks[u]
  BY <1>1
<1>3. /\ tasks[t] \in Seq(Tasks) /\ Len(tasks[t]) \in Nat \ {0}
      /\ DOMAIN tasks[t] = 1..Len(tasks[t]) /\ Head(tasks[t]) = tasks[t][1]
      /\ Tail(tasks[t]) \in Seq(Tasks) /\ Head(tasks[t]) \in Tasks
      /\ DOMAIN tasks'[t] = 1..(Len(tasks[t]) - 1)
      /\ \A i \in DOMAIN tasks'[t] : tasks'[t][i] = tasks[t][i + 1]
  BY <1>1, <1>2
<1>4. tasks' \in [Thread -> Seq(Tasks)]
  BY <1>1, <1>3
<1>5. \A u \in Thread : \A i \in DOMAIN tasks'[u] :
        \E j \in DOMAIN tasks[u] : /\ j = IF u = t THEN i + 1 ELSE i
                                   /\ tasks'[u][i] = tasks[u][j]
                                   /\ u = t => j # 1
  BY <1>2, <1>3
<1>6. DistinctTasks'
  <2> SUFFICES ASSUME NEW u \in Thread, NEW v \in Thread,
                      NEW i \in DOMAIN tasks'[u], NEW j \in DOMAIN tasks'[v],
                      tasks'[u][i] = tasks'[v][j]
               PROVE  u = v /\ i = j
    BY DEF DistinctTasks
  <2>1. PICK k \in DOMAIN tasks[u] : /\ k = IF u = t THEN i + 1 ELSE i
                                     /\ tasks'[u][i] = tasks[u][k]
    BY <1>5
  <2>2. PICK l \in DOMAIN tasks[v] : /\ l = IF v = t THEN j + 1 ELSE j
                                     /\ tasks'[v][j] = tasks[v][l]
    BY <1>5
  <2>3. u = v /\ k = l
    BY <2>1, <2>2 DEF DistinctTasks
  <2>4. CASE u = t
    BY <1>3, <2>1, <2>2, <2>3, <2>4
  <2>5. CASE u # t
    BY <2>1, <2>2, <2>3, <2>5
  <2>6. QED
    BY <2>3, <2>4, <2>5
<1>7. 1 \in DOMAIN tasks[t]
  BY <1>3
<1>8. ASSUME NEW u \in Thread, NEW k
      PROVE  QueuedAt(u, k)' <=> QueuedAt(u, k) /\ k # Head(tasks[t])
  <2>1. ASSUME QueuedAt(u, k)' PROVE QueuedAt(u, k) /\ k # Head(tasks[t])
    <3>1. PICK i \in DOMAIN tasks'[u] : tasks'[u][i] = k
      BY <2>1 DEF QueuedAt
    <3>2. PICK j \in DOMAIN tasks[u] : tasks[u][j] = k /\ (u = t => j # 1)
      BY <1>5, <3>1
    <3>3. k # tasks[t][1]
      BY <1>7, <3>2 DEF DistinctTasks
    <3>4. QED
      BY <1>3, <3>2, <3>3 DEF QueuedAt
  <2>2. ASSUME QueuedAt(u, k), k # Head(tasks[t]) PROVE QueuedAt(u, k)'
    <3>1. PICK j \in DOMAIN tasks[u] : tasks[u][j] = k
      BY <2>2 DEF QueuedAt
    <3>2. CASE u = t
      <4>1. j \in 2..Len(tasks[t])
        BY <1>3, <2>2, <3>1, <3>2
      <4>2. j - 1 \in DOMAIN tasks'[t] /\ tasks'[t][j - 1] = tasks[t][(j - 1) + 1]
        BY <1>3, <4>1
      <4>3. (j - 1) + 1 = j
        BY <4>1
      <4>4. QED
        BY <3>1, <3>2, <4>2, <4>3 DEF QueuedAt
    <3>3. CASE u # t
      BY <1>2, <3>1, <3>3 DEF QueuedAt
    <3>4. QED
      BY <3>2, <3>3
  <2>3. QED
    BY <2>1, <2>2
<1>9. QED
  BY <1>3, <1>4, <1>6, <1>7, <1>8 DEF QueuedAt

\* The queues stand as they stood.
LEMMA TasksKept ==
  ASSUME TypeInv, DistinctTasks, tasks' = tasks
  PROVE  /\ tasks' \in [Thread -> Seq(Tasks)] /\ DistinctTasks'
         /\ \A u \in Thread : \A k : QueuedAt(u, k)' <=> QueuedAt(u, k)
  BY DEF TypeInv, DistinctTasks, QueuedAt

USE Constants, TaskNames

-----------------------------------------------------------------------------
(* What Resume and the end of a reference change                           *)

LEMMA ResumedEffects ==
  ASSUME TypeInv, NEW t \in Thread, NEW co \in Coroutine, Resumed(t, co)
  PROVE  /\ current' \in [Thread -> Coroutine \cup {NULL}]
         /\ caller' \in [Caller -> CallerPlaces] /\ pending' \in [SlotOf -> PendingPlaces]
         /\ \A a \in Caller : a # co => caller'[a] = caller[a]
         /\ \A s \in SlotOf : s # co => pending'[s] = pending[s]
         /\ co \in Caller =>
              \/ caller'[co] = caller[co] /\ caller[co] \notin {"accepted", "hook", "waiting"}
              \/ caller[co] = "accepted" /\ caller'[co] = "begin"
              \/ caller[co] = "hook" /\ caller'[co] = "ready"
              \/ caller[co] = "waiting" /\ caller'[co] = "returned"
         /\ co \in SlotOf =>
              \/ pending'[co] = pending[co] /\ pending[co] \notin {"out", "hook"}
              \/ pending[co] = "out" /\ pending'[co] = "calling"
              \/ pending[co] = "hook" /\ pending'[co] = "called"
         /\ \/ wrong' = wrong
            \/ /\ wrong'.who = co /\ UNCHANGED current
               /\ co \in Caller => caller[co] \notin {"accepted", "hook", "waiting"}
<1>0. /\ current \in [Thread -> Coroutine \cup {NULL}]
      /\ caller \in [Caller -> CallerPlaces] /\ pending \in [SlotOf -> PendingPlaces]
  BY DEF TypeInv
<1>1. CASE ~Suspended(co)
  <2>1. wrong' = [what |-> "runs twice", who |-> co] /\ UNCHANGED <<current, caller, pending>>
    BY <1>1 DEF Resumed
  <2>2. co \in Caller => caller[co] \notin {"accepted", "hook", "waiting"}
    BY <1>1 DEF Suspended
  <2>3. co \in SlotOf => pending[co] \notin {"out", "hook"}
    BY <1>1 DEF Suspended
  <2>4. QED
    BY <1>0, <2>1, <2>2, <2>3
<1>2. CASE Suspended(co) /\ co \in Caller
  <2>1. /\ current' = [current EXCEPT ![t] = co] /\ UNCHANGED <<pending, wrong>>
        /\ caller' = [caller EXCEPT ![co] = CASE caller[co] = "accepted" -> "begin"
                                              [] caller[co] = "hook" -> "ready"
                                              [] caller[co] = "waiting" -> "returned"]
        /\ caller[co] \in {"accepted", "hook", "waiting"}
    BY <1>2 DEF Resumed, Suspended, Goto
  <2>2. QED
    BY <1>0, <1>2, <2>1 DEF CallerPlaces
<1>3. CASE Suspended(co) /\ co \in SlotOf
  <2>1. /\ current' = [current EXCEPT ![t] = co] /\ UNCHANGED <<caller, wrong>>
        /\ pending' = [pending EXCEPT ![co] = IF @ = "out" THEN "calling" ELSE "called"]
        /\ pending[co] \in {"out", "hook"}
    BY <1>3 DEF Resumed, Suspended
  <2>2. QED
    BY <1>0, <1>3, <2>1 DEF PendingPlaces
<1>4. QED
  BY <1>1, <1>2, <1>3

\* A channel loses a reference; with the last, its coroutine is given back.
LEMMA ReleasedEffects ==
  ASSUME TypeInv, PendingExclusive, NEW a \in Caller, NEW holder, Released(a, holder),
         holder \in chan[a].refs
  PROVE  /\ chan' \in [Caller -> Channels] /\ taken' \in [SlotOf -> BOOLEAN]
         /\ \A b \in Caller : b # a => chan'[b] = chan[b]
         /\ \A x : x \in chan'[a].refs <=> x \in chan[a].refs /\ x # holder
         /\ chan'[a].m_current_iothread = chan[a].m_current_iothread
         /\ chan'[a].m_is_pre_set = chan[a].m_is_pre_set
         /\ chan'[a].m_is_finished = chan[a].m_is_finished
         /\ chan'[a].m_pending_cor = chan[a].m_pending_cor
         /\ chan'[a].result = chan[a].result /\ chan'[a].closure = chan[a].closure
         /\ \A s \in SlotOf : taken'[s] => taken[s]
         /\ PendingExclusive'
         /\ wrong' = wrong \/ wrong'.what = "null coroutine"
<1>1. /\ chan \in [Caller -> Channels] /\ chan[a] \in Channels /\ taken \in [SlotOf -> BOOLEAN]
      /\ chan[a].m_pending_cor \in SlotOf \cup {NULL}
  <2>1. chan \in [Caller -> Channels] /\ chan[a] \in Channels /\ taken \in [SlotOf -> BOOLEAN]
    BY DEF TypeInv
  <2>2. QED
    BY <2>1 DEF Channels
<1> DEFINE left == chan[a].refs \ {holder}
           r == [chan[a] EXCEPT !.refs = left]
<1>2. chan' = [chan EXCEPT ![a] = r]
  BY DEF Released, Without
<1>3. /\ r \in Channels /\ r.refs = left
      /\ r.m_current_iothread = chan[a].m_current_iothread
      /\ r.m_is_pre_set = chan[a].m_is_pre_set
      /\ r.m_is_finished = chan[a].m_is_finished
      /\ r.m_pending_cor = chan[a].m_pending_cor
      /\ r.result = chan[a].result /\ r.closure = chan[a].closure
  BY <1>1 DEF Channels
<1> HIDE DEF r
<1>4. chan' \in [Caller -> Channels] /\ chan'[a] = r /\ \A b \in Caller : b # a => chan'[b] = chan[b]
  BY <1>1, <1>2, <1>3
<1>5. \/ left # {} /\ UNCHANGED <<taken, wrong>>
      \/ left = {} /\ chan[a].m_pending_cor = NULL /\ UNCHANGED taken /\ wrong'.what = "null coroutine"
      \/ /\ left = {} /\ chan[a].m_pending_cor \in SlotOf /\ UNCHANGED wrong
         /\ taken' = [taken EXCEPT ![chan[a].m_pending_cor] = FALSE]
  <2>1. Without(a, holder) = left
    BY DEF Without
  <2> HIDE DEF left
  <2>2. CASE left # {}
    BY <2>1, <2>2 DEF Released
  <2>3. CASE left = {} /\ chan[a].m_pending_cor = NULL
    <3>1. wrong' = [what |-> "null coroutine", who |-> a] /\ UNCHANGED taken
      BY <2>1, <2>3 DEF Released
    <3>2. QED
      BY <2>3, <3>1
  <2>4. CASE left = {} /\ chan[a].m_pending_cor # NULL
    BY <1>1, <2>1, <2>4 DEF Released
  <2>5. QED
    BY <2>2, <2>3, <2>4
<1>6. taken' \in [SlotOf -> BOOLEAN] /\ \A s \in SlotOf : taken'[s] => taken[s]
  BY <1>1, <1>5
<1>7. PendingExclusive'
  <2> SUFFICES ASSUME NEW b \in Caller, NEW c \in Caller,
                      chan'[b].refs # {}, chan'[b].m_pending_cor # NULL
               PROVE  /\ taken'[chan'[b].m_pending_cor]
                      /\ chan'[c].refs # {} /\ chan'[c].m_pending_cor = chan'[b].m_pending_cor
                           => b = c
    BY DEF PendingExclusive
  <2>1. \A d \in Caller : /\ chan'[d].m_pending_cor = chan[d].m_pending_cor
                          /\ chan'[d].refs # {} => chan[d].refs # {}
    BY <1>3, <1>4
  <2>2. /\ taken[chan[b].m_pending_cor]
        /\ chan[c].refs # {} /\ chan[c].m_pending_cor = chan[b].m_pending_cor => b = c
    BY <2>1 DEF PendingExclusive
  <2>3. CASE taken' = taken
    BY <2>1, <2>2, <2>3
  <2>4. CASE left = {} /\ taken' = [taken EXCEPT ![chan[a].m_pending_cor] = FALSE]
             /\ chan[a].m_pending_cor \in SlotOf
    <3>1. b # a
      BY <1>3, <1>4, <2>4
    <3>2. chan[a].m_pending_cor # chan[b].m_pending_cor
      BY <2>1, <3>1 DEF PendingExclusive
    <3>3. chan[b].m_pending_cor \in SlotOf
      <4>1. chan[b] \in Channels
        BY <1>1
      <4>2. QED
        BY <2>1, <4>1 DEF Channels
    <3>4. QED
      BY <1>1, <2>1, <2>2, <2>4, <3>2, <3>3
  <2>5. QED
    BY <1>5, <2>3, <2>4
<1>8. QED
  BY <1>3, <1>4, <1>5, <1>6, <1>7

-----------------------------------------------------------------------------
(* Every action keeps the invariant                                        *)

\* All but m_need_resume is as it was.
SameChannel(a) ==
  /\ chan'[a].m_current_iothread = chan[a].m_current_iothread
  /\ chan'[a].m_is_pre_set = chan[a].m_is_pre_set
  /\ chan'[a].m_is_finished = chan[a].m_is_finished
  /\ chan'[a].m_pending_cor = chan[a].m_pending_cor
  /\ chan'[a].refs = chan[a].refs
  /\ chan'[a].result = chan[a].result /\ chan'[a].closure = chan[a].closure

SameQueues == \A u \in Thread : \A k : QueuedAt(u, k)' <=> QueuedAt(u, k)

LEMMA PendKept ==
  ASSUME IInv, \A a \in Caller : SameChannel(a), SameQueues, UNCHANGED <<pending, taken>>
  PROVE  PendInv' /\ PendingExclusive'
<1>1. \A a \in Caller : /\ \A s \in SlotOf : Owns(a, s)' <=> Owns(a, s)
                        /\ Unanswered(a)' <=> Unanswered(a)
  BY DEF SameChannel, Owns, Unanswered
<1>2. \A s \in SlotOf : InCoFunc(s)' <=> InCoFunc(s)
  BY DEF InCoFunc
<1>3. PendInv'
  BY <1>1, <1>2 DEF IInv, PendInv, PendOf, SameQueues, SameChannel
<1>4. PendingExclusive'
  BY DEF IInv, PendingExclusive, SameChannel
<1>5. QED
  BY <1>3, <1>4

\* What is so for one coroutine of the pool stays so.
LEMMA PendOfKept ==
  ASSUME IInv, NEW s \in SlotOf, pending'[s] = pending[s], taken'[s] => taken[s],
         \A u \in Thread : QueuedAt(u, Resumption(s))' => QueuedAt(u, Resumption(s)),
         \A a \in Caller : Owns(a, s) => Owns(a, s)' /\ (Unanswered(a) => Unanswered(a)'),
         \A a \in Caller : chan[a].m_pending_cor = s => chan'[a].m_pending_cor = s
  PROVE  PendOf(s)'
<1>1. PendOf(s)
  BY DEF IInv, PendInv
<1>2. InCoFunc(s)' => InCoFunc(s)
  BY DEF InCoFunc
<1>3. \A u \in Thread : QueuedAt(u, Resumption(s))' =>
        pending'[s] = "out" /\ \E a \in Caller : Owns(a, s)' /\ Unanswered(a)'
  BY <1>1 DEF PendOf
<1>4. pending'[s] \in {"calling", "hook", "called"} =>
        \E a \in Caller : Owns(a, s)' /\ Unanswered(a)'
  BY <1>1 DEF PendOf
<1>5. pending'[s] = "posted" => \E a \in Caller : Owns(a, s)'
  BY <1>1 DEF PendOf
<1>6. InCoFunc(s)' \/ taken'[s] => \E a \in Caller : chan'[a].m_pending_cor = s
  BY <1>1, <1>2 DEF PendOf
<1>7. QED
  BY <1>3, <1>4, <1>5, <1>6 DEF PendOf

LEMMA BackKept ==
  ASSUME IInv, \A a \in Caller : SameChannel(a), SameQueues, UNCHANGED back
  PROVE  BackInv'
<1>1. \A a \in Caller, t \in Thread : Answered(t, a)' <=> Answered(t, a)
  BY DEF SameChannel, Answered
<1>2. \A t \in Thread : back[t] # NULL => back[t].of \in Caller
  BY DEF IInv, TypeInv
<1>3. QED
  BY <1>1, <1>2 DEF IInv, BackInv, SameQueues, SameChannel

\* The main thread.
LEMMA MainIInv ==
  ASSUME IInv, wrong = NULL, StartThread \/ AcceptOther \/ \E a \in Caller : Accept(a)
  PROVE  IInv'
<1>0. m_size \in Nat \ {0}
  BY AsyncAssumption
<1>1. CASE StartThread \/ AcceptOther
  <2>1. UNCHANGED <<tasks, current, back, caller, chan, pending, taken, wrong>>
    BY <1>1 DEF StartThread, AcceptOther
  <2>2. started' \in 0..m_size /\ m_index' \in 0..m_size
    BY <1>0, <1>1 DEF StartThread, AcceptOther, GetIOThread, IInv, TypeInv
  <2>3. DistinctTasks' /\ SameQueues
    BY <2>1, TasksKept DEF IInv, SameQueues
  <2>4. \A a \in Caller : SameChannel(a)
    BY <2>1 DEF SameChannel
  <2>5. PendInv' /\ PendingExclusive' /\ BackInv'
    BY <2>1, <2>3, <2>4, PendKept, BackKept
  <2>6. TypeInv' /\ SafeOnOwnThread'
    BY <2>1, <2>2 DEF IInv, TypeInv, SafeOnOwnThread
  <2>7. CallerInv'
    BY <2>1, <2>3 DEF IInv, CallerInv, CallerOf, SameQueues
  <2>8. QED
    BY <2>3, <2>5, <2>6, <2>7 DEF IInv
<1>2. CASE \E a \in Caller : Accept(a)
  <2>1. PICK a \in Caller : Accept(a)
    BY <1>2
  <2>2. /\ caller[a] = "new" /\ m_index' = GetIOThread + 1
        /\ AddTask(GetIOThread, Resumption(a))
        /\ caller' = [caller EXCEPT ![a] = "accepted"]
        /\ UNCHANGED <<started, current, back, chan, pending, taken, wrong>>
    BY <2>1 DEF Accept, Goto
  <2>3. GetIOThread \in Thread /\ m_index' \in 0..m_size
    BY <1>0, <2>2 DEF GetIOThread, Thread, IInv, TypeInv
  <2>4. \A u \in Thread : ~QueuedAt(u, Resumption(a))
    BY <2>2 DEF IInv, CallerInv, CallerOf
  <2>5. /\ tasks' \in [Thread -> Seq(Tasks)] /\ DistinctTasks'
        /\ \A u \in Thread : \A k : QueuedAt(u, k)' <=>
             QueuedAt(u, k) \/ (u = GetIOThread /\ k = Resumption(a))
    BY <2>2, <2>3, <2>4, TaskAdded DEF IInv
  <2>6. /\ caller' \in [Caller -> CallerPlaces] /\ caller'[a] = "accepted"
        /\ \A b \in Caller : b # a => caller'[b] = caller[b]
    BY <2>2 DEF IInv, TypeInv, CallerPlaces
  <2>7. TypeInv' /\ PendingExclusive' /\ SafeOnOwnThread'
    BY <2>2, <2>3, <2>5, <2>6 DEF IInv, TypeInv, PendingExclusive, SafeOnOwnThread
  <2>8. CallerInv'
    BY <2>2, <2>5, <2>6 DEF IInv, CallerInv, CallerOf
  <2>9. PendInv'
    <3>1. \A u \in Thread, s \in SlotOf : QueuedAt(u, Resumption(s))' <=> QueuedAt(u, Resumption(s))
      BY <2>5
    <3>2. QED
      BY <2>2, <3>1 DEF IInv, PendInv, PendOf, InCoFunc, Owns, Unanswered
  <2>10. BackInv'
    <3>1. \A u \in Thread, b \in Caller : QueuedAt(u, CallBack(b))' <=> QueuedAt(u, CallBack(b))
      BY <2>5
    <3>2. QED
      BY <2>2, <3>1 DEF IInv, BackInv, Answered
  <2>11. QED
    BY <2>5, <2>7, <2>8, <2>9, <2>10 DEF IInv
<1>3. QED
  BY <1>1, <1>2

\* A caller moves between its places, and its channel stays as it is, but for
\* m_need_resume.
LEMMA CallerMoves ==
  ASSUME IInv, wrong = NULL, NEW a \in Caller, NEW place \in CallerPlaces,
         caller' = [caller EXCEPT ![a] = place],
         caller[a] \notin {"new", "accepted", "begin", "call"},
         place \notin {"new", "accepted", "begin", "call"},
         place # "done" => caller[a] # "done",
         place = "returned" => chan[a].m_is_finished,
         \A b \in Caller : SameChannel(b),
         \A b \in Caller : b # a => chan'[b] = chan[b],
         UNCHANGED <<tasks, wrong>>
  PROVE  CallerInv' /\ caller' \in [Caller -> CallerPlaces]
<1>1. /\ caller' \in [Caller -> CallerPlaces] /\ caller'[a] = place
      /\ \A b \in Caller : b # a => caller'[b] = caller[b]
  BY DEF IInv, TypeInv
<1>2. SameQueues
  BY TasksKept DEF IInv, SameQueues
<1>3. CallerInv'
  BY <1>1, <1>2 DEF IInv, CallerInv, CallerOf, SameQueues, SameChannel
<1>4. QED
  BY <1>1, <1>3

\* A caller blocks in a hook, waits or yields.
LEMMA CallerIInv ==
  ASSUME IInv, wrong = NULL, NEW t \in Thread, NEW a \in Caller,
         CallerBlocks(t, a) \/ Wait(t, a) \/ TestFinished(t, a) \/ WaitYields(t, a)
  PROVE  IInv'
<1>1. UNCHANGED <<started, m_index, tasks, back, pending, taken, wrong>>
  BY DEF CallerBlocks, Wait, TestFinished, WaitYields, mainVars
<1>2. /\ chan' \in [Caller -> Channels] /\ \A b \in Caller : SameChannel(b)
      /\ \A b \in Caller : b # a => chan'[b] = chan[b]
  <2>1. chan \in [Caller -> Channels] /\ chan[a] \in Channels
    BY DEF IInv, TypeInv
  <2>2. CASE chan' = chan
    BY <2>1, <2>2 DEF SameChannel
  <2>3. CASE chan' = [chan EXCEPT ![a].m_need_resume = TRUE]
    <3> DEFINE r == [chan[a] EXCEPT !.m_need_resume = TRUE]
    <3>1. /\ r \in Channels /\ r.refs = chan[a].refs
          /\ r.m_current_iothread = chan[a].m_current_iothread
          /\ r.m_is_pre_set = chan[a].m_is_pre_set
          /\ r.m_is_finished = chan[a].m_is_finished
          /\ r.m_pending_cor = chan[a].m_pending_cor
          /\ r.result = chan[a].result /\ r.closure = chan[a].closure
      BY <2>1 DEF Channels
    <3>2. chan' = [chan EXCEPT ![a] = r]
      BY <2>1, <2>3
    <3> HIDE DEF r
    <3>3. chan' \in [Caller -> Channels] /\ chan'[a] = r
          /\ \A b \in Caller : b # a => chan'[b] = chan[b]
      BY <2>1, <3>1, <3>2
    <3>4. QED
      BY <3>1, <3>3 DEF SameChannel
  <2>4. QED
    BY <2>2, <2>3 DEF CallerBlocks, Wait, TestFinished, WaitYields
<1>3. CallerInv' /\ caller' \in [Caller -> CallerPlaces]
  <2>1. PICK place \in {"hook", "test", "yield", "returned", "waiting"} :
          /\ caller' = [caller EXCEPT ![a] = place]
          /\ caller[a] \in {"after", "ready", "test", "yield"}
          /\ place = "returned" => chan[a].m_is_finished
    BY DEF CallerBlocks, Wait, TestFinished, WaitYields, Goto, AfterTest
  <2>2. QED
    BY <1>1, <1>2, <2>1, CallerMoves DEF CallerPlaces
<1>4. current' \in [Thread -> Coroutine \cup {NULL}]
  BY DEF CallerBlocks, Wait, TestFinished, WaitYields, IInv, TypeInv
<1>5. DistinctTasks' /\ SameQueues
  BY <1>1, TasksKept DEF IInv, SameQueues
<1>6. PendInv' /\ PendingExclusive' /\ BackInv'
  BY <1>1, <1>2, <1>5, PendKept, BackKept
<1>7. TypeInv' /\ SafeOnOwnThread'
  BY <1>1, <1>2, <1>3, <1>4 DEF IInv, TypeInv, SafeOnOwnThread
<1>8. QED
  BY <1>3, <1>5, <1>6, <1>7 DEF IInv

\* A coroutine is resumed, by a task or when its hook returns.
LEMMA ResumedIInv ==
  ASSUME IInv, wrong = NULL, NEW t \in Thread, NEW co \in Coroutine, Resumed(t, co),
         tasks' \in [Thread -> Seq(Tasks)], DistinctTasks',
         \A u \in Thread : \A k : QueuedAt(u, k)' <=> QueuedAt(u, k) /\ k # Resumption(co),
         \/ \E u \in Thread : QueuedAt(u, Resumption(co))
         \/ co \in Caller => caller[co] = "hook",
         co \in SlotOf => (\E u \in Thread : QueuedAt(u, Resumption(co))) \/ pending[co] = "hook",
         UNCHANGED <<mainVars, back, chan, taken>>
  PROVE  IInv'
<1>1. /\ current' \in [Thread -> Coroutine \cup {NULL}]
      /\ caller' \in [Caller -> CallerPlaces] /\ pending' \in [SlotOf -> PendingPlaces]
      /\ \A a \in Caller : a # co => caller'[a] = caller[a]
      /\ \A s \in SlotOf : s # co => pending'[s] = pending[s]
  BY ResumedEffects DEF IInv
<1>2. TypeInv' /\ PendingExclusive'
  BY <1>1 DEF IInv, TypeInv, PendingExclusive, mainVars
<1>3. SafeOnOwnThread'
  <2>1. co \in Caller => caller[co] \in {"accepted", "hook"}
    BY DEF IInv, CallerInv, CallerOf
  <2>2. wrong' = NULL \/ wrong'.who \notin Caller
    BY <2>1, ResumedEffects DEF IInv
  <2>3. QED
    BY <2>2 DEF SafeOnOwnThread
<1>4. CallerInv'
  <2>1. co \in Caller => \/ caller[co] = "accepted" /\ caller'[co] = "begin"
                         \/ caller[co] = "hook" /\ caller'[co] = "ready"
    BY ResumedEffects DEF IInv, CallerInv, CallerOf
  <2>2. \A a \in Caller, u \in Thread : QueuedAt(u, Resumption(a))' => a # co
    OBVIOUS
  <2>3. QED
    BY <1>1, <2>1, <2>2 DEF IInv, CallerInv, CallerOf
<1>5. PendInv'
  <2>1. \A s \in SlotOf, u \in Thread : QueuedAt(u, Resumption(s))' =>
          s # co /\ QueuedAt(u, Resumption(s))
    OBVIOUS
  <2>2. co \in SlotOf => /\ \/ pending[co] = "out" /\ pending'[co] = "calling"
                            \/ pending[co] = "hook" /\ pending'[co] = "called"
                         /\ \E a \in Caller : Owns(a, co) /\ Unanswered(a)
    BY ResumedEffects DEF IInv, PendInv, PendOf
  <2>3. \A a \in Caller : /\ \A s \in SlotOf : Owns(a, s)' <=> Owns(a, s)
                          /\ Unanswered(a)' <=> Unanswered(a)
    BY DEF Owns, Unanswered
  <2>4. ASSUME NEW s \in SlotOf, s # co
        PROVE  /\ \A u \in Thread : QueuedAt(u, Resumption(s))' =>
                    pending'[s] = "out" /\ \E a \in Caller : Owns(a, s)' /\ Unanswered(a)'
               /\ pending'[s] \in {"calling", "hook", "called"} =>
                    \E a \in Caller : Owns(a, s)' /\ Unanswered(a)'
               /\ pending'[s] = "posted" => \E a \in Caller : Owns(a, s)'
               /\ InCoFunc(s)' \/ taken'[s] => \E a \in Caller : chan'[a].m_pending_cor = s
    BY <1>1, <2>1, <2>3, <2>4 DEF IInv, PendInv, PendOf, InCoFunc
  <2>5. ASSUME co \in SlotOf
        PROVE  /\ pending'[co] \in {"calling", "hook", "called"} =>
                    \E a \in Caller : Owns(a, co)' /\ Unanswered(a)'
               /\ pending'[co] # "posted"
               /\ \E a \in Caller : chan'[a].m_pending_cor = co
    BY <2>2, <2>3, <2>5 DEF Owns
  <2>6. QED
    BY <2>1, <2>4, <2>5 DEF PendInv, PendOf
<1>6. BackInv'
  <2>1. \A u \in Thread, b \in Caller : QueuedAt(u, CallBack(b))' <=> QueuedAt(u, CallBack(b))
    OBVIOUS
  <2>2. QED
    BY <2>1 DEF IInv, BackInv, Answered, mainVars
<1>7. QED
  BY <1>2, <1>3, <1>4, <1>5, <1>6 DEF IInv

LEMMA RunTaskIInv ==
  ASSUME IInv, wrong = NULL, NEW t \in Thread, RunTask(t)
  PROVE  IInv'
<1> DEFINE task == Head(tasks[t])
<1>1. /\ tasks[t] # <<>> /\ tasks' = [tasks EXCEPT ![t] = Tail(@)] /\ back[t] = NULL
      /\ UNCHANGED <<mainVars, chan, taken>>
  BY DEF RunTask, Idle
<1>2. /\ tasks' \in [Thread -> Seq(Tasks)] /\ DistinctTasks'
      /\ task \in Tasks /\ QueuedAt(t, task)
      /\ \A u \in Thread : \A k : QueuedAt(u, k)' <=> QueuedAt(u, k) /\ k # task
  BY <1>1, TaskTaken DEF IInv
<1> HIDE DEF task
<1>3. CASE task.task = "Resume"
  <2>1. PICK co \in Coroutine : task = Resumption(co)
    BY <1>2, <1>3 DEF Tasks
  <2>2. Resumed(t, co) /\ UNCHANGED back
    BY <1>3, <2>1 DEF RunTask, task
  <2>3. QED
    BY <1>1, <1>2, <2>1, <2>2, ResumedIInv
<1>4. CASE task.task # "Resume"
  <2>1. PICK a \in Caller : task = CallBack(a)
    BY <1>2, <1>4 DEF Tasks
  <2>2. /\ back' = [back EXCEPT ![t] = [of |-> a, at |-> "closure"]]
        /\ UNCHANGED <<current, caller, pending, wrong>>
    BY <1>4, <2>1 DEF RunTask, task
  <2>3. /\ back' \in [Thread -> [of : Caller, at : {"closure", "finish", "resume", "reset"}]
                                  \cup {NULL}]
        /\ back'[t].of = a /\ back'[t].at = "closure"
        /\ \A u \in Thread : u # t => back'[u] = back[u]
    BY <2>2 DEF IInv, TypeInv
  <2>4. \A u \in Thread : \A co : QueuedAt(u, Resumption(co))' <=> QueuedAt(u, Resumption(co))
    BY <1>2, <2>1
  <2>5. TypeInv' /\ PendingExclusive' /\ SafeOnOwnThread'
    BY <1>1, <1>2, <2>2, <2>3 DEF IInv, TypeInv, PendingExclusive, SafeOnOwnThread, mainVars
  <2>6. CallerInv'
    BY <1>1, <2>2, <2>4 DEF IInv, CallerInv, CallerOf
  <2>7. PendInv'
    BY <1>1, <2>2, <2>4 DEF IInv, PendInv, PendOf, Owns, Unanswered, InCoFunc
  <2>8. /\ Answered(t, a) /\ chan[a].closure = 0 /\ ~chan[a].m_is_finished
        /\ \A u \in Thread : back[u] # NULL => back[u].of # a
    BY <1>2, <2>1 DEF IInv, BackInv
  <2>9. BackInv'
    <3>1. \A u \in Thread, b \in Caller : QueuedAt(u, CallBack(b))' =>
            QueuedAt(u, CallBack(b)) /\ b # a
      BY <1>2, <2>1
    <3>2. \A u \in Thread, b \in Caller : Answered(u, b)' <=> Answered(u, b)
      BY <1>1 DEF Answered
    <3>3. \A u \in Thread, b \in Caller : QueuedAt(u, CallBack(b))' =>
            /\ Answered(u, b)' /\ chan'[b].closure = 0 /\ ~chan'[b].m_is_finished
            /\ \A v \in Thread : back'[v] # NULL => back'[v].of # b
      BY <1>1, <2>3, <3>1, <3>2 DEF IInv, BackInv
    <3>4. \A u \in Thread : back[u] # NULL => back[u].of \in Caller
      BY DEF IInv, TypeInv
    <3>5. ASSUME NEW u \in Thread, back'[u] # NULL
          PROVE  /\ Answered(u, back[u].of)'
                 /\ back'[u].at = "closure" =>
                      chan'[back'[u].of].closure = 0 /\ ~chan'[back'[u].of].m_is_finished
                 /\ back'[u].at # "closure" => chan'[back'[u].of].closure = 1
                 /\ back'[u].at \in {"resume", "reset"} => chan'[back'[u].of].m_is_finished
      <4>1. CASE u = t
        BY <1>1, <2>3, <2>8, <3>2, <4>1 DEF Answered
      <4>2. CASE u # t
        BY <1>1, <2>3, <3>2, <3>4, <3>5, <4>2 DEF IInv, BackInv
      <4>3. QED
        BY <4>1, <4>2
    <3>6. QED
      BY <3>3, <3>5 DEF BackInv
  <2>10. QED
    BY <1>2, <2>5, <2>6, <2>7, <2>9 DEF IInv
<1>5. QED
  BY <1>3, <1>4

LEMMA HookReturnsIInv ==
  ASSUME IInv, wrong = NULL, NEW t \in Thread, NEW co \in Coroutine, HookReturns(t, co)
  PROVE  IInv'
<1>1. /\ Resumed(t, co) /\ UNCHANGED <<mainVars, tasks, back, chan, taken>>
      /\ co \in Caller => caller[co] = "hook"
      /\ co \in SlotOf => pending[co] = "hook"
  BY DEF HookReturns
<1>2. /\ tasks' \in [Thread -> Seq(Tasks)] /\ DistinctTasks'
      /\ \A u \in Thread : \A k : QueuedAt(u, k)' <=> QueuedAt(u, k)
  BY <1>1, TasksKept DEF IInv
<1>3. \A u \in Thread : ~QueuedAt(u, Resumption(co))
  BY <1>1 DEF IInv, CallerInv, CallerOf, PendInv, PendOf
<1>4. \A u \in Thread : \A k : QueuedAt(u, k)' <=> QueuedAt(u, k) /\ k # Resumption(co)
  BY <1>2, <1>3
<1>5. QED
  BY <1>1, <1>2, <1>4, ResumedIInv

-----------------------------------------------------------------------------
(* The pool                                                                *)

\* A set of naturals that is not empty has a lowest element.
LEMMA LowestOfSet ==
  ASSUME NEW S \in SUBSET Nat, S # {}
  PROVE  \E x \in S : \A y \in S : x <= y
<1>1. PICK x \in S : \A y \in S : ~(<<y, x>> \in OpToRel(<, Nat))
  BY NatLessThanWellFounded, WFMin
<1>2. \A y \in S : <<y, x>> \notin {ss \in Nat \X Nat : ss[1] < ss[2]}
  BY <1>1 DEF OpToRel
<1>3. \A y \in S : x <= y
  <2> SUFFICES ASSUME NEW y \in S PROVE x <= y
    OBVIOUS
  <2>1. x \in Nat /\ y \in Nat
    OBVIOUS
  <2>2. <<y, x>> \in Nat \X Nat => ~(y < x)
    BY <1>2
  <2>3. QED
    BY <2>1, <2>2
<1>4. QED
  BY <1>3

\* There is a coroutine for a call: each one that is taken or in its function has had
\* the call of another caller.
LEMMA UnusedFound ==
  ASSUME IInv, wrong = NULL, NEW a \in Caller, caller[a] = "call"
  PROVE  /\ GetCoroutineInstanse \in SlotOf
         /\ ~InCoFunc(GetCoroutineInstanse) /\ ~taken[GetCoroutineInstanse]
<1>1. IsFiniteSet(Caller) /\ Slot \in Seq(SlotOf) /\ Cardinality(Caller) <= Len(Slot)
  BY AsyncAssumption
<1>2. DOMAIN Slot = 1..Len(Slot) /\ Len(Slot) \in Nat /\ \A i \in 1..Len(Slot) : Slot[i] \in SlotOf
  BY <1>1
<1>3. Unused # {}
  <2> SUFFICES ASSUME Unused = {} PROVE FALSE
    OBVIOUS
  <2> DEFINE Others == Caller \ {a}
             user(i) == CHOOSE b \in Others : chan[b].m_pending_cor = Slot[i]
  <2>1. ASSUME NEW i \in 1..Len(Slot) PROVE \E b \in Others : chan[b].m_pending_cor = Slot[i]
    <3>1. InCoFunc(Slot[i]) \/ taken[Slot[i]]
      BY <1>2 DEF Unused
    <3>2. PICK b \in Caller : chan[b].m_pending_cor = Slot[i]
      BY <1>2, <3>1 DEF IInv, PendInv, PendOf
    <3>3. chan[a].m_pending_cor = NULL
      BY DEF IInv, CallerInv, CallerOf
    <3>4. b # a
      BY <1>2, <3>2, <3>3
    <3>5. QED
      BY <3>2, <3>4
  <2>2. \A i \in 1..Len(Slot) : user(i) \in Others /\ chan[user(i)].m_pending_cor = Slot[i]
    BY <2>1
  <2>3. IsFiniteSet(Others) /\ Cardinality(Others) = Cardinality(Caller) - 1
    BY <1>1, FS_RemoveElement
  <2>4. Cardinality(Caller) \in Nat
    BY <1>1, FS_CardinalityType
  <2>5. IsFiniteSet(1..Len(Slot)) /\ Cardinality(1..Len(Slot)) = Len(Slot)
    BY <1>2, FS_Interval
  <2>6. Cardinality(Others) < Cardinality(1..Len(Slot))
    BY <1>1, <1>2, <2>3, <2>4, <2>5
  <2> DEFINE f == [i \in 1..Len(Slot) |-> user(i)]
  <2>7. f \in [1..Len(Slot) -> Others]
    BY <2>2
  <2>8. \A i \in 1..Len(Slot) : f[i] = user(i)
    OBVIOUS
  <2> HIDE DEF f, user, Others
  <2>9. \E i, j \in 1..Len(Slot) : i # j /\ f[i] = f[j]
    BY <2>3, <2>5, <2>6, <2>7, FS_PigeonHole
  <2>10. PICK i, j \in 1..Len(Slot) : i # j /\ f[i] = f[j]
    BY <2>9
  <2>11. Slot[i] = Slot[j]
    BY <2>2, <2>8, <2>10
  <2>12. QED
    BY <1>2, <2>10, <2>11, AsyncAssumption
<1>4. Unused \in SUBSET Nat
  BY <1>2 DEF Unused
<1>5. PICK first \in Unused : \A j \in Unused : first <= j
  BY <1>3, <1>4, LowestOfSet
<1> DEFINE k == CHOOSE i \in Unused : \A j \in Unused : i <= j
<1>6. k \in Unused
  BY <1>5
<1>7. GetCoroutineInstanse = Slot[k]
  BY DEF GetCoroutineInstanse
<1> HIDE DEF k
<1>8. QED
  BY <1>2, <1>6, <1>7 DEF Unused

-----------------------------------------------------------------------------
(* The caller                                                              *)

LEMMA ConstructIInv ==
  ASSUME IInv, wrong = NULL, NEW t \in Thread, NEW a \in Caller, Construct(t, a)
  PROVE  IInv'
<1>1. /\ caller[a] = "begin" /\ chan[a] = NoChannel
      /\ caller' = [caller EXCEPT ![a] = "call"]
      /\ UNCHANGED <<started, m_index, tasks, current, back, pending, taken, wrong>>
  BY DEF Construct, Goto, mainVars, IInv, CallerInv, CallerOf
<1>2. PICK saved \in BOOLEAN :
        chan' = [chan EXCEPT ![a] = [NoChannel EXCEPT !.m_current_iothread = t,
                                                     !.m_is_pre_set = saved,
                                                     !.refs = {"caller"}]]
  BY DEF Construct
<1> DEFINE r == [NoChannel EXCEPT !.m_current_iothread = t, !.m_is_pre_set = saved,
                                  !.refs = {"caller"}]
<1>3. /\ NoChannel \in Channels /\ ~NoChannel.m_is_finished
      /\ NoChannel.m_pending_cor = NULL /\ NoChannel.refs = {}
      /\ NoChannel.result = "none" /\ NoChannel.closure = 0
  BY DEF NoChannel, Channels
<1>4. /\ r \in Channels /\ r.m_is_finished = NoChannel.m_is_finished
      /\ r.m_pending_cor = NoChannel.m_pending_cor /\ r.refs = {"caller"}
      /\ r.result = NoChannel.result /\ r.closure = NoChannel.closure
      /\ r.m_current_iothread = t
  BY <1>3 DEF Channels
<1>5. /\ chan' \in [Caller -> Channels] /\ chan'[a] = r
      /\ \A b \in Caller : b # a => chan'[b] = chan[b]
  BY <1>2, <1>4 DEF IInv, TypeInv
<1> HIDE DEF r
<1>6. /\ chan'[a].m_current_iothread = t /\ ~chan'[a].m_is_finished
      /\ chan'[a].m_pending_cor = NULL /\ chan'[a].refs = {"caller"}
      /\ chan'[a].result = "none" /\ chan'[a].closure = 0
      /\ chan[a].refs = {} /\ chan[a].m_pending_cor = NULL
  BY <1>1, <1>3, <1>4, <1>5
<1>7. /\ caller' \in [Caller -> CallerPlaces] /\ caller'[a] = "call"
      /\ \A b \in Caller : b # a => caller'[b] = caller[b]
  BY <1>1 DEF IInv, TypeInv, CallerPlaces
<1>8. DistinctTasks' /\ SameQueues
  BY <1>1, TasksKept DEF IInv, SameQueues
<1>9. TypeInv' /\ SafeOnOwnThread'
  BY <1>1, <1>5, <1>7 DEF IInv, TypeInv, SafeOnOwnThread
<1>10. PendingExclusive'
  BY <1>1, <1>5, <1>6 DEF IInv, PendingExclusive
<1>11. CallerInv'
  BY <1>1, <1>5, <1>6, <1>7, <1>8 DEF IInv, CallerInv, CallerOf, SameQueues
<1>12. PendInv'
  <2>1. \A s \in SlotOf : ~Owns(a, s) /\ ~Owns(a, s)' /\ chan[a].m_pending_cor # s
    BY <1>6 DEF Owns
  <2>2. \A b \in Caller : b # a => /\ \A s \in SlotOf : Owns(b, s)' <=> Owns(b, s)
                                   /\ Unanswered(b)' <=> Unanswered(b)
    BY <1>5 DEF Owns, Unanswered
  <2>3. ASSUME NEW s \in SlotOf PROVE PendOf(s)'
    <3>1. \A b \in Caller : Owns(b, s) => Owns(b, s)' /\ (Unanswered(b) => Unanswered(b)')
      BY <2>1, <2>2
    <3>2. \A b \in Caller : chan[b].m_pending_cor = s => chan'[b].m_pending_cor = s
      BY <1>5, <2>1
    <3>3. QED
      BY <1>1, <1>8, <3>1, <3>2, PendOfKept DEF SameQueues
  <2>4. QED
    BY <2>3 DEF PendInv
<1>13. BackInv'
  <2>1. \A u \in Thread : ~Answered(u, a)
    BY <1>6 DEF Answered
  <2>2. \A b \in Caller, u \in Thread : b # a => (Answered(u, b)' <=> Answered(u, b))
    BY <1>5 DEF Answered
  <2>3. \A u \in Thread : back[u] # NULL => back[u].of \in Caller
    BY DEF IInv, TypeInv
  <2>4. QED
    BY <1>1, <1>5, <1>8, <2>1, <2>2, <2>3 DEF IInv, BackInv, SameQueues
<1>14. QED
  BY <1>8, <1>9, <1>10, <1>11, <1>12, <1>13 DEF IInv

LEMMA NotSavedIInv ==
  ASSUME IInv, wrong = NULL, NEW t \in Thread, NEW a \in Caller, NotSaved(t, a)
  PROVE  IInv'
<1>1. /\ caller[a] = "call" /\ ~chan[a].m_is_pre_set
      /\ caller' = [caller EXCEPT ![a] = "after"]
      /\ chan' = [chan EXCEPT ![a].m_is_finished = TRUE, ![a].result = "error"]
      /\ UNCHANGED <<started, m_index, tasks, current, back, pending, taken, wrong>>
  BY DEF NotSaved, Goto, mainVars
<1>2. chan \in [Caller -> Channels] /\ chan[a] \in Channels
  BY DEF IInv, TypeInv
<1> DEFINE r == [chan[a] EXCEPT !.m_is_finished = TRUE, !.result = "error"]
<1>3. /\ r \in Channels /\ r.refs = chan[a].refs /\ r.m_pending_cor = chan[a].m_pending_cor
      /\ r.m_is_finished /\ r.result = "error" /\ ~r.m_is_pre_set
  BY <1>1, <1>2 DEF Channels
<1>4. chan' = [chan EXCEPT ![a] = r]
  BY <1>1, <1>2
<1> HIDE DEF r
<1>5. /\ chan' \in [Caller -> Channels] /\ chan'[a] = r
      /\ \A b \in Caller : b # a => chan'[b] = chan[b]
  BY <1>2, <1>3, <1>4
<1>6. chan[a].refs = {"caller"} /\ chan[a].m_pending_cor = NULL
  BY <1>1 DEF IInv, CallerInv, CallerOf
<1>7. /\ caller' \in [Caller -> CallerPlaces] /\ caller'[a] = "after"
      /\ \A b \in Caller : b # a => caller'[b] = caller[b]
  BY <1>1 DEF IInv, TypeInv, CallerPlaces
<1>8. DistinctTasks' /\ SameQueues
  BY <1>1, TasksKept DEF IInv, SameQueues
<1>9. TypeInv' /\ SafeOnOwnThread'
  BY <1>1, <1>5, <1>7 DEF IInv, TypeInv, SafeOnOwnThread
<1>10. PendingExclusive'
  BY <1>1, <1>3, <1>5, <1>6 DEF IInv, PendingExclusive
<1>11. CallerInv'
  BY <1>1, <1>3, <1>5, <1>6, <1>7, <1>8 DEF IInv, CallerInv, CallerOf, SameQueues
<1>12. PendInv'
  <2>1. \A s \in SlotOf : ~Owns(a, s) /\ ~Owns(a, s)' /\ chan[a].m_pending_cor # s
    BY <1>3, <1>5, <1>6 DEF Owns
  <2>2. \A b \in Caller : b # a => /\ \A s \in SlotOf : Owns(b, s)' <=> Owns(b, s)
                                   /\ Unanswered(b)' <=> Unanswered(b)
    BY <1>5 DEF Owns, Unanswered
  <2>3. ASSUME NEW s \in SlotOf PROVE PendOf(s)'
    <3>1. \A b \in Caller : Owns(b, s) => Owns(b, s)' /\ (Unanswered(b) => Unanswered(b)')
      BY <2>1, <2>2
    <3>2. \A b \in Caller : chan[b].m_pending_cor = s => chan'[b].m_pending_cor = s
      BY <1>5, <2>1
    <3>3. QED
      BY <1>1, <1>8, <3>1, <3>2, PendOfKept DEF SameQueues
  <2>4. QED
    BY <2>3 DEF PendInv
<1>13. BackInv'
  <2>1. \A u \in Thread : ~Answered(u, a)
    BY <1>6 DEF Answered
  <2>2. \A b \in Caller, u \in Thread : b # a => (Answered(u, b)' <=> Answered(u, b))
    BY <1>5 DEF Answered
  <2>3. \A u \in Thread : back[u] # NULL => back[u].of \in Caller
    BY DEF IInv, TypeInv
  <2>4. QED
    BY <1>1, <1>5, <1>8, <2>1, <2>2, <2>3 DEF IInv, BackInv, SameQueues
<1>14. QED
  BY <1>8, <1>9, <1>10, <1>11, <1>12, <1>13 DEF IInv

LEMMA CallMethodIInv ==
  ASSUME IInv, wrong = NULL, NEW t \in Thread, NEW a \in Caller, CallMethod(t, a)
  PROVE  IInv'
<1>0. PICK s : s = GetCoroutineInstanse
  OBVIOUS
<1>1. /\ caller[a] = "call" /\ chan[a].m_is_pre_set
      /\ taken' = [taken EXCEPT ![s] = TRUE]
      /\ chan' = [chan EXCEPT ![a].m_pending_cor = s, ![a].refs = @ \cup {"pending"}]
      /\ UNCHANGED <<started, m_index, current, back, pending>>
  BY <1>0 DEF CallMethod, mainVars
<1>2. s \in SlotOf /\ ~InCoFunc(s) /\ ~taken[s]
  BY <1>0, <1>1, UnusedFound
<1>3. \/ /\ pending[s] = "out" /\ UNCHANGED wrong /\ caller' = [caller EXCEPT ![a] = "after"]
         /\ \E u \in Thread : AddTask(u, Resumption(s))
      \/ UNCHANGED <<tasks, caller>> /\ wrong' # NULL /\ wrong'.who \notin Caller
  <2>1. CASE pending[s] = "out"
    <3>1. /\ \E r \in Thread : AddTask(RandomThread(r, t), Resumption(s))
          /\ Goto(a, "after") /\ UNCHANGED wrong
      BY <1>0, <2>1 DEF CallMethod
    <3>2. QED
      BY <2>1, <3>1 DEF Goto
  <2>2. CASE pending[s] # "out"
    <3>1. wrong' = [what |-> "runs twice", who |-> s] /\ UNCHANGED <<tasks, caller>>
      BY <1>0, <2>2 DEF CallMethod
    <3>2. wrong' \in Wrong
      BY <1>2, <3>1 DEF Wrong
    <3>3. QED
      BY <1>2, <3>1, <3>2
  <2>3. QED
    BY <2>1, <2>2
<1>4. /\ chan \in [Caller -> Channels] /\ chan[a] \in Channels
      /\ taken \in [SlotOf -> BOOLEAN] /\ caller \in [Caller -> CallerPlaces]
  BY DEF IInv, TypeInv
<1> DEFINE r == [chan[a] EXCEPT !.m_pending_cor = s, !.refs = @ \cup {"pending"}]
<1>5. /\ r \in Channels /\ r.refs = chan[a].refs \cup {"pending"} /\ r.m_pending_cor = s
      /\ r.m_is_finished = chan[a].m_is_finished /\ r.m_is_pre_set = chan[a].m_is_pre_set
      /\ r.result = chan[a].result /\ r.closure = chan[a].closure
      /\ r.m_current_iothread = chan[a].m_current_iothread
  BY <1>2, <1>4 DEF Channels
<1>6. chan' = [chan EXCEPT ![a] = r]
  BY <1>1, <1>4
<1> HIDE DEF r
<1>7. /\ chan' \in [Caller -> Channels] /\ chan'[a] = r
      /\ \A b \in Caller : b # a => chan'[b] = chan[b]
  BY <1>4, <1>5, <1>6
<1>8. /\ chan[a].refs = {"caller"} /\ chan[a].m_pending_cor = NULL
      /\ chan[a].closure = 0 /\ chan[a].result = "none" /\ ~chan[a].m_is_finished
      /\ chan[a].m_current_iothread \in Thread
  BY <1>1 DEF IInv, CallerInv, CallerOf
<1>9. /\ caller' \in [Caller -> CallerPlaces] /\ caller'[a] \in {"call", "after"}
      /\ caller'[a] = "call" => wrong' # NULL
      /\ \A b \in Caller : b # a => caller'[b] = caller[b]
  BY <1>1, <1>3, <1>4 DEF CallerPlaces
<1>10. \A b \in Caller : chan[b].m_pending_cor = s => chan[b].refs = {}
  BY <1>2 DEF IInv, PendingExclusive
<1>11. \A u \in Thread : ~QueuedAt(u, Resumption(s))
  <2>1. ASSUME NEW u \in Thread, QueuedAt(u, Resumption(s)) PROVE FALSE
    <3>1. PICK b \in Caller : Owns(b, s)
      BY <1>2, <2>1 DEF IInv, PendInv, PendOf
    <3>2. QED
      BY <1>10, <3>1 DEF Owns
  <2>2. QED
    BY <2>1
<1>12. /\ tasks' \in [Thread -> Seq(Tasks)] /\ DistinctTasks'
       /\ \A u \in Thread : \A k : QueuedAt(u, k)' =>
            QueuedAt(u, k) \/ (k = Resumption(s) /\ pending[s] = "out")
  <2>1. CASE UNCHANGED tasks
    BY <2>1, TasksKept DEF IInv
  <2>2. CASE pending[s] = "out" /\ \E u \in Thread : AddTask(u, Resumption(s))
    BY <1>2, <1>11, <2>2, TaskAdded DEF IInv
  <2>3. QED
    BY <1>3, <2>1, <2>2
<1>13. taken' \in [SlotOf -> BOOLEAN] /\ taken'[s]
       /\ \A x \in SlotOf : x # s => taken'[x] = taken[x]
  BY <1>1, <1>2, <1>4
<1>14. TypeInv'
  BY <1>1, <1>7, <1>9, <1>12, <1>13 DEF IInv, TypeInv
<1>15. SafeOnOwnThread'
  BY <1>3 DEF SafeOnOwnThread
<1>16. PendingExclusive'
  <2>1. \A b \in Caller : b # a /\ chan'[b].refs # {} => chan'[b].m_pending_cor # s
    BY <1>7, <1>10
  <2>2. ASSUME NEW b \in Caller, b # a, chan'[b].refs # {}, chan'[b].m_pending_cor # NULL
        PROVE  /\ taken'[chan'[b].m_pending_cor]
               /\ \A c \in Caller :
                    chan'[c].refs # {} /\ chan'[c].m_pending_cor = chan'[b].m_pending_cor => b = c
    <3>1. chan'[b].m_pending_cor \in SlotOf
      <4>1. chan'[b] \in Channels
        BY <1>7
      <4>2. QED
        BY <2>2, <4>1 DEF Channels
    <3>2. taken[chan[b].m_pending_cor]
      BY <1>7, <2>2 DEF IInv, PendingExclusive
    <3>3. \A c \in Caller : chan[c].refs # {} /\ chan[c].m_pending_cor = chan[b].m_pending_cor => b = c
      BY <1>7, <2>2 DEF IInv, PendingExclusive
    <3>4. QED
      BY <1>5, <1>7, <1>13, <2>1, <2>2, <3>1, <3>2, <3>3
  <2>3. taken'[chan'[a].m_pending_cor]
    BY <1>5, <1>7, <1>13
  <2>4. \A c \in Caller : chan'[c].refs # {} /\ chan'[c].m_pending_cor = chan'[a].m_pending_cor => a = c
    BY <1>5, <1>7, <2>1
  <2>5. QED
    BY <2>2, <2>3, <2>4 DEF PendingExclusive
<1>17. CallerInv'
  <2>1. \A u \in Thread, b \in Caller : QueuedAt(u, Resumption(b))' => QueuedAt(u, Resumption(b))
    BY <1>2, <1>12
  <2>2. ASSUME NEW b \in Caller, b # a
        PROVE  /\ \A u \in Thread : QueuedAt(u, Resumption(b))' => caller'[b] = "accepted"
               /\ caller'[b] = caller[b] /\ chan'[b] = chan[b]
    BY <1>7, <1>9, <2>1, <2>2 DEF IInv, CallerInv, CallerOf
  <2>3. \A u \in Thread : ~QueuedAt(u, Resumption(a))'
    BY <1>1, <2>1 DEF IInv, CallerInv, CallerOf
  <2>4. QED
    BY <1>1, <1>5, <1>7, <1>8, <1>9, <2>2, <2>3 DEF IInv, CallerInv, CallerOf
<1>18. PendInv'
  <2>1. Owns(a, s)' /\ Unanswered(a)'
    <3>1. /\ chan'[a].refs = {"caller", "pending"} /\ chan'[a].m_pending_cor = s
          /\ chan'[a].closure = 0 /\ chan'[a].result = "none" /\ chan'[a].m_is_pre_set
          /\ chan'[a].m_current_iothread \in Thread
      BY <1>1, <1>5, <1>7, <1>8
    <3>2. QED
      BY <3>1 DEF Owns, Unanswered
  <2>2. \A b \in Caller : b # a => /\ \A x \in SlotOf : Owns(b, x)' <=> Owns(b, x)
                                   /\ Unanswered(b)' <=> Unanswered(b)
    BY <1>7 DEF Owns, Unanswered
  <2>3. \A x \in SlotOf : ~Owns(a, x) /\ chan[a].m_pending_cor # x
    BY <1>8 DEF Owns
  <2>4. ASSUME NEW x \in SlotOf, x # s PROVE PendOf(x)'
    <3>1. \A u \in Thread : QueuedAt(u, Resumption(x))' => QueuedAt(u, Resumption(x))
      BY <1>12, <2>4
    <3>2. pending'[x] = pending[x] /\ taken'[x] = taken[x]
      BY <1>1, <1>13, <2>4
    <3>3. \A b \in Caller : chan[b].m_pending_cor = x => chan'[b].m_pending_cor = x
      BY <1>7, <2>3
    <3>4. \A b \in Caller : Owns(b, x) => Owns(b, x)' /\ (Unanswered(b) => Unanswered(b)')
      BY <2>2, <2>3
    <3>5. QED
      BY <3>1, <3>2, <3>3, <3>4, PendOfKept
  <2>5. /\ \A u \in Thread : QueuedAt(u, Resumption(s))' => pending'[s] = "out"
        /\ pending'[s] \notin {"calling", "hook", "called", "posted"}
        /\ chan'[a].m_pending_cor = s
    <3>1. \A u \in Thread : QueuedAt(u, Resumption(s))' => pending[s] = "out"
      BY <1>11, <1>12
    <3>2. pending[s] \notin {"calling", "hook", "called", "posted"}
      BY <1>2 DEF InCoFunc
    <3>3. QED
      BY <1>1, <1>5, <1>7, <3>1, <3>2
  <2>6. PendOf(s)'
    BY <2>1, <2>5 DEF PendOf
  <2>7. QED
    BY <2>4, <2>6 DEF PendInv
<1>19. BackInv'
  <2>1. \A u \in Thread : ~Answered(u, a)
    BY <1>8 DEF Answered
  <2>2. \A b \in Caller, u \in Thread : b # a => (Answered(u, b)' <=> Answered(u, b))
    BY <1>7 DEF Answered
  <2>3. \A u \in Thread : back[u] # NULL => back[u].of \in Caller
    BY DEF IInv, TypeInv
  <2>4. \A u \in Thread, b \in Caller : QueuedAt(u, CallBack(b))' => QueuedAt(u, CallBack(b))
    BY <1>12
  <2>5. QED
    BY <1>1, <1>7, <2>1, <2>2, <2>3, <2>4 DEF IInv, BackInv
<1>20. QED
  BY <1>12, <1>14, <1>15, <1>16, <1>17, <1>18, <1>19 DEF IInv

-----------------------------------------------------------------------------
(* References that end                                                     *)

LEMMA ReleasedKeeps ==
  ASSUME IInv, wrong = NULL, NEW a \in Caller, NEW holder \in {"caller", "pending", "task"},
         Released(a, holder), holder \in chan[a].refs, tasks' = tasks
  PROVE  /\ tasks' \in [Thread -> Seq(Tasks)] /\ DistinctTasks' /\ SameQueues
         /\ chan' \in [Caller -> Channels] /\ taken' \in [SlotOf -> BOOLEAN]
         /\ \A s \in SlotOf : taken'[s] => taken[s]
         /\ \A b \in Caller : /\ chan'[b].m_pending_cor = chan[b].m_pending_cor
                              /\ chan'[b].closure = chan[b].closure
                              /\ chan'[b].m_is_finished = chan[b].m_is_finished
                              /\ Unanswered(b) => Unanswered(b)'
         /\ \A b \in Caller, s \in SlotOf :
              holder # "pending" \/ b # a => (Owns(b, s) => Owns(b, s)')
         /\ \A b \in Caller, u \in Thread :
              holder # "task" \/ b # a => (Answered(u, b) => Answered(u, b)')
         /\ PendingExclusive' /\ SafeOnOwnThread'
         /\ holder # "caller" /\ caller' = caller => CallerInv'
<1>1. /\ chan' \in [Caller -> Channels] /\ taken' \in [SlotOf -> BOOLEAN]
      /\ \A b \in Caller : b # a => chan'[b] = chan[b]
      /\ \A x : x \in chan'[a].refs <=> x \in chan[a].refs /\ x # holder
      /\ chan'[a].m_current_iothread = chan[a].m_current_iothread
      /\ chan'[a].m_is_pre_set = chan[a].m_is_pre_set
      /\ chan'[a].m_is_finished = chan[a].m_is_finished
      /\ chan'[a].m_pending_cor = chan[a].m_pending_cor
      /\ chan'[a].result = chan[a].result /\ chan'[a].closure = chan[a].closure
      /\ \A s \in SlotOf : taken'[s] => taken[s]
      /\ PendingExclusive'
      /\ wrong' = wrong \/ wrong'.what = "null coroutine"
  BY ReleasedEffects DEF IInv
<1>2. tasks' \in [Thread -> Seq(Tasks)] /\ DistinctTasks' /\ SameQueues
  BY TasksKept DEF IInv, SameQueues
<1>3. \A b \in Caller : Unanswered(b) => Unanswered(b)'
  BY <1>1 DEF Unanswered
<1>4. \A b \in Caller, s \in SlotOf :
        holder # "pending" \/ b # a => (Owns(b, s) => Owns(b, s)')
  BY <1>1 DEF Owns
<1>5. \A b \in Caller, u \in Thread :
        holder # "task" \/ b # a => (Answered(u, b) => Answered(u, b)')
  BY <1>1 DEF Answered
<1>6. SafeOnOwnThread'
  <2>1. wrong' = NULL \/ wrong'.what # "runs twice"
    BY <1>1
  <2>2. QED
    BY <2>1 DEF SafeOnOwnThread
<1>7. ASSUME holder # "caller", caller' = caller PROVE CallerInv'
  <2>1. caller[a] \notin {"new", "accepted", "begin", "call"}
    <3>1. NoChannel.refs = {}
      BY DEF NoChannel
    <3>2. QED
      BY <1>7, <3>1 DEF IInv, CallerInv, CallerOf
  <2>2. "caller" \in chan'[a].refs <=> "caller" \in chan[a].refs
    BY <1>1, <1>7
  <2>3. ASSUME NEW b \in Caller, b # a PROVE CallerOf(b)'
    <3>1. CallerOf(b)
      BY DEF IInv, CallerInv
    <3>2. chan'[b] = chan[b]
      BY <1>1, <2>3
    <3>3. \A u \in Thread : QueuedAt(u, Resumption(b))' <=> QueuedAt(u, Resumption(b))
      BY <1>2 DEF SameQueues
    <3>4. QED
      BY <1>7, <3>1, <3>2, <3>3 DEF CallerOf
  <2>4. CallerOf(a)'
    <3>1. CallerOf(a)
      BY DEF IInv, CallerInv
    <3>2. QED
      BY <1>1, <1>2, <1>7, <2>1, <2>2, <3>1 DEF CallerOf, SameQueues
  <2>5. QED
    BY <2>3, <2>4 DEF CallerInv
<1>8. QED
  BY <1>1, <1>2, <1>3, <1>4, <1>5, <1>6, <1>7

LEMMA LeaveIInv ==
  ASSUME IInv, wrong = NULL, NEW t \in Thread, NEW a \in Caller, Leave(t, a)
  PROVE  IInv'
<1>1. /\ caller[a] \in {"after", "ready", "returned"} /\ Released(a, "caller")
      /\ caller' = [caller EXCEPT ![a] = "done"]
      /\ current' = [current EXCEPT ![t] = NULL]
      /\ UNCHANGED <<started, m_index, tasks, back, pending>>
  BY DEF Leave, Goto, mainVars
<1>2. "caller" \in chan[a].refs
  BY <1>1 DEF IInv, CallerInv, CallerOf
<1>3. /\ tasks' \in [Thread -> Seq(Tasks)] /\ DistinctTasks' /\ SameQueues
      /\ chan' \in [Caller -> Channels] /\ taken' \in [SlotOf -> BOOLEAN]
      /\ \A s \in SlotOf : taken'[s] => taken[s]
      /\ \A b \in Caller : /\ chan'[b].m_pending_cor = chan[b].m_pending_cor
                           /\ chan'[b].closure = chan[b].closure
                           /\ chan'[b].m_is_finished = chan[b].m_is_finished
                           /\ Unanswered(b) => Unanswered(b)'
      /\ \A b \in Caller, s \in SlotOf : Owns(b, s) => Owns(b, s)'
      /\ \A b \in Caller, u \in Thread : Answered(u, b) => Answered(u, b)'
      /\ PendingExclusive' /\ SafeOnOwnThread'
  BY <1>1, <1>2, ReleasedKeeps
<1>4. /\ caller' \in [Caller -> CallerPlaces] /\ caller'[a] = "done"
      /\ \A b \in Caller : b # a => caller'[b] = caller[b]
  BY <1>1 DEF IInv, TypeInv, CallerPlaces
<1>5. TypeInv'
  BY <1>1, <1>3, <1>4 DEF IInv, TypeInv
<1>6. CallerInv'
  <2>1. /\ \A b \in Caller : b # a => chan'[b] = chan[b]
        /\ chan'[a].m_is_pre_set = chan[a].m_is_pre_set
        /\ chan'[a].m_is_finished = chan[a].m_is_finished
        /\ chan'[a].result = chan[a].result /\ chan'[a].closure = chan[a].closure
    BY <1>1, <1>2, ReleasedEffects DEF IInv
  <2>2. QED
    BY <1>1, <1>3, <1>4, <2>1 DEF IInv, CallerInv, CallerOf, SameQueues
<1>7. PendInv'
  <2>1. ASSUME NEW s \in SlotOf PROVE PendOf(s)'
    BY <1>1, <1>3, PendOfKept DEF SameQueues
  <2>2. QED
    BY <2>1 DEF PendInv
<1>8. BackInv'
  <2>1. \A u \in Thread : back[u] # NULL => back[u].of \in Caller
    BY DEF IInv, TypeInv
  <2>2. QED
    BY <1>1, <1>3, <2>1 DEF IInv, BackInv, SameQueues
<1>9. QED
  BY <1>3, <1>5, <1>6, <1>7, <1>8 DEF IInv

\* The channel whose call a coroutine makes.
LEMMA CallFound ==
  ASSUME IInv, NEW s \in SlotOf, \E a \in Caller : Owns(a, s)
  PROVE  /\ CallOf(s) \in Caller /\ Owns(CallOf(s), s)
         /\ \A b \in Caller : Owns(b, s) => b = CallOf(s)
<1>1. CallOf(s) = CHOOSE a \in Caller : Owns(a, s)
  BY DEF CallOf, Owns
<1>2. CallOf(s) \in Caller /\ Owns(CallOf(s), s)
  BY <1>1
<1>3. ASSUME NEW b \in Caller, NEW c \in Caller, Owns(b, s), Owns(c, s) PROVE b = c
  BY <1>3 DEF IInv, PendingExclusive, Owns
<1>4. QED
  BY <1>2, <1>3

LEMMA DropPendingIInv ==
  ASSUME IInv, wrong = NULL, NEW t \in Thread, NEW s \in SlotOf, DropPending(t, s)
  PROVE  IInv'
<1>0. PICK a : a = CallOf(s)
  OBVIOUS
<1>1. /\ pending[s] = "posted" /\ Released(a, "pending")
      /\ pending' = [pending EXCEPT ![s] = "leaving"]
      /\ UNCHANGED <<started, m_index, tasks, current, back, caller>>
  BY <1>0 DEF DropPending, mainVars
<1>2. a \in Caller /\ Owns(a, s)
  BY <1>0, <1>1, CallFound DEF IInv, PendInv, PendOf
<1>3. "pending" \in chan[a].refs /\ chan[a].m_pending_cor = s
  BY <1>2 DEF Owns
<1>4. /\ tasks' \in [Thread -> Seq(Tasks)] /\ DistinctTasks' /\ SameQueues
      /\ chan' \in [Caller -> Channels] /\ taken' \in [SlotOf -> BOOLEAN]
      /\ \A x \in SlotOf : taken'[x] => taken[x]
      /\ \A b \in Caller : /\ chan'[b].m_pending_cor = chan[b].m_pending_cor
                           /\ chan'[b].closure = chan[b].closure
                           /\ chan'[b].m_is_finished = chan[b].m_is_finished
                           /\ Unanswered(b) => Unanswered(b)'
      /\ \A b \in Caller, x \in SlotOf : b # a => (Owns(b, x) => Owns(b, x)')
      /\ \A b \in Caller, u \in Thread : Answered(u, b) => Answered(u, b)'
      /\ PendingExclusive' /\ SafeOnOwnThread' /\ CallerInv'
  BY <1>1, <1>2, <1>3, ReleasedKeeps
<1>5. /\ pending' \in [SlotOf -> PendingPlaces] /\ pending'[s] = "leaving"
      /\ \A x \in SlotOf : x # s => pending'[x] = pending[x]
  BY <1>1 DEF IInv, TypeInv, PendingPlaces
<1>6. TypeInv'
  BY <1>1, <1>4, <1>5 DEF IInv, TypeInv
<1>7. PendInv'
  <2>1. ASSUME NEW x \in SlotOf, x # s PROVE PendOf(x)'
    <3>1. ~Owns(a, x)
      BY <1>3, <2>1 DEF Owns
    <3>2. \A b \in Caller : Owns(b, x) => Owns(b, x)' /\ (Unanswered(b) => Unanswered(b)')
      BY <1>4, <3>1
    <3>3. QED
      BY <1>4, <1>5, <2>1, <3>2, PendOfKept DEF SameQueues
  <2>2. PendOf(s)'
    <3>1. \A u \in Thread : ~QueuedAt(u, Resumption(s))'
      BY <1>1, <1>4 DEF IInv, PendInv, PendOf, SameQueues
    <3>2. chan'[a].m_pending_cor = s
      BY <1>2, <1>3, <1>4
    <3>3. QED
      BY <1>2, <1>5, <3>1, <3>2 DEF PendOf
  <2>3. QED
    BY <2>1, <2>2 DEF PendInv
<1>8. BackInv'
  <2>1. \A u \in Thread : back[u] # NULL => back[u].of \in Caller
    BY DEF IInv, TypeInv
  <2>2. QED
    BY <1>1, <1>4, <2>1 DEF IInv, BackInv, SameQueues
<1>9. QED
  BY <1>4, <1>6, <1>7, <1>8 DEF IInv

LEMMA DropTaskIInv ==
  ASSUME IInv, wrong = NULL, NEW t \in Thread, DropTask(t)
  PROVE  IInv'
<1>0. PICK a : a = back[t].of
  OBVIOUS
<1>1. /\ back[t] # NULL /\ Released(a, "task") /\ back' = [back EXCEPT ![t] = NULL]
      /\ UNCHANGED <<started, m_index, tasks, current, caller, pending>>
  BY <1>0 DEF DropTask, In, mainVars
<1>2. a \in Caller /\ Answered(t, a)
  BY <1>0, <1>1 DEF IInv, TypeInv, BackInv
<1>3. "task" \in chan[a].refs /\ chan[a].m_current_iothread = t
  BY <1>2 DEF Answered
<1>4. /\ tasks' \in [Thread -> Seq(Tasks)] /\ DistinctTasks' /\ SameQueues
      /\ chan' \in [Caller -> Channels] /\ taken' \in [SlotOf -> BOOLEAN]
      /\ \A x \in SlotOf : taken'[x] => taken[x]
      /\ \A b \in Caller : /\ chan'[b].m_pending_cor = chan[b].m_pending_cor
                           /\ chan'[b].closure = chan[b].closure
                           /\ chan'[b].m_is_finished = chan[b].m_is_finished
                           /\ Unanswered(b) => Unanswered(b)'
      /\ \A b \in Caller, x \in SlotOf : Owns(b, x) => Owns(b, x)'
      /\ \A b \in Caller, u \in Thread : b # a => (Answered(u, b) => Answered(u, b)')
      /\ PendingExclusive' /\ SafeOnOwnThread' /\ CallerInv'
  BY <1>1, <1>2, <1>3, ReleasedKeeps
<1>5. /\ back'[t] = NULL /\ \A u \in Thread : u # t => back'[u] = back[u]
      /\ back' \in [Thread -> [of : Caller, at : {"closure", "finish", "resume", "reset"}]
                              \cup {NULL}]
  BY <1>1 DEF IInv, TypeInv
<1>6. TypeInv'
  BY <1>1, <1>4, <1>5 DEF IInv, TypeInv
<1>7. PendInv'
  <2>1. ASSUME NEW x \in SlotOf PROVE PendOf(x)'
    BY <1>1, <1>4, PendOfKept DEF SameQueues
  <2>2. QED
    BY <2>1 DEF PendInv
<1>8. BackInv'
  <2>1. \A u \in Thread : ~QueuedAt(u, CallBack(a))'
    <3>1. \A u \in Thread : ~QueuedAt(u, CallBack(a))
      BY <1>0, <1>1, <1>2 DEF IInv, BackInv
    <3>2. QED
      BY <1>4, <3>1 DEF SameQueues
  <2>2. \A u \in Thread : u # t /\ back[u] # NULL => back[u].of # a
    BY <1>3 DEF IInv, BackInv, Answered
  <2>3. \A u \in Thread : back[u] # NULL => back[u].of \in Caller
    BY DEF IInv, TypeInv
  <2>4. \A u \in Thread : back'[u] # NULL => u # t /\ back'[u] = back[u]
    BY <1>5
  <2>5. \A u \in Thread, b \in Caller : QueuedAt(u, CallBack(b))' =>
          /\ Answered(u, b)' /\ chan'[b].closure = 0 /\ ~chan'[b].m_is_finished
          /\ \A v \in Thread : back'[v] # NULL => back'[v].of # b
    <3>1. \A u \in Thread, b \in Caller : QueuedAt(u, CallBack(b))' =>
            QueuedAt(u, CallBack(b)) /\ b # a
      BY <1>4, <2>1 DEF SameQueues
    <3> SUFFICES ASSUME NEW u \in Thread, NEW b \in Caller, QueuedAt(u, CallBack(b))'
                 PROVE  /\ Answered(u, b)' /\ chan'[b].closure = 0 /\ ~chan'[b].m_is_finished
                        /\ \A v \in Thread : back'[v] # NULL => back'[v].of # b
      OBVIOUS
    <3>2. /\ Answered(u, b) /\ chan[b].closure = 0 /\ ~chan[b].m_is_finished /\ b # a
          /\ \A v \in Thread : back[v] # NULL => back[v].of # b
      BY <3>1 DEF IInv, BackInv
    <3>3. QED
      BY <1>4, <2>4, <3>2
  <2>6. ASSUME NEW u \in Thread, back'[u] # NULL
        PROVE  /\ Answered(u, back[u].of)'
               /\ back'[u].at = "closure" =>
                    chan'[back'[u].of].closure = 0 /\ ~chan'[back'[u].of].m_is_finished
               /\ back'[u].at # "closure" => chan'[back'[u].of].closure = 1
               /\ back'[u].at \in {"resume", "reset"} => chan'[back'[u].of].m_is_finished
    <3>1. PICK b \in Caller : b = back[u].of /\ b # a
      BY <2>2, <2>3, <2>4, <2>6
    <3>2. /\ Answered(u, b)'
          /\ back[u].at = "closure" => chan'[b].closure = 0 /\ ~chan'[b].m_is_finished
          /\ back[u].at # "closure" => chan'[b].closure = 1
          /\ back[u].at \in {"resume", "reset"} => chan'[b].m_is_finished
      BY <1>4, <2>4, <2>6, <3>1 DEF IInv, BackInv
    <3>3. back'[u] = back[u]
      BY <2>4, <2>6
    <3>4. Answered(u, back[u].of)'
      BY <3>1, <3>2, <3>3 DEF Answered
    <3>5. QED
      BY <3>1, <3>2, <3>3, <3>4
  <2>7. QED
    BY <2>5, <2>6 DEF BackInv
<1>9. QED
  BY <1>4, <1>6, <1>7, <1>8 DEF IInv

-----------------------------------------------------------------------------
(* The coroutine of the call                                               *)

\* It blocks in a hook, or leaves CoFunction and yields.
LEMMA PendingMovesIInv ==
  ASSUME IInv, wrong = NULL, NEW t \in Thread, NEW s \in SlotOf,
         CallBlocks(t, s) \/ LeaveCoFunc(t, s) \/ LastYield(t, s)
  PROVE  IInv'
<1>1. UNCHANGED <<started, m_index, tasks, back, caller, chan, taken, wrong>>
  BY DEF CallBlocks, LeaveCoFunc, LastYield, mainVars
<1>2. PICK place \in {"hook", "left", "out"} :
        /\ pending' = [pending EXCEPT ![s] = place]
        /\ \/ place = "hook" /\ pending[s] = "calling"
           \/ place = "left" /\ pending[s] = "leaving"
           \/ place = "out" /\ pending[s] = "left"
  BY DEF CallBlocks, LeaveCoFunc, LastYield
<1>3. current' \in [Thread -> Coroutine \cup {NULL}]
  BY DEF CallBlocks, LeaveCoFunc, LastYield, IInv, TypeInv
<1>4. /\ pending' \in [SlotOf -> PendingPlaces] /\ pending'[s] = place
      /\ \A x \in SlotOf : x # s => pending'[x] = pending[x]
  BY <1>2 DEF IInv, TypeInv, PendingPlaces
<1>5. DistinctTasks' /\ SameQueues
  BY <1>1, TasksKept DEF IInv, SameQueues
<1>6. \A b \in Caller : SameChannel(b)
  BY <1>1 DEF SameChannel
<1>7. BackInv'
  BY <1>1, <1>5, <1>6, BackKept
<1>8. TypeInv' /\ PendingExclusive' /\ SafeOnOwnThread'
  BY <1>1, <1>3, <1>4 DEF IInv, TypeInv, PendingExclusive, SafeOnOwnThread
<1>9. CallerInv'
  BY <1>1, <1>5 DEF IInv, CallerInv, CallerOf, SameQueues
<1>10. PendInv'
  <2>1. \A b \in Caller : /\ \A x \in SlotOf : Owns(b, x)' <=> Owns(b, x)
                          /\ Unanswered(b)' <=> Unanswered(b)
    BY <1>1 DEF Owns, Unanswered
  <2>2. ASSUME NEW x \in SlotOf, x # s PROVE PendOf(x)'
    BY <1>1, <1>4, <1>5, <2>1, <2>2, PendOfKept DEF SameQueues
  <2>3. PendOf(s)
    BY DEF IInv, PendInv
  <2>4. \A u \in Thread : ~QueuedAt(u, Resumption(s))'
    BY <1>2, <1>5, <2>3 DEF PendOf, SameQueues
  <2>5. place = "hook" => \E b \in Caller : Owns(b, s)' /\ Unanswered(b)'
    BY <1>2, <2>1, <2>3 DEF PendOf
  <2>6. InCoFunc(s)' \/ taken'[s] => \E b \in Caller : chan'[b].m_pending_cor = s
    <3>1. InCoFunc(s)' => InCoFunc(s)
      BY <1>2, <1>4 DEF InCoFunc
    <3>2. QED
      BY <1>1, <2>3, <3>1 DEF PendOf
  <2>7. PendOf(s)'
    BY <1>4, <2>4, <2>5, <2>6 DEF PendOf
  <2>8. QED
    BY <2>2, <2>7 DEF PendInv
<1>11. QED
  BY <1>5, <1>7, <1>8, <1>9, <1>10 DEF IInv

LEMMA PostBackIInv ==
  ASSUME IInv, wrong = NULL, NEW t \in Thread, NEW s \in SlotOf, PostBack(t, s)
  PROVE  IInv'
<1>0. PICK a : a = CallOf(s)
  OBVIOUS
<1>1. PICK answer \in {"reply", "error"} :
        chan' = [chan EXCEPT ![a].refs = @ \cup {"task"}, ![a].result = answer]
  BY <1>0 DEF PostBack
<1>2. /\ pending[s] = "called" /\ AddTask(chan[a].m_current_iothread, CallBack(a))
      /\ pending' = [pending EXCEPT ![s] = "posted"]
      /\ UNCHANGED <<started, m_index, current, back, caller, taken, wrong>>
  BY <1>0 DEF PostBack, OldThread, mainVars
<1>3. a \in Caller /\ Owns(a, s) /\ Unanswered(a)
  BY <1>0, <1>2, CallFound DEF IInv, PendInv, PendOf
<1>4. /\ "pending" \in chan[a].refs /\ chan[a].m_pending_cor = s
      /\ "task" \notin chan[a].refs /\ chan[a].closure = 0 /\ chan[a].result = "none"
      /\ chan[a].m_is_pre_set /\ chan[a].m_current_iothread \in Thread
  BY <1>3 DEF Owns, Unanswered
<1>5. chan \in [Caller -> Channels] /\ chan[a] \in Channels
  BY <1>3 DEF IInv, TypeInv
<1> DEFINE r == [chan[a] EXCEPT !.refs = @ \cup {"task"}, !.result = answer]
<1>6. /\ r \in Channels /\ r.refs = chan[a].refs \cup {"task"} /\ r.result = answer
      /\ r.m_pending_cor = chan[a].m_pending_cor
      /\ r.m_is_finished = chan[a].m_is_finished /\ r.m_is_pre_set = chan[a].m_is_pre_set
      /\ r.closure = chan[a].closure /\ r.m_current_iothread = chan[a].m_current_iothread
  BY <1>5 DEF Channels
<1>7. chan' = [chan EXCEPT ![a] = r]
  BY <1>1, <1>3, <1>5
<1> HIDE DEF r
<1>8. /\ chan' \in [Caller -> Channels] /\ chan'[a] = r
      /\ \A b \in Caller : b # a => chan'[b] = chan[b]
  BY <1>3, <1>5, <1>6, <1>7
<1>9. \A u \in Thread : ~Answered(u, a) /\ ~QueuedAt(u, CallBack(a))
  BY <1>3, <1>4 DEF Answered, IInv, BackInv
<1>10. /\ tasks' \in [Thread -> Seq(Tasks)] /\ DistinctTasks'
       /\ \A u \in Thread : \A k : QueuedAt(u, k)' <=>
            QueuedAt(u, k) \/ (u = chan[a].m_current_iothread /\ k = CallBack(a))
  BY <1>2, <1>3, <1>4, <1>9, TaskAdded DEF IInv
<1>11. /\ pending' \in [SlotOf -> PendingPlaces] /\ pending'[s] = "posted"
       /\ \A x \in SlotOf : x # s => pending'[x] = pending[x]
  BY <1>2 DEF IInv, TypeInv, PendingPlaces
<1>12. TypeInv' /\ SafeOnOwnThread'
  BY <1>2, <1>8, <1>10, <1>11 DEF IInv, TypeInv, SafeOnOwnThread
<1>13. PendingExclusive'
  <2>1. \A b \in Caller : /\ chan'[b].m_pending_cor = chan[b].m_pending_cor
                          /\ chan'[b].refs # {} => chan[b].refs # {}
    BY <1>4, <1>6, <1>8
  <2>2. QED
    BY <1>2, <2>1 DEF IInv, PendingExclusive
<1>14. \A u \in Thread : \A co : QueuedAt(u, Resumption(co))' <=> QueuedAt(u, Resumption(co))
  BY <1>10
<1>15. ~chan[a].m_is_finished
  BY <1>3, <1>4 DEF IInv, CallerInv, CallerOf
<1>16. CallerInv'
  <2>1. caller[a] \notin {"new", "accepted", "begin", "call"}
    <3>1. NoChannel.refs = {}
      BY DEF NoChannel
    <3>2. "pending" # "caller"
      OBVIOUS
    <3>3. chan[a].refs # {} /\ chan[a].refs # {"caller"}
      BY <1>4, <3>2
    <3>4. QED
      BY <1>3, <3>1, <3>3 DEF IInv, CallerInv, CallerOf
  <2>2. "caller" \in chan'[a].refs <=> "caller" \in chan[a].refs
    BY <1>6, <1>8
  <2>3. ASSUME NEW b \in Caller, b # a PROVE CallerOf(b)'
    BY <1>2, <1>8, <1>14, <2>3 DEF IInv, CallerInv, CallerOf
  <2>4. CallerOf(a)'
    <3>1. CallerOf(a)
      BY <1>3 DEF IInv, CallerInv
    <3>2. chan'[a].m_is_pre_set /\ ~chan'[a].m_is_finished
      BY <1>4, <1>6, <1>8, <1>15
    <3>3. QED
      BY <1>2, <1>14, <1>15, <2>1, <2>2, <3>1, <3>2 DEF CallerOf
  <2>5. QED
    BY <2>3, <2>4 DEF CallerInv
<1>17. PendInv'
  <2>1. \A b \in Caller : b # a => /\ \A x \in SlotOf : Owns(b, x)' <=> Owns(b, x)
                                   /\ Unanswered(b)' <=> Unanswered(b)
    BY <1>8 DEF Owns, Unanswered
  <2>2. \A x \in SlotOf : x # s => ~Owns(a, x)
    BY <1>4 DEF Owns
  <2>3. \A b \in Caller : chan'[b].m_pending_cor = chan[b].m_pending_cor
    BY <1>6, <1>8
  <2>4. ASSUME NEW x \in SlotOf, x # s PROVE PendOf(x)'
    <3>1. \A b \in Caller : Owns(b, x) => Owns(b, x)' /\ (Unanswered(b) => Unanswered(b)')
      BY <2>1, <2>2, <2>4
    <3>2. \A u \in Thread : QueuedAt(u, Resumption(x))' => QueuedAt(u, Resumption(x))
      BY <1>14
    <3>3. pending'[x] = pending[x] /\ taken'[x] = taken[x]
      BY <1>2, <1>11, <2>4
    <3>4. QED
      BY <2>3, <3>1, <3>2, <3>3, PendOfKept
  <2>5. PendOf(s)'
    <3>1. Owns(a, s)'
      BY <1>4, <1>6, <1>8 DEF Owns
    <3>2. \A u \in Thread : ~QueuedAt(u, Resumption(s))'
      BY <1>2, <1>14 DEF IInv, PendInv, PendOf
    <3>3. chan'[a].m_pending_cor = s
      BY <1>4, <1>6, <1>8
    <3>4. QED
      BY <1>3, <1>11, <3>1, <3>2, <3>3 DEF PendOf
  <2>6. QED
    BY <2>4, <2>5 DEF PendInv
<1>18. BackInv'
  <2>1. \A b \in Caller, u \in Thread : b # a => (Answered(u, b)' <=> Answered(u, b))
    BY <1>8 DEF Answered
  <2>2. \A u \in Thread : back[u] # NULL => back[u].of \in Caller /\ back[u].of # a
    BY <1>9 DEF IInv, TypeInv, BackInv
  <2>3. /\ Answered(chan[a].m_current_iothread, a)' /\ chan'[a].closure = 0
        /\ ~chan'[a].m_is_finished
    BY <1>4, <1>6, <1>8, <1>15 DEF Answered
  <2>4. \A u \in Thread : \A b \in Caller : QueuedAt(u, CallBack(b))' =>
          \/ b # a /\ QueuedAt(u, CallBack(b))
          \/ b = a /\ u = chan[a].m_current_iothread
    BY <1>9, <1>10
  <2>5. \A u \in Thread, b \in Caller : QueuedAt(u, CallBack(b))' =>
          /\ Answered(u, b)' /\ chan'[b].closure = 0 /\ ~chan'[b].m_is_finished
          /\ \A v \in Thread : back'[v] # NULL => back'[v].of # b
    <3> SUFFICES ASSUME NEW u \in Thread, NEW b \in Caller, QueuedAt(u, CallBack(b))'
                 PROVE  /\ Answered(u, b)' /\ chan'[b].closure = 0 /\ ~chan'[b].m_is_finished
                        /\ \A v \in Thread : back'[v] # NULL => back'[v].of # b
      OBVIOUS
    <3>1. CASE b # a /\ QueuedAt(u, CallBack(b))
      BY <1>2, <1>8, <2>1, <3>1 DEF IInv, BackInv
    <3>2. CASE b = a /\ u = chan[a].m_current_iothread
      <4>1. Answered(u, b)'
        BY <1>4, <1>6, <1>8, <3>2 DEF Answered
      <4>2. QED
        BY <1>2, <2>2, <2>3, <3>2, <4>1
    <3>3. QED
      BY <2>4, <3>1, <3>2
  <2>6. QED
    BY <1>2, <1>8, <2>1, <2>2, <2>5 DEF IInv, BackInv
<1>19. QED
  BY <1>10, <1>12, <1>13, <1>16, <1>17, <1>18 DEF IInv

-----------------------------------------------------------------------------
(* call_back                                                               *)

\* The channel a call_back works on, when it changes m_is_finished or the closure.
LEMMA BackChanges ==
  ASSUME IInv, wrong = NULL, NEW t \in Thread, RunClosure(t) \/ SetFinished(t)
  PROVE  IInv'
<1>0. PICK a : a = back[t].of
  OBVIOUS
<1>1. /\ back[t] # NULL
      /\ UNCHANGED <<started, m_index, tasks, current, caller, pending, taken, wrong>>
      /\ \/ /\ back[t].at = "closure" /\ chan' = [chan EXCEPT ![a].closure = @ + 1]
            /\ back' = [back EXCEPT ![t].at = "finish"]
         \/ /\ back[t].at = "finish" /\ chan' = [chan EXCEPT ![a].m_is_finished = TRUE]
            /\ back' = [back EXCEPT ![t].at = "resume"]
  BY <1>0 DEF RunClosure, SetFinished, In, mainVars
<1>2. /\ a \in Caller /\ Answered(t, a)
      /\ back[t].at = "closure" => chan[a].closure = 0 /\ ~chan[a].m_is_finished
      /\ back[t].at # "closure" => chan[a].closure = 1
  BY <1>0, <1>1 DEF IInv, TypeInv, BackInv
<1>3. /\ "task" \in chan[a].refs /\ chan[a].m_current_iothread = t /\ chan[a].m_is_pre_set
      /\ chan[a].result # "none"
  BY <1>2 DEF Answered
<1>4. chan \in [Caller -> Channels] /\ chan[a] \in Channels
  BY <1>2 DEF IInv, TypeInv
<1>5. PICK r \in Channels :
        /\ chan' = [chan EXCEPT ![a] = r] /\ r.refs = chan[a].refs
        /\ r.m_current_iothread = chan[a].m_current_iothread
        /\ r.m_is_pre_set = chan[a].m_is_pre_set /\ r.result = chan[a].result
        /\ r.m_pending_cor = chan[a].m_pending_cor /\ r.closure = 1
        /\ r.m_is_finished = (back[t].at = "finish")
  <2>1. CASE back[t].at = "closure"
    <3> DEFINE q == [chan[a] EXCEPT !.closure = @ + 1]
    <3>1. /\ q \in Channels /\ q.refs = chan[a].refs
          /\ q.m_current_iothread = chan[a].m_current_iothread
          /\ q.m_is_pre_set = chan[a].m_is_pre_set /\ q.result = chan[a].result
          /\ q.m_pending_cor = chan[a].m_pending_cor /\ q.closure = 1
          /\ q.m_is_finished = FALSE
      BY <1>2, <1>4, <2>1 DEF Channels
    <3>2. chan' = [chan EXCEPT ![a] = q]
      BY <1>1, <1>4, <2>1
    <3>3. (back[t].at = "finish") = FALSE
      BY <2>1
    <3> HIDE DEF q
    <3>4. QED
      BY <3>1, <3>2, <3>3
  <2>2. CASE back[t].at = "finish"
    <3> DEFINE q == [chan[a] EXCEPT !.m_is_finished = TRUE]
    <3>1. /\ q \in Channels /\ q.refs = chan[a].refs
          /\ q.m_current_iothread = chan[a].m_current_iothread
          /\ q.m_is_pre_set = chan[a].m_is_pre_set /\ q.result = chan[a].result
          /\ q.m_pending_cor = chan[a].m_pending_cor /\ q.closure = 1
          /\ q.m_is_finished = TRUE
      BY <1>2, <1>4, <2>2 DEF Channels
    <3>2. chan' = [chan EXCEPT ![a] = q]
      BY <1>1, <1>4, <2>2
    <3>3. (back[t].at = "finish") = TRUE
      BY <2>2
    <3> HIDE DEF q
    <3>4. QED
      BY <3>1, <3>2, <3>3
  <2>3. QED
    BY <1>1, <2>1, <2>2
<1>6. /\ chan' \in [Caller -> Channels] /\ chan'[a] = r
      /\ \A b \in Caller : b # a => chan'[b] = chan[b]
  BY <1>2, <1>4, <1>5
<1>7. /\ back' \in [Thread -> [of : Caller, at : {"closure", "finish", "resume", "reset"}]
                              \cup {NULL}]
      /\ back'[t].of = a
      /\ back'[t].at = IF back[t].at = "closure" THEN "finish" ELSE "resume"
      /\ \A u \in Thread : u # t => back'[u] = back[u]
  <2>1. back[t] \in [of : Caller, at : {"closure", "finish", "resume", "reset"}]
    BY <1>1 DEF IInv, TypeInv
  <2>2. PICK place \in {"finish", "resume"} :
          /\ back' = [back EXCEPT ![t].at = place]
          /\ place = IF back[t].at = "closure" THEN "finish" ELSE "resume"
    BY <1>1
  <2> DEFINE q == [back[t] EXCEPT !.at = place]
  <2>3. q \in [of : Caller, at : {"closure", "finish", "resume", "reset"}] /\ q.of = a /\ q.at = place
    BY <1>0, <2>1
  <2>4. back' = [back EXCEPT ![t] = q]
    BY <2>2 DEF IInv, TypeInv
  <2>5. back'[t] = q
    BY <2>4 DEF IInv, TypeInv
  <2>6. q.at = IF back[t].at = "closure" THEN "finish" ELSE "resume"
    BY <2>2, <2>3
  <2> HIDE DEF q
  <2>7. QED
    BY <2>3, <2>4, <2>5, <2>6 DEF IInv, TypeInv
<1>8. DistinctTasks' /\ SameQueues
  BY <1>1, TasksKept DEF IInv, SameQueues
<1>9. TypeInv' /\ SafeOnOwnThread'
  BY <1>1, <1>6, <1>7 DEF IInv, TypeInv, SafeOnOwnThread
<1>10. \A b \in Caller : /\ chan'[b].m_pending_cor = chan[b].m_pending_cor
                         /\ chan'[b].refs = chan[b].refs
  BY <1>5, <1>6
<1>11. PendingExclusive'
  BY <1>1, <1>10 DEF IInv, PendingExclusive
<1>12. CallerInv'
  <2>1. caller[a] \notin {"new", "accepted", "begin", "call"}
    <3>1. NoChannel.refs = {}
      BY DEF NoChannel
    <3>2. "task" # "caller"
      OBVIOUS
    <3>3. chan[a].refs # {} /\ chan[a].refs # {"caller"}
      BY <1>3, <3>2
    <3>4. QED
      BY <1>2, <3>1, <3>3 DEF IInv, CallerInv, CallerOf
  <2>2. caller[a] # "returned" \/ chan'[a].m_is_finished
    BY <1>1, <1>2, <1>5, <1>6 DEF IInv, CallerInv, CallerOf
  <2>3. ASSUME NEW b \in Caller, b # a PROVE CallerOf(b)'
    BY <1>1, <1>6, <1>8, <2>3 DEF IInv, CallerInv, CallerOf, SameQueues
  <2>4. CallerOf(a)'
    <3>1. CallerOf(a)
      BY <1>2 DEF IInv, CallerInv
    <3>2. /\ chan'[a].m_is_pre_set /\ chan'[a].closure = 1 /\ chan'[a].result # "none"
          /\ chan'[a].refs = chan[a].refs
      BY <1>3, <1>5, <1>6
    <3>3. QED
      BY <1>1, <1>8, <2>1, <2>2, <3>1, <3>2 DEF CallerOf, SameQueues
  <2>5. QED
    BY <2>3, <2>4 DEF CallerInv
<1>13. PendInv'
  <2>1. \A b \in Caller : /\ \A x \in SlotOf : Owns(b, x)' <=> Owns(b, x)
                          /\ Unanswered(b) => Unanswered(b)'
    <3>1. ~Unanswered(a)
      BY <1>3 DEF Unanswered
    <3>2. QED
      BY <1>6, <1>10, <3>1 DEF Owns, Unanswered
  <2>2. ASSUME NEW x \in SlotOf PROVE PendOf(x)'
    BY <1>1, <1>8, <1>10, <2>1, PendOfKept DEF SameQueues
  <2>3. QED
    BY <2>2 DEF PendInv
<1>14. BackInv'
  <2>1. \A b \in Caller, u \in Thread : Answered(u, b) => Answered(u, b)'
    BY <1>5, <1>6 DEF Answered
  <2>2. \A u \in Thread : u # t /\ back[u] # NULL => back[u].of \in Caller /\ back[u].of # a
    BY <1>3 DEF IInv, TypeInv, BackInv, Answered
  <2>3. \A u \in Thread, b \in Caller : QueuedAt(u, CallBack(b))' =>
          /\ QueuedAt(u, CallBack(b)) /\ b # a
    BY <1>0, <1>1, <1>8 DEF IInv, BackInv, SameQueues
  <2>4. \A u \in Thread, b \in Caller : QueuedAt(u, CallBack(b))' =>
          /\ Answered(u, b)' /\ chan'[b].closure = 0 /\ ~chan'[b].m_is_finished
          /\ \A v \in Thread : back'[v] # NULL => back'[v].of # b
    BY <1>6, <1>7, <2>1, <2>3 DEF IInv, BackInv
  <2>5. ASSUME NEW u \in Thread, back'[u] # NULL
        PROVE  /\ Answered(u, back[u].of)'
               /\ back'[u].at = "closure" =>
                    chan'[back'[u].of].closure = 0 /\ ~chan'[back'[u].of].m_is_finished
               /\ back'[u].at # "closure" => chan'[back'[u].of].closure = 1
               /\ back'[u].at \in {"resume", "reset"} => chan'[back'[u].of].m_is_finished
    <3>1. CASE u = t
      <4>1. Answered(u, back[u].of)'
        BY <1>2, <1>7, <2>1, <3>1 DEF Answered
      <4>2. /\ back'[u].at # "closure" /\ chan'[back'[u].of].closure = 1
            /\ back'[u].at = "resume" => chan'[back'[u].of].m_is_finished
            /\ back'[u].at # "reset"
        BY <1>1, <1>5, <1>6, <1>7, <3>1
      <4>3. QED
        BY <4>1, <4>2
    <3>2. CASE u # t
      <4>1. back'[u] = back[u] /\ back[u] # NULL /\ back[u].of \in Caller /\ back[u].of # a
        BY <1>7, <2>2, <2>5, <3>2
      <4>2. chan'[back[u].of] = chan[back[u].of]
        BY <1>6, <4>1
      <4>3. Answered(u, back[u].of)'
        BY <4>1, <4>2 DEF IInv, BackInv, Answered
      <4>4. QED
        BY <4>1, <4>2, <4>3 DEF IInv, BackInv
    <3>3. QED
      BY <3>1, <3>2
  <2>6. QED
    BY <2>4, <2>5 DEF BackInv
<1>15. QED
  BY <1>8, <1>9, <1>11, <1>12, <1>13, <1>14 DEF IInv

LEMMA ResumeCallerIInv ==
  ASSUME IInv, wrong = NULL, NEW t \in Thread, ResumeCaller(t)
  PROVE  IInv'
<1>0. PICK a : a = back[t].of
  OBVIOUS
<1>1. /\ back[t] # NULL /\ back[t].at = "resume" /\ current[t] = NULL
      /\ back' = [back EXCEPT ![t].at = "reset"]
      /\ UNCHANGED <<started, m_index, tasks, chan, taken>>
      /\ Resumed(t, a) \/ UNCHANGED <<current, caller, pending, wrong>>
  BY <1>0 DEF ResumeCaller, In, mainVars
<1>2. /\ a \in Caller /\ Answered(t, a) /\ chan[a].closure = 1 /\ chan[a].m_is_finished
  BY <1>0, <1>1 DEF IInv, TypeInv, BackInv
<1>3. "task" \in chan[a].refs /\ chan[a].m_current_iothread = t
  BY <1>2 DEF Answered
<1>4. /\ current' \in [Thread -> Coroutine \cup {NULL}]
      /\ caller' \in [Caller -> CallerPlaces] /\ UNCHANGED pending
      /\ \A b \in Caller : b # a => caller'[b] = caller[b]
      /\ \/ caller'[a] = caller[a]
         \/ caller[a] = "accepted" /\ caller'[a] = "begin"
         \/ caller[a] = "hook" /\ caller'[a] = "ready"
         \/ caller[a] = "waiting" /\ caller'[a] = "returned"
      /\ wrong' = NULL \/ (wrong'.who = a /\ UNCHANGED current)
  <2>1. CASE Resumed(t, a)
    <3>1. /\ current' \in [Thread -> Coroutine \cup {NULL}]
          /\ caller' \in [Caller -> CallerPlaces] /\ pending' \in [SlotOf -> PendingPlaces]
          /\ \A b \in Caller : b # a => caller'[b] = caller[b]
          /\ \A s \in SlotOf : s # a => pending'[s] = pending[s]
          /\ \/ caller'[a] = caller[a]
             \/ caller[a] = "accepted" /\ caller'[a] = "begin"
             \/ caller[a] = "hook" /\ caller'[a] = "ready"
             \/ caller[a] = "waiting" /\ caller'[a] = "returned"
          /\ wrong' = NULL \/ (wrong'.who = a /\ UNCHANGED current)
      BY <1>2, <2>1, ResumedEffects DEF IInv
    <3>2. UNCHANGED pending
      BY <1>2, <2>1 DEF Resumed
    <3>3. QED
      BY <3>1, <3>2
  <2>2. CASE UNCHANGED <<current, caller, pending, wrong>>
    BY <2>2 DEF IInv, TypeInv
  <2>3. QED
    BY <1>1, <2>1, <2>2
<1>5. /\ back' \in [Thread -> [of : Caller, at : {"closure", "finish", "resume", "reset"}]
                              \cup {NULL}]
      /\ back'[t].of = a /\ back'[t].at = "reset"
      /\ \A u \in Thread : u # t => back'[u] = back[u]
  <2>1. back[t] \in [of : Caller, at : {"closure", "finish", "resume", "reset"}]
    BY <1>1 DEF IInv, TypeInv
  <2> DEFINE q == [back[t] EXCEPT !.at = "reset"]
  <2>2. q \in [of : Caller, at : {"closure", "finish", "resume", "reset"}] /\ q.of = a
        /\ q.at = "reset"
    BY <1>0, <2>1
  <2>3. back' = [back EXCEPT ![t] = q]
    BY <1>1 DEF IInv, TypeInv
  <2> HIDE DEF q
  <2>4. QED
    BY <2>2, <2>3 DEF IInv, TypeInv
<1>6. DistinctTasks' /\ SameQueues
  BY <1>1, TasksKept DEF IInv, SameQueues
<1>7. \A b \in Caller : SameChannel(b)
  BY <1>1 DEF SameChannel
<1>8. TypeInv'
  BY <1>1, <1>4, <1>5 DEF IInv, TypeInv
<1>9. PendInv' /\ PendingExclusive'
  BY <1>1, <1>4, <1>6, <1>7, PendKept
<1>10. SafeOnOwnThread'
  <2>1. a # NULL
    BY <1>2
  <2>2. wrong' # NULL => wrong'.who = a /\ current'[chan'[a].m_current_iothread] # a
    BY <1>1, <1>3, <1>4, <2>1
  <2>3. QED
    BY <2>2 DEF SafeOnOwnThread
<1>11. CallerInv'
  <2>1. caller[a] \notin {"new", "accepted", "begin", "call"}
    <3>1. NoChannel.refs = {}
      BY DEF NoChannel
    <3>2. "task" # "caller"
      OBVIOUS
    <3>3. chan[a].refs # {} /\ chan[a].refs # {"caller"}
      BY <1>3, <3>2
    <3>4. QED
      BY <1>2, <3>1, <3>3 DEF IInv, CallerInv, CallerOf
  <2>2. QED
    BY <1>1, <1>2, <1>4, <1>6, <2>1 DEF IInv, CallerInv, CallerOf, SameQueues
<1>12. BackInv'
  <2>1. \A b \in Caller, u \in Thread : Answered(u, b)' <=> Answered(u, b)
    BY <1>1 DEF Answered
  <2>2. \A u \in Thread, b \in Caller : QueuedAt(u, CallBack(b))' => QueuedAt(u, CallBack(b))
    BY <1>6 DEF SameQueues
  <2>3. \A u \in Thread : back'[u] # NULL => back[u] # NULL /\ back'[u].of = back[u].of
    BY <1>0, <1>1, <1>5
  <2>4. \A u \in Thread, b \in Caller : QueuedAt(u, CallBack(b))' =>
          /\ Answered(u, b)' /\ chan'[b].closure = 0 /\ ~chan'[b].m_is_finished
          /\ \A v \in Thread : back'[v] # NULL => back'[v].of # b
    BY <1>1, <2>1, <2>2, <2>3 DEF IInv, BackInv
  <2>5. ASSUME NEW u \in Thread, back'[u] # NULL
        PROVE  /\ Answered(u, back[u].of)'
               /\ back'[u].at = "closure" =>
                    chan'[back'[u].of].closure = 0 /\ ~chan'[back'[u].of].m_is_finished
               /\ back'[u].at # "closure" => chan'[back'[u].of].closure = 1
               /\ back'[u].at \in {"resume", "reset"} => chan'[back'[u].of].m_is_finished
    <3>1. CASE u = t
      <4>1. Answered(u, back[u].of)'
        BY <1>1, <1>2, <1>5, <3>1 DEF Answered
      <4>2. QED
        BY <1>1, <1>2, <1>5, <3>1, <4>1
    <3>2. CASE u # t
      <4>1. back'[u] = back[u] /\ back[u] # NULL
        BY <1>5, <2>5, <3>2
      <4>2. Answered(u, back[u].of)'
        BY <1>1, <4>1 DEF IInv, BackInv, Answered
      <4>3. QED
        BY <1>1, <4>1, <4>2 DEF IInv, BackInv
    <3>3. QED
      BY <3>1, <3>2
  <2>6. QED
    BY <2>4, <2>5 DEF BackInv
<1>13. QED
  BY <1>6, <1>8, <1>9, <1>10, <1>11, <1>12 DEF IInv

-----------------------------------------------------------------------------
(* The theorems                                                            *)

LEMMA InitIInv ==
  Init => IInv
<1> SUFFICES ASSUME Init PROVE IInv
  OBVIOUS
<1>1. /\ NoChannel \in Channels /\ ~NoChannel.m_is_finished /\ NoChannel.refs = {}
      /\ NoChannel.m_pending_cor = NULL
  BY DEF NoChannel, Channels
<1>2. m_size \in Nat \ {0}
  BY AsyncAssumption
<1>3. TypeInv
  BY <1>1, <1>2 DEF Init, TypeInv, CallerPlaces, PendingPlaces
<1>4. \A t \in Thread : \A k : ~QueuedAt(t, k)
  BY DEF Init, QueuedAt
<1>5. DistinctTasks
  BY DEF Init, DistinctTasks
<1>6. CallerInv
  BY <1>1, <1>4 DEF Init, CallerInv, CallerOf
<1>7. PendInv
  BY <1>4 DEF Init, PendInv, PendOf, InCoFunc
<1>8. BackInv
  BY <1>4 DEF Init, BackInv
<1>9. PendingExclusive /\ SafeOnOwnThread
  BY <1>1 DEF Init, PendingExclusive, SafeOnOwnThread
<1>10. QED
  BY <1>3, <1>5, <1>6, <1>7, <1>8, <1>9 DEF IInv

LEMMA StutterIInv ==
  IInv /\ UNCHANGED vars => IInv'
<1> SUFFICES ASSUME IInv, UNCHANGED vars PROVE IInv'
  OBVIOUS
<1>1. UNCHANGED <<started, m_index, tasks, current, back, caller, chan, pending, taken, wrong>>
  BY DEF vars, mainVars
<1>2. DistinctTasks' /\ SameQueues /\ \A a \in Caller : SameChannel(a)
  BY <1>1, TasksKept DEF IInv, SameQueues, SameChannel
<1>3. PendInv' /\ PendingExclusive' /\ BackInv'
  BY <1>1, <1>2, PendKept, BackKept
<1>4. TypeInv' /\ SafeOnOwnThread'
  BY <1>1 DEF IInv, TypeInv, SafeOnOwnThread
<1>5. CallerInv'
  BY <1>1, <1>2 DEF IInv, CallerInv, CallerOf, SameQueues
<1>6. QED
  BY <1>2, <1>3, <1>4, <1>5 DEF IInv

LEMMA NextIInv ==
  IInv /\ [Next]_vars => IInv'
<1> SUFFICES ASSUME IInv, [Next]_vars PROVE IInv'
  OBVIOUS
<1>1. CASE wrong = NULL /\ (StartThread \/ AcceptOther \/ \E a \in Caller : Accept(a))
  BY <1>1, MainIInv
<1>2. ASSUME NEW t \in Thread, ThreadStep(t) PROVE IInv'
  <2>1. wrong = NULL
    BY <1>2 DEF ThreadStep
  <2>2. CASE RunTask(t)
    BY <2>1, <2>2, RunTaskIInv
  <2>3. CASE BackStep(t)
    BY <2>1, <2>3, BackChanges, ResumeCallerIInv, DropTaskIInv DEF BackStep
  <2>4. ASSUME NEW a \in Caller, CallerStep(t, a) PROVE IInv'
    BY <2>1, <2>4, ConstructIInv, NotSavedIInv, CallMethodIInv, CallerIInv, LeaveIInv
       DEF CallerStep
  <2>5. ASSUME NEW s \in SlotOf, PendingStep(t, s) PROVE IInv'
    BY <2>1, <2>5, PendingMovesIInv, PostBackIInv, DropPendingIInv DEF PendingStep
  <2>6. QED
    BY <1>2, <2>2, <2>3, <2>4, <2>5 DEF ThreadStep
<1>3. ASSUME NEW co \in Coroutine, Blocked(co) PROVE IInv'
  BY <1>3, HookReturnsIInv DEF Blocked
<1>4. CASE UNCHANGED vars
  BY <1>4, StutterIInv
<1>5. QED
  BY <1>1, <1>2, <1>3, <1>4 DEF Next

\* The invariant: each coroutine of the pool that is to make a call or makes one has
\* its channel, whose call_back is queued or run at most once, on the channel's thread
\* (TinyPbRpcAsyncChannel::CallMethod with its two closures).
THEOREM IInvHolds == Spec => []IInv
<1>1. QED
  BY InitIInv, NextIInv, PTL DEF Spec

\* The state keeps its type, whatever calls are made.
THEOREM SpecTypeOK == Spec => []TypeOK
<1>1. IInv => TypeOK
  BY DEF IInv, TypeInv, TypeOK, Tasks, CallerPlaces, PendingPlaces
<1>2. QED
  BY <1>1, IInvHolds, PTL

\* While a channel lives no other has its coroutine (getCoroutineInstanse and the
\* destructor's returnCoroutine).
THEOREM SpecPendingExclusive == Spec => []PendingExclusive
<1>1. IInv => PendingExclusive
  BY DEF IInv
<1>2. QED
  BY <1>1, IInvHolds, PTL

\* wait() returns only when the result is there and the closure has run once.
THEOREM SpecWaitReturnsComplete == Spec => []WaitReturnsComplete
<1>1. IInv => WaitReturnsComplete
  BY DEF IInv, CallerInv, CallerOf, WaitReturnsComplete
<1>2. QED
  BY <1>1, IInvHolds, PTL

\* The task never resumes a caller that runs on the thread of its channel.
THEOREM SpecSafeOnOwnThread == Spec => []SafeOnOwnThread
<1>1. IInv => SafeOnOwnThread
  BY DEF IInv
<1>2. QED
  BY <1>1, IInvHolds, PTL
=============================================================================
