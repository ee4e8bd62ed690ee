--------------------------- MODULE CoroutineMutex ---------------------------
(***************************************************************************)
(* The mutex for coroutines: lock() puts the coroutine to sleep instead of *)
(* its thread, unlock() hands a sleeper to the reactor to resume.          *)
(* A step is what happens under m_mutex, or one Yield or Resume.           *)
(***************************************************************************)
EXTENDS Sequences, FiniteSets

CONSTANT Coroutine   \* each locks and unlocks once, as one request does

VARIABLES
  m_lock,
  m_sleep_cors,
  tasks,   \* coroutines whose Resume was given to a reactor by addTask
  pc       \* where the coroutine stands

vars == <<m_lock, m_sleep_cors, tasks, pc>>

TypeOK ==
  /\ m_lock \in BOOLEAN
  /\ m_sleep_cors \in Seq(Coroutine)
  /\ tasks \in SUBSET Coroutine
  /\ pc \in [Coroutine -> {"start", "yield", "asleep", "inside", "done"}]

Init ==
  /\ m_lock = FALSE
  /\ m_sleep_cors = <<>>
  /\ tasks = {}
  /\ pc = [c \in Coroutine |-> "start"]

LockTaken(c) ==
  /\ pc[c] = "start" /\ ~m_lock
  /\ m_lock' = TRUE
  /\ pc' = [pc EXCEPT ![c] = "inside"]
  /\ UNCHANGED <<m_sleep_cors, tasks>>

\* The coroutine is in the queue of sleepers before it yields.
LockBusy(c) ==
  /\ pc[c] = "start" /\ m_lock
  /\ m_sleep_cors' = Append(m_sleep_cors, c)
  /\ pc' = [pc EXCEPT ![c] = "yield"]
  /\ UNCHANGED <<m_lock, tasks>>

Yield(c) ==
  /\ pc[c] = "yield"
  /\ pc' = [pc EXCEPT ![c] = "asleep"]
  /\ UNCHANGED <<m_lock, m_sleep_cors, tasks>>

\* A sleeper comes back from lock() without a look at m_lock.  (A Resume on another
\* thread that overtakes the Yield runs the coroutine twice: not modelled.)
Resume(c) ==
  /\ c \in tasks /\ pc[c] = "asleep"
  /\ tasks' = tasks \ {c}
  /\ pc' = [pc EXCEPT ![c] = "inside"]
  /\ UNCHANGED <<m_lock, m_sleep_cors>>

\* unlock() frees the lock, whoever holds it, and wakes the first sleeper; it does
\* nothing when the lock is free already.
Unlock(c) ==
  /\ pc[c] = "inside"
  /\ pc' = [pc EXCEPT ![c] = "done"]
  /\ m_lock' = FALSE
  /\ IF m_lock /\ m_sleep_cors # <<>>
     THEN /\ tasks' = tasks \cup {Head(m_sleep_cors)}
          /\ m_sleep_cors' = Tail(m_sleep_cors)
     ELSE UNCHANGED <<tasks, m_sleep_cors>>

Next ==
  \E c \in Coroutine :
    LockTaken(c) \/ LockBusy(c) \/ Yield(c) \/ Resume(c) \/ Unlock(c)

Spec == Init /\ [][Next]_vars

\* One coroutine at a time between lock() and unlock(): what the service of
\* testcases/test_tinypb_server.cc relies on for its counter.
MutualExclusion ==
  \A c, d \in Coroutine : pc[c] = "inside" /\ pc[d] = "inside" => c = d
=============================================================================
