------------------------------ MODULE TcpServer ------------------------------
(***************************************************************************)
(* The life of the connections of a TcpServer: the accept coroutine of the *)
(* main thread, m_clients and the timer that clears it, the coroutine of   *)
(* each connection on an IO thread up to clearClient, the coroutine pool   *)
(* they take their stacks from and the numbers the kernel gives to fds.    *)
(*                                                                         *)
(* A stack is the number of a coroutine in the pool, or PoolSize + n for   *)
(* the n-th block of the Memory objects added when the pool is used up:    *)
(* both are handed out from the lowest number.  Main's own work (accept    *)
(* coroutine, timer) and each connection's steps interleave freely.  What  *)
(* a coroutine does to an object already destroyed has no effect here.     *)
(***************************************************************************)
EXTENDS Integers, FiniteSets

CONSTANTS
  Conn,      \* the clients that may connect
  Fd,        \* the fds the process may open for them (RLIMIT_NOFILE)
  PoolSize,  \* m_pool_size; coroutine 0 is the accept coroutine's
  NULL       \* nullptr

ASSUME ServerAssumption ==
  /\ IsFiniteSet(Conn)
  /\ PoolSize \in Nat \ {0}
  /\ NULL \notin Conn \cup Fd \cup Nat

VARIABLES
  accept_pc,  \* where MainAcceptCorFunc stands
  acc,        \* the connection it is adding
  backlog,    \* clients the listening socket holds
  open,       \* fds that are open
  fd_of,      \* m_fd
  clients,    \* m_clients; NULL where there is no key or a null pointer
  alive,      \* connections whose TcpConnection exists
  state,      \* m_state
  co_pc,      \* where the connection's coroutine stands
  stack,      \* m_loop_cor
  taken,      \* stacks in use: second of m_free_cors, m_blocks of a Memory
  in_func,    \* pool coroutines whose m_is_in_cofunc is true
  hup         \* clients that closed their end

acceptVars == <<accept_pc, acc>>
kernelVars == <<backlog, hup>>
poolVars   == <<stack, taken, in_func>>
vars == <<acceptVars, kernelVars, open, fd_of, clients, alive, state, co_pc, poolVars>>

Pooled == 0..(PoolSize - 1)
Stack  == 0..(PoolSize + Cardinality(Conn))

TypeOK ==
  /\ accept_pc \in {"accept", "wait", "again", "drop", "new", "post", "failed"}
  /\ acc \in Conn \cup {NULL}
  /\ acc = NULL => accept_pc \notin {"drop", "new", "post"}
  /\ backlog \subseteq Conn /\ hup \subseteq Conn /\ alive \subseteq Conn
  /\ open \subseteq Fd
  /\ fd_of \in [Conn -> Fd \cup {NULL}]
  /\ clients \in [Fd -> Conn \cup {NULL}]
  /\ state \in [Conn -> {"NotConnected", "Connected", "Closed"}]
  /\ co_pc \in [Conn -> {"none", "posted", "loop", "closing", "unregistered",
                         "fd_closed", "cleared", "done"}]
  /\ stack \in [Conn -> Stack \cup {NULL}]
  /\ taken \subseteq Stack
  /\ in_func \subseteq Pooled

\* TcpServer::start has resumed the accept coroutine.
Init ==
  /\ accept_pc = "accept" /\ acc = NULL
  /\ backlog = {} /\ hup = {} /\ alive = {} /\ open = {}
  /\ fd_of = [c \in Conn |-> NULL]
  /\ clients = [f \in Fd |-> NULL]
  /\ state = [c \in Conn |-> "NotConnected"]
  /\ co_pc = [c \in Conn |-> "none"]
  /\ stack = [c \in Conn |-> NULL]
  /\ taken = {0}
  /\ in_func = {0}

-----------------------------------------------------------------------------
(* The clients                                                             *)

Connect(c) ==
  /\ fd_of[c] = NULL /\ c \notin backlog
  /\ backlog' = backlog \cup {c}
  /\ UNCHANGED <<acceptVars, hup, open, fd_of, clients, alive, state, co_pc, poolVars>>

HangUp(c) ==
  /\ c \in backlog \/ fd_of[c] # NULL
  /\ c \notin hup
  /\ hup' = hup \cup {c}
  /\ UNCHANGED <<acceptVars, backlog, open, fd_of, clients, alive, state, co_pc, poolVars>>

-----------------------------------------------------------------------------
(* MainAcceptCorFunc                                                       *)

CanAccept == backlog # {} /\ open # Fd

\* accept returns a new fd.
Accepted ==
  /\ CanAccept
  /\ \E c \in backlog, f \in Fd \ open :
       /\ backlog' = backlog \ {c}
       /\ open' = open \cup {f}
       /\ fd_of' = [fd_of EXCEPT ![c] = f]
       /\ acc' = c
  /\ accept_pc' = "drop"
  /\ UNCHANGED <<hup, clients, alive, state, co_pc, poolVars>>

AcceptAtOnce == accept_pc = "accept" /\ Accepted

\* Nobody is waiting (EAGAIN) or no fd is left (EMFILE): listen and Yield.
AcceptBlocks ==
  /\ accept_pc = "accept" /\ ~CanAccept
  /\ accept_pc' = "wait"
  /\ UNCHANGED <<acc, kernelVars, open, fd_of, clients, alive, state, co_pc, poolVars>>

\* The listening socket is readable: Resume, and delListenEvents.
AcceptWoken ==
  /\ accept_pc = "wait" /\ backlog # {}
  /\ accept_pc' = "again"
  /\ UNCHANGED <<acc, kernelVars, open, fd_of, clients, alive, state, co_pc, poolVars>>

AcceptAgain == accept_pc = "again" /\ Accepted

\* The second accept fails too: toAccept returns -1 and the coroutine Yields,
\* with no event left that would Resume it.
AcceptFails ==
  /\ accept_pc = "again" /\ ~CanAccept
  /\ accept_pc' = "failed"
  /\ UNCHANGED <<acc, kernelVars, open, fd_of, clients, alive, state, co_pc, poolVars>>

-----------------------------------------------------------------------------
(* CoroutinePool                                                           *)

LowestFree(S) == CHOOSE s \in S : \A t \in S : s <= t

\* The mutant looks at the flag of the pair alone.
FirstFreeOfPair == LowestFree(Stack \ taken)

\* The first pool coroutine that is neither taken nor in its CoFunction, else the
\* first free block, in a new Memory if there is none.
GetCoroutineInstanse == LowestFree(Stack \ (taken \cup in_func))

\* The mutant forgets the blocks of the Memory objects.
ReturnPooled(s) == taken' = IF s \in Pooled THEN taken \ {s} ELSE taken

\* backBlock, in the Memory that has the block.
BackBlock(s) == taken \ {s}

ReturnCoroutine(s) == taken' = IF s \in Pooled THEN taken \ {s} ELSE BackBlock(s)

\* The last shared_ptr of connection c goes: ~TcpConnection.
Destroy(c) ==
  /\ alive' = alive \ {c}
  /\ ReturnCoroutine(stack[c])

-----------------------------------------------------------------------------
(* addClient, and the timer                                                *)

\* m_clients.find(fd): a connection that had the same fd is reset.
DropOld ==
  LET old == clients[fd_of[acc]] IN
  /\ accept_pc = "drop"
  /\ \/ old # NULL /\ Destroy(old)
     \/ old = NULL /\ UNCHANGED <<alive, taken>>
  /\ clients' = [clients EXCEPT ![fd_of[acc]] = NULL]
  /\ accept_pc' = "new"
  /\ UNCHANGED <<acc, kernelVars, open, fd_of, state, co_pc, stack, in_func>>

\* make_shared<TcpConnection>, with a coroutine from the pool.
NewConnection ==
  /\ accept_pc = "new"
  /\ stack' = [stack EXCEPT ![acc] = GetCoroutineInstanse]
  /\ taken' = taken \cup {GetCoroutineInstanse}
  /\ alive' = alive \cup {acc}
  /\ state' = [state EXCEPT ![acc] = "Connected"]
  /\ clients' = [clients EXCEPT ![fd_of[acc]] = acc]
  /\ accept_pc' = "post"
  /\ UNCHANGED <<acc, kernelVars, open, fd_of, co_pc, in_func>>

\* initServer, and addCoroutine of an IO thread's reactor.
PostConnection ==
  /\ accept_pc = "post"
  /\ co_pc' = [co_pc EXCEPT ![acc] = "posted"]
  /\ accept_pc' = "accept"
  /\ acc' = NULL
  /\ UNCHANGED <<kernelVars, open, fd_of, clients, alive, state, poolVars>>

\* ClearClientTimerFunc looks at m_clients[f].  It runs in the main coroutine,
\* so only while the accept coroutine is suspended.
ClearClientTimerFunc(f) ==
  /\ accept_pc \in {"wait", "failed"}
  /\ clients[f] # NULL /\ state[clients[f]] = "Closed"
  /\ Destroy(clients[f])
  /\ clients' = [clients EXCEPT ![f] = NULL]
  /\ UNCHANGED <<acceptVars, kernelVars, open, fd_of, state, co_pc, stack, in_func>>

-----------------------------------------------------------------------------
(* The coroutine of a connection                                           *)

\* Resume of the fresh coroutine: CoFunction, MainServerLoopCorFunc.
StartServing(c) ==
  /\ co_pc[c] = "posted"
  /\ co_pc' = [co_pc EXCEPT ![c] = "loop"]
  /\ in_func' = in_func \cup ({stack[c]} \cap Pooled)
  /\ UNCHANGED <<acceptVars, kernelVars, open, fd_of, clients, alive, state, stack, taken>>

\* input reads 0 bytes and calls clearClient, which finds the state not Closed.
PeerClosed(c) ==
  /\ co_pc[c] = "loop" /\ c \in hup /\ state[c] # "Closed"
  /\ co_pc' = [co_pc EXCEPT ![c] = "closing"]
  /\ UNCHANGED <<acceptVars, kernelVars, open, fd_of, clients, alive, state, poolVars>>

\* The states clearClient leaves behind at its three steps; the mutants set Closed
\* before the fd is closed, and never.
SetStateFirst(c, pc) ==
  state' = [state EXCEPT ![c] = IF pc = "unregistered" /\ c \in alive THEN "Closed" ELSE @]

SetStateNever(c, pc) == UNCHANGED state

SetState(c, pc) ==
  state' = [state EXCEPT ![c] = IF pc = "cleared" /\ c \in alive THEN "Closed" ELSE @]

\* clearClient: unregisterFromReactor; close(fd); setState(Closed).
ClearClientStep(c, from, to) ==
  /\ co_pc[c] = from
  /\ co_pc' = [co_pc EXCEPT ![c] = to]
  /\ SetState(c, to)
  /\ open' = IF to = "fd_closed" THEN open \ {fd_of[c]} ELSE open
  /\ UNCHANGED <<acceptVars, kernelVars, fd_of, clients, alive, poolVars>>

ClearClient(c) ==
  \/ ClearClientStep(c, "closing", "unregistered")
  \/ ClearClientStep(c, "unregistered", "fd_closed")
  \/ ClearClientStep(c, "fd_closed", "cleared")

\* setCanResume(false) and the last Yield.
LastYield(c) ==
  /\ co_pc[c] = "cleared"
  /\ co_pc' = [co_pc EXCEPT ![c] = "done"]
  /\ UNCHANGED <<acceptVars, kernelVars, open, fd_of, clients, alive, state, poolVars>>

-----------------------------------------------------------------------------

MainStep ==
  \/ AcceptAtOnce \/ AcceptBlocks \/ AcceptWoken \/ AcceptAgain \/ AcceptFails
  \/ DropOld \/ NewConnection \/ PostConnection

ConnStep(c) == StartServing(c) \/ PeerClosed(c) \/ ClearClient(c) \/ LastYield(c)

Next ==
  \/ MainStep
  \/ \E f \in Fd : ClearClientTimerFunc(f)
  \/ \E c \in Conn : ConnStep(c) \/ Connect(c) \/ HangUp(c)

Spec == Init /\ [][Next]_vars

\* The main thread and the IO threads keep running, and the timer that clears
\* m_clients is repeated.
Fairness ==
  /\ WF_vars(MainStep)
  /\ \A f \in Fd : WF_vars(ClearClientTimerFunc(f))
  /\ \A c \in Conn : WF_vars(ConnStep(c))

FairSpec == Spec /\ Fairness

-----------------------------------------------------------------------------
(* Properties                                                              *)

Finished == {"none", "done"}

\* A connection stays in m_clients, and exists, until it has closed its fd:
\* neither the timer nor a new connection with the same fd number takes it away
\* from its coroutine before that.
KeptWhileOpen ==
  \A c \in Conn : co_pc[c] \in {"posted", "loop", "closing", "unregistered"} =>
    /\ c \in alive
    /\ clients[fd_of[c]] = c

\* A pool coroutine has one user: returnCoroutine frees the flag of a coroutine
\* that is still in its CoFunction, and getCoroutineInstanse must not hand out
\* its stack again.
PooledExclusive ==
  \A c, d \in Conn :
    /\ c # d /\ co_pc[c] \notin Finished /\ co_pc[d] \notin Finished
    /\ stack[c] \in Pooled
    => stack[c] # stack[d]

\* Every stack in use belongs to a connection that exists: nothing the server
\* takes from the pool or from a Memory is lost when connections come and go.
NoStackLost ==
  taken \ {0} = {stack[c] : c \in alive}

\* A connection whose peer has closed is destroyed in the end, by the timer or by
\* the next connection on its fd.
EventuallyDestroyed ==
  \A c \in Conn : (co_pc[c] # "none" /\ c \in hup) ~> c \notin alive
=============================================================================
