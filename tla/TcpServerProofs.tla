-------------------------- MODULE TcpServerProofs --------------------------
(***************************************************************************)
(* Proofs about TcpServer, for every number of clients and fds and every   *)
(* size of the pool: a connection is kept until it has closed its fd, a    *)
(* pool coroutine has one user, and no stack is lost.                      *)
(***************************************************************************)
EXTENDS TcpServer, FiniteSetTheorems, WellFoundedInduction, TLAPS

\* The coroutine of c has its fd open.
Holds(c) == co_pc[c] \in {"posted", "loop", "closing", "unregistered"}

\* c or its coroutine still uses its stack.
Using(c) == c \in alive \/ co_pc[c] \notin Finished

\* The connection that is being added has its fd, but no coroutine that runs; it
\* exists, and is in m_clients, from NewConnection on.
AccInv ==
  /\ acc = NULL <=> accept_pc \notin {"drop", "new", "post"}
  /\ acc # NULL => fd_of[acc] \in open /\ co_pc[acc] = "none"
  /\ accept_pc \in {"drop", "new"} => acc \notin alive
  /\ accept_pc = "new" => clients[fd_of[acc]] = NULL
  /\ accept_pc = "post" => acc \in alive

\* Who has been accepted has an fd, and those that have not closed theirs have
\* different ones.
FdInv ==
  /\ \A c \in backlog : fd_of[c] = NULL
  /\ \A c \in Conn : fd_of[c] = NULL => co_pc[c] = "none"
  /\ \A c \in Conn : fd_of[c] # NULL /\ co_pc[c] = "none" => c = acc
  /\ \A c \in Conn : Holds(c) => fd_of[c] \in open
  /\ \A c, d \in Conn :
       c # d /\ (Holds(c) \/ c = acc) /\ (Holds(d) \/ d = acc) => fd_of[c] # fd_of[d]

\* m_clients has exactly the connections that exist, each under its fd; one whose fd
\* is open exists, one that is Closed has closed it.
TableInv ==
  /\ \A c \in alive : fd_of[c] # NULL /\ clients[fd_of[c]] = c
  /\ \A f \in Fd : clients[f] # NULL => clients[f] \in alive /\ fd_of[clients[f]] = f
  /\ \A c \in Conn : Holds(c) => c \in alive
  /\ \A c \in Conn : state[c] = "Closed" => co_pc[c] \in {"cleared", "done"}

\* The stacks in use are those of the connections that exist, one each; a pool
\* coroutine that outlives its connection is still in its CoFunction.
StackInv ==
  /\ \A c \in Conn : c \in alive \/ co_pc[c] # "none" => stack[c] \in Stack \ {0}
  /\ taken = {0} \cup {stack[c] : c \in alive}
  /\ \A c, d \in alive : stack[c] = stack[d] => c = d
  /\ \A c \in Conn : ~Holds(c) /\ co_pc[c] \notin Finished /\ stack[c] \in Pooled
       => stack[c] \in in_func
  /\ \A c \in Conn : Holds(c) /\ co_pc[c] # "posted" /\ stack[c] \in Pooled
       => stack[c] \in in_func
  /\ \A c, d \in Conn :
       c # d /\ Using(c) /\ Using(d) /\ stack[c] \in Pooled => stack[c] # stack[d]

IInv == TypeOK /\ AccInv /\ FdInv /\ TableInv /\ StackInv

-----------------------------------------------------------------------------
(* The pool                                                                *)

\* A set of naturals that is not empty has a lowest element.
LEMMA LowestFreeOfSet ==
  ASSUME NEW S \in SUBSET Nat, S # {}
  PROVE  LowestFree(S) \in S
<1>1. PICK x \in S : \A y \in S : ~(<<y, x>> \in OpToRel(<, Nat))
  BY NatLessThanWellFounded, WFMin
<1>2. \A y \in S : <<y, x>> \notin {ss \in Nat \X Nat : ss[1] < ss[2]}
  BY <1>1 DEF OpToRel
<1>3. \A y \in S : x <= y
  <2> SUFFICES ASSUME NEW y \in S PROVE x <= y
    OBVIOUS
  <2>1. x \in Nat /\ y \in Nat
    OBVIOUS
  <2>2. <<y, x>> \in Nat \X Nat => ~(y < x)
    BY <1>2
  <2>3. QED
    BY <2>1, <2>2
<1>4. QED
  BY <1>3 DEF LowestFree

\* There is always a stack for one more connection: the blocks of the Memory objects
\* are more than the connections.
LEMMA PoolNotExhausted ==
  ASSUME IInv
  PROVE  GetCoroutineInstanse \in Stack \ (taken \cup in_func)
<1> DEFINE n == Cardinality(Conn)
           Blocks == PoolSize..(PoolSize + n)
           Owner == [s \in Blocks |-> CHOOSE c \in alive : stack[c] = s]
<1>1. n \in Nat /\ PoolSize \in Nat /\ PoolSize # 0
  BY ServerAssumption, FS_CardinalityType
<1>2. Blocks \subseteq Stack /\ Stack \subseteq Nat /\ Blocks \cap Pooled = {} /\ 0 \notin Blocks
  BY <1>1 DEF Stack, Pooled
<1>3. Stack \ (taken \cup in_func) # {}
  <2> SUFFICES ASSUME Stack \subseteq taken \cup in_func PROVE FALSE
    OBVIOUS
  <2>1. \A s \in Blocks : \E c \in alive : stack[c] = s
    BY <1>2 DEF IInv, TypeOK, StackInv
  <2>2. Owner \in [Blocks -> Conn]
    BY <2>1 DEF IInv, TypeOK
  <2>3. \A s \in Blocks : stack[Owner[s]] = s
    BY <2>1
  <2>4. IsFiniteSet(Blocks) /\ Cardinality(Blocks) = n + 1
    BY <1>1, FS_Interval
  <2>5. \E x, y \in Blocks : x # y /\ Owner[x] = Owner[y]
    <3> HIDE DEF Owner, Blocks
    <3>1. Cardinality(Conn) < Cardinality(Blocks)
      BY <2>4, <1>1
    <3>2. QED
      BY <2>2, <2>4, <3>1, FS_PigeonHole, ServerAssumption
  <2>6. QED
    BY <2>3, <2>5
<1>4. QED
  BY <1>2, <1>3, LowestFreeOfSet DEF GetCoroutineInstanse

-----------------------------------------------------------------------------
(* The invariant is inductive                                              *)

USE DEF acceptVars, kernelVars, poolVars, Finished, Holds, Using

\* A server that has started satisfies the invariant.
LEMMA InitIInv == Init => IInv
<1> SUFFICES ASSUME Init PROVE IInv
  OBVIOUS
<1>1. Cardinality(Conn) \in Nat /\ PoolSize \in Nat /\ PoolSize # 0
  BY ServerAssumption, FS_CardinalityType
<1>2. 0 \in Stack /\ 0 \in Pooled
  BY <1>1 DEF Stack, Pooled
<1>3. TypeOK
  BY <1>2 DEF Init, TypeOK
<1>4. AccInv /\ FdInv /\ TableInv /\ StackInv
  BY ServerAssumption DEF Init, AccInv, FdInv, TableInv, StackInv
<1>5. QED
  BY <1>3, <1>4 DEF IInv

\* A new fd: it is nobody else's.
LEMMA AcceptedIInv ==
  ASSUME IInv, Accepted, accept_pc \in {"accept", "again"}
  PROVE  IInv'
<1>1. PICK c \in backlog, f \in Fd \ open :
        /\ backlog' = backlog \ {c}
        /\ open' = open \cup {f}
        /\ fd_of' = [fd_of EXCEPT ![c] = f]
        /\ acc' = c
        /\ accept_pc' = "drop"
        /\ UNCHANGED <<hup, clients, alive, state, co_pc, poolVars>>
  BY DEF Accepted
<1>2. c \in Conn /\ fd_of[c] = NULL /\ co_pc[c] = "none" /\ c \notin alive /\ acc = NULL /\ c # NULL
  BY <1>1, ServerAssumption DEF IInv, TypeOK, AccInv, FdInv, TableInv
<1>3. f # NULL
  BY ServerAssumption
<1>4. TypeOK'
  BY <1>1, <1>2 DEF IInv, TypeOK
<1>5. AccInv'
  BY <1>1, <1>2 DEF IInv, TypeOK, AccInv
<1>6. FdInv'
  <2>1. \A d \in Conn : d # c => fd_of'[d] = fd_of[d]
    BY <1>1 DEF IInv, TypeOK
  <2>2. fd_of'[c] = f /\ f \notin open /\ ~Holds(c)
    BY <1>1, <1>2 DEF IInv, TypeOK
  <2>3. \A d \in Conn : Holds(d) => d # c /\ fd_of[d] \in open /\ fd_of[d] # f
    BY <2>2 DEF IInv, FdInv
  <2>4. \A d, e \in Conn :
          d # e /\ (Holds(d)' \/ d = acc') /\ (Holds(e)' \/ e = acc')
            => fd_of'[d] # fd_of'[e]
    BY <1>1, <1>2, <2>1, <2>2, <2>3 DEF IInv, FdInv
  <2>5. \A d \in Conn : Holds(d)' => fd_of'[d] \in open'
    BY <1>1, <2>1, <2>3
  <2>6. \A d \in backlog' : fd_of'[d] = NULL
    BY <1>1, <2>1 DEF IInv, TypeOK, FdInv
  <2>7. \A d \in Conn : fd_of'[d] = NULL => co_pc'[d] = "none"
    BY <1>1, <1>2, <2>1 DEF IInv, FdInv
  <2>8. \A d \in Conn : fd_of'[d] # NULL /\ co_pc'[d] = "none" => d = acc'
    BY <1>1, <1>2, <2>1, ServerAssumption DEF IInv, FdInv
  <2>9. QED
    BY <2>4, <2>5, <2>6, <2>7, <2>8 DEF FdInv
<1>7. TableInv'
  BY <1>1, <1>2 DEF IInv, TypeOK, TableInv
<1>8. StackInv'
  BY <1>1 DEF IInv, StackInv
<1>9. QED
  BY <1>4, <1>5, <1>6, <1>7, <1>8 DEF IInv

\* The connection that had the fd before has closed it.
LEMMA DropOldIInv == ASSUME IInv, DropOld PROVE IInv'
<1> DEFINE f == fd_of[acc]
           old == clients[f]
<1>1. /\ acc \in Conn /\ f \in Fd /\ co_pc[acc] = "none" /\ acc \notin alive /\ acc # NULL
      /\ accept_pc = "drop" /\ accept_pc' = "new"
      /\ clients' = [clients EXCEPT ![f] = NULL]
      /\ UNCHANGED <<acc, kernelVars, open, fd_of, state, co_pc, stack, in_func>>
  BY DEF DropOld, IInv, TypeOK, AccInv
<1>2. CASE old = NULL
  <2>1. UNCHANGED <<alive, taken>>
    BY <1>2, ServerAssumption DEF DropOld, Destroy, IInv, TypeOK
  <2>2. TypeOK' /\ AccInv' /\ FdInv' /\ TableInv' /\ StackInv'
    BY <1>1, <1>2, <2>1 DEF IInv, TypeOK, AccInv, FdInv, TableInv, StackInv
  <2>3. QED
    BY <2>2 DEF IInv
<1>3. CASE old # NULL
  <2>1. /\ old \in alive /\ fd_of[old] = f /\ old # acc /\ old \in Conn
        /\ ~Holds(old)
    BY <1>1, <1>3 DEF IInv, TypeOK, FdInv, TableInv
  <2>2. alive' = alive \ {old} /\ taken' = taken \ {stack[old]}
    BY <1>3 DEF DropOld, Destroy, ReturnCoroutine, BackBlock
  <2>3. TypeOK'
    BY <1>1, <2>2 DEF IInv, TypeOK
  <2>4. AccInv'
    BY <1>1, <2>2 DEF IInv, TypeOK, AccInv
  <2>5. FdInv'
    BY <1>1 DEF IInv, FdInv
  <2>6. TableInv'
    BY <1>1, <2>1, <2>2 DEF IInv, TypeOK, TableInv
  <2>7. StackInv'
    BY <1>1, <2>1, <2>2 DEF IInv, TypeOK, StackInv
  <2>8. QED
    BY <2>3, <2>4, <2>5, <2>6, <2>7 DEF IInv
<1>4. QED
  BY <1>2, <1>3

\* The new connection gets a stack of its own.
LEMMA NewConnectionIInv == ASSUME IInv, NewConnection PROVE IInv'
<1> DEFINE f == fd_of[acc]
           s == GetCoroutineInstanse
<1>1. s \in Stack /\ s \notin taken /\ s \notin in_func
  BY PoolNotExhausted
<1>2. /\ acc \in Conn /\ f \in Fd /\ co_pc[acc] = "none" /\ acc \notin alive /\ acc # NULL
      /\ clients[f] = NULL
  BY DEF NewConnection, IInv, TypeOK, AccInv
<1> HIDE DEF s
<1>3. /\ stack' = [stack EXCEPT ![acc] = s]
      /\ taken' = taken \cup {s}
      /\ alive' = alive \cup {acc}
      /\ state' = [state EXCEPT ![acc] = "Connected"]
      /\ clients' = [clients EXCEPT ![f] = acc]
      /\ accept_pc = "new" /\ accept_pc' = "post"
      /\ UNCHANGED <<acc, kernelVars, open, fd_of, co_pc, in_func>>
  BY DEF NewConnection, s
<1>4. TypeOK'
  BY <1>1, <1>2, <1>3 DEF IInv, TypeOK
<1>5. AccInv' /\ FdInv'
  BY <1>2, <1>3 DEF IInv, TypeOK, AccInv, FdInv
<1>6. TableInv'
  BY <1>2, <1>3, ServerAssumption DEF IInv, TypeOK, TableInv
<1>7. StackInv'
  <2>1. 0 \in taken /\ s # 0
    BY <1>1 DEF IInv, StackInv
  <2>2. \A c \in alive : stack[c] # s /\ stack'[c] = stack[c]
    BY <1>1, <1>2, <1>3 DEF IInv, TypeOK, StackInv
  <2>3. taken' = {0} \cup {stack'[c] : c \in alive'}
    BY <1>2, <1>3, <2>2 DEF IInv, TypeOK, StackInv
  <2>4. \A c \in Conn : co_pc[c] # "none" => stack'[c] = stack[c]
    BY <1>2, <1>3 DEF IInv, TypeOK
  <2>5. \A c \in Conn : Using(c) /\ stack[c] \in Pooled => stack[c] # s
    BY <1>1, <2>2 DEF IInv, TypeOK, TableInv, StackInv
  <2>6. stack'[acc] = s
    BY <1>2, <1>3 DEF IInv, TypeOK
  <2>7. \A c \in Conn : c # acc => stack'[c] = stack[c] /\ (Using(c)' <=> Using(c))
    BY <1>2, <1>3 DEF IInv, TypeOK
  <2>8. \A c, d \in Conn :
          c # d /\ Using(c)' /\ Using(d)' /\ stack'[c] \in Pooled => stack'[c] # stack'[d]
    BY <2>5, <2>6, <2>7 DEF IInv, StackInv
  <2>9. \A c, d \in alive' : stack'[c] = stack'[d] => c = d
    BY <1>3, <2>2, <2>6 DEF IInv, StackInv
  <2>10. \A c \in Conn : c \in alive' \/ co_pc'[c] # "none" => stack'[c] \in Stack \ {0}
    BY <1>1, <1>3, <2>1, <2>2, <2>4, <2>6 DEF IInv, StackInv
  <2>11. QED
    BY <1>3, <2>3, <2>4, <2>8, <2>9, <2>10 DEF IInv, StackInv
<1>8. QED
  BY <1>4, <1>5, <1>6, <1>7 DEF IInv

\* The timer destroys what is Closed, and so holds no fd.
LEMMA TimerIInv ==
  ASSUME IInv, NEW f \in Fd, ClearClientTimerFunc(f)
  PROVE  IInv'
<1> DEFINE old == clients[f]
<1>1. /\ old \in alive /\ fd_of[old] = f /\ old \in Conn /\ acc = NULL
      /\ co_pc[old] \in {"cleared", "done"}
  BY DEF ClearClientTimerFunc, IInv, TypeOK, AccInv, TableInv
<1>2. /\ alive' = alive \ {old} /\ taken' = taken \ {stack[old]}
      /\ clients' = [clients EXCEPT ![f] = NULL]
      /\ UNCHANGED <<acceptVars, kernelVars, open, fd_of, state, co_pc, stack, in_func>>
  BY DEF ClearClientTimerFunc, Destroy, ReturnCoroutine, BackBlock
<1>3. TypeOK'
  BY <1>2 DEF IInv, TypeOK
<1>4. AccInv' /\ FdInv'
  BY <1>1, <1>2 DEF IInv, TypeOK, AccInv, FdInv
<1>5. TableInv'
  BY <1>1, <1>2 DEF IInv, TypeOK, TableInv
<1>6. StackInv'
  BY <1>1, <1>2 DEF IInv, TypeOK, StackInv
<1>7. QED
  BY <1>3, <1>4, <1>5, <1>6 DEF IInv

\* The steps of a connection's coroutine.
LEMMA ConnIInv ==
  ASSUME IInv, NEW c \in Conn, ConnStep(c)
  PROVE  IInv'
<1>1. CASE StartServing(c)
  <2>1. TypeOK' /\ AccInv' /\ FdInv' /\ TableInv'
    BY <1>1 DEF StartServing, IInv, TypeOK, AccInv, FdInv, TableInv
  <2>2. StackInv'
    BY <1>1 DEF StartServing, IInv, TypeOK, StackInv
  <2>3. QED
    BY <2>1, <2>2 DEF IInv
<1>2. CASE PeerClosed(c)
  BY <1>2 DEF PeerClosed, IInv, TypeOK, AccInv, FdInv, TableInv, StackInv
<1>3. CASE ClearClientStep(c, "closing", "unregistered")
  BY <1>3 DEF ClearClientStep, SetState, IInv, TypeOK, AccInv, FdInv, TableInv, StackInv
<1>4. CASE ClearClientStep(c, "unregistered", "fd_closed")
  <2>1. TypeOK' /\ AccInv' /\ FdInv'
    BY <1>4 DEF ClearClientStep, SetState, IInv, TypeOK, AccInv, FdInv
  <2>2. TableInv' /\ StackInv'
    BY <1>4 DEF ClearClientStep, SetState, IInv, TypeOK, TableInv, StackInv
  <2>3. QED
    BY <2>1, <2>2 DEF IInv
<1>5. CASE ClearClientStep(c, "fd_closed", "cleared")
  BY <1>5 DEF ClearClientStep, SetState, IInv, TypeOK, AccInv, FdInv, TableInv, StackInv
<1>6. CASE LastYield(c)
  BY <1>6 DEF LastYield, IInv, TypeOK, AccInv, FdInv, TableInv, StackInv
<1>7. QED
  BY <1>1, <1>2, <1>3, <1>4, <1>5, <1>6 DEF ConnStep, ClearClient

\* Every step keeps the invariant.
LEMMA NextIInv == IInv /\ [Next]_vars => IInv'
<1> SUFFICES ASSUME IInv, [Next]_vars PROVE IInv'
  OBVIOUS
<1>1. CASE AcceptAtOnce \/ AcceptAgain
  BY <1>1, AcceptedIInv DEF AcceptAtOnce, AcceptAgain
<1>2. CASE AcceptBlocks \/ AcceptWoken \/ AcceptFails
  BY <1>2 DEF AcceptBlocks, AcceptWoken, AcceptFails, IInv, TypeOK, AccInv, FdInv, TableInv,
     StackInv
<1>3. CASE DropOld
  BY <1>3, DropOldIInv
<1>4. CASE NewConnection
  BY <1>4, NewConnectionIInv
<1>5. CASE PostConnection
  <2>1. acc \in Conn /\ acc \in alive /\ fd_of[acc] \in open /\ fd_of[acc] # NULL
    BY <1>5 DEF PostConnection, IInv, TypeOK, AccInv, TableInv
  <2>2. TypeOK' /\ AccInv' /\ TableInv'
    BY <1>5, <2>1 DEF PostConnection, IInv, TypeOK, AccInv, TableInv
  <2>3. FdInv'
    BY <1>5, <2>1, ServerAssumption DEF PostConnection, IInv, TypeOK, FdInv
  <2>4. StackInv'
    BY <1>5, <2>1 DEF PostConnection, IInv, TypeOK, StackInv
  <2>5. QED
    BY <2>2, <2>3, <2>4 DEF IInv
<1>6. CASE \E f \in Fd : ClearClientTimerFunc(f)
  BY <1>6, TimerIInv
<1>7. CASE \E c \in Conn : ConnStep(c)
  BY <1>7, ConnIInv
<1>8. CASE \E c \in Conn : Connect(c) \/ HangUp(c)
  BY <1>8 DEF Connect, HangUp, IInv, TypeOK, AccInv, FdInv, TableInv, StackInv
<1>9. CASE UNCHANGED vars
  BY <1>9 DEF vars, IInv, TypeOK, AccInv, FdInv, TableInv, StackInv
<1>10. QED
  BY <1>1, <1>2, <1>3, <1>4, <1>5, <1>6, <1>7, <1>8, <1>9 DEF Next, MainStep

-----------------------------------------------------------------------------
(* The theorems                                                            *)

\* Where connections, fds, m_clients and stacks stand, in every state of every server.
THEOREM IInvHolds == Spec => []IInv
<1>1. QED
  BY InitIInv, NextIInv, PTL DEF Spec

\* TcpServer::addClient and ClearClientTimerFunc never take a connection from its
\* coroutine before that has closed the fd, however fds are reused.
THEOREM SpecKeptWhileOpen == Spec => []KeptWhileOpen
<1>1. IInv => KeptWhileOpen
  BY DEF IInv, TableInv, KeptWhileOpen
<1>2. QED
  BY <1>1, IInvHolds, PTL

\* getCoroutineInstanse never gives a coroutine of the pool to two connections,
\* although returnCoroutine frees the flag of one that still runs.
THEOREM SpecPooledExclusive == Spec => []PooledExclusive
<1>1. IInv => PooledExclusive
  BY DEF IInv, StackInv, PooledExclusive
<1>2. QED
  BY <1>1, IInvHolds, PTL

\* The stacks that are taken are those of the connections that exist.
THEOREM SpecNoStackLost == Spec => []NoStackLost
<1>1. IInv => NoStackLost
  BY DEF IInv, TypeOK, StackInv, NoStackLost
<1>2. QED
  BY <1>1, IInvHolds, PTL
=============================================================================
