--------------------------- MODULE TcpClientProofs ---------------------------
(***************************************************************************)
(* Proofs about TcpClient, for every number of pieces a reply may come in: *)
(* no timer of the call outlives it, and the call implements RpcCall.      *)
(***************************************************************************)
EXTENDS TcpClient, TLAPS

\* The collected tasks with that of the call among them.
WithT1 == {<<"t1">>, <<"t1", "t2">>, <<"t2", "t1">>}

\* The types, in parts.
Places ==
  /\ pc \in {"start", "connect", "connecting", "reconnect", "output", "writing",
             "rewrite", "input", "reading", "reread", "execute", "err_deal", "dead",
             "returned"}
  /\ loop \in {"first", "wait", "batch"}

Flags ==
  /\ running \in BOOLEAN /\ can_resume \in BOOLEAN /\ first \in BOOLEAN
  /\ is_timeout \in BOOLEAN /\ over_time \in BOOLEAN /\ no_connect \in BOOLEAN

Sockets ==
  /\ batch \subseteq {"fd", "timer"}
  /\ watch \in {"none", "read", "write"}
  /\ sock \in {"new", "connecting", "connected", "refused", "closed"}
  /\ result \in {"none", "OK", "ERROR_PEER_CLOSED", "ERROR_CONNECT_SYS_ERR",
                 "ERROR_RPC_CALL_TIMEOUT"}

Amounts ==
  /\ avail \in 0..Chunks /\ got \in 0..Chunks /\ avail + got <= Chunks
  /\ errors \in 0..MaxErrors

TimerTypes ==
  timer \in [{"t1", "t2"} -> {"none", "collected", "fired", "deleted", "erased"} \cup Pending]

\* Tasks wait only in a batch whose timer event has been handled; t1 is among them as
\* long as it is collected.
TaskShape ==
  /\ tasks \in TaskLists
  /\ loop # "batch" => batch = {} /\ tasks = <<>>
  /\ "timer" \in batch => tasks = <<>>
  /\ timer["t1"] = "collected" <=> tasks \in WithT1

\* The coroutine has the thread unless it waits, was retired, or has returned.
WhoRuns ==
  /\ running => pc \notin {"connecting", "writing", "reading", "dead"}
  /\ ~running => pc \in {"connecting", "writing", "reading", "dead", "returned"}

\* The flags of the callback tell that the time is over.
TimeIsOver ==
  /\ pc = "start" => timer["t1"] = "none"
  /\ is_timeout => timer["t1"] = "fired"
  /\ over_time => is_timeout
  /\ pc = "err_deal" => is_timeout

\* The timer of connect_hook runs only inside of it, and that of the call only
\* inside of the call; if the call goes on before its collected timer has run, it was
\* the other one that resumed it.
TimersInside ==
  /\ pc \notin {"connecting", "reconnect"} => timer["t2"] \notin Pending
  /\ pc = "returned" => timer["t1"] \notin Pending
  /\ running /\ timer["t1"] = "collected" => timer["t2"] = "fired" /\ no_connect
  /\ pc = "returned" /\ timer["t1"] = "collected" => timer["t2"] = "fired" /\ no_connect

\* Nothing has been read before the request is out, and the reply is not whole while
\* the call reads.
ReplyRead ==
  /\ pc \in {"start", "connect", "connecting", "reconnect", "output", "writing", "rewrite"}
       => got = 0
  /\ pc \in {"input", "reading", "reread"} => got < Chunks

IInv ==
  /\ Places /\ Flags /\ Sockets /\ Amounts /\ TimerTypes
  /\ TaskShape /\ WhoRuns /\ TimeIsOver /\ TimersInside /\ ReplyRead

-----------------------------------------------------------------------------
(* The invariant is inductive                                              *)

USE DEF coVars, loopVars, sockVars, timerVars, Pending, TaskLists, WithT1, At, Goto

\* A call that has not begun satisfies the invariant.
LEMMA InitIInv == Init => IInv
<1>1. Init => Places /\ Flags /\ Sockets /\ TimerTypes
  BY DEF Init, Places, Flags, Sockets, TimerTypes
<1>2. Init => Amounts /\ ReplyRead
  BY ClientAssumption DEF Init, Amounts, ReplyRead
<1>3. Init => TaskShape /\ WhoRuns /\ TimeIsOver /\ TimersInside
  BY DEF Init, TaskShape, WhoRuns, TimeIsOver, TimersInside
<1>4. QED
  BY <1>1, <1>2, <1>3 DEF IInv

\* Every step of the call, the reactor, the clock and the peer keeps the invariant.
LEMMA NextIInv == IInv /\ [Next]_vars => IInv'
<1> SUFFICES ASSUME IInv, [Next]_vars PROVE IInv'
  OBVIOUS
<1> USE ClientAssumption DEF IInv
<1>1. CASE ResumeFirst
  <2>1. Places'
    BY <1>1 DEF ResumeFirst, Resume, BackFrom, Places
  <2>2. Flags'
    BY <1>1 DEF ResumeFirst, Resume, BackFrom, Flags
  <2>3. Sockets'
    BY <1>1 DEF ResumeFirst, Resume, BackFrom, Sockets
  <2>4. Amounts'
    BY <1>1 DEF ResumeFirst, Resume, BackFrom, Amounts
  <2>5. (TimerTypes /\ TaskShape)'
    BY <1>1 DEF ResumeFirst, Resume, BackFrom, TimerTypes, TaskShape
  <2>6. (WhoRuns /\ TimeIsOver /\ TimersInside /\ ReplyRead)'
    BY <1>1 DEF ResumeFirst, Resume, BackFrom, WhoRuns, Places, TimeIsOver,
       TaskShape, TimerTypes, TimersInside, ReplyRead, Amounts
  <2>7. QED
    BY <2>1, <2>2, <2>3, <2>4, <2>5, <2>6
<1>2. CASE EpollWait
  <2>1. (Places /\ Flags /\ Sockets /\ Amounts)'
    BY <1>2 DEF EpollWait, Places, Flags, Sockets, Amounts
  <2>2. (TimerTypes /\ TaskShape)'
    BY <1>2 DEF EpollWait, TimerTypes, TaskShape
  <2>3. (WhoRuns /\ TimeIsOver /\ TimersInside /\ ReplyRead)'
    BY <1>2 DEF EpollWait, WhoRuns, Places, TimeIsOver, TaskShape, TimerTypes,
       TimersInside, ReplyRead, Amounts
  <2>4. QED
    BY <2>1, <2>2, <2>3
<1>3. CASE HandleFd
  <2>1. (Places /\ Flags /\ Sockets /\ Amounts)'
    BY <1>3 DEF HandleFd, Places, Flags, Sockets, Amounts
  <2>2. (TimerTypes /\ TaskShape)'
    BY <1>3 DEF HandleFd, TimerTypes, TaskShape
  <2>3. (WhoRuns /\ TimeIsOver /\ TimersInside /\ ReplyRead)'
    BY <1>3 DEF HandleFd, WhoRuns, Places, TimeIsOver, TaskShape, TimerTypes,
       TimersInside, ReplyRead, Amounts
  <2>4. QED
    BY <2>1, <2>2, <2>3
<1>4. CASE HandleTimer
  <2>1. (Places /\ Flags /\ Sockets /\ Amounts)'
    BY <1>4 DEF HandleTimer, Places, Flags, Sockets, Amounts
  <2>2. (TimerTypes /\ TaskShape)'
    BY <1>4 DEF HandleTimer, TimerTypes, TaskShape
  <2>3. (WhoRuns /\ TimeIsOver /\ TimersInside /\ ReplyRead)'
    BY <1>4 DEF HandleTimer, WhoRuns, Places, TimeIsOver, TaskShape, TimerTypes,
       TimersInside, ReplyRead, Amounts
  <2>4. QED
    BY <2>1, <2>2, <2>3
<1>5. CASE RunTimerTask
  <2>1. Places'
    BY <1>5 DEF RunTimerTask, Resume, BackFrom, Places
  <2>2. Flags'
    BY <1>5 DEF RunTimerTask, Resume, BackFrom, Flags
  <2>3. Sockets'
    BY <1>5 DEF RunTimerTask, Resume, BackFrom, Sockets
  <2>4. Amounts'
    BY <1>5 DEF RunTimerTask, Resume, BackFrom, Amounts
  <2>5. TimerTypes'
    BY <1>5 DEF RunTimerTask, Resume, BackFrom, TimerTypes, TaskShape
  <2>6. TaskShape'
    <3>1. CASE tasks = <<"t1">> \/ tasks = <<"t2">>
      BY <1>5, <3>1 DEF RunTimerTask, TaskShape, TimerTypes
    <3>2. CASE tasks = <<"t1", "t2">>
      BY <1>5, <3>2 DEF RunTimerTask, TaskShape, TimerTypes
    <3>3. CASE tasks = <<"t2", "t1">>
      BY <1>5, <3>3 DEF RunTimerTask, TaskShape, TimerTypes
    <3>4. QED
      BY <1>5, <3>1, <3>2, <3>3 DEF RunTimerTask, TaskShape
  <2>7. WhoRuns'
    BY <1>5 DEF RunTimerTask, Resume, BackFrom, WhoRuns, Places
  <2>8. TimeIsOver'
    BY <1>5 DEF RunTimerTask, Resume, BackFrom, TimeIsOver, TaskShape, TimerTypes,
       WhoRuns
  <2>9. TimersInside'
    <3>1. \/ ~running /\ UNCHANGED pc
          \/ pc \in {"connecting", "writing", "reading"} /\ pc' = BackFrom(pc)
      BY <1>5 DEF RunTimerTask, Resume
    <3>2. tasks \in WithT1 \/ tasks = <<"t2">>
      BY <1>5 DEF RunTimerTask, TaskShape
    <3>3. CASE Head(tasks) = "t1"
      <4>1. timer' = [timer EXCEPT !["t1"] = "fired"]
        BY <1>5, <3>3 DEF RunTimerTask
      <4>2. QED
        BY <3>1, <4>1 DEF TimersInside, TimerTypes, BackFrom
    <3>4. CASE Head(tasks) = "t2"
      <4>1. timer' = [timer EXCEPT !["t2"] = "fired"] /\ no_connect'
        BY <1>5, <3>4 DEF RunTimerTask
      <4>2. QED
        BY <3>1, <4>1 DEF TimersInside, TimerTypes, BackFrom
    <3>5. QED
      BY <3>2, <3>3, <3>4
  <2>10. ReplyRead'
    BY <1>5 DEF RunTimerTask, Resume, BackFrom, ReplyRead, Amounts
  <2>11. QED
    BY <2>1, <2>2, <2>3, <2>4, <2>5, <2>6, <2>7, <2>8, <2>9, <2>10
<1>6. CASE BatchDone
  <2>1. (Places /\ Flags /\ Sockets /\ Amounts)'
    BY <1>6 DEF BatchDone, Places, Flags, Sockets, Amounts
  <2>2. (TimerTypes /\ TaskShape)'
    BY <1>6 DEF BatchDone, TimerTypes, TaskShape
  <2>3. (WhoRuns /\ TimeIsOver /\ TimersInside /\ ReplyRead)'
    BY <1>6 DEF BatchDone, WhoRuns, Places, TimeIsOver, TaskShape, TimerTypes,
       TimersInside, ReplyRead, Amounts
  <2>4. QED
    BY <2>1, <2>2, <2>3
<1>7. CASE AddCallTimer
  <2>1. (Places /\ Flags /\ Sockets /\ Amounts)'
    BY <1>7 DEF AddCallTimer, Places, Flags, Sockets, Amounts
  <2>2. TimerTypes'
    BY <1>7 DEF AddCallTimer, TimerTypes, TaskShape
  <2>3. TaskShape'
    BY <1>7 DEF AddCallTimer, TaskShape, TimerTypes, TimeIsOver
  <2>4. (WhoRuns /\ TimeIsOver /\ TimersInside /\ ReplyRead)'
    BY <1>7 DEF AddCallTimer, WhoRuns, Places, TimeIsOver, TaskShape, TimerTypes,
       TimersInside, ReplyRead, Amounts
  <2>5. QED
    BY <2>1, <2>2, <2>3, <2>4
<1>8. CASE ConnectAtOnce
  <2>1. (Places /\ Flags /\ Sockets /\ Amounts)'
    BY <1>8 DEF ConnectAtOnce, Places, Flags, Sockets, Amounts
  <2>2. (TimerTypes /\ TaskShape)'
    BY <1>8 DEF ConnectAtOnce, TimerTypes, TaskShape
  <2>3. (WhoRuns /\ TimeIsOver /\ TimersInside /\ ReplyRead)'
    BY <1>8 DEF ConnectAtOnce, WhoRuns, Places, TimeIsOver, TaskShape, TimerTypes,
       TimersInside, ReplyRead, Amounts
  <2>4. QED
    BY <2>1, <2>2, <2>3
<1>9. CASE ConnectFails
  <2>1. Places'
    BY <1>9 DEF ConnectFails, FreshSocket, Return, DelTimer, Other, Places
  <2>2. Flags'
    BY <1>9 DEF ConnectFails, FreshSocket, Return, DelTimer, Other, Flags
  <2>3. Sockets'
    BY <1>9 DEF ConnectFails, FreshSocket, Return, DelTimer, Other, Sockets
  <2>4. Amounts'
    <3>1. avail' = 0 /\ got' = got
      BY <1>9 DEF ConnectFails, FreshSocket
    <3>2. errors' = errors \/ (errors < MaxErrors /\ errors' = errors + 1)
      BY <1>9 DEF ConnectFails
    <3>3. QED
      BY <3>1, <3>2 DEF Amounts
  <2>5. (TimerTypes /\ TaskShape)'
    BY <1>9 DEF ConnectFails, FreshSocket, Return, DelTimer, Other, TimerTypes,
       TaskShape
  <2>6. (WhoRuns /\ TimeIsOver /\ TimersInside /\ ReplyRead)'
    BY <1>9 DEF ConnectFails, FreshSocket, Return, DelTimer, Other, WhoRuns, Places,
       TimeIsOver, TaskShape, TimerTypes, TimersInside, ReplyRead, Amounts
  <2>7. QED
    BY <2>1, <2>2, <2>3, <2>4, <2>5, <2>6
<1>10. CASE ConnectInProgress
  <2>1. (Places /\ Flags /\ Sockets /\ Amounts)'
    BY <1>10 DEF ConnectInProgress, WaitFor, Places, Flags, Sockets, Amounts
  <2>2. (TimerTypes /\ TaskShape)'
    BY <1>10 DEF ConnectInProgress, WaitFor, TimerTypes, TaskShape
  <2>3. (WhoRuns /\ TimeIsOver /\ TimersInside /\ ReplyRead)'
    BY <1>10 DEF ConnectInProgress, WaitFor, WhoRuns, Places, TimeIsOver, TaskShape,
       TimerTypes, TimersInside, ReplyRead, Amounts
  <2>4. QED
    BY <2>1, <2>2, <2>3
<1>11. CASE ConnectSucceeds
  <2>1. (Places /\ Flags /\ Sockets /\ Amounts)'
    BY <1>11 DEF ConnectSucceeds, DelTimer, Other, Places, Flags, Sockets, Amounts
  <2>2. (TimerTypes /\ TaskShape)'
    BY <1>11 DEF ConnectSucceeds, DelTimer, Other, TimerTypes, TaskShape
  <2>3. (WhoRuns /\ TimeIsOver /\ TimersInside /\ ReplyRead)'
    BY <1>11 DEF ConnectSucceeds, DelTimer, Other, WhoRuns, Places, TimeIsOver,
       TaskShape, TimerTypes, TimersInside, ReplyRead, Amounts
  <2>4. QED
    BY <2>1, <2>2, <2>3
<1>12. CASE ReconnectFails
  <2>1. Places'
    BY <1>12 DEF ReconnectFails, FreshSocket, Return, DelTimer, Other, Places
  <2>2. Flags'
    BY <1>12 DEF ReconnectFails, FreshSocket, Return, DelTimer, Other, Flags
  <2>3. Sockets'
    BY <1>12 DEF ReconnectFails, FreshSocket, Return, DelTimer, Other, Sockets
  <2>4. Amounts'
    BY <1>12 DEF ReconnectFails, FreshSocket, Return, DelTimer, Other, Amounts
  <2>5. (TimerTypes /\ TaskShape)'
    BY <1>12 DEF ReconnectFails, FreshSocket, Return, DelTimer, Other, TimerTypes,
       TaskShape
  <2>6. (WhoRuns /\ TimeIsOver /\ TimersInside /\ ReplyRead)'
    BY <1>12 DEF ReconnectFails, FreshSocket, Return, DelTimer, Other, WhoRuns,
       Places, TimeIsOver, TaskShape, TimerTypes, TimersInside, ReplyRead, Amounts
  <2>7. QED
    BY <2>1, <2>2, <2>3, <2>4, <2>5, <2>6
<1>13. CASE Output
  <2>1. Places'
    BY <1>13 DEF Output, Write, WaitFor, Places
  <2>2. Flags'
    BY <1>13 DEF Output, Write, WaitFor, Flags
  <2>3. Sockets'
    BY <1>13 DEF Output, Write, WaitFor, Sockets
  <2>4. Amounts'
    BY <1>13 DEF Output, Write, WaitFor, Amounts
  <2>5. (TimerTypes /\ TaskShape)'
    BY <1>13 DEF Output, Write, WaitFor, TimerTypes, TaskShape
  <2>6. WhoRuns'
    BY <1>13 DEF Output, Write, WaitFor, WhoRuns, Places
  <2>7. TimeIsOver'
    BY <1>13 DEF Output, Write, WaitFor, TimeIsOver, TaskShape, TimerTypes, WhoRuns
  <2>8. TimersInside'
    BY <1>13 DEF Output, Write, WaitFor, TimersInside, TimeIsOver, TaskShape,
       TimerTypes, WhoRuns
  <2>9. ReplyRead'
    BY <1>13 DEF Output, Write, WaitFor, ReplyRead, Amounts
  <2>10. QED
    BY <2>1, <2>2, <2>3, <2>4, <2>5, <2>6, <2>7, <2>8, <2>9
<1>14. CASE Input
  <2>1. Places'
    BY <1>14 DEF Input, ReadAll, WaitFor, Places
  <2>2. Flags'
    BY <1>14 DEF Input, ReadAll, WaitFor, Flags
  <2>3. Sockets'
    BY <1>14 DEF Input, ReadAll, WaitFor, Sockets
  <2>4. Amounts'
    BY <1>14 DEF Input, ReadAll, WaitFor, Amounts
  <2>5. (TimerTypes /\ TaskShape)'
    BY <1>14 DEF Input, ReadAll, WaitFor, TimerTypes, TaskShape
  <2>6. WhoRuns'
    BY <1>14 DEF Input, ReadAll, WaitFor, WhoRuns, Places
  <2>7. TimeIsOver'
    BY <1>14 DEF Input, ReadAll, WaitFor, TimeIsOver, TaskShape, TimerTypes, WhoRuns
  <2>8. TimersInside'
    BY <1>14 DEF Input, ReadAll, WaitFor, TimersInside, TimeIsOver, TaskShape,
       TimerTypes, WhoRuns
  <2>9. ReplyRead'
    <3>1. got < Chunks /\ got' = got + avail /\ got \in Nat /\ avail \in Nat
      BY <1>14 DEF Input, ReadAll, ReplyRead, Amounts
    <3>2. pc' = "execute" \/ (pc' = "reading" /\ ~(avail > 0))
      BY <1>14 DEF Input, WaitFor
    <3>3. QED
      BY <3>1, <3>2 DEF ReplyRead
  <2>10. QED
    BY <2>1, <2>2, <2>3, <2>4, <2>5, <2>6, <2>7, <2>8, <2>9
<1>15. CASE Reread
  <2>1. Places'
    BY <1>15 DEF Reread, ReadAll, Places
  <2>2. Flags'
    BY <1>15 DEF Reread, ReadAll, Flags
  <2>3. Sockets'
    BY <1>15 DEF Reread, ReadAll, Sockets
  <2>4. Amounts'
    BY <1>15 DEF Reread, ReadAll, Amounts
  <2>5. (TimerTypes /\ TaskShape)'
    BY <1>15 DEF Reread, ReadAll, TimerTypes, TaskShape
  <2>6. (WhoRuns /\ TimeIsOver /\ TimersInside /\ ReplyRead)'
    BY <1>15 DEF Reread, ReadAll, WhoRuns, Places, TimeIsOver, TaskShape, TimerTypes,
       TimersInside, ReplyRead, Amounts
  <2>7. QED
    BY <2>1, <2>2, <2>3, <2>4, <2>5, <2>6
<1>16. CASE Execute
  <2>1. Places'
    BY <1>16 DEF Execute, ReplyWhole, Return, DelTimer, Other, Places
  <2>2. Flags'
    BY <1>16 DEF Execute, ReplyWhole, Return, DelTimer, Other, Flags
  <2>3. Sockets'
    BY <1>16 DEF Execute, ReplyWhole, Return, DelTimer, Other, Sockets
  <2>4. Amounts'
    BY <1>16 DEF Execute, ReplyWhole, Return, DelTimer, Other, Amounts
  <2>5. (TimerTypes /\ TaskShape)'
    BY <1>16 DEF Execute, ReplyWhole, Return, DelTimer, Other, TimerTypes, TaskShape
  <2>6. WhoRuns'
    BY <1>16 DEF Execute, ReplyWhole, Return, DelTimer, Other, WhoRuns, Places
  <2>7. TimeIsOver'
    BY <1>16 DEF Execute, ReplyWhole, Return, DelTimer, Other, TimeIsOver, TaskShape,
       TimerTypes, WhoRuns
  <2>8. TimersInside'
    BY <1>16 DEF Execute, ReplyWhole, Return, DelTimer, Other, TimersInside,
       TimeIsOver, TaskShape, TimerTypes, WhoRuns
  <2>9. ReplyRead'
    <3>1. got' = got /\ got \in Nat /\ Chunks \in Nat /\ got <= Chunks
      BY <1>16 DEF Execute, Amounts
    <3>2. pc' = "returned" \/ (pc' = "input" /\ got # Chunks)
      BY <1>16 DEF Execute, ReplyWhole, Return
    <3>3. QED
      BY <3>1, <3>2 DEF ReplyRead
  <2>10. QED
    BY <2>1, <2>2, <2>3, <2>4, <2>5, <2>6, <2>7, <2>8, <2>9
<1>17. CASE ErrDeal
  <2>1. Places'
    BY <1>17 DEF ErrDeal, FreshSocket, ResetOverTime, Return, Places
  <2>2. Flags'
    BY <1>17 DEF ErrDeal, FreshSocket, ResetOverTime, Return, Flags
  <2>3. Sockets'
    BY <1>17 DEF ErrDeal, FreshSocket, ResetOverTime, Return, Sockets
  <2>4. Amounts'
    BY <1>17 DEF ErrDeal, FreshSocket, ResetOverTime, Return, Amounts
  <2>5. (TimerTypes /\ TaskShape)'
    BY <1>17 DEF ErrDeal, FreshSocket, ResetOverTime, Return, TimerTypes, TaskShape
  <2>6. (WhoRuns /\ TimeIsOver /\ TimersInside /\ ReplyRead)'
    BY <1>17 DEF ErrDeal, FreshSocket, ResetOverTime, Return, WhoRuns, Places,
       TimeIsOver, TaskShape, TimerTypes, TimersInside, ReplyRead, Amounts
  <2>7. QED
    BY <2>1, <2>2, <2>3, <2>4, <2>5, <2>6
<1>18. CASE Leave
  <2>1. Places'
    BY <1>18 DEF Leave, Places
  <2>2. Flags'
    BY <1>18 DEF Leave, Flags
  <2>3. Sockets'
    BY <1>18 DEF Leave, Sockets
  <2>4. Amounts'
    BY <1>18 DEF Leave, Amounts
  <2>5. (TimerTypes /\ TaskShape)'
    BY <1>18 DEF Leave, TimerTypes, TaskShape
  <2>6. (WhoRuns /\ TimeIsOver /\ TimersInside /\ ReplyRead)'
    BY <1>18 DEF Leave, WhoRuns, Places, TimeIsOver, TaskShape, TimerTypes,
       TimersInside, ReplyRead, Amounts
  <2>7. QED
    BY <2>1, <2>2, <2>3, <2>4, <2>5, <2>6
<1>19. CASE \E t \in {"t1", "t2"} : Expire(t)
  <2>1. (Places /\ Flags /\ Sockets /\ Amounts)'
    BY <1>19 DEF Expire, Places, Flags, Sockets, Amounts
  <2>2. (TimerTypes /\ TaskShape)'
    BY <1>19 DEF Expire, TimerTypes, TaskShape
  <2>3. (WhoRuns /\ TimeIsOver /\ TimersInside /\ ReplyRead)'
    BY <1>19 DEF Expire, WhoRuns, Places, TimeIsOver, TaskShape, TimerTypes,
       TimersInside, ReplyRead, Amounts
  <2>4. QED
    BY <2>1, <2>2, <2>3
<1>20. CASE PeerAnswersConnect
  <2>1. (Places /\ Flags /\ Sockets /\ Amounts)'
    BY <1>20 DEF PeerAnswersConnect, Places, Flags, Sockets, Amounts
  <2>2. (TimerTypes /\ TaskShape)'
    BY <1>20 DEF PeerAnswersConnect, TimerTypes, TaskShape
  <2>3. (WhoRuns /\ TimeIsOver /\ TimersInside /\ ReplyRead)'
    BY <1>20 DEF PeerAnswersConnect, WhoRuns, Places, TimeIsOver, TaskShape,
       TimerTypes, TimersInside, ReplyRead, Amounts
  <2>4. QED
    BY <2>1, <2>2, <2>3
<1>21. CASE PeerSends
  <2>1. (Places /\ Flags /\ Sockets /\ Amounts)'
    BY <1>21 DEF PeerSends, Places, Flags, Sockets, Amounts
  <2>2. (TimerTypes /\ TaskShape)'
    BY <1>21 DEF PeerSends, TimerTypes, TaskShape
  <2>3. (WhoRuns /\ TimeIsOver /\ TimersInside /\ ReplyRead)'
    BY <1>21 DEF PeerSends, WhoRuns, Places, TimeIsOver, TaskShape, TimerTypes,
       TimersInside, ReplyRead, Amounts
  <2>4. QED
    BY <2>1, <2>2, <2>3
<1>22. CASE PeerCloses
  <2>1. (Places /\ Flags /\ Sockets /\ Amounts)'
    BY <1>22 DEF PeerCloses, Places, Flags, Sockets, Amounts
  <2>2. (TimerTypes /\ TaskShape)'
    BY <1>22 DEF PeerCloses, TimerTypes, TaskShape
  <2>3. (WhoRuns /\ TimeIsOver /\ TimersInside /\ ReplyRead)'
    BY <1>22 DEF PeerCloses, WhoRuns, Places, TimeIsOver, TaskShape, TimerTypes,
       TimersInside, ReplyRead, Amounts
  <2>4. QED
    BY <2>1, <2>2, <2>3
<1>23. CASE UNCHANGED vars
  <2>1. (Places /\ Flags /\ Sockets /\ Amounts)'
    BY <1>23 DEF vars, Places, Flags, Sockets, Amounts
  <2>2. (TimerTypes /\ TaskShape)'
    BY <1>23 DEF vars, TimerTypes, TaskShape
  <2>3. (WhoRuns /\ TimeIsOver /\ TimersInside /\ ReplyRead)'
    BY <1>23 DEF vars, WhoRuns, Places, TimeIsOver, TaskShape, TimerTypes,
       TimersInside, ReplyRead, Amounts
  <2>4. QED
    BY <2>1, <2>2, <2>3
<1>24. QED
  BY <1>1, <1>2, <1>3, <1>4, <1>5, <1>6, <1>7, <1>8, <1>9, <1>10, <1>11, <1>12,
     <1>13, <1>14, <1>15, <1>16, <1>17, <1>18, <1>19, <1>20, <1>21, <1>22, <1>23 DEF
     Next, ThreadStep, ReactorStep, CallStep


\* In every state of a call its timers, flags, tasks and what has been read agree.
THEOREM IInvHolds == Spec => []IInv
<1>1. Init => IInv
  BY InitIInv
<1>2. IInv /\ [Next]_vars => IInv'
  BY NextIInv
<1>3. QED
  BY <1>1, <1>2, PTL DEF Spec

\* sendAndRecvTinyPb and connect_hook leave no TimerEvent in the Timer, however the
\* call ends and into however many pieces the reply is cut.
THEOREM SpecNoTimerLeft == Spec => []NoTimerLeft
<1>1. IInv => NoTimerLeft
  BY DEF IInv, TimersInside, NoTimerLeft
<1>2. QED
  BY <1>1, IInvHolds, PTL

-----------------------------------------------------------------------------
(* Refinement                                                              *)

\* A call begins as RpcCall says.
LEMMA InitAbstract == Init => Abstract!Init
  BY ClientAssumption DEF Init, Abstract!Init

\* Deleting a timer does not undo that one has been found over.
LEMMA DelTimerKeeps ==
  ASSUME TimerTypes, NEW t \in {"t1", "t2"}
  PROVE  DelTimer(t)["t1"] \in {"collected", "fired"} <=> timer["t1"] \in {"collected", "fired"}
  BY DEF TimerTypes, DelTimer, Other

\* A step of the call is a step of RpcCall, or is not seen by the caller.
LEMMA StepAbstract == IInv /\ [Next]_vars => [Abstract!Next]_(Abstract!vars)
<1> SUFFICES ASSUME IInv, [Next]_vars PROVE [Abstract!Next]_(Abstract!vars)
  OBVIOUS
<1> USE ClientAssumption DEF IInv, Abstract!vars
<1>1. CASE ResumeFirst
  BY <1>1 DEF ResumeFirst, Resume, BackFrom
<1>2. CASE EpollWait \/ HandleFd \/ BatchDone \/ Leave
  BY <1>2 DEF EpollWait, HandleFd, BatchDone, Leave
<1>3. CASE HandleTimer
  <2>1. result' = result /\ pc' = pc /\ got' = got
    BY <1>3 DEF HandleTimer
  <2>2. CASE timer["t1"] = "due"
    <3>1. timer'["t1"] = "collected" /\ pc # "returned"
      BY <1>3, <2>2 DEF HandleTimer, TimersInside
    <3>2. Abstract!RunOut
      BY <2>1, <2>2, <3>1 DEF Abstract!RunOut
    <3>3. QED
      BY <3>2 DEF Abstract!Next
  <2>3. CASE timer["t1"] # "due"
    <3>1. timer'["t1"] = timer["t1"]
      BY <1>3, <2>3 DEF HandleTimer
    <3>2. QED
      BY <2>1, <3>1
  <2>4. QED
    BY <2>2, <2>3
<1>4. CASE RunTimerTask
  <2>1. timer["t1"] \in {"collected", "fired"} <=> timer'["t1"] \in {"collected", "fired"}
    BY <1>4 DEF RunTimerTask, TaskShape, TimerTypes
  <2>2. /\ UNCHANGED <<got, result>>
        /\ \/ UNCHANGED pc
           \/ pc \in {"connecting", "writing", "reading"} /\ pc' = BackFrom(pc)
    BY <1>4 DEF RunTimerTask, Resume
  <2>3. QED
    BY <2>1, <2>2 DEF BackFrom
<1>5. CASE AddCallTimer
  BY <1>5 DEF AddCallTimer, TimeIsOver, TimerTypes
<1>6. CASE ConnectAtOnce \/ ConnectInProgress \/ Output
  BY <1>6 DEF ConnectAtOnce, ConnectInProgress, Output, Write, WaitFor, TimerTypes
<1>7. CASE ConnectFails
  <2>1. pc = "connect" /\ got = 0 /\ got' = got
    BY <1>7 DEF ConnectFails, ReplyRead
  <2>2. CASE pc' = "connect" /\ UNCHANGED <<timer, result>>
    BY <2>1, <2>2
  <2>3. CASE /\ pc' = "returned" /\ timer' = DelTimer("t1")
             /\ result' \in {"ERROR_PEER_CLOSED", "ERROR_CONNECT_SYS_ERR"}
    <3>1. Abstract!Return
      BY <2>1, <2>3, DelTimerKeeps DEF Abstract!Return, Abstract!Justified
    <3>2. QED
      BY <3>1 DEF Abstract!Next
  <2>4. QED
    BY <1>7, <2>2, <2>3 DEF ConnectFails, Return
<1>8. CASE ConnectSucceeds
  BY <1>8 DEF ConnectSucceeds, DelTimer, Other, TimerTypes
<1>9. CASE ReconnectFails
  <2>1. pc = "reconnect" /\ got = 0 /\ got' = got
    BY <1>9 DEF ReconnectFails, ReplyRead
  <2>2. timer["t1"] \in {"collected", "fired"} <=> timer'["t1"] \in {"collected", "fired"}
    <3>1. CASE timer' = DelTimer("t2")
      BY <3>1, DelTimerKeeps
    <3>2. CASE timer' = [DelTimer("t2") EXCEPT !["t1"] = IF @ \in Pending THEN "deleted" ELSE @]
      <4>1. DelTimer("t2")["t1"] \in Pending => timer'["t1"] = "deleted"
        BY <3>2 DEF DelTimer, Other, TimerTypes
      <4>2. DelTimer("t2")["t1"] \notin Pending => timer'["t1"] = DelTimer("t2")["t1"]
        BY <3>2 DEF DelTimer, Other, TimerTypes
      <4>3. QED
        BY <4>1, <4>2, DelTimerKeeps
    <3>3. QED
      BY <1>9, <3>1, <3>2 DEF ReconnectFails, Return
  <2>3. CASE pc' \in {"connect", "err_deal"} /\ UNCHANGED result
    BY <2>1, <2>2, <2>3
  <2>4. CASE pc' = "returned" /\ result' = "ERROR_PEER_CLOSED"
    <3>1. Abstract!Return
      BY <2>1, <2>2, <2>4 DEF Abstract!Return, Abstract!Justified
    <3>2. QED
      BY <3>1 DEF Abstract!Next
  <2>5. QED
    BY <1>9, <2>3, <2>4 DEF ReconnectFails, Return
<1>10. CASE Input
  <2>1. /\ pc = "input" /\ pc' \in {"execute", "reading"}
        /\ got' = got + avail /\ UNCHANGED <<timer, result>>
    BY <1>10 DEF Input, ReadAll, WaitFor
  <2>2. Abstract!Read \/ UNCHANGED Abstract!vars
    BY <2>1 DEF Amounts, Abstract!Read
  <2>3. QED
    BY <2>2 DEF Abstract!Next
<1>11. CASE Reread
  <2>1. pc = "reread" /\ got' = got + avail /\ UNCHANGED <<timer, result>>
    BY <1>11 DEF Reread, ReadAll
  <2>2. CASE pc' \in {"execute", "err_deal"}
    <3>1. Abstract!Read \/ UNCHANGED Abstract!vars
      BY <2>1, <2>2 DEF Amounts, Abstract!Read
    <3>2. QED
      BY <3>1 DEF Abstract!Next
  <2>3. CASE pc' = "dead" /\ avail = 0
    <3>1. Abstract!Lose
      BY <2>1, <2>3 DEF Amounts, ReplyRead, Abstract!Lose
    <3>2. QED
      BY <3>1 DEF Abstract!Next
  <2>4. QED
    BY <1>11, <2>2, <2>3 DEF Reread
<1>12. CASE Execute
  <2>1. pc = "execute" /\ got' = got
    BY <1>12 DEF Execute
  <2>2. CASE pc' = "input" /\ UNCHANGED <<timer, result>>
    BY <2>1, <2>2
  <2>3. CASE pc' = "returned" /\ got = Chunks /\ result' = "OK" /\ timer' = DelTimer("t1")
    <3>1. Abstract!Return
      BY <2>1, <2>3, DelTimerKeeps DEF Amounts, Abstract!Return, Abstract!Justified
    <3>2. QED
      BY <3>1 DEF Abstract!Next
  <2>4. QED
    BY <1>12, <2>2, <2>3 DEF Execute, ReplyWhole, Return
<1>13. CASE ErrDeal
  BY <1>13 DEF ErrDeal, FreshSocket, Return, TimeIsOver, Abstract!Next,
     Abstract!Return, Abstract!Justified
<1>14. CASE \E t \in {"t1", "t2"} : Expire(t)
  BY <1>14 DEF Expire, TimerTypes
<1>15. CASE PeerAnswersConnect \/ PeerSends \/ PeerCloses
  BY <1>15 DEF PeerAnswersConnect, PeerSends, PeerCloses
<1>16. CASE UNCHANGED vars
  BY <1>16 DEF vars
<1>17. QED
  BY <1>1, <1>2, <1>3, <1>4, <1>5, <1>6, <1>7, <1>8, <1>9, <1>10, <1>11, <1>12, <1>13,
     <1>14, <1>15, <1>16 DEF Next, ThreadStep, ReactorStep, CallStep

\* A call returns at most once, and its error code tells the truth: the reply was read
\* whole, the time was over, or nobody answered the connect.
THEOREM SpecImplementsRpcCall == Spec => ImplementsRpcCall
<1>1. Init => Abstract!Init
  BY InitAbstract
<1>2. IInv /\ [Next]_vars => [Abstract!Next]_(Abstract!vars)
  BY StepAbstract
<1>3. QED
  BY <1>1, <1>2, IInvHolds, PTL DEF Spec, ImplementsRpcCall, Abstract!Spec
=============================================================================
