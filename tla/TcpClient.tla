------------------------------ MODULE TcpClient ------------------------------
(***************************************************************************)
(* One RPC: TcpClient::sendAndRecvTinyPb called by a coroutine of one IO   *)
(* thread, with the connect, write and read hooks it yields in, the client *)
(* TcpConnection's input, execute and output, the timer t1 of the call and *)
(* the timer t2 of connect_hook, and the turns of the reactor that resume  *)
(* the coroutine.                                                          *)
(*                                                                         *)
(* The reactor serves this call only: no other event is the first of a     *)
(* batch (CoroutineScheduler has those), no other timer is in its Timer,   *)
(* and socket() returns the number that close() has just freed.            *)
(***************************************************************************)
EXTENDS Integers, Sequences

CONSTANTS
  Chunks,     \* pieces in which the reply arrives
  MaxErrors   \* bound: connects that fail at once with an errno not told apart

ASSUME ClientAssumption ==
  /\ Chunks \in Nat \ {0}
  /\ MaxErrors \in Nat

VARIABLES
  pc,          \* where sendAndRecvTinyPb stands
  running,     \* the coroutine has the thread
  can_resume,  \* m_can_resume
  loop,        \* where Reactor::loop stands
  batch,       \* events of the last epoll_wait not yet handled
  first,       \* first_coroutine is the coroutine
  tasks,       \* the tasks onTimer has still to run
  watch,       \* m_listen_events of the socket
  sock,        \* the socket, and what the peer did to it
  avail,       \* pieces of the reply that wait in the socket
  got,         \* pieces in m_read_buffer
  timer,       \* where the TimerEvents t1 and t2 are
  is_timeout,  \* is_timeout of sendAndRecvTinyPb
  over_time,   \* m_is_over_time of the connection
  no_connect,  \* is_timeout of connect_hook
  errors,      \* connects that failed at once so far
  result       \* what the call returned

loopVars  == <<loop, batch, first, tasks>>
sockVars  == <<watch, sock, avail>>
timerVars == <<timer, is_timeout, over_time, no_connect>>
coVars    == <<pc, running, can_resume>>
vars == <<coVars, loopVars, sockVars, timerVars, got, errors, result>>

Pending == {"armed", "due"}

\* What onTimer may have collected and not yet run.
TaskLists == {<<>>, <<"t1">>, <<"t2">>, <<"t1", "t2">>, <<"t2", "t1">>}

TypeOK ==
  /\ pc \in {"start", "connect", "connecting", "reconnect", "output", "writing",
             "rewrite", "input", "reading", "reread", "execute", "err_deal", "dead",
             "returned"}
  /\ running \in BOOLEAN /\ can_resume \in BOOLEAN
  /\ loop \in {"first", "wait", "batch"}
  /\ batch \subseteq {"fd", "timer"}
  /\ first \in BOOLEAN
  /\ tasks \in TaskLists
  /\ watch \in {"none", "read", "write"}
  /\ sock \in {"new", "connecting", "connected", "refused", "closed"}
  /\ avail \in 0..Chunks /\ got \in 0..Chunks /\ avail + got <= Chunks
  /\ timer \in [{"t1", "t2"} ->
                  {"none", "collected", "fired", "deleted", "erased"} \cup Pending]
  /\ is_timeout \in BOOLEAN /\ over_time \in BOOLEAN /\ no_connect \in BOOLEAN
  /\ errors \in 0..MaxErrors
  /\ result \in {"none", "OK", "ERROR_PEER_CLOSED", "ERROR_CONNECT_SYS_ERR",
                 "ERROR_RPC_CALL_TIMEOUT"}

Init ==
  /\ pc = "start" /\ running = TRUE /\ can_resume = TRUE
  /\ loop = "first" /\ batch = {} /\ first = FALSE /\ tasks = <<>>
  /\ watch = "none" /\ sock = "new" /\ avail = 0 /\ got = 0
  /\ timer = [t \in {"t1", "t2"} |-> "none"]
  /\ is_timeout = FALSE /\ over_time = FALSE /\ no_connect = FALSE
  /\ errors = 0 /\ result = "none"

-----------------------------------------------------------------------------
(* Timers                                                                  *)

Other(t) == IF t = "t1" THEN "t2" ELSE "t1"

\* delTimerEvent(t) takes t out of the Timer.  When t has been collected, the
\* event of a later time takes its place and is erased.  The mutants delete
\* nothing, and the other event as well.
DelTimerNone(t) == timer

DelTimerBoth(t) ==
  [u \in {"t1", "t2"} |-> IF timer[u] \in Pending THEN "deleted" ELSE timer[u]]

DelTimer(t) ==
  IF timer[t] \in Pending THEN [timer EXCEPT ![t] = "deleted"]
  ELSE IF timer[Other(t)] \in Pending THEN [timer EXCEPT ![Other(t)] = "erased"]
  ELSE timer

\* The arrive time of a timer has come.
Expire(t) ==
  /\ timer[t] = "armed"
  /\ timer' = [timer EXCEPT ![t] = "due"]
  /\ UNCHANGED <<coVars, loopVars, sockVars, is_timeout, over_time, no_connect, got,
                 errors, result>>

-----------------------------------------------------------------------------
(* The reactor                                                             *)

\* Where a coroutine goes on that is resumed at p.
BackFrom(p) ==
  CASE p = "connecting" -> "reconnect"
    [] p = "writing" -> "rewrite"
    [] p = "reading" -> "reread"
    [] OTHER -> p

\* Coroutine::Resume.  After the call has returned, the coroutine waits for other
\* things: what a stray Resume does to them is not modelled.
Resume ==
  IF pc \in {"connecting", "writing", "reading"} /\ can_resume
  THEN /\ running' = TRUE
       /\ pc' = BackFrom(pc)
       /\ UNCHANGED can_resume
  ELSE UNCHANGED coVars

\* What epoll_wait reports of the socket: level-triggered, for its mask.
SocketReady ==
  \/ watch = "read" /\ (avail > 0 \/ sock = "closed")
  \/ watch = "write" /\ sock \in {"connected", "refused", "closed"}

TimerReady == \E t \in {"t1", "t2"} : timer[t] = "due"

ResumeFirst ==
  /\ loop = "first" /\ ~running
  /\ IF first THEN Resume ELSE UNCHANGED coVars
  /\ first' = FALSE
  /\ loop' = "wait"
  /\ UNCHANGED <<batch, tasks, sockVars, timerVars, got, errors, result>>

EpollWait ==
  /\ loop = "wait" /\ ~running
  /\ SocketReady \/ TimerReady
  /\ batch' = {e \in {"fd", "timer"} : \/ e = "fd" /\ SocketReady
                                       \/ e = "timer" /\ TimerReady}
  /\ loop' = "batch"
  /\ UNCHANGED <<coVars, first, tasks, sockVars, timerVars, got, errors, result>>

\* The socket's event: its coroutine, if it still has one, is kept for the next turn.
HandleFd ==
  /\ loop = "batch" /\ ~running /\ "fd" \in batch /\ tasks = <<>>
  /\ batch' = batch \ {"fd"}
  /\ first' = (first \/ watch # "none")
  /\ UNCHANGED <<coVars, loop, tasks, sockVars, timerVars, got, errors, result>>

\* The timer's event: onTimer, at once, collects the due events in the order of
\* their times.
HandleTimer ==
  /\ loop = "batch" /\ ~running /\ "timer" \in batch
  /\ batch' = batch \ {"timer"}
  /\ \E s \in TaskLists \ {<<>>} :
       /\ {t \in {"t1", "t2"} : timer[t] = "due"} = {s[i] : i \in DOMAIN s}
       /\ tasks' = s
  /\ timer' = [t \in {"t1", "t2"} |-> IF timer[t] = "due" THEN "collected" ELSE timer[t]]
  /\ UNCHANGED <<coVars, loop, first, sockVars, is_timeout, over_time, no_connect,
                 got, errors, result>>

\* timer_cb of the call, or timeout_cb of connect_hook.
RunTimerTask ==
  LET t == Head(tasks) IN
  /\ ~running /\ tasks # <<>>
  /\ tasks' = Tail(tasks)
  /\ timer' = [timer EXCEPT ![t] = "fired"]
  /\ is_timeout' = (is_timeout \/ t = "t1")
  /\ over_time' = (over_time \/ t = "t1")
  /\ no_connect' = (no_connect \/ t = "t2")
  /\ Resume
  /\ UNCHANGED <<loop, batch, first, sockVars, got, errors, result>>

BatchDone ==
  /\ loop = "batch" /\ ~running /\ batch = {} /\ tasks = <<>>
  /\ loop' = "first"
  /\ UNCHANGED <<coVars, batch, first, tasks, sockVars, timerVars, got, errors, result>>

-----------------------------------------------------------------------------
(* sendAndRecvTinyPb: each step runs up to a choice or a Yield             *)

At(p) == running /\ pc = p

Goto(p) == pc' = p /\ UNCHANGED <<running, can_resume>>

\* toEpoll, and Yield.
WaitFor(event, p) ==
  /\ watch' = event
  /\ pc' = p /\ running' = FALSE /\ UNCHANGED can_resume

\* The call returns: what it still has in the Timer is deleted, if it does so.
Return(code, timers) ==
  /\ result' = code
  /\ timer' = timers
  /\ Goto("returned")

\* unregisterFromReactor, close, socket().
FreshSocket == sock' = "new" /\ watch' = "none" /\ avail' = 0

AddCallTimer ==
  /\ At("start")
  /\ timer' = [timer EXCEPT !["t1"] = "armed"]
  /\ Goto("connect")
  /\ UNCHANGED <<loopVars, sockVars, is_timeout, over_time, no_connect, got, errors, result>>

\* The first connect of connect_hook.
ConnectAtOnce ==
  /\ At("connect")
  /\ sock' = "connected"
  /\ Goto("output")
  /\ UNCHANGED <<loopVars, watch, avail, timerVars, got, errors, result>>

ConnectFails ==
  /\ At("connect")
  /\ FreshSocket
  /\ \/ Return("ERROR_PEER_CLOSED", DelTimer("t1")) /\ UNCHANGED errors
     \/ Return("ERROR_CONNECT_SYS_ERR", DelTimer("t1")) /\ UNCHANGED errors
     \/ /\ errors < MaxErrors
        /\ errors' = errors + 1
        /\ Goto("connect")
        /\ UNCHANGED <<timer, result>>
  /\ UNCHANGED <<loopVars, is_timeout, over_time, no_connect, got>>

ConnectInProgress ==
  /\ At("connect")
  /\ sock' = "connecting"
  /\ timer' = [timer EXCEPT !["t2"] = "armed"]
  /\ no_connect' = FALSE
  /\ WaitFor("write", "connecting")
  /\ UNCHANGED <<loopVars, avail, is_timeout, over_time, got, errors, result>>

\* Back in connect_hook: delListenEvents, delTimerEvent, and connect again.
ConnectSucceeds ==
  /\ At("reconnect") /\ sock = "connected"
  /\ watch' = "none"
  /\ timer' = DelTimer("t2")
  /\ Goto("output")
  /\ UNCHANGED <<loopVars, sock, avail, is_timeout, over_time, no_connect, got, errors,
                 result>>

\* resetFd, and what errno says.  ETIMEDOUT of connect_hook hides ECONNREFUSED.
ReconnectFails ==
  /\ At("reconnect") /\ sock # "connected"
  /\ FreshSocket
  /\ \/ is_timeout /\ Goto("err_deal") /\ timer' = DelTimer("t2") /\ UNCHANGED result
     \/ /\ ~is_timeout /\ ~no_connect /\ sock = "refused"
        /\ Return("ERROR_PEER_CLOSED",
                  [DelTimer("t2") EXCEPT !["t1"] = IF @ \in Pending THEN "deleted" ELSE @])
     \/ /\ ~is_timeout /\ (no_connect \/ sock # "refused")
        /\ Goto("connect") /\ timer' = DelTimer("t2") /\ UNCHANGED result
  /\ UNCHANGED <<loopVars, is_timeout, over_time, no_connect, got, errors>>

\* output: the request is written, or write_hook waits.  Nothing is written once
\* the call is over time.
Write(p) ==
  \/ ~over_time /\ sock = "connected" /\ Goto("input") /\ watch' = "none"
  \/ ~over_time /\ p = "output" /\ WaitFor("write", "writing")
  \/ ~over_time /\ p = "rewrite" /\ Goto("output") /\ watch' = "none"
  \/ over_time /\ Goto("err_deal") /\ watch' = "none"

Output ==
  /\ \E p \in {"output", "rewrite"} : At(p) /\ Write(p)
  /\ UNCHANGED <<loopVars, sock, avail, timerVars, got, errors, result>>

\* A read takes what there is, and recycleWrite counts it.
ReadAll == got' = got + avail /\ avail' = 0

\* input: the first read of read_hook.
Input ==
  /\ At("input")
  /\ ReadAll
  /\ IF avail > 0 THEN Goto("execute") /\ UNCHANGED watch ELSE WaitFor("read", "reading")
  /\ UNCHANGED <<loopVars, sock, timerVars, errors, result>>

\* The second read.  0 bytes or an error are taken for a close of the peer, unless
\* the call is over time: clearClient, setCanResume(false), Yield.
Reread ==
  /\ At("reread")
  /\ watch' = "none"
  /\ ReadAll
  /\ \/ over_time /\ Goto("err_deal") /\ UNCHANGED sock
     \/ ~over_time /\ avail > 0 /\ Goto("execute") /\ UNCHANGED sock
     \/ /\ ~over_time /\ avail = 0
        /\ sock' = "closed"
        /\ pc' = "dead" /\ running' = FALSE /\ can_resume' = FALSE
  /\ UNCHANGED <<loopVars, timerVars, errors, result>>

\* execute: the reply is decoded when it is whole.  The mutant takes any piece for it.
ReplyBegun == got > 0

ReplyWhole == got = Chunks

Execute ==
  /\ At("execute")
  /\ \/ ReplyWhole /\ Return("OK", DelTimer("t1"))
     \/ ~ReplyWhole /\ Goto("input") /\ UNCHANGED <<timer, result>>
  /\ UNCHANGED <<loopVars, sockVars, is_timeout, over_time, no_connect, got, errors>>

\* m_connection->setOverTimeFlag(false).
ResetOverTime == over_time' = FALSE

\* err_deal.  Its other result, ERROR_PEER_CLOSED, needs a Closed connection, which
\* the coroutine does not live to see.
ErrDeal ==
  /\ At("err_deal")
  /\ FreshSocket
  /\ ResetOverTime
  /\ Return("ERROR_RPC_CALL_TIMEOUT", timer)
  /\ UNCHANGED <<loopVars, is_timeout, no_connect, got, errors>>

\* The caller goes on, and waits for something else.
Leave ==
  /\ At("returned")
  /\ running' = FALSE
  /\ UNCHANGED <<pc, can_resume, loopVars, sockVars, timerVars, got, errors, result>>

-----------------------------------------------------------------------------
(* The peer                                                                *)

PeerAnswersConnect ==
  /\ sock = "connecting"
  /\ sock' \in {"connected", "refused"}
  /\ UNCHANGED <<coVars, loopVars, watch, avail, timerVars, got, errors, result>>

PeerSends ==
  /\ sock = "connected" /\ pc \in {"input", "reading", "reread", "execute"}
  /\ avail + got < Chunks
  /\ avail' = avail + 1
  /\ UNCHANGED <<coVars, loopVars, watch, sock, timerVars, got, errors, result>>

PeerCloses ==
  /\ sock = "connected"
  /\ sock' = "closed"
  /\ UNCHANGED <<coVars, loopVars, watch, avail, timerVars, got, errors, result>>

-----------------------------------------------------------------------------

ReactorStep ==
  \/ ResumeFirst \/ EpollWait \/ HandleFd \/ HandleTimer \/ RunTimerTask \/ BatchDone

CallStep ==
  \/ AddCallTimer \/ ConnectAtOnce \/ ConnectFails \/ ConnectInProgress
  \/ ConnectSucceeds \/ ReconnectFails \/ Output \/ Input \/ Reread \/ Execute
  \/ ErrDeal \/ Leave

ThreadStep == ReactorStep \/ CallStep

Next ==
  \/ ThreadStep
  \/ \E t \in {"t1", "t2"} : Expire(t)
  \/ PeerAnswersConnect \/ PeerSends \/ PeerCloses

Spec == Init /\ [][Next]_vars

\* The IO thread keeps running and time passes.  Nothing is assumed of the peer.
FairSpec == Spec /\ WF_vars(ThreadStep) /\ \A t \in {"t1", "t2"} : WF_vars(Expire(t))

-----------------------------------------------------------------------------
(* Properties                                                              *)

\* No TimerEvent outlives the frame its callback refers to: connect_hook and the
\* call leave none of theirs behind in the Timer, whichever way they end.  Only when
\* onTimer has collected both timers at once, and that of the connect has let the
\* call return, does the callback of the call run after it.
NoTimerLeft ==
  /\ pc \notin {"connecting", "reconnect"} => timer["t2"] \notin Pending
  /\ pc = "returned" => timer["t1"] \notin Pending
  /\ pc = "returned" /\ timer["t1"] = "collected" => timer["t2"] = "fired" /\ no_connect

\* A call ends, unless its coroutine was retired (the peer closed) or its timer
\* erased (connect_hook deleted its own timer after that had fired).
ReturnsUnlessLost ==
  <>(pc = "returned" \/ ~can_resume \/ timer["t1"] = "erased")

\* What the caller sees of all this.
Abstract == INSTANCE RpcCall WITH
  phase    <- CASE pc = "returned" -> "returned"
                [] pc = "dead" -> "lost"
                [] OTHER -> "calling",
  reply    <- CASE got = 0 -> "none"
                [] got \in 1..(Chunks - 1) -> "part"
                [] OTHER -> "whole",
  deadline <- timer["t1"] \in {"collected", "fired"},
  result   <- result

\* The call, with the hooks, timers and the reactor below it, implements RpcCall: it
\* returns once, with a code its history justifies, and its time does not run out
\* after it has returned.
ImplementsRpcCall == Abstract!Spec
=============================================================================
