------------------------------ MODULE RpcChain ------------------------------
(***************************************************************************)
(* A call from TinyPbRpcChannel::CallMethod through the dispatcher of the  *)
(* server and back, and the calls that a method or a servlet makes on its  *)
(* turn: which number (msg_req) they carry, what runs, and what the        *)
(* controller of the caller says in the end.                               *)
(*                                                                         *)
(* Several coroutines serve connections, on several IO threads, and the    *)
(* calls they make come to the same process.  A call has a connection of   *)
(* its own (CallMethod makes a TcpClient), which delivers its packets      *)
(* (TinyPbStream, TcpClient); only that it may end early, by its timer or  *)
(* for want of a connection, matters here.                                 *)
(***************************************************************************)
EXTENDS Integers, Sequences, FiniteSets, SequencesExt

CONSTANTS
  Thread,     \* IO threads
  Cor,        \* coroutines of connections
  Client,     \* callers in other processes; each makes one call, with a number of its own
  Number,     \* the number of a client, a sequence of characters that are not digits
  Asked,      \* the names that are called: sequences of the parts between dots
  Services,   \* m_service_map: a function from names to sets of method names
  Nested,     \* what a method, or the servlet (Url), does: a sequence of the names it
              \* calls, and of Sleep
  Required,   \* names whose response has required fields
  Nine,       \* the highest digit
  m_msg_req_len,
  NULL

\* What an HTTP request asks for; every registered one is served alike.
Url == <<"/">>

\* sleep(), among what a method does.
Sleep == <<"sleep">>

\* decode refuses a packet without a number.
ASSUME ChainAssumption ==
  /\ Nine \in Nat \ {0} /\ m_msg_req_len \in Nat \ {0}
  /\ NULL \notin Cor \cup Thread
  /\ Client \cap Cor = {}
  /\ Number \in [Client -> Seq(Nat) \ {<<>>}]
  /\ Asked \cup {Url} \subseteq DOMAIN Nested
  /\ \A n \in DOMAIN Nested : Nested[n] \in Seq(DOMAIN Nested \cup {Sleep})

VARIABLES
  current,   \* t_cur_coroutine of a thread, NULL for its main coroutine
  run_time,  \* t_cur_run_time: the coroutine whose RunTime it points to, or NULL
  nu,        \* t_msg_req_nu
  cor,       \* where a coroutine stands, what it serves, what it has still to do, and the
             \* thread whose Timer is to wake it
  m_msg_no,  \* of the RunTime of a coroutine
  call,      \* the calls of a caller: how many, and the controller of the last
  sent,      \* requests between encode and dispatch
  replies,   \* replies between encode and the caller
  ran        \* the connections whose method has been called

vars == <<current, run_time, nu, cor, m_msg_no, call, sent, replies, ran>>

Caller == Client \cup Cor

Empty == <<>>

\* A request on the connection <<x, k>>: the k-th call of x.
Request(x, k, number, name, data) ==
  [conn |-> <<x, k>>, msg_req |-> number, name |-> name, data |-> data]

NoCall == [k |-> 0, open |-> FALSE, name |-> Empty, code |-> "none", done |-> FALSE]

Idle == [pc |-> "input", req |-> NULL, todo |-> <<>>, timer |-> NULL]

Codes == {"none", "ok", "PARSE_SERVICE_NAME", "SERVICE_NOT_FOUND", "METHOD_NOT_FOUND",
          "FAILED_SERIALIZE", "FAILED_DESERIALIZE", "RPC_CALL_TIMEOUT"}

TypeOK ==
  /\ current \in [Thread -> Cor \cup {NULL}]
  /\ run_time \in [Thread -> Cor \cup {NULL}]
  /\ \A t \in Thread : nu[t] = Empty \/ nu[t] \in [1..m_msg_req_len -> 0..Nine]
  /\ \A c \in Cor : /\ cor[c].pc \in {"input", "method", "waiting", "sleeping"}
                    /\ cor[c].timer \in Thread \cup {NULL}
  /\ \A x \in Caller : call[x].code \in Codes

Init ==
  /\ current = [t \in Thread |-> NULL] /\ run_time = [t \in Thread |-> NULL]
  /\ nu = [t \in Thread |-> Empty]
  /\ cor = [c \in Cor |-> Idle]
  /\ m_msg_no = [c \in Cor |-> Empty]
  /\ call = [x \in Caller |-> NoCall]
  /\ sent = {} /\ replies = {} /\ ran = {}

-----------------------------------------------------------------------------
(* Message numbers                                                         *)

MaxNumber == [i \in 1..m_msg_req_len |-> Nine]

\* The last digit that is not a nine is incremented, and those behind it are zeroes.
NextNumber(n) ==
  LET i == CHOOSE j \in DOMAIN n : n[j] # Nine /\ \A k \in DOMAIN n : k > j => n[k] = Nine
  IN  [j \in DOMAIN n |-> IF j < i THEN n[j] ELSE IF j = i THEN n[j] + 1 ELSE 0]

\* genMsgNumber on thread t: a random number at first and after the highest.
GenMsgNumber(t) ==
  IF nu[t] = Empty \/ nu[t] = MaxNumber THEN [1..m_msg_req_len -> 0..Nine]
  ELSE {NextNumber(nu[t])}

-----------------------------------------------------------------------------
(* Coroutine::Resume and Yield                                             *)

\* Resume points the thread to the RunTime of the coroutine.  In the mutant it
\* does not.
KeptRunTime(t, c) == run_time[t]

ResumedRunTime(t, c) == c

Resume(t, c) ==
  /\ current[t] = NULL
  /\ current' = [current EXCEPT ![t] = c]
  /\ run_time' = [run_time EXCEPT ![t] = ResumedRunTime(t, c)]

Yield(t) ==
  /\ current' = [current EXCEPT ![t] = NULL]
  /\ run_time' = [run_time EXCEPT ![t] = NULL]

-----------------------------------------------------------------------------
(* TinyPbRpcChannel::CallMethod                                            *)

\* SetError, or nothing; then done runs.
Ends(x, code) ==
  [call EXCEPT ![x].open = FALSE, ![x].code = code, ![x].done = (code = "ok")]

Begins(x, name) ==
  [call EXCEPT ![x] = [k |-> @.k + 1, open |-> TRUE, name |-> name, code |-> "none",
                       done |-> FALSE]]

\* A client calls: an HTTP request, or a packet with its number, which may have no
\* name or data that is not that of the request.
ClientCalls(a) ==
  /\ call[a].k = 0
  /\ \/ /\ call' = Begins(a, Url)
        /\ sent' = sent \cup {Request(a, 1, Empty, Url, "http")}
     \/ \E name \in Asked, data \in {"good", "bad"} :
          /\ call' = Begins(a, name)
          /\ sent' = sent \cup {Request(a, 1, Number[a], name, data)}
  /\ UNCHANGED <<current, run_time, nu, cor, m_msg_no, replies, ran>>

\* The response is parsed before the error code is looked at.  An empty response has
\* no required fields.  In the mutant nobody looks at the error code.
CodeUnread(reply, name) == "ok"

CodeOf(reply, name) ==
  IF reply.code # "ok" /\ name \in Required THEN "FAILED_DESERIALIZE" ELSE reply.code

\* The reply of this connection has come.  A client ends its call; a coroutine is
\* resumed, by whatever thread.
Replied(x) ==
  {r \in replies : call[x].open /\ r.conn = <<x, call[x].k>>}

ClientReturns(a) ==
  /\ \E r \in Replied(a) :
       /\ call' = Ends(a, CodeOf(r, call[a].name))
       /\ replies' = replies \ {r}
  /\ UNCHANGED <<current, run_time, nu, cor, m_msg_no, sent, ran>>

NestedReturns(t, c) ==
  /\ cor[c].pc = "waiting"
  /\ \E r \in Replied(c) :
       /\ call' = Ends(c, CodeOf(r, call[c].name))
       /\ replies' = replies \ {r}
  /\ Resume(t, c)
  /\ cor' = [cor EXCEPT ![c].pc = "method"]
  /\ UNCHANGED <<nu, m_msg_no, sent, ran>>

\* The timer of the call, or a connection that fails: the rest of the connection is
\* gone, but a request that has been sent will be served.
ClientGivesUp(a) ==
  /\ call[a].open
  /\ call' = Ends(a, "RPC_CALL_TIMEOUT")
  /\ UNCHANGED <<current, run_time, nu, cor, m_msg_no, sent, replies, ran>>

NestedGivesUp(t, c) ==
  /\ cor[c].pc = "waiting"
  /\ call' = Ends(c, "RPC_CALL_TIMEOUT")
  /\ Resume(t, c)
  /\ cor' = [cor EXCEPT ![c].pc = "method"]
  /\ UNCHANGED <<nu, m_msg_no, sent, replies, ran>>

\* The number of a call whose controller has none: that of the request the coroutine
\* serves, or a new one.
NumberOf(t) ==
  IF run_time[t] # NULL /\ m_msg_no[run_time[t]] # Empty
  THEN {<<m_msg_no[run_time[t]], nu[t]>>}
  ELSE {<<n, n>> : n \in GenMsgNumber(t)}

\* The method in coroutine c makes its next call, and waits for it.  The full name of
\* a method is not empty, so encode succeeds.
CallNested(t, c) ==
  /\ current[t] = c /\ cor[c].pc = "method" /\ cor[c].todo # <<>> /\ Head(cor[c].todo) # Sleep
  /\ call' = Begins(c, Head(cor[c].todo))
  /\ \E n \in NumberOf(t) :
       /\ sent' = sent \cup {Request(c, call[c].k + 1, n[1], Head(cor[c].todo), "good")}
       /\ nu' = [nu EXCEPT ![t] = n[2]]
  /\ cor' = [cor EXCEPT ![c].pc = "waiting", ![c].todo = Tail(@)]
  /\ Yield(t)
  /\ UNCHANGED <<m_msg_no, replies, ran>>

-----------------------------------------------------------------------------
(* sleep_hook                                                              *)

\* The event goes to the Timer of the thread that runs the method.
SleepHook(t, c) ==
  /\ current[t] = c /\ cor[c].pc = "method" /\ cor[c].todo # <<>> /\ Head(cor[c].todo) = Sleep
  /\ cor' = [cor EXCEPT ![c].pc = "sleeping", ![c].todo = Tail(@), ![c].timer = t]
  /\ Yield(t)
  /\ UNCHANGED <<nu, m_msg_no, call, sent, replies, ran>>

\* timeout_cb, run by that thread.
TimeoutCb(t, c) ==
  /\ cor[c].pc = "sleeping" /\ cor[c].timer = t
  /\ cor' = [cor EXCEPT ![c].pc = "method", ![c].timer = NULL]
  /\ Resume(t, c)
  /\ UNCHANGED <<nu, m_msg_no, call, sent, replies, ran>>

-----------------------------------------------------------------------------
(* The dispatchers                                                         *)

\* parseServiceFullName: what stands before the first dot, and behind it.
Parses(name) == Len(name) >= 2

ServiceOf(name) == <<Head(name)>>

MethodOf(name) == Tail(name)

\* The error of a request, or "ok" when its method is called.
Dispatch(req) ==
  IF ~Parses(req.name) THEN "PARSE_SERVICE_NAME"
  ELSE IF ServiceOf(req.name) \notin DOMAIN Services THEN "SERVICE_NOT_FOUND"
  ELSE IF MethodOf(req.name) \notin Services[ServiceOf(req.name)] THEN "METHOD_NOT_FOUND"
  ELSE IF req.data = "bad" THEN "FAILED_SERIALIZE"
  ELSE "ok"

\* encodePbData refuses a packet without a name.
Encodes(name) == name # Empty

\* The reply is encoded into the buffer of the connection, unless it has no name.  The
\* mutant returns without a reply when there is no such method.
ReplyIfFound(req, code) ==
  IF Encodes(req.name) /\ code # "METHOD_NOT_FOUND"
  THEN {[conn |-> req.conn, msg_req |-> req.msg_req, code |-> code]} ELSE {}

Reply(req, code) ==
  IF Encodes(req.name) THEN {[conn |-> req.conn, msg_req |-> req.msg_req, code |-> code]} ELSE {}

\* A response has no name: encode of HttpCodeC takes every one.
HttpReply(req) == {[conn |-> req.conn, msg_req |-> Empty, code |-> "ok"]}

\* TinyPbRpcDispacther::dispatch, in coroutine c on thread t, up to CallMethod of the
\* service.
DispatchPacket(t, c, req) ==
  /\ req.data # "http"
  /\ m_msg_no' = [m_msg_no EXCEPT ![c] = req.msg_req]
  /\ IF Dispatch(req) = "ok"
     THEN /\ cor' = [cor EXCEPT ![c] = [Idle EXCEPT !.pc = "method", !.req = req,
                                                   !.todo = Nested[req.name]]]
          /\ ran' = ran \cup {<<req.conn, req.name>>}
          /\ Resume(t, c)
          /\ UNCHANGED replies
     ELSE /\ replies' = replies \cup Reply(req, Dispatch(req))
          /\ current[t] = NULL
          /\ UNCHANGED <<cor, ran, current, run_time>>
  /\ UNCHANGED nu

\* HttpDispacther::dispatch, up to handle of the servlet.
DispatchHttp(t, c, req) ==
  /\ req.data = "http"
  /\ \E n \in GenMsgNumber(t) :
       /\ nu' = [nu EXCEPT ![t] = n]
       /\ m_msg_no' = [m_msg_no EXCEPT ![c] = n]
  /\ cor' = [cor EXCEPT ![c] = [Idle EXCEPT !.pc = "method", !.req = req, !.todo = Nested[Url]]]
  /\ ran' = ran \cup {<<req.conn, req.name>>}
  /\ Resume(t, c)
  /\ UNCHANGED replies

\* input() and execute(): a coroutine takes a request from its connection.
Serve(t, c) ==
  /\ cor[c].pc = "input"
  /\ \E req \in sent :
       /\ sent' = sent \ {req}
       /\ DispatchPacket(t, c, req) \/ DispatchHttp(t, c, req)
  /\ UNCHANGED call

\* The method has returned; its response may fail to serialize.
Finish(t, c) ==
  /\ current[t] = c /\ cor[c].pc = "method" /\ cor[c].todo = <<>>
  /\ \/ cor[c].req.data = "http" /\ replies' = replies \cup HttpReply(cor[c].req)
     \/ /\ cor[c].req.data # "http"
        /\ \E code \in {"ok", "FAILED_SERIALIZE"} :
             replies' = replies \cup Reply(cor[c].req, code)
  /\ cor' = [cor EXCEPT ![c] = Idle]
  /\ Yield(t)
  /\ UNCHANGED <<nu, m_msg_no, call, sent, ran>>

-----------------------------------------------------------------------------

CorStep(c) ==
  \E t \in Thread :
    \/ Serve(t, c) \/ CallNested(t, c) \/ NestedReturns(t, c) \/ Finish(t, c)
    \/ SleepHook(t, c) \/ TimeoutCb(t, c)

GiveUp(c) == \E t \in Thread : NestedGivesUp(t, c)

Next ==
  \/ \E a \in Client : ClientCalls(a) \/ ClientReturns(a) \/ ClientGivesUp(a)
  \/ \E c \in Cor : CorStep(c) \/ GiveUp(c)

Spec == Init /\ [][Next]_vars

-----------------------------------------------------------------------------
(* Properties                                                              *)

Travelling == sent \cup {cor[c].req : c \in {d \in Cor : cor[d].pc # "input"}}

\* A call that a method makes carries the number of the request the method serves,
\* whatever else its thread has served in between and on whatever thread it goes on;
\* and a reply has the number its caller looks for.
NumbersFollow ==
  /\ \A c \in Cor, req \in Travelling :
       call[c].open /\ req.conn = <<c, call[c].k>> =>
         /\ req.msg_req = m_msg_no[c]
         /\ cor[c].req.data # "http" => req.msg_req = cor[c].req.msg_req
  /\ \A c \in Cor : \A r \in Replied(c) : r.msg_req = m_msg_no[c]

\* What the controller says of a call that is over is true: its closure has run if and
\* only if it says ok, and then the method that was named has been called; an error
\* of the lookup says that nothing has been called.
ControllerTruthful ==
  \A x \in Caller : call[x].k > 0 /\ ~call[x].open =>
    LET called == {e \in ran : e[1] = <<x, call[x].k>>} IN
    /\ call[x].done <=> call[x].code = "ok"
    /\ call[x].code = "ok" => called = {<<<<x, call[x].k>>, call[x].name>>}
    /\ call[x].code \in {"PARSE_SERVICE_NAME", "SERVICE_NOT_FOUND", "METHOD_NOT_FOUND"} =>
         called = {}

\* No call gets lost: one that has not ended is a request on its way, or is served, or
\* has its reply on the way, unless it was a packet without a name, which is dropped.
NoCallLost ==
  \A x \in Caller : call[x].open =>
    \/ \E req \in Travelling : req.conn = <<x, call[x].k>>
    \/ Replied(x) # {}
    \/ call[x].name = Empty
=============================================================================
