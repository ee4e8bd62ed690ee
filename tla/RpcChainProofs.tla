--------------------------- MODULE RpcChainProofs ---------------------------
(***************************************************************************)
(* Proofs about RpcChain, for every number of threads, coroutines and      *)
(* clients, and whatever the methods call: the numbers of calls follow     *)
(* the request they are made for, no call is lost, and what a controller   *)
(* says is true.                                                           *)
(***************************************************************************)
EXTENDS RpcChain, WellFoundedInduction, TLAPS

Busy(c) == cor[c].pc # "input"

Names == DOMAIN Nested \cup {Empty, Sleep}

Requests ==
  [conn : Caller \X Nat, msg_req : Seq(Nat), name : Names, data : {"http", "good", "bad"}]

CorRecords ==
  [pc : {"input", "method", "waiting", "sleeping"}, req : Requests \cup {NULL},
   todo : Seq(Names), timer : Thread \cup {NULL}]

CallRecords == [k : Nat, open : BOOLEAN, name : Names, code : Codes, done : BOOLEAN]

Digits == {Empty} \cup [1..m_msg_req_len -> 0..Nine]

TypeInv ==
  /\ current \in [Thread -> Cor \cup {NULL}]
  /\ run_time \in [Thread -> Cor \cup {NULL}]
  /\ nu \in [Thread -> Digits]
  /\ cor \in [Cor -> CorRecords]
  /\ m_msg_no \in [Cor -> Seq(Nat)]
  /\ call \in [Caller -> CallRecords]
  /\ sent \subseteq Requests
  /\ replies \subseteq [conn : Caller \X Nat, msg_req : Seq(Nat), code : Codes]
  /\ ran \subseteq (Caller \X Nat) \X Names

\* A thread's RunTime is that of its coroutine.  A coroutine has its call open while it
\* waits, and keeps the number of the request it serves, which it has.
CorInv ==
  /\ \A t \in Thread : run_time[t] = current[t]
  /\ \A c \in Cor : call[c].open <=> cor[c].pc = "waiting"
  /\ \A c \in Cor : Busy(c) => cor[c].req \in Requests /\ m_msg_no[c] # Empty
  /\ \A c \in Cor : Busy(c) /\ cor[c].req.data # "http" => cor[c].req.msg_req = m_msg_no[c]

\* A packet has a number, and an HTTP request comes from a client.
KindInv ==
  /\ \A req \in sent : req.data # "http" => req.msg_req # Empty
  /\ \A req \in Travelling : req.data = "http" => req.conn[1] \in Client

\* No connection but those of calls that have been made.
BoundInv ==
  /\ \A r \in Travelling \cup replies : r.conn[2] <= call[r.conn[1]].k
  /\ \A e \in ran : e[1][2] <= call[e[1][1]].k

\* A connection has one request or one reply, in one place; none when its call has
\* ended by itself.
OnceInv ==
  /\ \A q, r \in sent : q.conn = r.conn => q = r
  /\ \A q, r \in replies : q.conn = r.conn => q = r
  /\ \A c, d \in Cor : Busy(c) /\ Busy(d) /\ cor[c].req.conn = cor[d].req.conn => c = d
  /\ \A q \in sent, c \in Cor : Busy(c) => cor[c].req.conn # q.conn
  /\ \A q \in Travelling, r \in replies : q.conn # r.conn
  /\ \A x \in Caller :
       call[x].k > 0 /\ ~call[x].open /\ call[x].code # "RPC_CALL_TIMEOUT" =>
         \A r \in Travelling \cup replies : r.conn # <<x, call[x].k>>

\* The request of an open call asks for what the call names.
NameInv ==
  \A x \in Caller, req \in Travelling :
    call[x].open /\ req.conn = <<x, call[x].k>> => req.name = call[x].name

\* Among the calls of methods, a set like ran, that of this name is the only one on
\* the connection, and there is none.
OnlyCalled(calls, conn, name) ==
  /\ <<conn, name>> \in calls
  /\ \A e \in calls : e[1] = conn => e = <<conn, name>>

NothingCalled(calls, conn) == \A e \in calls : e[1] # conn

NotFound == {"PARSE_SERVICE_NAME", "SERVICE_NOT_FOUND", "METHOD_NOT_FOUND"}

\* What has been called on the connection of a request, and of a reply.
RanInv ==
  /\ \A req \in sent : NothingCalled(ran, req.conn)
  /\ \A c \in Cor : Busy(c) => OnlyCalled(ran, cor[c].req.conn, cor[c].req.name)
  /\ \A x \in Caller : \A r \in Replied(x) :
       /\ r.code = "ok" => OnlyCalled(ran, r.conn, call[x].name)
       /\ r.code \in NotFound => NothingCalled(ran, r.conn)

EndInv ==
  \A x \in Caller : call[x].k > 0 /\ ~call[x].open =>
    /\ call[x].done <=> call[x].code = "ok"
    /\ call[x].code = "ok" => OnlyCalled(ran, <<x, call[x].k>>, call[x].name)
    /\ call[x].code \in NotFound => NothingCalled(ran, <<x, call[x].k>>)

IInv ==
  /\ TypeInv /\ CorInv /\ KindInv /\ BoundInv /\ OnceInv /\ NameInv /\ RanInv /\ EndInv
  /\ NumbersFollow /\ NoCallLost

-----------------------------------------------------------------------------
(* Numbers                                                                 *)

USE DEF Caller, Busy

\* A set of naturals that is not empty has a lowest element.
LEMMA LowestOfSet ==
  ASSUME NEW S \in SUBSET Nat, S # {}
  PROVE  \E x \in S : \A y \in S : x <= y
<1>1. PICK x \in S : \A y \in S : ~(<<y, x>> \in OpToRel(<, Nat))
  BY NatLessThanWellFounded, WFMin
<1>2. \A y \in S : <<y, x>> \notin {ss \in Nat \X Nat : ss[1] < ss[2]}
  BY <1>1 DEF OpToRel
<1>3. \A y \in S : x <= y
  <2> SUFFICES ASSUME NEW y \in S PROVE x <= y
    OBVIOUS
  <2>1. x \in Nat /\ y \in Nat
    OBVIOUS
  <2>2. <<y, x>> \in Nat \X Nat => ~(y < x)
    BY <1>2
  <2>3. QED
    BY <2>1, <2>2
<1>4. QED
  BY <1>3

LEMMA EmptyType == Empty \in Seq(Nat)
  BY DEF Empty

\* A number the process makes is a sequence that is not empty.
LEMMA DigitsType ==
  ASSUME NEW n \in [1..m_msg_req_len -> 0..Nine]
  PROVE  n \in Seq(Nat) /\ n # Empty
<1>1. m_msg_req_len \in Nat \ {0} /\ Nine \in Nat
  BY ChainAssumption
<1>2. n \in Seq(Nat) /\ Len(n) = m_msg_req_len
  BY <1>1
<1>3. QED
  BY <1>1, <1>2 DEF Empty

\* genMsgNumber makes such a number: there is a digit to increment.
LEMMA NumberType ==
  ASSUME TypeInv, NEW t \in Thread, NEW n \in GenMsgNumber(t)
  PROVE  n \in [1..m_msg_req_len -> 0..Nine]
<1>1. CASE nu[t] = Empty \/ nu[t] = MaxNumber
  BY <1>1 DEF GenMsgNumber
<1>2. CASE nu[t] # Empty /\ nu[t] # MaxNumber
  <2> DEFINE m == nu[t]
             len == m_msg_req_len
             IsLast(j) == j \in DOMAIN m /\ m[j] # Nine
                          /\ \A k \in DOMAIN m : k > j => m[k] = Nine
  <2>1. m \in [1..len -> 0..Nine] /\ len \in Nat /\ Nine \in Nat
    BY <1>2, ChainAssumption DEF TypeInv, Digits
  <2>2. \E j \in 1..len : m[j] # Nine
    <3>1. m # [i \in 1..len |-> Nine]
      BY <1>2 DEF MaxNumber
    <3>2. QED
      BY <2>1, <3>1
  <2>3. \E j : IsLast(j)
    <3> DEFINE S == {i \in Nat : len - i \in 1..len /\ m[len - i] # Nine}
    <3>1. PICK j \in 1..len : m[j] # Nine
      BY <2>2
    <3>2. len - j \in S
      <4>1. len - j \in Nat /\ len - (len - j) = j
        BY <2>1
      <4>2. QED
        BY <3>1, <4>1
    <3>3. PICK x \in S : \A y \in S : x <= y
      BY <3>2, LowestOfSet
    <3>4. \A k \in 1..len : k > len - x => m[k] = Nine
      <4> SUFFICES ASSUME NEW k \in 1..len, k > len - x, m[k] # Nine PROVE FALSE
        OBVIOUS
      <4>1. len - k \in Nat /\ len - (len - k) = k
        BY <2>1
      <4>2. len - k \in S
        BY <4>1
      <4>3. x \in Nat /\ x <= len - k
        BY <3>3, <4>2
      <4>4. QED
        BY <2>1, <4>3
    <3>5. IsLast(len - x)
      BY <2>1, <3>3, <3>4
    <3>6. QED
      BY <3>5
  <2>4. n = NextNumber(m)
    BY <1>2 DEF GenMsgNumber
  <2> DEFINE i == CHOOSE j \in DOMAIN m : m[j] # Nine /\ \A k \in DOMAIN m : k > j => m[k] = Nine
  <2>5. i \in 1..len /\ m[i] # Nine
    BY <2>1, <2>3
  <2>6. n = [j \in 1..len |-> IF j < i THEN m[j] ELSE IF j = i THEN m[j] + 1 ELSE 0]
    BY <2>1, <2>4 DEF NextNumber
  <2> HIDE DEF i
  <2>7. QED
    BY <2>1, <2>5, <2>6
<1>3. QED
  BY <1>1, <1>2

-----------------------------------------------------------------------------
(* Types                                                                   *)

LEMMA Updated ==
  ASSUME NEW A, NEW B, NEW f \in [A -> B], NEW a \in A, NEW b \in B
  PROVE  /\ [f EXCEPT ![a] = b] \in [A -> B] /\ [f EXCEPT ![a] = b][a] = b
         /\ \A x \in A : x # a => [f EXCEPT ![a] = b][x] = f[x]
  OBVIOUS

LEMMA BeginsType ==
  ASSUME TypeInv, NEW x \in Caller, NEW name \in Names
  PROVE  /\ Begins(x, name) \in [Caller -> CallRecords]
         /\ Begins(x, name)[x].k = call[x].k + 1 /\ Begins(x, name)[x].open
         /\ Begins(x, name)[x].name = name /\ call[x].k \in Nat
         /\ \A y \in Caller : y # x => Begins(x, name)[y] = call[y]
<1> DEFINE r == [k |-> call[x].k + 1, open |-> TRUE, name |-> name, code |-> "none",
                 done |-> FALSE]
<1>1. call \in [Caller -> CallRecords] /\ call[x] \in CallRecords
  BY DEF TypeInv
<1>2. call[x].k \in Nat /\ r \in CallRecords
  BY <1>1 DEF CallRecords, Codes
<1>3. Begins(x, name) = [call EXCEPT ![x] = r]
  BY DEF Begins
<1>4. r.k = call[x].k + 1 /\ r.open /\ r.name = name
  OBVIOUS
<1> HIDE DEF r
<1>5. QED
  BY <1>1, <1>2, <1>3, <1>4, Updated

LEMMA EndsType ==
  ASSUME TypeInv, NEW x \in Caller, NEW code \in Codes
  PROVE  /\ Ends(x, code) \in [Caller -> CallRecords]
         /\ ~Ends(x, code)[x].open /\ Ends(x, code)[x].k = call[x].k
         /\ Ends(x, code)[x].name = call[x].name
         /\ Ends(x, code)[x].code = code /\ (Ends(x, code)[x].done <=> code = "ok")
         /\ \A y \in Caller : y # x => Ends(x, code)[y] = call[y]
<1> DEFINE r == [call[x] EXCEPT !.open = FALSE, !.code = code, !.done = (code = "ok")]
<1>1. call \in [Caller -> CallRecords] /\ call[x] \in CallRecords
  BY DEF TypeInv
<1>2. /\ r \in CallRecords /\ ~r.open /\ r.k = call[x].k /\ r.name = call[x].name
      /\ r.code = code /\ (r.done <=> code = "ok")
  BY <1>1 DEF CallRecords
<1>3. Ends(x, code) = [call EXCEPT ![x] = r]
  BY <1>1 DEF Ends
<1> HIDE DEF r
<1>4. QED
  BY <1>1, <1>2, <1>3, Updated

LEMMA CallType ==
  ASSUME TypeInv, NEW x \in Caller
  PROVE  call[x] \in CallRecords /\ call[x].k \in Nat
<1>1. call[x] \in CallRecords
  BY DEF TypeInv
<1>2. QED
  BY <1>1 DEF CallRecords

LEMMA CorType ==
  ASSUME TypeInv, NEW c \in Cor
  PROVE  /\ cor[c] \in CorRecords
         /\ cor[c].todo \in Seq(Names) /\ cor[c].req \in Requests \cup {NULL}
         /\ cor[c].pc \in {"input", "method", "waiting", "sleeping"}
         /\ m_msg_no[c] \in Seq(Nat)
<1>1. cor[c] \in CorRecords /\ m_msg_no[c] \in Seq(Nat)
  BY DEF TypeInv
<1>2. QED
  BY <1>1 DEF CorRecords

\* A coroutine goes to pc, and serves what it served.
LEMMA CorMoves ==
  ASSUME TypeInv, NEW c \in Cor, NEW t \in Thread,
         NEW pc \in {"input", "method", "waiting", "sleeping"},
         \/ cor' = [cor EXCEPT ![c].pc = pc]
         \/ cor[c].todo # <<>> /\ cor' = [cor EXCEPT ![c].pc = pc, ![c].todo = Tail(@)]
         \/ /\ cor[c].todo # <<>>
            /\ cor' = [cor EXCEPT ![c].pc = pc, ![c].todo = Tail(@), ![c].timer = t]
         \/ cor' = [cor EXCEPT ![c].pc = pc, ![c].timer = NULL]
  PROVE  /\ cor' \in [Cor -> CorRecords]
         /\ cor'[c].pc = pc /\ \A d \in Cor : d # c => cor'[d] = cor[d]
         /\ \A d \in Cor : cor'[d].req = cor[d].req
<1>1. cor[c] \in CorRecords /\ cor \in [Cor -> CorRecords]
  BY DEF TypeInv
<1>2. PICK r \in CorRecords : /\ cor' = [cor EXCEPT ![c] = r]
                              /\ r.pc = pc /\ r.req = cor[c].req
  <2>1. CASE cor' = [cor EXCEPT ![c].pc = pc]
    <3> DEFINE r == [cor[c] EXCEPT !.pc = pc]
    <3>1. r \in CorRecords /\ r.pc = pc /\ r.req = cor[c].req
      BY <1>1 DEF CorRecords
    <3>2. cor' = [cor EXCEPT ![c] = r]
      BY <1>1, <2>1
    <3>3. QED
      BY <3>1, <3>2
  <2>2. CASE cor[c].todo # <<>> /\ cor' = [cor EXCEPT ![c].pc = pc, ![c].todo = Tail(@)]
    <3> DEFINE r == [cor[c] EXCEPT !.pc = pc, !.todo = Tail(@)]
    <3>1. Tail(cor[c].todo) \in Seq(Names)
      BY <2>2, CorType
    <3>2. r \in CorRecords /\ r.pc = pc /\ r.req = cor[c].req
      BY <1>1, <3>1 DEF CorRecords
    <3>3. cor' = [cor EXCEPT ![c] = r]
      BY <1>1, <2>2
    <3>4. QED
      BY <3>2, <3>3
  <2>3. CASE /\ cor[c].todo # <<>>
             /\ cor' = [cor EXCEPT ![c].pc = pc, ![c].todo = Tail(@), ![c].timer = t]
    <3> DEFINE r == [cor[c] EXCEPT !.pc = pc, !.todo = Tail(@), !.timer = t]
    <3>1. Tail(cor[c].todo) \in Seq(Names)
      BY <2>3, CorType
    <3>2. r \in CorRecords /\ r.pc = pc /\ r.req = cor[c].req
      BY <1>1, <3>1 DEF CorRecords
    <3>3. cor' = [cor EXCEPT ![c] = r]
      BY <1>1, <2>3
    <3>4. QED
      BY <3>2, <3>3
  <2>4. CASE cor' = [cor EXCEPT ![c].pc = pc, ![c].timer = NULL]
    <3> DEFINE r == [cor[c] EXCEPT !.pc = pc, !.timer = NULL]
    <3>1. r \in CorRecords /\ r.pc = pc /\ r.req = cor[c].req
      BY <1>1 DEF CorRecords
    <3>2. cor' = [cor EXCEPT ![c] = r]
      BY <1>1, <2>4
    <3>3. QED
      BY <3>1, <3>2
  <2>5. QED
    BY <2>1, <2>2, <2>3, <2>4
<1>3. QED
  BY <1>1, <1>2

LEMMA ThreadsType ==
  ASSUME TypeInv, CorInv, NEW t \in Thread, NEW c \in Cor, Resume(t, c) \/ Yield(t)
  PROVE  /\ current' \in [Thread -> Cor \cup {NULL}] /\ run_time' \in [Thread -> Cor \cup {NULL}]
         /\ \A u \in Thread : run_time'[u] = current'[u]
<1>1. /\ current \in [Thread -> Cor \cup {NULL}] /\ run_time \in [Thread -> Cor \cup {NULL}]
      /\ \A u \in Thread : run_time[u] = current[u]
  BY DEF TypeInv, CorInv
<1>2. CASE Resume(t, c)
  BY <1>1, <1>2 DEF Resume, ResumedRunTime
<1>3. CASE Yield(t)
  BY <1>1, <1>3 DEF Yield
<1>4. QED
  BY <1>2, <1>3

-----------------------------------------------------------------------------
(* A call begins, goes on and ends                                         *)

\* The coroutines serve what they served.
SameServed ==
  \A c \in Cor : (Busy(c)' <=> Busy(c)) /\ (Busy(c) => cor'[c].req = cor[c].req)

CallsInv == BoundInv /\ OnceInv /\ NameInv /\ RanInv /\ EndInv /\ NoCallLost

LEMMA TravellingDef ==
  /\ \A r : r \in Travelling <=> r \in sent \/ \E c \in Cor : Busy(c) /\ r = cor[c].req
  /\ \A r : r \in Travelling' <=> r \in sent' \/ \E c \in Cor : Busy(c)' /\ r = cor'[c].req
BY DEF Travelling

LEMMA SameTravelling ==
  ASSUME SameServed, sent' = sent
  PROVE  Travelling' = Travelling
<1>1. \A r : r \in Travelling' <=> r \in Travelling
  BY TravellingDef DEF SameServed
<1>2. QED
  BY <1>1

LEMMA RequestTypes ==
  ASSUME TypeInv, CorInv
  PROVE  /\ Travelling \subseteq Requests
         /\ \A r \in Travelling \cup replies : r.conn \in Caller \X Nat
         /\ \A e \in ran : e \in (Caller \X Nat) \X Names
<1>1. Travelling \subseteq Requests
  BY TravellingDef DEF TypeInv, CorInv
<1>2. QED
  BY <1>1 DEF TypeInv, Requests

\* A request on a connection of its own.
LEMMA BeginCalls ==
  ASSUME IInv, NEW x \in Caller, NEW req \in Requests,
         req.conn = <<x, call[x].k + 1>>,
         call' = Begins(x, req.name), sent' = sent \cup {req}, SameServed,
         UNCHANGED <<replies, ran>>
  PROVE  CallsInv'
<1> USE DEF IInv
<1>1. /\ call[x].k \in Nat
      /\ call'[x].k = call[x].k + 1 /\ call'[x].open /\ call'[x].name = req.name
      /\ \A y \in Caller : y # x => call'[y] = call[y]
      /\ \A y \in Caller : call[y].k \in Nat
  <2>1. req.name \in Names
    BY DEF Requests
  <2>2. QED
    BY <2>1, BeginsType, CallType
<1>2. Travelling' = Travelling \cup {req}
  <2>1. \A r : r \in Travelling' <=> r \in Travelling \cup {req}
    BY TravellingDef DEF SameServed
  <2>2. QED
    BY <2>1
<1>3. \A r \in Travelling \cup replies :
        /\ r.conn \in Caller \X Nat /\ r.conn # req.conn
        /\ r.conn[2] <= call[r.conn[1]].k /\ r.conn = <<r.conn[1], r.conn[2]>>
  BY <1>1, RequestTypes DEF BoundInv
<1>4. \A e \in ran : e[1] \in Caller \X Nat /\ e[1] # req.conn /\ e[1][2] <= call[e[1][1]].k
  BY <1>1, RequestTypes DEF BoundInv
<1>5. BoundInv'
  BY <1>1, <1>2, <1>3, <1>4 DEF BoundInv
<1>6. OnceInv'
  <2>1. /\ \A q, r \in sent' : q.conn = r.conn => q = r
        /\ \A q \in Travelling', r \in replies' : q.conn # r.conn
    BY <1>2, <1>3, TravellingDef DEF OnceInv
  <2>2. \A c \in Cor : Busy(c) => cor[c].req \in Travelling
    BY TravellingDef
  <2>3. \A q \in sent', c \in Cor : Busy(c)' => cor'[c].req.conn # q.conn
    BY <1>3, <2>2 DEF OnceInv, SameServed
  <2>4. \A y \in Caller :
          call'[y].k > 0 /\ ~call'[y].open /\ call'[y].code # "RPC_CALL_TIMEOUT" =>
            \A r \in Travelling' \cup replies' : r.conn # <<y, call'[y].k>>
    BY <1>1, <1>2 DEF OnceInv
  <2>5. QED
    BY <2>1, <2>3, <2>4 DEF OnceInv, SameServed
<1>7. NameInv'
  BY <1>1, <1>2, <1>3 DEF NameInv
<1>8. \A y \in Caller : y # x => Replied(y)' = Replied(y)
  BY <1>1 DEF Replied
<1>9. Replied(x)' = {}
  BY <1>1, <1>3 DEF Replied
<1>10. RanInv'
  BY <1>1, <1>4, <1>8, <1>9 DEF RanInv, SameServed, NothingCalled, OnlyCalled
<1>11. EndInv'
  BY <1>1 DEF EndInv, NothingCalled, OnlyCalled
<1>12. NoCallLost'
  <2>1. req \in Travelling'
    BY <1>2
  <2>2. QED
    BY <1>1, <1>2, <1>8, <2>1 DEF NoCallLost
<1>13. QED
  BY <1>5, <1>6, <1>7, <1>10, <1>11, <1>12 DEF CallsInv

\* A call ends, with its reply or without.
LEMMA EndCalls ==
  ASSUME IInv, NEW x \in Caller, call[x].open, NEW code \in Codes,
         call' = Ends(x, code), SameServed, UNCHANGED <<sent, ran>>,
         \/ code = "RPC_CALL_TIMEOUT" /\ replies' = replies
         \/ \E r \in Replied(x) : code = CodeOf(r, call[x].name) /\ replies' = replies \ {r}
  PROVE  CallsInv'
<1> USE DEF IInv
<1>1. /\ call'[x].k = call[x].k /\ ~call'[x].open /\ call'[x].name = call[x].name
      /\ call'[x].code = code /\ (call'[x].done <=> code = "ok")
      /\ \A y \in Caller : y # x => call'[y] = call[y]
  BY EndsType
<1>2. Travelling' = Travelling
  BY SameTravelling
<1>3. replies' \subseteq replies
  OBVIOUS
<1>4. BoundInv'
  BY <1>1, <1>2, <1>3, RequestTypes DEF BoundInv
<1>5. NameInv'
  BY <1>1, <1>2 DEF NameInv
<1>6. \A y \in Caller : y # x => Replied(y)' = Replied(y)
  BY <1>1 DEF Replied
<1>7. Replied(x)' = {}
  BY <1>1 DEF Replied
<1>8. RanInv'
  BY <1>6, <1>7, <1>1 DEF RanInv, SameServed, NothingCalled, OnlyCalled
<1>9. NoCallLost'
  BY <1>1, <1>2, <1>6 DEF NoCallLost
<1>10. CASE code = "RPC_CALL_TIMEOUT" /\ replies' = replies
  <2>1. OnceInv'
    BY <1>1, <1>2, <1>10 DEF OnceInv, SameServed
  <2>2. EndInv'
    BY <1>1, <1>10 DEF EndInv, NothingCalled, OnlyCalled, NotFound
  <2>3. QED
    BY <1>4, <1>5, <1>8, <1>9, <2>1, <2>2 DEF CallsInv
<1>11. CASE \E r \in Replied(x) : code = CodeOf(r, call[x].name) /\ replies' = replies \ {r}
  <2>1. PICK r \in Replied(x) : code = CodeOf(r, call[x].name) /\ replies' = replies \ {r}
    BY <1>11
  <2>2. r \in replies /\ r.conn = <<x, call[x].k>>
    BY DEF Replied
  <2>3. /\ \A q \in Travelling : q.conn # <<x, call[x].k>>
        /\ \A q \in replies' : q.conn # <<x, call[x].k>>
    BY <2>1, <2>2 DEF OnceInv
  <2>4. OnceInv'
    BY <1>1, <1>2, <1>3, <2>3 DEF OnceInv, SameServed
  <2>5. /\ code = "ok" => r.code = "ok"
        /\ code \in NotFound => r.code \in NotFound
    BY <2>1 DEF CodeOf, NotFound
  <2>6. /\ code = "ok" => OnlyCalled(ran, <<x, call[x].k>>, call[x].name)
        /\ code \in NotFound => NothingCalled(ran, <<x, call[x].k>>)
    BY <2>2, <2>5 DEF RanInv
  <2>7. EndInv'
    BY <1>1, <2>6 DEF EndInv, NothingCalled, OnlyCalled
  <2>8. QED
    BY <1>4, <1>5, <1>8, <1>9, <2>4, <2>7 DEF CallsInv
<1>12. QED
  BY <1>10, <1>11

\* The calls stand where they stood.
LEMMA SameCalls ==
  ASSUME IInv, SameServed, UNCHANGED <<call, sent, replies, ran>>
  PROVE  CallsInv'
<1>1. Travelling' = Travelling
  BY SameTravelling
<1>2. \A x : Replied(x)' = Replied(x)
  BY DEF Replied
<1>3. BoundInv' /\ NameInv' /\ EndInv' /\ NoCallLost'
  BY <1>1, <1>2 DEF IInv, BoundInv, NameInv, EndInv, NoCallLost
<1>4. OnceInv' /\ RanInv'
  BY <1>1, <1>2 DEF IInv, SameServed, OnceInv, RanInv
<1>5. QED
  BY <1>3, <1>4 DEF CallsInv

\* Coroutine c takes a request that has been sent, and calls its method.
LEMMA ServeCalls ==
  ASSUME IInv, NEW c \in Cor, ~Busy(c), NEW req \in sent,
         sent' = sent \ {req}, ran' = ran \cup {<<req.conn, req.name>>},
         Busy(c)', cor'[c].req = req,
         \A d \in Cor \ {c} : (Busy(d)' <=> Busy(d)) /\ (Busy(d) => cor'[d].req = cor[d].req),
         UNCHANGED <<call, replies>>
  PROVE  CallsInv'
<1> USE DEF IInv
<1>1. req \in Travelling /\ req.conn \in Caller \X Nat
  BY TravellingDef, RequestTypes
<1>2. Travelling' = Travelling
  <2>1. \A r : r \in Travelling' <=> r \in Travelling
    BY TravellingDef
  <2>2. QED
    BY <2>1
<1>3. \A d \in Cor : Busy(d) => d # c /\ cor[d].req \in Travelling /\ cor[d].req.conn # req.conn
  BY TravellingDef DEF OnceInv
<1>4. \A r \in sent' : r \in Travelling /\ r.conn # req.conn
  BY TravellingDef DEF OnceInv
<1>5. \A r \in replies : r.conn # req.conn
  BY <1>1 DEF OnceInv
<1>6. BoundInv'
  BY <1>1, <1>2 DEF BoundInv
<1>7. OnceInv'
  <2>1. \A d, e \in Cor : Busy(d)' /\ Busy(e)' /\ cor'[d].req.conn = cor'[e].req.conn => d = e
    BY <1>3 DEF OnceInv
  <2>2. \A q \in sent', d \in Cor : Busy(d)' => cor'[d].req.conn # q.conn
    BY <1>4 DEF OnceInv
  <2>3. QED
    BY <1>2, <2>1, <2>2 DEF OnceInv
<1>8. NameInv'
  BY <1>2 DEF NameInv
<1>9. \A x : Replied(x)' = Replied(x)
  BY DEF Replied
<1>10. \A conn : conn # req.conn =>
         /\ NothingCalled(ran, conn) => NothingCalled(ran', conn)
         /\ \A name : OnlyCalled(ran, conn, name) => OnlyCalled(ran', conn, name)
  BY DEF NothingCalled, OnlyCalled
<1>11. NothingCalled(ran, req.conn) /\ OnlyCalled(ran', req.conn, req.name)
  BY DEF RanInv, NothingCalled, OnlyCalled
<1>12. RanInv'
  <2>1. \A r \in sent' : NothingCalled(ran', r.conn)
    BY <1>4, <1>10 DEF RanInv
  <2>2. \A d \in Cor : Busy(d)' => OnlyCalled(ran', cor'[d].req.conn, cor'[d].req.name)
    BY <1>3, <1>10, <1>11 DEF RanInv
  <2>3. \A x \in Caller : \A r \in Replied(x)' :
          /\ r.code = "ok" => OnlyCalled(ran', r.conn, call[x].name)
          /\ r.code \in NotFound => NothingCalled(ran', r.conn)
    BY <1>5, <1>9, <1>10 DEF RanInv, Replied
  <2>4. QED
    BY <2>1, <2>2, <2>3 DEF RanInv
<1>13. EndInv'
  <2> SUFFICES ASSUME NEW x \in Caller, call[x].k > 0, ~call[x].open
               PROVE  /\ call[x].done <=> call[x].code = "ok"
                      /\ call[x].code = "ok" => OnlyCalled(ran', <<x, call[x].k>>, call[x].name)
                      /\ call[x].code \in NotFound => NothingCalled(ran', <<x, call[x].k>>)
    BY DEF EndInv
  <2>1. CASE call[x].code = "RPC_CALL_TIMEOUT"
    BY <2>1 DEF EndInv, NotFound
  <2>2. CASE call[x].code # "RPC_CALL_TIMEOUT"
    <3>1. req.conn # <<x, call[x].k>>
      BY <1>1, <2>2 DEF OnceInv
    <3>2. QED
      BY <3>1, <1>10 DEF EndInv
  <2>3. QED
    BY <2>1, <2>2
<1>14. NoCallLost'
  BY <1>2, <1>9 DEF NoCallLost
<1>15. QED
  BY <1>6, <1>7, <1>8, <1>12, <1>13, <1>14 DEF CallsInv

\* The request req is answered, or dropped for want of a name.
LEMMA AnswerCalls ==
  ASSUME IInv, NEW req \in Travelling, Travelling' = Travelling \ {req},
         sent' \subseteq sent,
         \A d \in Cor : Busy(d)' => Busy(d) /\ cor'[d].req = cor[d].req,
         NEW new, replies' = replies \cup new,
         \A r \in new : /\ r.conn = req.conn
                        /\ r.code = "ok" => OnlyCalled(ran, req.conn, req.name)
                        /\ r.code \in NotFound => NothingCalled(ran, req.conn),
         \A q, r \in new : q = r,
         req.name # Empty => new # {},
         UNCHANGED <<call, ran>>
  PROVE  CallsInv'
<1> USE DEF IInv
<1>1. req.conn \in Caller \X Nat
  BY RequestTypes
<1>2. \A r \in Travelling' : r \in Travelling /\ r.conn # req.conn
  <2>1. \A r \in Travelling : r.conn = req.conn => r = req
    BY TravellingDef DEF OnceInv
  <2>2. QED
    BY <2>1
<1>3. \A r \in replies : r.conn # req.conn
  BY DEF OnceInv
<1>4. BoundInv'
  BY <1>2 DEF BoundInv
<1>5. OnceInv'
  <2>1. \A q, r \in replies' : q.conn = r.conn => q = r
    BY <1>3 DEF OnceInv
  <2>2. \A q \in Travelling', r \in replies' : q.conn # r.conn
    BY <1>2 DEF OnceInv
  <2>3. \A x \in Caller :
          call[x].k > 0 /\ ~call[x].open /\ call[x].code # "RPC_CALL_TIMEOUT" =>
            \A r \in Travelling' \cup replies' : r.conn # <<x, call[x].k>>
    BY <1>2 DEF OnceInv
  <2>4. QED
    BY <2>1, <2>2, <2>3 DEF OnceInv
<1>6. NameInv'
  BY <1>2 DEF NameInv
<1>7. RanInv'
  <2>1. \A x \in Caller : \A r \in Replied(x)' :
          /\ r.code = "ok" => OnlyCalled(ran, r.conn, call[x].name)
          /\ r.code \in NotFound => NothingCalled(ran, r.conn)
    <3> SUFFICES ASSUME NEW x \in Caller, NEW r \in Replied(x)'
                 PROVE  /\ r.code = "ok" => OnlyCalled(ran, r.conn, call[x].name)
                        /\ r.code \in NotFound => NothingCalled(ran, r.conn)
      OBVIOUS
    <3>1. r \in replies' /\ call[x].open /\ r.conn = <<x, call[x].k>>
      BY DEF Replied
    <3>2. CASE r \in replies
      BY <3>1, <3>2 DEF RanInv, Replied
    <3>3. CASE r \in new
      <4>1. req.name = call[x].name
        BY <3>1, <3>3 DEF NameInv
      <4>2. QED
        BY <3>3, <4>1
    <3>4. QED
      BY <3>1, <3>2, <3>3
  <2>2. QED
    BY <2>1 DEF RanInv, OnlyCalled, NothingCalled
<1>8. EndInv'
  BY DEF EndInv, OnlyCalled, NothingCalled
<1>9. NoCallLost'
  <2> SUFFICES ASSUME NEW x \in Caller, call[x].open, call[x].name # Empty
               PROVE  \/ \E r \in Travelling' : r.conn = <<x, call[x].k>>
                      \/ Replied(x)' # {}
    BY DEF NoCallLost
  <2>1. CASE \E r \in Travelling : r.conn = <<x, call[x].k>> /\ r # req
    BY <2>1
  <2>2. CASE req.conn = <<x, call[x].k>>
    <3>1. req.name # Empty
      BY <2>2 DEF NameInv
    <3>2. PICK r \in new : r.conn = <<x, call[x].k>>
      BY <2>2, <3>1
    <3>3. r \in Replied(x)'
      BY <3>2 DEF Replied
    <3>4. QED
      BY <3>3
  <2>3. CASE Replied(x) # {}
    BY <2>3 DEF Replied
  <2>4. QED
    BY <2>1, <2>2, <2>3 DEF NoCallLost
<1>10. QED
  BY <1>4, <1>5, <1>6, <1>7, <1>8, <1>9 DEF CallsInv

-----------------------------------------------------------------------------
(* Every action keeps the invariant                                        *)

LocalInv == TypeInv /\ CorInv /\ KindInv /\ NumbersFollow

LEMMA IInvParts == ASSUME LocalInv', CallsInv' PROVE IInv'
  BY DEF LocalInv, CallsInv, IInv

\* Where no coroutine begins a call.
LEMMA KeptNumbers ==
  ASSUME NumbersFollow,
         \A c \in Cor : call'[c].open => /\ call[c].open /\ call'[c].k = call[c].k
                                         /\ m_msg_no'[c] = m_msg_no[c]
                                         /\ cor'[c].req = cor[c].req,
         \A req \in Travelling' : req \in Travelling \/ req.conn[1] \notin Cor,
         \A r \in replies' :
           \/ r \in replies \/ r.conn[1] \notin Cor
           \/ \E req \in Travelling : r.conn = req.conn /\ r.msg_req = req.msg_req
  PROVE  NumbersFollow'
<1>1. ASSUME NEW c \in Cor, NEW req \in Travelling', call'[c].open,
             req.conn = <<c, call'[c].k>>
      PROVE  /\ req.msg_req = m_msg_no'[c]
             /\ cor'[c].req.data # "http" => req.msg_req = cor'[c].req.msg_req
  BY <1>1 DEF NumbersFollow
<1>2. ASSUME NEW c \in Cor, NEW r \in Replied(c)'
      PROVE  r.msg_req = m_msg_no'[c]
  <2>1. r \in replies' /\ call'[c].open /\ r.conn = <<c, call'[c].k>>
    BY <1>2 DEF Replied
  <2>2. CASE r \in replies
    BY <2>1, <2>2 DEF NumbersFollow, Replied
  <2>3. CASE \E req \in Travelling : r.conn = req.conn /\ r.msg_req = req.msg_req
    BY <2>1, <2>3 DEF NumbersFollow
  <2>4. QED
    BY <2>1, <2>2, <2>3
<1>3. QED
  BY <1>1, <1>2 DEF NumbersFollow

LEMMA InitIInv == Init => IInv
<1> SUFFICES ASSUME Init PROVE IInv
  OBVIOUS
<1>1. Travelling = {}
  BY TravellingDef DEF Init, Idle
<1>2. \A x : Replied(x) = {}
  BY DEF Init, Replied
<1>3. /\ \A x \in Caller : call[x] = NoCall
      /\ \A c \in Cor : cor[c] = Idle /\ call[c] = NoCall
  BY DEF Init
<1>4. TypeInv
  <2>1. NoCall \in CallRecords
    BY DEF NoCall, CallRecords, Names, Codes
  <2>2. Idle \in CorRecords
    <3>1. <<>> \in Seq(Names)
      OBVIOUS
    <3>2. QED
      BY <3>1 DEF Idle, CorRecords
  <2>3. QED
    BY <2>1, <2>2, EmptyType DEF Init, TypeInv, Digits
<1>5. CorInv /\ KindInv
  BY <1>1, <1>3 DEF Init, CorInv, KindInv, Idle, NoCall
<1>6. BoundInv /\ NameInv /\ RanInv /\ EndInv
  BY <1>1, <1>2, <1>3 DEF Init, BoundInv, NameInv, RanInv, EndInv, Idle, NoCall
<1>7. OnceInv
  BY <1>1, <1>3 DEF Init, OnceInv, Idle, NoCall
<1>8. NumbersFollow /\ NoCallLost
  BY <1>1, <1>2, <1>3 DEF NumbersFollow, NoCallLost, NoCall
<1>9. QED
  BY <1>4, <1>5, <1>6, <1>7, <1>8 DEF IInv

LEMMA ClientCallsIInv == ASSUME IInv, NEW a \in Client, ClientCalls(a) PROVE IInv'
<1>1. PICK req \in Requests :
        /\ req.conn = <<a, call[a].k + 1>>
        /\ req.data # "http" => req.msg_req # Empty
        /\ call' = Begins(a, req.name) /\ sent' = sent \cup {req}
  <2>1. CASE /\ call' = Begins(a, Url)
             /\ sent' = sent \cup {Request(a, 1, Empty, Url, "http")}
    <3>1. Request(a, 1, Empty, Url, "http") \in Requests
      BY EmptyType, ChainAssumption DEF Request, Requests, Names
    <3>2. QED
      BY <2>1, <3>1 DEF Request, ClientCalls
  <2>2. CASE \E name \in Asked, data \in {"good", "bad"} :
               /\ call' = Begins(a, name)
               /\ sent' = sent \cup {Request(a, 1, Number[a], name, data)}
    <3>1. PICK name \in Asked, data \in {"good", "bad"} :
               /\ call' = Begins(a, name)
               /\ sent' = sent \cup {Request(a, 1, Number[a], name, data)}
      BY <2>2
    <3>2. Number[a] \in Seq(Nat) /\ Number[a] # Empty /\ name \in Names
      BY ChainAssumption DEF Names, Empty
    <3>3. Request(a, 1, Number[a], name, data) \in Requests
      BY <3>2 DEF Request, Requests
    <3>4. QED
      BY <3>1, <3>2, <3>3 DEF Request, ClientCalls
  <2>3. QED
    BY <2>1, <2>2 DEF ClientCalls
<1>2. UNCHANGED <<current, run_time, nu, cor, m_msg_no, replies, ran>>
  BY DEF ClientCalls
<1>3. CallsInv'
  BY <1>1, <1>2, BeginCalls DEF SameServed
<1>4. \A c \in Cor : call'[c] = call[c]
  <2>1. req.name \in Names
    BY DEF Requests
  <2>2. QED
    <3>1. \A y \in Caller : y # a => call'[y] = call[y]
      BY <1>1, <2>1, BeginsType DEF IInv
    <3>2. QED
      BY <3>1, ChainAssumption
<1>5. Travelling' = Travelling \cup {req}
  <2>1. \A r : r \in Travelling' <=> r \in Travelling \cup {req}
    BY <1>1, <1>2, TravellingDef
  <2>2. QED
    BY <2>1
<1>6. TypeInv'
  <2>1. req.name \in Names
    BY DEF Requests
  <2>2. call' \in [Caller -> CallRecords]
    BY <1>1, <2>1, BeginsType DEF IInv
  <2>3. QED
    BY <1>1, <1>2, <2>2 DEF IInv, TypeInv
<1>7. CorInv' /\ KindInv'
  BY <1>1, <1>2, <1>4, <1>5 DEF IInv, CorInv, KindInv
<1>8. NumbersFollow'
  <2>1. req.conn[1] \notin Cor
    BY <1>1, ChainAssumption
  <2>2. QED
    BY <1>2, <1>4, <1>5, <2>1, KeptNumbers DEF IInv
<1>9. QED
  BY <1>3, <1>6, <1>7, <1>8, IInvParts DEF LocalInv

LEMMA CodeType ==
  ASSUME TypeInv, NEW x \in Caller, NEW r \in Replied(x)
  PROVE  CodeOf(r, call[x].name) \in Codes
  BY DEF TypeInv, Replied, CodeOf, Codes

\* A client has its reply, or gives up.
LEMMA ClientEndsIInv ==
  ASSUME IInv, NEW a \in Client, ClientReturns(a) \/ ClientGivesUp(a)
  PROVE  IInv'
<1>1. PICK code \in Codes :
        /\ call' = Ends(a, code)
        /\ \/ code = "RPC_CALL_TIMEOUT" /\ replies' = replies
           \/ \E r \in Replied(a) : code = CodeOf(r, call[a].name) /\ replies' = replies \ {r}
  <2>1. CASE ClientGivesUp(a)
    BY <2>1 DEF ClientGivesUp, Codes
  <2>2. CASE ClientReturns(a)
    BY <2>2, CodeType DEF ClientReturns, IInv
  <2>3. QED
    BY <2>1, <2>2
<1>2. call[a].open /\ UNCHANGED <<current, run_time, nu, cor, m_msg_no, sent, ran>>
  BY DEF ClientReturns, ClientGivesUp, Replied
<1>3. CallsInv'
  BY <1>1, <1>2, EndCalls DEF SameServed
<1>4. \A c \in Cor : call'[c] = call[c]
  BY <1>1, EndsType, ChainAssumption DEF IInv
<1>5. Travelling' = Travelling
  BY <1>2, SameTravelling DEF SameServed
<1>6. TypeInv'
  <2>1. call' \in [Caller -> CallRecords] /\ replies' \subseteq replies
    BY <1>1, EndsType DEF IInv
  <2>2. QED
    BY <1>2, <2>1 DEF IInv, TypeInv
<1>7. CorInv' /\ KindInv'
  BY <1>1, <1>2, <1>4, <1>5 DEF IInv, CorInv, KindInv
<1>8. NumbersFollow'
  BY <1>1, <1>2, <1>4, <1>5, KeptNumbers DEF IInv
<1>9. QED
  BY <1>3, <1>6, <1>7, <1>8, IInvParts DEF LocalInv

\* So does a coroutine, which goes on on some thread.
LEMMA NestedEndsIInv ==
  ASSUME IInv, NEW t \in Thread, NEW c \in Cor, NestedReturns(t, c) \/ NestedGivesUp(t, c)
  PROVE  IInv'
<1>1. PICK code \in Codes :
        /\ call' = Ends(c, code)
        /\ \/ code = "RPC_CALL_TIMEOUT" /\ replies' = replies
           \/ \E r \in Replied(c) : code = CodeOf(r, call[c].name) /\ replies' = replies \ {r}
  <2>1. CASE NestedGivesUp(t, c)
    BY <2>1 DEF NestedGivesUp, Codes
  <2>2. CASE NestedReturns(t, c)
    BY <2>2, CodeType DEF NestedReturns, IInv
  <2>3. QED
    BY <2>1, <2>2
<1>2. /\ cor[c].pc = "waiting" /\ Resume(t, c) /\ cor' = [cor EXCEPT ![c].pc = "method"]
      /\ UNCHANGED <<nu, m_msg_no, sent, ran>>
  BY DEF NestedReturns, NestedGivesUp
<1>3. /\ cor' \in [Cor -> CorRecords] /\ cor'[c].pc = "method"
      /\ \A d \in Cor : d # c => cor'[d] = cor[d]
      /\ \A d \in Cor : cor'[d].req = cor[d].req
      /\ call[c].open /\ SameServed
  BY <1>2, CorMoves DEF IInv, CorInv, SameServed
<1>4. CallsInv'
  BY <1>1, <1>2, <1>3, EndCalls
<1>5. ~call'[c].open /\ \A d \in Cor : d # c => call'[d] = call[d]
  BY <1>1, EndsType DEF IInv
<1>6. Travelling' = Travelling
  BY <1>2, <1>3, SameTravelling
<1>7. TypeInv'
  <2>1. call' \in [Caller -> CallRecords] /\ replies' \subseteq replies
    BY <1>1, EndsType DEF IInv
  <2>2. QED
    BY <1>2, <1>3, <2>1, ThreadsType DEF IInv, TypeInv
<1>8. CorInv'
  <2>1. \A u \in Thread : run_time'[u] = current'[u]
    BY <1>2, ThreadsType DEF IInv
  <2>2. QED
    BY <1>2, <1>3, <1>5, <2>1 DEF IInv, CorInv
<1>9. KindInv'
  BY <1>2, <1>6 DEF IInv, KindInv
<1>10. NumbersFollow'
  <2>1. \A d \in Cor : call'[d].open => d # c /\ cor'[d].req = cor[d].req
    BY <1>3, <1>5
  <2>2. QED
    BY <1>1, <1>2, <1>5, <1>6, <2>1, KeptNumbers DEF IInv
<1>11. QED
  BY <1>4, <1>7, <1>8, <1>9, <1>10, IInvParts DEF LocalInv

\* The method of a coroutine calls with the number of the request it serves.
LEMMA CallNestedIInv ==
  ASSUME IInv, NEW t \in Thread, NEW c \in Cor, CallNested(t, c)
  PROVE  IInv'
<1> DEFINE name == Head(cor[c].todo)
           req  == Request(c, call[c].k + 1, m_msg_no[c], name, "good")
<1>1. /\ current[t] = c /\ cor[c].pc = "method" /\ cor[c].todo # <<>>
      /\ cor' = [cor EXCEPT ![c].pc = "waiting", ![c].todo = Tail(@)]
      /\ call' = Begins(c, name) /\ Yield(t)
      /\ UNCHANGED <<m_msg_no, replies, ran>>
  BY DEF CallNested
<1>2. m_msg_no[c] # Empty /\ run_time[t] = c /\ c # NULL
  BY <1>1, ChainAssumption DEF IInv, CorInv
<1>3. sent' = sent \cup {req} /\ nu' = nu
  <2>1. NumberOf(t) = {<<m_msg_no[c], nu[t]>>}
    BY <1>2 DEF NumberOf
  <2>2. sent' = sent \cup {req} /\ nu' = [nu EXCEPT ![t] = nu[t]]
    <3>1. PICK n \in NumberOf(t) :
            /\ sent' = sent \cup {Request(c, call[c].k + 1, n[1], name, "good")}
            /\ nu' = [nu EXCEPT ![t] = n[2]]
      BY DEF CallNested
    <3>2. n[1] = m_msg_no[c] /\ n[2] = nu[t]
      BY <2>1
    <3>3. QED
      BY <3>1, <3>2
  <2>3. nu \in [Thread -> Digits]
    BY DEF IInv, TypeInv
  <2>4. QED
    BY <2>2, <2>3
<1>4. name \in Names
  BY <1>1, CorType DEF IInv
<1>5. req \in Requests /\ req.conn = <<c, call[c].k + 1>> /\ req.name = name
  <2>1. call[c].k + 1 \in Nat /\ m_msg_no[c] \in Seq(Nat)
    BY CallType, CorType DEF IInv
  <2>2. <<c, call[c].k + 1>> \in Caller \X Nat
    BY <2>1
  <2>3. QED
    BY <1>4, <2>1, <2>2 DEF Request, Requests
<1>6. req.msg_req = m_msg_no[c] /\ req.data = "good"
  BY DEF Request
<1> HIDE DEF req, name
<1>7. /\ cor' \in [Cor -> CorRecords] /\ cor'[c].pc = "waiting"
      /\ \A d \in Cor : d # c => cor'[d] = cor[d]
      /\ \A d \in Cor : cor'[d].req = cor[d].req
      /\ SameServed
  <2>1. cor[c].todo # <<>> /\ cor' = [cor EXCEPT ![c].pc = "waiting", ![c].todo = Tail(@)]
    BY <1>1
  <2>2. TypeInv
    BY DEF IInv
  <2>3. /\ cor' \in [Cor -> CorRecords] /\ cor'[c].pc = "waiting"
        /\ \A d \in Cor : d # c => cor'[d] = cor[d]
        /\ \A d \in Cor : cor'[d].req = cor[d].req
    BY <2>1, <2>2, CorMoves
  <2>4. QED
    BY <1>1, <2>3 DEF SameServed
<1>8. CallsInv'
  BY <1>1, <1>3, <1>5, <1>7, BeginCalls
<1>9. /\ call'[c].open /\ call'[c].k = call[c].k + 1
      /\ \A d \in Cor : d # c => call'[d] = call[d]
  BY <1>1, <1>4, BeginsType DEF IInv
<1>10. Travelling' = Travelling \cup {req}
  <2>1. \A r : r \in Travelling' <=> r \in Travelling \cup {req}
    BY <1>3, <1>7, TravellingDef DEF SameServed
  <2>2. QED
    BY <2>1
<1>11. TypeInv'
  <2>1. call' \in [Caller -> CallRecords]
    BY <1>1, <1>4, BeginsType DEF IInv
  <2>2. QED
    BY <1>1, <1>3, <1>5, <1>7, <2>1, ThreadsType DEF IInv, TypeInv
<1>12. CorInv'
  <2>1. \A u \in Thread : run_time'[u] = current'[u]
    BY <1>1, ThreadsType DEF IInv
  <2>2. \A d \in Cor : call'[d].open <=> cor'[d].pc = "waiting"
    BY <1>7, <1>9 DEF IInv, CorInv
  <2>3. \A d \in Cor : Busy(d)' => /\ cor'[d].req \in Requests /\ m_msg_no'[d] # Empty
                                   /\ cor'[d].req.data # "http" =>
                                        cor'[d].req.msg_req = m_msg_no'[d]
    BY <1>1, <1>7 DEF IInv, CorInv, SameServed
  <2>4. QED
    BY <2>1, <2>2, <2>3 DEF CorInv
<1>13. KindInv'
  BY <1>2, <1>3, <1>6, <1>10 DEF IInv, KindInv
<1>14. NumbersFollow'
  <2>1. \A r \in Travelling \cup replies : r.conn # <<c, call'[c].k>>
    <3>1. \A r \in Travelling \cup replies : r.conn \in Caller \X Nat
                                             /\ r.conn[2] <= call[r.conn[1]].k
      BY RequestTypes DEF IInv, BoundInv
    <3>2. call[c].k \in Nat
      BY CallType DEF IInv
    <3>3. QED
      BY <1>9, <3>1, <3>2
  <2>2. cor'[c].req = cor[c].req /\ \A d \in Cor : cor'[d].req = cor[d].req
    BY <1>7
  <2>3. cor[c].req.data # "http" => cor[c].req.msg_req = m_msg_no[c]
    BY <1>1 DEF IInv, CorInv
  <2>4. ASSUME NEW d \in Cor, NEW r \in Travelling', call'[d].open, r.conn = <<d, call'[d].k>>
        PROVE  /\ r.msg_req = m_msg_no'[d]
               /\ cor'[d].req.data # "http" => r.msg_req = cor'[d].req.msg_req
    <3>1. CASE d = c
      <4>1. r = req
        BY <1>10, <2>1, <2>4, <3>1
      <4>2. QED
        BY <1>1, <1>6, <2>2, <2>3, <3>1, <4>1
    <3>2. CASE d # c
      <4>1. r \in Travelling
        BY <1>5, <1>10, <2>4, <3>2
      <4>2. QED
        <5>1. call[d].open /\ r.conn = <<d, call[d].k>>
          BY <1>9, <2>4, <3>2
        <5>2. /\ r.msg_req = m_msg_no[d]
              /\ cor[d].req.data # "http" => r.msg_req = cor[d].req.msg_req
          BY <4>1, <5>1 DEF IInv, NumbersFollow
        <5>3. QED
          BY <1>1, <2>2, <5>2
    <3>3. QED
      BY <3>1, <3>2
  <2>5. ASSUME NEW d \in Cor, NEW r \in Replied(d)' PROVE r.msg_req = m_msg_no'[d]
    <3>1. r \in replies /\ r.conn = <<d, call'[d].k>> /\ call'[d].open
      BY <1>1, <2>5 DEF Replied
    <3>2. d # c
      BY <2>1, <3>1
    <3>3. QED
      BY <1>1, <1>9, <3>1, <3>2 DEF IInv, NumbersFollow, Replied
  <2>6. QED
    BY <2>4, <2>5 DEF NumbersFollow
<1>15. QED
  BY <1>8, <1>11, <1>12, <1>13, <1>14, IInvParts DEF LocalInv

\* sleep_hook, and timeout_cb, which resumes the coroutine on the thread it slept on.
LEMMA SleepIInv ==
  ASSUME IInv, NEW t \in Thread, NEW c \in Cor, SleepHook(t, c) \/ TimeoutCb(t, c)
  PROVE  IInv'
<1>1. UNCHANGED <<nu, m_msg_no, call, sent, replies, ran>>
  BY DEF SleepHook, TimeoutCb
<1>2. /\ cor' \in [Cor -> CorRecords]
      /\ \A d \in Cor : cor'[d].req = cor[d].req
      /\ \A d \in Cor : d # c => cor'[d] = cor[d]
      /\ cor[c].pc \in {"method", "sleeping"} /\ cor'[c].pc \in {"method", "sleeping"}
  <2>1. CASE SleepHook(t, c)
    BY <2>1, CorMoves DEF SleepHook, IInv
  <2>2. CASE TimeoutCb(t, c)
    BY <2>2, CorMoves DEF TimeoutCb, IInv
  <2>3. QED
    BY <2>1, <2>2
<1>3. /\ current' \in [Thread -> Cor \cup {NULL}]
      /\ run_time' \in [Thread -> Cor \cup {NULL}]
      /\ \A u \in Thread : run_time'[u] = current'[u]
  BY ThreadsType DEF SleepHook, TimeoutCb, IInv
<1>4. SameServed
  BY <1>2 DEF SameServed
<1>5. CallsInv'
  BY <1>1, <1>4, SameCalls
<1>6. Travelling' = Travelling
  BY <1>1, <1>4, SameTravelling
<1>7. TypeInv'
  BY <1>1, <1>2, <1>3 DEF IInv, TypeInv
<1>8. CorInv'
  BY <1>1, <1>2, <1>3 DEF IInv, CorInv
<1>9. KindInv'
  BY <1>1, <1>6 DEF IInv, KindInv
<1>10. NumbersFollow'
  BY <1>1, <1>2, <1>6, KeptNumbers DEF IInv
<1>11. QED
  BY <1>5, <1>7, <1>8, <1>9, <1>10, IInvParts DEF LocalInv

\* A request whose method is called, with the number of the packet or a new one.
LEMMA ServeMethodIInv ==
  ASSUME IInv, NEW t \in Thread, NEW c \in Cor, ~Busy(c), NEW req \in sent,
         NEW todo \in Seq(Names), NEW number \in Seq(Nat) \ {Empty},
         req.data # "http" => number = req.msg_req,
         sent' = sent \ {req}, ran' = ran \cup {<<req.conn, req.name>>},
         m_msg_no' = [m_msg_no EXCEPT ![c] = number],
         cor' = [cor EXCEPT ![c] = [Idle EXCEPT !.pc = "method", !.req = req, !.todo = todo]],
         nu' \in [Thread -> Digits],
         Resume(t, c), UNCHANGED <<call, replies>>
  PROVE  IInv'
<1>1. req \in Requests /\ req \in Travelling
  BY TravellingDef DEF IInv, TypeInv
<1>2. cor'[c] = [pc |-> "method", req |-> req, todo |-> todo, timer |-> NULL]
      /\ \A d \in Cor : d # c => cor'[d] = cor[d]
  BY DEF IInv, TypeInv, Idle
<1>3. m_msg_no'[c] = number /\ \A d \in Cor : d # c => m_msg_no'[d] = m_msg_no[d]
  BY DEF IInv, TypeInv
<1>4. CallsInv'
  <2>1. Busy(c)' /\ cor'[c].req = req
    BY <1>2
  <2>2. \A d \in Cor \ {c} : (Busy(d)' <=> Busy(d)) /\ (Busy(d) => cor'[d].req = cor[d].req)
    BY <1>2
  <2>3. QED
    BY <2>1, <2>2, ServeCalls
<1>5. Travelling' = Travelling
  <2>1. \A r : r \in Travelling' <=> r \in Travelling
    <3>1. /\ cor'[c].pc # "input" /\ cor'[c].req = req
          /\ \A d \in Cor : d # c => cor'[d] = cor[d]
      BY <1>2
    <3>2. ASSUME NEW r \in Travelling PROVE r \in Travelling'
      BY <3>1, <3>2, TravellingDef
    <3>3. ASSUME NEW r \in Travelling' PROVE r \in Travelling
      BY <1>1, <3>1, <3>3, TravellingDef
    <3>4. QED
      BY <3>2, <3>3
  <2>2. QED
    BY <2>1
<1>6. TypeInv'
  <2>1. cor' \in [Cor -> CorRecords]
    <3>1. [pc |-> "method", req |-> req, todo |-> todo, timer |-> NULL] \in CorRecords
      BY <1>1 DEF CorRecords
    <3>2. cor \in [Cor -> CorRecords]
      BY DEF IInv, TypeInv
    <3>3. QED
      <4> DEFINE r == [Idle EXCEPT !.pc = "method", !.req = req, !.todo = todo]
      <4>1. cor' = [cor EXCEPT ![c] = r]
        OBVIOUS
      <4> HIDE DEF r
      <4>2. r = cor'[c]
        BY <3>2, <4>1
      <4>3. r \in CorRecords
        BY <1>2, <3>1, <4>2
      <4>4. QED
        BY <3>2, <4>1, <4>3, Updated
  <2>2. <<req.conn, req.name>> \in (Caller \X Nat) \X Names
    BY <1>1 DEF Requests
  <2>3. /\ current' \in [Thread -> Cor \cup {NULL}]
        /\ run_time' \in [Thread -> Cor \cup {NULL}]
    BY ThreadsType DEF IInv
  <2>4. m_msg_no' \in [Cor -> Seq(Nat)]
    BY DEF IInv, TypeInv
  <2>5. QED
    BY <2>1, <2>2, <2>3, <2>4 DEF IInv, TypeInv
<1>7. ~call[c].open
  BY DEF IInv, CorInv
<1>8. CorInv'
  <2>1. \A u \in Thread : run_time'[u] = current'[u]
    BY ThreadsType DEF IInv
  <2>2. \A d \in Cor : call'[d].open <=> cor'[d].pc = "waiting"
    BY <1>2, <1>7 DEF IInv, CorInv
  <2>3. \A d \in Cor : Busy(d)' => /\ cor'[d].req \in Requests /\ m_msg_no'[d] # Empty
                                   /\ cor'[d].req.data # "http" =>
                                        cor'[d].req.msg_req = m_msg_no'[d]
    BY <1>1, <1>2, <1>3 DEF IInv, CorInv
  <2>4. QED
    BY <2>1, <2>2, <2>3 DEF CorInv
<1>9. KindInv'
  BY <1>5 DEF IInv, KindInv
<1>10. NumbersFollow'
  BY <1>2, <1>3, <1>5, <1>7, KeptNumbers DEF IInv
<1>11. QED
  BY <1>4, <1>6, <1>8, <1>9, <1>10, IInvParts DEF LocalInv

\* A packet whose method cannot be called is answered at once.
LEMMA ServeErrorIInv ==
  ASSUME IInv, NEW t \in Thread, NEW c \in Cor, ~Busy(c), NEW req \in sent,
         sent' = sent \ {req}, DispatchPacket(t, c, req), Dispatch(req) # "ok",
         UNCHANGED call
  PROVE  IInv'
<1> DEFINE code == Dispatch(req)
<1>1. /\ req \in Requests /\ req \in Travelling
      /\ m_msg_no' = [m_msg_no EXCEPT ![c] = req.msg_req]
      /\ replies' = replies \cup Reply(req, code)
      /\ UNCHANGED <<cor, ran, current, run_time, nu>>
  BY TravellingDef DEF IInv, TypeInv, DispatchPacket
<1>2. code \in Codes
  BY DEF Dispatch, Codes
<1>3. \A r \in Reply(req, code) :
        r = [conn |-> req.conn, msg_req |-> req.msg_req, code |-> code]
  BY DEF Reply
<1>4. req.name # Empty => Reply(req, code) # {}
  BY DEF Reply, Encodes
<1> HIDE DEF code
<1>5. code # "ok"
  BY DEF code
<1>6. \A d \in Cor : Busy(d) => cor[d].req # req
  BY DEF IInv, OnceInv
<1>7. Travelling' = Travelling \ {req}
  <2>1. \A r : r \in Travelling' <=> r \in Travelling /\ r # req
    BY <1>1, <1>6, TravellingDef
  <2>2. QED
    BY <2>1
<1>8. NothingCalled(ran, req.conn)
  BY DEF IInv, RanInv
<1>9. CallsInv'
  BY <1>1, <1>3, <1>4, <1>5, <1>7, <1>8, AnswerCalls
<1>10. TypeInv'
  <2>1. m_msg_no' \in [Cor -> Seq(Nat)]
    BY <1>1 DEF IInv, TypeInv, Requests
  <2>2. replies' \subseteq [conn : Caller \X Nat, msg_req : Seq(Nat), code : Codes]
    BY <1>1, <1>2, <1>3 DEF IInv, TypeInv, Requests
  <2>3. QED
    BY <1>1, <2>1, <2>2 DEF IInv, TypeInv
<1>11. \A d \in Cor : d # c => m_msg_no'[d] = m_msg_no[d]
  BY <1>1 DEF IInv, TypeInv
<1>12. CorInv'
  BY <1>1, <1>11 DEF IInv, CorInv
<1>13. KindInv'
  BY <1>7 DEF IInv, KindInv
<1>14. NumbersFollow'
  <2>1. ~call[c].open
    BY DEF IInv, CorInv
  <2>2. QED
    BY <1>1, <1>3, <1>7, <1>11, <2>1, KeptNumbers DEF IInv
<1>15. QED
  BY <1>9, <1>10, <1>12, <1>13, <1>14, IInvParts DEF LocalInv

LEMMA ServeIInv ==
  ASSUME IInv, NEW t \in Thread, NEW c \in Cor, Serve(t, c)
  PROVE  IInv'
<1>1. PICK req \in sent : /\ sent' = sent \ {req}
                          /\ DispatchPacket(t, c, req) \/ DispatchHttp(t, c, req)
  BY DEF Serve
<1>2. ~Busy(c) /\ UNCHANGED call
  BY DEF Serve
<1>3. req \in Requests
  BY DEF IInv, TypeInv
<1>4. \A n \in DOMAIN Nested : Nested[n] \in Seq(Names)
  <2> SUFFICES ASSUME NEW n \in DOMAIN Nested PROVE Nested[n] \in Seq(Names)
    OBVIOUS
  <2>1. Nested[n] \in Seq(DOMAIN Nested \cup {Sleep})
    BY ChainAssumption
  <2>2. DOMAIN Nested \cup {Sleep} \subseteq Names
    BY DEF Names
  <2>3. QED
    BY <2>1, <2>2
<1>5. CASE DispatchHttp(t, c, req)
  <2>1. PICK n \in GenMsgNumber(t) : /\ nu' = [nu EXCEPT ![t] = n]
                                     /\ m_msg_no' = [m_msg_no EXCEPT ![c] = n]
    BY <1>5 DEF DispatchHttp
  <2>2. n \in [1..m_msg_req_len -> 0..Nine]
    BY NumberType DEF IInv
  <2>3. n \in Seq(Nat) \ {Empty}
    BY <2>2, DigitsType
  <2>4. nu' \in [Thread -> Digits]
    <3>1. n \in Digits /\ nu \in [Thread -> Digits]
      BY <2>2 DEF IInv, TypeInv, Digits
    <3>2. QED
      BY <2>1, <3>1
  <2>5. Nested[Url] \in Seq(Names)
    BY <1>4, ChainAssumption
  <2>6. /\ req.data = "http" /\ ran' = ran \cup {<<req.conn, req.name>>}
        /\ cor' = [cor EXCEPT ![c] = [Idle EXCEPT !.pc = "method", !.req = req,
                                                  !.todo = Nested[Url]]]
        /\ Resume(t, c) /\ UNCHANGED replies
    BY <1>5 DEF DispatchHttp
  <2>7. QED
    BY <1>1, <1>2, <2>1, <2>3, <2>4, <2>5, <2>6, ServeMethodIInv
<1>6. CASE DispatchPacket(t, c, req) /\ Dispatch(req) = "ok"
  <2>1. req.name \in DOMAIN Nested
    <3>1. Len(req.name) >= 2
      BY <1>6 DEF Dispatch, Parses
    <3>2. Len(Empty) = 0 /\ Len(Sleep) = 1
      BY DEF Empty, Sleep
    <3>3. req.name # Empty /\ req.name # Sleep
      <4>1. ~(0 >= 2) /\ ~(1 >= 2)
        OBVIOUS
      <4>2. QED
        BY <3>1, <3>2, <4>1
    <3>4. req.name \in Names
      BY <1>3 DEF Requests
    <3>5. QED
      BY <3>3, <3>4 DEF Names
  <2>2. Nested[req.name] \in Seq(Names)
    BY <1>4, <2>1
  <2>3. /\ req.data # "http" /\ ran' = ran \cup {<<req.conn, req.name>>}
        /\ m_msg_no' = [m_msg_no EXCEPT ![c] = req.msg_req]
        /\ cor' = [cor EXCEPT ![c] = [Idle EXCEPT !.pc = "method", !.req = req,
                                                  !.todo = Nested[req.name]]]
        /\ Resume(t, c) /\ UNCHANGED <<replies, nu>>
    BY <1>6 DEF DispatchPacket
  <2>4. req.msg_req \in Seq(Nat) \ {Empty}
    BY <1>3, <2>3 DEF IInv, KindInv, Requests
  <2>5. nu' \in [Thread -> Digits]
    BY <2>3 DEF IInv, TypeInv
  <2>6. QED
    BY <1>1, <1>2, <2>2, <2>3, <2>4, <2>5, ServeMethodIInv
<1>7. CASE DispatchPacket(t, c, req) /\ Dispatch(req) # "ok"
  BY <1>1, <1>2, <1>7, ServeErrorIInv
<1>8. QED
  BY <1>1, <1>5, <1>6, <1>7

LEMMA FinishIInv ==
  ASSUME IInv, NEW t \in Thread, NEW c \in Cor, Finish(t, c)
  PROVE  IInv'
<1> DEFINE req == cor[c].req
<1>1. /\ Busy(c) /\ req \in Requests /\ req \in Travelling
      /\ OnlyCalled(ran, req.conn, req.name)
  BY TravellingDef DEF Finish, IInv, CorInv, RanInv
<1>2. /\ cor' = [cor EXCEPT ![c] = Idle] /\ Yield(t)
      /\ UNCHANGED <<nu, m_msg_no, call, sent, ran>>
  BY DEF Finish
<1>3. req.conn \in Caller \X Nat /\ req.msg_req \in Seq(Nat)
  BY <1>1 DEF Requests
<1> HIDE DEF req
<1>4. \E new :
        /\ replies' = replies \cup new /\ (req.name # Empty => new # {})
        /\ \A q, r \in new : q = r
        /\ \A r \in new :
             /\ r.conn = req.conn /\ r.code \in {"ok", "FAILED_SERIALIZE"}
             /\ r \in [conn : Caller \X Nat, msg_req : Seq(Nat), code : Codes]
             /\ req.data # "http" => r.msg_req = req.msg_req
  <2>1. CASE req.data = "http"
    <3>1. replies' = replies \cup HttpReply(req)
      BY <2>1 DEF Finish, req
    <3>2. [conn |-> req.conn, msg_req |-> Empty, code |-> "ok"]
            \in [conn : Caller \X Nat, msg_req : Seq(Nat), code : Codes]
      BY <1>3, EmptyType DEF Codes
    <3> WITNESS HttpReply(req)
    <3>3. QED
      BY <2>1, <3>1, <3>2 DEF HttpReply
  <2>2. CASE req.data # "http"
    <3>1. PICK code \in {"ok", "FAILED_SERIALIZE"} : replies' = replies \cup Reply(req, code)
      BY <2>2 DEF Finish, req
    <3>2. [conn |-> req.conn, msg_req |-> req.msg_req, code |-> code]
            \in [conn : Caller \X Nat, msg_req : Seq(Nat), code : Codes]
      BY <1>3 DEF Codes
    <3> WITNESS Reply(req, code)
    <3>3. \A q \in Reply(req, code) :
            q = [conn |-> req.conn, msg_req |-> req.msg_req, code |-> code]
      BY DEF Reply
    <3>4. req.name # Empty => Reply(req, code) # {}
      BY DEF Reply, Encodes
    <3>5. QED
      BY <3>1, <3>2, <3>3, <3>4
  <2>3. QED
    BY <2>1, <2>2
<1>5. PICK new :
        /\ replies' = replies \cup new /\ (req.name # Empty => new # {})
        /\ \A q, r \in new : q = r
        /\ \A r \in new :
             /\ r.conn = req.conn /\ r.code \in {"ok", "FAILED_SERIALIZE"}
             /\ r \in [conn : Caller \X Nat, msg_req : Seq(Nat), code : Codes]
             /\ req.data # "http" => r.msg_req = req.msg_req
  BY <1>4
<1>6. /\ cor' \in [Cor -> CorRecords] /\ cor'[c] = Idle /\ ~Busy(c)'
      /\ \A d \in Cor : d # c => cor'[d] = cor[d]
  <2>1. Idle \in CorRecords /\ Idle.pc = "input"
    <3>1. <<>> \in Seq(Names)
      OBVIOUS
    <3>2. QED
      BY <3>1 DEF Idle, CorRecords
  <2>2. cor \in [Cor -> CorRecords]
    BY DEF IInv, TypeInv
  <2>3. QED
    BY <1>2, <2>1, <2>2, Updated
<1>7. Travelling' = Travelling \ {req}
  <2>1. \A d \in Cor : Busy(d) /\ cor[d].req = req => d = c
    BY <1>1 DEF IInv, OnceInv, req
  <2>2. \A r \in sent : r # req
    BY <1>1 DEF IInv, OnceInv, req
  <2>3. ASSUME NEW r \in Travelling' PROVE r \in Travelling /\ r # req
    BY <1>2, <1>6, <2>1, <2>2, <2>3, TravellingDef
  <2>4. ASSUME NEW r \in Travelling, r # req PROVE r \in Travelling'
    BY <1>2, <1>6, <2>4, TravellingDef DEF req
  <2>5. QED
    BY <2>3, <2>4
<1>8. CallsInv'
  <2>1. \A d \in Cor : Busy(d)' => Busy(d) /\ cor'[d].req = cor[d].req
    BY <1>6
  <2>2. \A r \in new : /\ r.conn = req.conn
                       /\ r.code = "ok" => OnlyCalled(ran, req.conn, req.name)
                       /\ r.code \in NotFound => NothingCalled(ran, req.conn)
    BY <1>1, <1>5 DEF NotFound
  <2>3. QED
    BY <1>1, <1>2, <1>5, <1>7, <2>1, <2>2, AnswerCalls
<1>9. TypeInv'
  <2>1. replies' \subseteq [conn : Caller \X Nat, msg_req : Seq(Nat), code : Codes]
    BY <1>5 DEF IInv, TypeInv
  <2>2. QED
    BY <1>2, <1>6, <2>1, ThreadsType DEF IInv, TypeInv
<1>10. CorInv'
  <2>1. \A u \in Thread : run_time'[u] = current'[u]
    BY <1>2, ThreadsType DEF IInv
  <2>2. ~call[c].open
    BY DEF IInv, CorInv, Finish
  <2>3. QED
    BY <1>2, <1>6, <2>1, <2>2 DEF IInv, CorInv
<1>11. KindInv'
  BY <1>2, <1>7 DEF IInv, KindInv
<1>12. NumbersFollow'
  <2>1. ~call[c].open
    BY DEF IInv, CorInv, Finish
  <2>2. \A r \in new : r.conn[1] \notin Cor \/ r.msg_req = req.msg_req
    BY <1>1, <1>5, ChainAssumption DEF IInv, KindInv
  <2>3. QED
    BY <1>1, <1>2, <1>5, <1>6, <1>7, <2>1, <2>2, KeptNumbers DEF IInv
<1>13. QED
  BY <1>8, <1>9, <1>10, <1>11, <1>12, IInvParts DEF LocalInv

LEMMA NextIInv == ASSUME IInv, [Next]_vars PROVE IInv'
<1>1. ASSUME NEW a \in Client, ClientCalls(a) \/ ClientReturns(a) \/ ClientGivesUp(a) PROVE IInv'
  BY <1>1, ClientCallsIInv, ClientEndsIInv
<1>2. ASSUME NEW c \in Cor, CorStep(c) PROVE IInv'
  <2>1. PICK t \in Thread : \/ Serve(t, c) \/ CallNested(t, c) \/ NestedReturns(t, c)
                            \/ Finish(t, c) \/ SleepHook(t, c) \/ TimeoutCb(t, c)
    BY <1>2 DEF CorStep
  <2>2. QED
    BY <2>1, ServeIInv, CallNestedIInv, NestedEndsIInv, FinishIInv, SleepIInv
<1>3. ASSUME NEW c \in Cor, GiveUp(c) PROVE IInv'
  BY <1>3, NestedEndsIInv DEF GiveUp
<1>4. CASE UNCHANGED vars
  <2>1. UNCHANGED <<current, run_time, nu, cor, m_msg_no, call, sent, replies, ran>>
    BY <1>4 DEF vars
  <2>2. SameServed
    BY <2>1 DEF SameServed
  <2>3. CallsInv' /\ Travelling' = Travelling
    BY <2>1, <2>2, SameCalls, SameTravelling
  <2>4. TypeInv' /\ CorInv' /\ KindInv'
    BY <2>1, <2>3 DEF IInv, TypeInv, CorInv, KindInv
  <2>5. NumbersFollow'
    BY <2>1, <2>3, KeptNumbers DEF IInv
  <2>6. QED
    BY <2>3, <2>4, <2>5, IInvParts DEF LocalInv
<1>5. QED
  BY <1>1, <1>2, <1>3, <1>4 DEF Next

-----------------------------------------------------------------------------
(* Theorems                                                                *)

\* Every reachable state satisfies the invariant of the proofs.
THEOREM IInvHolds == Spec => []IInv
<1>1. IInv /\ [Next]_vars => IInv'
  BY NextIInv
<1>2. QED
  BY <1>1, InitIInv, PTL DEF Spec

\* Type correctness, which is that of the invariant.
THEOREM SpecTypeOK == Spec => []TypeOK
<1>1. ASSUME IInv PROVE TypeOK
  <2>1. TypeInv
    BY <1>1 DEF IInv
  <2>2. /\ current \in [Thread -> Cor \cup {NULL}] /\ run_time \in [Thread -> Cor \cup {NULL}]
        /\ \A t \in Thread : nu[t] = Empty \/ nu[t] \in [1..m_msg_req_len -> 0..Nine]
    BY <2>1 DEF TypeInv, Digits
  <2>3. ASSUME NEW c \in Cor
        PROVE  /\ cor[c].pc \in {"input", "method", "waiting", "sleeping"}
               /\ cor[c].timer \in Thread \cup {NULL}
    BY <2>1, CorType DEF CorRecords
  <2>4. ASSUME NEW x \in Caller PROVE call[x].code \in Codes
    BY <2>1, CallType DEF CallRecords
  <2>5. QED
    BY <2>2, <2>3, <2>4 DEF TypeOK
<1>2. QED
  BY <1>1, IInvHolds, PTL

\* The calls of a method have the number of the request it serves, and so has the
\* reply: Resume points the thread to the RunTime of the coroutine, so that what the
\* thread has served in between does not matter.
THEOREM SpecNumbersFollow == Spec => []NumbersFollow
<1>1. IInv => NumbersFollow
  BY DEF IInv
<1>2. QED
  BY <1>1, IInvHolds, PTL

\* A call that has not ended is on its way, is served or has its reply on the way:
\* the dispatcher answers what it cannot call, except a packet without a name.
THEOREM SpecNoCallLost == Spec => []NoCallLost
<1>1. IInv => NoCallLost
  BY DEF IInv
<1>2. QED
  BY <1>1, IInvHolds, PTL

\* The controller of a call that is over says what has happened: its method has been
\* called, once, if it says ok, and nothing has been called if the lookup failed.
THEOREM SpecControllerTruthful == Spec => []ControllerTruthful
<1>1. ASSUME IInv PROVE ControllerTruthful
  <2> DEFINE called(x) == {e \in ran : e[1] = <<x, call[x].k>>}
  <2>1. ASSUME NEW x \in Caller, call[x].k > 0, ~call[x].open
        PROVE  /\ call[x].done <=> call[x].code = "ok"
               /\ call[x].code = "ok" => called(x) = {<<<<x, call[x].k>>, call[x].name>>}
               /\ call[x].code \in NotFound => called(x) = {}
    <3>1. /\ call[x].done <=> call[x].code = "ok"
          /\ call[x].code = "ok" => OnlyCalled(ran, <<x, call[x].k>>, call[x].name)
          /\ call[x].code \in NotFound => NothingCalled(ran, <<x, call[x].k>>)
      BY <1>1, <2>1 DEF IInv, EndInv
    <3>2. QED
      BY <3>1 DEF OnlyCalled, NothingCalled
  <2>2. QED
    BY <2>1 DEF ControllerTruthful, NotFound
<1>2. QED
  BY <1>1, IInvHolds, PTL
=============================================================================
