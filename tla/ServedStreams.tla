---------------------------- MODULE ServedStreams ----------------------------
(***************************************************************************)
(* What a TcpConnection of a server makes of the bytes it reads, in        *)
(* whichever protocol its TcpServer was built for: the constructor chooses *)
(* a codec and a dispatcher once, and all its connections use them.        *)
(* TinyPbStream has the packets, HttpConnection the HTTP requests.         *)
(***************************************************************************)
EXTENDS Integers, Sequences

CONSTANTS Base, Messages, BufSize,   \* of TinyPbStream
          Servlets, Streams          \* of HttpConnection

VARIABLES
  m_protocal_type,   \* of the server
  pc, in_buf, out_buf, socket,                 \* the connection, and its socket
  sent, out_pc, filled, received,              \* TinyPB
  requests, responses                          \* HTTP

TinyPb == INSTANCE TinyPbStream
Http   == INSTANCE HttpConnection

ASSUME StreamsAssumption ==
  /\ Base \in Nat /\ Base > 3 /\ Base % 2 = 0
  /\ BufSize \in Nat \ {0}
  /\ Messages \in Seq({Messages[i] : i \in DOMAIN Messages})
  /\ Streams \subseteq Seq(Http!Requests)

vars == <<m_protocal_type, TinyPb!vars, Http!vars>>

Init ==
  \/ /\ m_protocal_type = "TinyPb_Protocal" /\ TinyPb!Init
     /\ requests = <<>> /\ responses = <<>>
  \/ /\ m_protocal_type = "Http_Protocal" /\ Http!Init
     /\ sent = 0 /\ out_pc = "execute" /\ filled = FALSE /\ received = <<>>

\* execute() of a TinyPB connection, and of an HTTP connection.
TinyPbNext ==
  /\ m_protocal_type = "TinyPb_Protocal" /\ TinyPb!Next
  /\ UNCHANGED <<m_protocal_type, requests, responses>>

HttpArrive ==
  /\ m_protocal_type = "Http_Protocal" /\ Http!Arrive
  /\ UNCHANGED <<m_protocal_type, sent, out_pc, filled, received>>

HttpServe ==
  /\ m_protocal_type = "Http_Protocal" /\ Http!Serve
  /\ UNCHANGED <<m_protocal_type, sent, out_pc, filled, received>>

Next == TinyPbNext \/ HttpArrive \/ HttpServe

\* An HTTP peer sends all it has, and the coroutine runs.  Nothing is assumed of the
\* packets, which have no liveness property here.
Spec ==
  /\ Init /\ [][Next]_vars
  /\ WF_vars(HttpArrive) /\ WF_vars(HttpServe)

-----------------------------------------------------------------------------
(* Properties                                                              *)

Packets == m_protocal_type = "TinyPb_Protocal"

\* TinyPbStream.BytesConserved: no byte of a packet is lost, repeated or out of place
\* between encode and decode, however the stream is cut.
BytesConserved == Packets => TinyPb!BytesConserved

\* TinyPbStream.WaitsOnlyWhenFilled: the next packet is whole in the buffer during a
\* wait only after a read that filled the buffer.
WaitsOnlyWhenFilled == Packets => TinyPb!WaitsOnlyWhenFilled

\* HttpConnection.AnsweredInOrder: the plain requests are answered one by one, in
\* order, each by its servlet, however the stream is cut, unless a read has ended
\* right behind a request line.
AnsweredInOrder == ~Packets => Http!AnsweredInOrder

\* HttpConnection.Answered: in the end all plain requests have been answered, unless a
\* read has ended right behind a request line.
AllAnswered == <>[](~Packets => Http!Answered)
=============================================================================
