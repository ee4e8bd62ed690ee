--------------------------- MODULE HttpConnection ---------------------------
(***************************************************************************)
(* A connection of an HTTP server: its coroutine reads what has arrived,   *)
(* decodes and dispatches request after request, and writes the responses. *)
(* The peer sends the bytes of some requests, which come in pieces.  The   *)
(* indexes of the buffers are in TinyPbStream, closing in TcpServer.       *)
(***************************************************************************)
EXTENDS HttpCodec

CONSTANTS
  Streams     \* what a peer may send: a set of sequences of requests

VARIABLES
  requests,   \* the requests of this peer
  socket,     \* their bytes still to be read
  pc,         \* the coroutine in MainServerLoopCorFunc
  in_buf,     \* m_read_buffer
  out_buf,    \* m_write_buffer: responses, by their code
  responses   \* what has been written

vars == <<requests, socket, pc, in_buf, out_buf, responses>>

\* What the streams consist of.
Requests == [line : Lines, headers : Seq(Headers), body : Nat]

\* A request as it is sent: its line, its headers and a body of so many bytes.
BytesOf(r) ==
  <<r.line>> \o CRLF \o FlattenSeq([i \in DOMAIN r.headers |-> <<r.headers[i]>> \o CRLF])
    \o CRLF \o [i \in 1..r.body |-> Byte]

BytesOfAll(rs) == FlattenSeq([i \in DOMAIN rs |-> BytesOf(rs[i])])

Init ==
  /\ requests \in Streams
  /\ socket = BytesOfAll(requests)
  /\ pc = "input" /\ in_buf = <<>> /\ out_buf = <<>> /\ responses = <<>>

\* input(): read_hook returns n bytes, fewer than the buffer could take.
Input(n) ==
  /\ pc = "input" /\ n <= Len(socket)
  /\ in_buf' = in_buf \o SubSeq(socket, 1, n)
  /\ socket' = SubSeq(socket, n + 1, Len(socket))
  /\ pc' = "execute"
  /\ UNCHANGED <<requests, out_buf, responses>>

\* decode says it has a request and takes nothing.
Spins == Decode(in_buf).decode_succ /\ Decode(in_buf).consumed = 0

\* One turn of execute().  One that takes nothing is repeated for ever, and fills the
\* write buffer; that stands here as the first such response.
Execute ==
  /\ pc = "execute" /\ in_buf # <<>>
  /\ LET d == Decode(in_buf) IN
     IF d.decode_succ
     THEN /\ in_buf' = SubSeq(in_buf, d.consumed + 1, Len(in_buf))
          /\ out_buf' = IF Spins /\ out_buf # <<>> /\ Last(out_buf) = "uninitialised" THEN out_buf
                        ELSE Append(out_buf, Dispatch(d.request))
          /\ UNCHANGED pc
     ELSE pc' = "output" /\ UNCHANGED <<in_buf, out_buf>>
  /\ UNCHANGED <<requests, socket, responses>>

ExecuteDone ==
  /\ pc = "execute" /\ in_buf = <<>>
  /\ pc' = "output"
  /\ UNCHANGED <<requests, socket, in_buf, out_buf, responses>>

\* What output() leaves in m_write_buffer: nothing.  In the mutant recycleRead is
\* forgotten.
NotRecycled == out_buf

Recycled == <<>>

\* output() ends when the buffer is empty.
Output ==
  /\ pc = "output"
  /\ responses' = responses \o out_buf
  /\ out_buf' = Recycled
  /\ pc' = "input"
  /\ UNCHANGED <<requests, socket, in_buf>>

Arrive == \E n \in 1..Len(socket) : Input(n)

Serve == Execute \/ ExecuteDone \/ Output

-----------------------------------------------------------------------------
(* Properties                                                              *)

\* The requests the code understands as they are meant: a line it parses, at least
\* one header, a length that is that of the body, and a body with POST only.
Plain(r) ==
  /\ LineParses(r.line)
  /\ r.headers # <<>>
  /\ ContentLength[r.headers] = r.body
  /\ r.body > 0 => r.line.method = "POST"

Codes(rs) ==
  [i \in DOMAIN rs |-> Dispatch([method |-> rs[i].line.method, path |-> PathOf(rs[i].line),
                                 body |-> rs[i].body])]

\* The requests before the first that is not plain.
PlainOnes(rs) ==
  SubSeq(rs, 1, Min({Len(rs)} \cup {i - 1 : i \in {k \in DOMAIN rs : ~Plain(rs[k])}}))

Written == responses \o out_buf

\* The plain requests are answered one by one, in order and each by its servlet,
\* however the stream is cut, unless a read has ended right behind a request line.
AnsweredInOrder ==
  ~Spins => LET expected == Codes(PlainOnes(requests)) IN
            IsPrefix(SubSeq(Written, 1, Min({Len(Written), Len(expected)})), expected)

\* All plain requests are answered.
Answered == Spins \/ Len(responses) >= Len(PlainOnes(requests))
=============================================================================
