------------------------------ MODULE HttpCodec ------------------------------
(***************************************************************************)
(* HttpCodeC::decode and encode, and HttpDispacther::dispatch              *)
(* (net/http).  The buffer is a sequence of tokens: CR, LF, a request line *)
(* or a header line without its end, and a byte of a body.  A line that    *)
(* has not arrived whole is not in the buffer yet.                         *)
(***************************************************************************)
EXTENDS Integers, Sequences, FiniteSets, SequencesExt

CONSTANTS
  Servlets   \* the paths of m_servlets

CR == [kind |-> "CR"]
LF == [kind |-> "LF"]
Byte == [kind |-> "byte"]

CRLF == <<CR, LF>>
CRLF_DOUBLE == CRLF \o CRLF

\* A request line.  url is the form of its middle part: "path" for /path, "absolute"
\* for scheme://host/path, "host" for scheme://host or scheme://host/, and "scheme"
\* when nothing follows the ://.
Line(spaces, method, version, url, path) ==
  [kind |-> "line", spaces |-> spaces, method |-> method, version |-> version, url |-> url,
   path |-> path]

\* A header line, with the Content-Length it announces or 0.
Header(length) == [kind |-> "header", length |-> length]

\* What a buffer consists of.
Lines ==
  [kind : {"line"}, spaces : Nat, method : STRING, version : STRING, url : STRING, path : STRING]

Headers == [kind : {"header"}, length : Nat]

Tokens == Lines \cup Headers \cup {CR, LF, Byte}

\* A path without its first slash.
Relative(path) == <<"relative", path>>

-----------------------------------------------------------------------------
(* Parsing                                                                 *)

NoRequest == [method |-> "uninitialised", path |-> "", body |-> 0]

\* parseHttpRequestLine says yes.  What stands for a line may also be a header or a
\* body, when the boundaries have been lost: they have no known method.
LineParses(x) ==
  /\ x.kind = "line"
  /\ x.spaces = 2
  /\ x.method \in {"GET", "POST"}
  /\ x.version \in {"HTTP/1.0", "HTTP/1.1"}
  /\ x.url # "scheme"

\* The path it finds: that of an absolute URL loses its first slash, and is empty
\* for a host alone.
PathOf(line) ==
  CASE line.url = "path" -> line.path
    [] line.url = "absolute" -> Relative(line.path)
    [] line.url = "host" -> ""

\* Where s occurs in q for the first time, or 0: find.
Find(q, s) ==
  LET at == {i \in 1..(Len(q) - Len(s) + 1) : SubSeq(q, i, i + Len(s) - 1) = s}
  IN  IF at = {} THEN 0 ELSE CHOOSE i \in at : \A j \in at : i <= j

\* SplitStrToMap of the header block: the last Content-Length counts.
ContentLength[block \in Seq(Tokens)] ==
  LET announced == {i \in DOMAIN block : block[i].kind = "header" /\ block[i].length > 0}
  IN  IF announced = {} THEN 0 ELSE block[Max(announced)].length

Result(succ, request, consumed) ==
  [decode_succ |-> succ, request |-> request, consumed |-> consumed]

Undecoded == Result(FALSE, NoRequest, 0)

\* The request line ends the buffer: decode breaks out of its loop, and has
\* succeeded.
NeedMoreData == Result(TRUE, NoRequest, 0)

\* How much of the content is consumed: none, if the method is not POST.  The mutant
\* leaves the body to the next decode.
NothingConsumed(method, length) == 0

Consumed(method, length) == IF method = "POST" THEN length ELSE 0

\* The content, behind a line and headers of head tokens.
DecodeContent(buf, line, head, length) ==
  IF Len(buf) - head < length THEN Undecoded
  ELSE Result(TRUE, [method |-> line.method, path |-> PathOf(line),
                     body |-> Consumed(line.method, length)],
              head + Consumed(line.method, length))

\* The headers, behind the line of i tokens and its end: they must have an end of
\* their own, which the end of the line is no part of.
DecodeHeader(buf, line, i) ==
  LET rest == SubSeq(buf, i + 2, Len(buf))
      j == Find(rest, CRLF_DOUBLE)
  IN  IF j = 0 THEN Undecoded
      ELSE DecodeContent(buf, line, i + 1 + j + 3, ContentLength[SubSeq(rest, 1, j - 1)])

Decode(buf) ==
  LET i == Find(buf, CRLF) IN
  IF i = 0 THEN Undecoded
  ELSE IF i = Len(buf) - 1 THEN NeedMoreData
  ELSE IF i # 2 \/ ~LineParses(buf[1]) THEN Undecoded
  ELSE DecodeHeader(buf, buf[1], i)

-----------------------------------------------------------------------------
(* Dispatching                                                             *)

\* dispatch: what the response's code is when it is encoded.  For an empty path no
\* servlet sets it.
Dispatch(request) ==
  CASE request.path = "" -> "uninitialised"
    [] request.path # "" /\ request.path \in Servlets -> "servlet"
    [] request.path # "" /\ request.path \notin Servlets -> "404"
=============================================================================
