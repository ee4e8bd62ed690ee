-------------------------- MODULE MCServedStreams --------------------------
(***************************************************************************)
(* Instances of ServedStreams for TLC.  The letters of the packets are the *)
(* bytes 4, 5, ...                                                         *)
(***************************************************************************)
EXTENDS ServedStreams

Request == [msg_req |-> <<4>>, service_full_name |-> <<5, 6>>, err_code |-> 0,
            err_info |-> <<>>, pb_data |-> <<7>>]
Failure == [msg_req |-> <<5>>, service_full_name |-> <<6>>, err_code |-> 9,
            err_info |-> <<4, 4>>, pb_data |-> <<>>]

\* Both packets have 18 bytes: the low digit of their lengths is a start byte, and
\* so is that of the length of err_info.
Stream == <<Request, Failure>>

\* The messages are such as the theorems speak of.
ASSUME MessagesAreProper == TinyPb!ProperMessages

Codec == INSTANCE HttpCodec

Asks(method, url, headers, body) ==
  [line |-> Codec!Line(2, method, "HTTP/1.1", url, "a"),
   headers |-> [i \in DOMAIN headers |-> Codec!Header(headers[i])], body |-> body]

\* One request of each kind: to a servlet, with a body, to a path without a servlet,
\* to a host, without headers, with a body that is not expected, of a method that is
\* not known.
Kinds ==
  {Asks("GET", "path", <<0>>, 0), Asks("POST", "path", <<2, 0>>, 2),
   Asks("GET", "absolute", <<0>>, 0), Asks("GET", "host", <<0>>, 0),
   Asks("GET", "path", <<>>, 0), Asks("GET", "path", <<1>>, 1),
   Asks("PUT", "path", <<0>>, 0)}

HttpStreams ==
  {<<k, l>> : k, l \in Kinds}
    \cup {<<Asks("GET", "path", <<0>>, 0), Asks("POST", "path", <<2, 0>>, 2),
            Asks("GET", "host", <<0>>, 0)>>}
=============================================================================
