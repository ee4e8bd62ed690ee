------------------------------- MODULE RpcCall -------------------------------
(***************************************************************************)
(* What a blocking call promises to the coroutine that makes it, whatever  *)
(* the connect, write and read hooks, the timers and the reactor do below: *)
(* one result, given once and for a reason.  TcpClient implements it.      *)
(***************************************************************************)

VARIABLES
  phase,     \* "calling", "returned", or "lost": the coroutine was retired
  reply,     \* what has been read of the reply: "none", "part" or "whole"
  deadline,  \* the timer of the call has found its time over
  result     \* its error code

vars == <<phase, reply, deadline, result>>

Init == phase = "calling" /\ reply = "none" /\ deadline = FALSE /\ result = "none"

Read ==
  /\ phase = "calling"
  /\ \/ reply = "none" /\ reply' \in {"part", "whole"}
     \/ reply = "part" /\ reply' = "whole"
  /\ UNCHANGED <<phase, deadline, result>>

\* The time runs out during the call, once.
RunOut ==
  /\ phase # "returned" /\ ~deadline
  /\ deadline' = TRUE
  /\ UNCHANGED <<phase, reply, result>>

\* What each result says: a reply; the time is over; a peer that was not reached.
Justified(code) ==
  \/ code = "OK" /\ reply = "whole"
  \/ code = "ERROR_RPC_CALL_TIMEOUT" /\ deadline
  \/ code \in {"ERROR_PEER_CLOSED", "ERROR_CONNECT_SYS_ERR"} /\ reply = "none"

Return ==
  /\ phase = "calling"
  /\ result' \in {"OK", "ERROR_RPC_CALL_TIMEOUT", "ERROR_PEER_CLOSED", "ERROR_CONNECT_SYS_ERR"}
  /\ Justified(result')
  /\ phase' = "returned"
  /\ UNCHANGED <<reply, deadline>>

\* The connection is closed below the call, before the reply is whole.
Lose ==
  /\ phase = "calling" /\ reply # "whole"
  /\ phase' = "lost"
  /\ UNCHANGED <<reply, deadline, result>>

Next == Read \/ RunOut \/ Return \/ Lose

Spec == Init /\ [][Next]_vars
=============================================================================
