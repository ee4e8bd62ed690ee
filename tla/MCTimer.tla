------------------------------ MODULE MCTimer ------------------------------
(***************************************************************************)
(* An instance of Timer for TLC: the timeout of a call, the sleep of a     *)
(* coroutine and a repeated event (the flush of the log).                  *)
(***************************************************************************)
EXTENDS Timer, TLC

CONSTANTS call, sleep, flush

Intervals == (call :> 2) @@ (sleep :> 3) @@ (flush :> 2)
=============================================================================
