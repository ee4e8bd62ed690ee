--------------------------- MODULE MCServerProcess ---------------------------
(***************************************************************************)
(* Instances of ServerProcess for TLC.                                     *)
(***************************************************************************)
EXTENDS ServerProcess

LinesOfEach == [l \in Log |-> IF l = "rpc" THEN 2 ELSE 0]
=============================================================================
