--------------------------- MODULE MCAsyncChannel ---------------------------
(***************************************************************************)
(* Instances of AsyncChannel for TLC.                                      *)
(***************************************************************************)
EXTENDS AsyncChannel

CONSTANTS s1, s2

TwoSlots == <<s1, s2>>
=============================================================================
