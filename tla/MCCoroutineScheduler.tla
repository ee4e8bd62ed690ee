------------------------ MODULE MCCoroutineScheduler ------------------------
(***************************************************************************)
(* Two instances of CoroutineScheduler for TLC.  In the first every        *)
(* coroutine has the one socket of its connection; in the second one of    *)
(* them also calls another server through a socket of its own.             *)
(***************************************************************************)
EXTENDS CoroutineScheduler, TLC

CONSTANTS r1, r2, c1, c2, f1, f2, f3

\* c1 and c2 serve a connection each.
Connections == (c1 :> f1) @@ (c2 :> f2)

\* Plain servers make no calls; with a nested call c1 waits for an answer on f3.
NoCalls    == (c1 :> {}) @@ (c2 :> {})
NestedCall == (c1 :> {f3}) @@ (c2 :> {})

\* The reactors are interchangeable.
Threads == Permutations({r1, r2})
=============================================================================
