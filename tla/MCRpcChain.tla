----------------------------- MODULE MCRpcChain -----------------------------
(***************************************************************************)
(* Instances of RpcChain for TLC.  Two services, one of them in a package: *)
(* Query has the methods age and name, pkg.Query has age.                  *)
(***************************************************************************)
EXTENDS RpcChain, TLC

CONSTANTS t1, t2, c1, c2, c3, a, b

Age    == <<"Query", "age">>
Name   == <<"Query", "name">>
InPkg  == <<"pkg", "Query", "age">>
NoName == <<"Query", "none">>
NoDot  == <<"age">>

\* Packets may have any of the names, or none.
AllNames == {Name, InPkg, NoDot, <<>>}

Registered == (<<"Query">> :> {<<"age">>, <<"name">>}) @@ (<<"pkg", "Query">> :> {<<"age">>})

\* name calls age, sleeps, and calls a method that is not there; the servlet calls age.
Calls ==
  [n \in AllNames \cup {Age, NoName, Url} |->
     CASE n = Name -> <<Age, Sleep, NoName>> [] n = Url -> <<Age>> [] OTHER -> <<>>]

Numbers == [x \in {a, b} |-> <<7>>]

Demanding == {NoName}

Symmetric == Permutations({t1, t2}) \cup Permutations({c1, c2, c3})
               \cup Permutations({a, b})
=============================================================================
