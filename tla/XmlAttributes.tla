---------------------------- MODULE XmlAttributes ----------------------------
(***************************************************************************)
(* TiXmlAttributeSet (tinyxml.cpp): the circular list of attributes with   *)
(* its sentinel, as a sequence of <<name, value>>.                         *)
(***************************************************************************)
EXTENDS Integers, Sequences, FiniteSetsExt, SequencesExt

NULL == 0

\* Where the attribute of this name is, or NULL.
Find(attrs, name) ==
  LET at == {i \in DOMAIN attrs : attrs[i][1] = name} IN IF at = {} THEN NULL ELSE Min(at)

\* Add and Remove: an attribute is linked before it gets its name, and Add asserts that
\* there is none without a name.
MayAddToSet(attrs) == Find(attrs, "") = NULL

AddToSet(attrs) == Append(attrs, <<"", <<>>>>)

RemoveFromSet(attrs, i) == RemoveAt(attrs, i)

FindOrCreate(attrs, name) ==
  IF Find(attrs, name) # NULL THEN attrs
  ELSE [AddToSet(attrs) EXCEPT ![Len(attrs) + 1] = <<name, <<>>>>]

\* The attributes a loop over First() and Next() meets: one with neither name nor
\* value, behind the first, is taken for the sentinel.
Iterated(attrs) ==
  LET ends == {i \in DOMAIN attrs \ {1} : attrs[i] = <<"", <<>>>>}
  IN  IF ends = {} THEN attrs ELSE SubSeq(attrs, 1, Min(ends) - 1)

\* No name is there twice.
IsSet(attrs) ==
  /\ attrs \in Seq(Range(attrs))
  /\ \A i, j \in DOMAIN attrs : attrs[i][1] = attrs[j][1] => i = j
=============================================================================
