----------------------------- MODULE OrderedTree -----------------------------
(***************************************************************************)
(* What an XML document promises its user: an ordered tree, whose nodes    *)
(* have labels and are changed by the operations of the DOM, each in one   *)
(* place and by the copy that was asked for.  Files give back a tree, or   *)
(* the beginning of one.                                                   *)
(***************************************************************************)
EXTENDS Integers, Sequences, SequencesExt, TLC

CONSTANT Root

VARIABLES
  kids,    \* the children of each node, in order
  label    \* the type, value and attributes of each node

vars == <<kids, label>>

\* A node and all below it, as a value.
RECURSIVE ValueOf(_, _, _)
ValueOf(k, l, n) ==
  [label |-> l[n], kids |-> [i \in DOMAIN k[n] |-> ValueOf(k, l, k[n][i])]]

RECURSIVE Below(_, _)
Below(k, n) == {n} \cup UNION {Below(k, m) : m \in Range(k[n])}

\* The nodes of S keep their labels, and their children, but for those of p.
SameBut(S, p, ks) ==
  \A n \in S : /\ n \in DOMAIN kids' /\ label'[n] = label[n]
               /\ kids'[n] = IF n = p THEN ks ELSE kids[n]

\* A copy of the tree t, by nodes not there before, is child i of p, where the
\* children from i to j - 1 have been.
Placed(p, i, j, t) ==
  LET gone == UNION {Below(kids, kids[p][k]) : k \in i..(j - 1)} IN
  \E r \in DOMAIN kids' \ (DOMAIN kids \ gone) :
    /\ SameBut(DOMAIN kids \ gone, p,
               SubSeq(kids[p], 1, i - 1) \o <<r>> \o SubSeq(kids[p], j, Len(kids[p])))
    /\ ValueOf(kids', label', r) = t
    /\ Below(kids', r) \cap (DOMAIN kids \ gone) = {}
    /\ DOMAIN kids' = (DOMAIN kids \ gone) \cup Below(kids', r)

\* A new node without children, at the end.
AddChild(p) ==
  \E n \in DOMAIN label' \ DOMAIN label :
    Placed(p, Len(kids[p]) + 1, Len(kids[p]) + 1, [label |-> label'[n], kids |-> <<>>])

InsertChild(p, src) == \E i \in 1..(Len(kids[p]) + 1) : Placed(p, i, i, ValueOf(kids, label, src))

ReplaceChild(p, src) == \E i \in DOMAIN kids[p] : Placed(p, i, i + 1, ValueOf(kids, label, src))

\* The children from i to j - 1 go, with all below them.
Drop(p, i, j) ==
  LET gone == UNION {Below(kids, kids[p][k]) : k \in i..(j - 1)} IN
  /\ DOMAIN kids' = DOMAIN kids \ gone
  /\ SameBut(DOMAIN kids \ gone, p, SubSeq(kids[p], 1, i - 1) \o SubSeq(kids[p], j, Len(kids[p])))

RemoveChild(p) == \E i \in DOMAIN kids[p] : Drop(p, i, i + 1)

Clear(p) == Drop(p, 1, Len(kids[p]) + 1)

\* The attributes of one node change.
Relabel(n) ==
  /\ kids' = kids
  /\ label' = [label EXCEPT ![n] = label'[n]]
  /\ label'[n].type = label[n].type /\ label'[n].value = label[n].value

\* The first byte of a tag reads as an unknown node.
Torn(t) == t.label.type = "unknown" /\ t.label.value = <<>>

\* A tree of which the end is missing.
RECURSIVE IsBeginning(_, _)
IsBeginning(t, u) ==
  LET whole == IF t.kids # <<>> /\ Torn(Last(t.kids)) THEN Front(t.kids) ELSE t.kids IN
  /\ t.label.type = u.label.type
  /\ IsPrefix(t.label.value, u.label.value) /\ IsPrefix(t.label.attrs, u.label.attrs)
  /\ Len(whole) <= Len(u.kids)
  /\ \A i \in DOMAIN whole :
       IF i < Len(whole) THEN whole[i] = u.kids[i] ELSE IsBeginning(whole[i], u.kids[i])

\* The document is read again from a file that was written of it.
Load ==
  /\ Root \in DOMAIN kids' /\ DOMAIN kids' = Below(kids', Root)
  /\ IsBeginning(ValueOf(kids', label', Root), ValueOf(kids, label, Root))

Init == kids = (Root :> <<>>) /\ DOMAIN label = {Root}

Next ==
  \/ \E p \in DOMAIN kids : AddChild(p) \/ RemoveChild(p) \/ Clear(p) \/ Relabel(p)
  \/ \E p, src \in DOMAIN kids : InsertChild(p, src) \/ ReplaceChild(p, src)
  \/ Load

Spec == Init /\ [][Next]_vars
=============================================================================
