------------------------------- MODULE XmlNodes -------------------------------
(***************************************************************************)
(* TiXmlNode: nodes linked by pointers to their parent, first and last     *)
(* child and siblings (tinyxml.cpp), edited by the DOM's operations.       *)
(*                                                                         *)
(* A heap is a function from the nodes that exist to their contents; new   *)
(* takes any unused one.  What a document is loaded from is left open here *)
(* and added in XmlDocument.                                               *)
(***************************************************************************)
EXTENDS XmlAttributes, FiniteSets

CONSTANTS
  MaxNodes,    \* how many nodes may exist at once
  Leaves,      \* the nodes a user creates
  Attributes   \* the attributes a user sets: a set of <<name, value>>

ASSUME NodesAssumption ==
  /\ MaxNodes \in Nat \ {0}
  /\ \A t \in Leaves : t.type # "document" /\ IsSet(t.attrs)

Node == 1..MaxNodes
Doc  == 1

VARIABLES
  heap,    \* the nodes that exist
  error    \* errorId of the document, or ""

nodeVars == <<heap, error>>

\* The constructor of TiXmlNode and those of its subclasses.
NewNode(t) ==
  [type |-> t.type, value |-> t.value, attrs |-> t.attrs, parent |-> NULL,
   firstChild |-> NULL, lastChild |-> NULL, prev |-> NULL, next |-> NULL]

\* A heap with new nodes in it.
Joined(h, new) == [n \in DOMAIN h \cup DOMAIN new |-> IF n \in DOMAIN h THEN h[n] ELSE new[n]]

-----------------------------------------------------------------------------
(* Walking                                                                 *)

\* for (node = m; node; node = link[node]): the nodes met, and at most MaxNodes + 1, where
\* the pointers go in a circle.
Walk(link, m) ==
  LET from[k \in 0..(MaxNodes + 1)] ==
        [n \in DOMAIN link \cup {NULL} |->
           IF n = NULL \/ k = 0 THEN <<>> ELSE <<n>> \o from[k - 1][link[n]]]
  IN  from[MaxNodes + 1][m]

Forwards(h, m) == Walk([n \in DOMAIN h |-> h[n].next], m)
Backwards(h, m) == Walk([n \in DOMAIN h |-> h[n].prev], m)

Children(h, n) == Forwards(h, h[n].firstChild)

\* The first node of S that a walk meets, or NULL.
FirstOf(list, S) ==
  LET at == {i \in DOMAIN list : list[i] \in S} IN IF at = {} THEN NULL ELSE list[Min(at)]

WithValue(h, value) == {n \in DOMAIN h : h[n].value = value}

ElementsOf(h) == {n \in DOMAIN h : h[n].type = "element"}

FirstChild(h, n, value) == FirstOf(Children(h, n), WithValue(h, value))
LastChild(h, n, value) == FirstOf(Backwards(h, h[n].lastChild), WithValue(h, value))
NextSibling(h, n, value) == FirstOf(Forwards(h, h[n].next), WithValue(h, value))
PreviousSibling(h, n, value) == FirstOf(Backwards(h, h[n].prev), WithValue(h, value))

\* The loop of TiXmlHandle: so many steps along the children of n that are in S.
Steps(h, n, S, count) ==
  LET further == [m \in DOMAIN h |-> FirstOf(Forwards(h, h[m].next), S)]
      at[k \in 0..count] == IF k = 0 THEN FirstOf(Children(h, n), S)
                            ELSE LET m == at[k - 1] IN IF m = NULL THEN NULL ELSE further[m]
  IN  at[count]

\* The document a node is in, or NULL.
GetDocument(h, n) ==
  FirstOf(Walk([m \in DOMAIN h |-> h[m].parent], n), {m \in DOMAIN h : h[m].type = "document"})

\* What a destructor deletes: the node, and what its loop finds below each that it deletes.
Below(h, n) ==
  LET links    == UNION {{p} \X Range(Children(h, p)) : p \in DOMAIN h}
      Whole(S) == n \in S /\ \A link \in links : link[1] \in S => link[2] \in S
  IN  {m \in DOMAIN h : \A S \in SUBSET DOMAIN h : Whole(S) => m \in S}

Freed(h, S) == [n \in DOMAIN h \ S |-> h[n]]

-----------------------------------------------------------------------------
(* Linking                                                                 *)

LinkEndChild(h, this, n) ==
  LET last == h[this].lastChild
      h1 == [h EXCEPT ![n].parent = this, ![n].prev = last, ![n].next = NULL]
      h2 == IF last # NULL THEN [h1 EXCEPT ![last].next = n] ELSE [h1 EXCEPT ![this].firstChild = n]
  IN  [h2 EXCEPT ![this].lastChild = n]

\* The entry of a list, or NULL beside it.
Entry(list, i) == IF i \in DOMAIN list THEN list[i] ELSE NULL

\* New nodes with these labels, and the children of each linked by LinkEndChild, one after
\* the other.
Linked(label, kids) ==
  [n \in DOMAIN kids |->
     LET places == {at \in (DOMAIN kids) \X Node : Entry(kids[at[1]], at[2]) = n}
         place  == IF places = {} THEN <<NULL, 0>> ELSE CHOOSE at \in places : TRUE
         around == IF places = {} THEN <<>> ELSE kids[place[1]]
     IN  [NewNode(label[n]) EXCEPT
            !.parent = place[1],
            !.prev = Entry(around, place[2] - 1), !.next = Entry(around, place[2] + 1),
            !.firstChild = Entry(kids[n], 1), !.lastChild = Entry(kids[n], Len(kids[n]))]]

\* The nodes a clone of n may consist of.
Copies(h, n) == Injection(Below(h, n), Node \ DOMAIN h)

\* CopyTo: a clone's attributes are those that a loop over the original's finds.
CopiedLabel(node) == [type |-> node.type, value |-> node.value, attrs |-> Iterated(node.attrs)]

\* Clone with CopyTo, on nodes not used before; they are in no list of the heap yet.
Clone(h, n) ==
  LET copy == CHOOSE c \in Copies(h, n) : TRUE
      Original(c) == CHOOSE m \in DOMAIN copy : copy[m] = c
      label == [c \in Range(copy) |-> CopiedLabel(h[Original(c)])]
      kids  == [c \in Range(copy) |->
                  LET list == Children(h, Original(c)) IN [i \in DOMAIN list |-> copy[list[i]]]]
  IN  [heap |-> Joined(h, Linked(label, kids)), node |-> copy[n]]

LinkBeforeKeepsFirst(h, this, at, n) ==
  LET before == h[at].prev
      h1 == [h EXCEPT ![n].parent = this, ![n].next = at, ![n].prev = before]
      h2 == IF before # NULL THEN [h1 EXCEPT ![before].next = n] ELSE h1
  IN  [h2 EXCEPT ![at].prev = n]

\* node goes before at, among the children of this.  The mutant forgets firstChild.
LinkBefore(h, this, at, n) ==
  LET before == h[at].prev
      h1 == [h EXCEPT ![n].parent = this, ![n].next = at, ![n].prev = before]
      h2 == IF before # NULL THEN [h1 EXCEPT ![before].next = n]
             ELSE [h1 EXCEPT ![this].firstChild = n]
  IN  [h2 EXCEPT ![at].prev = n]

LinkAfterOneWay(h, this, at, n) ==
  LET after == h[at].next
      h1 == [h EXCEPT ![n].parent = this, ![n].prev = at, ![n].next = after]
      h2 == IF after # NULL THEN h1 ELSE [h1 EXCEPT ![this].lastChild = n]
  IN  [h2 EXCEPT ![at].next = n]

\* node goes behind at.  The mutant forgets the prev of the one behind it.
LinkAfter(h, this, at, n) ==
  LET after == h[at].next
      h1 == [h EXCEPT ![n].parent = this, ![n].prev = at, ![n].next = after]
      h2 == IF after # NULL THEN [h1 EXCEPT ![after].prev = n]
             ELSE [h1 EXCEPT ![this].lastChild = n]
  IN  [h2 EXCEPT ![at].next = n]

\* The neighbours of a child, or this, point to after and before in its place.
Bridge(h, this, child, before, after) ==
  LET h1 == IF h[child].next # NULL THEN [h EXCEPT ![h[child].next].prev = before]
            ELSE [h EXCEPT ![this].lastChild = before]
  IN  IF h[child].prev # NULL THEN [h1 EXCEPT ![h[child].prev].next = after]
      ELSE [h1 EXCEPT ![this].firstChild = after]

\* node takes the place of old, which is deleted.
PutInPlace(h, this, old, n) ==
  LET h1 == [h EXCEPT ![n].next = h[old].next, ![n].prev = h[old].prev, ![n].parent = this]
  IN  Freed(Bridge(h1, this, old, n, n), Below(h, old))

UnlinkOnly(h, this, child) == Bridge(h, this, child, h[child].prev, h[child].next)

\* The child leaves its list and is deleted.  The mutant only unlinks it.
Unlink(h, this, child) ==
  Freed(Bridge(h, this, child, h[child].prev, h[child].next), Below(h, child))

Cleared(h, n) ==
  [Freed(h, Below(h, n) \ {n}) EXCEPT ![n].firstChild = NULL, ![n].lastChild = NULL]

-----------------------------------------------------------------------------
(* The operations                                                          *)

NodesInit ==
  /\ heap = [n \in {Doc} |-> NewNode([type |-> "document", value |-> <<>>, attrs |-> <<>>])]
  /\ error = ""

\* Nodes that may have children.
Parents == {n \in DOMAIN heap : heap[n].type \in {"document", "element"}}

\* SetError keeps the first.
SetError(e) == error' = IF error = "" THEN e ELSE error

\* A node just created, linked by its creator.
LinkNew(this, t) ==
  /\ Node # DOMAIN heap
  /\ LET n == Min(Node \ DOMAIN heap)
     IN  heap' = LinkEndChild(Joined(heap, [m \in {n} |-> NewNode(t)]), this, n)
  /\ UNCHANGED error

\* Insert...Child and ReplaceChild refuse a document, and clone anything else, also
\* what is above or below the place; linked is the heap with the clone in its place.
Inserting(addThis, linked) ==
  IF heap[addThis].type = "document"
  THEN SetError("DOCUMENT_TOP_ONLY") /\ UNCHANGED heap
  ELSE /\ Copies(heap, addThis) # {}
       /\ heap' = linked
       /\ UNCHANGED error

InsertEndChild(this, addThis) ==
  LET b == Clone(heap, addThis)
  IN  Inserting(addThis, LinkEndChild(b.heap, this, b.node))

InsertBeforeChild(this, beforeThis, addThis) ==
  LET b == Clone(heap, addThis) IN
  /\ heap[beforeThis].parent = this
  /\ Inserting(addThis, LinkBefore(b.heap, this, beforeThis, b.node))

InsertAfterChild(this, afterThis, addThis) ==
  LET b == Clone(heap, addThis) IN
  /\ heap[afterThis].parent = this
  /\ Inserting(addThis, LinkAfter(b.heap, this, afterThis, b.node))

ReplaceChild(this, replaceThis, withThis) ==
  LET b == Clone(heap, withThis) IN
  /\ heap[replaceThis].parent = this
  /\ Inserting(withThis, PutInPlace(b.heap, this, replaceThis, b.node))

RemoveChild(this, removeThis) ==
  /\ heap[removeThis].parent = this
  /\ heap' = Unlink(heap, this, removeThis)
  /\ UNCHANGED error

Clear(this) ==
  /\ heap' = Cleared(heap, this)
  /\ UNCHANGED error

SetAttribute(this, a) ==
  /\ Find(heap[this].attrs, a[1]) # NULL \/ MayAddToSet(heap[this].attrs)
  /\ LET attrs == FindOrCreate(heap[this].attrs, a[1])
     IN  heap' = [heap EXCEPT ![this].attrs = [attrs EXCEPT ![Find(attrs, a[1])] = a]]
  /\ UNCHANGED error

RemoveAttribute(this, name) ==
  /\ Find(heap[this].attrs, name) # NULL
  /\ heap' = [heap EXCEPT ![this].attrs = RemoveFromSet(@, Find(@, name))]
  /\ UNCHANGED error

\* An operation of the DOM.
Edit ==
  \/ \E this \in Parents :
       \/ \E t \in Leaves : LinkNew(this, t)
       \/ Clear(this)
       \/ \E n \in DOMAIN heap : RemoveChild(this, n)
       \/ \E addThis \in DOMAIN heap :
            \/ InsertEndChild(this, addThis)
            \/ \E n \in DOMAIN heap :
                 \/ InsertBeforeChild(this, n, addThis)
                 \/ InsertAfterChild(this, n, addThis)
                 \/ ReplaceChild(this, n, addThis)
  \/ \E this \in ElementsOf(heap), a \in Attributes :
       SetAttribute(this, a) \/ RemoveAttribute(this, a[1])

\* kids is a tree with this root: every other node is in one list, once, and is reached
\* from there.
IsTree(kids, root) ==
  /\ root \in DOMAIN kids /\ DOMAIN kids \subseteq Node
  /\ \A p \in DOMAIN kids : kids[p] \in Seq(DOMAIN kids \ {root})
  /\ \A p, q \in DOMAIN kids : \A i \in DOMAIN kids[p], j \in DOMAIN kids[q] :
       kids[p][i] = kids[q][j] => p = q /\ i = j
  /\ \A S \in SUBSET DOMAIN kids :
       root \in S /\ (\A p \in S : Range(kids[p]) \subseteq S) => S = DOMAIN kids

\* A document with these labels: only the root is a document, and no attribute is there
\* twice.
IsDocument(label, kids) ==
  /\ IsTree(kids, Doc) /\ DOMAIN label = DOMAIN kids
  /\ \A n \in DOMAIN label : /\ label[n].type = "document" <=> n = Doc
                             /\ IsSet(label[n].attrs)

\* Clear and Parse, with an error or without: the nodes of some document, linked.
LoadDocument(label, kids, e) ==
  /\ heap' = Linked(label, kids)
  /\ error' = e

\* The DOM, where any document may be loaded.
NodesNext ==
  \/ Edit
  \/ \E label, kids, e : IsDocument(label, kids) /\ LoadDocument(label, kids, e)

NodesSpec == NodesInit /\ [][NodesNext]_nodeVars

-----------------------------------------------------------------------------
(* Properties                                                              *)

NodesTypeOK ==
  /\ Doc \in DOMAIN heap /\ DOMAIN heap \subseteq Node
  /\ \A n \in DOMAIN heap :
       {heap[n].parent, heap[n].firstChild, heap[n].lastChild, heap[n].prev, heap[n].next}
         \subseteq DOMAIN heap \cup {NULL}

\* A handle finds a child in S by the number of those before it, and none behind the last.
StepsCount(n, S) ==
  LET list == Children(heap, n)
      like == {i \in DOMAIN list : list[i] \in S}
  IN  /\ \A i \in like : Steps(heap, n, S, Cardinality({j \in like : j < i})) = list[i]
      /\ Steps(heap, n, S, Cardinality(like)) = NULL

\* Children with the same value as child i are found from both ends and from i itself.
ByValue(n, i) ==
  LET list   == Children(heap, n)
      v      == heap[list[i]].value
      like   == {j \in DOMAIN list : heap[list[j]].value = v}
      after  == {j \in like : j > i}
      before == {j \in like : j < i}
  IN  /\ FirstChild(heap, n, v) = list[Min(like)] /\ LastChild(heap, n, v) = list[Max(like)]
      /\ NextSibling(heap, list[i], v) = (IF after = {} THEN NULL ELSE list[Min(after)])
      /\ PreviousSibling(heap, list[i], v) = (IF before = {} THEN NULL ELSE list[Max(before)])
      /\ StepsCount(n, WithValue(heap, v))
      /\ StepsCount(n, ElementsOf(heap) \cap WithValue(heap, v))

\* The list of a node's children is the same forwards and backwards, all of them know
\* their parent, walks by value from either end and from a child find the nearest, a
\* handle finds children and elements by their number, and each attribute is the one its
\* name finds.
WalksAgree ==
  \A n \in DOMAIN heap :
    LET list == Children(heap, n) IN
    /\ Backwards(heap, heap[n].lastChild) = Reverse(list)
    /\ \A i \in DOMAIN list : heap[list[i]].parent = n /\ ByValue(n, i)
    /\ StepsCount(n, DOMAIN heap) /\ StepsCount(n, ElementsOf(heap))
    /\ \A i \in DOMAIN heap[n].attrs : Find(heap[n].attrs, heap[n].attrs[i][1]) = i

\* No node is lost and none belongs to two lists: each that exists is found once
\* from the document, which it finds in turn (else nobody would ever delete it, or
\* two would).
NothingLeaks ==
  /\ Below(heap, Doc) = DOMAIN heap
  /\ IsTree([n \in DOMAIN heap |-> Children(heap, n)], Doc)
  /\ \A n \in DOMAIN heap : GetDocument(heap, n) = Doc
=============================================================================
