----------------------------- MODULE XmlDocument -----------------------------
(***************************************************************************)
(* TiXmlDocument: the nodes of XmlNodes, saved to a file and loaded from   *)
(* it.  A save may be cut off.                                             *)
(***************************************************************************)
EXTENDS XmlText, XmlNodes

CONSTANT
  Cuts   \* how many tokens of a file may be missing at its end

ASSUME CutsAssumption == Cuts \subseteq Nat

\* The tree below a node, by the walks of the printers.
RECURSIVE TreeOf(_, _)
TreeOf(h, n) ==
  Tree(h[n].type, h[n].value, h[n].attrs,
       [i \in DOMAIN Children(h, n) |-> TreeOf(h, Children(h, n)[i])])

\* The trees in a tree, in the order in which Parse creates their nodes.
RECURSIVE Subtrees(_)
Subtrees(t) == <<t>> \o FlattenSeq([i \in DOMAIN t.kids |-> Subtrees(t.kids[i])])

Size(t) == Len(Subtrees(t))

\* The children of a tree's nodes, when the first has number n: a child is behind all that
\* is below those before it.  The mutant numbers children in a row.
RECURSIVE KidsInARow(_, _), KidsOf(_, _)
KidsInARow(t, n) ==
  <<[i \in DOMAIN t.kids |-> n + i]>>
    \o FlattenSeq([i \in DOMAIN t.kids |-> KidsInARow(t.kids[i], n + i)])

KidsOf(t, n) ==
  LET First(i) == n + 1 + Len(FlattenSeq([j \in 1..(i - 1) |-> Subtrees(t.kids[j])]))
  IN  <<[i \in DOMAIN t.kids |-> First(i)]>>
        \o FlattenSeq([i \in DOMAIN t.kids |-> KidsOf(t.kids[i], First(i))])

SaveFile(h) == PrintDocument(TreeOf(h, Doc).kids)

\* What LoadFile parses: also behind an error, what has been read is linked.
LoadFile(s) == IF s = <<>> THEN [kids |-> <<>>, error |-> "DOCUMENT_EMPTY"] ELSE ParseDocument(s)

-----------------------------------------------------------------------------
(* What survives in a file                                                 *)

\* Texts next to each other become one, white space is condensed, a reference by
\* number is read as its character, and a delimiter inside a raw node ends it.
LeafPrintable(t) ==
  CASE t.type = "text" -> /\ t.value # <<>> /\ Condensed(t.value) = t.value
                          /\ ByNumber \notin Range(t.value)
    [] t.type = "cdata" -> "]]>" \notin Range(t.value)
    [] t.type = "comment" -> "-->" \notin Range(t.value)
    [] t.type = "unknown" -> t.value # <<>> /\ t.value[1] = "!" /\ ">" \notin Range(t.value)
    [] t.type = "declaration" -> t.value # <<>> /\ "\"" \notin Range(t.value)
    [] t.type = "element" -> \A i \in DOMAIN t.attrs :
                               /\ t.attrs[i][1] \in Name
                               /\ ByNumber \notin Range(t.attrs[i][2])

RECURSIVE Printable(_)
Printable(kids) ==
  \A i \in DOMAIN kids :
    /\ LeafPrintable(kids[i])
    /\ ~(kids[i].type = "text" /\ i > 1 /\ kids[i - 1].type = "text")
    /\ Printable(kids[i].kids)

\* Text beside the root element is not read.
DocumentPrintable(kids) ==
  kids # <<>> /\ Printable(kids) /\ \A i \in DOMAIN kids : kids[i].type # "text"

\* What is read when the last cut tokens of a file are missing.
Reread(file, cut) ==
  LET read == LoadFile(SubSeq(file, 1, Len(file) - cut))
  IN  [tree |-> Tree(heap[Doc].type, heap[Doc].value, heap[Doc].attrs, read.kids),
       error |-> read.error]

\* The document is saved, cleared and loaded again, without the last cut tokens of the
\* file.  Only a document that would survive is saved.
Load(cut) ==
  /\ DocumentPrintable(TreeOf(heap, Doc).kids)
  /\ LET file == SaveFile(heap)
         read == Reread(file, cut)
     IN  /\ cut <= Len(file) /\ Size(read.tree) <= MaxNodes
         /\ LoadDocument(Subtrees(read.tree), KidsOf(read.tree, Doc), read.error)

Next == Edit \/ \E cut \in Cuts : Load(cut)

Spec == NodesInit /\ [][Next]_nodeVars

-----------------------------------------------------------------------------
(* Properties                                                              *)

TypeOK == NodesTypeOK /\ error \in Errors \cup {""}

Saved == TreeOf(heap, Doc).kids

\* A document that has only what survives is the same after Print and Parse, and after
\* a TiXmlPrinter and Parse.
RoundTrip ==
  LET saved == Saved IN
  DocumentPrintable(saved) =>
    \A file \in {PrintDocument(saved), AcceptDocument(saved, <<" ">>),
                  AcceptDocument(saved, <<>>)} :
      ParseDocument(file) = [kids |-> saved, error |-> ""]

\* A file that ends too early is read as a document all the same, one tree with no node in
\* two places and no attribute twice in an element: what Load takes is what LoadDocument of
\* XmlNodes may be given.  And it is not taken for a whole one, wherever it ends: without
\* an error, the elements outside all others are those that were saved.
CutIsReported ==
  LET saved == Saved IN
  DocumentPrintable(saved) =>
    LET file == SaveFile(heap) IN
    \A cut \in 0..Len(file) :
      LET read == Reread(file, cut)
          t    == read.tree
      IN  /\ cut \in Cuts /\ Size(t) <= MaxNodes => IsDocument(Subtrees(t), KidsOf(t, Doc))
          /\ read.error = "" =>
               \A i \in DOMAIN t.kids : t.kids[i].type = "element" => t.kids[i] = saved[i]

\* The pointers implement an ordered tree.
Ordered == INSTANCE OrderedTree WITH
  Root <- Doc,
  kids <- [n \in DOMAIN heap |-> Children(heap, n)],
  label <- [n \in DOMAIN heap |->
              [type |-> heap[n].type, value |-> heap[n].value, attrs |-> heap[n].attrs]]

ImplementsOrderedTree == Ordered!Spec
=============================================================================
