------------------------------- MODULE XmlText -------------------------------
(***************************************************************************)
(* TinyXML's texts: what Print and TiXmlPrinter write for a tree, and what *)
(* Parse makes of a text (tinyxmlparser.cpp).                              *)
(*                                                                         *)
(* A text is a sequence of tokens: the delimiters Parse looks for, words,  *)
(* references to entities, and " " for any white space.  Encodings other   *)
(* than ASCII, rows and columns, and operator>> are left out.              *)
(***************************************************************************)
EXTENDS XmlAttributes, FiniteSets

CONSTANT
  Name   \* the words that begin with a letter

\* A node with all that is below it.  value is a sequence of tokens: the name of an
\* element, the version of a declaration, the text of a text, comment or unknown.
Tree(type, value, attrs, kids) ==
  [type |-> type, value |-> value, attrs |-> attrs, kids |-> kids]

Leaf(type, value) == Tree(type, value, <<>>, <<>>)

IsText(t) == t.type \in {"text", "cdata"}

-----------------------------------------------------------------------------
(* Writing                                                                 *)

\* entity
Reference ==
  [c \in {"&", "<", ">", "\"", "'"} |->
     CASE c = "&" -> "&amp;" [] c = "<" -> "&lt;" [] c = ">" -> "&gt;"
       [] c = "\"" -> "&quot;" [] c = "'" -> "&apos;"]

\* A reference by number, which stands for "<".  EncodeString leaves it alone.
ByNumber == "&#x3C;"

RawString(v) == v

\* The mutant above writes every character as it is.
EncodeString(v) == [i \in DOMAIN v |-> IF v[i] \in DOMAIN Reference THEN Reference[v[i]] ELSE v[i]]

PrintAttributes(attrs) ==
  FlattenSeq([i \in DOMAIN attrs |->
    LET quote == IF "\"" \in Range(attrs[i][2]) THEN "'" ELSE "\""
    IN  <<" ", attrs[i][1], "=", quote>> \o EncodeString(attrs[i][2]) \o <<quote>>])

Start(t) == <<"<">> \o t.value \o PrintAttributes(Iterated(t.attrs))
End(t) == <<"<", "/">> \o t.value \o <<">">>

PrintText(t) == IF t.type = "cdata" THEN <<"<", "![CDATA[">> \o t.value \o <<"]]>">>
                ELSE EncodeString(t.value)
PrintComment(t) == <<"<", "!--">> \o t.value \o <<"-->">>
PrintUnknown(t) == <<"<">> \o t.value \o <<">">>
PrintDeclaration(t) ==
  <<"<", "?xml", " ", "version", "=", "\"">> \o t.value \o <<"\"", " ", "?", ">">>

\* What both printers write for nodes that have no children.
PrintLeaf(t) ==
  CASE IsText(t) -> PrintText(t)
    [] t.type = "comment" -> PrintComment(t)
    [] t.type = "unknown" -> PrintUnknown(t)
    [] t.type = "declaration" -> PrintDeclaration(t)

\* Print of a node to a file.
RECURSIVE PrintNode(_)
PrintNode(t) ==
  IF t.type = "cdata" THEN <<" ">> \o PrintLeaf(t) \o <<" ">>
  ELSE IF t.type # "element" THEN PrintLeaf(t)
  ELSE IF t.kids = <<>> THEN Start(t) \o <<" ", "/", ">">>
  ELSE IF Len(t.kids) = 1 /\ IsText(t.kids[1])
       THEN Start(t) \o <<">">> \o PrintNode(t.kids[1]) \o End(t)
  ELSE Start(t) \o <<">">>
         \o FlattenSeq([i \in DOMAIN t.kids |->
              (IF IsText(t.kids[i]) THEN <<>> ELSE <<" ">>) \o PrintNode(t.kids[i])])
         \o <<" ">> \o End(t)

PrintDocument(kids) == FlattenSeq([i \in DOMAIN kids |-> PrintNode(kids[i]) \o <<" ">>])

\* The callbacks of a TiXmlPrinter, whose indents and line breaks are white: <<" ">>, or
\* nothing with SetStreamPrinting.  simpleTextPrint is for an element with one text.
SimpleTextPrint(t) == Len(t.kids) = 1 /\ t.kids[1].type = "text"

VisitEnter(t, white) ==
  white \o Start(t)
    \o (IF t.kids = <<>> THEN <<" ", "/", ">">> ELSE <<">">>)
    \o (IF SimpleTextPrint(t) THEN <<>> ELSE white)

VisitExit(t, white) ==
  IF t.kids = <<>> THEN <<>>
  ELSE (IF SimpleTextPrint(t) THEN <<>> ELSE white) \o End(t) \o white

\* Accept with such a printer.
RECURSIVE Accept(_, _)
Accept(t, white) ==
  IF t.type # "element" THEN white \o PrintLeaf(t) \o white
  ELSE VisitEnter(t, white)
         \o FlattenSeq([i \in DOMAIN t.kids |->
              IF SimpleTextPrint(t) THEN PrintLeaf(t.kids[i]) ELSE Accept(t.kids[i], white)])
         \o VisitExit(t, white)

AcceptDocument(kids, white) == FlattenSeq([i \in DOMAIN kids |-> Accept(kids[i], white)])

-----------------------------------------------------------------------------
(* Reading.  p is a place in the text s, one past its end, or NULL.        *)

\* p && *p
Here(s, p) == p # NULL /\ p <= Len(s)

At(s, p, token) == Here(s, p) /\ s[p] = token

\* The first place from p on with one of these tokens, or the end.
UpTo(s, p, tokens) == Min({Len(s) + 1} \cup {i \in p..Len(s) : s[i] \in tokens})

SkipWhiteSpace(s, p) ==
  IF Here(s, p) THEN Min({Len(s) + 1} \cup {i \in p..Len(s) : s[i] # " "}) ELSE NULL

\* GetChar, which turns a reference into what it stands for.
GetChar(c) ==
  IF c = ByNumber THEN "<"
  ELSE IF c \in Range(Reference) THEN CHOOSE x \in DOMAIN Reference : Reference[x] = c
  ELSE c

\* White space inside a text becomes one space, and none at its ends.
Condensed(v) ==
  LET words == {i \in DOMAIN v : v[i] # " "}
      kept  == {i \in DOMAIN v : i \in words \/ (i - 1 \in words /\ \E j \in words : j > i)}
  IN  [k \in 1..Cardinality(kept) |->
         v[CHOOSE i \in kept : Cardinality({j \in kept : j <= i}) = k]]

Errors ==
  {"FAILED_TO_READ_ELEMENT_NAME", "READING_ATTRIBUTES", "PARSING_ELEMENT", "PARSING_EMPTY",
   "READING_ELEMENT_VALUE", "READING_END_TAG", "DOCUMENT_EMPTY", "DOCUMENT_TOP_ONLY"}

\* What Parse of a node returns: the place behind it, the node, and the first error.
Parsed(p, tree, error) == [p |-> p, tree |-> tree, error |-> error]

FirstError(e1, e2) == IF e1 # "" THEN e1 ELSE e2

Identify(s, p) ==
  IF ~At(s, p, "<") THEN "none"
  ELSE IF At(s, p + 1, "?xml") THEN "declaration"
  ELSE IF At(s, p + 1, "!--") THEN "comment"
  ELSE IF At(s, p + 1, "![CDATA[") THEN "cdata"
  ELSE IF Here(s, p + 1) /\ s[p + 1] \in Name THEN "element"
  ELSE "unknown"

\* TiXmlText::Parse, which needs something behind the end of the text.
ParseText(s, p) ==
  LET q == UpTo(s, p, {"<"})
      v == Condensed([i \in 1..(q - p) |-> s[p + i - 1]])
  IN  Parsed(IF q < Len(s) THEN q ELSE NULL,
             Leaf("text", [i \in DOMAIN v |-> GetChar(v[i])]), "")

\* The nodes that end with a token of their own, which may be missing.
ParseRaw(s, type, from, end) ==
  LET q == UpTo(s, from, {end})
  IN  Parsed(IF q > Len(s) THEN q ELSE q + 1, Leaf(type, SubSeq(s, from, q - 1)), "")

ParseComment(s, p) == ParseRaw(s, "comment", p + 2, "-->")

ParseUnknown(s, p) == ParseRaw(s, "unknown", p + 1, ">")

\* A cdata needs something behind it.
ParseCdata(s, p) ==
  LET raw == ParseRaw(s, "cdata", p + 2, "]]>")
  IN  [raw EXCEPT !.p = IF @ > Len(s) THEN NULL ELSE @]

\* TiXmlAttribute::Parse
AttributeParsed(p, attr, error) == [p |-> p, attr |-> attr, error |-> error]

ParseAttribute(s, p) ==
  LET eq == SkipWhiteSpace(s, p + 1)
      v  == SkipWhiteSpace(s, eq + 1)
      failed == AttributeParsed(NULL, <<"", <<>>>>, "READING_ATTRIBUTES")
  IN  IF s[p] \notin Name \/ ~At(s, eq, "=") \/ ~Here(s, v) THEN failed
      ELSE IF s[v] \in {"\"", "'"}
      THEN LET q == UpTo(s, v + 1, {s[v]})
           IN  AttributeParsed(IF q < Len(s) THEN q + 1 ELSE NULL,
                 <<s[p], [i \in 1..(q - v - 1) |-> GetChar(s[v + i])]>>, "")
      ELSE LET q == UpTo(s, v, {" ", "/", ">", "\"", "'"})
           IN  IF At(s, q, "\"") \/ At(s, q, "'") THEN failed
               ELSE AttributeParsed(q, <<s[p], SubSeq(s, v, q - 1)>>, "")

\* TiXmlDeclaration::Parse, which keeps the version and reads over everything else.
\* Its attributes have no document to report an error to.
RECURSIVE ParseDeclaration(_, _, _)
ParseDeclaration(s, p, version) ==
  LET q == SkipWhiteSpace(s, p) IN
  IF ~Here(s, p) THEN Parsed(NULL, Leaf("declaration", version), "")
  ELSE IF s[p] = ">" THEN Parsed(p + 1, Leaf("declaration", version), "")
  ELSE IF At(s, q, "version")
  THEN LET a == ParseAttribute(s, q) IN ParseDeclaration(s, a.p, a.attr[2])
  ELSE ParseDeclaration(s, IF Here(s, q) THEN UpTo(s, q, {">", " "}) ELSE NULL, version)

\* Nothing where an end tag should be.  The mutant reports only what ReadValue has.
NoEndTagError(error) == error

EndTagError(error) == FirstError(error, "READING_END_TAG")

RECURSIVE ParseNode(_, _), ParseAttributes(_, _, _), ReadValue(_, _, _)

ParseNode(s, p) ==
  LET type == Identify(s, p) IN
  CASE type = "declaration" -> ParseDeclaration(s, p + 2, <<>>)
    [] type = "comment" -> ParseComment(s, p)
    [] type = "cdata" -> ParseCdata(s, p)
    [] type = "unknown" -> ParseUnknown(s, p)
    [] type = "element" ->
         IF ~Here(s, p + 2)
         THEN Parsed(NULL, Leaf("element", <<s[p + 1]>>), "FAILED_TO_READ_ELEMENT_NAME")
         ELSE ParseAttributes(s, p + 2, Leaf("element", <<s[p + 1]>>))

\* The value of an element has been read into v: its end tag.
ParseEndTag(s, element, v) ==
  LET r == SkipWhiteSpace(s, v.p + 3)
      whole == [element EXCEPT !.kids = v.kids]
  IN  IF /\ At(s, v.p, "<") /\ At(s, v.p + 1, "/")
         /\ At(s, v.p + 2, element.value[1]) /\ At(s, r, ">")
      THEN Parsed(r + 1, whole, v.error)
      ELSE Parsed(NULL, whole, EndTagError(v.error))

\* The attribute a has been read: it must be new.
ParseNextAttribute(s, element, a) ==
  IF ~Here(s, a.p) \/ \E i \in DOMAIN element.attrs : element.attrs[i][1] = a.attr[1]
  THEN Parsed(NULL, element, FirstError(a.error, "PARSING_ELEMENT"))
  ELSE ParseAttributes(s, a.p, [element EXCEPT !.attrs = Append(@, a.attr)])

\* The loop of TiXmlElement::Parse: attributes, then the end of the tag, and for
\* one that is not empty its value and end tag.
ParseAttributes(s, p, element) ==
  LET q == SkipWhiteSpace(s, p) IN
  IF ~Here(s, q) THEN Parsed(NULL, element, "READING_ATTRIBUTES")
  ELSE IF s[q] = "/"
  THEN IF At(s, q + 1, ">") THEN Parsed(q + 2, element, "")
       ELSE Parsed(NULL, element, "PARSING_EMPTY")
  ELSE IF s[q] = ">" THEN ParseEndTag(s, element, ReadValue(s, q + 1, <<>>))
  ELSE ParseNextAttribute(s, element, ParseAttribute(s, q))

\* A text of which nothing is left is no child.
WithChild(kids, tree) ==
  IF tree.type = "text" /\ tree.value = <<>> THEN kids ELSE Append(kids, tree)

\* The rest of the value, behind the child n.
ReadBehind(s, n, kids) ==
  [ReadValue(s, n.p, WithChild(kids, n.tree)) EXCEPT !.error = FirstError(n.error, @)]

\* TiXmlElement::ReadValue: the children, up to an end tag.
ReadValue(s, p, kids) ==
  LET q == SkipWhiteSpace(s, p) IN
  IF q = NULL THEN [p |-> NULL, kids |-> kids, error |-> "READING_ELEMENT_VALUE"]
  ELSE IF ~Here(s, q) \/ (At(s, q, "<") /\ At(s, q + 1, "/"))
  THEN [p |-> q, kids |-> kids, error |-> ""]
  ELSE ReadBehind(s, IF s[q] = "<" THEN ParseNode(s, q) ELSE ParseText(s, q), kids)

\* TiXmlDocument::Parse: node after node, until something is none.
RECURSIVE ParseNodes(_, _, _)
ParseBehind(s, n, kids) ==
  [ParseNodes(s, n.p, Append(kids, n.tree)) EXCEPT !.error = FirstError(n.error, @)]

ParseNodes(s, p, kids) ==
  LET q == SkipWhiteSpace(s, p) IN
  IF ~Here(s, q) \/ Identify(s, q) = "none"
  THEN [kids |-> kids, error |-> IF kids = <<>> THEN "DOCUMENT_EMPTY" ELSE ""]
  ELSE ParseBehind(s, ParseNode(s, q), kids)

ParseDocument(s) == ParseNodes(s, 1, <<>>)
=============================================================================
