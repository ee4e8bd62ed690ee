---------------------------- MODULE MCXmlDocument ----------------------------
(***************************************************************************)
(* An instance of XmlDocument for TLC.                                     *)
(***************************************************************************)
EXTENDS XmlDocument

Words == {"a", "k", "version"}

Kinds == {Leaf("element", <<"a">>), Leaf("text", <<"x", " ", "<">>), Leaf("cdata", <<"<">>),
          Leaf("declaration", <<"x">>), Leaf("comment", <<"x">>)}

Pairs == {<<"k", <<"x", "\"">>>>}
==============================================================================
