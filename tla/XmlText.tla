------------------------------- MODULE XmlText -------------------------------
(***************************************************************************)
(* How TinyXML (submodules/tinyxml) writes a document out: the Print       *)
(* functions of the nodes, and TiXmlPrinter.  XmlParser reads it back.     *)
(*                                                                         *)
(* A file is a sequence of lexemes: a name, a word (characters that start  *)
(* no name), a mark such as "<" or "<!--", a character reference, a run of *)
(* blanks.  A lexeme of several characters that is cut leaves a shorter    *)
(* one (Shorter).                                                          *)
(*                                                                         *)
(* A node is a record: its kind, its value, its attributes and children in *)
(* order.  A declaration keeps version, encoding and standalone as         *)
(* attributes.                                                             *)
(***************************************************************************)
EXTENDS Integers, Sequences, SequencesExt, FiniteSetsExt

CONSTANT Name           \* lexemes that start with a letter

SP == "blanks"
LF == "line feed"
CR == "carriage return"
BOM == "byte order mark"

Opening == {"<", "</", "<!", "<!--", "<![CDATA[", "<?xml"}

\* What may be left of a lexeme when the file is cut inside it.
Shorter(c) ==
  CASE c \in {"</", "<!", "<?xml"}      -> {"<"}
    [] c \in {"<!--", "<![CDATA["}      -> {"<", "<!"}
    [] c \in {"&amp;", "&lt;", "&gt;"}  -> {"&"}
    [] c = "&#x0A;"                     -> {"&", "&#"}
    [] OTHER                            -> {}

\* entity[], and the one reference to a control character that is used here.
entity(c) ==
  CASE c = "&amp;" -> "&" [] c = "&lt;" -> "<" [] c = "&gt;" -> ">"
    [] c = "&quot;" -> "\"" [] c = "&apos;" -> "'" [] c = "&#x0A;" -> LF

Entity == {"&amp;", "&lt;", "&gt;", "&quot;", "&apos;", "&#x0A;"}

NodeRecord(kind, value, attrs, kids) ==
  [kind |-> kind, value |-> value, attrs |-> attrs, kids |-> kids]

------------------------------------------------------------------------------
(* Writing *)

\* The ampersand of a reference that is part of the value is not encoded.
EncodeString(v) ==
  LET Encode(i) ==
        CASE v[i] = "&" /\ i < Len(v) /\ v[i + 1] = "#x0A;" -> <<"&#x0A;">>
          [] v[i] = "#x0A;" /\ i > 1 /\ v[i - 1] = "&"      -> <<>>
          [] v[i] = "&"  -> <<"&amp;">>
          [] v[i] = "<"  -> <<"&lt;">>
          [] v[i] = ">"  -> <<"&gt;">>
          [] v[i] = "\"" -> <<"&quot;">>
          [] v[i] = "'"  -> <<"&apos;">>
          [] v[i] = LF   -> <<"&#x0A;">>
          [] OTHER       -> <<v[i]>>
  IN  FlattenSeq([i \in 1..Len(v) |-> Encode(i)])

\* Wrong: the value is written as it is.
rawValue(a) == <<a.name, "=", "\"">> \o a.value \o <<"\"">>

\* TiXmlAttribute::Print: single quotes around a value with a double quote in it.
AttributePrint(a) ==
  LET q == IF Contains(a.value, "\"") THEN "'" ELSE "\""
  IN  <<a.name, "=", q>> \o EncodeString(a.value) \o <<q>>

AttributesPrint(attrs) ==
  FlattenSeq([i \in DOMAIN attrs |-> <<SP>> \o AttributePrint(attrs[i])])

\* TiXmlDeclaration::Print: the values that are not empty, not encoded.
DeclarationPrint(n) ==
  <<"<?xml", SP>>
    \o FlattenSeq([i \in DOMAIN n.attrs |->
         <<n.attrs[i].name, "=", "\"">> \o n.attrs[i].value \o <<"\"", SP>>])
    \o <<"?", ">">>

Indent(depth) == [i \in 1..depth |-> SP]

IsText(n) == n.kind \in {"text", "cdata"}

\* TiXmlUnknown::Print.  "<" and a value that starts with "!" are one lexeme.
UnknownPrint(n) ==
  (IF n.value # <<>> /\ n.value[1] = "!" THEN <<"<!">> \o Tail(n.value)
   ELSE <<"<">> \o n.value) \o <<">">>

\* Print(FILE*, depth) of every kind of node: an element without children, with
\* one text and nothing else, and with any other children.
RECURSIVE PrintNode(_, _)
PrintNode(n, depth) ==
  CASE n.kind = "text"        -> EncodeString(n.value)
    [] n.kind = "cdata"       -> <<LF>> \o Indent(depth) \o <<"<![CDATA[">> \o n.value
                                   \o <<"]]>", LF>>
    [] n.kind = "comment"     -> Indent(depth) \o <<"<!--">> \o n.value \o <<"-->">>
    [] n.kind = "unknown"     -> Indent(depth) \o UnknownPrint(n)
    [] n.kind = "declaration" -> DeclarationPrint(n)
    [] n.kind = "element"     ->
         Indent(depth) \o <<"<">> \o n.value \o AttributesPrint(n.attrs)
           \o (CASE n.kids = <<>> -> <<SP, "/", ">">>
                 [] Len(n.kids) = 1 /\ IsText(n.kids[1]) ->
                      <<">">> \o PrintNode(n.kids[1], depth + 1) \o <<"</">> \o n.value \o <<">">>
                 [] OTHER ->
                      <<">">>
                        \o FlattenSeq([i \in DOMAIN n.kids |->
                             (IF IsText(n.kids[i]) THEN <<>> ELSE <<LF>>)
                               \o PrintNode(n.kids[i], depth + 1)])
                        \o <<LF>> \o Indent(depth) \o <<"</">> \o n.value \o <<">">>)

\* TiXmlDocument::SaveFile and Print.
SaveFile(doc) ==
  (IF doc.useMicrosoftBOM THEN <<BOM>> ELSE <<>>)
    \o FlattenSeq([i \in DOMAIN doc.kids |-> PrintNode(doc.kids[i], 0) \o <<LF>>])

\* TiXmlPrinter, with an indent and a line break or, for a stream, with neither:
\* every node on a line of its own but the only text of an element.
RECURSIVE Accept(_, _, _, _)
Accept(n, depth, stream, simpleTextPrint) ==
  LET DoIndent == IF stream THEN <<>> ELSE Indent(depth)
      DoLineBreak == IF stream THEN <<>> ELSE <<LF>>
      Line(text) == DoIndent \o text \o DoLineBreak
      simple == Len(n.kids) = 1 /\ n.kids[1].kind = "text"
  IN  CASE n.kind = "text"        -> IF simpleTextPrint THEN EncodeString(n.value)
                                     ELSE Line(EncodeString(n.value))
        [] n.kind = "cdata"       -> Line(<<"<![CDATA[">> \o n.value \o <<"]]>">>)
        [] n.kind = "comment"     -> Line(<<"<!--">> \o n.value \o <<"-->">>)
        [] n.kind = "unknown"     -> Line(UnknownPrint(n))
        [] n.kind = "declaration" -> Line(DeclarationPrint(n))
        [] n.kind = "element"     ->
             DoIndent \o <<"<">> \o n.value \o AttributesPrint(n.attrs)
               \o (IF n.kids = <<>> THEN <<SP, "/", ">">> \o DoLineBreak
                   ELSE <<">">> \o (IF simple THEN <<>> ELSE DoLineBreak)
                          \o FlattenSeq([i \in DOMAIN n.kids |->
                               Accept(n.kids[i], depth + 1, stream, simple)])
                          \o (IF simple THEN <<>> ELSE DoIndent)
                          \o <<"</">> \o n.value \o <<">">> \o DoLineBreak)

TiXmlPrinter(doc, stream) ==
  FlattenSeq([i \in DOMAIN doc.kids |-> Accept(doc.kids[i], 0, stream, FALSE)])
=============================================================================
