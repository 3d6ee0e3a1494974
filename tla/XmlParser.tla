------------------------------ MODULE XmlParser ------------------------------
(***************************************************************************)
(* submodules/tinyxml/tinyxmlparser.cpp, and TiXmlDocument::LoadFile: how a*)
(* file of lexemes (XmlText) becomes a document.                           *)
(*                                                                         *)
(* A position p is an index into the file s, 0 for a null pointer and      *)
(* Len(s) + 1 for the terminating NUL.  A reader returns a record: where it*)
(* stopped, what it read and the error it set in the document, "abort" for *)
(* an assertion that fails.  enc is the encoding known so far.             *)
(***************************************************************************)
EXTENDS XmlText

At(s, p) == IF p \in 1..Len(s) THEN s[p] ELSE "NUL"

More(s, p) == p # 0 /\ p <= Len(s)              \* p && *p

IsWhiteSpace(c) == c \in {SP, LF, CR}

\* Null at the end of the file, but not when the blanks reach to it.
SkipWhiteSpace(s, p, enc) ==
  IF ~More(s, p) THEN 0
  ELSE Min({q \in p..Len(s) + 1 :
              q = Len(s) + 1 \/ ~(IsWhiteSpace(s[q]) \/ (s[q] = BOM /\ enc = "utf8"))})

ReadName(s, p) == IF At(s, p) \in Name THEN p + 1 ELSE 0

\* GetChar and GetEntity: an ampersand that starts no entity is dropped.
GetChar(c) ==
  CASE c \in Entity -> <<entity(c)>>
    [] c = "&"      -> <<>>
    [] OTHER        -> <<c>>

\* Runs of blanks become one, and none is left at the end.
Condense(chars) ==
  LET Add(acc, c) ==
        IF IsWhiteSpace(c) THEN [acc EXCEPT !.white = TRUE]
        ELSE [text |-> acc.text \o (IF acc.white THEN <<SP>> ELSE <<>>) \o GetChar(c),
              white |-> FALSE]
  IN  FoldLeft(Add, [text |-> <<>>, white |-> FALSE], chars).text

\* The first position from p on with one of marks, or the end of the file.
Next(s, p, marks) == Min({q \in p..Len(s) + 1 : At(s, q) \in marks \cup {"NUL"}})

\* The text from start to an end tag at stop, which is skipped.  A reference without
\* its semicolon ends it with a null pointer, as does a file that ends with the tag.
TextTo(s, start, stop, trim, endTag) ==
  [text |-> LET chars == SubSeq(s, start, stop - 1)
            IN  IF trim THEN Condense(chars)
                ELSE FlattenSeq([i \in DOMAIN chars |-> GetChar(chars[i])]),
   stop |-> IF At(s, stop) = "&#" THEN 0 ELSE stop,
   p    |-> IF At(s, stop) \in endTag /\ stop < Len(s) THEN stop + 1 ELSE 0]

TextFrom(s, start, trim, endTag) ==
  IF start = 0 THEN [text |-> <<>>, stop |-> 0, p |-> 0]
  ELSE TextTo(s, start, Next(s, start, endTag \cup {"&#"}), trim, endTag)

ReadText(s, p, trim, endTag, enc) ==
  TextFrom(s, IF trim THEN SkipWhiteSpace(s, p, enc) ELSE p, trim, endTag)

------------------------------------------------------------------------------
(* The nodes *)

Read(p, node, err) == [p |-> p, node |-> node, err |-> err]

\* SetError keeps the first error of a chain.
SetError(first, then) == IF first = "none" THEN then ELSE first

\* p is past the blanks already.
Identify(s, p) ==
  CASE At(s, p) \notin Opening    -> "none"
    [] At(s, p) = "<?xml"         -> "declaration"
    [] At(s, p) = "<!--"          -> "comment"
    [] At(s, p) = "<![CDATA["     -> "cdata"
    [] At(s, p) = "<" /\ At(s, p + 1) \in Name -> "element"
    [] OTHER                      -> "unknown"

\* TiXmlUnknown::Parse: all of it but the "<", so what else a lexeme has is kept.
ParseUnknown(s, p, stop) ==
  Read(IF At(s, stop) = ">" THEN stop + 1 ELSE stop,
       NodeRecord("unknown",
                  (CASE s[p] = "</" -> <<"/">> [] s[p] = "<!" -> <<"!">> [] OTHER -> <<>>)
                    \o SubSeq(s, p + 1, stop - 1), <<>>, <<>>), "none")

\* TiXmlComment::Parse: a comment that does not end is no error here.
ParseComment(s, p, stop) ==
  Read(IF At(s, stop) = "-->" THEN stop + 1 ELSE stop,
       NodeRecord("comment", SubSeq(s, p + 1, stop - 1), <<>>, <<>>), "none")

\* TiXmlText::Parse, the part for CDATA: ReadText skips the end tag.
ParseCData(s, p, stop, enc) ==
  Read(ReadText(s, stop, FALSE, {"]]>"}, enc).p,
       NodeRecord("cdata", SubSeq(s, p + 1, stop - 1), <<>>, <<>>), "none")

\* TiXmlText::Parse, the rest: it stops before the "<", null if nothing follows it.
ParseText(s, r) ==
  Read(IF At(s, r.stop) \in Opening /\ (r.stop < Len(s) \/ s[r.stop] # "<")
       THEN r.stop ELSE 0,
       NodeRecord("text", r.text, <<>>, <<>>), "none")

Blank(n) == \A i \in DOMAIN n.value : IsWhiteSpace(n.value[i])

\* TiXmlAttribute::Parse: name, "=", and a value in quotes or up to a blank.
NoAttribute(err) == Read(0, [name |-> "", value |-> <<>>], err)

AttributeTo(s, p, text, end) == Read(end, [name |-> s[p], value |-> text], "none")

Unquoted(s, p, v, stop) ==
  IF At(s, stop) \in {"\"", "'"} THEN NoAttribute("READING_ATTRIBUTES")
  ELSE AttributeTo(s, p, SubSeq(s, v, stop - 1), stop)

Quoted(s, p, r) == AttributeTo(s, p, r.text, r.p)

ValueAt(s, p, v, enc) ==
  CASE ~More(s, v)            -> NoAttribute("READING_ATTRIBUTES")
    [] s[v] \in {"\"", "'"}   -> Quoted(s, p, ReadText(s, v + 1, FALSE, {s[v]}, enc))
    [] OTHER -> Unquoted(s, p, v, Next(s, v, {"/", ">", "\"", "'", SP, LF, CR}))

EqualsAt(s, p, e, enc) ==
  IF At(s, e) # "=" THEN NoAttribute("READING_ATTRIBUTES")
  ELSE ValueAt(s, p, SkipWhiteSpace(s, e + 1, enc), enc)

ParseAttribute(s, p, enc) ==
  IF ~More(s, p) THEN NoAttribute("none")
  ELSE EqualsAt(s, p, SkipWhiteSpace(s, ReadName(s, p), enc), enc)

\* TiXmlDeclaration::Parse: the attributes it knows, whose errors it does not
\* report, and anything else skipped.  Where only blanks are left StringEqual is
\* given the end of the file, and asserts that it never is.
RECURSIVE ParseDeclaration(_, _, _, _), DeclarationAt(_, _, _, _)
ParseDeclaration(s, p, node, enc) ==
  CASE ~More(s, p)    -> Read(0, node, "none")
    [] At(s, p) = ">" -> Read(p + 1, node, "none")
    [] OTHER          -> DeclarationAt(s, SkipWhiteSpace(s, p, enc), node, enc)

WithAttribute(node, a) == [node EXCEPT !.attrs = Append(@, a)]

DeclarationAt(s, q, node, enc) ==
  CASE ~More(s, q) -> Read(0, node, "abort")
    [] At(s, q) \in {"version", "encoding", "standalone"} ->
         LET a == ParseAttribute(s, q, enc)
         IN  ParseDeclaration(s, a.p,
               WithAttribute(node, [name |-> s[q], value |-> a.node.value]), enc)
    [] OTHER       -> ParseDeclaration(s, Next(s, q, {">", SP, LF, CR}), node, enc)

\* Wrong: the end of the file ends an element that is open.
endTagOptional(s, v, node, enc) ==
  IF v.err # "abort" /\ (More(s, v.p) => At(s, SkipWhiteSpace(s, v.p + 2, enc)) = ">")
  THEN Read(IF More(s, v.p) THEN SkipWhiteSpace(s, v.p + 2, enc) + 1 ELSE 0,
            [node EXCEPT !.kids = v.kids], "none")
  ELSE Read(0, [node EXCEPT !.kids = v.kids], SetError(v.err, "READING_END_TAG"))

\* The end of TiXmlElement::Parse, after ReadValue: the end tag, in which there may be
\* blanks before the ">".
ReadEndTag(s, v, node, enc) ==
  IF v.err = "none" /\ At(s, v.p) = "</" /\ At(s, v.p + 1) = node.value[1]
       /\ At(s, SkipWhiteSpace(s, v.p + 2, enc)) = ">"
  THEN Read(SkipWhiteSpace(s, v.p + 2, enc) + 1, [node EXCEPT !.kids = v.kids], "none")
  ELSE Read(0, [node EXCEPT !.kids = v.kids], SetError(v.err, "READING_END_TAG"))

Named(attrs, name) == \E i \in DOMAIN attrs : attrs[i].name = name

RECURSIVE ParseElement(_, _, _, _), AddAttribute(_, _, _, _), ReadValue(_, _, _, _),
          AddChild(_, _, _, _), ParseNode(_, _, _)

\* TiXmlElement::Parse after the name: attributes until "/>" or ">".
ParseElement(s, q, node, enc) ==
  CASE ~More(s, q)  -> Read(0, node, "READING_ATTRIBUTES")
    [] s[q] = "/"   -> IF At(s, q + 1) = ">" THEN Read(q + 2, node, "none")
                       ELSE Read(0, node, "PARSING_EMPTY")
    [] s[q] = ">"   -> ReadEndTag(s, ReadValue(s, SkipWhiteSpace(s, q + 1, enc), <<>>, enc),
                                  node, enc)
    [] OTHER        -> AddAttribute(s, ParseAttribute(s, q, enc), node, enc)

AddAttribute(s, a, node, enc) ==
  CASE ~More(s, a.p)                     -> Read(0, node, SetError(a.err, "PARSING_ELEMENT"))
    [] Named(node.attrs, a.node.name)    -> Read(0, node, "PARSING_ELEMENT")
    [] OTHER -> ParseElement(s, SkipWhiteSpace(s, a.p, enc), WithAttribute(node, a.node), enc)

\* TiXmlElement::ReadValue: children until "</"; a text of blanks is not kept.
ReadValue(s, p, kids, enc) ==
  CASE p = 0               -> [p |-> 0, kids |-> kids, err |-> "READING_ELEMENT_VALUE"]
    [] At(s, p) \in {"</", "NUL"} -> [p |-> p, kids |-> kids, err |-> "none"]
    [] s[p] \notin Opening -> AddChild(s, ParseText(s, ReadText(s, p, TRUE, Opening, enc)),
                                       kids, enc)
    [] OTHER               -> AddChild(s, ParseNode(s, p, enc), kids, enc)

AddChild(s, r, kids, enc) ==
  IF r.err # "none" THEN [p |-> 0, kids |-> Append(kids, r.node), err |-> r.err]
  ELSE ReadValue(s, SkipWhiteSpace(s, r.p, enc),
                 IF r.node.kind = "text" /\ Blank(r.node) THEN kids
                 ELSE Append(kids, r.node), enc)

NewNode(kind, value) == NodeRecord(kind, value, <<>>, <<>>)

ParseNode(s, p, enc) ==
  LET kind == Identify(s, p)
  IN  CASE kind = "declaration" ->
             ParseDeclaration(s, p + 1, NewNode("declaration", <<>>), enc)
        [] kind = "comment"     -> ParseComment(s, p, Next(s, p + 1, {"-->"}))
        [] kind = "cdata"       -> ParseCData(s, p, Next(s, p + 1, {"]]>"}), enc)
        [] kind = "unknown"     -> ParseUnknown(s, p, Next(s, p + 1, {">"}))
        [] kind = "element" /\ More(s, p + 2) ->
             ParseElement(s, SkipWhiteSpace(s, p + 2, enc),
                          NewNode("element", <<s[p + 1]>>), enc)
        [] OTHER                ->
             Read(0, NewNode("element", <<At(s, p + 1)>>), "FAILED_TO_READ_ELEMENT_NAME")

------------------------------------------------------------------------------
(* The document *)

Document(bom, kids, err) == [useMicrosoftBOM |-> bom, kids |-> kids, error |-> err]

\* The encoding a declaration gives.
Encoding(n) ==
  LET i == {j \in DOMAIN n.attrs : n.attrs[j].name = "encoding"}
  IN  IF i = {} \/ n.attrs[Max(i)].value \in {<<>>, <<"UTF-8">>, <<"UTF8">>}
      THEN "utf8" ELSE "legacy"

\* TiXmlDocument::Parse: nodes until one fails or none can be identified.
RECURSIVE ParseNodes(_, _, _, _), LinkNode(_, _, _, _)
ParseNodes(s, p, doc, enc) ==
  CASE More(s, p) /\ Identify(s, p) # "none" -> LinkNode(s, ParseNode(s, p, enc), doc, enc)
    [] doc.kids = <<>>                       -> [doc EXCEPT !.error = "DOCUMENT_EMPTY"]
    [] OTHER                                 -> doc

LinkNode(s, n, doc, enc) ==
  LET linked == [doc EXCEPT !.kids = Append(@, n.node), !.error = n.err]
      known == IF enc = "unknown" /\ n.node.kind = "declaration" THEN Encoding(n.node) ELSE enc
  IN  IF n.err # "none" THEN linked
      ELSE ParseNodes(s, SkipWhiteSpace(s, n.p, known), linked, known)

Parse(s) ==
  IF At(s, 1) = BOM
  THEN ParseNodes(s, SkipWhiteSpace(s, 1, "utf8"), Document(TRUE, <<>>, "none"), "utf8")
  ELSE ParseNodes(s, SkipWhiteSpace(s, 1, "unknown"), Document(FALSE, <<>>, "none"), "unknown")

\* Every CR LF and every CR alone becomes an LF.
NormalizeNewlines(s) ==
  FlattenSeq([i \in DOMAIN s |->
    CASE s[i] = CR                             -> <<LF>>
      [] s[i] = LF /\ i > 1 /\ s[i - 1] = CR   -> <<>>
      [] OTHER                                 -> <<s[i]>>])

\* TiXmlDocument::LoadFile of a file that could be opened.
LoadFile(s) == Parse(NormalizeNewlines(s))
=============================================================================
