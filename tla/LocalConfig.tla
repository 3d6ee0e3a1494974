----------------------------- MODULE LocalConfig -----------------------------
(***************************************************************************)
(* rpc/LocalConfig: the settings of the server, read once from an XML file *)
(* by the RpcService constructor.  Somebody writes the file first, with one*)
(* of TinyXML's three writers and either kind of line end, and the file may*)
(* be cut short before it is read.                                         *)
(***************************************************************************)
EXTENDS XmlParser

CONSTANTS Number,       \* atoi of the words that start with a digit
          Documents     \* bound: [meant, doc] of the files that are written

Level == {"TRACE", "DEBUG", "INFO", "WARN", "ERROR", "FATAL"}

VARIABLES
  written,              \* what the file should say
  file,                 \* [style, cut, text], or NoFile
  _config_file,         \* "NULL" or "set"
  lActionXML,           \* the document as read
  _local_config,        \* NoConfig, or the settings
  fate                  \* of the server: "runs", "exits", "aborts", "crashes",
                        \* "uninitialized": it runs with settings nobody set

configVars == <<written, file, _config_file, lActionXML, _local_config, fate>>

NoFile == [style |-> "none", cut |-> FALSE, text |-> <<>>]
NoConfig == [ip |-> <<>>, port |-> 0, level |-> "INFO", workers |-> 0]
NoDocument == Document(FALSE, <<>>, "none")

ConfigInit ==
  /\ written \in Documents
  /\ file = NoFile
  /\ _config_file = "NULL"
  /\ lActionXML = NoDocument
  /\ _local_config = NoConfig
  /\ fate = "runs"

WithCarriageReturns(s) ==
  FlattenSeq([i \in DOMAIN s |-> IF s[i] = LF THEN <<CR, LF>> ELSE <<s[i]>>])

Text(style) ==
  CASE style = "file"    -> SaveFile(written.doc)
    [] style = "dos"     -> WithCarriageReturns(SaveFile(written.doc))
    [] style = "printer" -> TiXmlPrinter(written.doc, FALSE)
    [] style = "stream"  -> TiXmlPrinter(written.doc, TRUE)

WriteFile(style) ==
  /\ file = NoFile /\ _config_file = "NULL"
  /\ file' = [style |-> style, cut |-> FALSE, text |-> Text(style)]
  /\ UNCHANGED <<written, _config_file, lActionXML, _local_config, fate>>

\* The file ends after n lexemes, or inside the next one.
CutFile ==
  /\ file # NoFile /\ ~file.cut /\ _config_file = "NULL"
  /\ \E n \in 0..Len(file.text) - 1 :
       \E rest \in {<<>>} \cup {<<c>> : c \in Shorter(file.text[n + 1])} :
         file' = [file EXCEPT !.cut = TRUE, !.text = SubSeq(@, 1, n) \o rest]
  /\ UNCHANGED <<written, _config_file, lActionXML, _local_config, fate>>

\* It is set once; the constructor of RpcService asserts that it was not set.
SetConfigFile ==
  /\ fate = "runs"
  /\ IF _config_file = "NULL" THEN _config_file' = "set" /\ UNCHANGED fate
     ELSE fate' = "aborts" /\ UNCHANGED _config_file
  /\ UNCHANGED <<written, file, lActionXML, _local_config>>

------------------------------------------------------------------------------
(* Reading the settings *)

Null == NodeRecord("null", <<>>, <<>>, <<>>)

\* FirstChild(val), which is IterateChildren(val, NULL): a child of any kind.
FirstChild(n, val) ==
  LET i == {j \in DOMAIN n.kids : n.kids[j].value = <<val>>}
  IN  IF i = {} THEN Null ELSE n.kids[Min(i)]

FirstChildElement(n) ==
  LET i == {j \in DOMAIN n.kids : n.kids[j].kind = "element"}
  IN  IF i = {} THEN Null ELSE n.kids[Min(i)]

\* ToElement()->GetText() returns a string.
HasText(n) == n.kind = "element" /\ n.kids # <<>> /\ IsText(n.kids[1])

GetText(n) == n.kids[1].value

atoi(v) == IF v # <<>> /\ v[1] \in DOMAIN Number THEN Number[v[1]] ELSE 0

\* From the nodes with the settings; the port is an unsigned short.
Settings(ip, port, level, workers) ==
  [ip |-> GetText(ip), port |-> atoi(GetText(port)) % 65536,
   level |-> IF level # Null /\ \E l \in Level : GetText(level) = <<l>>
             THEN GetText(level)[1] ELSE "INFO",
   workers |-> IF workers # Null /\ atoi(GetText(workers)) > 1
               THEN atoi(GetText(workers)) ELSE 1]

\* A null pointer is used, for a root, a setting or a text that is not there.
NullUsed(root, node) ==
  \/ root = Null
  \/ /\ node # Null
     /\ \/ \E tag \in {"ip", "port"} : ~HasText(FirstChild(node, tag))
        \/ \E tag \in {"loglevel", "workers"} :
             FirstChild(node, tag) # Null /\ ~HasText(FirstChild(node, tag))

ReadXml(doc, root, node) ==
  CASE doc.error = "abort"  -> fate' = "aborts" /\ UNCHANGED _local_config
    [] doc.error # "none"   -> fate' = "exits" /\ UNCHANGED _local_config
    [] NullUsed(root, node) -> fate' = "crashes" /\ UNCHANGED _local_config
    [] node = Null          -> fate' = "uninitialized" /\ UNCHANGED _local_config
    [] OTHER                ->
         /\ _local_config' = Settings(FirstChild(node, "ip"), FirstChild(node, "port"),
                                      FirstChild(node, "loglevel"), FirstChild(node, "workers"))
         /\ UNCHANGED fate

ReadDocument(doc) ==
  /\ lActionXML' = doc
  /\ LET root == FirstChildElement(doc) IN ReadXml(doc, root, FirstChild(root, "LocalConfig"))

\* GetInstance, the first time: the constructor and ReadXml.
GetInstance ==
  /\ fate = "runs" /\ _config_file = "set" /\ _local_config = NoConfig
  /\ \E doc \in {IF file = NoFile THEN [NoDocument EXCEPT !.error = "OPENING_FILE"]
                  ELSE LoadFile(file.text)} : ReadDocument(doc)
  /\ UNCHANGED <<written, file, _config_file>>

ConfigNext ==
  \/ \E style \in {"file", "dos", "printer", "stream"} : WriteFile(style)
  \/ CutFile
  \/ SetConfigFile
  \/ GetInstance

------------------------------------------------------------------------------
(* Properties *)

\* A reference in a value stands for the character it names.
Resolved(v) ==
  FlattenSeq([i \in DOMAIN v |->
    CASE v[i] = "&" /\ i < Len(v) /\ v[i + 1] = "#x0A;" -> <<LF>>
      [] v[i] = "#x0A;" /\ i > 1 /\ v[i - 1] = "&"      -> <<>>
      [] OTHER                                           -> <<v[i]>>])

\* Blanks are trimmed, and of a run of them the last is kept.
Condensed(v) ==
  LET Kept(i) == v[i] # SP \/ (i < Len(v) /\ v[i + 1] # SP /\ \E j \in 1..i : v[j] # SP)
  IN  FlattenSeq([i \in DOMAIN v |-> IF Kept(i) THEN <<v[i]>> ELSE <<>>])

\* Texts side by side are one when they are read.
RECURSIVE Joined(_, _)
Joined(kids, style) ==
  IF Len(kids) < 2 THEN kids
  ELSE IF kids[1].kind = "text" /\ kids[2].kind = "text"
  THEN Joined(<<[kids[1] EXCEPT !.value = @ \o (IF style = "printer" THEN <<SP>> ELSE <<>>)
                                            \o kids[2].value]>> \o Tail(Tail(kids)), style)
  ELSE <<kids[1]>> \o Joined(Tail(kids), style)

\* A tree as it is when it has been written and read.
RECURSIVE Canonical(_, _)
Canonical(n, style) ==
  LET joined == Joined(n.kids, style)
      kids == [i \in DOMAIN joined |-> Canonical(joined[i], style)]
  IN  [kind |-> n.kind,
       value |-> IF n.kind = "text" THEN Condensed(Resolved(n.value)) ELSE n.value,
       attrs |-> [i \in DOMAIN n.attrs |-> [n.attrs[i] EXCEPT !.value = Resolved(@)]],
       kids |-> SelectSeq(kids, LAMBDA k : ~(k.kind = "text" /\ Blank(k)))]

\* A document that Print, TiXmlPrinter or a stream has written, with either kind of
\* line end, is read back without an error as the same tree, but for the blanks of
\* its texts: every special character survives EncodeString and GetEntity, every
\* form of element its three layouts (TiXmlElement::Print, TiXmlElement::Parse).
SavedIsRead ==
  (lActionXML # NoDocument /\ file # NoFile /\ ~file.cut) =>
    /\ lActionXML.error = "none"
    /\ lActionXML.useMicrosoftBOM =
         (written.doc.useMicrosoftBOM /\ file.style \in {"file", "dos"})
    /\ lActionXML.kids = [i \in DOMAIN written.doc.kids |->
                            Canonical(written.doc.kids[i], file.style)]

\* A server never starts with settings other than those the file should give it,
\* also when the file was cut short at any place: then reading it fails, or what was
\* lost is the line end (LocalConfig::ReadXml, and every error path of the parser).
NeverHalfConfig ==
  /\ _local_config # NoConfig => _local_config = written.meant
  /\ fate = "uninitialized" => written.meant = NoConfig
=============================================================================
