-------------------------------- MODULE MCXml --------------------------------
(***************************************************************************)
(* Three data structures that one thread uses at a time, each in           *)
(* behaviours of its own, as "subject" says:                               *)
(*   - "buffer": a Buffer with two bytes before the contents and two of    *)
(*     room, so that a call may fit, may move the contents or may grow the *)
(*     vector, with contents of every length up to MaxContents;            *)
(*   - "dom": TinyXML trees of up to MaxNodes nodes, edited in any order;  *)
(*   - "config": every way to write one of MCDocuments, to cut the file    *)
(*     short and to start the server with it.  Some documents are          *)
(*     configurations, others have every pair of Kids in their root.       *)
(***************************************************************************)
EXTENDS Buffer, SequencesExt

CONSTANTS MaxNodes, AttributeValue

VARIABLES
  subject,
  node, held, error, asserted,
  written, file, _config_file, lActionXML, _local_config, fate

MCByte == {0, 1}

MCName == {"Server", "LocalConfig", "ip", "port", "loglevel", "workers", "a", "b",
           "version", "encoding", "standalone", "TRACE"}

MCNumber == [w \in {"0", "3", "10001", "70000"} |->
  CASE w = "0" -> 0 [] w = "3" -> 3 [] w = "10001" -> 10001 [] w = "70000" -> 70000]

MCKind == {<<"element", "a">>, <<"text", "b">>, <<"document", "">>}

Node(kind, value, attrs, kids) ==
  [kind |-> kind, value |-> value, attrs |-> attrs, kids |-> kids]
Leaf(kind, value) == Node(kind, value, <<>>, <<>>)
Element(name, kids) == Node("element", <<name>>, <<>>, kids)
Attribute(name, value) == [name |-> name, value |-> value]
Setting(name, value) == Element(name, <<Leaf("text", <<value>>)>>)

Declaration == Node("declaration", <<>>, <<Attribute("version", <<"1.0">>)>>, <<>>)
Legacy == [Declaration EXCEPT !.attrs = Append(@, Attribute("encoding", <<"latin1">>))]

Doc(bom, kids) == [useMicrosoftBOM |-> bom, kids |-> kids, error |-> "none"]

\* No log level, one, or one that is not known; no number of workers, none or three.
ConfigDocuments ==
  { [meant |-> [ip |-> <<"127.0.0.1">>, port |-> MCNumber[port] % 65536,
                level |-> IF level = "TRACE" THEN level ELSE "INFO",
                workers |-> IF workers = "3" THEN 3 ELSE 1],
     doc |-> Doc(port = "70000", <<Declaration, Element("Server",
                <<Element("LocalConfig",
                    <<Setting("ip", "127.0.0.1"), Setting("port", port)>>
                      \o (IF level = "" THEN <<>> ELSE <<Setting("loglevel", level)>>)
                      \o <<Leaf("comment", <<"line feed", "3", "ip">>)>>
                      \o (IF workers = "" THEN <<>> ELSE <<Setting("workers", workers)>>))>>)>>)] :
      port \in {"10001", "70000"}, level \in {"", "TRACE", "a"}, workers \in {"", "0", "3"} }

Kids ==
  {Leaf("text", v) : v \in {<<"1">>, <<"line feed">>, <<"blanks">>, <<"<", "&">>, <<"&", "#x0A;">>,
                            <<"blanks", "1", "blanks", "blanks", "'", "blanks">>}}
  \cup {Leaf("cdata", <<"blanks", "<", "1">>), Leaf("comment", <<"blanks", "&">>),
        Leaf("unknown", <<"!", "a", "blanks">>), Element("b", <<>>),
        Node("element", <<"a">>, <<Attribute("a", <<"blanks", "\"", "'">>),
                                   Attribute("b", <<"line feed", "&", "#x0A;">>)>>,
             <<Leaf("text", <<"1">>)>>)}

NoSettings == [ip |-> <<>>, port |-> 0, level |-> "INFO", workers |-> 0]

OtherDocuments ==
  { [meant |-> NoSettings,
     doc |-> Doc(FALSE, <<IF Len(kids) = 2 THEN Declaration ELSE Legacy, Leaf("comment", <<>>),
                          Element("a", kids)>>)] : kids \in SeqOf(Kids, 2) }

MCDocuments == ConfigDocuments \cup OtherDocuments

Dom == INSTANCE XmlDom WITH Kind <- MCKind, failed <- asserted
Config == INSTANCE LocalConfig WITH
            Name <- MCName, Number <- MCNumber, Documents <- MCDocuments

domVars == <<node, held, error, asserted>>
configVars == <<written, file, _config_file, lActionXML, _local_config, fate>>

NoServer ==
  /\ written = [meant |-> NoSettings, doc |-> Config!NoDocument] /\ file = Config!NoFile
  /\ _config_file = "NULL" /\ lActionXML = Config!NoDocument
  /\ _local_config = Config!NoConfig /\ fate = "runs"

MCInit ==
  /\ Init /\ Dom!DomInit
  /\ \/ subject \in {"buffer", "dom"} /\ NoServer
     \/ subject = "config" /\ Config!ConfigInit

MCNext ==
  \/ subject = "buffer" /\ Next /\ UNCHANGED <<domVars, configVars, subject>>
  \/ subject = "dom" /\ Dom!DomNext /\ UNCHANGED <<vars, configVars, subject>>
  \/ subject = "config" /\ Config!ConfigNext /\ UNCHANGED <<vars, domVars, subject>>

MCSpec == MCInit /\ [][MCNext]_<<vars, domVars, configVars, subject>>

\* XmlDom's property of the lists of children.
WalksAgree == subject = "dom" => Dom!WalksAgree

\* XmlDom's refinement: the pointers implement a tree.
TreeRefined == Dom!TreeRefined

\* LocalConfig's property of TinyXML's writers and its parser.
SavedIsRead == subject = "config" => Config!SavedIsRead

\* LocalConfig's property of the settings a server starts with.
NeverHalfConfig == subject = "config" => Config!NeverHalfConfig
=============================================================================
