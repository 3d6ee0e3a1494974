------------------------------- MODULE XmlDom -------------------------------
(***************************************************************************)
(* TiXmlNode and its subclasses (submodules/tinyxml): a tree whose nodes   *)
(* have pointers to their parent, to their first and last child and to the *)
(* siblings before and after them.  LinkEndChild takes over the node it is *)
(* given; the other functions put a copy (Clone) into the tree.            *)
(*                                                                         *)
(* A pointer is a cell of the heap, 0 for null.  Attributes are a sequence *)
(* of names and values.  The nodes a program has created and not linked are*)
(* held.  A program gives a function a child of the node it is called on,  *)
(* as the asserts want, and never a node above it to LinkEndChild.         *)
(***************************************************************************)
EXTENDS Integers, Sequences, SequencesExt, FiniteSetsExt

CONSTANTS MaxNodes,             \* bound: cells of the heap
          Kind,                 \* <<type, value>> of the nodes that are created
          AttributeValue

Cell == 1..MaxNodes

VARIABLES node, held,
          error,                \* of the documents: a document was to be a child
          failed                \* an assertion failed

domVars == <<node, held, error, failed>>

Free == [type |-> "free", value |-> "", attrs |-> <<>>, parent |-> 0,
         firstChild |-> 0, lastChild |-> 0, prev |-> 0, next |-> 0]

Live == {c \in Cell : node[c].type # "free"}

DomInit == node = [c \in Cell |-> Free] /\ held = {} /\ error = FALSE /\ failed = FALSE

------------------------------------------------------------------------------
(* Walks *)

RECURSIVE Forward(_, _), Backward(_, _)
Forward(nd, n) == IF n = 0 THEN <<>> ELSE <<n>> \o Forward(nd, nd[n].next)
Backward(nd, n) == IF n = 0 THEN <<>> ELSE <<n>> \o Backward(nd, nd[n].prev)

First(s, Ok(_)) == LET t == SelectSeq(s, Ok) IN IF t = <<>> THEN 0 ELSE t[1]

FirstChild(p, v) == First(Forward(node, node[p].firstChild), LAMBDA n : node[n].value = v)
LastChild(p, v) == First(Backward(node, node[p].lastChild), LAMBDA n : node[n].value = v)
NextSibling(n, v) == First(Forward(node, node[n].next), LAMBDA m : node[m].value = v)
PreviousSibling(n, v) == First(Backward(node, node[n].prev), LAMBDA m : node[m].value = v)

IsElement(n, v) == node[n].type = "element" /\ node[n].value = v

FirstChildElement(p, v) ==
  First(Forward(node, node[p].firstChild), LAMBDA n : IsElement(n, v))
NextSiblingElement(n, v) == First(Forward(node, node[n].next), LAMBDA m : IsElement(m, v))

IterateChildren(p, v, previous) ==
  IF previous = 0 THEN FirstChild(p, v) ELSE NextSibling(previous, v)

\* TiXmlHandle::Child and ChildElement: count steps from the first.
RECURSIVE Child(_, _, _)
Child(p, v, count) ==
  IF count = 0 THEN FirstChild(p, v)
  ELSE LET n == Child(p, v, count - 1) IN IF n = 0 THEN 0 ELSE NextSibling(n, v)

RECURSIVE ChildElement(_, _, _)
ChildElement(p, v, count) ==
  IF count = 0 THEN FirstChildElement(p, v)
  ELSE LET n == ChildElement(p, v, count - 1) IN IF n = 0 THEN 0 ELSE NextSiblingElement(n, v)

RECURSIVE GetDocument(_)
GetDocument(n) ==
  IF n = 0 \/ node[n].type = "document" THEN n ELSE GetDocument(node[n].parent)

\* What ~TiXmlNode deletes.
RECURSIVE Subtree(_, _)
Subtree(nd, n) ==
  {n} \cup UNION {Subtree(nd, c) : c \in ToSet(Forward(nd, nd[n].firstChild))}

------------------------------------------------------------------------------
(* Pointers, as the functions leave them in the heap nd *)

Deleted(nd, S) == [c \in Cell |-> IF c \in S THEN Free ELSE nd[c]]

\* Copies go to the first free cells.
Fresh(n) ==
  LET from == SetToSortSeq(Subtree(node, n), <)
      to == SetToSortSeq(Cell \ Live, <)
  IN  [m \in ToSet(from) |-> to[CHOOSE i \in DOMAIN from : from[i] = m]]

Room(n) == Cardinality(Subtree(node, n)) <= Cardinality(Cell \ Live)

\* Wrong: the attributes are not copied.
cloneBare(n, f) ==
  LET New(p) == IF p \in DOMAIN f THEN f[p] ELSE 0
      Copy(m) == [node[m] EXCEPT !.parent = IF m = n THEN 0 ELSE New(@), !.attrs = <<>>,
                    !.firstChild = New(@), !.lastChild = New(@),
                    !.prev = IF m = n THEN 0 ELSE New(@),
                    !.next = IF m = n THEN 0 ELSE New(@)]
  IN  [c \in Cell |-> IF \E m \in DOMAIN f : f[m] = c
                      THEN Copy(CHOOSE m \in DOMAIN f : f[m] = c) ELSE node[c]]

\* Clone and CopyTo: the nodes below n are copied to the cells f gives.
Clone(n, f) ==
  LET New(p) == IF p \in DOMAIN f THEN f[p] ELSE 0
      Copy(m) == [node[m] EXCEPT !.parent = IF m = n THEN 0 ELSE New(@),
                    !.firstChild = New(@), !.lastChild = New(@),
                    !.prev = IF m = n THEN 0 ELSE New(@),
                    !.next = IF m = n THEN 0 ELSE New(@)]
  IN  [c \in Cell |-> IF \E m \in DOMAIN f : f[m] = c
                      THEN Copy(CHOOSE m \in DOMAIN f : f[m] = c) ELSE node[c]]

Link(nd, p, n) ==
  LET last == nd[p].lastChild
      own == [nd EXCEPT ![n].parent = p, ![n].prev = last, ![n].next = 0]
      list == IF last # 0 THEN [own EXCEPT ![last].next = n]
              ELSE [own EXCEPT ![p].firstChild = n]
  IN  [list EXCEPT ![p].lastChild = n]

Before(nd, p, b, n) ==
  LET prev == nd[b].prev
      own == [nd EXCEPT ![n].parent = p, ![n].next = b, ![n].prev = prev]
      list == IF prev # 0 THEN [own EXCEPT ![prev].next = n]
              ELSE [own EXCEPT ![p].firstChild = n]
  IN  [list EXCEPT ![b].prev = n]

After(nd, p, a, n) ==
  LET next == nd[a].next
      own == [nd EXCEPT ![n].parent = p, ![n].prev = a, ![n].next = next]
      list == IF next # 0 THEN [own EXCEPT ![next].prev = n]
              ELSE [own EXCEPT ![p].lastChild = n]
  IN  [list EXCEPT ![a].next = n]

Unlink(nd, p, r, before, after) ==      \* before, after: who takes r's place
  LET next == nd[r].next
      prev == nd[r].prev
      list == IF next # 0 THEN [nd EXCEPT ![next].prev = after]
              ELSE [nd EXCEPT ![p].lastChild = after]
  IN  IF prev # 0 THEN [list EXCEPT ![prev].next = before]
      ELSE [list EXCEPT ![p].firstChild = before]

------------------------------------------------------------------------------
(* The functions *)

Parent == {c \in Live : node[c].type \in {"document", "element"}}

\* new TiXmlDocument, TiXmlElement or TiXmlText.
New(k) ==
  /\ Live # Cell
  /\ LET c == Min(Cell \ Live)
     IN  /\ node' = [node EXCEPT ![c] = [Free EXCEPT !.type = k[1], !.value = k[2]]]
         /\ held' = held \cup {c}
  /\ UNCHANGED <<error, failed>>

\* A document cannot be a child: it is not added, and p's document has an error.
TopOnly(p) == error' = (error \/ GetDocument(p) # 0)

\* A document is never given to LinkEndChild: its asserts fail then, before the code
\* that would refuse it.
LinkEndChild(p, n) ==
  /\ n \in held /\ node[n].type # "document" /\ p \notin Subtree(node, n)
  /\ held' = held \ {n}
  /\ node' = Link(node, p, n)
  /\ UNCHANGED <<error, failed>>

\* A copy of t is added to p, by a function that leaves the heap as in nd, unless t is
\* a document.
AddCopy(p, t, nd, assertion) ==
  /\ IF node[t].type = "document" THEN TopOnly(p) /\ UNCHANGED <<node, failed>>
     ELSE node' = nd /\ failed' = (failed \/ ~assertion) /\ UNCHANGED error
  /\ UNCHANGED held

InsertEndChild(p, t, f) == AddCopy(p, t, Link(Clone(t, f), p, f[t]), TRUE)

InsertBeforeChild(p, b, t, f) ==
  /\ node[b].parent = p
  /\ AddCopy(p, t, Before(Clone(t, f), p, b, f[t]),
             node[b].prev = 0 => node[p].firstChild = b)

InsertAfterChild(p, a, t, f) ==
  /\ node[a].parent = p
  /\ AddCopy(p, t, After(Clone(t, f), p, a, f[t]),
             node[a].next = 0 => node[p].lastChild = a)

\* Wrong: the node after the one replaced still points back to it.
replaceHalf(p, r, t, f) ==
  /\ node[r].parent = p
  /\ LET own == [Clone(t, f) EXCEPT ![f[t]].next = node[r].next, ![f[t]].prev = node[r].prev,
                                    ![f[t]].parent = p]
     IN  AddCopy(p, t, Deleted(Unlink(own, p, r, f[t], IF node[r].next = 0 THEN f[t] ELSE r),
                               Subtree(node, r)), TRUE)

ReplaceChild(p, r, t, f) ==
  /\ node[r].parent = p
  /\ LET own == [Clone(t, f) EXCEPT ![f[t]].next = node[r].next, ![f[t]].prev = node[r].prev,
                                    ![f[t]].parent = p]
     IN  AddCopy(p, t, Deleted(Unlink(own, p, r, f[t], f[t]), Subtree(node, r)), TRUE)

RemoveChild(p, r) ==
  /\ node[r].parent = p
  /\ node' = Deleted(Unlink(node, p, r, node[r].next, node[r].prev), Subtree(node, r))
  /\ UNCHANGED <<held, error, failed>>

Clear(p) ==
  /\ node' = [Deleted(node, Subtree(node, p) \ {p}) EXCEPT ![p].firstChild = 0,
                                                           ![p].lastChild = 0]
  /\ UNCHANGED <<held, error, failed>>

\* delete, by the program.
Delete(n) ==
  /\ n \in held
  /\ node' = Deleted(node, Subtree(node, n)) /\ held' = held \ {n}
  /\ UNCHANGED <<error, failed>>

Find(n, name) == {i \in DOMAIN node[n].attrs : node[n].attrs[i].name = name}

\* FindOrCreate puts a new attribute at the end.
SetAttribute(n, name, v) ==
  /\ node[n].type = "element"
  /\ node' = [node EXCEPT ![n].attrs =
                IF Find(n, name) = {} THEN Append(@, [name |-> name, value |-> v])
                ELSE [@ EXCEPT ![Min(Find(n, name))].value = v]]
  /\ UNCHANGED <<held, error, failed>>

RemoveAttribute(n, name) ==
  /\ Find(n, name) # {}
  /\ node' = [node EXCEPT ![n].attrs = RemoveAt(@, Min(Find(n, name)))]
  /\ UNCHANGED <<held, error, failed>>

DomNext ==
  \/ \E k \in Kind : New(k)
  \/ \E n \in Live : Delete(n) \/ \E v \in AttributeValue : SetAttribute(n, "a", v)
                    \/ RemoveAttribute(n, "a")
  \/ \E p \in Parent :
       \/ Clear(p)
       \/ \E n \in Live : LinkEndChild(p, n) \/ RemoveChild(p, n)
       \/ \E t \in Live : Room(t) /\ \E f \in {Fresh(t)} :
            \/ InsertEndChild(p, t, f)
            \/ \E c \in Live : \/ InsertBeforeChild(p, c, t, f)
                               \/ InsertAfterChild(p, c, t, f)
                               \/ ReplaceChild(p, c, t, f)

DomSpec == DomInit /\ [][DomNext]_domVars

------------------------------------------------------------------------------
(* Properties *)

Children(p) == Forward(node, node[p].firstChild)

Value == {k[2] : k \in Kind}

\* The lists behind the functions that look for children: walking a node's children
\* from the first with "next" and from the last with "prev" meets the same nodes,
\* which have it as their parent, and IterateChildren, PreviousSibling and TiXmlHandle
\* find the same ones among them.  Every node hangs in one tree that the program can
\* reach (TiXmlNode's insert, replace and remove functions, none of which asserts).
WalksAgree ==
  /\ ~failed
  /\ Live = UNION {Subtree(node, n) : n \in held}
  /\ \A p \in Live :
       LET kids == Children(p)
           Named(v) == SelectSeq(kids, LAMBDA n : node[n].value = v)
           Elements(v) == SelectSeq(kids, LAMBDA n : IsElement(n, v))
       IN  /\ Backward(node, node[p].lastChild) = Reverse(kids)
           /\ \A i \in DOMAIN kids : node[kids[i]].parent = p
           /\ \A v \in Value : \A k \in 0..Len(kids) :
                /\ Child(p, v, k) = IF k < Len(Named(v)) THEN Named(v)[k + 1] ELSE 0
                /\ ChildElement(p, v, k) =
                     IF k < Len(Elements(v)) THEN Elements(v)[k + 1] ELSE 0
           /\ \A v \in Value : LastChild(p, v) # 0 =>
                IterateChildren(p, v, PreviousSibling(LastChild(p, v), v)) = LastChild(p, v)

Tree == INSTANCE XmlTree WITH
  Label <- {<<k[1], k[2], <<>>>> : k \in Kind},
  label <- [c \in Cell |-> <<node[c].type, node[c].value, node[c].attrs>>],
  kids <- [c \in Cell |-> Children(c)]

\* Every function has the effect on a tree that its name says (XmlTree), whatever the
\* pointers did before: a copy is one of the whole subtree, nothing else moves and
\* only what was removed or replaced is freed (Clone, CopyTo, ~TiXmlNode).
TreeRefined == Tree!Spec
=============================================================================
