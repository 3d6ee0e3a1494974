------------------------------- MODULE XmlTree -------------------------------
(***************************************************************************)
(* What TinyXML's editing functions promise: trees whose nodes have a      *)
(* label and a sequence of children.  XmlDom keeps them in linked lists.   *)
(* A cell holds a node, or is free; copies go to the first free cells.     *)
(***************************************************************************)
EXTENDS Integers, Sequences, SequencesExt, FiniteSetsExt

CONSTANTS MaxNodes,
          Label         \* of new nodes

Cell == 1..MaxNodes

VARIABLES label,        \* type, value and attributes, NoLabel for a free cell
          kids,         \* [Cell -> Seq(Cell)]
          held          \* the roots, which belong to the program

treeVars == <<label, kids, held>>

NoLabel == <<"free", "", <<>>>>

RECURSIVE Below(_)
Below(n) == {n} \cup UNION {Below(kids[n][i]) : i \in DOMAIN kids[n]}

Sorted(S) == SetToSortSeq(S, <)

\* Where the nodes below t are copied to.
CopyOf(t) ==
  LET from == Sorted(Below(t))
      to == Sorted({c \in Cell : label[c] = NoLabel})
  IN  [m \in Below(t) |-> to[CHOOSE i \in DOMAIN from : from[i] = m]]

\* p's children become s, in which 0 stands for a copy of t that is made first, in the
\* cells f gives; the nodes of gone are freed.
Edit(p, s, t, f, gone) ==
  LET copies == {f[m] : m \in DOMAIN f}
      Source(c) == CHOOSE m \in DOMAIN f : f[m] = c
      Copied(k) == [i \in DOMAIN k |-> f[k[i]]]
  IN  /\ label' = [c \in Cell |-> IF c \in copies THEN label[Source(c)]
                                  ELSE IF c \in gone THEN NoLabel ELSE label[c]]
      /\ kids' = [c \in Cell |->
                    CASE c = p        -> [i \in DOMAIN s |-> IF s[i] = 0 THEN f[t] ELSE s[i]]
                      [] c \in copies -> Copied(kids[Source(c)])
                      [] c \in gone   -> <<>>
                      [] OTHER        -> kids[c]]
      /\ UNCHANGED held

Forget(p, s, gone) ==
  /\ label' = [c \in Cell |-> IF c \in gone THEN NoLabel ELSE label[c]]
  /\ kids' = [c \in Cell |-> IF c = p THEN s ELSE IF c \in gone THEN <<>> ELSE kids[c]]

Init == held = {} /\ label = [c \in Cell |-> NoLabel] /\ kids = [c \in Cell |-> <<>>]

Create(c) ==
  /\ label[c] = NoLabel
  /\ \E l \in Label : label' = [label EXCEPT ![c] = l]
  /\ held' = held \cup {c} /\ UNCHANGED kids

\* A node has each attribute once; changing them changes nothing else.
Relabel(c) ==
  LET attrs == label'[c][3]
  IN  /\ label' = [label EXCEPT ![c][3] = attrs]
      /\ \A i, j \in DOMAIN attrs : attrs[i].name = attrs[j].name => i = j
      /\ UNCHANGED <<kids, held>>

Attach(p, n) ==
  /\ n \in held /\ p \notin Below(n)
  /\ kids' = [kids EXCEPT ![p] = Append(@, n)]
  /\ held' = held \ {n} /\ UNCHANGED label

InsertCopy(p, t, f, i) ==
  i \in 1..Len(kids[p]) + 1 /\ Edit(p, InsertAt(kids[p], i, 0), t, f, {})

ReplaceByCopy(p, t, f, i) ==
  i \in DOMAIN kids[p] /\ Edit(p, [kids[p] EXCEPT ![i] = 0], t, f, Below(kids[p][i]))

Detach(p, i) ==
  /\ i \in DOMAIN kids[p]
  /\ Forget(p, RemoveAt(kids[p], i), Below(kids[p][i])) /\ UNCHANGED held

Clear(p) == Forget(p, <<>>, Below(p) \ {p}) /\ UNCHANGED held

Delete(n) == n \in held /\ Forget(n, <<>>, Below(n)) /\ held' = held \ {n}

Next ==
  \/ \E c \in Cell : Create(c) \/ Relabel(c) \/ Clear(c) \/ Delete(c)
  \/ \E p, n \in Cell : Attach(p, n)
  \/ \E p \in Cell, i \in 1..MaxNodes : Detach(p, i)
  \/ \E t \in {c \in Cell : label[c] # NoLabel} :
       /\ Cardinality(Below(t)) <= Cardinality({c \in Cell : label[c] = NoLabel})
       /\ \E f \in {CopyOf(t)}, p \in Cell, i \in 1..MaxNodes :
            InsertCopy(p, t, f, i) \/ ReplaceByCopy(p, t, f, i)

Spec == Init /\ [][Next]_treeVars
=============================================================================
