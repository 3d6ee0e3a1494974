------------------------------ MODULE FreeList ------------------------------
(***************************************************************************)
(* submodules/concurrentqueue/concurrentqueue.h, FreeList: the lock-free   *)
(* stack of free blocks.  A node's freeListRefs counts the list itself and *)
(* the threads that look at the node; its top bit says that the node is to *)
(* go on the list once nobody looks at it any more.  Each atomic access of *)
(* add, try_get and add_knowing_refcount_is_zero is a step.                *)
(***************************************************************************)
EXTENDS Integers, FiniteSets

CONSTANTS Thread, Node

SHOULD_BE_ON_FREELIST == 2 * (Cardinality(Thread) + 2)
REFS_MASK(r) == r % SHOULD_BE_ON_FREELIST

VARIABLES
  freeListHead,
  freeListRefs, freeListNext,   \* of each node
  owned,                        \* the nodes a thread holds as its own
  run                           \* a thread's place and its local variables

vars == <<freeListHead, freeListRefs, freeListNext, owned, run>>

Null == "nullptr"
Idle == [pc |-> "idle"]

\* The nodes are spread over the threads, the list is empty.
Init ==
  /\ freeListHead = Null
  /\ freeListRefs = [n \in Node |-> 0]
  /\ freeListNext = [n \in Node |-> Null]
  /\ \E f \in [Node -> Thread] : owned = [t \in Thread |-> {n \in Node : f[n] = t}]
  /\ run = [t \in Thread |-> Idle]

Go(t, f) == run' = [run EXCEPT ![t] = f]
Refs(n, r) == freeListRefs' = [freeListRefs EXCEPT ![n] = r]

\* From add a thread returns, from try_get's failed attempt it goes on with "head".
Resume(t, head) ==
  IF ~run[t].getting THEN Idle
  ELSE IF head = Null THEN Idle ELSE [pc |-> "ref", head |-> head]

-----------------------------------------------------------------------------
(* add and add_knowing_refcount_is_zero.                                   *)

add(t, n) ==
  /\ run[t].pc = "idle" /\ n \in owned[t]
  /\ owned' = [owned EXCEPT ![t] = @ \ {n}]
  /\ Refs(n, freeListRefs[n] + SHOULD_BE_ON_FREELIST)
  /\ Go(t, IF freeListRefs[n] = 0
           THEN [pc |-> "load", node |-> n, getting |-> FALSE, back |-> Null] ELSE Idle)
  /\ UNCHANGED <<freeListHead, freeListNext>>

LoadHead(t) ==
  /\ run[t].pc = "load"
  /\ Go(t, [pc |-> "next", head |-> freeListHead, node |-> run[t].node,
            getting |-> run[t].getting, back |-> run[t].back])
  /\ UNCHANGED <<freeListHead, freeListRefs, freeListNext, owned>>

StoreNext(t) ==
  /\ run[t].pc = "next"
  /\ freeListNext' = [freeListNext EXCEPT ![run[t].node] = run[t].head]
  /\ Go(t, [run[t] EXCEPT !.pc = "one"])
  /\ UNCHANGED <<freeListHead, freeListRefs, owned>>

StoreRefs(t) ==
  /\ run[t].pc = "one"
  /\ Refs(run[t].node, 1)
  /\ Go(t, [run[t] EXCEPT !.pc = "push"])
  /\ UNCHANGED <<freeListHead, freeListNext, owned>>

\* The exchange of the head; a failed one leaves the new head in "head".
PushNode(t) ==
  /\ run[t].pc = "push"
  /\ IF freeListHead = run[t].head
     THEN freeListHead' = run[t].node /\ Go(t, Resume(t, run[t].back))
     ELSE Go(t, [run[t] EXCEPT !.pc = "failed", !.head = freeListHead])
            /\ UNCHANGED freeListHead
  /\ UNCHANGED <<freeListRefs, freeListNext, owned>>

\* The list's reference becomes the bit; whoever takes the last reference pushes.
PushFailed(t) ==
  LET r == run[t]
  IN  /\ r.pc = "failed"
      /\ Refs(r.node, freeListRefs[r.node] + SHOULD_BE_ON_FREELIST - 1)
      /\ Go(t, IF freeListRefs[r.node] = 1 THEN [r EXCEPT !.pc = "next"]
               ELSE Resume(t, r.back))
      /\ UNCHANGED <<freeListHead, freeListNext, owned>>

-----------------------------------------------------------------------------
(* try_get.                                                                *)

Look(t) == IF freeListHead = Null THEN Idle ELSE [pc |-> "ref", head |-> freeListHead]

try_get(t) ==
  /\ run[t].pc = "idle"
  /\ freeListHead # Null
  /\ Go(t, Look(t))
  /\ UNCHANGED <<freeListHead, freeListRefs, freeListNext, owned>>

\* Wrong: the head is read through without a reference to it.
readWithoutRef(t) ==
  /\ run[t].pc = "ref"
  /\ Refs(run[t].head, freeListRefs[run[t].head] + 1)
  /\ Go(t, [run[t] EXCEPT !.pc = "read"])
  /\ UNCHANGED <<freeListHead, freeListNext, owned>>

\* A reference to the head, unless it has none left and is going away.
TakeRef(t) ==
  LET h == run[t].head
  IN  /\ run[t].pc = "ref"
      /\ IF REFS_MASK(freeListRefs[h]) = 0
         THEN Go(t, Look(t)) /\ UNCHANGED freeListRefs
         ELSE Go(t, [run[t] EXCEPT !.pc = "read"]) /\ Refs(h, freeListRefs[h] + 1)
      /\ UNCHANGED <<freeListHead, freeListNext, owned>>

ReadNext(t) ==
  /\ run[t].pc = "read"
  /\ Go(t, [pc |-> "pop", head |-> run[t].head, next |-> freeListNext[run[t].head]])
  /\ UNCHANGED <<freeListHead, freeListRefs, freeListNext, owned>>

PopNode(t) ==
  /\ run[t].pc = "pop"
  /\ IF freeListHead = run[t].head
     THEN /\ freeListHead' = run[t].next
          /\ Go(t, [pc |-> "popped", head |-> run[t].head])
     ELSE /\ Go(t, [pc |-> "missed", head |-> freeListHead, prevHead |-> run[t].head])
          /\ UNCHANGED freeListHead
  /\ UNCHANGED <<freeListRefs, freeListNext, owned>>

\* Two references less, the thread's and the list's; the node is the thread's own.
GotNode(t) ==
  LET n == run[t].head
  IN  /\ run[t].pc = "popped"
      /\ Refs(n, freeListRefs[n] - 2)
      /\ owned' = [owned EXCEPT ![t] = @ \cup {n}]
      /\ Go(t, Idle)
      /\ UNCHANGED <<freeListHead, freeListNext>>

\* The reference is given back; the last one to do so pushes a node that waits for it.
DropRef(t) ==
  LET n == run[t].prevHead
  IN  /\ run[t].pc = "missed"
      /\ Refs(n, freeListRefs[n] - 1)
      /\ Go(t, IF freeListRefs[n] = SHOULD_BE_ON_FREELIST + 1
               THEN [pc |-> "load", node |-> n, getting |-> TRUE, back |-> run[t].head]
               ELSE IF run[t].head = Null THEN Idle
               ELSE [pc |-> "ref", head |-> run[t].head])
      /\ UNCHANGED <<freeListHead, freeListNext, owned>>

Next ==
  \E t \in Thread :
    \/ \E n \in Node : add(t, n)
    \/ LoadHead(t) \/ StoreNext(t) \/ StoreRefs(t) \/ PushNode(t) \/ PushFailed(t)
    \/ try_get(t) \/ TakeRef(t) \/ ReadNext(t) \/ PopNode(t) \/ GotNode(t) \/ DropRef(t)

Spec == Init /\ [][Next]_vars

-----------------------------------------------------------------------------
(* Properties.                                                             *)

\* The nodes from the head on: n is one if a chain of next pointers leads to it.
OnList ==
  LET Reach[k \in 0 .. Cardinality(Node)] ==
        IF k = 0 THEN {freeListHead} \ {Null}
        ELSE Reach[k - 1] \cup ({freeListNext[n] : n \in Reach[k - 1]} \ {Null})
  IN  Reach[Cardinality(Node)]

\* No node is given out twice, on the list while it is somebody's, or lost: owners hold
\* disjoint sets of nodes none of which is on the list, a node just popped does not
\* have the bit set (the assertion of try_get), and when no call is in progress every
\* node is owned or on the list with exactly the list's reference.
NodesKept ==
  /\ \A t, u \in Thread : t # u => owned[t] \cap owned[u] = {}
  /\ \A t \in Thread : owned[t] \cap OnList = {}
  /\ \A t \in Thread : run[t].pc = "popped" =>
       /\ freeListRefs[run[t].head] < SHOULD_BE_ON_FREELIST
       /\ run[t].head \notin OnList \cup UNION {owned[u] : u \in Thread}
  /\ (\A t \in Thread : run[t].pc = "idle") =>
       /\ OnList \cup UNION {owned[t] : t \in Thread} = Node
       /\ \A n \in Node : freeListRefs[n] = IF n \in OnList THEN 1 ELSE 0
=============================================================================
