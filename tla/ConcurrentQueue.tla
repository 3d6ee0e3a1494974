--------------------------- MODULE ConcurrentQueue ---------------------------
(***************************************************************************)
(* submodules/concurrentqueue/concurrentqueue.h, the part under the queues *)
(* of rpc/ConnectionQueue: one sub-queue per producing thread              *)
(* (ImplicitProducer), made of blocks found through a growing circular     *)
(* index; blocks come from a pool, a free list or the heap, and go to the  *)
(* free list when the last element is out.                                 *)
(*                                                                         *)
(* A step is one atomic access that another thread can tell from the next, *)
(* in the order of the code; memory is sequentially consistent here.       *)
(* Indices wrap at IndexMod (2^64 in the code).  Elements are pairs        *)
(* <<producer, number>>.  The free list is a set (module FreeList shows    *)
(* why it may be), a thread's sub-queue is found at once (module           *)
(* ProducerHash shows why it may be).                                      *)
(***************************************************************************)
EXTENDS Integers, Sequences, SequencesExt, FiniteSets

CONSTANTS Producer, Consumer,
          BLOCK_SIZE, IMPLICIT_INITIAL_INDEX_SIZE,
          IndexMod,         \* the values of index_t
          Pool,             \* initialBlockPool
          Heap,             \* bound: the blocks that create<Block>() can make
          MaxItems          \* bound: elements enqueued

VARIABLES
  producerList,     \* producerListTail and the next pointers: newest first
  prod,             \* ProducerBase: the four counters and tailBlock
  headers,          \* every BlockIndexHeader made; the last is blockIndex
  cell,             \* every BlockIndexEntry
  slots, done,      \* a block's elements; its elementsCompletelyDequeued
  pool, freeList, heap,
  en, de,           \* a producer's and a consumer's place in its call
  sent, claimed     \* ghosts: elements published, elements promised to consumers

queueVars == <<producerList, prod, headers, cell, slots, done, pool, freeList,
               heap, en, de, sent, claimed>>
memory == <<pool, freeList, heap>>

Block == Pool \cup Heap
None == "none"
NoElement == <<>>
INVALID_BLOCK_BASE == 1
Offset == 0 .. BLOCK_SIZE - 1

Wrap(i) == i % IndexMod
Slot(i) == i % BLOCK_SIZE
Base(i) == i - Slot(i)
circular_less_than(a, b) == Wrap(a - b) > IndexMod \div 2
Least(a, b) == IF a < b THEN a ELSE b

Idle == [pc |-> "idle"]

\* ProducerBase's counters, at "start" for a sub-queue that was used before.
ProducerBase(start, last) ==
  [tailIndex |-> start, headIndex |-> start, dequeueOptimisticCount |-> start,
   dequeueOvercommit |-> 0, tailBlock |-> last]

size_approx(p) ==
  IF circular_less_than(prod[p].headIndex, prod[p].tailIndex)
  THEN Wrap(prod[p].tailIndex - prod[p].headIndex) ELSE 0

-----------------------------------------------------------------------------
(* The block index.                                                        *)

Header(p) == headers[p][Len(headers[p])]
SetTail(p, t) == headers' = [headers EXCEPT ![p][Len(headers[p])].tail = t]
NextTail(h) == (h.tail + 1) % h.capacity

\* new_block_index: the old entries, oldest first, then as many new ones.
new_block_index(p, prev) ==
  LET old == prev.capacity
      n == Len(cell[p])
  IN  [capacity |-> 2 * old,
       tail |-> old - 1,
       index |-> [i \in 0 .. 2 * old - 1 |->
                    IF i < old THEN prev.index[(prev.tail + 1 + i) % old]
                    ELSE n + 1 + i - old]]

first_block_index ==
  [capacity |-> IMPLICIT_INITIAL_INDEX_SIZE,
   tail |-> IMPLICIT_INITIAL_INDEX_SIZE - 1,
   index |-> [i \in 0 .. IMPLICIT_INITIAL_INDEX_SIZE - 1 |-> i + 1]]

Fresh(n) == [i \in 1 .. n |-> [key |-> INVALID_BLOCK_BASE, value |-> None]]

rewind_block_index_tail(p) ==
  SetTail(p, (Header(p).tail + Header(p).capacity - 1) % Header(p).capacity)

\* Which entry holds the block of index i, counted from an entry "tail" whose key is
\* tailBase.  The division is of unsigned numbers: BLOCK_SIZE is a size_t.
get_block_index_index_for_index(h, tail, tailBase, i) ==
  h.index[(tail + Wrap(Base(i) - tailBase) \div BLOCK_SIZE) % h.capacity]

-----------------------------------------------------------------------------
(* Producers.                                                              *)

Step(p, f) == en' = [en EXCEPT ![p] = f]

\* How many blocks "count" elements need on top of tailBlock.
BlocksNeeded(tail, count) ==
  Wrap(Base(Wrap(tail + count - 1)) - Base(Wrap(tail - 1))) \div BLOCK_SIZE

FirstBase(p) == Wrap(Base(Wrap(prod[p].tailIndex - 1)) + BLOCK_SIZE)
CurrentBase(p) == Wrap(FirstBase(p) + BLOCK_SIZE * Len(en[p].fresh))

Begin(start, call) ==
  [call EXCEPT !.pc = IF BlocksNeeded(start, call.count) > 0 THEN "insert" ELSE "fill"]

\* inner_enqueue and inner_enqueue_bulk, of enqueue (canAlloc) or try_enqueue (not).
StartEnqueue(p, count, canAlloc) ==
  LET call == [pc |-> "join", count |-> count, canAlloc |-> canAlloc,
               fresh |-> <<>>, undone |-> 0]
  IN  /\ en[p].pc = "idle"
      /\ sent[p] + count <= MaxItems
      /\ Step(p, IF p \in Range(producerList) THEN Begin(prod[p].tailIndex, call)
                 ELSE call)
      /\ UNCHANGED <<producerList, prod, headers, cell, slots, done, memory, de, sent,
                     claimed>>

\* A thread's first enqueue makes its sub-queue, at the front of the list; there may
\* be no memory for it, or none for its block index.
add_producer(p) ==
  /\ en[p].pc = "join"
  /\ \/ /\ producerList' = <<p>> \o producerList
        /\ prod' = [prod EXCEPT ![p] = ProducerBase(0, None)]
        /\ Step(p, Begin(0, en[p]))
        /\ \/ /\ headers' = [headers EXCEPT ![p] = <<first_block_index>>]
              /\ cell' = [cell EXCEPT ![p] = Fresh(IMPLICIT_INITIAL_INDEX_SIZE)]
           \/ UNCHANGED <<headers, cell>>
     \/ /\ Step(p, Idle)
        /\ UNCHANGED <<producerList, prod, headers, cell>>
  /\ UNCHANGED <<slots, done, memory, de, sent, claimed>>

Fail(p) == Step(p, [en[p] EXCEPT !.pc = "undo"])

\* insert_block_index_entry up to the store of the key: the entry after the last if
\* it is unused, else one of a new index twice as large.
insert_block_index_entry(p) ==
  LET h == Header(p)
      c == h.index[NextTail(h)]
      grown == new_block_index(p, h)
      more == cell[p] \o Fresh(h.capacity)
      Free(e) == e.key = INVALID_BLOCK_BASE \/ e.value = None
  IN  \/ /\ Free(cell[p][c])
         /\ cell' = [cell EXCEPT ![p][c].key = CurrentBase(p)]
         /\ Step(p, [en[p] EXCEPT !.pc = "advance"])
         /\ UNCHANGED headers
      \/ /\ ~Free(cell[p][c]) /\ en[p].canAlloc
         /\ headers' = [headers EXCEPT ![p] = Append(@, grown)]
         /\ cell' = [cell EXCEPT ![p] =
                       [more EXCEPT ![grown.index[NextTail(grown)]].key =
                                      CurrentBase(p)]]
         /\ Step(p, [en[p] EXCEPT !.pc = "advance"])
      \/ /\ ~Free(cell[p][c])                   \* no room, or malloc failed
         /\ Fail(p)
         /\ UNCHANGED <<headers, cell>>

\* The loop of enqueue_bulk, first part: is there room in the range of the index,
\* and in the block index?
InsertEntry(p) ==
  /\ en[p].pc = "insert"
  /\ IF ~circular_less_than(prod[p].headIndex, Wrap(CurrentBase(p) + BLOCK_SIZE))
        \/ headers[p] = <<>>
     THEN Fail(p) /\ UNCHANGED <<headers, cell>>
     ELSE insert_block_index_entry(p)
  /\ UNCHANGED <<producerList, prod, slots, done, memory, de, sent, claimed>>

\* The store of the block index's tail.
AdvanceTail(p) ==
  /\ en[p].pc = "advance"
  /\ SetTail(p, NextTail(Header(p)))
  /\ Step(p, [en[p] EXCEPT !.pc = "block"])
  /\ UNCHANGED <<producerList, prod, cell, slots, done, memory, de, sent, claimed>>

try_get_block_from_initial_pool(b) ==
  /\ pool # {} /\ b = CHOOSE x \in pool : TRUE
  /\ pool' = pool \ {b}
  /\ UNCHANGED <<freeList, heap>>
try_get_block_from_free_list(b) ==
  pool = {} /\ b \in freeList /\ freeList' = freeList \ {b} /\ UNCHANGED <<pool, heap>>

requisition_block(b, canAlloc) ==
  \/ try_get_block_from_initial_pool(b)
  \/ try_get_block_from_free_list(b)
  \/ /\ pool = {} /\ freeList = {} /\ canAlloc /\ b \in heap
     /\ heap' = heap \ {b} /\ UNCHANGED <<pool, freeList>>

LastCell(p) == Header(p).index[Header(p).tail]

\* The loop of enqueue_bulk, second part: a block for the new entry, or the entry is
\* given back.
TakeBlock(p) ==
  /\ en[p].pc = "block"
  /\ \/ \E b \in Block :
          /\ requisition_block(b, en[p].canAlloc)
          /\ done' = [done EXCEPT ![b] = 0]
          /\ cell' = [cell EXCEPT ![p][LastCell(p)].value = b]
          /\ LET fresh == Append(en[p].fresh, b)
             IN  Step(p, [en[p] EXCEPT
                   !.fresh = fresh,
                   !.pc = IF Len(fresh) = BlocksNeeded(prod[p].tailIndex, en[p].count)
                          THEN "fill" ELSE "insert"])
          /\ UNCHANGED headers
     \/ /\ pool = {} /\ freeList = {}           \* nothing left, or create failed
        /\ rewind_block_index_tail(p)
        /\ cell' = [cell EXCEPT ![p][LastCell(p)].value = None]
        /\ Fail(p)
        /\ UNCHANGED <<done, memory>>
  /\ UNCHANGED <<producerList, prod, slots, de, sent, claimed>>

\* A failed enqueue_bulk takes its entries out of the index, first to last with one
\* rewind each, then gives the blocks back.
UndoEnqueue(p) ==
  /\ en[p].pc = "undo"
  /\ IF en[p].undone < Len(en[p].fresh)
     THEN /\ cell' = [cell EXCEPT ![p][
                        get_block_index_index_for_index(
                          Header(p), Header(p).tail, cell[p][LastCell(p)].key,
                          Wrap(FirstBase(p) + BLOCK_SIZE * en[p].undone))].value = None]
          /\ rewind_block_index_tail(p)
          /\ Step(p, [en[p] EXCEPT !.undone = @ + 1])
          /\ UNCHANGED freeList
     ELSE /\ freeList' = freeList \cup Range(en[p].fresh)
          /\ Step(p, Idle)
          /\ UNCHANGED <<cell, headers>>
  /\ UNCHANGED <<producerList, prod, slots, done, pool, heap, de, sent, claimed>>

\* The block of the i-th of the elements being enqueued.
TargetBlock(p, i) ==
  LET n == BlocksNeeded(prod[p].tailIndex, i)
  IN  IF n = 0 THEN prod[p].tailBlock ELSE en[p].fresh[n]

\* The elements are constructed in their blocks.
FillBlocks(p) ==
  /\ en[p].pc = "fill"
  /\ LET At(i) == <<TargetBlock(p, i), Slot(prod[p].tailIndex + i - 1)>>
     IN  slots' = [b \in Block |-> [o \in Offset |->
                     IF \E i \in 1 .. en[p].count : At(i) = <<b, o>>
                     THEN <<p, sent[p] + CHOOSE i \in 1 .. en[p].count :
                                           At(i) = <<b, o>> >>
                     ELSE slots[b][o]]]
  /\ Step(p, [en[p] EXCEPT !.pc = "publish"])
  /\ UNCHANGED <<producerList, prod, headers, cell, done, memory, de, sent, claimed>>

\* The store of tailIndex that makes them visible.  signal(count) is next.
PublishTail(p) ==
  /\ en[p].pc = "publish"
  /\ prod' = [prod EXCEPT ![p].tailIndex = Wrap(@ + en[p].count),
                          ![p].tailBlock = TargetBlock(p, en[p].count)]
  /\ sent' = [sent EXCEPT ![p] = @ + en[p].count]
  /\ Step(p, [pc |-> "published", count |-> en[p].count])
  /\ UNCHANGED <<producerList, headers, cell, slots, done, memory, de, claimed>>

-----------------------------------------------------------------------------
(* Consumers.                                                              *)

Become(c, f) == de' = [de EXCEPT ![c] = f]
quiet == <<producerList, headers, en, sent>>

\* The scoring of try_dequeue: the largest of the first three sub-queues that are
\* not empty, then the others; try_dequeue_bulk takes them as they come.
ScanOrder(bulk) ==
  LET busy == SelectSeq(producerList, LAMBDA p : size_approx(p) > 0)
      three == SubSeq(busy, 1, Least(3, Len(busy)))
      best == SelectInSeq(three, LAMBDA p :
                \A q \in Range(three) : size_approx(q) <= size_approx(p))
  IN  IF bulk THEN producerList
      ELSE IF busy = <<>> THEN <<>>
      ELSE <<three[best]>> \o SelectSeq(producerList, LAMBDA p : p # three[best])

\* try_dequeue (max = 1) or try_dequeue_bulk; "got" is what the call has so far.
StartDequeue(c, bulk, max) ==
  /\ de[c].pc = "idle"
  /\ Become(c, [pc |-> "scan", max |-> max, todo |-> ScanOrder(bulk), got |-> <<>>])
  /\ UNCHANGED <<quiet, prod, cell, slots, done, memory, claimed>>

\* The next sub-queue: dequeue's or dequeue_bulk's first look.
LookAtProducer(c) ==
  /\ de[c].pc = "scan" /\ de[c].todo # <<>> /\ Len(de[c].got) < de[c].max
  /\ LET p == Head(de[c].todo)
         desired == Wrap(prod[p].tailIndex - (prod[p].dequeueOptimisticCount
                                                - prod[p].dequeueOvercommit))
     IN  IF circular_less_than(0, desired)
         THEN Become(c, [de[c] EXCEPT !.pc = "claim"] @@
                        [p |-> p, overcommit |-> prod[p].dequeueOvercommit,
                         desired |-> Least(desired, de[c].max - Len(de[c].got))])
         ELSE Become(c, [de[c] EXCEPT !.todo = Tail(@)])
  /\ UNCHANGED <<quiet, prod, cell, slots, done, memory, claimed>>

\* Back to the loop over the sub-queues.
Scanning(c, got) ==
  [pc |-> "scan", max |-> de[c].max, todo |-> Tail(de[c].todo), got |-> got]

\* dequeueOptimisticCount.fetch_add.
ClaimCount(c) ==
  /\ de[c].pc = "claim"
  /\ Become(c, [de[c] EXCEPT !.pc = "confirm"] @@
               [mine |-> prod[de[c].p].dequeueOptimisticCount])
  /\ prod' = [prod EXCEPT ![de[c].p].dequeueOptimisticCount = Wrap(@ + de[c].desired)]
  /\ UNCHANGED <<quiet, cell, slots, done, memory, claimed>>

\* The second look at tailIndex: how many of the claimed elements there are.
ConfirmClaim(c) ==
  /\ de[c].pc = "confirm"
  /\ LET actual == Wrap(prod[de[c].p].tailIndex - (de[c].mine - de[c].overcommit))
     IN  Become(c,
           IF ~circular_less_than(0, actual)
           THEN [de[c] EXCEPT !.pc = "surplus"] @@ [actual |-> 0]
           ELSE [de[c] EXCEPT !.pc = IF actual < de[c].desired THEN "surplus"
                                     ELSE "head"]
                @@ [actual |-> Least(actual, de[c].desired)])
  /\ UNCHANGED <<quiet, prod, cell, slots, done, memory, claimed>>

\* dequeueOvercommit.fetch_add of what was claimed and is not there.
GiveBackSurplus(c) ==
  /\ de[c].pc = "surplus"
  /\ prod' = [prod EXCEPT ![de[c].p].dequeueOvercommit =
                            Wrap(@ + de[c].desired - de[c].actual)]
  /\ Become(c, IF de[c].actual = 0 THEN Scanning(c, de[c].got)
               ELSE [de[c] EXCEPT !.pc = "head"])
  /\ UNCHANGED <<quiet, cell, slots, done, memory, claimed>>

\* headIndex.fetch_add: from here on the elements are this consumer's.
TakeHead(c) ==
  LET d == de[c]
  IN  /\ d.pc = "head"
      /\ prod' = [prod EXCEPT ![d.p].headIndex = Wrap(@ + d.actual)]
      /\ claimed' = [claimed EXCEPT ![d.p] = @ + d.actual]
      /\ Become(c, [pc |-> "index", max |-> d.max, todo |-> d.todo, got |-> d.got,
                    p |-> d.p, i |-> prod[d.p].headIndex, n |-> d.actual,
                    due |-> claimed[d.p] + 1])
      /\ UNCHANGED <<quiet, cell, slots, done, memory>>

\* The loads of blockIndex and of its tail.
LoadIndexTail(c) ==
  /\ de[c].pc = "index"
  /\ Become(c, [de[c] EXCEPT !.pc = "find"] @@
               [h |-> Len(headers[de[c].p]), tail |-> Header(de[c].p).tail])
  /\ UNCHANGED <<quiet, prod, cell, slots, done, memory, claimed>>

\* The load of the last entry's key, and with it the entry of the block.
FindEntry(c) ==
  LET d == de[c]
      h == headers[d.p][d.h]
  IN  /\ d.pc = "find"
      /\ Become(c, [d EXCEPT !.pc = "move"] @@
           [cell |-> get_block_index_index_for_index(
                       h, d.tail, cell[d.p][h.index[d.tail]].key, d.i)])
      /\ UNCHANGED <<quiet, prod, cell, slots, done, memory, claimed>>

\* How many of the elements are in the block of the first of them.
InBlock(d) == Least(d.n, BLOCK_SIZE - Slot(d.i))

\* The elements are moved out of the block and destroyed there.
MoveOut(c) ==
  LET d == de[c]
      b == cell[d.p][d.cell].value
      k == InBlock(d)
  IN  /\ d.pc = "move"
      /\ Become(c, [block |-> b] @@
                   [d EXCEPT !.pc = "empty",
                     !.got = @ \o [j \in 1 .. k |-> slots[b][Slot(d.i) + j - 1]]])
      /\ slots' = [slots EXCEPT ![b] = [o \in Offset |->
                     IF o \in Slot(d.i) .. Slot(d.i) + k - 1
                     THEN NoElement ELSE slots[b][o]]]
      /\ UNCHANGED <<quiet, prod, cell, done, memory, claimed>>

\* Wrong: the rest of the elements is looked for in the same block.
sameEntry(c) ==
  LET d == de[c]
  IN  IF InBlock(d) = d.n THEN Scanning(c, d.got)
      ELSE [d EXCEPT !.pc = "move", !.i = Wrap(@ + InBlock(d)),
                     !.n = @ - InBlock(d), !.due = @ + InBlock(d)]

\* The rest of the elements is in the block of the next entry of the same index.
NextBlock(c) ==
  LET d == de[c]
      h == headers[d.p][d.h]
      k == InBlock(d)
      pos == CHOOSE j \in 0 .. h.capacity - 1 : h.index[j] = d.cell
  IN  IF k = d.n THEN Scanning(c, d.got)
      ELSE [d EXCEPT !.pc = "move", !.i = Wrap(@ + k), !.n = @ - k, !.due = @ + k,
                     !.cell = h.index[(pos + 1) % h.capacity]]

\* Block::set_empty or set_many_empty: the count of elements out of the block; the
\* consumer that brings it to BLOCK_SIZE frees the block.
set_many_empty(c) ==
  LET d == de[c]
      k == InBlock(d)
  IN  /\ d.pc = "empty"
      /\ done' = [done EXCEPT ![d.block] = @ + k]
      /\ Become(c, IF done[d.block] + k = BLOCK_SIZE THEN [d EXCEPT !.pc = "unlink"]
                   ELSE NextBlock(c))
      /\ UNCHANGED <<quiet, prod, cell, slots, memory, claimed>>

\* Wrong: the block is on the free list before its entry lets go of it.
freeThenUnlink(c) ==
  /\ de[c].pc = "unlink"
  /\ freeList' = freeList \cup {de[c].block}
  /\ Become(c, [de[c] EXCEPT !.pc = "free"])
  /\ UNCHANGED <<quiet, prod, cell, slots, done, pool, heap, claimed>>

\* The entry lets go of the block,
UnlinkBlock(c) ==
  /\ de[c].pc = "unlink"
  /\ cell' = [cell EXCEPT ![de[c].p][de[c].cell].value = None]
  /\ Become(c, [de[c] EXCEPT !.pc = "free"])
  /\ UNCHANGED <<quiet, prod, slots, done, memory, claimed>>

\* and only then the block is on the free list.
add_block_to_free_list(c) ==
  /\ de[c].pc = "free"
  /\ freeList' = freeList \cup {de[c].block}
  /\ Become(c, NextBlock(c))
  /\ UNCHANGED <<quiet, prod, cell, slots, done, pool, heap, claimed>>

DequeueStep(c) ==
  \/ LookAtProducer(c) \/ ClaimCount(c) \/ ConfirmClaim(c) \/ GiveBackSurplus(c)
  \/ TakeHead(c) \/ LoadIndexTail(c) \/ FindEntry(c) \/ MoveOut(c)
  \/ set_many_empty(c) \/ UnlinkBlock(c) \/ add_block_to_free_list(c)

EnqueueStep(p) ==
  \/ add_producer(p) \/ InsertEntry(p) \/ AdvanceTail(p)
  \/ TakeBlock(p) \/ UndoEnqueue(p) \/ FillBlocks(p) \/ PublishTail(p)

-----------------------------------------------------------------------------
(* Construction and destruction.                                           *)

\* A new queue: no producer, the blocks in the pool.  The elements of p are numbered
\* from quota[p] up to MaxItems.
QueueInit(quota) ==
  /\ producerList = <<>>
  /\ prod = [p \in Producer |-> ProducerBase(0, None)]
  /\ headers = [p \in Producer |-> <<>>]
  /\ cell = [p \in Producer |-> <<>>]
  /\ slots = [b \in Block |-> [o \in Offset |-> NoElement]]
  /\ done = [b \in Block |-> 0]
  /\ pool = Pool /\ freeList = {} /\ heap = Heap
  /\ en = [p \in Producer |-> Idle]
  /\ de = [c \in Consumer |-> Idle]
  /\ sent = quota
  /\ claimed = quota

\* ~ImplicitProducer: the blocks it puts on the free list, in order.  The loop frees a
\* block on leaving it, the last one is freed as tailBlock.
DestroyedBlocks(p) ==
  LET d == prod[p]
      n == BlocksNeeded(d.headIndex, size_approx(p))
             + (IF Slot(d.headIndex) # 0 /\ size_approx(p) > 0 THEN 1 ELSE 0)
      At(k) == cell[p][get_block_index_index_for_index(
                          Header(p), Header(p).tail, cell[p][LastCell(p)].key,
                          Wrap(Base(d.headIndex) + BLOCK_SIZE * (k - 1)))].value
  IN  [k \in 1 .. n - 1 |-> At(k)]
        \o (IF d.tailBlock # None /\ (d.headIndex # d.tailIndex \/ Slot(d.tailIndex) # 0)
            THEN <<d.tailBlock>> ELSE <<>>)
=============================================================================
