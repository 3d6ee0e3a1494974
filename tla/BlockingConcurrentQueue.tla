----------------------- MODULE BlockingConcurrentQueue -----------------------
(***************************************************************************)
(* submodules/concurrentqueue/blockingconcurrentqueue.h: the lock-free     *)
(* queue "inner" and the semaphore "sema" that counts its elements.  This  *)
(* is the type of ConnectionQueue::_mq, through which rpc/RpcFrame hands   *)
(* connections to the workers and back.                                    *)
(***************************************************************************)
EXTENDS ConcurrentQueue, LightweightSemaphore

CONSTANTS Bulk,         \* the counts of the bulk operations
          MaxGets,      \* bound: calls of a consumer
          MaxPuts       \* bound: calls of a producer

VARIABLES
  outer,            \* a consumer's call: bulk or not, elements it has received
  gets, puts,       \* calls made
  destroyed         \* what ~ConcurrentQueue freed

vars == <<queueVars, semaVars, outer, gets, puts, destroyed>>

Alive == destroyed = <<"no">>

CallsInit ==
  /\ outer = [c \in Consumer |-> [bulk |-> FALSE, have |-> 0]]
  /\ gets = [c \in Consumer |-> 0]
  /\ puts = [p \in Producer |-> 0]
  /\ destroyed = <<"no">>

Init == QueueInit([p \in Producer |-> 0]) /\ SemaInit /\ CallsInit

-----------------------------------------------------------------------------
(* inner.enqueue...(), then sema->signal() if it succeeded.                *)

Put(p, n, canAlloc) ==
  /\ Alive /\ owed[p] = 0 /\ puts[p] < MaxPuts
  /\ StartEnqueue(p, n, canAlloc)
  /\ puts' = [puts EXCEPT ![p] = @ + 1]
  /\ UNCHANGED <<semaVars, outer, gets, destroyed>>

enqueue(p) == Put(p, 1, TRUE)
try_enqueue(p) == Put(p, 1, FALSE)
enqueue_bulk(p, n) == Put(p, n, TRUE)
try_enqueue_bulk(p, n) == Put(p, n, FALSE)

InnerEnqueue(p) ==
  EnqueueStep(p) /\ UNCHANGED <<semaVars, outer, gets, puts, destroyed>>

Signal(p, n) ==
  /\ en[p].pc = "published"
  /\ signal(p, n)
  /\ Step(p, Idle)
  /\ UNCHANGED <<producerList, prod, headers, cell, slots, done, memory, de, sent,
                 claimed, outer, gets, puts, destroyed>>

\* Wrong: one signal for a whole bulk.
signalOnce(p) == Signal(p, 1)

\* Wrong: one signal too many.
signalTooMany(p) == Signal(p, en[p].count + 1)

SignalElements(p) == Signal(p, en[p].count)

PostElements(p) == post(p) /\ UNCHANGED <<queueVars, outer, gets, puts, destroyed>>

-----------------------------------------------------------------------------
(* sema->wait...(), then inner.try_dequeue...() until it has as many as    *)
(* the semaphore granted.                                                  *)

Get(c, bulk, max, limit) ==
  /\ Alive /\ gets[c] < MaxGets
  /\ Enter(c, max, limit)
  /\ outer' = [outer EXCEPT ![c] = [bulk |-> bulk, have |-> 0]]
  /\ gets' = [gets EXCEPT ![c] = @ + 1]
  /\ UNCHANGED <<queueVars, puts, destroyed>>

try_dequeue(c) == Get(c, FALSE, 1, "try")
try_dequeue_bulk(c, n) == Get(c, TRUE, n, "try")
wait_dequeue(c) == Get(c, FALSE, 1, "ever")
wait_dequeue_timed(c) == \E limit \in {"zero", "timed"} : Get(c, FALSE, 1, limit)
wait_dequeue_bulk(c, n) == Get(c, TRUE, n, "ever")
wait_dequeue_bulk_timed(c, n) == \E limit \in {"zero", "timed"} : Get(c, TRUE, n, limit)

SemaStep(c) == WaitStep(c) /\ UNCHANGED <<queueVars, outer, gets, puts, destroyed>>
TimeOut(c) == timed_out(c) /\ UNCHANGED <<queueVars, outer, gets, puts, destroyed>>

InnerCall(c) ==
  /\ wait[c].pc = "in" /\ outer[c].have < wait[c].got
  /\ StartDequeue(c, outer[c].bulk, wait[c].got - outer[c].have)
  /\ UNCHANGED <<semaVars, outer, gets, puts, destroyed>>

InnerDequeue(c) ==
  DequeueStep(c) /\ UNCHANGED <<semaVars, outer, gets, puts, destroyed>>

\* An inner call is over; so is the outer one if that was all it has a right to.
InnerReturn(c) ==
  LET n == outer[c].have + Len(de[c].got)
  IN  /\ de[c].pc = "scan" /\ (de[c].todo = <<>> \/ Len(de[c].got) = de[c].max)
      /\ Become(c, Idle)
      /\ IF n = wait[c].got THEN outer' = [outer EXCEPT ![c].have = 0] /\ Leave(c)
         ELSE outer' = [outer EXCEPT ![c].have = n] /\ UNCHANGED semaVars
      /\ UNCHANGED <<quiet, prod, cell, slots, done, memory, claimed, gets, puts, destroyed>>

\* Nothing acquired: the call returns false or 0.
ReturnEmpty(c) ==
  /\ wait[c].got = 0
  /\ Leave(c)
  /\ UNCHANGED <<queueVars, outer, gets, puts, destroyed>>

-----------------------------------------------------------------------------
\* ~ConcurrentQueue, with no call in progress: the producers give up their blocks,
\* newest producer first; the heap blocks on the free list and the pool are deleted.
destroy ==
  /\ Alive
  /\ \A p \in Producer : en[p].pc = "idle" /\ owed[p] = 0
  /\ \A c \in Consumer : wait[c].pc = "out"
  /\ LET freed == FlattenSeq([i \in DOMAIN producerList |->
                                DestroyedBlocks(producerList[i])])
     IN  /\ destroyed' = freed \o SetToSeq(freeList)
         /\ freeList' = freeList \cup Range(freed)
  /\ UNCHANGED <<producerList, prod, headers, cell, slots, done, pool, heap, en, de,
                 sent, claimed, semaVars, outer, gets, puts>>

ProducerStep(p) == InnerEnqueue(p) \/ SignalElements(p) \/ PostElements(p)

ConsumerStep(c) ==
  SemaStep(c) \/ InnerCall(c) \/ InnerDequeue(c) \/ InnerReturn(c) \/ ReturnEmpty(c)

Next ==
  \/ \E p \in Producer :
       \/ enqueue(p) \/ try_enqueue(p) \/ ProducerStep(p)
       \/ \E n \in Bulk : enqueue_bulk(p, n) \/ try_enqueue_bulk(p, n)
  \/ \E c \in Consumer :
       \/ try_dequeue(c) \/ wait_dequeue(c) \/ wait_dequeue_timed(c)
       \/ \E n \in Bulk : \/ try_dequeue_bulk(c, n) \/ wait_dequeue_bulk(c, n)
                          \/ wait_dequeue_bulk_timed(c, n)
       \/ TimeOut(c) \/ ConsumerStep(c)
  \/ destroy

Spec == Init /\ [][Next]_vars

-----------------------------------------------------------------------------
(* Properties.                                                             *)

\* What a consumer has taken out is, element for element, what its headIndex.fetch_add
\* promised it: the elements of the sub-queue in the order they were enqueued, each to
\* one consumer.  The block it looks up is the one of its index (the assertion in
\* get_block_index_index_for_index), whatever the index's growth, reuse and wrap.
ElementsInOrder ==
  \A c \in Consumer : de[c].pc \in {"move", "empty", "unlink", "free"} =>
    LET d == de[c]
    IN  /\ d.pc = "move" => /\ cell[d.p][d.cell].key = Base(d.i)
                            /\ cell[d.p][d.cell].value # None
        /\ d.pc # "move" =>
             \A j \in 1 .. InBlock(d) :
               d.got[Len(d.got) - InBlock(d) + j] = <<d.p, d.due + j - 1>>

\* Whoever is let past the semaphore finds its elements in the queue: rights given out
\* and still to be given never exceed the elements nobody has been promised, so
\* "while (!inner.try_dequeue(item)) continue" is no endless loop.
RightsBacked ==
  LET Rights(c) == wait[c].got - outer[c].have
                     - (IF de[c].pc = "idle" THEN 0 ELSE Len(de[c].got))
                     - (IF de[c].pc \in {"index", "find", "move"} THEN de[c].n
                        ELSE IF de[c].pc \in {"empty", "unlink", "free"}
                        THEN de[c].n - InBlock(de[c]) ELSE 0)
  IN  FoldFunction(+, 0, [c \in Consumer |-> Rights(c)])
        + m_sema + FoldFunction(+, 0, owed) + availableApprox
      <= FoldFunction(+, 0, sent) - FoldFunction(+, 0, claimed)

\* A block is at one place: in the pool, on the free list, not yet made, or in one
\* sub-queue; and the destructor frees each block that was taken exactly once.
InUse(p) == {cell[p][i].value : i \in {j \in DOMAIN cell[p] :
                cell[p][j].key # INVALID_BLOCK_BASE}} \ {None}
BlocksOwned ==
  /\ Alive => \A p \in Producer : InUse(p) \cap (pool \cup freeList \cup heap) = {}
  /\ \A p, q \in Producer : p # q => InUse(p) \cap InUse(q) = {}
  /\ ~Alive => /\ IsInjective(destroyed)
               /\ Range(destroyed) = Block \ (pool \cup heap)

\* Nobody sleeps beside elements that nobody is going to take: once every producer is
\* out of its call and every consumer is out of its call or asleep with no post to
\* wake it, either no consumer sleeps or every element has been taken.
NobodyForgotten ==
  (/\ \A p \in Producer : en[p].pc = "idle" /\ owed[p] = 0
   /\ \A c \in Consumer : wait[c].pc \in {"out", "asleep"}
   /\ m_sema = 0)
  => \/ \A c \in Consumer : wait[c].pc = "out"
     \/ \A p \in Producer : claimed[p] = sent[p]
=============================================================================
