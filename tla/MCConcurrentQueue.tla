-------------------------- MODULE MCConcurrentQueue --------------------------
(***************************************************************************)
(* The queue from three starting points, with two producers and two        *)
(* consumers:                                                              *)
(*   - a new one, into which one thread enqueues;                          *)
(*   - one with three elements in its two blocks, indices about to wrap    *)
(*     and block index full, so that the next block makes it grow;         *)
(*   - one with two elements in one sub-queue and none in the other, for   *)
(*     consumers that claim more from a sub-queue than it has.             *)
(* The elements that are there at the start have the numbers before those  *)
(* still to come, which end at MaxItems.                                   *)
(*                                                                         *)
(* The two parts that the queue's model takes as atomic, the free list and *)
(* the hash table of producers, are checked step by step beside it: a      *)
(* behaviour is one of the queue, one of the free list or one of the hash  *)
(* table, as "subject" says, and leaves the variables of the others alone. *)
(***************************************************************************)
EXTENDS BlockingConcurrentQueue

CONSTANTS Active, Other         \* Producer = {Active, Other}

Elements(n, unused) ==           \* n elements in the queue, nobody in a call
  /\ m_count = n /\ m_sema = 0
  /\ wait = [t \in Waiter |-> Outside]
  /\ owed = [t \in Signaller |-> 0]
  /\ en = [q \in Producer |-> Idle]
  /\ de = [c \in Consumer |-> Idle]
  /\ pool = unused /\ freeList = {} /\ heap = Heap
  /\ CallsInit

Quota == [q \in Producer |-> IF q = Active THEN 0 ELSE MaxItems]

NewQueue == QueueInit(Quota) /\ SemaInit /\ CallsInit

FullIndex ==
  LET b == SetToSeq(Pool)
      start == IndexMod - 3
  IN  /\ producerList = <<Active>>
      /\ prod = [q \in Producer |->
                   IF q = Active THEN [ProducerBase(start, b[2]) EXCEPT !.tailIndex = 0]
                   ELSE ProducerBase(0, None)]
      /\ headers = [q \in Producer |->
                      IF q = Active THEN <<[first_block_index EXCEPT !.tail = 1]>>
                      ELSE <<>>]
      /\ cell = [q \in Producer |->
                   IF q = Active THEN <<[key |-> start - 1, value |-> b[1]],
                                        [key |-> start + 1, value |-> b[2]]>>
                   ELSE <<>>]
      /\ slots = [x \in Block |-> [o \in Offset |->
                    IF x = b[1] /\ o = 1 THEN <<Active, -2>>
                    ELSE IF x = b[2] THEN <<Active, o - 1>> ELSE NoElement]]
      /\ done = [x \in Block |-> IF x = b[1] THEN 1 ELSE 0]
      /\ sent = Quota
      /\ claimed = [Quota EXCEPT ![Active] = -3]
      /\ Elements(3, {})

TwoProducers ==
  LET b == CHOOSE x \in Pool : TRUE
  IN  /\ producerList = <<Active, Other>>
      /\ prod = [q \in Producer |->
                   IF q = Active THEN ProducerBase(0, None)
                   ELSE [ProducerBase(0, b) EXCEPT !.tailIndex = 2]]
      /\ headers = [q \in Producer |->
                      <<[first_block_index EXCEPT !.tail = IF q = Active THEN 1 ELSE 0]>>]
      /\ cell = [q \in Producer |->
                   IF q = Active THEN Fresh(2)
                   ELSE <<[key |-> 0, value |-> b], Fresh(1)[1]>>]
      /\ slots = [x \in Block |-> [o \in Offset |->
                    IF x = b THEN <<Other, MaxItems + o - 1>> ELSE NoElement]]
      /\ done = [x \in Block |-> 0]
      /\ sent = [q \in Producer |-> IF q = Active THEN MaxItems - 1 ELSE MaxItems]
      /\ claimed = [q \in Producer |-> IF q = Active THEN MaxItems - 1 ELSE MaxItems - 2]
      /\ Elements(2, Pool \ {b})

-----------------------------------------------------------------------------
CONSTANTS Thread, Node, FirstHash, SecondHash

VARIABLES
  subject,
  freeListHead, freeListRefs, freeListNext, owned, run,
  tables, implicitProducerHashCount, implicitProducerHashResizeInProgress, call,
  result, producers, hashCalls

\* Two threads of three collide; the third is hashed next to them.
hash(t) == IF t = FirstHash THEN 3 ELSE IF t = SecondHash THEN 3 ELSE 4

List == INSTANCE FreeList
Hash == INSTANCE ProducerHash WITH
          hash_thread_id <- hash, INITIAL_IMPLICIT_PRODUCER_HASH_SIZE <- 4,
          MaxCalls <- 2, calls <- hashCalls

listVars == <<freeListHead, freeListRefs, freeListNext, owned, run>>
hashVars == <<tables, implicitProducerHashCount, implicitProducerHashResizeInProgress,
              call, result, producers, hashCalls>>
mcVars == <<vars, listVars, hashVars, subject>>

NoList ==
  /\ freeListHead = "nullptr" /\ freeListRefs = <<>> /\ freeListNext = <<>>
  /\ owned = <<>> /\ run = <<>>

MCInit ==
  \/ /\ subject = "queue" /\ NoList /\ Hash!Init
     /\ NewQueue \/ FullIndex \/ TwoProducers
  \/ subject = "list" /\ List!Init /\ Hash!Init /\ NewQueue
  \/ subject = "hash" /\ NoList /\ Hash!Init /\ NewQueue

MCNext ==
  \/ subject = "queue" /\ Next /\ UNCHANGED <<listVars, hashVars, subject>>
  \/ subject = "list" /\ List!Next /\ UNCHANGED <<vars, hashVars, subject>>
  \/ subject = "hash" /\ Hash!Next /\ UNCHANGED <<vars, listVars, subject>>

MCSpec == MCInit /\ [][MCNext]_mcVars

\* FreeList!NodesKept, of the behaviours that are the free list's.
NodesKept == subject = "list" => List!NodesKept

\* ProducerHash!OwnProducer, of the behaviours that are the hash table's.
OwnProducer == subject = "hash" => Hash!OwnProducer

ConsumerSymmetry == Permutations(Consumer)
=============================================================================
