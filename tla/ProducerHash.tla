---------------------------- MODULE ProducerHash ----------------------------
(***************************************************************************)
(* submodules/concurrentqueue/concurrentqueue.h,                           *)
(* get_or_add_implicit_producer: the lock-free, growing hash table from    *)
(* thread ids to sub-queues, asked by every enqueue without a token.  Old  *)
(* tables stay behind the current one; a thread found only in an old one   *)
(* is put into the current one.  (thread_local support is off in this      *)
(* build, so entries are never removed and sub-queues never recycled.)     *)
(*                                                                         *)
(* A search for the thread's own id is one step: only the thread itself    *)
(* puts it in, and no slot before it becomes empty.  So is an insertion:   *)
(* the exchange succeeds on the first slot that is empty by then.          *)
(***************************************************************************)
EXTENDS Integers, Sequences, FiniteSets

CONSTANTS Thread,
          hash_thread_id(_),                    \* of a thread
          INITIAL_IMPLICIT_PRODUCER_HASH_SIZE,
          MaxCalls                              \* bound: calls of a thread

VARIABLES
  tables,       \* every ImplicitProducerHash, oldest first; the last is the current
  implicitProducerHashCount, implicitProducerHashResizeInProgress,
  call,         \* a thread's place, its mainHash (number of a table), its newCount
  result,       \* the sub-queues a thread's calls have returned
  producers,    \* how many sub-queues there are
  calls

vars == <<tables, implicitProducerHashCount, implicitProducerHashResizeInProgress,
          call, result, producers, calls>>

Nobody == "invalid_thread_id"
Table(n) == [i \in 0 .. n - 1 |-> [key |-> Nobody, value |-> 0]]
Capacity(h) == Cardinality(DOMAIN tables[h])
Idle == [pc |-> "idle"]

Init ==
  /\ tables = <<Table(INITIAL_IMPLICIT_PRODUCER_HASH_SIZE)>>
  /\ implicitProducerHashCount = 0
  /\ implicitProducerHashResizeInProgress = FALSE
  /\ call = [t \in Thread |-> Idle]
  /\ result = [t \in Thread |-> {}]
  /\ producers = 0
  /\ calls = [t \in Thread |-> 0]

\* Linear probing from the hashed id: the first slot with one of these keys.
Probe(t, h, keys) ==
  LET At(k) == (hash_thread_id(t) + k) % Capacity(h)
      hits == {k \in 0 .. Capacity(h) - 1 : tables[h][At(k)].key \in keys}
  IN  IF hits = {} THEN -1 ELSE At(CHOOSE k \in hits : \A j \in hits : k <= j)

Holds(t, h) ==
  LET i == Probe(t, h, {t, Nobody}) IN i # -1 /\ tables[h][i].key = t

Put(t, h, value) ==
  tables' = [tables EXCEPT ![h][Probe(t, h, {Nobody})] = [key |-> t, value |-> value]]

Go(t, f) == call' = [call EXCEPT ![t] = f]
Return(t, value) == Go(t, Idle) /\ result' = [result EXCEPT ![t] = @ \cup {value}]

\* Wrong: only the current table is searched.
searchCurrentOnly(t) ==
  LET main == Len(tables)
  IN  /\ call[t].pc = "idle" /\ calls[t] < MaxCalls
      /\ calls' = [calls EXCEPT ![t] = @ + 1]
      /\ IF Holds(t, main) THEN Return(t, tables[main][Probe(t, main, {t})].value)
         ELSE Go(t, [pc |-> "count", main |-> main]) /\ UNCHANGED result
      /\ UNCHANGED <<tables, implicitProducerHashCount,
                     implicitProducerHashResizeInProgress, producers>>

\* The search through the current table and those behind it.
get_or_add_implicit_producer(t) ==
  LET main == Len(tables)
      found == {h \in 1 .. main : Holds(t, h)}
      deep == CHOOSE h \in found : \A g \in found : g <= h
      value == tables[deep][Probe(t, deep, {t})].value
  IN  /\ call[t].pc = "idle" /\ calls[t] < MaxCalls
      /\ calls' = [calls EXCEPT ![t] = @ + 1]
      /\ IF found = {} THEN Go(t, [pc |-> "count", main |-> main]) /\ UNCHANGED result
         ELSE IF deep = main THEN Return(t, value)
         ELSE Go(t, [pc |-> "move", main |-> main, value |-> value]) /\ UNCHANGED result
      /\ UNCHANGED <<tables, implicitProducerHashCount,
                     implicitProducerHashResizeInProgress, producers>>

\* Found behind the current table: added to it, without a new count.
MoveUp(t) ==
  /\ call[t].pc = "move"
  /\ Put(t, call[t].main, call[t].value)
  /\ Return(t, call[t].value)
  /\ UNCHANGED <<implicitProducerHashCount, implicitProducerHashResizeInProgress,
                 producers, calls>>

\* implicitProducerHashCount.fetch_add.
CountIn(t) ==
  /\ call[t].pc = "count"
  /\ implicitProducerHashCount' = implicitProducerHashCount + 1
  /\ Go(t, [pc |-> "test", main |-> call[t].main,
            newCount |-> implicitProducerHashCount + 1])
  /\ UNCHANGED <<tables, implicitProducerHashResizeInProgress, result, producers, calls>>

HalfFull(n, h) == n >= Capacity(h) \div 2

\* Half full: whoever gets the flag makes a larger table.
TestAndSet(t) ==
  /\ call[t].pc = "test"
  /\ IF HalfFull(call[t].newCount, call[t].main) /\ ~implicitProducerHashResizeInProgress
     THEN /\ implicitProducerHashResizeInProgress' = TRUE
          /\ Go(t, [call[t] EXCEPT !.pc = "resize", !.main = Len(tables)])
     ELSE Go(t, [call[t] EXCEPT !.pc = "room"])
            /\ UNCHANGED implicitProducerHashResizeInProgress
  /\ UNCHANGED <<tables, implicitProducerHashCount, result, producers, calls>>

NewCapacity(n, capacity) ==
  CHOOSE c \in {capacity * 2, capacity * 4, capacity * 8} :
    /\ n < c \div 2
    /\ \A d \in {capacity * 2, capacity * 4, capacity * 8} : n < d \div 2 => c <= d

\* A new table, or no memory for it; if the table has grown meanwhile, nothing.
Resize(t) ==
  LET c == call[t]
  IN  /\ c.pc = "resize"
      /\ \/ /\ HalfFull(c.newCount, c.main)
            /\ tables' = Append(tables, Table(NewCapacity(c.newCount, Capacity(c.main))))
            /\ Go(t, [c EXCEPT !.pc = "clear", !.main = Len(tables) + 1])
            /\ UNCHANGED implicitProducerHashCount
         \/ /\ HalfFull(c.newCount, c.main)
            /\ implicitProducerHashCount' = implicitProducerHashCount - 1
            /\ Go(t, [pc |-> "giveup"])
            /\ UNCHANGED tables
         \/ /\ ~HalfFull(c.newCount, c.main)
            /\ Go(t, [c EXCEPT !.pc = "clear"])
            /\ UNCHANGED <<tables, implicitProducerHashCount>>
      /\ UNCHANGED <<implicitProducerHashResizeInProgress, result, producers, calls>>

ClearFlag(t) ==
  /\ call[t].pc \in {"clear", "giveup"}
  /\ implicitProducerHashResizeInProgress' = FALSE
  /\ Go(t, IF call[t].pc = "giveup" THEN Idle ELSE [call[t] EXCEPT !.pc = "room"])
  /\ UNCHANGED <<tables, implicitProducerHashCount, result, producers, calls>>

\* Less than three quarters full: create the sub-queue and insert here.  Otherwise wait
\* for the thread that makes the next table.
FindRoom(t) ==
  LET c == call[t]
      cap == Capacity(c.main)
  IN  /\ c.pc = "room"
      /\ \/ /\ c.newCount < cap \div 2 + cap \div 4
            /\ producers' = producers + 1
            /\ Go(t, [pc |-> "put", main |-> c.main, value |-> producers + 1])
            /\ UNCHANGED implicitProducerHashCount
         \/ /\ c.newCount < cap \div 2 + cap \div 4     \* create failed
            /\ implicitProducerHashCount' = implicitProducerHashCount - 1
            /\ Go(t, Idle)
            /\ UNCHANGED producers
         \/ /\ ~(c.newCount < cap \div 2 + cap \div 4)
            /\ Go(t, [c EXCEPT !.pc = "test", !.main = Len(tables)])
            /\ UNCHANGED <<implicitProducerHashCount, producers>>
      /\ UNCHANGED <<tables, implicitProducerHashResizeInProgress, result, calls>>

Insert(t) ==
  /\ call[t].pc = "put"
  /\ Put(t, call[t].main, call[t].value)
  /\ Return(t, call[t].value)
  /\ UNCHANGED <<implicitProducerHashCount, implicitProducerHashResizeInProgress,
                 producers, calls>>

Next ==
  \E t \in Thread :
    \/ get_or_add_implicit_producer(t) \/ MoveUp(t) \/ CountIn(t) \/ TestAndSet(t)
    \/ Resize(t) \/ ClearFlag(t) \/ FindRoom(t) \/ Insert(t)

Spec == Init /\ [][Next]_vars

-----------------------------------------------------------------------------
(* Properties.                                                             *)

\* A thread always gets the same sub-queue, its own: two threads never share one (an
\* ImplicitProducer's enqueue is written for a single writer).  And the loops that probe
\* for an empty slot find one ("Not an infinite loop because at least one slot is free
\* in the hash table").
OwnProducer ==
  /\ \A t \in Thread : Cardinality(result[t]) <= 1
  /\ \A t, u \in Thread : t # u => result[t] \cap result[u] = {}
  /\ \A h \in DOMAIN tables : \E i \in DOMAIN tables[h] : tables[h][i].key = Nobody
=============================================================================
