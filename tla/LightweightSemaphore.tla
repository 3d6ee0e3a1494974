------------------------ MODULE LightweightSemaphore ------------------------
(***************************************************************************)
(* submodules/concurrentqueue/lightweightsemaphore.h: a semaphore that     *)
(* counts in an atomic word and goes to a kernel semaphore (sem_t) only to *)
(* sleep.  m_count below zero is the number of threads that have gone, or  *)
(* are going, to sleep and have not been signalled.                        *)
(*                                                                         *)
(* One step is one atomic operation that can change something; a           *)
(* compare_exchange loop is the step of the exchange that succeeds.  The   *)
(* one-at-a-time and the many-at-a-time functions differ in "ask" only.    *)
(***************************************************************************)
EXTENDS Integers, FiniteSets

CONSTANT Waiter,        \* threads that call wait, tryWait, waitMany, tryWaitMany
         Signaller      \* threads that call signal

VARIABLES
  m_count, m_sema,
  wait,                 \* [Waiter -> Call], below
  owed                  \* posts that a thread in signal() has still to make

semaVars == <<m_count, m_sema, wait, owed>>

\* A call of a waiter: how many it asks for, how long it waits ("try": not at
\* all, "zero": it gives up at once after the spinning, "timed": until a
\* timeout, "ever") and how many it got.
Call == [pc : {"out", "try", "spin", "asleep", "expired", "retry", "more", "in"},
         ask : Nat, limit : {"try", "zero", "timed", "ever"}, got : Nat]

Outside == [pc |-> "out", ask |-> 0, limit |-> "try", got |-> 0]

SemaInit ==
  /\ m_count = 0 /\ m_sema = 0
  /\ wait = [t \in Waiter |-> Outside]
  /\ owed = [t \in Signaller |-> 0]

\* A call that has its result: how it came to it is forgotten.
Finished(n) == [Outside EXCEPT !.pc = "in", !.got = n]

Goto(t, from, to) ==
  /\ wait[t].pc = from
  /\ wait' = [wait EXCEPT ![t] = IF to = "in" THEN Finished(@.got)
                                 ELSE [@ EXCEPT !.pc = to]]

\* What one exchange takes: as many as there are, at most max.
Greedy(max) == IF m_count > max THEN max ELSE m_count

Acquire(t, n, to) ==
  wait' = [wait EXCEPT ![t] = IF to = "in" THEN Finished(@.got + n)
                              ELSE [@ EXCEPT !.pc = to, !.got = @ + n]]

\* The caller, and the first thing it does: tryWait or tryWaitMany.
Enter(t, max, limit) ==
  /\ wait[t].pc = "out"
  /\ wait' = [wait EXCEPT ![t] = [pc |-> "try", ask |-> max, limit |-> limit,
                                  got |-> 0]]
  /\ UNCHANGED <<m_count, m_sema, owed>>

tryWaitMany(t) ==
  /\ wait[t].pc = "try"
  /\ IF m_count > 0
     THEN /\ m_count' = m_count - Greedy(wait[t].ask)
          /\ Acquire(t, Greedy(wait[t].ask), "in")
     ELSE /\ Goto(t, "try", IF wait[t].limit = "try" THEN "in" ELSE "spin")
          /\ UNCHANGED m_count
  /\ UNCHANGED <<m_sema, owed>>

\* The spinning finds the count above zero.
spin(t) ==
  /\ wait[t].pc = "spin" /\ m_count > 0
  /\ m_count' = m_count - Greedy(wait[t].ask)
  /\ Acquire(t, Greedy(wait[t].ask), "in")
  /\ UNCHANGED <<m_sema, owed>>

More(t) == IF wait[t].ask > 1 THEN "more" ELSE "in"

\* The spinning is over: m_count.fetch_sub(1), and sleep if there was nothing.
fetch_sub(t) ==
  /\ wait[t].pc = "spin"
  /\ m_count' = m_count - 1
  /\ IF m_count > 0 THEN Acquire(t, 1, More(t))
     ELSE Goto(t, "spin", IF wait[t].limit = "zero" THEN "expired" ELSE "asleep")
  /\ UNCHANGED <<m_sema, owed>>

\* Semaphore::wait or timed_wait returns true.
sema_wait(t) ==
  /\ wait[t].pc = "asleep" /\ m_sema > 0
  /\ m_sema' = m_sema - 1
  /\ Acquire(t, 1, More(t))
  /\ UNCHANGED <<m_count, owed>>

\* Semaphore::timed_wait returns false.
timed_out(t) ==
  /\ wait[t].limit = "timed"
  /\ Goto(t, "asleep", "expired")
  /\ UNCHANGED <<m_count, m_sema, owed>>

\* Timed out: below zero nobody has signalled for this thread and the count is
\* put back; otherwise a post is there or on its way, for this thread to take.
readjust(t) ==
  /\ IF m_count < 0 THEN Goto(t, "expired", "in") /\ m_count' = m_count + 1
     ELSE Goto(t, "expired", "retry") /\ UNCHANGED m_count
  /\ UNCHANGED <<m_sema, owed>>

\* Semaphore::try_wait, after a look at m_count that found it at zero or above.
try_wait(t) ==
  /\ wait[t].pc = "retry"
  /\ \/ m_sema > 0 /\ m_sema' = m_sema - 1 /\ Acquire(t, 1, More(t))
     \/ m_sema = 0 /\ Goto(t, "retry", "expired") /\ UNCHANGED m_sema
  /\ UNCHANGED <<m_count, owed>>

\* waitManyWithPartialSpinning, having one: 1 + tryWaitMany(max - 1).
wait_more(t) ==
  /\ wait[t].pc = "more"
  /\ LET n == IF m_count > 0 THEN Greedy(wait[t].ask - 1) ELSE 0
     IN  m_count' = m_count - n /\ Acquire(t, n, "in")
  /\ UNCHANGED <<m_sema, owed>>

\* The caller has the result and goes on.
Leave(t) ==
  /\ wait[t].pc = "in"
  /\ wait' = [wait EXCEPT ![t] = Outside]
  /\ UNCHANGED <<m_count, m_sema, owed>>

\* signal(n): add to the count, and owe a post to each sleeper it reaches.
signal(s, n) ==
  /\ owed[s] = 0
  /\ m_count' = m_count + n
  /\ owed' = [owed EXCEPT ![s] = IF m_count >= 0 THEN 0
                                 ELSE IF -m_count < n THEN -m_count ELSE n]
  /\ UNCHANGED <<m_sema, wait>>

\* One sem_post of Semaphore::signal.
post(s) ==
  /\ owed[s] > 0
  /\ m_sema' = m_sema + 1
  /\ owed' = [owed EXCEPT ![s] = @ - 1]
  /\ UNCHANGED <<m_count, wait>>

\* What availableApprox returns.
availableApprox == IF m_count > 0 THEN m_count ELSE 0

\* The steps of a waiter that nothing has to happen for.
WaitStep(t) ==
  \/ tryWaitMany(t) \/ spin(t) \/ fetch_sub(t) \/ sema_wait(t) \/ readjust(t)
  \/ try_wait(t) \/ wait_more(t)
=============================================================================
