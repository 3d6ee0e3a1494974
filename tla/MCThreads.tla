----------------------------- MODULE MCThreads -----------------------------
(***************************************************************************)
(* Finite instances of the two owners of threads, ThreadPool and           *)
(* EventLoopThread; a behaviour is of one of them.                         *)
(*                                                                         *)
(* The pool: with two threads and two callers one of each may wait while   *)
(* the other passes; a limit of 1 is reached by the first task and lets    *)
(* both callers wait, four tasks fill and empty the queue more than once.  *)
(*                                                                         *)
(* The loop's thread: its owner, one more thread that posts, and two       *)
(* functors (one for the init callback or a callback, one for the poster). *)
(***************************************************************************)
EXTENDS ThreadPool

CONSTANTS t1, t2, c1, c2, k1, k2, k3, k4, owner, f1, f2

VARIABLES
  subject,
  m_looping, m_quit, m_callingPendingFunctors, m_pendingFunctors, functors, wakeupFd,
  m_activeChannels, ready, loopPc, posterPc, aborted, early, order, ran,
  p_loop, threadPc, ownerPc

lVars == <<m_looping, m_quit, m_callingPendingFunctors, m_pendingFunctors, functors,
           wakeupFd, m_activeChannels, ready, loopPc, posterPc, aborted, early,
           order, ran, p_loop, threadPc, ownerPc>>

MCThread == {t1, t2}
MCCaller == {c1, c2}
MCTask == {k1, k2, k3, k4}

L == INSTANCE EventLoopThread WITH
       Thread <- {owner, t1}, Functor <- {f1, f2}, Channel <- {c1},
       EventfdMax <- 2, Owner <- owner, pc <- posterPc

MCInit ==
  /\ Init /\ L!ThreadInit
  /\ \/ subject = "loop"
     \/ subject = "pool" /\ ~m_quit

MCNext ==
  \/ subject = "pool" /\ Next /\ UNCHANGED <<lVars, subject>>
  \/ subject = "loop" /\ L!ThreadNext /\ UNCHANGED <<vars, subject>>

Pool == subject = "pool" /\ UNCHANGED <<lVars, subject>>
Loop == subject = "loop" /\ ~aborted /\ UNCHANGED <<vars, subject>>

\* The fairness of ThreadPool's FairSpec and of EventLoopThread's ThreadSpec.
MCSpec ==
  /\ MCInit /\ [][MCNext]_<<vars, lVars, subject>>
  /\ \A t \in Thread : WF_vars(ThreadStep(t) /\ Pool)
  /\ \A c \in Caller : WF_vars(CallerStep(c) /\ Pool)
  /\ WF_vars(Join /\ Pool)
  /\ WF_lVars(L!ThreadStep /\ Loop)
  /\ WF_lVars(L!OwnerStep /\ Loop)
  /\ WF_lVars(L!FinishCall(t1) /\ UNCHANGED <<p_loop, threadPc, ownerPc>> /\ Loop)

\* EventLoopThread's property of its destructor.
OwnerOutlivesThread == L!OwnerOutlivesThread

\* No call waits for ever: run() and stop() of the pool return, startLoop() and the
\* destructor of EventLoopThread return.
NobodyStuck ==
  RunReturns /\ PoolStops /\ L!StartLoopReturns /\ L!DestructorEnds
=============================================================================
