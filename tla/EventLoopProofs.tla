-------------------------- MODULE EventLoopProofs --------------------------
(***************************************************************************)
(* What EventLoop guarantees for any number of threads, channels and       *)
(* functors and for any limit of the eventfd counter.  The argument is the *)
(* inductive invariant IInv; the properties follow from it.                *)
(***************************************************************************)
EXTENDS EventLoop, SequenceTheorems, TLAPS

\* The type invariant is preserved by each step.
LEMMA TypePreserved == TypeOK /\ [Next]_vars => TypeOK'
<1> SUFFICES ASSUME TypeOK, [Next]_vars PROVE TypeOK'
  OBVIOUS
<1> USE EventfdAssumption DEF TypeOK
<1>1. ASSUME NEW t \in Thread, NEW f \in Functor, QueueInLoop(t, f) PROVE TypeOK'
  BY <1>1 DEF QueueInLoop, PushFunctor, loopVars
<1>2. ASSUME NEW t \in Thread, Wakeup(t) PROVE TypeOK'
  BY <1>2 DEF Wakeup, wakeup, loopVars
<1>3. ASSUME NEW t \in Thread, Quit(t) PROVE TypeOK'
  BY <1>3 DEF Quit, loopVars
<1>4. ASSUME NEW t \in Thread, QuitSet(t) PROVE TypeOK'
  BY <1>4 DEF QuitSet, loopVars
<1>5. ASSUME NEW f \in Functor, LoopQueueInLoop(f) PROVE TypeOK'
  BY <1>5 DEF LoopQueueInLoop, PushFunctor, wakeup, loopVars
<1>6. CASE LoopQuit
  BY <1>6 DEF LoopQuit, loopVars
<1>7. CASE EnterLoop
  BY <1>7 DEF EnterLoop
<1>8. CASE While
  BY <1>8 DEF While
<1>9. CASE PollReturn
  BY <1>9 DEF PollReturn, Ready
<1>10. CASE PollTimeout
  BY <1>10 DEF PollTimeout
<1>11. CASE DispatchWakeup
  BY <1>11 DEF DispatchWakeup, handleRead
<1>12. ASSUME NEW c \in Channel, Dispatch(c) PROVE TypeOK'
  BY <1>12 DEF Dispatch
<1>13. CASE DoPendingFunctors
  BY <1>13 DEF DoPendingFunctors
<1>14. CASE SwapFunctors
  BY <1>14 DEF SwapFunctors
<1>15. CASE CallFunctor
  BY <1>15 DEF CallFunctor
<1>16. CASE FunctorsDone
  BY <1>16 DEF FunctorsDone
<1>17. CASE CallbackReturn
  BY <1>17 DEF CallbackReturn
<1>18. ASSUME NEW c \in Channel, ChannelReady(c) PROVE TypeOK'
  BY <1>18 DEF ChannelReady, loopVars
<1>19. CASE UNCHANGED vars
  BY <1>19 DEF vars, loopVars
<1> QED
  BY <1>1, <1>2, <1>3, <1>4, <1>5, <1>6, <1>7, <1>8, <1>9, <1>10, <1>11, <1>12,
     <1>13, <1>14, <1>15, <1>16, <1>17, <1>18, <1>19
  DEF Next, LoopStep, FinishCall

-----------------------------------------------------------------------------

\* Init establishes the inductive invariant.
LEMMA InitIInv == Init => IInv
<1> SUFFICES ASSUME Init PROVE IInv
  OBVIOUS
<1>1. TypeOK
  <2>1. <<>> \in Seq(Functor) /\ 0 \in 0 .. EventfdMax
    BY EventfdAssumption
  <2>2. [t \in Thread |-> "idle"] \in [Thread -> {"idle", "quit", "wakeup"}]
    OBVIOUS
  <2> QED
    BY <2>1, <2>2, Zenon DEF Init, TypeOK
<1>2. FlagMatchesPhase /\ AwaitedIsWoken /\ NoLostQuit
  BY DEF Init, FlagMatchesPhase, AwaitedIsWoken, Awaited, NoLostQuit
<1>3. NothingLost
  BY ConcatEmptySeq DEF Init, NothingLost
<1> QED
  BY <1>1, <1>2, <1>3 DEF IInv

\* The flag of doPendingFunctors stays with its phase.
LEMMA FlagPreserved == IInv /\ [Next]_vars => FlagMatchesPhase'
<1> SUFFICES ASSUME IInv, [Next]_vars PROVE FlagMatchesPhase'
  OBVIOUS
<1> USE DEF IInv, FlagMatchesPhase, TypeOK
<1>1. CASE UNCHANGED <<m_callingPendingFunctors, functors, loopPc>>
  BY <1>1
<1>2. CASE SwapFunctors
  BY <1>2 DEF SwapFunctors
<1>3. CASE CallFunctor
  BY <1>3 DEF CallFunctor
<1>4. CASE FunctorsDone \/ DoPendingFunctors
  BY <1>4 DEF FunctorsDone, DoPendingFunctors
<1>5. CASE EnterLoop \/ While \/ PollReturn \/ PollTimeout \/ \E c \in Channel : Dispatch(c)
  BY <1>5 DEF EnterLoop, While, PollReturn, PollTimeout, Dispatch
<1>6. CASE CallbackReturn
  BY <1>6 DEF CallbackReturn, InCallback
<1> QED
  BY <1>1, <1>2, <1>3, <1>4, <1>5, <1>6
  DEF Next, LoopStep, FinishCall, QueueInLoop, Wakeup, Quit, QuitSet, LoopQueueInLoop,
      LoopQuit, DispatchWakeup, ChannelReady, vars, loopVars

\* Nothing is lost by a push, by the swap or by a call.
LEMMA OrderPreserved == IInv /\ [Next]_vars => NothingLost'
<1> SUFFICES ASSUME IInv, [Next]_vars PROVE NothingLost'
  OBVIOUS
<1>1. /\ ran \in Seq(Functor) /\ functors \in Seq(Functor)
      /\ m_pendingFunctors \in Seq(Functor) /\ order \in Seq(Functor)
      /\ order = (ran \o functors) \o m_pendingFunctors
  BY DEF IInv, TypeOK, NothingLost
<1>2. CASE UNCHANGED <<ran, functors, m_pendingFunctors, order>>
  BY <1>1, <1>2 DEF NothingLost
<1>3. ASSUME NEW f \in Functor, PushFunctor(f), UNCHANGED <<ran, functors>>
      PROVE  NothingLost'
  <2>1. (ran \o functors) \o Append(m_pendingFunctors, f)
          = Append((ran \o functors) \o m_pendingFunctors, f)
    <3>1. ran \o functors \in Seq(Functor)
      BY <1>1, ConcatProperties
    <3>2. <<f>> \in Seq(Functor) /\ order \in Seq(Functor)
      BY <1>1
    <3>3. Append(m_pendingFunctors, f) = m_pendingFunctors \o <<f>>
      BY <1>1, AppendIsConcat
    <3>4. Append(order, f) = order \o <<f>>
      BY <1>1, AppendIsConcat
    <3> QED
      BY <1>1, <3>1, <3>2, <3>3, <3>4, ConcatAssociative
  <2> QED
    BY <1>1, <1>3, <2>1 DEF PushFunctor, NothingLost
<1>4. CASE SwapFunctors
  <2>1. functors = <<>> /\ ran' = ran /\ order' = order
        /\ functors' = m_pendingFunctors /\ m_pendingFunctors' = <<>>
    BY <1>4 DEF SwapFunctors, IInv, FlagMatchesPhase
  <2>2. ran \o functors = ran
    BY <1>1, <2>1, ConcatEmptySeq
  <2>3. ran \o m_pendingFunctors \in Seq(Functor)
    BY <1>1, ConcatProperties
  <2>4. (ran \o m_pendingFunctors) \o <<>> = ran \o m_pendingFunctors
    BY <2>3, ConcatEmptySeq
  <2> QED
    BY <1>1, <2>1, <2>2, <2>4 DEF NothingLost
<1>5. CASE CallFunctor
  <2>1. functors # <<>> /\ ran' = Append(ran, Head(functors)) /\ functors' = Tail(functors)
        /\ UNCHANGED <<m_pendingFunctors, order>>
    BY <1>5 DEF CallFunctor
  <2>2. Head(functors) \in Functor /\ Tail(functors) \in Seq(Functor)
    BY <1>1, <2>1
  <2>3. <<Head(functors)>> \in Seq(Functor) /\ <<Head(functors)>> \o Tail(functors) = functors
    BY <1>1, <2>1, <2>2
  <2>4. Append(ran, Head(functors)) = ran \o <<Head(functors)>>
    BY <1>1, <2>2, AppendIsConcat
  <2>5. Append(ran, Head(functors)) \o Tail(functors) = ran \o functors
    BY <1>1, <2>2, <2>3, <2>4, ConcatAssociative, SMTT(30)
  <2> QED
    BY <1>1, <2>1, <2>5 DEF NothingLost
<1> QED
  BY <1>2, <1>3, <1>4, <1>5
  DEF Next, LoopStep, FinishCall, QueueInLoop, Wakeup, Quit, QuitSet, LoopQueueInLoop,
      LoopQuit, EnterLoop, While, PollReturn, PollTimeout, DispatchWakeup, Dispatch,
      DoPendingFunctors, FunctorsDone, CallbackReturn, ChannelReady, vars, loopVars

-----------------------------------------------------------------------------

\* A pending wakeup survives every step that is not the loop's own read of the eventfd.
LEMMA WakeupSurvives ==
  ASSUME TypeOK, [Next]_vars, WakeupOnItsWay, loopPc # "dispatch"
  PROVE  WakeupOnItsWay'
<1> USE EventfdAssumption DEF TypeOK, WakeupOnItsWay
<1>1. CASE \E t \in Thread : Wakeup(t)
  BY <1>1 DEF Wakeup, wakeup
<1>2. CASE \E f \in Functor : LoopQueueInLoop(f)
  BY <1>2 DEF LoopQueueInLoop, wakeup
<1>3. ASSUME NEW t \in Thread,
             QuitSet(t) \/ Quit(t) \/ \E f \in Functor : QueueInLoop(t, f)
      PROVE  WakeupOnItsWay'
  BY <1>3 DEF QuitSet, Quit, QueueInLoop
<1>4. CASE UNCHANGED <<wakeupFd, pc>>
  BY <1>4
<1> QED
  BY <1>1, <1>2, <1>3, <1>4
  DEF Next, LoopStep, FinishCall, LoopQuit, EnterLoop, While, PollReturn, PollTimeout,
      DispatchWakeup, Dispatch, DoPendingFunctors, SwapFunctors, CallFunctor,
      FunctorsDone, CallbackReturn, ChannelReady, vars, loopVars

\* A functor the loop is not about to take by its swap has a wakeup on its way.
LEMMA AwaitedPreserved == IInv /\ [Next]_vars => AwaitedIsWoken'
<1> SUFFICES ASSUME IInv, [Next]_vars, Awaited', loopPc' \notin {"dispatch", "event", "swap"}
             PROVE  WakeupOnItsWay'
  BY DEF AwaitedIsWoken
<1> USE EventfdAssumption DEF IInv, TypeOK
<1>1. CASE SwapFunctors
  BY <1>1 DEF SwapFunctors, Awaited
<1>2. ASSUME NEW t \in Thread, NEW f \in Functor, QueueInLoop(t, f)
      PROVE  WakeupOnItsWay'
  BY <1>2 DEF QueueInLoop, WakeupOnItsWay
<1>3. ASSUME NEW f \in Functor, LoopQueueInLoop(f)
      PROVE  WakeupOnItsWay'
  <2>1. CASE m_callingPendingFunctors
    BY <1>3, <2>1 DEF LoopQueueInLoop, wakeup, WakeupOnItsWay
  <2>2. CASE ~m_callingPendingFunctors
    <3>1. loopPc = "idle" /\ loopPc' = loopPc /\ early' = early \cup {f}
          /\ m_pendingFunctors' = Append(m_pendingFunctors, f)
      BY <1>3, <2>2 DEF LoopQueueInLoop, PushFunctor, InCallback, FlagMatchesPhase, loopVars
    <3>2. PICK i \in DOMAIN Append(m_pendingFunctors, f) :
                 Append(m_pendingFunctors, f)[i] \notin early \cup {f}
      BY <3>1 DEF Awaited
    <3>3. i \in DOMAIN m_pendingFunctors /\ m_pendingFunctors[i] \notin early
      BY <3>2
    <3> QED
      BY <3>1, <3>3, WakeupSurvives DEF Awaited, AwaitedIsWoken
  <2> QED
    BY <2>1, <2>2
<1>4. CASE /\ UNCHANGED <<m_pendingFunctors, early>>
           /\ loopPc \notin {"dispatch", "event", "swap"}
  BY <1>4, WakeupSurvives DEF Awaited, AwaitedIsWoken
<1>5. CASE \/ /\ \E t \in Thread : Quit(t) \/ FinishCall(t)
              /\ loopPc \in {"dispatch", "event", "swap"}
           \/ \E c \in Channel : ChannelReady(c)
           \/ UNCHANGED vars
  <2>1. loopPc' = loopPc /\ UNCHANGED <<m_pendingFunctors, early>>
    BY <1>5 DEF Quit, FinishCall, Wakeup, QuitSet, ChannelReady, vars, loopVars
  <2> QED
    BY <1>4, <2>1
<1> QED
  BY <1>1, <1>2, <1>3, <1>4, <1>5
  DEF Next, LoopStep, FinishCall, Wakeup, Quit, QuitSet, LoopQuit, EnterLoop, While,
      PollReturn, PollTimeout, DispatchWakeup, Dispatch, DoPendingFunctors, CallFunctor,
      FunctorsDone, CallbackReturn, InCallback, loopVars

\* A loop that is asked to quit while it polls has a wakeup on its way.
LEMMA QuitPreserved == IInv /\ [Next]_vars => NoLostQuit'
<1> SUFFICES ASSUME IInv, [Next]_vars, loopPc' = "poll", m_quit'
             PROVE  WakeupOnItsWay'
  BY DEF NoLostQuit
<1> USE DEF IInv, TypeOK
<1>1. CASE \E t \in Thread : QuitSet(t)
  BY <1>1 DEF QuitSet, WakeupOnItsWay
<1>2. CASE loopPc = "poll" /\ m_quit
  BY <1>2, WakeupSurvives DEF NoLostQuit
<1> QED
  BY <1>1, <1>2
  DEF Next, LoopStep, FinishCall, QueueInLoop, Wakeup, Quit, LoopQueueInLoop, LoopQuit,
      InCallback, EnterLoop, While, PollReturn, PollTimeout, DispatchWakeup, Dispatch,
      DoPendingFunctors, SwapFunctors, CallFunctor, FunctorsDone, CallbackReturn,
      ChannelReady, vars, loopVars

-----------------------------------------------------------------------------

\* IInv is an invariant of every EventLoop.
THEOREM Inductive == Spec => []IInv
<1>1. IInv /\ [Next]_vars => IInv'
  BY TypePreserved, FlagPreserved, AwaitedPreserved, QuitPreserved, OrderPreserved DEF IInv
<1> QED
  BY <1>1, InitIInv, PTL DEF Spec

\* For any number of threads and functors, no wakeup is lost: a loop blocked in poll
\* with a functor pending has a readable eventfd or a thread about to write it.
THEOREM WakeupsNotLost == Spec => []NoLostWakeup
<1>1. IInv => NoLostWakeup
  BY DEF IInv, AwaitedIsWoken, NoLostWakeup
<1> QED
  BY <1>1, Inductive, PTL

\* For any number of threads, no quit() is lost on a blocked loop.
THEOREM QuitsNotLost == Spec => []NoLostQuit
<1>1. IInv => NoLostQuit
  BY DEF IInv
<1> QED
  BY <1>1, Inductive, PTL

\* Every push is in exactly one place, in order: run, in the batch, or pending.
THEOREM NothingIsLost == Spec => []NothingLost
<1>1. IInv => NothingLost
  BY DEF IInv
<1> QED
  BY <1>1, Inductive, PTL

\* doPendingFunctors runs a fixed batch, whatever is queued meanwhile.
THEOREM BatchFixed == Spec => BatchIsFixed
<1>1. IInv /\ [Next]_vars => [functors # <<>> => functors' \in {functors, Tail(functors)}]_vars
  BY DEF IInv, FlagMatchesPhase, Next, LoopStep, FinishCall, QueueInLoop, Wakeup, Quit,
     QuitSet, LoopQueueInLoop, LoopQuit, EnterLoop, While, PollReturn, PollTimeout,
     DispatchWakeup, Dispatch, DoPendingFunctors, SwapFunctors, CallFunctor,
     FunctorsDone, CallbackReturn, ChannelReady, vars, loopVars
<1> QED
  BY <1>1, Inductive, PTL DEF Spec, BatchIsFixed

\* Each step of the loop is a push, a run or nothing to the abstract functor queue.
LEMMA StepRefines == IInv /\ [Next]_vars => [Q!QNext]_(Q!qvars)
<1> SUFFICES ASSUME IInv, [Next]_vars PROVE Q!QNext \/ UNCHANGED Q!qvars
  OBVIOUS
<1>1. functors \in Seq(Functor) /\ m_pendingFunctors \in Seq(Functor)
  BY DEF IInv, TypeOK
<1>2. CASE UNCHANGED <<functors, m_pendingFunctors, ran>>
  BY <1>2 DEF Q!qvars
<1>3. ASSUME NEW f \in Functor, PushFunctor(f), UNCHANGED <<ran, functors>>
      PROVE  Q!Enqueue(f)
  <2>1. functors \o Append(m_pendingFunctors, f) = Append(functors \o m_pendingFunctors, f)
    <3>1. <<f>> \in Seq(Functor)
      OBVIOUS
    <3>2. functors \o m_pendingFunctors \in Seq(Functor)
      BY <1>1, ConcatProperties
    <3>3. Append(m_pendingFunctors, f) = m_pendingFunctors \o <<f>>
      BY <1>1, AppendIsConcat
    <3>4. Append(functors \o m_pendingFunctors, f) = (functors \o m_pendingFunctors) \o <<f>>
      BY <3>2, AppendIsConcat
    <3> QED
      BY <1>1, <3>1, <3>3, <3>4, ConcatAssociative
  <2> QED
    BY <1>3, <2>1 DEF PushFunctor, Q!Enqueue
<1>4. CASE SwapFunctors
  <2>1. functors = <<>> /\ UNCHANGED ran
        /\ functors' = m_pendingFunctors /\ m_pendingFunctors' = <<>>
    BY <1>4 DEF SwapFunctors, IInv, FlagMatchesPhase
  <2>2. <<>> \o m_pendingFunctors = m_pendingFunctors \o <<>>
    BY <1>1, ConcatEmptySeq
  <2> QED
    BY <2>1, <2>2 DEF Q!qvars
<1>5. CASE CallFunctor
  <2>1. functors # <<>> /\ ran' = Append(ran, Head(functors)) /\ functors' = Tail(functors)
        /\ UNCHANGED m_pendingFunctors
    BY <1>5 DEF CallFunctor
  <2> DEFINE q == functors \o m_pendingFunctors
  <2>2. q \in Seq(Functor) /\ Len(q) = Len(functors) + Len(m_pendingFunctors)
    BY <1>1, ConcatProperties
  <2>3. \A i \in 1 .. Len(q) :
          q[i] = IF i <= Len(functors) THEN functors[i] ELSE m_pendingFunctors[i - Len(functors)]
    BY <1>1, <2>2, ConcatProperties
  <2>4. Len(functors) \in Nat /\ Len(functors) > 0 /\ Len(m_pendingFunctors) \in Nat
    BY <1>1, <2>1
  <2>5. q # <<>> /\ Head(q) = Head(functors)
    BY <1>1, <2>1, <2>2, <2>3, <2>4
  <2>6. Tail(q) = Tail(functors) \o m_pendingFunctors
    <3>1. /\ Tail(functors) \in Seq(Functor)
          /\ Len(Tail(functors)) = Len(functors) - 1
          /\ \A i \in 1 .. Len(Tail(functors)) : Tail(functors)[i] = functors[i + 1]
      BY <1>1, <2>1, HeadTailProperties
    <3>2. /\ Tail(q) \in Seq(Functor)
          /\ Len(Tail(q)) = Len(q) - 1
          /\ \A i \in 1 .. Len(Tail(q)) : Tail(q)[i] = q[i + 1]
      BY <2>2, <2>5, HeadTailProperties
    <3> DEFINE r == Tail(functors) \o m_pendingFunctors
    <3>3. /\ r \in Seq(Functor)
          /\ Len(r) = Len(Tail(functors)) + Len(m_pendingFunctors)
      BY <1>1, <3>1, ConcatProperties
    <3>4. \A i \in 1 .. Len(r) :
            r[i] = IF i <= Len(Tail(functors)) THEN Tail(functors)[i]
                   ELSE m_pendingFunctors[i - Len(Tail(functors))]
      BY <1>1, <3>1, <3>3, ConcatProperties
    <3>5. Len(Tail(q)) = Len(r)
      BY <2>2, <2>4, <3>1, <3>2, <3>3
    <3>6. ASSUME NEW i \in 1 .. Len(r) PROVE Tail(q)[i] = r[i]
      <4> HIDE DEF q, r
      <4>1. i \in 1 .. Len(Tail(q)) /\ i + 1 \in 1 .. Len(q)
        BY <2>2, <2>4, <3>2, <3>5
      <4>2. Tail(q)[i] = q[i + 1]
        BY <3>2, <4>1
      <4>3. CASE i <= Len(Tail(functors))
        BY <2>3, <2>4, <3>1, <3>4, <4>1, <4>2, <4>3
      <4>4. CASE ~(i <= Len(Tail(functors)))
        BY <2>3, <2>4, <3>1, <3>4, <4>1, <4>2, <4>4
      <4> QED
        BY <4>3, <4>4
    <3> HIDE DEF q, r
    <3>7. Tail(q) = r
      BY <3>2, <3>3, <3>5, <3>6, SeqEqual
    <3> QED
      BY <3>7 DEF r
  <2> QED
    BY <2>1, <2>5, <2>6 DEF Q!QNext, Q!Run
<1> QED
  BY <1>2, <1>3, <1>4, <1>5
  DEF Next, LoopStep, FinishCall, QueueInLoop, Wakeup, Quit, QuitSet, LoopQueueInLoop,
      LoopQuit, EnterLoop, While, PollReturn, PollTimeout, DispatchWakeup, Dispatch,
      DoPendingFunctors, FunctorsDone, CallbackReturn, ChannelReady, vars, loopVars,
      Q!QNext

\* Every EventLoop implements the abstract FIFO queue of functors: each functor handed
\* to it runs at most once and in the order of the pushes, whatever threads push.
THEOREM ImplementsQueue == Spec => QueueRefined
<1>1. Init => Q!QInit
  BY ConcatEmptySeq DEF Init, Q!QInit
<1> QED
  BY <1>1, StepRefines, Inductive, PTL DEF Spec, QueueRefined, Q!QSpec
=============================================================================
