----------------------------- MODULE EventLoop -----------------------------
(***************************************************************************)
(* net/EventLoop: one reactor.  The loop thread sits in loop(); any other  *)
(* thread may hand it functors (queueInLoop, runInLoop) or ask it to stop  *)
(* (quit).  Both are seen by a blocked loop only through the eventfd that  *)
(* wakeup() writes and handleRead() reads.                                 *)
(*                                                                         *)
(* The loop thread's position is loopPc:                                   *)
(*   "idle"     outside loop()                                             *)
(*   "while"    about to test m_quit                                       *)
(*   "poll"     in epoll_wait                                              *)
(*   "dispatch" between two calls of handleEvent                           *)
(*   "event"    inside the callback of a channel                           *)
(*   "swap"     in doPendingFunctors, before the swap                      *)
(*   "call"     in doPendingFunctors, between two functors                 *)
(*   "functor"  inside a functor                                           *)
(* runInLoop called by the loop thread calls its functor in place, so it   *)
(* is part of the callback that calls it; called by another thread it is   *)
(* queueInLoop.                                                            *)
(*                                                                         *)
(* An operator named after an action with a suffix (QuitSetNoWakeup) is a  *)
(* deliberately wrong variant of the action that follows it: substituted   *)
(* for the action it must break a property (PROJECT.json, mutants).        *)
(***************************************************************************)
EXTENDS Naturals, Sequences, FiniteSets

CONSTANTS Thread,       \* the threads other than the loop's own
          Channel,      \* the channels other than the wakeup channel
          Functor,      \* the calls of queueInLoop, each one its own value
          EventfdMax    \* the largest value an eventfd counter can hold

ASSUME EventfdAssumption == EventfdMax \in Nat \ {0}

\* The channel of m_wakeupFd.
WakeupChannel == "wakeup"

ASSUME ChannelAssumption == WakeupChannel \notin Channel

VARIABLES
  m_looping,
  m_quit,
  m_callingPendingFunctors,
  m_pendingFunctors,    \* guarded by m_mutex
  functors,             \* doPendingFunctors' local vector, the part not yet called
  wakeupFd,             \* the eventfd's counter
  m_activeChannels,     \* what the last poll returned and is not yet handled
  ready,                \* channels whose descriptor is ready, level triggered
  loopPc,
  pc,                   \* where the other threads are
  aborted,              \* an assertion has failed
  early,                \* history: functors the loop thread queued outside loop()
  order,                \* history: every functor, in the order of the pushes
  ran                   \* history: every functor started, in order

loopVars == <<m_looping, m_callingPendingFunctors, functors, m_activeChannels,
              loopPc, ran>>
vars == <<loopVars, m_quit, m_pendingFunctors, wakeupFd, ready, pc, aborted,
          early, order>>

TypeOK ==
  /\ m_looping \in BOOLEAN
  /\ m_quit \in BOOLEAN
  /\ m_callingPendingFunctors \in BOOLEAN
  /\ m_pendingFunctors \in Seq(Functor)
  /\ functors \in Seq(Functor)
  /\ wakeupFd \in 0 .. EventfdMax
  /\ m_activeChannels \in SUBSET (Channel \cup {WakeupChannel})
  /\ ready \in SUBSET Channel
  /\ loopPc \in {"idle", "while", "poll", "dispatch", "event",
                 "swap", "call", "functor"}
  /\ pc \in [Thread -> {"idle", "quit", "wakeup"}]
  /\ aborted \in BOOLEAN
  /\ early \in SUBSET Functor
  /\ order \in Seq(Functor)
  /\ ran \in Seq(Functor)

\* The constructor leaves m_quit uninitialised; loop() sets it before reading it.
Init ==
  /\ m_looping = FALSE
  /\ m_quit \in BOOLEAN
  /\ m_callingPendingFunctors = FALSE
  /\ m_pendingFunctors = <<>>
  /\ functors = <<>>
  /\ wakeupFd = 0
  /\ m_activeChannels = {}
  /\ ready = {}
  /\ loopPc = "idle"
  /\ pc = [t \in Thread |-> "idle"]
  /\ aborted = FALSE
  /\ early = {}
  /\ order = <<>>
  /\ ran = <<>>

-----------------------------------------------------------------------------
(* The eventfd.  A write to a counter at its maximum fails with EAGAIN,    *)
(* which wakeup() only logs.                                               *)

wakeup == wakeupFd' = IF wakeupFd < EventfdMax THEN wakeupFd + 1 ELSE wakeupFd

handleRead == wakeupFd' = 0

-----------------------------------------------------------------------------
(* Calls made by the other threads.                                        *)

\* The push, under m_mutex.
PushFunctor(f) ==
  /\ \A i \in DOMAIN order : order[i] # f
  /\ m_pendingFunctors' = Append(m_pendingFunctors, f)
  /\ order' = Append(order, f)

\* queueInLoop and runInLoop in a thread that is not the loop's: the push ...
QueueInLoop(t, f) ==
  /\ pc[t] = "idle"
  /\ PushFunctor(f)
  /\ pc' = [pc EXCEPT ![t] = "wakeup"]
  /\ UNCHANGED <<loopVars, m_quit, wakeupFd, ready, aborted, early>>

\* ... and, m_mutex released, the wakeup.
Wakeup(t) ==
  /\ pc[t] = "wakeup"
  /\ wakeup
  /\ pc' = [pc EXCEPT ![t] = "idle"]
  /\ UNCHANGED <<loopVars, m_quit, m_pendingFunctors, ready, aborted, early, order>>

\* quit in a thread that is not the loop's: the assertion ...
Quit(t) ==
  /\ pc[t] = "idle"
  /\ IF m_looping
       THEN pc' = [pc EXCEPT ![t] = "quit"] /\ UNCHANGED aborted
       ELSE aborted' = TRUE /\ UNCHANGED pc
  /\ UNCHANGED <<loopVars, m_quit, m_pendingFunctors, wakeupFd, ready, early, order>>

QuitSetNoWakeup(t) ==
  /\ pc[t] = "quit"
  /\ m_quit' = TRUE
  /\ pc' = [pc EXCEPT ![t] = "idle"]
  /\ UNCHANGED <<loopVars, m_pendingFunctors, wakeupFd, ready, aborted, early, order>>

\* ... the flag, and then the wakeup above.
QuitSet(t) ==
  /\ pc[t] = "quit"
  /\ m_quit' = TRUE
  /\ pc' = [pc EXCEPT ![t] = "wakeup"]
  /\ UNCHANGED <<loopVars, m_pendingFunctors, wakeupFd, ready, aborted, early, order>>

-----------------------------------------------------------------------------
(* Calls made by the loop's own thread, from a callback or outside loop(). *)

InCallback == loopPc \in {"event", "functor"}

LoopQueueInLoopNoWakeup(f) ==
  /\ InCallback \/ loopPc = "idle"
  /\ PushFunctor(f)
  /\ early' = IF loopPc = "idle" THEN early \cup {f} ELSE early
  /\ UNCHANGED <<loopVars, m_quit, wakeupFd, ready, pc, aborted>>

\* No other thread reads what lies between the push and the wakeup, so they are one step.
LoopQueueInLoop(f) ==
  /\ InCallback \/ loopPc = "idle"
  /\ PushFunctor(f)
  /\ early' = IF loopPc = "idle" THEN early \cup {f} ELSE early
  /\ IF m_callingPendingFunctors THEN wakeup ELSE UNCHANGED wakeupFd
  /\ UNCHANGED <<loopVars, m_quit, ready, pc, aborted>>

LoopQuit ==
  /\ InCallback
  /\ m_quit' = TRUE
  /\ UNCHANGED <<loopVars, m_pendingFunctors, wakeupFd, ready, pc, aborted, early, order>>

-----------------------------------------------------------------------------
(* loop()                                                                  *)

EnterLoop ==
  /\ loopPc = "idle"
  /\ m_quit' = FALSE
  /\ m_looping' = TRUE
  /\ loopPc' = "while"
  /\ UNCHANGED <<m_callingPendingFunctors, functors, m_activeChannels, ran,
                 m_pendingFunctors, wakeupFd, ready, pc, aborted, early, order>>

While ==
  /\ loopPc = "while"
  /\ IF m_quit
       THEN m_looping' = FALSE /\ loopPc' = "idle" /\ UNCHANGED m_activeChannels
       ELSE m_activeChannels' = {} /\ loopPc' = "poll" /\ UNCHANGED m_looping
  /\ UNCHANGED <<m_callingPendingFunctors, functors, ran, m_quit,
                 m_pendingFunctors, wakeupFd, ready, pc, aborted, early, order>>

Ready == ready \cup (IF wakeupFd > 0 THEN {WakeupChannel} ELSE {})

\* epoll_wait returns with every ready channel ...
PollReturn ==
  /\ loopPc = "poll"
  /\ Ready # {}
  /\ m_activeChannels' = Ready
  /\ loopPc' = "dispatch"
  /\ UNCHANGED <<m_looping, m_callingPendingFunctors, functors, ran, m_quit,
                 m_pendingFunctors, wakeupFd, ready, pc, aborted, early, order>>

\* ... or empty-handed, after kPollTimeMs or on a signal.
PollTimeout ==
  /\ loopPc = "poll"
  /\ Ready = {}
  /\ loopPc' = "dispatch"
  /\ UNCHANGED <<m_looping, m_callingPendingFunctors, functors, m_activeChannels,
                 ran, m_quit, m_pendingFunctors, wakeupFd, ready, pc, aborted,
                 early, order>>

\* handleEvent of the wakeup channel.
DispatchWakeup ==
  /\ loopPc = "dispatch"
  /\ WakeupChannel \in m_activeChannels
  /\ m_activeChannels' = m_activeChannels \ {WakeupChannel}
  /\ handleRead
  /\ UNCHANGED <<m_looping, m_callingPendingFunctors, functors, loopPc, ran, m_quit,
                 m_pendingFunctors, ready, pc, aborted, early, order>>

\* handleEvent of another channel enters its callback, which may drain the descriptor.
Dispatch(c) ==
  /\ loopPc = "dispatch"
  /\ c \in m_activeChannels
  /\ m_activeChannels' = m_activeChannels \ {c}
  /\ loopPc' = "event"
  /\ ready' \in {ready, ready \ {c}}
  /\ UNCHANGED <<m_looping, m_callingPendingFunctors, functors, ran, m_quit,
                 m_pendingFunctors, wakeupFd, pc, aborted, early, order>>

\* All handled: doPendingFunctors raises its flag ...
DoPendingFunctors ==
  /\ loopPc = "dispatch"
  /\ m_activeChannels = {}
  /\ m_callingPendingFunctors' = TRUE
  /\ loopPc' = "swap"
  /\ UNCHANGED <<m_looping, functors, m_activeChannels, ran, m_quit,
                 m_pendingFunctors, wakeupFd, ready, pc, aborted, early, order>>

\* ... takes the whole vector under m_mutex ...
SwapFunctors ==
  /\ loopPc = "swap"
  /\ functors' = m_pendingFunctors
  /\ m_pendingFunctors' = <<>>
  /\ loopPc' = "call"
  /\ UNCHANGED <<m_looping, m_callingPendingFunctors, m_activeChannels, ran, m_quit,
                 wakeupFd, ready, pc, aborted, early, order>>

CallFunctorLast ==
  /\ loopPc = "call"
  /\ functors # <<>>
  /\ ran' = Append(ran, functors[Len(functors)])
  /\ functors' = SubSeq(functors, 1, Len(functors) - 1)
  /\ loopPc' = "functor"
  /\ UNCHANGED <<m_looping, m_callingPendingFunctors, m_activeChannels, m_quit,
                 m_pendingFunctors, wakeupFd, ready, pc, aborted, early, order>>

\* ... calls the functors one after the other ...
CallFunctor ==
  /\ loopPc = "call"
  /\ functors # <<>>
  /\ ran' = Append(ran, Head(functors))
  /\ functors' = Tail(functors)
  /\ loopPc' = "functor"
  /\ UNCHANGED <<m_looping, m_callingPendingFunctors, m_activeChannels, m_quit,
                 m_pendingFunctors, wakeupFd, ready, pc, aborted, early, order>>

\* ... and lowers its flag.
FunctorsDone ==
  /\ loopPc = "call"
  /\ functors = <<>>
  /\ m_callingPendingFunctors' = FALSE
  /\ loopPc' = "while"
  /\ UNCHANGED <<m_looping, functors, m_activeChannels, ran, m_quit,
                 m_pendingFunctors, wakeupFd, ready, pc, aborted, early, order>>

CallbackReturn ==
  /\ InCallback
  /\ loopPc' = IF loopPc = "event" THEN "dispatch" ELSE "call"
  /\ UNCHANGED <<m_looping, m_callingPendingFunctors, functors, m_activeChannels,
                 ran, m_quit, m_pendingFunctors, wakeupFd, ready, pc, aborted,
                 early, order>>

-----------------------------------------------------------------------------

\* The environment: a descriptor becomes ready.
ChannelReady(c) ==
  /\ c \notin ready
  /\ ready' = ready \cup {c}
  /\ UNCHANGED <<loopVars, m_quit, m_pendingFunctors, wakeupFd, pc, aborted, early, order>>

\* What the loop thread does by itself once it is in loop(); a poll may wait for ever.
LoopStep ==
  \/ While
  \/ PollReturn
  \/ DispatchWakeup
  \/ \E c \in Channel : Dispatch(c)
  \/ DoPendingFunctors
  \/ SwapFunctors
  \/ CallFunctor
  \/ FunctorsDone
  \/ CallbackReturn

\* What another thread does to finish a call it has begun.
FinishCall(t) == Wakeup(t) \/ QuitSet(t)

Next ==
  /\ ~aborted
  /\ \/ LoopStep
     \/ EnterLoop
     \/ PollTimeout
     \/ LoopQuit
     \/ \E f \in Functor : LoopQueueInLoop(f)
     \/ \E t \in Thread, f \in Functor : QueueInLoop(t, f)
     \/ \E t \in Thread : Quit(t)
     \/ \E t \in Thread : FinishCall(t)
     \/ \E c \in Channel : ChannelReady(c)

Spec == Init /\ [][Next]_vars

\* Threads are scheduled and callbacks return.  Nothing obliges a thread to make
\* another call, a descriptor to become ready, or a poll to time out.
Fairness ==
  /\ WF_vars(~aborted /\ LoopStep)
  /\ \A t \in Thread : WF_vars(~aborted /\ FinishCall(t))

FairSpec == Spec /\ Fairness

-----------------------------------------------------------------------------
(* Properties.                                                             *)

InSeq(f, s) == \E i \in DOMAIN s : s[i] = f

\* Some thread is between its push (or m_quit = true) and its wakeup().
WakeupOnItsWay == wakeupFd > 0 \/ \E t \in Thread : pc[t] = "wakeup"

\* A functor is pending that the loop's own thread did not queue outside loop().
Awaited == \E i \in DOMAIN m_pendingFunctors : m_pendingFunctors[i] \notin early

\* A loop blocked in poll with a functor pending is being woken: its eventfd is
\* readable, or a thread that pushed has still to write it (queueInLoop's condition
\* `!isInloopThread() || m_callingPendingFunctors`).  The exception are functors the
\* loop's own thread queued outside loop(): those wait for another event or the timeout.
NoLostWakeup == loopPc = "poll" /\ Awaited => WakeupOnItsWay

\* The same for quit(): a loop blocked in poll after m_quit was set is being woken.
NoLostQuit == loopPc = "poll" /\ m_quit => WakeupOnItsWay

\* No functor is lost, duplicated or overtaken by the vector swap: what has run, what
\* the running batch still holds and what is pending are the pushes, in their order.
NothingLost == order = ran \o functors \o m_pendingFunctors

\* m_callingPendingFunctors, which queueInLoop relies on, is up exactly while
\* doPendingFunctors runs, and only there is a batch held.
FlagMatchesPhase ==
  /\ m_callingPendingFunctors <=> loopPc \in {"swap", "call", "functor"}
  /\ functors # <<>> => loopPc \in {"call", "functor"}

\* Wherever the loop is past its swap, or has not reached the next poll, a functor that
\* is pending has a wakeup on its way; from "dispatch" to "swap" it is still going to be
\* taken by the swap itself.
AwaitedIsWoken ==
  Awaited /\ loopPc \notin {"dispatch", "event", "swap"} => WakeupOnItsWay

\* The inductive invariant behind NoLostWakeup, NoLostQuit and NothingLost.
IInv == TypeOK /\ FlagMatchesPhase /\ AwaitedIsWoken /\ NoLostQuit /\ NothingLost

\* doPendingFunctors runs a fixed batch: nothing queued while it runs joins it, so a
\* functor that queues itself again cannot keep the loop from polling.
BatchIsFixed == [][functors # <<>> => functors' \in {functors, Tail(functors)}]_vars

\* Every functor queued by another thread, or by a callback, is run unless the loop is
\* left first, even if no poll ever times out.
FunctorsRun ==
  \A f \in Functor :
    InSeq(f, m_pendingFunctors) /\ f \notin early /\ m_looping
      ~> InSeq(f, ran) \/ ~m_looping \/ aborted

\* quit() of any thread ends loop(), even if no poll ever times out.
QuitStops == m_quit /\ m_looping ~> ~m_looping \/ aborted

\* The loop implements one FIFO queue of functors.
Q == INSTANCE FunctorQueue WITH queue <- functors \o m_pendingFunctors

QueueRefined == Q!QSpec
=============================================================================
