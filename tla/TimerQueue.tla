----------------------------- MODULE TimerQueue -----------------------------
(***************************************************************************)
(* net/TimerQueue: the timers of one event loop.  A timerfd, armed for the *)
(* earliest timer, wakes the loop, which runs everything that has expired. *)
(* Timers may be added from any thread and from timer callbacks.           *)
(*                                                                         *)
(* Times are whole ticks of at least 100 microseconds, relative to the     *)
(* present: expiration[t] is the time left by the wall clock (negative     *)
(* when overdue, down to -MaxDelay), timerfd the time left by the          *)
(* monotonic clock.  Tick lets both pass; SetClock is the wall clock being *)
(* set forward or back, which the timerfd does not see.                    *)
(*                                                                         *)
(* A Timer value stands for the pair of pointer and sequence number that   *)
(* m_activeTimers holds, so an address that is used again is another value.*)
(*                                                                         *)
(* Operators marked Wrong are variants of the definition after them, used  *)
(* to see that a property can fail (PROJECT.json, mutants).                *)
(***************************************************************************)
EXTENDS Integers, Sequences, FiniteSets, FiniteSetsExt

CONSTANTS Timer,
          Delay,        \* the delays of runAt and runAfter
          Interval,     \* the intervals of runEvery, and 0 for a timer run once
          MaxDelay,     \* bound: the longest of these
          MaxSets       \* bound: how often the wall clock is set

ASSUME DelayAssumption ==
  /\ MaxDelay \in Nat \ {0} /\ MaxSets \in Nat
  /\ Delay \subseteq 0 .. MaxDelay /\ Interval \subseteq 0 .. MaxDelay

Disarmed == -1

MaxAge == 2 * MaxDelay

\* Bound: times left are kept within MaxDelay of the present.
Bounded(n) == Max({-MaxDelay, Min({MaxDelay, n})})

VARIABLES
  allocated,            \* the Timer objects that exist
  created,              \* history: those that ever did
  expiration, interval, \* their members; interval 0: not repeated
  m_timers, m_activeTimers,
  m_callingExpiredTimers, m_cancelingTimers,
  expired,              \* the local vector of handleRead, as a set
  toRun,                \* the part of it still to be run
  age,                  \* ticks since handleRead read the clock
  timerfd,              \* ticks left, 0 when readable, or Disarmed
  pendingFunctors,      \* the EventLoop's: addTimerInLoop and cancelInLoop
  clockSets,            \* how often the wall clock was set
  cancelled,            \* history: timers cancelled in the round that ran them
  failed                \* the operation whose assertion failed

listVars == <<m_timers, m_activeTimers>>
roundVars == <<m_callingExpiredTimers, expired, toRun>>
clockVars == <<age, clockSets>>
vars == <<allocated, created, expiration, interval, listVars, roundVars, clockVars,
          m_cancelingTimers, timerfd, pendingFunctors, cancelled, failed>>

Functor == [op : {"addTimerInLoop", "cancelInLoop"}, t : Timer]

TypeOK ==
  /\ allocated \subseteq Timer /\ created \subseteq Timer
  /\ expiration \in [Timer -> -MaxDelay .. MaxDelay]
  /\ interval \in [Timer -> 0 .. MaxDelay]
  /\ m_timers \subseteq Timer /\ m_activeTimers \subseteq Timer
  /\ m_callingExpiredTimers \in BOOLEAN
  /\ m_cancelingTimers \subseteq Timer
  /\ expired \subseteq Timer /\ toRun \subseteq expired
  /\ age \in -MaxSets .. MaxAge + MaxSets /\ clockSets \in 0 .. MaxSets
  /\ timerfd \in Disarmed .. MaxDelay
  /\ pendingFunctors \in Seq(Functor)
  /\ cancelled \subseteq Timer

Init ==
  /\ allocated = {} /\ created = {}
  /\ expiration = [t \in Timer |-> 0] /\ interval = [t \in Timer |-> 0]
  /\ m_timers = {} /\ m_activeTimers = {}
  /\ m_callingExpiredTimers = FALSE /\ m_cancelingTimers = {}
  /\ expired = {} /\ toRun = {}
  /\ age = 0 /\ clockSets = 0
  /\ timerfd = Disarmed
  /\ pendingFunctors = <<>>
  /\ cancelled = {} /\ failed = "no"

-----------------------------------------------------------------------------
\* What timerfd_settime arms for a timer that expires in e ticks: never 0,
\* which would disarm it.
howMuchTimeFromNow(e) == IF e < 1 THEN 1 ELSE e

SizesAgree == Cardinality(m_timers) = Cardinality(m_activeTimers)

\* Wrong: the timerfd is armed only for the first timer.
addTimerInLoopFirst(t, when) ==
  /\ m_timers' = m_timers \cup {t}
  /\ m_activeTimers' = m_activeTimers \cup {t}
  /\ timerfd' = IF m_timers = {} THEN howMuchTimeFromNow(when) ELSE timerfd
  /\ failed' = failed

\* insert, and the timerfd if t is now the earliest.
addTimerInLoop(t, when) ==
  /\ m_timers' = m_timers \cup {t}
  /\ m_activeTimers' = m_activeTimers \cup {t}
  /\ timerfd' = IF \A u \in m_timers : when < expiration[u]
                THEN howMuchTimeFromNow(when)
                ELSE timerfd
  /\ failed' = IF SizesAgree /\ t \notin m_timers \cup m_activeTimers
               THEN failed ELSE "insert"

\* An active timer is taken out of m_timers and deleted, but stays in
\* m_activeTimers; a timer that is being run is marked.
cancelInLoop(t) ==
  /\ IF t \in m_activeTimers
     THEN /\ m_timers' = m_timers \ {t}
          /\ allocated' = allocated \ {t}
          /\ UNCHANGED m_cancelingTimers
     ELSE /\ m_cancelingTimers' = m_cancelingTimers
                                    \cup {u \in {t} : m_callingExpiredTimers}
          /\ UNCHANGED <<m_timers, allocated>>
  /\ UNCHANGED m_activeTimers
  /\ cancelled' = cancelled \cup ({t} \cap expired)
  /\ failed' = IF SizesAgree /\ SizesAgree' THEN failed ELSE "cancelInLoop"

\* The loop thread is in user code: a callback of some other channel, or one
\* of a timer.
InCallback == m_callingExpiredTimers => toRun # expired

\* new Timer, with any delay (runAt, runAfter) and any interval (runEvery).
NewTimer(t, when, period) ==
  /\ t \notin created
  /\ created' = created \cup {t}
  /\ allocated' = allocated \cup {t}
  /\ expiration' = [expiration EXCEPT ![t] = when]
  /\ interval' = [interval EXCEPT ![t] = period]

\* addTimer and cancel by the loop thread: runInLoop calls at once.
LoopAddTimer(t, when, period) ==
  /\ InCallback
  /\ NewTimer(t, when, period)
  /\ addTimerInLoop(t, when)
  /\ UNCHANGED <<roundVars, clockVars, m_cancelingTimers, pendingFunctors, cancelled>>

LoopCancel(t) ==
  /\ InCallback /\ t \in created
  /\ cancelInLoop(t)
  /\ UNCHANGED <<created, expiration, interval, roundVars, clockVars, timerfd,
                 pendingFunctors>>

\* The same by another thread: runInLoop queues.
AddTimer(t, when, period) ==
  /\ NewTimer(t, when, period)
  /\ pendingFunctors' = Append(pendingFunctors, [op |-> "addTimerInLoop", t |-> t])
  /\ UNCHANGED <<listVars, roundVars, clockVars, m_cancelingTimers, timerfd,
                 cancelled, failed>>

Cancel(t) ==
  /\ t \in allocated                           \* bound: not for nothing
  /\ \A i \in 1 .. Len(pendingFunctors) :      \* bound: one cancel of t waits
       pendingFunctors[i] # [op |-> "cancelInLoop", t |-> t]
  /\ pendingFunctors' = Append(pendingFunctors, [op |-> "cancelInLoop", t |-> t])
  /\ UNCHANGED <<allocated, created, expiration, interval, listVars, roundVars,
                 clockVars, m_cancelingTimers, timerfd, cancelled, failed>>

\* The loop calls its next functor.
CallFunctor ==
  /\ ~m_callingExpiredTimers /\ pendingFunctors # <<>>
  /\ LET f == Head(pendingFunctors) IN
       \/ /\ f.op = "addTimerInLoop"
          /\ addTimerInLoop(f.t, expiration[f.t])
          /\ UNCHANGED <<allocated, m_cancelingTimers, cancelled>>
       \/ /\ f.op = "cancelInLoop"
          /\ cancelInLoop(f.t)
          /\ UNCHANGED timerfd
  /\ pendingFunctors' = Tail(pendingFunctors)
  /\ UNCHANGED <<created, expiration, interval, roundVars, clockVars>>

-----------------------------------------------------------------------------
\* The timers getExpired(now) moves out.
getExpired == {t \in m_timers : expiration[t] <= 0}

\* handleRead up to the first callback: the timerfd is read (and is disarmed
\* until it is set again), the expired timers are moved out.
HandleRead ==
  /\ ~m_callingExpiredTimers /\ timerfd = 0
  /\ timerfd' = Disarmed
  /\ m_timers' = m_timers \ getExpired
  /\ m_activeTimers' = m_activeTimers \ getExpired
  /\ expired' = getExpired /\ toRun' = getExpired
  /\ m_callingExpiredTimers' = TRUE
  /\ m_cancelingTimers' = {}
  /\ age' = 0
  /\ failed' = IF getExpired \subseteq m_activeTimers /\ SizesAgree'
               THEN failed ELSE "getExpired"
  /\ UNCHANGED <<allocated, created, expiration, interval, clockSets,
                 pendingFunctors, cancelled>>

\* The next callback of handleRead's loop, in the order of expiration.
RunTimer(t) ==
  /\ t \in toRun /\ \A u \in toRun : expiration[t] <= expiration[u]
  /\ toRun' = toRun \ {t}
  /\ UNCHANGED <<allocated, created, expiration, interval, listVars, clockVars,
                 m_callingExpiredTimers, m_cancelingTimers, expired, timerfd,
                 pendingFunctors, cancelled, failed>>

\* Wrong: cancellations by callbacks are not looked at.
AgainAll == {t \in expired : interval[t] > 0}

\* The expired timers that reset restarts.
Again == {t \in expired : interval[t] > 0 /\ t \notin m_cancelingTimers}

\* Wrong: the timerfd is set only if some timer was restarted.
RearmRestarted(timers, expires) ==
  IF Again = {} THEN timerfd
  ELSE howMuchTimeFromNow(Min({expires[t] : t \in timers}))

\* The timerfd after reset, for the timers then in the list.
Rearm(timers, expires) ==
  IF timers = {} THEN timerfd
  ELSE howMuchTimeFromNow(Min({expires[t] : t \in timers}))

\* Wrong: timers that are not restarted are not deleted.
ResetLeaking ==
  /\ m_callingExpiredTimers /\ toRun = {}
  /\ m_callingExpiredTimers' = FALSE
  /\ expiration' = [t \in Timer |-> IF t \in Again THEN interval[t] ELSE expiration[t]]
  /\ m_timers' = m_timers \cup Again
  /\ m_activeTimers' = m_activeTimers \cup Again
  /\ expired' = {}
  /\ timerfd' = Rearm(m_timers', expiration')
  /\ UNCHANGED <<allocated, created, interval, toRun, clockVars, m_cancelingTimers,
                 pendingFunctors, cancelled, failed>>

\* Timer::restart, or, for a timer that is deleted, no expiration.
Restarted(t) == IF t \in Again THEN Bounded(interval[t] - age) ELSE 0

\* The end of handleRead: reset(expired, now), with the time read before the
\* callbacks.
Reset ==
  /\ m_callingExpiredTimers /\ toRun = {}
  /\ m_callingExpiredTimers' = FALSE
  /\ expiration' = [t \in Timer |-> IF t \in expired THEN Restarted(t)
                                                     ELSE expiration[t]]
  /\ m_timers' = m_timers \cup Again
  /\ m_activeTimers' = m_activeTimers \cup Again
  /\ allocated' = allocated \ (expired \ Again)
  /\ expired' = {}
  /\ timerfd' = Rearm(m_timers', expiration')
  /\ age' = 0
  /\ failed' = IF SizesAgree /\ Again \cap (m_timers \cup m_activeTimers) = {}
               THEN failed ELSE "insert"
  /\ UNCHANGED <<created, interval, toRun, clockSets, m_cancelingTimers,
                 pendingFunctors, cancelled>>

-----------------------------------------------------------------------------
\* Wall-clock time left after d ticks.
Shift(d) == [t \in Timer |-> IF t \in allocated THEN Bounded(expiration[t] - d)
                                                ELSE expiration[t]]

Tick ==
  /\ expiration' = Shift(1)
  /\ timerfd' = IF timerfd > 0 THEN timerfd - 1 ELSE timerfd
  /\ age' = IF m_callingExpiredTimers THEN Min({age + 1, MaxAge}) ELSE age
  /\ UNCHANGED <<allocated, created, interval, listVars, roundVars, clockSets,
                 m_cancelingTimers, pendingFunctors, cancelled, failed>>

\* The wall clock is set forward or back.
SetClock(d) ==
  /\ clockSets < MaxSets
  /\ clockSets' = clockSets + 1
  /\ expiration' = Shift(d)
  /\ age' = IF m_callingExpiredTimers THEN age + d ELSE age
  /\ UNCHANGED <<allocated, created, interval, listVars, roundVars,
                 m_cancelingTimers, timerfd, pendingFunctors, cancelled, failed>>

LoopStep ==
  \/ CallFunctor
  \/ HandleRead
  \/ \E t \in Timer : RunTimer(t)
  \/ Reset

UserStep ==
  \E t \in Timer :
    \/ \E when \in Delay, period \in Interval : \/ LoopAddTimer(t, when, period)
                                                \/ AddTimer(t, when, period)
    \/ LoopCancel(t)
    \/ Cancel(t)

Next ==
  /\ failed = "no"
  /\ \/ LoopStep
     \/ UserStep
     \/ Tick
     \/ \E d \in {-1, 1} : SetClock(d)

Spec == Init /\ [][Next]_vars

\* The loop thread is scheduled, callbacks return and time passes.  Strong
\* fairness, because every round of EventLoop::loop first handles the events and
\* then runs the functors: neither can keep the loop from the other.
FairSpec ==
  /\ Spec
  /\ WF_vars(failed = "no" /\ LoopStep)
  /\ SF_vars(failed = "no" /\ CallFunctor)
  /\ SF_vars(failed = "no" /\ HandleRead)
  /\ WF_vars(failed = "no" /\ Tick)

-----------------------------------------------------------------------------
InPending(op, t) ==
  \E i \in 1 .. Len(pendingFunctors) : pendingFunctors[i] = [op |-> op, t |-> t]

\* Every Timer object has exactly one owner: an addTimerInLoop that is still
\* queued, the list of timers, or the vector of the round that runs it.  So
\* none is leaked, deleted twice or used after it was deleted.
TimerOwned ==
  /\ TypeOK
  /\ \A t \in Timer :
       /\ t \in allocated <=> \/ InPending("addTimerInLoop", t)
                              \/ t \in m_timers
                              \/ t \in expired
       /\ ~(t \in m_timers /\ t \in expired)
       /\ InPending("addTimerInLoop", t) => t \notin m_timers \cup expired

\* Between two rounds a queue that is not empty has its timerfd armed, however
\* the wall clock is set, and in time for the earliest timer, as long as nobody
\* sets that clock: addTimerInLoop and reset together forget no timer.
ArmedInTime ==
  ~m_callingExpiredTimers =>
    /\ m_timers # {} => timerfd # Disarmed
    /\ clockSets = 0 =>
         \A t \in m_timers : timerfd <= howMuchTimeFromNow(expiration[t])

\* A repeated timer cancelled by a callback of the round that runs it is not
\* restarted, whatever else its callbacks do.
CancelledStays == cancelled \cap m_timers = {}

\* Every timer that was added, or restarted, is run.
TimersRun ==
  \A t \in Timer : t \in allocated \ expired ~> t \in expired \/ failed # "no"
=============================================================================
