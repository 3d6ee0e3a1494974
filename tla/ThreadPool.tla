----------------------------- MODULE ThreadPool -----------------------------
(***************************************************************************)
(* base/ThreadPool: a bounded task queue between the callers of run() and  *)
(* the pool's threads, with two condition variables, and stop().           *)
(*                                                                         *)
(* What a thread does while it holds mutex_ is one step; a wait gives the  *)
(* mutex up and is therefore a place of its own ("wait").  A thread that   *)
(* is woken goes back to the test of its while loop ("take", "run").       *)
(* notify() wakes one waiting thread if there is one, and a wait may also  *)
(* end by itself.                                                          *)
(*                                                                         *)
(* The pool has been started with at least one thread: with none, run()    *)
(* calls the task in place and there is nothing to check.                  *)
(*                                                                         *)
(* Operators marked Wrong are variants of the definition after them, used  *)
(* to see that a property can fail (PROJECT.json, mutants).                *)
(***************************************************************************)
EXTENDS Naturals, Sequences, FiniteSets

CONSTANTS Thread,       \* the pool's threads
          Caller,       \* the threads that call run()
          Task,         \* the calls of run(), each one its own value
          NoTask,
          maxQueueSize_ \* 0: no limit

ASSUME PoolAssumption ==
  /\ Thread # {} /\ IsFiniteSet(Thread) /\ IsFiniteSet(Caller)
  /\ NoTask \notin Task /\ maxQueueSize_ \in Nat

VARIABLES
  running_, queue_,     \* guarded by mutex_
  pc,                   \* the pool's threads
  task,                 \* the task a pool thread took
  callerPc, arg,        \* the callers, and the task each is handing over
  stopPc,               \* the thread that calls stop()
  accepted, taken       \* histories: tasks in the order of push and of pop

poolVars == <<running_, queue_>>
threadVars == <<pc, task>>
callerVars == <<callerPc, arg>>
vars == <<poolVars, threadVars, callerVars, stopPc, accepted, taken>>

TypeOK ==
  /\ running_ \in BOOLEAN
  /\ queue_ \in Seq(Task)
  /\ pc \in [Thread -> {"while", "take", "wait", "task", "exit"}]
  /\ task \in [Thread -> Task \cup {NoTask}]
  /\ callerPc \in [Caller -> {"idle", "run", "wait"}]
  /\ arg \in [Caller -> Task \cup {NoTask}]
  /\ stopPc \in {"no", "join", "done"}
  /\ accepted \in Seq(Task) /\ taken \in Seq(Task)

\* The state start() leaves.
Init ==
  /\ running_ = TRUE /\ queue_ = <<>>
  /\ pc = [t \in Thread |-> "while"] /\ task = [t \in Thread |-> NoTask]
  /\ callerPc = [c \in Caller |-> "idle"] /\ arg = [c \in Caller |-> NoTask]
  /\ stopPc = "no"
  /\ accepted = <<>> /\ taken = <<>>

isFull == maxQueueSize_ > 0 /\ Len(queue_) >= maxQueueSize_

\* Condition::notify and notifyAll: where threads may be afterwards, when a
\* woken one goes back to the place back.
Notify(places, back) ==
  LET waiting == {x \in DOMAIN places : places[x] = "wait"}
  IN  IF waiting = {} THEN {places}
      ELSE {[places EXCEPT ![x] = back] : x \in waiting}

NotifyAll(places, back) ==
  [x \in DOMAIN places |-> IF places[x] = "wait" THEN back ELSE places[x]]

(***************************************************************************)
(* run().                                                                  *)
(***************************************************************************)
CallRun(c, t) ==
  /\ callerPc[c] = "idle"
  /\ \A d \in Caller : arg[d] # t
  /\ \A i \in 1 .. Len(accepted) : accepted[i] # t
  /\ callerPc' = [callerPc EXCEPT ![c] = "run"]
  /\ arg' = [arg EXCEPT ![c] = t]
  /\ UNCHANGED <<poolVars, threadVars, stopPc, accepted, taken>>

RunWait(c) ==
  /\ callerPc[c] = "run" /\ isFull /\ running_
  /\ callerPc' = [callerPc EXCEPT ![c] = "wait"]
  /\ UNCHANGED <<poolVars, threadVars, arg, stopPc, accepted, taken>>

\* The pool was stopped: the task is not taken.
RunStopped(c) ==
  /\ callerPc[c] = "run" /\ ~running_
  /\ callerPc' = [callerPc EXCEPT ![c] = "idle"]
  /\ arg' = [arg EXCEPT ![c] = NoTask]
  /\ UNCHANGED <<poolVars, threadVars, stopPc, accepted, taken>>

\* Wrong: nobody is told.
RunPushSilent(c) ==
  /\ callerPc[c] = "run" /\ ~isFull /\ running_
  /\ queue_' = Append(queue_, arg[c])
  /\ accepted' = Append(accepted, arg[c])
  /\ callerPc' = [callerPc EXCEPT ![c] = "idle"]
  /\ arg' = [arg EXCEPT ![c] = NoTask]
  /\ UNCHANGED <<running_, threadVars, stopPc, taken>>

RunPush(c) ==
  /\ callerPc[c] = "run" /\ ~isFull /\ running_
  /\ queue_' = Append(queue_, arg[c])
  /\ accepted' = Append(accepted, arg[c])
  /\ pc' \in Notify(pc, "take")
  /\ callerPc' = [callerPc EXCEPT ![c] = "idle"]
  /\ arg' = [arg EXCEPT ![c] = NoTask]
  /\ UNCHANGED <<running_, task, stopPc, taken>>

(***************************************************************************)
(* runInThread() and take().                                               *)
(***************************************************************************)
WhileRunning(t) ==
  /\ pc[t] = "while"
  /\ pc' = [pc EXCEPT ![t] = IF running_ THEN "take" ELSE "exit"]
  /\ UNCHANGED <<poolVars, task, callerVars, stopPc, accepted, taken>>

TakeWait(t) ==
  /\ pc[t] = "take" /\ queue_ = <<>> /\ running_
  /\ pc' = [pc EXCEPT ![t] = "wait"]
  /\ UNCHANGED <<poolVars, task, callerVars, stopPc, accepted, taken>>

\* take() returns an empty task.
TakeNothing(t) ==
  /\ pc[t] = "take" /\ queue_ = <<>> /\ ~running_
  /\ pc' = [pc EXCEPT ![t] = "while"]
  /\ UNCHANGED <<poolVars, task, callerVars, stopPc, accepted, taken>>

\* Wrong: a caller that waits for room is not told.
TakeSilent(t) ==
  /\ pc[t] = "take" /\ queue_ # <<>>
  /\ task' = [task EXCEPT ![t] = Head(queue_)]
  /\ queue_' = Tail(queue_)
  /\ taken' = Append(taken, Head(queue_))
  /\ pc' = [pc EXCEPT ![t] = "task"]
  /\ UNCHANGED <<running_, callerVars, stopPc, accepted>>

Take(t) ==
  /\ pc[t] = "take" /\ queue_ # <<>>
  /\ task' = [task EXCEPT ![t] = Head(queue_)]
  /\ queue_' = Tail(queue_)
  /\ taken' = Append(taken, Head(queue_))
  /\ pc' = [pc EXCEPT ![t] = "task"]
  /\ IF maxQueueSize_ > 0 THEN callerPc' \in Notify(callerPc, "run")
                          ELSE UNCHANGED callerPc
  /\ UNCHANGED <<running_, arg, stopPc, accepted>>

\* The task returns.
TaskDone(t) ==
  /\ pc[t] = "task"
  /\ pc' = [pc EXCEPT ![t] = "while"]
  /\ task' = [task EXCEPT ![t] = NoTask]
  /\ UNCHANGED <<poolVars, callerVars, stopPc, accepted, taken>>

(***************************************************************************)
(* stop().                                                                 *)
(***************************************************************************)
\* Wrong: the callers that wait for room are not woken.
StopHalf ==
  /\ stopPc = "no"
  /\ stopPc' = "join"
  /\ running_' = FALSE
  /\ pc' = NotifyAll(pc, "take")
  /\ UNCHANGED <<queue_, task, callerVars, accepted, taken>>

Stop ==
  /\ stopPc = "no"
  /\ stopPc' = "join"
  /\ running_' = FALSE
  /\ pc' = NotifyAll(pc, "take")
  /\ callerPc' = NotifyAll(callerPc, "run")
  /\ UNCHANGED <<queue_, task, arg, accepted, taken>>

Join ==
  /\ stopPc = "join" /\ \A t \in Thread : pc[t] = "exit"
  /\ stopPc' = "done"
  /\ UNCHANGED <<poolVars, threadVars, callerVars, accepted, taken>>

\* A wait that ends without a notification.
Spurious ==
  \/ /\ \E t \in Thread : pc[t] = "wait" /\ pc' = [pc EXCEPT ![t] = "take"]
     /\ UNCHANGED <<poolVars, task, callerVars, stopPc, accepted, taken>>
  \/ /\ \E c \in Caller : /\ callerPc[c] = "wait"
                          /\ callerPc' = [callerPc EXCEPT ![c] = "run"]
     /\ UNCHANGED <<poolVars, threadVars, arg, stopPc, accepted, taken>>

ThreadStep(t) ==
  \/ WhileRunning(t) \/ TakeWait(t) \/ TakeNothing(t) \/ Take(t) \/ TaskDone(t)

CallerStep(c) == RunWait(c) \/ RunStopped(c) \/ RunPush(c)

Next ==
  \/ \E c \in Caller : CallerStep(c) \/ \E t \in Task : CallRun(c, t)
  \/ \E t \in Thread : ThreadStep(t)
  \/ Stop \/ Join \/ Spurious

Spec == Init /\ [][Next]_vars

\* Every thread is scheduled and every task returns.  No fairness of Spurious:
\* a waiting thread depends on being notified.
Fairness ==
  /\ \A t \in Thread : WF_vars(ThreadStep(t))
  /\ \A c \in Caller : WF_vars(CallerStep(c))
  /\ WF_vars(Join)

FairSpec == Spec /\ Fairness

-----------------------------------------------------------------------------
\* The queue never holds more than maxQueueSize_ tasks: run()'s assertion
\* !isFull() before the push.
QueueBounded ==
  /\ TypeOK
  /\ maxQueueSize_ > 0 => Len(queue_) <= maxQueueSize_

\* Tasks leave the queue in the order in which run() took them, each once.
FirstInFirstOut == accepted = taken \o queue_

Awake(places, place) == Cardinality({x \in DOMAIN places : places[x] = place})

\* While some pool thread waits on notEmpty_, there
\* are as many threads on their way to the queue as there are tasks in it.
TasksAttended ==
  (\E t \in Thread : pc[t] = "wait") => Len(queue_) <= Awake(pc, "take")

\* The same for notFull_: while a caller of run() waits, there are as many
\* callers on their way as there are free places.
RoomAttended ==
  (\E c \in Caller : callerPc[c] = "wait") =>
    maxQueueSize_ <= Len(queue_) + Awake(callerPc, "run")

\* No notification is lost on either condition: whoever waits can leave what
\* there is to do to the threads already on their way.
NotificationsKept == TasksAttended /\ RoomAttended

\* A task that run() took is run, unless the pool is stopped.
TasksRun ==
  \A x \in Task : (\E i \in 1 .. Len(accepted) : accepted[i] = x)
                    ~> (\E i \in 1 .. Len(taken) : taken[i] = x) \/ ~running_

\* run() returns: the pool makes room, or stop() wakes the caller.
RunReturns == \A c \in Caller : callerPc[c] # "idle" ~> callerPc[c] = "idle"

\* stop() returns: every thread of the pool leaves its loop.
PoolStops == stopPc = "join" ~> stopPc = "done"
=============================================================================
