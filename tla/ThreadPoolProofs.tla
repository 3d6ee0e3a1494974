-------------------------- MODULE ThreadPoolProofs --------------------------
(***************************************************************************)
(* What ThreadPool guarantees for any number of threads, callers and tasks *)
(* and for any maxQueueSize_.  The argument is PoolInv: beside the two     *)
(* counts of NotificationsKept it needs that nobody waits in a stopped     *)
(* pool (stop() wakes everyone and both waits test running_ again), since  *)
(* there callers leave without using the place they were woken for.        *)
(***************************************************************************)
EXTENDS ThreadPool, FiniteSetTheorems, SequenceTheorems, TLAPS

\* A caller in run() holds the task it hands over, and a stopped pool has no waiters.
Handing == \A c \in Caller : callerPc[c] # "idle" => arg[c] \in Task
StoppedIsAwake ==
  ~running_ => /\ \A t \in Thread : pc[t] # "wait"
               /\ \A c \in Caller : callerPc[c] # "wait"

PoolInv ==
  /\ TypeOK /\ Handing /\ StoppedIsAwake
  /\ QueueBounded /\ FirstInFirstOut /\ NotificationsKept

-----------------------------------------------------------------------------
(* How many are at a place when one moves.                                 *)

\* g is f after x has moved.
Moved(f, x, to, g) == g = [f EXCEPT ![x] = to]

\* A number.
LEMMA AwakeType ==
  ASSUME NEW S, IsFiniteSet(S), NEW P, NEW f \in [S -> P], NEW place
  PROVE  Awake(f, place) \in Nat
<1>1. {x \in DOMAIN f : f[x] = place} \in SUBSET S
  OBVIOUS
<1> QED
  BY <1>1, FS_Subset, FS_CardinalityType DEF Awake

\* One arrives: one more.
LEMMA AwakeArrives ==
  ASSUME NEW S, IsFiniteSet(S), NEW P, NEW f \in [S -> P], NEW x \in S, NEW place,
         NEW g, Moved(f, x, place, g), f[x] # place
  PROVE  Awake(g, place) = Awake(f, place) + 1
<1> DEFINE A == {y \in DOMAIN f : f[y] = place}
<1>1. A \in SUBSET S /\ x \notin A
  OBVIOUS
<1>2. {y \in DOMAIN g : g[y] = place} = A \cup {x}
  BY DEF Moved
<1>3. IsFiniteSet(A)
  BY <1>1, FS_Subset
<1> HIDE DEF A
<1>4. Cardinality(A \cup {x}) = Cardinality(A) + 1
  BY <1>1, <1>3, FS_AddElement
<1> QED
  BY <1>2, <1>4 DEF Awake, A

\* One leaves: one less.
LEMMA AwakeLeaves ==
  ASSUME NEW S, IsFiniteSet(S), NEW P, NEW f \in [S -> P], NEW x \in S, NEW place,
         NEW to, NEW g, Moved(f, x, to, g), f[x] = place, to # place
  PROVE  Awake(g, place) = Awake(f, place) - 1
<1> DEFINE A == {y \in DOMAIN f : f[y] = place}
<1>1. A \in SUBSET S /\ x \in A
  OBVIOUS
<1>2. {y \in DOMAIN g : g[y] = place} = A \ {x}
  BY DEF Moved
<1>3. IsFiniteSet(A)
  BY <1>1, FS_Subset
<1> HIDE DEF A
<1>4. Cardinality(A \ {x}) = Cardinality(A) - 1
  BY <1>1, <1>3, FS_RemoveElement
<1> QED
  BY <1>2, <1>4 DEF Awake, A

\* One goes from one other place to another: as many.
LEMMA AwakePasses ==
  ASSUME NEW S, NEW P, NEW f \in [S -> P], NEW x \in S, NEW place, NEW to,
         NEW g, Moved(f, x, to, g), f[x] # place, to # place
  PROVE  Awake(g, place) = Awake(f, place)
<1>1. {y \in DOMAIN g : g[y] = place} = {y \in DOMAIN f : f[y] = place}
  BY DEF Moved
<1> QED
  BY <1>1 DEF Awake

\* What notify leaves: everybody where they were when nobody waits, otherwise one of the
\* waiting on its way.
LEMMA NotifyChoice ==
  ASSUME NEW S, NEW P, NEW f \in [S -> P], NEW back, NEW g \in Notify(f, back)
  PROVE  \/ g = f /\ \A y \in S : f[y] # "wait"
         \/ \E x \in S : f[x] = "wait" /\ g = [f EXCEPT ![x] = back]
BY DEF Notify

\* The places after a notify are places.
LEMMA NotifyType ==
  ASSUME NEW S, NEW P, NEW f \in [S -> P], NEW back \in P, NEW g \in Notify(f, back)
  PROVE  g \in [S -> P]
BY NotifyChoice

-----------------------------------------------------------------------------
(* The steps.                                                              *)

\* Types, what callers hand over, and the empty waiting rooms of a stopped pool.
LEMMA TypeStep ==
  PoolInv /\ [Next]_vars => TypeOK' /\ Handing' /\ StoppedIsAwake'
<1> SUFFICES ASSUME PoolInv, [Next]_vars PROVE TypeOK' /\ Handing' /\ StoppedIsAwake'
  OBVIOUS
<1> USE DEF PoolInv, TypeOK, Handing, StoppedIsAwake
<1>1. ASSUME NEW c \in Caller, NEW t \in Task, CallRun(c, t)
      PROVE  TypeOK' /\ Handing' /\ StoppedIsAwake'
  BY <1>1 DEF CallRun, poolVars, threadVars
<1>2. ASSUME NEW c \in Caller, RunWait(c) PROVE TypeOK' /\ Handing' /\ StoppedIsAwake'
  BY <1>2 DEF RunWait, poolVars, threadVars
<1>3. ASSUME NEW c \in Caller, RunStopped(c) PROVE TypeOK' /\ Handing' /\ StoppedIsAwake'
  BY <1>3 DEF RunStopped, poolVars, threadVars
<1>4. ASSUME NEW c \in Caller, RunPush(c) PROVE TypeOK' /\ Handing' /\ StoppedIsAwake'
  <2>1. pc' \in [Thread -> {"while", "take", "wait", "task", "exit"}]
    <3> DEFINE P == {"while", "take", "wait", "task", "exit"}
    <3>1. pc \in [Thread -> P] /\ "take" \in P /\ pc' \in Notify(pc, "take")
      BY <1>4 DEF RunPush
    <3> HIDE DEF P, TypeOK, Handing, StoppedIsAwake, PoolInv
    <3>2. pc' \in [Thread -> P]
      BY <3>1, NotifyType, Zenon
    <3> QED
      BY <3>2 DEF P
  <2>2. running_' /\ arg[c] \in Task
    BY <1>4 DEF RunPush
  <2> QED
    BY <1>4, <2>1, <2>2 DEF RunPush
<1>5. ASSUME NEW t \in Thread, WhileRunning(t)
      PROVE  TypeOK' /\ Handing' /\ StoppedIsAwake'
  BY <1>5 DEF WhileRunning, poolVars, callerVars
<1>6. ASSUME NEW t \in Thread, TakeWait(t) PROVE TypeOK' /\ Handing' /\ StoppedIsAwake'
  BY <1>6 DEF TakeWait, poolVars, callerVars
<1>7. ASSUME NEW t \in Thread, TakeNothing(t)
      PROVE  TypeOK' /\ Handing' /\ StoppedIsAwake'
  BY <1>7 DEF TakeNothing, poolVars, callerVars
<1>8. ASSUME NEW t \in Thread, Take(t) PROVE TypeOK' /\ Handing' /\ StoppedIsAwake'
  <2>1. /\ callerPc' \in [Caller -> {"idle", "run", "wait"}]
        /\ \A y \in Caller : callerPc'[y] = callerPc[y]
                             \/ (callerPc[y] = "wait" /\ callerPc'[y] = "run")
    <3>1. CASE maxQueueSize_ > 0
      <4> DEFINE P == {"idle", "run", "wait"}
      <4>1. callerPc \in [Caller -> P] /\ "run" \in P /\ callerPc' \in Notify(callerPc, "run")
        BY <1>8, <3>1 DEF Take
      <4> HIDE DEF P, TypeOK, Handing, StoppedIsAwake, PoolInv
      <4>2. callerPc' \in [Caller -> P]
        BY <4>1, NotifyType, Zenon
      <4>3. \A y \in Caller : callerPc'[y] = callerPc[y]
                              \/ (callerPc[y] = "wait" /\ callerPc'[y] = "run")
        <5>1. \/ callerPc' = callerPc /\ \A y \in Caller : callerPc[y] # "wait"
              \/ \E x \in Caller : /\ callerPc[x] = "wait"
                                   /\ callerPc' = [callerPc EXCEPT ![x] = "run"]
          BY <4>1 DEF Notify
        <5> QED
          BY <4>1, <5>1
      <4> QED
        BY <4>2, <4>3 DEF P
    <3>2. CASE ~(maxQueueSize_ > 0)
      BY <1>8, <3>2 DEF Take
    <3> QED
      BY <3>1, <3>2
  <2>2. Head(queue_) \in Task /\ Tail(queue_) \in Seq(Task)
    BY <1>8 DEF Take
  <2> QED
    BY <1>8, <2>1, <2>2 DEF Take
<1>9. ASSUME NEW t \in Thread, TaskDone(t) PROVE TypeOK' /\ Handing' /\ StoppedIsAwake'
  BY <1>9 DEF TaskDone, poolVars, callerVars
<1>10. CASE Stop
  BY <1>10 DEF Stop, NotifyAll
<1>11. CASE Join
  BY <1>11 DEF Join, poolVars, threadVars, callerVars
<1>12. CASE Spurious
  BY <1>12 DEF Spurious, poolVars, threadVars, callerVars
<1>13. CASE UNCHANGED vars
  BY <1>13 DEF vars, poolVars, threadVars, callerVars
<1> QED
  BY <1>1, <1>2, <1>3, <1>4, <1>5, <1>6, <1>7, <1>8, <1>9, <1>10, <1>11, <1>12, <1>13
  DEF Next, CallerStep, ThreadStep

\* The steps that leave the queue and its histories alone.
Quiet == UNCHANGED <<queue_, accepted, taken>>

\* Only a push and a pop touch the queue.
LEMMA QueueSteps ==
  [Next]_vars => \/ Quiet
                 \/ \E c \in Caller : RunPush(c)
                 \/ \E t \in Thread : Take(t)
BY DEF Next, CallerStep, ThreadStep, CallRun, RunWait, RunStopped, WhileRunning, TakeWait,
  TakeNothing, TaskDone, Stop, Join, Spurious, vars, poolVars, threadVars, callerVars, Quiet

\* The limit and the order.
LEMMA QueueStep ==
  PoolInv /\ [Next]_vars => QueueBounded' /\ FirstInFirstOut'
<1> SUFFICES ASSUME PoolInv, [Next]_vars PROVE QueueBounded' /\ FirstInFirstOut'
  OBVIOUS
<1>1. TypeOK'
  BY TypeStep
<1>2. /\ queue_ \in Seq(Task) /\ taken \in Seq(Task) /\ accepted \in Seq(Task)
      /\ accepted = taken \o queue_
      /\ maxQueueSize_ > 0 => Len(queue_) <= maxQueueSize_
  BY DEF PoolInv, TypeOK, FirstInFirstOut, QueueBounded
<1>3. CASE Quiet
  BY <1>1, <1>2, <1>3 DEF Quiet, QueueBounded, FirstInFirstOut
<1>4. ASSUME NEW c \in Caller, RunPush(c) PROVE QueueBounded' /\ FirstInFirstOut'
  <2>1. /\ arg[c] \in Task /\ ~isFull
        /\ queue_' = Append(queue_, arg[c]) /\ accepted' = Append(accepted, arg[c])
        /\ taken' = taken
    BY <1>4 DEF RunPush, PoolInv, Handing
  <2>2. maxQueueSize_ > 0 => Len(queue_') <= maxQueueSize_
    BY <1>2, <2>1, PoolAssumption DEF isFull
  <2>3. accepted' = taken \o queue_'
    <3>1. <<arg[c]>> \in Seq(Task)
      BY <2>1
    <3>2. queue_' = queue_ \o <<arg[c]>> /\ accepted' = accepted \o <<arg[c]>>
      BY <1>2, <2>1, AppendIsConcat
    <3> QED
      BY <1>2, <3>1, <3>2, ConcatAssociative
  <2> QED
    BY <1>1, <2>1, <2>2, <2>3 DEF QueueBounded, FirstInFirstOut
<1>5. ASSUME NEW t \in Thread, Take(t) PROVE QueueBounded' /\ FirstInFirstOut'
  <2>1. /\ queue_ # <<>> /\ queue_' = Tail(queue_) /\ taken' = Append(taken, Head(queue_))
        /\ accepted' = accepted
    BY <1>5 DEF Take
  <2>2. Head(queue_) \in Task /\ Tail(queue_) \in Seq(Task)
    BY <1>2, <2>1
  <2>3. /\ <<Head(queue_)>> \in Seq(Task)
        /\ <<Head(queue_)>> \o Tail(queue_) = queue_
    BY <1>2, <2>1, <2>2
  <2>4. taken' = taken \o <<Head(queue_)>>
    BY <1>2, <2>1, <2>2, AppendIsConcat
  <2>5. taken' \o queue_' = taken \o queue_
    BY <1>2, <2>1, <2>2, <2>3, <2>4, ConcatAssociative
  <2>6. Len(queue_') <= Len(queue_)
    BY <1>2, <2>1, HeadTailProperties
  <2>7. maxQueueSize_ > 0 => Len(queue_') <= maxQueueSize_
    <3>1. Len(queue_') \in Nat /\ Len(queue_) \in Nat
      BY <1>2, <2>1, <2>2
    <3> QED
      BY <1>2, <2>6, <3>1, PoolAssumption
  <2> QED
    BY <1>1, <1>2, <2>1, <2>5, <2>7 DEF QueueBounded, FirstInFirstOut
<1> QED
  BY <1>3, <1>4, <1>5, QueueSteps

\* The three together.
Counted(f, x, to, g, place) ==
  /\ Awake(f, place) \in Nat
  /\ f[x] # place /\ to = place => Awake(g, place) = Awake(f, place) + 1
  /\ f[x] = place /\ to # place => Awake(g, place) = Awake(f, place) - 1
  /\ f[x] # place /\ to # place => Awake(g, place) = Awake(f, place)

\* Whoever moves, the three hold.
LEMMA CountFacts ==
  ASSUME NEW S, IsFiniteSet(S), NEW P, NEW f \in [S -> P], NEW x \in S, NEW place, NEW to,
         NEW g, Moved(f, x, to, g)
  PROVE  Counted(f, x, to, g, place)
<1>1. Awake(f, place) \in Nat
  BY AwakeType
<1>2. ASSUME f[x] # place, to = place PROVE Awake(g, place) = Awake(f, place) + 1
  BY <1>2, AwakeArrives
<1>3. ASSUME f[x] = place, to # place PROVE Awake(g, place) = Awake(f, place) - 1
  BY <1>3, AwakeLeaves
<1>4. ASSUME f[x] # place, to # place PROVE Awake(g, place) = Awake(f, place)
  BY <1>4, AwakePasses
<1> QED
  BY <1>1, <1>2, <1>3, <1>4 DEF Counted

Places == {"while", "take", "wait", "task", "exit"}
CallerPlaces == {"idle", "run", "wait"}

\* notEmpty_: one case for every way a pool thread or the queue can move.
LEMMA TasksStep == PoolInv /\ [Next]_vars => TasksAttended'
<1> SUFFICES ASSUME PoolInv, [Next]_vars PROVE TasksAttended'
  OBVIOUS
<1>1. /\ queue_ \in Seq(Task) /\ Len(queue_) \in Nat /\ pc \in [Thread -> Places]
      /\ TasksAttended /\ IsFiniteSet(Thread)
  BY PoolAssumption DEF PoolInv, TypeOK, NotificationsKept, Places
<1>2. ASSUME NEW t \in Thread, NEW to, pc' = [pc EXCEPT ![t] = to]
      PROVE  Counted(pc, t, to, pc', "take")
  <2>1. Moved(pc, t, to, pc')
    BY <1>2 DEF Moved
  <2> QED
    BY <1>1, <2>1, CountFacts, Zenon
<1> USE <1>1 DEF TasksAttended
<1>3. CASE UNCHANGED <<pc, queue_>>
  BY <1>3
<1>4. ASSUME NEW c \in Caller, RunPush(c) PROVE TasksAttended'
  <2>1. Len(queue_') = Len(queue_) + 1
    BY <1>4 DEF RunPush, PoolInv, Handing
  <2>2. \/ pc' = pc /\ \A y \in Thread : pc[y] # "wait"
        \/ \E x \in Thread : pc[x] = "wait" /\ pc' = [pc EXCEPT ![x] = "take"]
    BY <1>4 DEF RunPush, Notify
  <2>3. CASE pc' = pc /\ \A y \in Thread : pc[y] # "wait"
    BY <2>3
  <2>4. ASSUME NEW x \in Thread, pc[x] = "wait", pc' = [pc EXCEPT ![x] = "take"]
        PROVE  TasksAttended'
    <3>1. Awake(pc', "take") = Awake(pc, "take") + 1 /\ Awake(pc, "take") \in Nat
      BY <1>2, <2>4 DEF Counted
    <3> QED
      BY <2>1, <2>4, <3>1
  <2> QED
    BY <2>2, <2>3, <2>4
<1>5. ASSUME NEW t \in Thread, Take(t) PROVE TasksAttended'
  <2>1. Len(queue_') = Len(queue_) - 1
    BY <1>5, HeadTailProperties DEF Take
  <2>2. pc[t] = "take" /\ pc' = [pc EXCEPT ![t] = "task"]
    BY <1>5 DEF Take
  <2>3. Awake(pc', "take") = Awake(pc, "take") - 1 /\ Awake(pc, "take") \in Nat
    <3>1. Counted(pc, t, "task", pc', "take")
      BY <1>2, <2>2
    <3> QED
      BY <2>2, <3>1 DEF Counted
  <2> QED
    BY <2>1, <2>2, <2>3
<1>6. ASSUME NEW t \in Thread, NEW to, queue_' = queue_, pc' = [pc EXCEPT ![t] = to],
             queue_ = <<>> \/ (pc[t] # "take" /\ to # "wait")
      PROVE  TasksAttended'
  <2>1. Awake(pc', "take") \in Nat
    <3>1. pc' \in [Thread -> Places]
      BY TypeStep DEF TypeOK, Places
    <3> QED
      BY <1>1, <3>1, AwakeType, Zenon
  <2>2. CASE queue_ = <<>>
    BY <1>6, <2>1, <2>2
  <2>3. CASE pc[t] # "take" /\ to # "wait"
    <3>1. Awake(pc', "take") >= Awake(pc, "take") /\ Awake(pc, "take") \in Nat
      <4>1. Counted(pc, t, to, pc', "take")
        BY <1>2, <1>6
      <4> QED
        BY <2>3, <4>1 DEF Counted
    <3> QED
      BY <1>6, <2>1, <2>3, <3>1
  <2> QED
    BY <1>6, <2>2, <2>3
<1>7. CASE Stop
  BY <1>7 DEF Stop, NotifyAll
<1>8. ASSUME NEW t \in Thread, WhileRunning(t) \/ TakeWait(t) \/ TakeNothing(t) \/ TaskDone(t)
      PROVE  TasksAttended'
  BY <1>6, <1>8 DEF WhileRunning, TakeWait, TakeNothing, TaskDone, poolVars
<1>9. CASE Spurious
  BY <1>3, <1>6, <1>9 DEF Spurious, poolVars, threadVars
<1> QED
  BY <1>3, <1>4, <1>5, <1>7, <1>8, <1>9
  DEF Next, CallerStep, ThreadStep, CallRun, RunWait, RunStopped, Join, vars, poolVars,
      threadVars

\* notFull_, in the same way; a caller that leaves a stopped pool leaves no one waiting.
LEMMA RoomStep == PoolInv /\ [Next]_vars => RoomAttended'
<1> SUFFICES ASSUME PoolInv, [Next]_vars PROVE RoomAttended'
  OBVIOUS
<1>1. /\ queue_ \in Seq(Task) /\ Len(queue_) \in Nat
      /\ callerPc \in [Caller -> CallerPlaces] /\ callerPc' \in [Caller -> CallerPlaces]
      /\ RoomAttended /\ IsFiniteSet(Caller) /\ maxQueueSize_ \in Nat
  BY PoolAssumption, TypeStep DEF PoolInv, TypeOK, NotificationsKept, CallerPlaces
<1>2. ASSUME NEW c \in Caller, NEW to, callerPc' = [callerPc EXCEPT ![c] = to]
      PROVE  Counted(callerPc, c, to, callerPc', "run")
  <2>1. Moved(callerPc, c, to, callerPc')
    BY <1>2 DEF Moved
  <2> QED
    BY <1>1, <2>1, CountFacts, Zenon
<1>3. Awake(callerPc', "run") \in Nat /\ Awake(callerPc, "run") \in Nat
  BY <1>1, AwakeType, Zenon
<1> USE <1>1, <1>3 DEF RoomAttended
<1>4. CASE UNCHANGED <<callerPc, queue_>>
  BY <1>4
<1>5. ASSUME NEW c \in Caller, RunPush(c) PROVE RoomAttended'
  <2>1. Len(queue_') = Len(queue_) + 1
    BY <1>5 DEF RunPush, PoolInv, Handing
  <2>2. callerPc[c] = "run" /\ callerPc' = [callerPc EXCEPT ![c] = "idle"]
    BY <1>5 DEF RunPush
  <2>3. Awake(callerPc', "run") = Awake(callerPc, "run") - 1
    <3>1. Counted(callerPc, c, "idle", callerPc', "run")
      BY <1>2, <2>2
    <3> QED
      BY <2>2, <3>1 DEF Counted
  <2> QED
    BY <2>1, <2>2, <2>3
<1>6. ASSUME NEW t \in Thread, Take(t) PROVE RoomAttended'
  <2>1. Len(queue_') = Len(queue_) - 1
    BY <1>6, HeadTailProperties DEF Take
  <2>2. CASE maxQueueSize_ = 0
    <3>1. Len(queue_') \in Nat
      BY <1>6, TypeStep DEF TypeOK
    <3> QED
      BY <2>2, <3>1
  <2>3. CASE maxQueueSize_ > 0
    <3>1. \/ callerPc' = callerPc /\ \A y \in Caller : callerPc[y] # "wait"
          \/ \E x \in Caller : /\ callerPc[x] = "wait"
                               /\ callerPc' = [callerPc EXCEPT ![x] = "run"]
      BY <1>6, <2>3 DEF Take, Notify
    <3>2. CASE callerPc' = callerPc /\ \A y \in Caller : callerPc[y] # "wait"
      BY <3>2
    <3>3. ASSUME NEW x \in Caller, callerPc[x] = "wait",
                 callerPc' = [callerPc EXCEPT ![x] = "run"]
          PROVE  RoomAttended'
      <4>1. Counted(callerPc, x, "run", callerPc', "run")
        BY <1>2, <3>3
      <4>2. Awake(callerPc', "run") = Awake(callerPc, "run") + 1
        BY <3>3, <4>1 DEF Counted
      <4> QED
        BY <2>1, <3>3, <4>2
    <3> QED
      BY <3>1, <3>2, <3>3
  <2> QED
    BY <2>2, <2>3
<1>7. ASSUME NEW c \in Caller, queue_' = queue_, callerPc[c] # "run",
             callerPc' = [callerPc EXCEPT ![c] = "run"]
      PROVE  RoomAttended'
  <2>1. Counted(callerPc, c, "run", callerPc', "run")
    BY <1>2, <1>7
  <2>2. Awake(callerPc', "run") = Awake(callerPc, "run") + 1
    BY <1>7, <2>1 DEF Counted
  <2> QED
    BY <1>7, <2>2
<1>8. ASSUME NEW c \in Caller, NEW t \in Task, CallRun(c, t) PROVE RoomAttended'
  BY <1>7, <1>8 DEF CallRun, poolVars
<1>9. ASSUME NEW c \in Caller, RunWait(c) PROVE RoomAttended'
  BY <1>9 DEF RunWait, poolVars, isFull
<1>10. ASSUME NEW c \in Caller, RunStopped(c) PROVE RoomAttended'
  BY <1>10 DEF RunStopped, PoolInv, StoppedIsAwake
<1>11. CASE Stop
  BY <1>11 DEF Stop, NotifyAll
<1>12. CASE Spurious
  BY <1>4, <1>7, <1>12 DEF Spurious, poolVars, callerVars
<1> QED
  BY <1>4, <1>5, <1>6, <1>8, <1>9, <1>10, <1>11, <1>12
  DEF Next, CallerStep, ThreadStep, WhileRunning, TakeWait, TakeNothing, TaskDone, Join,
      vars, poolVars, callerVars

-----------------------------------------------------------------------------
\* What start() leaves satisfies the invariant.
LEMMA PoolInvInit == Init => PoolInv
<1> SUFFICES ASSUME Init PROVE PoolInv
  OBVIOUS
<1>1. TypeOK /\ Handing /\ StoppedIsAwake
  BY DEF Init, TypeOK, Handing, StoppedIsAwake
<1>2. QueueBounded /\ NotificationsKept
  BY <1>1, PoolAssumption
  DEF Init, QueueBounded, NotificationsKept, TasksAttended, RoomAttended
<1>3. FirstInFirstOut
  BY ConcatEmptySeq DEF Init, FirstInFirstOut
<1> QED
  BY <1>1, <1>2, <1>3 DEF PoolInv

\* PoolInv holds throughout, for run(), take(), stop() and waits that end by themselves.
THEOREM PoolInductive == Spec => []PoolInv
<1>1. PoolInv /\ [Next]_vars => PoolInv'
  BY TypeStep, QueueStep, TasksStep, RoomStep DEF PoolInv, NotificationsKept
<1> QED
  BY PoolInvInit, <1>1, PTL DEF Spec

\* run()'s assertion !isFull() before the push: the queue never outgrows maxQueueSize_.
THEOREM QueueAlwaysBounded == Spec => []QueueBounded
BY PoolInductive, PTL DEF PoolInv

\* take() hands out the tasks in the order run() accepted them, each one once.
THEOREM TasksInOrder == Spec => []FirstInFirstOut
BY PoolInductive, PTL DEF PoolInv

\* No notify() of notEmpty_ or notFull_ is lost though each wakes one thread only: one
\* notification per push and per pop is enough for any number of threads and callers.
THEOREM NotificationsAlwaysKept == Spec => []NotificationsKept
BY PoolInductive, PTL DEF PoolInv
=============================================================================
