-------------------------- MODULE EventLoopThread --------------------------
(***************************************************************************)
(* net/EventLoopThread: a thread that runs one EventLoop on its stack.     *)
(* The owner starts it (startLoop), gets the loop's address and later      *)
(* destroys it.  The loop is the whole module EventLoop; this module adds  *)
(* the life of the thread, of p_loop and of the owner around it.           *)
(*                                                                         *)
(* threadPc:  "none", "construct" (EventLoop loop; and the init callback), *)
(*            "notify", "enter" (before loop.loop()), "loop", "clear"      *)
(*            (before p_loop = NULL), "destruct" (before ~EventLoop),      *)
(*            "exited"                                                     *)
(* ownerPc:   "new", "wait" (in startLoop), "running", "quit" (in          *)
(*            p_loop->quit()), "join", "gone" (the object is destroyed)    *)
(***************************************************************************)
EXTENDS EventLoop

CONSTANT Owner          \* one of Thread

VARIABLES p_loop,       \* p_loop # NULL
          threadPc,
          ownerPc

ownVars == <<p_loop, threadPc, ownerPc>>
allVars == <<vars, ownVars>>

ThreadTypeOK ==
  /\ TypeOK
  /\ p_loop \in BOOLEAN
  /\ threadPc \in {"none", "construct", "notify", "enter", "loop", "clear",
                   "destruct", "exited"}
  /\ ownerPc \in {"new", "wait", "running", "quit", "join", "gone"}

ThreadInit ==
  /\ Init
  /\ p_loop = FALSE
  /\ threadPc = "none"
  /\ ownerPc = "new"

-----------------------------------------------------------------------------
(* The owner.                                                              *)

\* startLoop starts the thread ...
StartLoop ==
  /\ ownerPc = "new"
  /\ ownerPc' = "wait"
  /\ threadPc' = "construct"
  /\ UNCHANGED <<vars, p_loop>>

\* ... and returns when it sees p_loop set.
StartLoopReturn ==
  /\ ownerPc = "wait"
  /\ p_loop
  /\ ownerPc' = "running"
  /\ UNCHANGED <<vars, p_loop, threadPc>>

\* The destructor of a thread never started, or whose loop has ended by itself ...
DestroyIdle ==
  /\ ownerPc \in {"new", "running"}
  /\ ~p_loop
  /\ ownerPc' = "gone"
  /\ UNCHANGED <<vars, p_loop, threadPc>>

\* ... and of one whose p_loop it finds set: p_loop->quit(), its assertion first.
DestroyRunning ==
  /\ ownerPc = "running"
  /\ p_loop
  /\ Quit(Owner)
  /\ ownerPc' = "quit"
  /\ UNCHANGED <<p_loop, threadPc>>

\* quit() returns after its wakeup, and the owner joins.
QuitReturn ==
  /\ ownerPc = "quit"
  /\ FinishCall(Owner)
  /\ ownerPc' = IF pc'[Owner] = "idle" THEN "join" ELSE "quit"
  /\ UNCHANGED <<p_loop, threadPc>>

JoinNoWait ==
  /\ ownerPc = "join"
  /\ ownerPc' = "gone"
  /\ UNCHANGED <<vars, p_loop, threadPc>>

Join ==
  /\ ownerPc = "join"
  /\ threadPc = "exited"
  /\ ownerPc' = "gone"
  /\ UNCHANGED <<vars, p_loop, threadPc>>

-----------------------------------------------------------------------------
(* threadFunc                                                              *)

\* The init callback may queue functors before anyone else knows the loop.
InitCallback(f) ==
  /\ threadPc = "construct"
  /\ LoopQueueInLoop(f)
  /\ UNCHANGED ownVars

Constructed ==
  /\ threadPc = "construct"
  /\ threadPc' = "notify"
  /\ UNCHANGED <<vars, p_loop, ownerPc>>

Notify ==
  /\ threadPc = "notify"
  /\ p_loop' = TRUE
  /\ threadPc' = "enter"
  /\ UNCHANGED <<vars, ownerPc>>

Enter ==
  /\ threadPc = "enter"
  /\ EnterLoop
  /\ threadPc' = "loop"
  /\ UNCHANGED <<p_loop, ownerPc>>

\* loop.loop() up to and including its return.
Looping ==
  /\ threadPc = "loop"
  /\ LoopStep
  /\ threadPc' = IF loopPc' = "idle" THEN "clear" ELSE "loop"
  /\ UNCHANGED <<p_loop, ownerPc>>

\* The steps of a loop that nothing obliges it to take.
LoopingMay ==
  /\ threadPc = "loop"
  /\ \/ PollTimeout
     \/ LoopQuit
     \/ \E f \in Functor : LoopQueueInLoop(f)
     \/ \E c \in Channel : ChannelReady(c)
  /\ UNCHANGED ownVars

Clear ==
  /\ threadPc = "clear"
  /\ p_loop' = FALSE
  /\ threadPc' = "destruct"
  /\ UNCHANGED <<vars, ownerPc>>

\* ~EventLoop, with its assertion.
Destruct ==
  /\ threadPc = "destruct"
  /\ threadPc' = "exited"
  /\ aborted' = m_looping
  /\ UNCHANGED <<loopVars, m_quit, m_pendingFunctors, wakeupFd, ready, pc, early,
                 order, p_loop, ownerPc>>

-----------------------------------------------------------------------------

\* The other threads begin calls between startLoop and the destructor.
Others ==
  /\ \E t \in Thread \ {Owner} :
       \/ FinishCall(t)
       \/ ownerPc = "running" /\ p_loop /\ \E f \in Functor : QueueInLoop(t, f)
  /\ UNCHANGED ownVars

ThreadStep == Constructed \/ Notify \/ Enter \/ Looping \/ Clear \/ Destruct
OwnerStep == StartLoopReturn \/ QuitReturn \/ Join

ThreadNext ==
  /\ ~aborted
  /\ \/ ThreadStep
     \/ OwnerStep
     \/ StartLoop
     \/ DestroyIdle
     \/ DestroyRunning
     \/ LoopingMay
     \/ \E f \in Functor : InitCallback(f)
     \/ Others

ThreadSpec ==
  /\ ThreadInit
  /\ [][ThreadNext]_allVars
  /\ WF_allVars(~aborted /\ ThreadStep)
  /\ WF_allVars(~aborted /\ OwnerStep)
  /\ \A t \in Thread \ {Owner} :
       WF_allVars(~aborted /\ FinishCall(t) /\ UNCHANGED ownVars)

-----------------------------------------------------------------------------

\* The thread function uses the members of its EventLoopThread (the mutex, p_loop)
\* only while the object exists: the destructor, which decides by an unlocked look at
\* p_loop whether to join, is never gone before the thread's last access.
OwnerOutlivesThread ==
  /\ ThreadTypeOK
  /\ ownerPc = "gone" => threadPc \in {"none", "destruct", "exited"}

\* startLoop returns unless the loop it waits for has already ended by itself: the
\* notify cannot be missed, since p_loop is tested under m_mutex, but a callback that
\* quits the loop early resets p_loop, and then startLoop waits for ever.
StartLoopReturns == ownerPc = "wait" ~> ownerPc = "running" \/ threadPc = "exited"

\* A destructor that got past quit() ends: join() returns.
DestructorEnds == ownerPc \in {"quit", "join"} ~> ownerPc = "gone" \/ aborted
=============================================================================
