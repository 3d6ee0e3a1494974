----------------------- MODULE EventLoopThreadProofs -----------------------
(***************************************************************************)
(* EventLoopThread's destructor and its thread, for any number of threads, *)
(* channels and functors.  The destructor joins only when it saw p_loop    *)
(* set; ThreadInv says what p_loop and the owner's place tell about the    *)
(* thread's place, whatever the loop does in between.                      *)
(***************************************************************************)
EXTENDS EventLoopThread, EventLoopProofs

\* p_loop is set exactly while the thread may still reset it; the owner is past
\* startLoop only after the thread has published the loop, and gone only when the
\* thread does not touch the object any more.
ThreadInv ==
  /\ p_loop \in BOOLEAN
  /\ p_loop <=> threadPc \in {"enter", "loop", "clear"}
  /\ ownerPc = "new" => threadPc = "none"
  /\ threadPc = "none" => ownerPc \in {"new", "gone"}
  /\ ownerPc \in {"running", "quit", "join"} =>
       threadPc \in {"enter", "loop", "clear", "destruct", "exited"}
  /\ ownerPc = "gone" => threadPc \in {"none", "destruct", "exited"}

\* The invariant is inductive, for every step of the thread, of its owner and of others.
LEMMA ThreadInvInductive == ThreadInv /\ [ThreadNext]_allVars => ThreadInv'
<1> SUFFICES ASSUME ThreadInv, [ThreadNext]_allVars PROVE ThreadInv'
  OBVIOUS
<1> USE DEF ThreadInv
<1>1. CASE Constructed
  BY <1>1 DEF Constructed
<1>2. CASE Notify
  BY <1>2 DEF Notify
<1>3. CASE Enter
  BY <1>3 DEF Enter
<1>4. CASE Looping
  BY <1>4 DEF Looping
<1>5. CASE Clear
  BY <1>5 DEF Clear
<1>6. CASE Destruct
  BY <1>6 DEF Destruct
<1>7. CASE StartLoopReturn
  BY <1>7 DEF StartLoopReturn
<1>8. CASE QuitReturn
  BY <1>8 DEF QuitReturn
<1>9. CASE Join
  BY <1>9 DEF Join
<1>10. CASE StartLoop
  BY <1>10 DEF StartLoop
<1>11. CASE DestroyIdle
  BY <1>11 DEF DestroyIdle
<1>12. CASE DestroyRunning
  BY <1>12 DEF DestroyRunning
<1>13. CASE LoopingMay \/ (\E f \in Functor : InitCallback(f)) \/ Others
  BY <1>13 DEF LoopingMay, InitCallback, Others, ownVars
<1>14. CASE UNCHANGED allVars
  BY <1>14 DEF allVars, ownVars
<1> QED
  BY <1>1, <1>2, <1>3, <1>4, <1>5, <1>6, <1>7, <1>8, <1>9, <1>10, <1>11, <1>12,
     <1>13, <1>14 DEF ThreadNext, ThreadStep, OwnerStep

\* Every step of the thread, its owner and the others is one of the loop's or leaves the
\* loop alone, but for ~EventLoop's assertion; so the types of EventLoop are kept.
LEMMA ThreadTypePreserved ==
  ASSUME Owner \in Thread
  PROVE  ThreadTypeOK /\ [ThreadNext]_allVars => ThreadTypeOK'
<1> SUFFICES ASSUME ThreadTypeOK, [ThreadNext]_allVars PROVE ThreadTypeOK'
  OBVIOUS
<1>1. TypeOK /\ ([Next]_vars => TypeOK')
  BY TypePreserved DEF ThreadTypeOK
<1>2. CASE Destruct
  BY <1>1, <1>2 DEF Destruct, ThreadTypeOK, TypeOK, loopVars
<1>3. CASE ~Destruct
  <2>1. [Next]_vars
    BY <1>3 DEF ThreadNext, ThreadStep, OwnerStep, Constructed, Notify, Enter, Looping,
      Clear, StartLoopReturn, QuitReturn, Join, StartLoop, DestroyIdle, DestroyRunning,
      LoopingMay, InitCallback, Others, allVars, Next
  <2>2. p_loop' \in BOOLEAN
    BY <1>3 DEF ThreadTypeOK, ThreadNext, ThreadStep, OwnerStep, Constructed, Notify,
      Enter, Looping, Clear, StartLoopReturn, QuitReturn, Join, StartLoop, DestroyIdle,
      DestroyRunning, LoopingMay, InitCallback, Others, allVars, ownVars
  <2>3. threadPc' \in {"none", "construct", "notify", "enter", "loop", "clear",
                        "destruct", "exited"}
    BY <1>3 DEF ThreadTypeOK, ThreadNext, ThreadStep, OwnerStep, Constructed, Notify,
      Enter, Looping, Clear, StartLoopReturn, QuitReturn, Join, StartLoop, DestroyIdle,
      DestroyRunning, LoopingMay, InitCallback, Others, allVars, ownVars
  <2>4. ownerPc' \in {"new", "wait", "running", "quit", "join", "gone"}
    BY <1>3 DEF ThreadTypeOK, ThreadNext, ThreadStep, OwnerStep, Constructed, Notify,
      Enter, Looping, Clear, StartLoopReturn, QuitReturn, Join, StartLoop, DestroyIdle,
      DestroyRunning, LoopingMay, InitCallback, Others, allVars, ownVars
  <2> QED
    BY <1>1, <2>1, <2>2, <2>3, <2>4 DEF ThreadTypeOK
<1> QED
  BY <1>2, <1>3

\* However the loop ends (by quit() from the destructor, or from a callback before the
\* destructor looks), the thread is past its last use of the EventLoopThread when the
\* destructor returns.
THEOREM OwnerAlwaysOutlives ==
  ASSUME Owner \in Thread
  PROVE  ThreadSpec => []OwnerOutlivesThread
<1>1. ThreadInit => ThreadInv /\ ThreadTypeOK
  BY InitIInv DEF ThreadInit, ThreadInv, ThreadTypeOK, IInv
<1>2. ThreadInv /\ ThreadTypeOK => OwnerOutlivesThread
  BY DEF ThreadInv, OwnerOutlivesThread
<1>3. ThreadInv /\ ThreadTypeOK /\ [ThreadNext]_allVars => (ThreadInv /\ ThreadTypeOK)'
  BY ThreadInvInductive, ThreadTypePreserved
<1> QED
  BY <1>1, <1>2, <1>3, PTL DEF ThreadSpec
=============================================================================
