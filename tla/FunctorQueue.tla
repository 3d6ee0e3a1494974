---------------------------- MODULE FunctorQueue ----------------------------
(***************************************************************************)
(* What an EventLoop promises to the threads that hand it functors: it is  *)
(* one queue.  A functor enters it once, functors leave it in the order    *)
(* in which they entered, and each of them runs at most once.  Which       *)
(* thread pushed, how the vector is swapped out and how the loop is woken  *)
(* are details of the module EventLoop, which implements this one.         *)
(***************************************************************************)
EXTENDS Sequences

CONSTANT Functor        \* the calls of queueInLoop, each one its own value

VARIABLES queue,        \* accepted and not yet started, oldest first
          ran           \* started, oldest first

qvars == <<queue, ran>>

QInit == queue = <<>> /\ ran = <<>>

Enqueue(f) == queue' = Append(queue, f) /\ UNCHANGED ran

Run ==
  /\ queue # <<>>
  /\ ran' = Append(ran, Head(queue))
  /\ queue' = Tail(queue)

QNext == Run \/ \E f \in Functor : Enqueue(f)

QSpec == QInit /\ [][QNext]_qvars
=============================================================================
