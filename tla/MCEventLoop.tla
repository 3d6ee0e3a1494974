---------------------------- MODULE MCEventLoop ----------------------------
(***************************************************************************)
(* Finite instances of EventLoop.  Two posting threads suffice for one of  *)
(* them to be between its push and its wakeup while the other runs a whole *)
(* call; three functors let one be running, one be in the batch or pending *)
(* and one be pushed meanwhile; an eventfd that holds at most 2 reaches    *)
(* its limit.                                                              *)
(***************************************************************************)
EXTENDS EventLoop

CONSTANTS t1, t2, f1, f2, f3, c1

MCThread == {t1, t2}
MCFunctor == {f1, f2, f3}
MCChannel == {c1}
=============================================================================
