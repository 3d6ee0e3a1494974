---------------------------- MODULE MCTcpServer ----------------------------
(***************************************************************************)
(* Finite instances of TcpServer.                                          *)
(***************************************************************************)
EXTENDS TcpServer

CONSTANTS c1, c2, w1

MCConn == {c1, c2}
MCOneConn == {c1}
MCWorker == {w1}

\* What loop callbacks and RPC workers do.
SafeCalls == {"send", "shutdown", "workerSend"}

MCSymmetry == Permutations(MCConn)
=============================================================================
