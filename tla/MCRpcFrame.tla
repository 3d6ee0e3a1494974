---------------------------- MODULE MCRpcFrame ----------------------------
(***************************************************************************)
(* Small instances of RpcFrame: two calls, for a registered method or not, *)
(* and two workers.                                                        *)
(***************************************************************************)
EXTENDS RpcFrame

CONSTANTS c1, c2, w1, w2

MCConn == {c1, c2}
MCWorker == {w1, w2}

\* A request arrives in one read, as it does when it fits one segment.
MCWhole == {2}

\* A request may arrive in two.
MCPieces == {1, 2}
=============================================================================
