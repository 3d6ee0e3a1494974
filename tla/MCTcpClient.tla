---------------------------- MODULE MCTcpClient ----------------------------
(***************************************************************************)
(* Finite instances of the two ends of connecting, the client's TcpClient  *)
(* and the server's Acceptor; a behaviour is of one of them.               *)
(*                                                                         *)
(* The client has three descriptors: one attempt, one connection and one   *)
(* being destroyed.  The acceptor has two, one of them idle: a connection  *)
(* or another thread uses the other one up.                                *)
(***************************************************************************)
EXTENDS TcpClient, Acceptor

CONSTANTS fd1, fd2, fd3, n1, n2

VARIABLE subject

MCFd == {fd1, fd2, fd3}
MCNumber == {n1, n2}

\* connect() once, then stop and disconnect in any order.
MCStops == {"stop", "disconnect"}

MCInit == Init /\ AcceptInit /\ subject \in {"client", "acceptor"}

MCNext ==
  \/ subject = "client" /\ Next /\ UNCHANGED <<acceptVars, subject>>
  \/ subject = "acceptor" /\ AcceptNext /\ UNCHANGED <<vars, subject>>

Client == subject = "client" /\ failed = "no" /\ UNCHANGED <<acceptVars, subject>>

\* The fairness of TcpClient's FairSpec; the loop of the acceptor is scheduled.
MCSpec ==
  /\ MCInit /\ [][MCNext]_<<vars, acceptVars, subject>>
  /\ WF_vars(ThreadStep /\ Client)
  /\ WF_vars(LoopStep /\ Client)
  /\ SF_vars(Poll /\ "timer" \in active' /\ Client)
  /\ WF_acceptVars(subject = "acceptor" /\ HandlesAccept /\ UNCHANGED <<vars, subject>>)

\* No descriptor leaks and none is closed by someone else, in the client (between
\* attempt, connection and destruction) and in the server (between the idle
\* descriptor, connections and other threads).
DescriptorsOwned == FdOwned /\ IdleOwned
=============================================================================
