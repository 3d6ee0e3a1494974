------------------------------ MODULE Acceptor ------------------------------
(***************************************************************************)
(* net/Acceptor: the listening socket, and the idle descriptor it gives up *)
(* for a moment when the process has no descriptor left, so that it can    *)
(* take a connection out of the backlog and close it.  Otherwise the       *)
(* socket stays readable and the loop turns without end.                   *)
(*                                                                         *)
(* Other threads open and close descriptors too (the log starts a file,    *)
(* services use files), between any two calls of the handler.  close(2)    *)
(* closes a number, whoever has it by now.                                 *)
(*                                                                         *)
(* The operator marked Wrong is a variant of the definition after it.      *)
(***************************************************************************)
EXTENDS Naturals

CONSTANTS Number, NoNumber,     \* the descriptors left to connections and others
          MaxClients,           \* bound: how many clients connect
          MaxOpens              \* bound: how often other threads open something

ASSUME AcceptAssumption ==
  /\ NoNumber \notin Number /\ Number # {}
  /\ MaxClients \in Nat /\ MaxOpens \in Nat

VARIABLES
  m_listenning, m_idleFd,
  acceptPc,             \* the loop: in poll, in a call of handleRead, or "gone"
  backlog, clients,     \* connections to be accepted; how many clients there were
  used,                 \* the numbers that are open
  conns,                \* those of connections
  theirs, opens         \* those of other threads; how many they opened

acceptVars == <<m_listenning, m_idleFd, acceptPc, backlog, clients, used, conns,
                theirs, opens>>

AcceptTypeOK ==
  /\ m_listenning \in BOOLEAN /\ m_idleFd \in Number \cup {NoNumber}
  /\ acceptPc \in {"poll", "read", "accept", "close", "open", "gone"}
  /\ backlog \in 0 .. MaxClients /\ clients \in 0 .. MaxClients
  /\ used \subseteq Number /\ conns \subseteq Number /\ theirs \subseteq Number
  /\ opens \in 0 .. MaxOpens

\* The constructor, which asserts that it got the idle descriptor.
AcceptInit ==
  /\ m_listenning = FALSE /\ m_idleFd \in Number
  /\ acceptPc = "poll" /\ backlog = 0 /\ clients = 0
  /\ used = {m_idleFd} /\ conns = {} /\ theirs = {} /\ opens = 0

Unused == Number \ used

-----------------------------------------------------------------------------
(* The loop thread.                                                        *)

listen ==
  /\ acceptPc = "poll" /\ ~m_listenning
  /\ m_listenning' = TRUE
  /\ UNCHANGED <<m_idleFd, acceptPc, backlog, clients, used, conns, theirs, opens>>

AcceptPoll ==
  /\ acceptPc = "poll" /\ m_listenning /\ backlog > 0
  /\ acceptPc' = "read"
  /\ UNCHANGED <<m_listenning, m_idleFd, backlog, clients, used, conns, theirs, opens>>

\* accept4 succeeds and newConnection gets the descriptor, or nobody is waiting
\* any more.  (Of the errors, EMFILE follows; the unexpected ones end the process.)
Accepts ==
  /\ acceptPc = "read" /\ acceptPc' = "poll"
  /\ \/ /\ backlog > 0 /\ backlog' = backlog - 1
        /\ \E n \in Unused : used' = used \cup {n} /\ conns' = conns \cup {n}
     \/ /\ backlog = 0 /\ UNCHANGED <<backlog, used, conns>>
  /\ UNCHANGED <<m_listenning, m_idleFd, clients, theirs, opens>>

\* Wrong: nothing is done about EMFILE.
EmfileIgnored ==
  /\ acceptPc = "read" /\ Unused = {}
  /\ acceptPc' = "poll"
  /\ UNCHANGED <<m_listenning, m_idleFd, backlog, clients, used, conns, theirs, opens>>

\* accept4 fails with EMFILE, and the idle descriptor is closed.
Emfile ==
  /\ acceptPc = "read" /\ Unused = {}
  /\ acceptPc' = "accept"
  /\ used' = used \ {m_idleFd}
  /\ UNCHANGED <<m_listenning, m_idleFd, backlog, clients, conns, theirs, opens>>

\* m_idleFd = accept(...), which fails if nobody waits or the number is taken.
AcceptIdle ==
  /\ acceptPc = "accept" /\ acceptPc' = "close"
  /\ \/ /\ backlog > 0 /\ backlog' = backlog - 1
        /\ \E n \in Unused : used' = used \cup {n} /\ m_idleFd' = n
     \/ /\ backlog = 0 \/ Unused = {}
        /\ m_idleFd' = NoNumber
        /\ UNCHANGED <<backlog, used>>
  /\ UNCHANGED <<m_listenning, clients, conns, theirs, opens>>

CloseIdle ==
  /\ acceptPc = "close" /\ acceptPc' = "open"
  /\ used' = used \ {m_idleFd}
  /\ UNCHANGED <<m_listenning, m_idleFd, backlog, clients, conns, theirs, opens>>

\* m_idleFd = open("/dev/null", ...), which fails if all numbers are taken.
OpenIdle ==
  /\ acceptPc = "open" /\ acceptPc' = "poll"
  /\ \/ \E n \in Unused : used' = used \cup {n} /\ m_idleFd' = n
     \/ Unused = {} /\ m_idleFd' = NoNumber /\ UNCHANGED used
  /\ UNCHANGED <<m_listenning, backlog, clients, conns, theirs, opens>>

\* The destructor; the listening socket and its backlog go with it.
DestroyAcceptor ==
  /\ acceptPc = "poll" /\ acceptPc' = "gone"
  /\ used' = used \ {m_idleFd}
  /\ m_idleFd' = NoNumber /\ backlog' = 0 /\ m_listenning' = FALSE
  /\ UNCHANGED <<clients, conns, theirs, opens>>

\* A connection is destroyed.
CloseConnection ==
  /\ acceptPc \in {"poll", "gone"}
  /\ \E n \in conns : conns' = conns \ {n} /\ used' = used \ {n}
  /\ UNCHANGED <<m_listenning, m_idleFd, acceptPc, backlog, clients, theirs, opens>>

-----------------------------------------------------------------------------
(* The others.                                                             *)

ClientConnects ==
  /\ m_listenning /\ clients < MaxClients
  /\ clients' = clients + 1 /\ backlog' = backlog + 1
  /\ UNCHANGED <<m_listenning, m_idleFd, acceptPc, used, conns, theirs, opens>>

\* A client leaves before it was accepted.
ClientLeaves ==
  /\ backlog > 0 /\ backlog' = backlog - 1
  /\ UNCHANGED <<m_listenning, m_idleFd, acceptPc, clients, used, conns, theirs, opens>>

OtherOpens ==
  /\ opens < MaxOpens /\ opens' = opens + 1
  /\ \E n \in Unused : used' = used \cup {n} /\ theirs' = theirs \cup {n}
  /\ UNCHANGED <<m_listenning, m_idleFd, acceptPc, backlog, clients, conns>>

OtherCloses ==
  /\ \E n \in theirs : theirs' = theirs \ {n} /\ used' = used \ {n}
  /\ UNCHANGED <<m_listenning, m_idleFd, acceptPc, backlog, clients, conns, opens>>

HandlesAccept ==
  AcceptPoll \/ Accepts \/ Emfile \/ AcceptIdle \/ CloseIdle \/ OpenIdle

AcceptNext ==
  \/ HandlesAccept \/ listen \/ DestroyAcceptor \/ CloseConnection
  \/ ClientConnects \/ ClientLeaves \/ OtherOpens \/ OtherCloses

-----------------------------------------------------------------------------
\* The handler closes no descriptor of a connection or of another thread, though
\* the number it closes may have changed hands since it last had it, and it
\* leaks none.
IdleOwned ==
  /\ AcceptTypeOK
  /\ conns \cup theirs \subseteq used /\ conns \cap theirs = {}
  /\ used \ (conns \cup theirs) \subseteq {m_idleFd}
  /\ acceptPc \in {"poll", "read", "close"} => m_idleFd \notin conns \cup theirs

\* A waiting connection is accepted, or refused, though no descriptor may be
\* left for it, unless other threads took the one that was kept for this.
BacklogServed ==
  backlog > 0 ~> (backlog = 0 \/ (acceptPc = "poll" /\ m_idleFd = NoNumber))
=============================================================================
