--------------------------- MODULE TcpServerProofs ---------------------------
(***************************************************************************)
(* What TcpServer guarantees of each connection, for any number of         *)
(* connections, workers, messages and pending functors and whatever calls  *)
(* the users make.  ServerInv says of one connection (Sound) how its       *)
(* output buffer, its events, the FIN and the DOWN callback go together    *)
(* while it is in connections_ and after; of the queues it needs that a    *)
(* connectDestroyed is queued only for a connection out of the map, and    *)
(* that everyone who refers to a connection refers to an accepted one.     *)
(***************************************************************************)
EXTENDS TcpServer, TLAPS

\* One connection: r its record, in: in connections_, alive: exists, over: the loop has
\* been left.
Sound(r, in, alive, over) ==
  /\ r \in Connection
  /\ r.peer = "none" => /\ ~in /\ ~alive /\ ~r.out /\ ~r.wrShut /\ ~r.unread
                        /\ r.m_state = "kConnecting" /\ r.m_events = {} /\ r.downs = 0
  /\ in => /\ alive /\ r.downs = 0
           /\ r.out <=> "write" \in r.m_events
           /\ r.wrShut => ~r.out
  /\ r.downs <= 1
  /\ r.peer # "none" /\ ~in /\ ~over => r.downs = 1

Over == phase \in {"ended", "gone"}

AllSound ==
  /\ conn = [c \in Conn |-> conn[c]]
  /\ \A c \in Conn : Sound(conn[c], c \in connections_, c \in exists, Over)

\* A queue of functors.
QueueSound(fs) ==
  /\ fs \in Seq(Functor)
  /\ \A i \in DOMAIN fs : /\ conn[fs[i].c].peer # "none"
                          /\ fs[i].op = "connectDestroyed" => fs[i].c \notin connections_

WorkersSound ==
  /\ toWorkers \in Seq(Conn)
  /\ \A i \in DOMAIN toWorkers : conn[toWorkers[i]].peer # "none"
  /\ held = [w \in Worker |-> held[w]] /\ workerPc = [w \in Worker |-> workerPc[w]]
  /\ \A w \in Worker : workerPc[w] # "idle" =>
                         held[w] \in Conn /\ conn[held[w]].peer # "none"

ServerInv ==
  /\ exists \subseteq Conn /\ connections_ \subseteq Conn
  /\ AllSound /\ WorkersSound
  /\ QueueSound(m_pendingFunctors) /\ QueueSound(functors)

-----------------------------------------------------------------------------
(* What the handlers make of one record.                                   *)

\* The bytes sendInLoop could not write are left in the buffer, and the socket watched.
LEMMA AppendSound ==
  ASSUME NEW r, NEW alive, NEW over, NEW in, Sound(r, in, alive, over), r.peer # "none",
         in => ~r.wrShut \/ r.out
  PROVE  Sound([r EXCEPT !.out = TRUE, !.m_events = @ \cup {"write"}], in, alive, over)
BY DEF Sound, Connection

\* handleWrite with everything written, then shutdownInLoop while disconnecting.
LEMMA WroteSound ==
  ASSUME NEW r, NEW alive, NEW over, NEW in, Sound(r, in, alive, over), r.peer # "none"
  PROVE  Sound([r EXCEPT !.out = FALSE, !.m_events = @ \ {"write"}], in, alive, over)
BY DEF Sound, Connection

\* shutdownInLoop.
LEMMA ShutdownSound ==
  ASSUME NEW r, NEW alive, NEW over, NEW in, Sound(r, in, alive, over), r.peer # "none"
  PROVE  Sound(shutdownInLoop(r), in, alive, over) /\ shutdownInLoop(r).peer # "none"
BY DEF Sound, Connection, shutdownInLoop

\* Another m_state, of an accepted connection.
LEMMA StateSound ==
  ASSUME NEW r, NEW alive, NEW over, NEW in, Sound(r, in, alive, over), r.peer # "none",
         NEW s \in {"kDisConnected", "kConnecting", "kDisConnecting", "kConnected"}
  PROVE  /\ Sound([r EXCEPT !.m_state = s], in, alive, over)
         /\ [r EXCEPT !.m_state = s].peer # "none"
BY DEF Sound, Connection

\* getsockopt and read clear what the socket holds.
LEMMA SocketSound ==
  ASSUME NEW r, NEW alive, NEW over, NEW in, Sound(r, in, alive, over)
  PROVE  /\ Sound([r EXCEPT !.soError = FALSE], in, alive, over)
         /\ Sound([r EXCEPT !.unread = FALSE], in, alive, over)
BY DEF Sound, Connection

\* handleClose, which takes the connection out of the map and reports DOWN.
LEMMA CloseSound ==
  ASSUME NEW r, NEW alive, NEW over, Sound(r, TRUE, alive, over)
  PROVE  Sound([r EXCEPT !.m_state = "kDisConnected", !.m_events = {}, !.downs = @ + 1],
               FALSE, alive, over)
<1> DEFINE q == [r EXCEPT !.m_state = "kDisConnected", !.m_events = {}, !.downs = @ + 1]
<1>1. r \in Connection /\ r.downs = 0 /\ r.peer # "none"
  BY DEF Sound
<1>2. q.downs = 1 /\ q.peer = r.peer
  BY <1>1 DEF Connection
<1>3. q \in Connection
  <2>1. [r EXCEPT !.m_state = "kDisConnected", !.m_events = {}, !.downs = 1] \in Connection
    BY <1>1 DEF Connection
  <2>2. q = [r EXCEPT !.m_state = "kDisConnected", !.m_events = {}, !.downs = 1]
    BY <1>1
  <2> QED
    BY <2>1, <2>2
<1> QED
  BY <1>1, <1>2, <1>3 DEF Sound

\* connectDestroyed, for a connection that has left the map.
LEMMA DestroyedSound ==
  ASSUME NEW r, NEW alive, NEW over, NEW in, ~in, Sound(r, in, alive, over),
         r.peer # "none"
  PROVE  Sound(Destroyed(r), in, alive, over)
BY DEF Sound, Connection, Destroyed

-----------------------------------------------------------------------------
(* What a step leaves of the rest.                                         *)

\* An accepted connection stays accepted, and the map gains no accepted connection.
Settled ==
  \A c \in Conn : conn[c].peer # "none" =>
                    /\ conn'[c].peer # "none"
                    /\ c \in connections_' => c \in connections_

\* The holders in the worker threads.
LEMMA WorkersKept ==
  WorkersSound /\ Settled /\ UNCHANGED <<toWorkers, held, workerPc>> => WorkersSound'
BY DEF WorkersSound, Settled

\* The functors of a queue are bound to connections.
LEMMA QueueOf ==
  ASSUME NEW fs \in Seq(Functor), NEW i \in DOMAIN fs
  PROVE  fs[i] \in Functor /\ fs[i].c \in Conn
<1>1. fs[i] \in Functor
  OBVIOUS
<1> QED
  BY <1>1 DEF Functor

\* A queue that is not touched.
LEMMA QueueKept ==
  /\ QueueSound(m_pendingFunctors) /\ Settled /\ UNCHANGED m_pendingFunctors
       => QueueSound(m_pendingFunctors)'
  /\ QueueSound(functors) /\ Settled /\ UNCHANGED functors => QueueSound(functors)'
<1>1. ASSUME QueueSound(m_pendingFunctors), Settled, UNCHANGED m_pendingFunctors
      PROVE  QueueSound(m_pendingFunctors)'
  <2>1. \A i \in DOMAIN m_pendingFunctors : m_pendingFunctors[i].c \in Conn
    BY <1>1, QueueOf DEF QueueSound
  <2> QED
    BY <1>1, <2>1 DEF QueueSound, Settled
<1>2. ASSUME QueueSound(functors), Settled, UNCHANGED functors
      PROVE  QueueSound(functors)'
  <2>1. \A i \in DOMAIN functors : functors[i].c \in Conn
    BY <1>2, QueueOf DEF QueueSound
  <2> QED
    BY <1>2, <2>1 DEF QueueSound, Settled
<1> QED
  BY <1>1, <1>2

\* A push.
LEMMA QueuePushed ==
  ASSUME QueueSound(m_pendingFunctors), Settled, NEW op, NEW c \in Conn,
         [op |-> op, c |-> c] \in Functor,
         queueInLoop(op, c), conn[c].peer # "none",
         op = "connectDestroyed" => c \notin connections_'
  PROVE  QueueSound(m_pendingFunctors)'
<1>1. m_pendingFunctors \in Seq(Functor)
  BY DEF QueueSound
<1>2. m_pendingFunctors' = Append(m_pendingFunctors, [op |-> op, c |-> c])
  BY DEF queueInLoop
<1>3. m_pendingFunctors' \in Seq(Functor)
  BY <1>1, <1>2
<1>4. ASSUME NEW i \in DOMAIN m_pendingFunctors'
      PROVE  /\ conn'[m_pendingFunctors'[i].c].peer # "none"
             /\ m_pendingFunctors'[i].op = "connectDestroyed" =>
                  m_pendingFunctors'[i].c \notin connections_'
  <2>1. CASE i \in DOMAIN m_pendingFunctors
    <3>1. m_pendingFunctors'[i] = m_pendingFunctors[i] /\ m_pendingFunctors[i] \in Functor
      BY <1>1, <1>2, <2>1
    <3> QED
      BY <2>1, <3>1 DEF QueueSound, Settled, Functor
  <2>2. CASE i \notin DOMAIN m_pendingFunctors
    <3>1. m_pendingFunctors'[i] = [op |-> op, c |-> c]
      BY <1>1, <1>2, <2>2
    <3> QED
      BY <3>1 DEF Settled
  <2> QED
    BY <2>1, <2>2
<1> QED
  BY <1>3, <1>4 DEF QueueSound

\* A step that changes one connection and neither the map nor who exists.
LEMMA OneChanged ==
  ASSUME ServerInv, NEW c \in Conn, NEW r, conn' = [conn EXCEPT ![c] = r],
         Sound(r, c \in connections_, c \in exists, Over),
         conn[c].peer # "none" => r.peer # "none",
         UNCHANGED <<connections_, exists>>, Over' = Over
  PROVE  AllSound' /\ Settled
<1>1. conn' = [d \in Conn |-> IF d = c THEN r ELSE conn[d]]
  BY DEF ServerInv, AllSound
<1>2. Settled
  BY <1>1 DEF Settled
<1>3. \A d \in Conn : Sound(conn'[d], d \in connections_, d \in exists, Over)
  BY <1>1 DEF ServerInv, AllSound
<1> QED
  BY <1>1, <1>2, <1>3 DEF AllSound

\* A step that changes no connection.
LEMMA NoneChanged ==
  ASSUME ServerInv, UNCHANGED <<conn, connections_, exists>>, Over' = Over
  PROVE  AllSound' /\ Settled
BY DEF ServerInv, AllSound, Settled

\* The last conjunct of the steps that drop references.
LEMMA ReleaseKeeps ==
  ASSUME Release, connections_' \subseteq exists
  PROVE  connections_' \subseteq exists' /\ exists' \subseteq exists
BY DEF Release, Referenced

-----------------------------------------------------------------------------
(* The handlers, by what they make of the connection variables.  Each is   *)
(* one step of the loop in the middle of which nothing else is touched.    *)

\* What is left to show of a step that keeps connections accepted and touches no queue.
LEMMA QuietStep ==
  ASSUME ServerInv, AllSound', Settled, UNCHANGED <<exists, connections_>>,
         UNCHANGED <<m_pendingFunctors, functors, toWorkers, held, workerPc>>
  PROVE  ServerInv'
BY WorkersKept, QueueKept DEF ServerInv

\* A step that changes at most one connection, to a sound one.
LEMMA OneStep ==
  ASSUME ServerInv, NEW c \in Conn, NEW r, conn' = [conn EXCEPT ![c] = r],
         Sound(r, c \in connections_, c \in exists, Over),
         conn[c].peer # "none" => r.peer # "none",
         UNCHANGED <<connections_, exists>>, Over' = Over,
         UNCHANGED <<m_pendingFunctors, functors, toWorkers, held, workerPc>>
  PROVE  ServerInv'
BY OneChanged, QuietStep

\* A step that changes none.
LEMMA StillStep ==
  ASSUME ServerInv, Over' = Over, UNCHANGED <<conn, connections_, exists>>,
         UNCHANGED <<m_pendingFunctors, functors, toWorkers, held, workerPc>>
  PROVE  ServerInv'
BY NoneChanged, QuietStep

\* sendInLoop of an accepted connection.
LEMMA SendStep ==
  ASSUME ServerInv, NEW c \in Conn, conn[c].peer # "none", sendInLoop(c),
         UNCHANGED <<exists, functors, toWorkers, held, workerPc>>, Over' = Over
  PROVE  ServerInv'
<1>1. Sound(conn[c], c \in connections_, c \in exists, Over)
  BY DEF ServerInv, AllSound
<1>2. CASE UNCHANGED conn /\ UNCHANGED <<connections_, m_pendingFunctors>>
  BY <1>2, StillStep
<1>3. ASSUME conn' = [conn EXCEPT ![c].soError = FALSE], OnlyConn PROVE ServerInv'
  <2> DEFINE r == [conn[c] EXCEPT !.soError = FALSE]
  <2>1. Sound(r, c \in connections_, c \in exists, Over)
    BY <1>1, SocketSound
  <2>2. r.peer = conn[c].peer
    BY <1>1 DEF Sound, Connection
  <2>3. conn' = [conn EXCEPT ![c] = r]
    BY <1>3
  <2> HIDE DEF r
  <2> QED
    BY <1>3, <2>1, <2>2, <2>3, OneStep DEF OnlyConn
<1>4. ASSUME appendOutput(c), ~Broken(c) \/ conn[c].out \/ isWriting(c) PROVE ServerInv'
  <2> DEFINE r == [conn[c] EXCEPT !.out = TRUE, !.m_events = @ \cup {"write"}]
  <2>1. c \in connections_ => ~conn[c].wrShut \/ conn[c].out
    BY <1>1, <1>4 DEF Broken, isWriting, Sound
  <2>2. Sound(r, c \in connections_, c \in exists, Over)
    BY <1>1, <2>1, AppendSound
  <2>3. r.peer = conn[c].peer
    BY <1>1 DEF Sound, Connection
  <2>4. conn' = [conn EXCEPT ![c] = r]
    BY <1>4 DEF appendOutput, ServerInv, AllSound
  <2> HIDE DEF r
  <2> QED
    BY <1>4, <2>2, <2>3, <2>4, OneStep DEF appendOutput, OnlyConn
<1> QED
  BY <1>2, <1>3, <1>4 DEF sendInLoop, BrokenWrite, Abort, connVars

\* handleClose, called for an event or by forceCloseInLoop.
LEMMA CloseStep ==
  ASSUME ServerInv, NEW c \in Conn, handleClose(c),
         UNCHANGED <<exists, functors, toWorkers, held, workerPc>>, Over' = Over
  PROVE  ServerInv'
<1>1. CASE UNCHANGED <<conn, connections_, m_pendingFunctors>>
  BY <1>1, StillStep
<1>2. ASSUME c \in connections_, removeConnection(c),
             conn' = [conn EXCEPT ![c].m_state = "kDisConnected",
                                  ![c].m_events = {}, ![c].downs = @ + 1]
      PROVE  ServerInv'
  <2> DEFINE r == [conn[c] EXCEPT !.m_state = "kDisConnected", !.m_events = {},
                                  !.downs = @ + 1]
  <2>1. Sound(conn[c], TRUE, c \in exists, Over) /\ conn[c].peer # "none"
    <3>1. Sound(conn[c], c \in connections_, c \in exists, Over)
      BY DEF ServerInv, AllSound
    <3> QED
      BY <1>2, <3>1 DEF Sound
  <2>2. Sound(r, FALSE, c \in exists, Over)
    BY <2>1, CloseSound
  <2>3. r.peer = conn[c].peer
    BY <2>1 DEF Sound, Connection
  <2>4. conn' = [d \in Conn |-> IF d = c THEN r ELSE conn[d]]
    BY <1>2 DEF ServerInv, AllSound
  <2> HIDE DEF r
  <2>5. connections_' = connections_ \ {c} /\ queueInLoop("connectDestroyed", c)
    BY <1>2 DEF removeConnection
  <2>6. Settled
    BY <2>1, <2>3, <2>4, <2>5 DEF Settled
  <2>7. AllSound'
    <3>1. \A d \in Conn : Sound(conn'[d], d \in connections_', d \in exists', Over')
      <4> TAKE d \in Conn
      <4>1. CASE d = c
        <5>1. conn'[d] = r /\ (d \in connections_') = FALSE /\ (d \in exists') = (c \in exists)
          BY <2>4, <2>5, <4>1
        <5> QED
          BY <2>2, <5>1 DEF Sound
      <4>2. CASE d # c
        <5>1. Sound(conn[d], d \in connections_, d \in exists, Over)
          BY DEF ServerInv, AllSound
        <5>2. conn'[d] = conn[d] /\ (d \in connections_' <=> d \in connections_)
              /\ (d \in exists' <=> d \in exists)
          BY <2>4, <2>5, <4>2
        <5> QED
          BY <5>1, <5>2 DEF Sound
      <4> QED
        BY <4>1, <4>2
    <3> QED
      BY <2>4, <3>1 DEF AllSound
  <2>8. QueueSound(m_pendingFunctors)'
    <3>1. [op |-> "connectDestroyed", c |-> c] \in Functor
      BY DEF Functor
    <3> QED
      BY <2>1, <2>5, <2>6, <3>1, QueuePushed DEF ServerInv
  <2>9. WorkersSound' /\ QueueSound(functors)'
    BY <2>6, WorkersKept, QueueKept DEF ServerInv
  <2> QED
    BY <2>5, <2>7, <2>8, <2>9 DEF ServerInv
<1> QED
  BY <1>1, <1>2 DEF handleClose, Abort

\* connectDestroyed, of a connection that has left the map.
LEMMA DestroyStep ==
  ASSUME ServerInv, NEW c \in Conn, c \notin connections_, conn[c].peer # "none",
         connectDestroyed(c),
         UNCHANGED <<exists, functors, toWorkers, held, workerPc>>, Over' = Over
  PROVE  ServerInv'
<1>1. CASE UNCHANGED <<conn, connections_, m_pendingFunctors>>
  BY <1>1, StillStep
<1>2. ASSUME conn' = [conn EXCEPT ![c] = Destroyed(@)], OnlyConn PROVE ServerInv'
  <2>1. Sound(conn[c], c \in connections_, c \in exists, Over)
    BY DEF ServerInv, AllSound
  <2>2. Sound(Destroyed(conn[c]), c \in connections_, c \in exists, Over)
    BY <2>1, DestroyedSound
  <2>3. Destroyed(conn[c]).peer = conn[c].peer
    BY <2>1 DEF Sound, Connection, Destroyed
  <2>4. conn' = [conn EXCEPT ![c] = Destroyed(conn[c])]
    BY <1>2
  <2> QED
    BY <1>2, <2>2, <2>3, <2>4, OneStep DEF OnlyConn
<1> QED
  BY <1>1, <1>2 DEF connectDestroyed, Abort

-----------------------------------------------------------------------------
(* The steps of the specification.                                         *)

\* What Handling leaves alone.
LEMMA HandlingKeeps ==
  ASSUME NEW c, NEW e, Handling(c, e)
  PROVE  UNCHANGED <<exists, functors, held, workerPc>> /\ Over' = Over
BY DEF Handling, workVars, Over

\* Channel::handleEvent's callbacks, for any connection in any place of the dispatch.
LEMMA EventSteps ==
  ASSUME ServerInv, NEW c \in Conn,
         HandleClose(c) \/ HandleError(c) \/ HandleRead(c) \/ HandleWrite(c)
  PROVE  ServerInv'
<1>0. Sound(conn[c], c \in connections_, c \in exists, Over)
  BY DEF ServerInv, AllSound
<1>1. ASSUME ClearError(c), UNCHANGED <<exists, functors, held, workerPc, toWorkers>>,
             Over' = Over
      PROVE  ServerInv'
  <2> DEFINE r == [conn[c] EXCEPT !.soError = FALSE]
  <2>1. Sound(r, c \in connections_, c \in exists, Over)
    BY <1>0, SocketSound
  <2>2. r.peer = conn[c].peer
    BY <1>0 DEF Sound, Connection
  <2>3. conn' = [conn EXCEPT ![c] = r]
    BY <1>1 DEF ClearError
  <2> HIDE DEF r
  <2> QED
    BY <1>1, <2>1, <2>2, <2>3, OneStep DEF ClearError, OnlyConn
<1>2. CASE HandleClose(c)
  BY <1>2, HandlingKeeps, CloseStep DEF HandleClose
<1>3. CASE HandleError(c)
  BY <1>1, <1>3, HandlingKeeps DEF HandleError
<1>4. CASE HandleRead(c)
  <2>1. CASE handleClose(c) /\ UNCHANGED toWorkers
    BY <1>4, <2>1, HandlingKeeps, CloseStep DEF HandleRead
  <2>2. CASE ClearError(c) /\ UNCHANGED toWorkers
    BY <1>1, <1>4, <2>2, HandlingKeeps DEF HandleRead
  <2>3. ASSUME conn[c].unread, conn' = [conn EXCEPT ![c].unread = FALSE],
               toWorkers' = Append(toWorkers, c), OnlyConn
        PROVE  ServerInv'
    <3> DEFINE r == [conn[c] EXCEPT !.unread = FALSE]
    <3>1. Sound(r, c \in connections_, c \in exists, Over)
      BY <1>0, SocketSound
    <3>2. r.peer = conn[c].peer /\ conn[c].peer # "none"
      BY <1>0, <2>3 DEF Sound, Connection
    <3>3. conn' = [conn EXCEPT ![c] = r]
      BY <2>3
    <3> HIDE DEF r
    <3>4. UNCHANGED <<exists, functors, held, workerPc>> /\ Over' = Over
      BY <1>4, HandlingKeeps DEF HandleRead
    <3>5. AllSound' /\ Settled
      BY <2>3, <3>1, <3>2, <3>3, <3>4, OneChanged DEF OnlyConn
    <3>6. WorkersSound'
      BY <2>3, <3>2, <3>4, <3>5 DEF WorkersSound, Settled, ServerInv
    <3> QED
      BY <2>3, <3>4, <3>5, <3>6, QueueKept DEF ServerInv, OnlyConn
  <2> QED
    BY <1>4, <2>1, <2>2, <2>3 DEF HandleRead
<1>5. CASE HandleWrite(c)
  <2>0. UNCHANGED <<exists, functors, held, workerPc, toWorkers>> /\ Over' = Over
    BY <1>5, HandlingKeeps DEF HandleWrite
  <2>1. CASE UNCHANGED <<conn, connections_, m_pendingFunctors>>
    BY <2>0, <2>1, StillStep
  <2>2. CASE conn' = [conn EXCEPT ![c].soError = FALSE] /\ OnlyConn
    BY <1>1, <2>0, <2>2 DEF ClearError
  <2>3. ASSUME isWriting(c), WroteAll(c) PROVE ServerInv'
    <3> DEFINE q == [conn[c] EXCEPT !.out = FALSE, !.m_events = @ \ {"write"}]
               r == IF q.m_state = "kDisConnecting" THEN shutdownInLoop(q) ELSE q
    <3>1. conn[c].peer # "none"
      BY <1>0, <2>3 DEF Sound, isWriting
    <3>2. Sound(q, c \in connections_, c \in exists, Over) /\ q.peer # "none"
      BY <1>0, <3>1, WroteSound DEF Sound, Connection
    <3>3. conn' = [conn EXCEPT ![c] = r] /\ OnlyConn
      BY <2>3 DEF WroteAll
    <3> HIDE DEF q
    <3>4. Sound(r, c \in connections_, c \in exists, Over) /\ r.peer # "none"
      BY <3>2, ShutdownSound
    <3> HIDE DEF r
    <3> QED
      BY <2>0, <3>3, <3>4, OneStep DEF OnlyConn
  <2> QED
    BY <1>5, <2>1, <2>2, <2>3 DEF HandleWrite, BrokenWrite, Abort, connVars
<1> QED
  BY <1>2, <1>3, <1>4, <1>5

\* An accepted connection in the given state; and what InCallback leaves alone.
LEMMA CallbackFacts ==
  ASSUME ServerInv, NEW c \in Conn, Open(c)
  PROVE  conn[c].peer # "none" /\ Sound(conn[c], c \in connections_, c \in exists, Over)
<1>1. Sound(conn[c], c \in connections_, c \in exists, Over)
  BY DEF ServerInv, AllSound
<1> QED
  BY <1>1 DEF Sound, Open

\* send, shutdown and forceClose in a callback.
LEMMA UserSteps ==
  ASSUME ServerInv, NEW c \in Conn, LoopSend(c) \/ LoopShutdown(c) \/ LoopForceClose(c)
  PROVE  ServerInv'
<1>0. /\ conn[c].peer # "none" /\ Sound(conn[c], c \in connections_, c \in exists, Over)
      /\ UNCHANGED <<exists, functors, held, workerPc, toWorkers>> /\ Over' = Over
  <2>1. Open(c)
    BY DEF LoopSend, LoopShutdown, LoopForceClose, Connected, Open
  <2> QED
    BY <2>1, CallbackFacts
    DEF LoopSend, LoopShutdown, LoopForceClose, InCallback, loopVars, workVars, Over
<1>1. CASE LoopSend(c)
  BY <1>0, <1>1, SendStep DEF LoopSend
<1> DEFINE q == [conn[c] EXCEPT !.m_state = "kDisConnecting"]
<1>2. Sound(q, c \in connections_, c \in exists, Over) /\ q.peer # "none"
  BY <1>0, StateSound
<1>3. CASE LoopShutdown(c)
  <2>1. conn' = [conn EXCEPT ![c] = shutdownInLoop(q)] /\ OnlyConn
    BY <1>3 DEF LoopShutdown
  <2> HIDE DEF q
  <2>2. /\ Sound(shutdownInLoop(q), c \in connections_, c \in exists, Over)
        /\ shutdownInLoop(q).peer # "none"
    BY <1>2, ShutdownSound
  <2> QED
    BY <1>0, <2>1, <2>2, OneStep DEF OnlyConn
<1>4. CASE LoopForceClose(c)
  <2>1. /\ conn' = [conn EXCEPT ![c] = q] /\ connections_' = connections_
        /\ queueInLoop("forceCloseInLoop", c)
    BY <1>4 DEF LoopForceClose
  <2> HIDE DEF q
  <2>2. AllSound' /\ Settled
    BY <1>0, <1>2, <2>1, OneChanged
  <2>3. [op |-> "forceCloseInLoop", c |-> c] \in Functor
    BY DEF Functor
  <2>4. QueueSound(m_pendingFunctors)'
    BY <1>0, <2>1, <2>2, <2>3, QueuePushed DEF ServerInv
  <2> QED
    BY <1>0, <2>1, <2>2, <2>4, WorkersKept, QueueKept DEF ServerInv
<1> QED
  BY <1>1, <1>3, <1>4

\* The network's steps, and accept.
LEMMA PeerSteps ==
  ASSUME ServerInv, NEW c \in Conn, PeerSend(c) \/ PeerClose(c) \/ PeerReset(c)
  PROVE  ServerInv'
<1>1. Sound(conn[c], c \in connections_, c \in exists, Over) /\ conn[c].peer # "none"
  BY DEF ServerInv, AllSound, PeerSend, PeerClose, PeerReset
<1>2. ASSUME NEW r, PeerDoes(c, r), Sound(r, c \in connections_, c \in exists, Over),
             r.peer # "none"
      PROVE  ServerInv'
  BY <1>1, <1>2, OneStep DEF PeerDoes, loopVars, workVars, Over
<1>3. CASE PeerSend(c)
  <2> DEFINE r == [conn[c] EXCEPT !.unread = TRUE, !.arrived = @ + 1]
  <2>1. Sound(r, c \in connections_, c \in exists, Over) /\ r.peer # "none"
    <3>1. conn[c] \in Connection /\ conn[c].arrived + 1 \in 0 .. MaxIn
      BY <1>1, <1>3, ServerAssumption DEF Sound, Connection, PeerSend
    <3>2. r \in Connection
      BY <3>1 DEF Connection
    <3> QED
      BY <1>1, <3>2 DEF Sound, Connection
  <2> QED
    BY <1>2, <1>3, <2>1 DEF PeerSend
<1>4. CASE PeerClose(c)
  <2> DEFINE r == [conn[c] EXCEPT !.peer = "fin"]
  <2>1. Sound(r, c \in connections_, c \in exists, Over) /\ r.peer # "none"
    BY <1>1 DEF Sound, Connection
  <2> QED
    BY <1>2, <1>4, <2>1 DEF PeerClose
<1>5. CASE PeerReset(c)
  <2> DEFINE r == [conn[c] EXCEPT !.peer = "rst", !.soError = TRUE, !.unread = FALSE]
  <2>1. Sound(r, c \in connections_, c \in exists, Over) /\ r.peer # "none"
    BY <1>1 DEF Sound, Connection
  <2> QED
    BY <1>2, <1>5, <2>1 DEF PeerReset
<1> QED
  BY <1>3, <1>4, <1>5

\* newConnection puts a fresh connection into the map.
LEMMA AcceptStep ==
  ASSUME ServerInv, NEW c \in Conn, newConnection(c)
  PROVE  ServerInv'
<1> DEFINE r == [conn[c] EXCEPT !.peer = "open", !.m_state = "kConnected",
                                !.m_events = {"read"}, !.registered = TRUE]
<1>1. Sound(conn[c], c \in connections_, c \in exists, Over) /\ conn[c].peer = "none"
  BY DEF ServerInv, AllSound, newConnection
<1>2. Sound(r, TRUE, TRUE, Over) /\ r.peer # "none"
  BY <1>1 DEF Sound, Connection
<1>3. conn' = [d \in Conn |-> IF d = c THEN r ELSE conn[d]]
  BY DEF newConnection, connectEstablished, ServerInv, AllSound
<1>4. /\ exists' = exists \cup {c} /\ connections_' = connections_ \cup {c} /\ Over' = Over
      /\ UNCHANGED <<m_pendingFunctors, functors, held, workerPc, toWorkers>>
  BY DEF newConnection, workVars, Over
<1> HIDE DEF r
<1>5. Settled
  BY <1>1, <1>3, <1>4 DEF Settled
<1>6. \A d \in Conn : Sound(conn'[d], d \in connections_', d \in exists', Over')
  <2> TAKE d \in Conn
  <2>1. CASE d = c
    BY <1>2, <1>3, <1>4, <2>1 DEF Sound
  <2>2. CASE d # c
    <3>1. Sound(conn[d], d \in connections_, d \in exists, Over)
      BY DEF ServerInv, AllSound
    <3>2. conn'[d] = conn[d] /\ (d \in connections_' <=> d \in connections_)
          /\ (d \in exists' <=> d \in exists)
      BY <1>3, <1>4, <2>2
    <3> QED
      BY <1>4, <3>1, <3>2, SMTT(30) DEF Sound
  <2> QED
    BY <2>1, <2>2
<1> QED
  BY <1>3, <1>4, <1>5, <1>6, WorkersKept, QueueKept DEF ServerInv, AllSound

\* A step that changes no connection but may drop references: whoever is in the map stays.
LEMMA ReleaseStep ==
  ASSUME ServerInv, Release, UNCHANGED <<conn, connections_>>, Over => Over'
  PROVE  AllSound' /\ Settled /\ exists' \subseteq Conn
<1>1. connections_ \subseteq exists
  BY DEF ServerInv, AllSound, Sound
<1>2. connections_ \subseteq exists' /\ exists' \subseteq exists
  BY <1>1, ReleaseKeeps
<1>3. ASSUME NEW d \in Conn
      PROVE  Sound(conn[d], d \in connections_, d \in exists', Over')
  <2>1. Sound(conn[d], d \in connections_, d \in exists, Over)
    BY DEF ServerInv, AllSound
  <2> QED
    BY <1>2, <2>1 DEF Sound
<1> QED
  BY <1>2, <1>3 DEF ServerInv, AllSound, Settled

\* doPendingFunctors.
LEMMA FunctorSteps ==
  ASSUME ServerInv, called \in Nat, SwapFunctors \/ CallFunctor \/ FunctorsDone
  PROVE  ServerInv'
<1>1. CASE SwapFunctors
  <2>1. /\ UNCHANGED <<conn, connections_, exists, held, workerPc, toWorkers>>
        /\ functors' = m_pendingFunctors /\ m_pendingFunctors' = <<>> /\ Over' = Over
    BY <1>1 DEF SwapFunctors, workVars, Over
  <2>2. AllSound' /\ Settled
    BY <2>1, NoneChanged
  <2>3. QueueSound(m_pendingFunctors)' /\ QueueSound(functors)'
    BY <2>1 DEF ServerInv, QueueSound
  <2> QED
    BY <2>1, <2>2, <2>3, WorkersKept DEF ServerInv
<1>2. CASE CallFunctor
  <2> DEFINE f == functors[called + 1]
  <2>1. /\ UNCHANGED <<exists, functors, held, workerPc, toWorkers>> /\ Over' = Over
        /\ functors \in Seq(Functor) /\ called + 1 \in DOMAIN functors
    <3>1. /\ UNCHANGED <<exists, functors, held, workerPc, toWorkers, phase>>
          /\ called < Len(functors)
      BY <1>2, Zenon DEF CallFunctor, workVars
    <3>2. functors \in Seq(Functor)
      BY DEF ServerInv, QueueSound
    <3> QED
      BY <3>1, <3>2 DEF Over
  <2>2. /\ f.c \in Conn /\ conn[f.c].peer # "none"
        /\ f.op = "connectDestroyed" => f.c \notin connections_
        /\ Sound(conn[f.c], f.c \in connections_, f.c \in exists, Over)
    BY <2>1, QueueOf DEF ServerInv, AllSound, QueueSound
  <2>3. \/ UNCHANGED <<conn, connections_, m_pendingFunctors>>
        \/ sendInLoop(f.c)
        \/ conn' = [conn EXCEPT ![f.c] = shutdownInLoop(@)] /\ OnlyConn
        \/ forceCloseInLoop(f.c)
        \/ f.op = "connectDestroyed" /\ connectDestroyed(f.c)
    BY <1>2 DEF CallFunctor, Abort
  <2> HIDE DEF f
  <2>4. CASE UNCHANGED <<conn, connections_, m_pendingFunctors>>
    BY <2>1, <2>4, StillStep
  <2>5. CASE sendInLoop(f.c)
    BY <2>1, <2>2, <2>5, SendStep
  <2>6. CASE conn' = [conn EXCEPT ![f.c] = shutdownInLoop(@)] /\ OnlyConn
    <3>1. /\ Sound(shutdownInLoop(conn[f.c]), f.c \in connections_, f.c \in exists, Over)
          /\ shutdownInLoop(conn[f.c]).peer # "none"
      BY <2>2, ShutdownSound
    <3>2. conn' = [conn EXCEPT ![f.c] = shutdownInLoop(conn[f.c])]
      BY <2>6
    <3> QED
      BY <2>1, <2>2, <2>6, <3>1, <3>2, OneStep DEF OnlyConn
  <2>7. CASE forceCloseInLoop(f.c)
    BY <2>1, <2>2, <2>4, <2>7, CloseStep DEF forceCloseInLoop, connVars
  <2>8. CASE f.op = "connectDestroyed" /\ connectDestroyed(f.c)
    BY <2>1, <2>2, <2>8, DestroyStep
  <2> QED
    BY <2>3, <2>4, <2>5, <2>6, <2>7, <2>8
<1>3. CASE FunctorsDone
  <2>1. /\ UNCHANGED <<conn, connections_, m_pendingFunctors, held, workerPc, toWorkers>>
        /\ functors' = <<>> /\ Over' = Over /\ Release
    BY <1>3 DEF FunctorsDone, workVars, Over
  <2>2. AllSound' /\ Settled /\ exists' \subseteq Conn
    BY <2>1, ReleaseStep
  <2>3. QueueSound(functors)'
    BY <2>1 DEF QueueSound
  <2> QED
    BY <2>1, <2>2, <2>3, WorkersKept, QueueKept DEF ServerInv
<1> QED
  BY <1>1, <1>2, <1>3

\* ~TcpServer and ~EventLoop.
LEMMA EndSteps ==
  ASSUME ServerInv, DestroyServer \/ DestroyLoop
  PROVE  ServerInv'
<1>1. CASE DestroyServer
  <2>0. UNCHANGED <<functors, held, workerPc, toWorkers>> /\ Over'
    BY <1>1 DEF DestroyServer, workVars, Over
  <2>1. CASE UNCHANGED <<conn, connections_, m_pendingFunctors, exists>>
    <3>1. AllSound' /\ Settled
      BY <2>0, <2>1 DEF ServerInv, AllSound, Settled, Sound
    <3> QED
      BY <2>0, <2>1, <3>1, QuietStep
  <2>2. ASSUME conn' = [c \in Conn |-> IF c \in connections_
                                       THEN Destroyed(conn[c]) ELSE conn[c]],
               connections_' = {}, UNCHANGED m_pendingFunctors, Release
        PROVE  ServerInv'
    <3>1. exists' \subseteq exists
      BY <2>2, ReleaseKeeps
    <3>2. ASSUME NEW c \in Conn
          PROVE  /\ conn'[c].peer = conn[c].peer
                 /\ Sound(conn'[c], c \in connections_', c \in exists', Over')
      <4>1. Sound(conn[c], c \in connections_, c \in exists, Over)
        BY DEF ServerInv, AllSound
      <4>2. CASE c \in connections_
        <5>1. conn'[c] = Destroyed(conn[c])
          BY <2>2, <4>2
        <5> QED
          BY <2>0, <2>2, <4>1, <4>2, <5>1 DEF Sound, Connection, Destroyed
      <4>3. CASE c \notin connections_
        <5>1. conn'[c] = conn[c]
          BY <2>2, <4>3
        <5> QED
          BY <2>0, <2>2, <3>1, <4>1, <5>1 DEF Sound
      <4> QED
        BY <4>2, <4>3
    <3>3. AllSound' /\ Settled
      BY <2>2, <3>2 DEF AllSound, Settled
    <3> QED
      BY <2>0, <2>2, <3>1, <3>3, WorkersKept, QueueKept DEF ServerInv
  <2> QED
    BY <1>1, <2>1, <2>2 DEF DestroyServer, Abort
<1>2. CASE DestroyLoop
  <2>1. /\ UNCHANGED <<conn, connections_, functors, held, workerPc, toWorkers>>
        /\ m_pendingFunctors' = <<>> /\ Over' /\ Release
    BY <1>2 DEF DestroyLoop, workVars, Over
  <2>2. AllSound' /\ Settled /\ exists' \subseteq Conn
    BY <2>1, ReleaseStep
  <2>3. QueueSound(m_pendingFunctors)'
    BY <2>1 DEF QueueSound
  <2> QED
    BY <2>1, <2>2, <2>3, WorkersKept, QueueKept DEF ServerInv
<1> QED
  BY <1>1, <1>2

\* The workers.
LEMMA WorkerSteps ==
  ASSUME ServerInv, NEW w \in Worker, WorkerStep(w) \/ WorkerTest(w)
  PROVE  ServerInv'
<1>0. /\ UNCHANGED <<connections_, functors>> /\ Over' = Over
      /\ \E to : workerPc' = [workerPc EXCEPT ![w] = to]
  BY DEF WorkerStep, WorkerTest, WorkerTake, WorkerSet, WorkerQueue, WorkerRelease,
         WorkerGoto, loopVars, Over
<1>1. CASE WorkerTake(w)
  <2>1. /\ UNCHANGED <<conn, m_pendingFunctors, exists>> /\ toWorkers # <<>>
        /\ held' = [held EXCEPT ![w] = Head(toWorkers)] /\ toWorkers' = Tail(toWorkers)
        /\ workerPc' = [workerPc EXCEPT ![w] = "user"]
    BY <1>1 DEF WorkerTake, WorkerGoto
  <2>2. AllSound' /\ Settled
    BY <1>0, <2>1, NoneChanged
  <2>3. WorkersSound'
    <3>1. toWorkers \in Seq(Conn) /\ \A i \in DOMAIN toWorkers : conn[toWorkers[i]].peer # "none"
      BY DEF ServerInv, WorkersSound
    <3>2. /\ Head(toWorkers) \in Conn /\ conn[Head(toWorkers)].peer # "none"
          /\ Tail(toWorkers) \in Seq(Conn)
          /\ \A i \in DOMAIN Tail(toWorkers) : conn[Tail(toWorkers)[i]].peer # "none"
      BY <2>1, <3>1
    <3> QED
      BY <2>1, <3>2 DEF ServerInv, WorkersSound
  <2> QED
    BY <1>0, <2>1, <2>2, <2>3, QueueKept DEF ServerInv
<1>2. ASSUME workerPc[w] # "idle" PROVE held[w] \in Conn /\ conn[held[w]].peer # "none"
  BY <1>2 DEF ServerInv, WorkersSound
<1>3. ASSUME Settled, UNCHANGED <<toWorkers, held>>, workerPc[w] # "idle"
      PROVE  WorkersSound'
  BY <1>0, <1>3 DEF ServerInv, WorkersSound, Settled
<1>4. CASE WorkerTest(w)
  <2>1. UNCHANGED <<conn, m_pendingFunctors, exists, held, toWorkers>> /\ workerPc[w] # "idle"
    BY <1>4 DEF WorkerTest
  <2>2. AllSound' /\ Settled
    BY <1>0, <2>1, NoneChanged
  <2> QED
    BY <1>0, <1>3, <2>1, <2>2, QueueKept DEF ServerInv
<1>5. CASE WorkerSet(w)
  <2>1. /\ UNCHANGED <<m_pendingFunctors, exists, held, toWorkers>> /\ workerPc[w] # "idle"
        /\ conn' = [conn EXCEPT ![held[w]].m_state = "kDisConnecting"]
    BY <1>5 DEF WorkerSet, WorkerGoto
  <2> DEFINE c == held[w]
             r == [conn[c] EXCEPT !.m_state = "kDisConnecting"]
  <2>2. /\ c \in Conn /\ conn[c].peer # "none"
        /\ Sound(conn[c], c \in connections_, c \in exists, Over)
    BY <1>2, <2>1 DEF ServerInv, AllSound
  <2>3. Sound(r, c \in connections_, c \in exists, Over) /\ r.peer # "none"
    BY <2>2, StateSound
  <2>4. conn' = [conn EXCEPT ![c] = r]
    BY <2>1
  <2> HIDE DEF r, c
  <2>5. AllSound' /\ Settled
    BY <1>0, <2>1, <2>2, <2>3, <2>4, OneChanged
  <2> QED
    BY <1>0, <1>3, <2>1, <2>5, QueueKept DEF ServerInv
<1>6. CASE WorkerQueue(w)
  <2>1. /\ UNCHANGED <<conn, exists, held, toWorkers>> /\ workerPc[w] # "idle"
        /\ \E op \in {"sendInLoop", "shutdownInLoop", "forceCloseInLoop"} :
             queueInLoop(op, held[w])
    BY <1>6 DEF WorkerQueue, WorkerGoto
  <2>2. AllSound' /\ Settled
    BY <1>0, <2>1, NoneChanged
  <2>3. PICK op \in {"sendInLoop", "shutdownInLoop", "forceCloseInLoop"} :
               queueInLoop(op, held[w])
    BY <2>1
  <2>4. held[w] \in Conn /\ conn[held[w]].peer # "none"
    BY <1>2, <2>1
  <2>5. [op |-> op, c |-> held[w]] \in Functor /\ op # "connectDestroyed"
    BY <2>3, <2>4 DEF Functor
  <2>6. QueueSound(m_pendingFunctors)'
    BY <2>2, <2>3, <2>4, <2>5, QueuePushed DEF ServerInv
  <2> QED
    BY <1>0, <1>3, <2>1, <2>2, <2>6, QueueKept DEF ServerInv
<1>7. CASE WorkerRelease(w)
  <2>1. /\ UNCHANGED <<conn, m_pendingFunctors, toWorkers>> /\ Release
        /\ held' = [held EXCEPT ![w] = NoConn]
        /\ workerPc' = [workerPc EXCEPT ![w] = "idle"]
    BY <1>7 DEF WorkerRelease, WorkerGoto
  <2>2. AllSound' /\ Settled /\ exists' \subseteq Conn
    BY <1>0, <2>1, ReleaseStep
  <2>3. WorkersSound'
    BY <2>1, <2>2 DEF ServerInv, WorkersSound
  <2> QED
    BY <1>0, <2>1, <2>2, <2>3, QueueKept DEF ServerInv
<1> QED
  BY <1>1, <1>4, <1>5, <1>6, <1>7 DEF WorkerStep

-----------------------------------------------------------------------------
\* Init establishes the invariant.
LEMMA ServerInvInit == Init => ServerInv /\ called \in Nat
<1> SUFFICES ASSUME Init PROVE ServerInv /\ called \in Nat
  OBVIOUS
<1>1. ASSUME NEW c \in Conn PROVE Sound(conn[c], FALSE, FALSE, FALSE)
  BY ServerAssumption, SMTT(30) DEF Init, Sound, Connection
<1>2. AllSound
  <2>1. \A c \in Conn : Sound(conn[c], c \in connections_, c \in exists, Over)
    BY <1>1 DEF Init, Over, Sound
  <2> QED
    BY <2>1 DEF Init, AllSound
<1>3. WorkersSound
  BY DEF Init, WorkersSound
<1>4. QueueSound(m_pendingFunctors) /\ QueueSound(functors)
  BY DEF Init, QueueSound
<1>5. exists \subseteq Conn /\ connections_ \subseteq Conn /\ called \in Nat
  BY DEF Init
<1> QED
  BY <1>2, <1>3, <1>4, <1>5 DEF ServerInv

\* And every step keeps it.
LEMMA ServerInvNext ==
  ServerInv /\ called \in Nat /\ [Next]_vars => ServerInv' /\ called' \in Nat
<1> SUFFICES ASSUME ServerInv, called \in Nat, [Next]_vars
             PROVE  ServerInv' /\ called' \in Nat
  OBVIOUS
<1>1. called' \in Nat
  <2>1. CASE SwapFunctors \/ CallFunctor \/ FunctorsDone
    <3>1. called' = called \/ called' = called + 1 \/ called' = 0
      BY <2>1, Zenon DEF SwapFunctors, CallFunctor, FunctorsDone
    <3> QED
      BY <3>1
  <2>2. CASE Poll \/ CallbackReturn \/ UNCHANGED vars
    BY <2>2 DEF Poll, CallbackReturn, vars
  <2>3. ASSUME NEW c \in Conn,
               HandleClose(c) \/ HandleError(c) \/ HandleRead(c) \/ HandleWrite(c)
        PROVE  called' \in Nat
    BY <2>3 DEF HandleClose, HandleError, HandleRead, HandleWrite, Handling
  <2>4. ASSUME NEW c \in Conn, LoopSend(c) \/ LoopShutdown(c) \/ LoopForceClose(c)
        PROVE  called' \in Nat
    BY <2>4 DEF LoopSend, LoopShutdown, LoopForceClose, InCallback, loopVars
  <2>5. CASE DestroyServer \/ DestroyLoop
    BY <2>5 DEF DestroyServer, DestroyLoop
  <2>6. ASSUME NEW c \in Conn, newConnection(c) \/ PeerSend(c) \/ PeerClose(c) \/ PeerReset(c)
        PROVE  called' \in Nat
    BY <2>6 DEF newConnection, PeerSend, PeerClose, PeerReset, PeerDoes, loopVars
  <2>7. ASSUME NEW w \in Worker, WorkerStep(w) \/ WorkerTest(w) PROVE called' \in Nat
    BY <2>7 DEF WorkerStep, WorkerTest, WorkerTake, WorkerSet, WorkerQueue, WorkerRelease,
      WorkerGoto, loopVars
  <2> QED
    BY <2>1, <2>2, <2>3, <2>4, <2>5, <2>6, <2>7 DEF Next, LoopStep, UserStep, PeerStep
<1>2. CASE Poll \/ CallbackReturn \/ UNCHANGED vars
  BY <1>2, StillStep, SMTT(30) DEF Poll, CallbackReturn, connVars, workVars, vars, Over
<1> QED
  BY <1>1, <1>2, EventSteps, UserSteps, PeerSteps, AcceptStep, FunctorSteps, EndSteps,
     WorkerSteps
  DEF Next, LoopStep, UserStep, PeerStep

\* The invariant holds throughout, whatever the peers, the workers and the users do.
THEOREM ServerInductive == Spec => []ServerInv
<1>1. Init => ServerInv /\ called \in Nat
  BY ServerInvInit
<1>2. (ServerInv /\ called \in Nat) /\ [Next]_vars => (ServerInv /\ called \in Nat)'
  BY ServerInvNext
<1> QED
  BY <1>1, <1>2, PTL DEF Spec

\* sendInLoop and handleWrite keep the write event and the output buffer together for every
\* connection in connections_.
THEOREM OutputAlwaysWatched == Spec => []OutputWatched
<1>1. ServerInv => OutputWatched
  <2> SUFFICES ASSUME ServerInv, NEW c \in connections_
               PROVE  conn[c].out <=> isWriting(c)
    BY DEF OutputWatched
  <2>1. c \in Conn /\ Sound(conn[c], c \in connections_, c \in exists, Over)
    BY DEF ServerInv, AllSound
  <2> QED
    BY <2>1 DEF Sound, isWriting
<1> QED
  BY <1>1, ServerInductive, PTL

\* shutdownInLoop, whoever calls it and whenever, sends no FIN before the buffered output,
\* and sendInLoop buffers nothing behind a FIN.
THEOREM AlwaysFlushedBeforeFin == Spec => []FlushBeforeFin
<1>1. ServerInv => FlushBeforeFin
  <2> SUFFICES ASSUME ServerInv, NEW c \in connections_, conn[c].wrShut
               PROVE  ~conn[c].out
    BY DEF FlushBeforeFin
  <2>1. c \in Conn /\ Sound(conn[c], c \in connections_, c \in exists, Over)
    BY DEF ServerInv, AllSound
  <2> QED
    BY <2>1 DEF Sound
<1> QED
  BY <1>1, ServerInductive, PTL

\* However closes by the peer, by errors and by forceClose meet, the user hears DOWN once.
THEOREM AlwaysDownOnce == Spec => []DownOnce
<1>1. ServerInv => DownOnce
  <2> SUFFICES ASSUME ServerInv, NEW c \in Conn
               PROVE  /\ conn[c].downs <= 1
                      /\ conn[c].peer # "none" /\ c \notin exists
                           /\ phase \notin {"ended", "gone"} => conn[c].downs = 1
    BY DEF DownOnce
  <2>1. Sound(conn[c], c \in connections_, c \in exists, Over)
    BY DEF ServerInv, AllSound
  <2> QED
    BY <2>1 DEF Sound, Over
<1> QED
  BY <1>1, ServerInductive, PTL
=============================================================================
