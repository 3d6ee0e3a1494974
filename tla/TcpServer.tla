----------------------------- MODULE TcpServer -----------------------------
(***************************************************************************)
(* rpc/TcpServer with the net/TcpConnections it owns, their net/Channels   *)
(* and net/Epoll: the life of a connection from accept to destruction.     *)
(*                                                                         *)
(* Every connection lives in the one loop of the server, so the loop       *)
(* thread is written as the three phases of EventLoop::loop() ("poll",     *)
(* "dispatch", "functors"); EventLoop shows that queued functors are run   *)
(* in order.  Workers are threads that got a TcpConnectionPtr from a       *)
(* message callback (rpc/RpcFrame's) and call send, shutdown or forceClose *)
(* on it; such a call is several steps, because it reads m_state, may      *)
(* write it and then queues, with no lock.                                 *)
(*                                                                         *)
(* A TcpConnection exists as long as someone holds a TcpConnectionPtr to   *)
(* it: connections_, a functor bound to shared_from_this(), or a worker.   *)
(* send and shutdown bind the raw this, which holds nothing.               *)
(*                                                                         *)
(* Left out: the write-complete and high-water callbacks, which no program *)
(* of the repository sets; contents of messages (of the output buffer only *)
(* whether it holds bytes).                                                *)
(*                                                                         *)
(* Operators marked Wrong are variants of the definition after them, used  *)
(* to see that a property can fail (PROJECT.json, mutants).                *)
(***************************************************************************)
EXTENDS Naturals, Sequences, FiniteSets, SequencesExt

CONSTANTS Conn,         \* the connections accepted, each one its own value
          Worker,       \* threads other than the loop's
          NoConn,
          Calls,        \* the calls the users of the connections make
          MaxIn,        \* bound: messages a peer sends
          MaxPending    \* bound: functors pending

AllCalls == {"send", "shutdown", "forceClose", "workerSend", "workerShutdown",
             "workerForceClose", "~TcpServer"}

ASSUME ServerAssumption ==
  /\ Calls \subseteq AllCalls
  /\ NoConn \notin Conn
  /\ {MaxIn, MaxPending} \subseteq Nat \ {0}

VARIABLES
  conn,                 \* [Conn -> Connection], below
  exists,               \* the connections constructed and not yet destroyed
  connections_,         \* TcpServer's map
  \* EventLoop: its phase and its queues of functors
  phase, m_pendingFunctors, functors,
  called,               \* how many of functors have been called
  m_revents,            \* the callbacks that handleEvent has still to call
  handling,             \* the connection whose channel is in handleEvent
  callback,             \* the connection whose user callback is running
  toWorkers,            \* connections that message callbacks handed over
  held, workerPc,       \* a worker's TcpConnectionPtr, and where it is
  failed                \* what ended the process: an assertion or a signal

vars == <<conn, exists, connections_, phase, m_pendingFunctors, functors,
          called, m_revents, handling, callback, toWorkers, held, workerPc,
          failed>>

\* What the loop thread's handlers may change, and the rest by owner.
connVars == <<conn, connections_, m_pendingFunctors, failed>>
loopVars == <<phase, functors, called, m_revents, handling, callback>>
workVars == <<held, workerPc>>

\* A connection, its channel (events; registered is both Epoll::m_channels and
\* m_addedToLoop), its socket seen from this end (peer to wrShut) and a history
\* (downs: connection callbacks that reported DOWN).
Connection ==
  [m_state : {"kDisConnected", "kConnecting", "kDisConnecting", "kConnected"},
   out : BOOLEAN,       \* m_outputBuffer holds bytes
   m_events : SUBSET {"read", "write"}, registered : BOOLEAN,
   peer : {"none", "open", "fin", "rst"},
   unread : BOOLEAN, arrived : 0 .. MaxIn, soError : BOOLEAN, wrShut : BOOLEAN,
   downs : Nat]

Functor == [op : {"sendInLoop", "shutdownInLoop", "forceCloseInLoop",
                  "connectDestroyed"}, c : Conn]

\* The functors bound to shared_from_this().
Shared == {"forceCloseInLoop", "connectDestroyed"}

TypeOK ==
  /\ conn \in [Conn -> Connection]
  /\ exists \subseteq Conn /\ connections_ \subseteq Conn
  /\ phase \in {"poll", "dispatch", "functors", "ended", "gone"}
  /\ m_pendingFunctors \in Seq(Functor) /\ functors \in Seq(Functor)
  /\ called \in 0 .. Len(functors)
  /\ m_revents \in [Conn -> Seq({"close", "error", "read", "write"})]
  /\ handling \in Conn \cup {NoConn} /\ callback \in Conn \cup {NoConn}
  /\ toWorkers \in Seq(Conn)
  /\ held \in [Worker -> Conn \cup {NoConn}]
  /\ workerPc \in [Worker -> {"idle", "user", "send", "shutdown", "forceClose",
                              "queueShutdown", "queueForceClose"}]

Init ==
  /\ conn = [c \in Conn |->
               [m_state |-> "kConnecting", out |-> FALSE, m_events |-> {},
                registered |-> FALSE, peer |-> "none", unread |-> FALSE,
                arrived |-> 0, soError |-> FALSE, wrShut |-> FALSE, downs |-> 0]]
  /\ exists = {} /\ connections_ = {}
  /\ phase = "poll" /\ m_pendingFunctors = <<>> /\ functors = <<>> /\ called = 0
  /\ m_revents = [c \in Conn |-> <<>>]
  /\ handling = NoConn /\ callback = NoConn
  /\ toWorkers = <<>>
  /\ held = [w \in Worker |-> NoConn] /\ workerPc = [w \in Worker |-> "idle"]
  /\ failed = "no"

Connected(c) == conn[c].m_state = "kConnected"
Open(c) == conn[c].m_state \in {"kConnected", "kDisConnecting"}
isWriting(c) == "write" \in conn[c].m_events
Registered == {c \in Conn : conn[c].registered}

(***************************************************************************)
(* The members of TcpConnection that run in the loop thread.  Each gives   *)
(* the next value of all of connVars.                                      *)
(***************************************************************************)
\* The process is ended by a failed assertion or by a signal.
Abort(reason) ==
  failed' = reason /\ UNCHANGED <<conn, connections_, m_pendingFunctors>>

OnlyConn == UNCHANGED <<connections_, m_pendingFunctors, failed>>

queueInLoop(op, c) ==
  m_pendingFunctors' = Append(m_pendingFunctors, [op |-> op, c |-> c])

\* ::write on a socket whose peer reset it or that was shut down: an error
\* pending on the socket is returned (and cleared), otherwise SIGPIPE, which
\* nothing in the program ignores, ends the process.
Broken(c) == conn[c].wrShut \/ conn[c].peer = "rst"

BrokenWrite(c) ==
  \/ Abort("SIGPIPE")
  \/ /\ conn[c].soError
     /\ conn' = [conn EXCEPT ![c].soError = FALSE]
     /\ OnlyConn

\* Wrong: bytes are left in the buffer and nobody waits for the socket.
appendOutputUnwatched(c) == conn' = [conn EXCEPT ![c].out = TRUE] /\ OnlyConn

\* The tail of sendInLoop: what ::write did not take waits for the socket.
appendOutput(c) ==
  /\ conn' = [conn EXCEPT ![c].out = TRUE,
                          ![c].m_events = @ \cup {"write"}]
  /\ OnlyConn

sendInLoop(c) ==
  \/ conn[c].m_state = "kDisConnected" /\ UNCHANGED connVars
  \/ /\ conn[c].m_state # "kDisConnected"
     /\ IF ~isWriting(c) /\ ~conn[c].out
        THEN IF Broken(c) THEN BrokenWrite(c)
             ELSE UNCHANGED connVars \/ appendOutput(c)
        ELSE appendOutput(c)

\* Wrong: the socket is shut down though output is still waiting.
shutdownInLoopAtOnce(r) == [r EXCEPT !.wrShut = TRUE]

\* What shutdownInLoop makes of a connection.
shutdownInLoop(r) == [r EXCEPT !.wrShut = @ \/ "write" \notin r.m_events]

\* removeConnection and removeConnectionInLoop.
removeConnection(c) ==
  /\ connections_' = connections_ \ {c}
  /\ queueInLoop("connectDestroyed", c)

\* Wrong: the state is not changed.
handleCloseOpen(c) ==
  /\ conn' = [conn EXCEPT ![c].m_events = {}, ![c].downs = @ + 1]
  /\ removeConnection(c)
  /\ UNCHANGED failed

\* Wrong: the server is not told.
handleCloseKept(c) ==
  /\ conn' = [conn EXCEPT ![c].m_state = "kDisConnected", ![c].m_events = {},
                          ![c].downs = @ + 1]
  /\ OnlyConn

\* With the connection callback (DOWN) and the close callback.
handleClose(c) ==
  \/ ~Open(c) /\ Abort("handleClose")
  \/ Open(c) /\ c \notin connections_ /\ Abort("removeConnectionInLoop")
  \/ /\ Open(c) /\ c \in connections_
     /\ conn' = [conn EXCEPT ![c].m_state = "kDisConnected",
                             ![c].m_events = {}, ![c].downs = @ + 1]
     /\ removeConnection(c)
     /\ UNCHANGED failed

forceCloseInLoop(c) == IF Open(c) THEN handleClose(c) ELSE UNCHANGED connVars

\* disableAll when connected, and what is left of the events otherwise.
EventsAtDestruction(c) == IF Connected(c) THEN {} ELSE conn[c].m_events

Destroyed(r) ==
  [r EXCEPT !.m_state = IF @ = "kConnected" THEN "kDisConnected" ELSE @,
            !.m_events = {}, !.registered = FALSE]

\* Wrong: the channel stays in the poller.
connectDestroyedKept(c) == UNCHANGED connVars

\* With Channel::remove and Epoll::removeChannel.
connectDestroyed(c) ==
  \/ EventsAtDestruction(c) # {} /\ Abort("Channel::remove")
  \/ /\ EventsAtDestruction(c) = {} /\ ~conn[c].registered
     /\ Abort("Epoll::removeChannel")
  \/ /\ EventsAtDestruction(c) = {} /\ conn[c].registered
     /\ conn' = [conn EXCEPT ![c] = Destroyed(@)]
     /\ OnlyConn

(***************************************************************************)
(* The sockets: what the peers and the network may do at any time.         *)
(***************************************************************************)
PeerDoes(c, r) ==
  /\ conn' = [conn EXCEPT ![c] = r]
  /\ UNCHANGED <<exists, connections_, m_pendingFunctors, failed, loopVars,
                 workVars, toWorkers>>

PeerSend(c) ==
  /\ conn[c].peer = "open" /\ conn[c].arrived < MaxIn
  /\ PeerDoes(c, [conn[c] EXCEPT !.unread = TRUE, !.arrived = @ + 1])

PeerClose(c) ==
  /\ conn[c].peer = "open"
  /\ PeerDoes(c, [conn[c] EXCEPT !.peer = "fin"])

PeerReset(c) ==
  /\ conn[c].peer \in {"open", "fin"}
  /\ PeerDoes(c, [conn[c] EXCEPT !.peer = "rst", !.soError = TRUE,
                                 !.unread = FALSE])

(***************************************************************************)
(* EventLoop::loop.                                                        *)
(***************************************************************************)
\* What epoll_wait reports for a registered descriptor, level triggered.
\* EPOLLHUP and EPOLLERR are reported whatever events are asked for.
In(c) == /\ "read" \in conn[c].m_events
         /\ conn[c].unread \/ conn[c].peer \in {"fin", "rst"}
Hup(c) == \/ conn[c].peer = "rst"
          \/ conn[c].peer = "fin" /\ conn[c].wrShut

\* Channel::handleEvent: the callbacks it calls, in its order.
handleEvent(c, writable) ==
  SelectSeq(<<"close", "error", "read", "write">>,
            LAMBDA e : \/ e = "close" /\ Hup(c) /\ ~In(c)
                       \/ e = "error" /\ conn[c].soError
                       \/ e = "read" /\ In(c)
                       \/ e = "write" /\ isWriting(c) /\ writable)

\* Epoll::poll and fillActiveChannels; writable is the kernel's choice.
Poll ==
  /\ phase = "poll"
  /\ phase' = "dispatch"
  /\ \E writable \in SUBSET {c \in Registered : isWriting(c)} :
       m_revents' = [c \in Conn |-> IF c \in Registered
                                    THEN handleEvent(c, c \in writable)
                                    ELSE <<>>]
  /\ UNCHANGED <<connVars, exists, functors, called, handling, callback,
                 workVars, toWorkers>>

\* kConnected and enableReading, with Channel::update and Epoll::updateChannel, up
\* to the connection callback (UP).
connectEstablished(c) ==
  /\ conn' = [conn EXCEPT ![c].peer = "open", ![c].m_state = "kConnected",
                          ![c].m_events = {"read"}, ![c].registered = TRUE]
  /\ callback' = c

\* Acceptor::handleRead with TcpServer::newConnection.
newConnection(c) ==
  /\ phase = "dispatch" /\ callback = NoConn /\ handling = NoConn
  /\ conn[c].peer = "none"
  /\ exists' = exists \cup {c}
  /\ connections_' = connections_ \cup {c}
  /\ connectEstablished(c)
  /\ UNCHANGED <<m_pendingFunctors, failed, phase, functors, called, m_revents,
                 handling, workVars, toWorkers>>

\* One callback of handleEvent; a channel's callbacks are called in a row.
Handling(c, event) ==
  /\ phase = "dispatch" /\ callback = NoConn /\ handling \in {NoConn, c}
  /\ m_revents[c] # <<>> /\ Head(m_revents[c]) = event
  /\ m_revents' = [m_revents EXCEPT ![c] = Tail(@)]
  /\ handling' = IF Len(m_revents[c]) = 1 THEN NoConn ELSE c
  /\ UNCHANGED <<exists, phase, functors, called, workVars>>

HandleClose(c) ==
  Handling(c, "close") /\ handleClose(c) /\ UNCHANGED <<callback, toWorkers>>

\* handleError: getsockopt(SO_ERROR) clears the error.
ClearError(c) == conn' = [conn EXCEPT ![c].soError = FALSE] /\ OnlyConn

HandleError(c) ==
  Handling(c, "error") /\ ClearError(c) /\ UNCHANGED <<callback, toWorkers>>

\* handleRead with n > 0, n = 0 and n < 0.  The message callback hands the
\* connection over to the workers.
HandleRead(c) ==
  /\ Handling(c, "read")
  /\ \/ /\ conn[c].unread
        /\ conn' = [conn EXCEPT ![c].unread = FALSE]
        /\ toWorkers' = Append(toWorkers, c)
        /\ callback' = c
        /\ OnlyConn
     \/ /\ ~conn[c].unread /\ ~conn[c].soError
        /\ handleClose(c)
        /\ UNCHANGED <<callback, toWorkers>>
     \/ /\ ~conn[c].unread /\ conn[c].soError
        /\ ClearError(c)
        /\ UNCHANGED <<callback, toWorkers>>

\* handleWrite when ::write takes everything: disableWriting and, while
\* disconnecting, shutdownInLoop.
WroteAll(c) ==
  /\ LET r == [conn[c] EXCEPT !.out = FALSE, !.m_events = @ \ {"write"}]
     IN  conn' = [conn EXCEPT ![c] = IF r.m_state = "kDisConnecting"
                                     THEN shutdownInLoop(r) ELSE r]
  /\ OnlyConn

HandleWrite(c) ==
  /\ Handling(c, "write")
  /\ IF isWriting(c)
     THEN IF Broken(c) THEN BrokenWrite(c) ELSE WroteAll(c) \/ UNCHANGED connVars
     ELSE UNCHANGED connVars
  /\ UNCHANGED <<callback, toWorkers>>

(***************************************************************************)
(* What a user callback may do in the loop thread with the connection it   *)
(* is given.                                                               *)
(***************************************************************************)
InCallback(c, call) ==
  /\ call \in Calls /\ callback = c
  /\ UNCHANGED <<exists, loopVars, workVars, toWorkers>>

LoopSend(c) == InCallback(c, "send") /\ Connected(c) /\ sendInLoop(c)

LoopShutdown(c) ==
  /\ InCallback(c, "shutdown") /\ Connected(c)
  /\ conn' = [conn EXCEPT ![c] =
                 shutdownInLoop([@ EXCEPT !.m_state = "kDisConnecting"])]
  /\ OnlyConn

LoopForceClose(c) ==
  /\ InCallback(c, "forceClose") /\ Open(c)
  /\ Len(m_pendingFunctors) < MaxPending
  /\ conn' = [conn EXCEPT ![c].m_state = "kDisConnecting"]
  /\ queueInLoop("forceCloseInLoop", c)
  /\ UNCHANGED <<connections_, failed>>

CallbackReturn ==
  /\ callback # NoConn
  /\ callback' = NoConn
  /\ UNCHANGED <<connVars, exists, phase, functors, called, m_revents, handling,
                 workVars, toWorkers>>

(***************************************************************************)
(* The last TcpConnectionPtr to a connection goes: ~TcpConnection and, for *)
(* its channel, ~Channel.                                                  *)
(***************************************************************************)
Queued(c, fs) == \E i \in DOMAIN fs : fs[i].c = c /\ fs[i].op \in Shared

Referenced(c) ==
  \/ c \in connections_
  \/ Queued(c, m_pendingFunctors)
  \/ Queued(c, functors)
  \/ Contains(toWorkers, c)
  \/ \E w \in Worker : held[w] = c

\* The last conjunct of every step that drops a reference.
Release ==
  /\ exists' = {c \in exists : Referenced(c)'}
  /\ LET dying == exists \ exists'
     IN  failed' = IF \E c \in dying : conn'[c].m_state # "kDisConnected"
                   THEN "~TcpConnection"
                   ELSE IF \E c \in dying : conn'[c].registered THEN "~Channel"
                   ELSE failed

(***************************************************************************)
(* EventLoop::doPendingFunctors.  The local vector keeps the functors it   *)
(* has called, and what they hold, until the function returns.             *)
(***************************************************************************)
SwapFunctors ==
  /\ phase = "dispatch" /\ callback = NoConn
  /\ \A c \in Conn : m_revents[c] = <<>>
  /\ phase' = "functors"
  /\ functors' = m_pendingFunctors /\ m_pendingFunctors' = <<>>
  /\ UNCHANGED <<conn, connections_, failed, exists, called, m_revents,
                 handling, callback, workVars, toWorkers>>

CallFunctor ==
  /\ phase = "functors" /\ called < Len(functors)
  /\ called' = called + 1
  /\ LET f == functors[called + 1]
     IN  IF f.c \notin exists THEN Abort("destroyed")
         ELSE \/ f.op = "sendInLoop" /\ sendInLoop(f.c)
              \/ /\ f.op = "shutdownInLoop"
                 /\ conn' = [conn EXCEPT ![f.c] = shutdownInLoop(@)]
                 /\ OnlyConn
              \/ f.op = "forceCloseInLoop" /\ forceCloseInLoop(f.c)
              \/ f.op = "connectDestroyed" /\ connectDestroyed(f.c)
  /\ UNCHANGED <<exists, phase, functors, m_revents, handling, callback,
                 workVars, toWorkers>>

FunctorsDone ==
  /\ phase = "functors" /\ called = Len(functors)
  /\ phase' = "poll"
  /\ functors' = <<>> /\ called' = 0
  /\ UNCHANGED <<conn, connections_, m_pendingFunctors, m_revents, handling,
                 callback, workVars, toWorkers>>
  /\ Release

(***************************************************************************)
(* The program ends: the loop has been left, ~TcpServer runs in the loop's *)
(* thread (so connectDestroyed is called in place), then ~EventLoop drops  *)
(* the functors that were never called.                                    *)
(***************************************************************************)
DestroyServer ==
  /\ "~TcpServer" \in Calls /\ phase = "poll"
  /\ phase' = "ended"
  /\ UNCHANGED <<functors, called, m_revents, handling, callback, workVars,
                 toWorkers>>
  /\ IF \E c \in connections_ : EventsAtDestruction(c) # {}
     THEN Abort("Channel::remove") /\ UNCHANGED exists
     ELSE /\ conn' = [c \in Conn |-> IF c \in connections_
                                     THEN Destroyed(conn[c]) ELSE conn[c]]
          /\ connections_' = {}
          /\ UNCHANGED m_pendingFunctors
          /\ Release

DestroyLoop ==
  /\ phase = "ended"
  /\ phase' = "gone"
  /\ m_pendingFunctors' = <<>>
  /\ UNCHANGED <<conn, connections_, functors, called, m_revents, handling,
                 callback, workVars, toWorkers>>
  /\ Release

(***************************************************************************)
(* A worker, and the calls it makes on its connection.                     *)
(***************************************************************************)
WorkerGoto(w, from, to) ==
  /\ workerPc[w] = from
  /\ workerPc' = [workerPc EXCEPT ![w] = to]
  /\ UNCHANGED <<connections_, loopVars>>

\* ConnectionQueue::waitDequeue.
WorkerTake(w) ==
  /\ WorkerGoto(w, "idle", "user")
  /\ toWorkers # <<>>
  /\ held' = [held EXCEPT ![w] = Head(toWorkers)]
  /\ toWorkers' = Tail(toWorkers)
  /\ UNCHANGED <<conn, m_pendingFunctors, failed, exists>>

\* The test of m_state with which each call begins.
WorkerTest(w) ==
  /\ workerPc[w] = "user"
  /\ \/ /\ "workerSend" \in Calls /\ Connected(held[w])
        /\ WorkerGoto(w, "user", "send")
     \/ /\ "workerShutdown" \in Calls /\ Connected(held[w])
        /\ WorkerGoto(w, "user", "shutdown")
     \/ /\ "workerForceClose" \in Calls /\ Open(held[w])
        /\ WorkerGoto(w, "user", "forceClose")
  /\ UNCHANGED <<conn, m_pendingFunctors, failed, exists, held, toWorkers>>

\* setState(kDisConnecting), in shutdown and forceClose.
WorkerSet(w) ==
  /\ \/ WorkerGoto(w, "shutdown", "queueShutdown")
     \/ WorkerGoto(w, "forceClose", "queueForceClose")
  /\ conn' = [conn EXCEPT ![held[w]].m_state = "kDisConnecting"]
  /\ UNCHANGED <<m_pendingFunctors, failed, exists, held, toWorkers>>

\* runInLoop or queueInLoop, from a thread that is not the loop's.
WorkerQueue(w) ==
  /\ Len(m_pendingFunctors) < MaxPending
  /\ \/ /\ WorkerGoto(w, "send", "user")
        /\ queueInLoop("sendInLoop", held[w])
     \/ /\ WorkerGoto(w, "queueShutdown", "user")
        /\ queueInLoop("shutdownInLoop", held[w])
     \/ /\ WorkerGoto(w, "queueForceClose", "user")
        /\ queueInLoop("forceCloseInLoop", held[w])
  /\ UNCHANGED <<conn, failed, exists, held, toWorkers>>

\* The worker's TcpConnectionPtr goes out of scope.
WorkerRelease(w) ==
  /\ WorkerGoto(w, "user", "idle")
  /\ held' = [held EXCEPT ![w] = NoConn]
  /\ UNCHANGED <<conn, m_pendingFunctors, toWorkers>>
  /\ Release

LoopStep ==
  \/ Poll \/ SwapFunctors \/ CallFunctor \/ FunctorsDone \/ CallbackReturn
  \/ \E c \in Conn : \/ HandleClose(c) \/ HandleError(c) \/ HandleRead(c)
                     \/ HandleWrite(c)

WorkerStep(w) ==
  WorkerTake(w) \/ WorkerSet(w) \/ WorkerQueue(w) \/ WorkerRelease(w)

UserStep ==
  \/ \E c \in Conn : LoopSend(c) \/ LoopShutdown(c) \/ LoopForceClose(c)
  \/ \E w \in Worker : WorkerTest(w)
  \/ DestroyServer \/ DestroyLoop

PeerStep ==
  \E c \in Conn : \/ newConnection(c) \/ PeerSend(c) \/ PeerClose(c)
                  \/ PeerReset(c)

Next ==
  /\ failed = "no" /\ phase # "gone"
  /\ \/ LoopStep \/ UserStep \/ PeerStep
     \/ \E w \in Worker : WorkerStep(w)

Spec == Init /\ [][Next]_vars

Running == failed = "no"

\* The loop thread keeps running and user code returns.  The strong fairness
\* of WorkerQueue only undoes the bound MaxPending.
Fairness ==
  /\ WF_vars(Running /\ LoopStep)
  /\ \A w \in Worker : /\ WF_vars(Running /\ WorkerStep(w))
                       /\ SF_vars(Running /\ WorkerQueue(w))
                       /\ SF_vars(Running /\ WorkerRelease(w))

FairSpec == Spec /\ Fairness

-----------------------------------------------------------------------------
\* No assertion of TcpConnection, TcpServer, Channel or Epoll fails, whatever
\* the peers do, when loop callbacks send and shut down and workers send (what
\* the programs of the repository do).
AssertionsHold == failed \in {"no", "SIGPIPE", "destroyed"}

\* The poller, the dispatch of events and a running callback only ever refer to
\* connections that exist: the reference that handleClose hands from
\* connections_ to the queued connectDestroyed keeps the object (and its file
\* descriptor number) until the channel is out of the poller.
NoDeadChannel ==
  /\ TypeOK
  /\ \A c \in Conn : \/ c \in Registered
                     \/ m_revents[c] # <<>>
                     \/ callback = c
                     => c \in exists

\* While a connection is in the server's map the poller watches it for writing
\* exactly when its output buffer holds bytes: sendInLoop and handleWrite never
\* leave bytes nobody will write, nor a busy loop on a writable socket.
OutputWatched ==
  \A c \in connections_ : conn[c].out <=> isWriting(c)

\* shutdown() sends the FIN only when everything accepted before it has been
\* written, and nothing is buffered behind the FIN.
FlushBeforeFin == \A c \in connections_ : conn[c].wrShut => ~conn[c].out

\* The connection callback reports DOWN exactly once before a connection is
\* destroyed, unless it is ~TcpServer that destroys it.
DownOnce ==
  \A c \in Conn :
    /\ conn[c].downs <= 1
    /\ conn[c].peer # "none" /\ c \notin exists /\ phase \notin {"ended", "gone"}
         => conn[c].downs = 1

\* A connection whose peer closed or reset it is destroyed in the end, unless
\* the loop is left or the process is ended.
ClosedIsDestroyed ==
  \A c \in Conn : conn[c].peer \in {"fin", "rst"}
                    ~> c \notin exists \/ failed # "no" \/ phase \in {"ended", "gone"}
=============================================================================
