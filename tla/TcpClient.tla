----------------------------- MODULE TcpClient -----------------------------
(***************************************************************************)
(* rpc/TcpClient with its net/Connector: one connection to a server,       *)
(* tried again after a delay when it cannot be made and, with enableRetry, *)
(* made again when it is closed.                                           *)
(*                                                                         *)
(* The loop thread polls, handles what the poll returned, then runs the    *)
(* functors queued until then, as EventLoop::loop() does.  Another thread  *)
(* calls connect, disconnect and stop; their writes of flags and their     *)
(* queueing interleave with the loop, since no lock covers them.  The      *)
(* length of the delays is left out; a timer fires in some later round.    *)
(*                                                                         *)
(* Operators marked Wrong are variants of the definition after them, used  *)
(* to see that a property can fail (PROJECT.json, mutants).                *)
(***************************************************************************)
EXTENDS Naturals, Sequences, FiniteSets

CONSTANTS Fd, NoFd,     \* file descriptors
          Calls,        \* the calls the other thread may make after connect()
          MaxCalls      \* bound: how many

ASSUME ClientAssumption ==
  /\ NoFd \notin Fd
  /\ Calls \subseteq {"connect", "disconnect", "stop"}
  /\ MaxCalls \in Nat

VARIABLES
  \* Connector
  connect_, state_,
  channel_,             \* "null", "set" (in the poller) or "removed" from it
  sockfd,               \* the descriptor of channel_, while it is set
  \* TcpClient
  retry_,
  clientConnect_,       \* TcpClient::connect_
  connection_,          \* the descriptor of its TcpConnection
  closing,              \* descriptors of connections still to be destroyed
  \* EventLoop
  phase, pending, functors,
  active,               \* what the last poll returned and is still to be handled
  timers,               \* how many retry timers are armed
  \* the other thread
  pc, calls,
  open,                 \* the descriptors open in the process
  gaveUp,               \* history: connect(2) failed in a way not tried again
  failed

connectorVars == <<connect_, state_, channel_, sockfd>>
clientVars == <<clientConnect_, connection_, closing>>
loopVars == <<phase, active, functors, timers>>
vars == <<connectorVars, retry_, clientVars, loopVars, pending, pc, calls,
          open, gaveUp, failed>>

Functors == {"startInLoop", "stopInLoop", "resetChannel", "connectDestroyed"}

TypeOK ==
  /\ connect_ \in BOOLEAN /\ state_ \in {"kDisconnected", "kConnecting", "kConnected"}
  /\ channel_ \in {"null", "set", "removed"} /\ sockfd \in Fd \cup {NoFd}
  /\ retry_ \in BOOLEAN /\ clientConnect_ \in BOOLEAN
  /\ connection_ \in Fd \cup {NoFd} /\ closing \in Seq(Fd)
  /\ phase \in {"poll", "events", "restart", "functors"}
  /\ active \subseteq {"channel", "connection", "timer"}
  /\ pending \in Seq(Functors) /\ functors \in Seq(Functors)
  /\ timers \in Nat
  /\ pc \in {"idle", "connect", "start", "stop", "stopConnector", "queueStop"}
  /\ calls \in 0 .. MaxCalls
  /\ open \subseteq Fd

Init ==
  /\ connect_ = FALSE /\ state_ = "kDisconnected" /\ channel_ = "null" /\ sockfd = NoFd
  /\ retry_ \in BOOLEAN
  /\ clientConnect_ = TRUE /\ connection_ = NoFd /\ closing = <<>>
  /\ phase = "poll" /\ active = {} /\ pending = <<>> /\ functors = <<>> /\ timers = 0
  /\ pc = "connect" /\ calls = 0
  /\ open = {} /\ gaveUp = FALSE /\ failed = "no"

-----------------------------------------------------------------------------
(* The other thread.                                                       *)

Call(c) ==
  /\ pc = "idle" /\ calls < MaxCalls /\ c \in Calls
  /\ calls' = calls + 1
  /\ \/ c = "connect" /\ pc' = "connect" /\ UNCHANGED clientConnect_
     \/ c = "stop" /\ pc' = "stop" /\ UNCHANGED clientConnect_
     \/ c = "disconnect" /\ pc' = "idle" /\ clientConnect_' = FALSE
  /\ UNCHANGED <<connectorVars, retry_, connection_, closing, loopVars, pending,
                 open, gaveUp, failed>>

\* TcpClient::connect and Connector::start: two flags, then the functor.
Connect ==
  /\ pc = "connect"
  /\ clientConnect_' = TRUE /\ connect_' = TRUE
  /\ pc' = "start"
  /\ UNCHANGED <<state_, channel_, sockfd, retry_, connection_, closing, loopVars,
                 pending, calls, open, gaveUp, failed>>

QueueStart ==
  /\ pc = "start"
  /\ pending' = Append(pending, "startInLoop")
  /\ pc' = "idle"
  /\ UNCHANGED <<connectorVars, retry_, clientVars, loopVars, calls, open,
                 gaveUp, failed>>

\* TcpClient::stop, then Connector::stop.
Stop ==
  /\ pc = "stop"
  /\ clientConnect_' = FALSE
  /\ pc' = "stopConnector"
  /\ UNCHANGED <<connectorVars, retry_, connection_, closing, loopVars, pending,
                 calls, open, gaveUp, failed>>

StopConnector ==
  /\ pc = "stopConnector"
  /\ connect_' = FALSE
  /\ pc' = "queueStop"
  /\ UNCHANGED <<state_, channel_, sockfd, retry_, clientVars, loopVars, pending,
                 calls, open, gaveUp, failed>>

QueueStop ==
  /\ pc = "queueStop"
  /\ pending' = Append(pending, "stopInLoop")
  /\ pc' = "idle"
  /\ UNCHANGED <<connectorVars, retry_, clientVars, loopVars, calls, open,
                 gaveUp, failed>>
-----------------------------------------------------------------------------
(* Connector, in the loop thread.                                          *)

\* startInLoop, entered with state_ = s, connect_ = c and n timers, with connect
\* and connecting: the attempt is under way, is tried again later, or given up.
startInLoop(s, c, n) ==
  \/ /\ s # "kDisconnected"
     /\ failed' = "startInLoop" /\ timers' = n
     /\ UNCHANGED <<state_, channel_, sockfd, open, gaveUp>>
  \/ /\ s = "kDisconnected" /\ ~c
     /\ state_' = s /\ timers' = n
     /\ UNCHANGED <<channel_, sockfd, open, gaveUp, failed>>
  \/ /\ s = "kDisconnected" /\ c
     /\ \E fd \in Fd \ open :
          /\ state_' = "kConnecting"
          /\ channel_' = "set" /\ sockfd' = fd
          /\ open' = open \cup {fd}
          /\ failed' = IF channel_ = "null" THEN failed ELSE "connecting"
     /\ timers' = n /\ gaveUp' = FALSE
  \/ /\ s = "kDisconnected" /\ c
     /\ state_' = s
     /\ \/ timers' = n + 1 /\ gaveUp' = FALSE
        \/ timers' = n /\ gaveUp' = TRUE
     /\ UNCHANGED <<channel_, sockfd, open, failed>>

\* Wrong: the channel is taken out of the poller and never reset.
removeAndResetChannelNot(p) ==
  /\ channel_' = "removed" /\ sockfd' = NoFd
  /\ pending' = p

removeAndResetChannel(p) ==
  /\ channel_' = "removed" /\ sockfd' = NoFd
  /\ pending' = Append(p, "resetChannel")

\* Wrong: the socket of the failed attempt stays open.
retryLeaking(fd) ==
  /\ state_' = "kDisconnected"
  /\ timers' = IF connect_ THEN timers + 1 ELSE timers
  /\ UNCHANGED open

\* Wrong: only a client with enableRetry tries again.
retryEnabled(fd) ==
  /\ open' = open \ {fd}
  /\ state_' = "kDisconnected"
  /\ timers' = IF connect_ /\ retry_ THEN timers + 1 ELSE timers

\* sockets::close, then the timer that runs startInLoop.
retry(fd) ==
  /\ open' = open \ {fd}
  /\ state_' = "kDisconnected"
  /\ timers' = IF connect_ THEN timers + 1 ELSE timers

Handle(source) ==
  /\ phase = "events" /\ source \in active
  /\ active' = active \ {source}
  /\ UNCHANGED <<retry_, functors, calls, pc>>

\* A channel that is no longer connecting is only asserted to be disconnected.
NotConnecting ==
  /\ state_ # "kConnecting"
  /\ failed' = IF state_ = "kDisconnected" THEN failed ELSE "handleWrite"
  /\ UNCHANGED <<connectorVars, clientVars, open, timers, pending>>

\* TcpClient::newConnection: the TcpConnection owns the socket from now on.
newConnection(fd) == connection_' = fd /\ UNCHANGED open

\* handleWrite with no error: the connection is kept if it is still wanted and
\* is otherwise closed.
HandleWrite ==
  /\ Handle("channel")
  /\ \/ NotConnecting
     \/ /\ state_ = "kConnecting"
        /\ removeAndResetChannel(pending)
        /\ state_' = "kConnected"
        /\ IF connect_
           THEN newConnection(sockfd)
           ELSE open' = open \ {sockfd} /\ UNCHANGED connection_
        /\ UNCHANGED <<connect_, clientConnect_, closing, timers, failed>>
  /\ UNCHANGED <<phase, gaveUp>>

\* handleError, or handleWrite that finds an error or a self connect.  When
\* both run for one event, the second finds state_ = kDisconnected.
HandleError ==
  /\ Handle("channel")
  /\ \/ NotConnecting
     \/ /\ state_ = "kConnecting"
        /\ removeAndResetChannel(pending)
        /\ retry(sockfd)
        /\ UNCHANGED <<connect_, clientVars, failed>>
  /\ UNCHANGED <<phase, gaveUp>>

\* The timer set by retry: startInLoop.
RetryTimer ==
  /\ Handle("timer")
  /\ startInLoop(state_, connect_, timers - 1)
  /\ UNCHANGED <<connect_, clientVars, phase, pending>>

-----------------------------------------------------------------------------
(* TcpClient, in the loop thread.                                          *)

\* The connection is closed, by the peer or after disconnect(): its close
\* callback, up to the call of Connector::restart.
removeConnection ==
  /\ Handle("connection")
  /\ connection_' = NoFd
  /\ closing' = Append(closing, connection_)
  /\ pending' = Append(pending, "connectDestroyed")
  /\ phase' = IF retry_ /\ clientConnect_ THEN "restart" ELSE phase
  /\ UNCHANGED <<connectorVars, clientConnect_, timers, open, gaveUp, failed>>

restart ==
  /\ phase = "restart" /\ phase' = "events"
  /\ connect_' = TRUE
  /\ startInLoop("kDisconnected", TRUE, timers)
  /\ UNCHANGED <<retry_, clientVars, active, functors, pending, pc, calls>>

-----------------------------------------------------------------------------
(* EventLoop::loop.                                                        *)

\* What a poll may return.  A retry timer is armed in the step that queues
\* resetChannel, and a poll does not wait while that functor is pending: the
\* delay, kInitRetryDelayMs (500 ms) or more, is taken to outlast it.
Ready ==
  (IF channel_ = "set" THEN {"channel"} ELSE {})
    \cup (IF connection_ # NoFd THEN {"connection"} ELSE {})
    \cup (IF timers > 0 /\ channel_ # "removed" THEN {"timer"} ELSE {})

Poll ==
  /\ phase = "poll" /\ phase' = "events"
  /\ active' \in SUBSET Ready
  /\ active' # {} \/ pending # <<>>
  /\ UNCHANGED <<connectorVars, retry_, clientVars, pending, functors, timers, pc, calls,
                 open, gaveUp, failed>>

SwapFunctors ==
  /\ phase = "events" /\ active = {}
  /\ phase' = "functors"
  /\ functors' = pending /\ pending' = <<>>
  /\ UNCHANGED <<connectorVars, retry_, clientVars, active, timers, pc, calls, open,
                 gaveUp, failed>>

\* stopInLoop: an attempt under way is abandoned.
stopInLoop ==
  IF state_ = "kConnecting"
  THEN removeAndResetChannel(pending) /\ retry(sockfd)
  ELSE UNCHANGED <<state_, channel_, sockfd, pending, open, timers>>

resetChannel ==
  /\ channel_' = "null"
  /\ UNCHANGED <<state_, sockfd, pending, open, timers>>

\* ~TcpConnection closes the socket once connectDestroyed has run.
connectDestroyed ==
  /\ open' = open \ {Head(closing)} /\ closing' = Tail(closing)
  /\ UNCHANGED <<state_, channel_, sockfd, pending, timers>>

CallFunctor ==
  /\ phase = "functors" /\ functors # <<>>
  /\ functors' = Tail(functors)
  /\ CASE Head(functors) = "startInLoop" ->
            startInLoop(state_, connect_, timers) /\ UNCHANGED <<pending, closing>>
       [] Head(functors) = "stopInLoop" ->
            stopInLoop /\ UNCHANGED <<closing, gaveUp, failed>>
       [] Head(functors) = "resetChannel" ->
            resetChannel /\ UNCHANGED <<closing, gaveUp, failed>>
       [] Head(functors) = "connectDestroyed" ->
            connectDestroyed /\ UNCHANGED <<gaveUp, failed>>
  /\ UNCHANGED <<connect_, retry_, clientConnect_, connection_, phase, active, pc, calls>>

FunctorsDone ==
  /\ phase = "functors" /\ functors = <<>>
  /\ phase' = "poll"
  /\ UNCHANGED <<connectorVars, retry_, clientVars, active, functors, pending, timers, pc,
                 calls, open, gaveUp, failed>>

LoopStep ==
  \/ Poll \/ HandleWrite \/ HandleError \/ RetryTimer \/ removeConnection \/ restart
  \/ SwapFunctors \/ CallFunctor \/ FunctorsDone

ThreadStep == Connect \/ QueueStart \/ Stop \/ StopConnector \/ QueueStop

Next ==
  /\ failed = "no"
  /\ \/ LoopStep \/ ThreadStep
     \/ \E c \in Calls : Call(c)

Spec == Init /\ [][Next]_vars

\* The thread finishes the call it is in, the loop keeps turning and a timer
\* that stays armed is polled.  Nothing is assumed of the server or the callers.
FairSpec ==
  /\ Spec
  /\ WF_vars(failed = "no" /\ ThreadStep)
  /\ WF_vars(failed = "no" /\ LoopStep)
  /\ SF_vars(failed = "no" /\ Poll /\ "timer" \in active')

-----------------------------------------------------------------------------
(* Properties.                                                             *)

\* The assertions of Connector.cpp (lines 38, 120 and 182) hold: an attempt
\* begins only when no other is under way and the channel of the last is gone.
AssertionsHold == failed = "no"

\* Every descriptor the client has opened belongs to the connector's attempt,
\* to the connection or to a connection being destroyed, and to one of them
\* only: none leaks and none is closed twice.
FdOwned ==
  LET ofChannel == IF channel_ = "set" THEN {sockfd} ELSE {}
      ofConnection == {connection_} \ {NoFd}
      ofClosing == {closing[i] : i \in DOMAIN closing}
  IN  /\ TypeOK
      /\ open = ofChannel \cup ofConnection \cup ofClosing
      /\ Cardinality(open) = Cardinality(ofChannel) + Cardinality(ofConnection) + Len(closing)

Waiting == connect_ /\ state_ = "kDisconnected" /\ ~gaveUp /\ failed = "no"

\* A connector that stays unconnected though it is asked to connect, and whose
\* connect(2) did not fail for good, makes one attempt after another: retry
\* never leaves it without a timer.
TriesAgain == <>[]Waiting => []<><<RetryTimer>>_vars
=============================================================================
