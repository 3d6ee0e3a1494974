------------------------------ MODULE RpcFrame ------------------------------
(***************************************************************************)
(* A call, end to end: RpcClient sends one framed request per connection;  *)
(* the server's loop reads it and puts the connection into                 *)
(* g_toWorkersQueue; a worker unpacks the request from the connection's    *)
(* input buffer, calls the service, packs the response into the output     *)
(* buffer and has the loop send it; the client parses it and closes.       *)
(*                                                                         *)
(* The buffers of a connection are used by its loop and by workers without *)
(* a lock, so a worker's accesses and the loop's are steps of their own.   *)
(* A request has two units, the header (four bytes that hold the length)   *)
(* and the body.  Connecting is TcpClient's, the lifetime of connections   *)
(* TcpServer's.                                                            *)
(*                                                                         *)
(* Operators marked Wrong are variants of the definition after them, used  *)
(* to see that a property can fail (PROJECT.json, mutants).                *)
(***************************************************************************)
EXTENDS Naturals, Sequences

CONSTANTS Conn,         \* connections, one per call
          Worker, NoConn,
          Pieces        \* how many units one read of a request may return

ASSUME RpcAssumption ==
  /\ NoConn \notin Conn
  /\ Pieces \subseteq {1, 2}

VARIABLES
  known,                \* connections whose request names a registered method
  client,               \* the caller: "idle", "waiting", "returned" or "gone"
  response,             \* whether the caller parsed a response
  toServer,             \* units of the request on their way
  toClient,             \* the frames on their way back
  clientFin,            \* the client has shut down its side
  connected,            \* the server's TcpConnection is kConnected
  m_inputBuffer,        \* readable units of the request
  m_outputBuffer,       \* readable frames: "reply", or "garbage" after a race
  writing,              \* the channel's isWriting()
  g_toWorkersQueue,
  functors,             \* connections with a sendInLoop queued
  loop,                 \* where the server's loop is: [at, c, n]
  worker,               \* where each worker is: [at, c]
  executed,             \* history: how often the request was executed
  refused,              \* history: it was read and found to name no method
  failed

clientVars == <<known, client, response, clientFin>>
netVars == <<toServer, toClient>>
bufferVars == <<m_inputBuffer, m_outputBuffer>>
serverVars == <<connected, writing, functors, loop>>
historyVars == <<executed, refused>>
vars == <<clientVars, netVars, bufferVars, serverVars, g_toWorkersQueue, worker,
          historyVars, failed>>

Frame == {"reply", "garbage"}

LoopState == [at : {"idle", "append", "retrieve"}, c : Conn \cup {NoConn}, n : Nat]
WorkerState == [at : {"waitDequeue", "unpack", "retrieve", "call", "pack", "send",
                      "retrieveAll"}, c : Conn \cup {NoConn}]

TypeOK ==
  /\ known \subseteq Conn
  /\ client \in [Conn -> {"idle", "waiting", "returned", "gone"}]
  /\ response \in [Conn -> BOOLEAN] /\ clientFin \in [Conn -> BOOLEAN]
  /\ toServer \in [Conn -> 0 .. 2] /\ toClient \in [Conn -> Seq(Frame)]
  /\ connected \in [Conn -> BOOLEAN] /\ writing \in [Conn -> BOOLEAN]
  /\ m_inputBuffer \in [Conn -> 0 .. 2] /\ m_outputBuffer \in [Conn -> Seq(Frame)]
  /\ g_toWorkersQueue \in Seq(Conn) /\ functors \in Seq(Conn)
  /\ loop \in LoopState /\ worker \in [Worker -> WorkerState]
  /\ executed \in [Conn -> Nat] /\ refused \subseteq Conn

Idle == [at |-> "idle", c |-> NoConn, n |-> 0]
Waiting == [at |-> "waitDequeue", c |-> NoConn]

Init ==
  /\ known \in SUBSET Conn
  /\ client = [c \in Conn |-> "idle"]
  /\ response = [c \in Conn |-> FALSE] /\ clientFin = [c \in Conn |-> FALSE]
  /\ toServer = [c \in Conn |-> 0] /\ toClient = [c \in Conn |-> <<>>]
  /\ connected = [c \in Conn |-> FALSE] /\ writing = [c \in Conn |-> FALSE]
  /\ m_inputBuffer = [c \in Conn |-> 0] /\ m_outputBuffer = [c \in Conn |-> <<>>]
  /\ g_toWorkersQueue = <<>> /\ functors = <<>>
  /\ loop = Idle /\ worker = [w \in Worker |-> Waiting]
  /\ executed = [c \in Conn |-> 0] /\ refused = {}
  /\ failed = "no"

-----------------------------------------------------------------------------
(* RpcClient.                                                              *)

\* CallMethod: the connection comes up and onConnection sends the request.
CallMethod(c) ==
  /\ client[c] = "idle"
  /\ client' = [client EXCEPT ![c] = "waiting"]
  /\ toServer' = [toServer EXCEPT ![c] = 2]
  /\ connected' = [connected EXCEPT ![c] = TRUE]
  /\ UNCHANGED <<known, response, clientFin, toClient, bufferVars, writing, functors,
                 loop, g_toWorkersQueue, worker, historyVars, failed>>

\* RpcCoder::unpack(Buffer*, RpcMessage&) of the first frame: whether it holds a
\* response.
IsResponse(frames) == Head(frames) = "reply"

\* onMessage: the first frame is parsed if it is a response, then shutdown().
OnMessage(c) ==
  /\ client[c] = "waiting" /\ toClient[c] # <<>>
  /\ response' = [response EXCEPT ![c] = @ \/ IsResponse(toClient[c])]
  /\ toClient' = [toClient EXCEPT ![c] = <<>>]
  /\ clientFin' = [clientFin EXCEPT ![c] = TRUE]
  /\ UNCHANGED <<known, client, toServer, bufferVars, serverVars, g_toWorkersQueue,
                 worker, historyVars, failed>>

\* onConnection when the server has closed: quit(), and CallMethod returns.
OnDisconnected(c) ==
  /\ client[c] = "waiting" /\ toServer[c] = 0 /\ toClient[c] = <<>>
  /\ clientFin[c] /\ ~connected[c]
  /\ client' = [client EXCEPT ![c] = "returned"]
  /\ UNCHANGED <<known, response, clientFin, netVars, bufferVars, serverVars,
                 g_toWorkersQueue, worker, historyVars, failed>>

\* The calling process ends at any time.
ClientGone(c) ==
  /\ client[c] = "waiting"
  /\ client' = [client EXCEPT ![c] = "gone"]
  /\ clientFin' = [clientFin EXCEPT ![c] = TRUE]
  /\ UNCHANGED <<known, response, netVars, bufferVars, serverVars, g_toWorkersQueue,
                 worker, historyVars, failed>>
-----------------------------------------------------------------------------
(* The server's loop.                                                      *)

enqueue(c) == g_toWorkersQueue' = Append(g_toWorkersQueue, c)

Arrives(c, n) ==
  /\ loop.at = "idle" /\ connected[c] /\ n <= toServer[c]
  /\ m_inputBuffer' = [m_inputBuffer EXCEPT ![c] = @ + n]
  /\ UNCHANGED <<clientVars, toClient, m_outputBuffer, serverVars, worker, historyVars,
                 failed>>

\* Wrong: a connection is not enqueued while another one is.
HandleReadSilent(c, n) ==
  /\ Arrives(c, n)
  /\ toServer' = [toServer EXCEPT ![c] = @ - n]
  /\ g_toWorkersQueue' = IF g_toWorkersQueue = <<>> THEN <<c>> ELSE g_toWorkersQueue

\* handleRead and the message callback of RpcFrame.
HandleRead(c, n) ==
  /\ Arrives(c, n)
  /\ toServer' = [toServer EXCEPT ![c] = @ - n]
  /\ enqueue(c)

HandleClose(c) ==
  /\ loop.at = "idle" /\ connected[c] /\ clientFin[c]
  /\ toServer[c] = 0 \/ client[c] = "gone"
  /\ connected' = [connected EXCEPT ![c] = FALSE]
  /\ writing' = [writing EXCEPT ![c] = FALSE]
  /\ toServer' = [toServer EXCEPT ![c] = 0]
  /\ UNCHANGED <<clientVars, toClient, bufferVars, functors, loop, g_toWorkersQueue,
                 worker, historyVars, failed>>

\* sendInLoop up to the append: it gives up, writes the bytes to the socket at
\* once, or has to put them (the kernel's buffer is full, or output waits
\* already) into the output buffer.
SendInLoop ==
  /\ loop.at = "idle" /\ functors # <<>>
  /\ functors' = Tail(functors)
  /\ LET c == Head(functors) IN
     \/ /\ ~connected[c]
        /\ UNCHANGED <<toClient, loop>>
     \/ /\ connected[c] /\ ~writing[c] /\ m_outputBuffer[c] = <<>>
        /\ toClient' = [toClient EXCEPT ![c] = Append(@, "reply")]
        /\ UNCHANGED loop
     \/ /\ connected[c]
        /\ loop' = [at |-> "append", c |-> c, n |-> 0]
        /\ UNCHANGED toClient
  /\ UNCHANGED <<clientVars, toServer, bufferVars, connected, writing, g_toWorkersQueue,
                 worker, historyVars, failed>>

\* The bytes come from the memory of the output buffer itself, where the worker
\* left them.  An append at the same time as the worker's retrieveAll may mix
\* the indices of the two.
AppendOutput ==
  /\ loop.at = "append" /\ loop' = Idle
  /\ writing' = [writing EXCEPT ![loop.c] = TRUE]
  /\ \/ /\ m_outputBuffer' = [m_outputBuffer EXCEPT ![loop.c] = Append(@, "reply")]
        /\ UNCHANGED worker
     \/ \E w \in Worker :
          /\ worker[w] = [at |-> "retrieveAll", c |-> loop.c]
          /\ worker' = [worker EXCEPT ![w] = Waiting]
          /\ m_outputBuffer' = [m_outputBuffer EXCEPT ![loop.c] = <<"garbage">>]
  /\ UNCHANGED <<clientVars, netVars, m_inputBuffer, connected, functors,
                 g_toWorkersQueue, historyVars, failed>>

\* handleWrite: write(2), then retrieve.  With nothing to write it does nothing
\* and is called again in the next round.
HandleWrite(c) ==
  /\ loop.at = "idle" /\ connected[c] /\ writing[c] /\ m_outputBuffer[c] # <<>>
  /\ toClient' = [toClient EXCEPT ![c] = @ \o m_outputBuffer[c]]
  /\ loop' = [at |-> "retrieve", c |-> c, n |-> Len(m_outputBuffer[c])]
  /\ UNCHANGED <<clientVars, toServer, bufferVars, connected, writing, functors,
                 g_toWorkersQueue, worker, historyVars, failed>>

RetrieveOutput ==
  /\ loop.at = "retrieve" /\ loop' = Idle
  /\ LET out == m_outputBuffer[loop.c] IN
     /\ failed' = IF loop.n <= Len(out) THEN failed ELSE "reply"
     /\ m_outputBuffer' = [m_outputBuffer EXCEPT ![loop.c] =
                             SubSeq(out, loop.n + 1, Len(out))]
     /\ writing' = [writing EXCEPT ![loop.c] = loop.n < Len(out)]
  /\ UNCHANGED <<clientVars, netVars, m_inputBuffer, connected, functors,
                 g_toWorkersQueue, worker, historyVars>>

-----------------------------------------------------------------------------
(* RpcFrame::workerLoop.                                                   *)

At(w, place) ==
  /\ worker[w].at = place
  /\ UNCHANGED <<clientVars, netVars, connected, writing, loop>>

Goes(w, place) == worker' = [worker EXCEPT ![w].at = place]

\* The continue of the while loop, and its end.
Continue(w) == worker' = [worker EXCEPT ![w] = Waiting]

WaitDequeue(w) ==
  /\ At(w, "waitDequeue") /\ g_toWorkersQueue # <<>>
  /\ g_toWorkersQueue' = Tail(g_toWorkersQueue)
  /\ worker' = [worker EXCEPT ![w] = [at |-> "unpack", c |-> Head(g_toWorkersQueue)]]
  /\ UNCHANGED <<bufferVars, functors, historyVars, failed>>

\* RpcCoder::unpack: peekInt32, which asserts that the header is there, the
\* comparison with the length, and the parsing of a copy.
Unpack(w) ==
  /\ At(w, "unpack")
  /\ LET c == worker[w].c IN
     /\ failed' = IF m_inputBuffer[c] = 0 THEN "peekInt32" ELSE failed
     /\ IF m_inputBuffer[c] = 2 THEN Goes(w, "retrieve") ELSE Continue(w)
  /\ UNCHANGED <<bufferVars, functors, g_toWorkersQueue, historyVars>>

\* Wrong: the request stays in the buffer, and the connection is put back into
\* the queue because there is something in the buffer.
UnpackRetrieveKept(w) ==
  /\ At(w, "retrieve")
  /\ Goes(w, "call")
  /\ g_toWorkersQueue' = Append(g_toWorkersQueue, worker[w].c)
  /\ UNCHANGED <<bufferVars, functors, historyVars, failed>>

\* Its last step, retrieve, which asserts that the request is still there.
UnpackRetrieve(w) ==
  /\ At(w, "retrieve")
  /\ LET c == worker[w].c IN
     /\ failed' = IF m_inputBuffer[c] = 2 THEN failed ELSE "request"
     /\ m_inputBuffer' = [m_inputBuffer EXCEPT ![c] = 0]
  /\ Goes(w, "call")
  /\ UNCHANGED <<m_outputBuffer, functors, g_toWorkersQueue, historyVars>>

\* Wrong: a request that names no method is answered too.
CallServiceAnyway(w) ==
  /\ At(w, "call")
  /\ LET c == worker[w].c IN
     executed' = IF c \in known THEN [executed EXCEPT ![c] = @ + 1] ELSE executed
  /\ Goes(w, "pack")
  /\ UNCHANGED <<bufferVars, functors, g_toWorkersQueue, refused, failed>>

\* The service and the method are looked up, the request is parsed and the
\* method called.
CallService(w) ==
  /\ At(w, "call")
  /\ LET c == worker[w].c IN
     \/ /\ c \in known
        /\ executed' = [executed EXCEPT ![c] = @ + 1]
        /\ Goes(w, "pack")
        /\ UNCHANGED refused
     \/ /\ c \notin known
        /\ refused' = refused \cup {c}
        /\ Continue(w)
        /\ UNCHANGED executed
  /\ UNCHANGED <<bufferVars, functors, g_toWorkersQueue, failed>>

\* RpcCoder::pack: the length it prepends is that of everything in the buffer.
Pack(w) ==
  /\ At(w, "pack")
  /\ m_outputBuffer' = [m_outputBuffer EXCEPT ![worker[w].c] =
                          IF @ = <<>> THEN <<"reply">> ELSE <<"garbage">>]
  /\ Goes(w, "send")
  /\ UNCHANGED <<m_inputBuffer, functors, g_toWorkersQueue, historyVars, failed>>

\* TcpConnection::send(Buffer*): the functor is queued, then the buffer cleared.
Send(w) ==
  /\ At(w, "send")
  /\ LET c == worker[w].c IN
     \/ connected[c] /\ functors' = Append(functors, c) /\ Goes(w, "retrieveAll")
     \/ ~connected[c] /\ Continue(w) /\ UNCHANGED functors
  /\ UNCHANGED <<bufferVars, g_toWorkersQueue, historyVars, failed>>

RetrieveAll(w) ==
  /\ At(w, "retrieveAll")
  /\ m_outputBuffer' = [m_outputBuffer EXCEPT ![worker[w].c] = <<>>]
  /\ Continue(w)
  /\ UNCHANGED <<m_inputBuffer, functors, g_toWorkersQueue, historyVars, failed>>

-----------------------------------------------------------------------------
ClientStep(c) == OnMessage(c) \/ OnDisconnected(c)

Reads == \E c \in Conn, n \in Pieces : HandleRead(c, n)

LoopStep ==
  \/ \E c \in Conn : HandleClose(c) \/ HandleWrite(c)
  \/ SendInLoop \/ AppendOutput \/ RetrieveOutput

WorkerStep(w) ==
  \/ Unpack(w) \/ UnpackRetrieve(w) \/ CallService(w) \/ Pack(w) \/ Send(w)
  \/ RetrieveAll(w)

Next ==
  /\ failed = "no"
  /\ \/ \E c \in Conn : CallMethod(c) \/ ClientStep(c) \/ ClientGone(c)
     \/ Reads \/ LoopStep
     \/ \E w \in Worker : WaitDequeue(w) \/ WorkerStep(w)

Spec == Init /\ [][Next]_vars

\* The loop's rounds reach the input of every connection and its functors, and
\* every worker continues.  Nothing is assumed of the clients.
FairSpec ==
  /\ Spec
  /\ WF_vars(failed = "no" /\ LoopStep)
  /\ \A c \in Conn : SF_vars(failed = "no" /\ \E n \in Pieces : HandleRead(c, n))
  /\ \A w \in Worker : WF_vars(failed = "no" /\ (WaitDequeue(w) \/ WorkerStep(w)))

-----------------------------------------------------------------------------
(* Properties.                                                             *)

\* The assertions of peekInt32 (Buffer.cpp:51) and of retrieve, called by
\* RpcCoder::unpack, hold: a worker that got a connection from the queue finds
\* the request that was announced, though it reads the buffer without a lock.
RequestAssertion == failed \notin {"peekInt32", "request"}

\* A request is executed at most once, whichever workers get its connection.
ExecutedOnce == TypeOK /\ \A c \in Conn : executed[c] <= 1

\* A response the caller has parsed is that of its request, executed.
ResponseMeansExecuted == \A c \in Conn : response[c] => executed[c] = 1

\* Every request sent is executed, or refused since it names no method, unless
\* its caller is gone or an assertion has ended the server.
RequestsServed ==
  \A c \in Conn :
    client[c] = "waiting"
      ~> (executed[c] > 0 \/ c \in refused \/ client[c] = "gone" \/ failed # "no")

\* Buffer::retrieve asserts "len <= readableBytes()" (Buffer.h:75): handleWrite
\* retrieves what it has just written, so no one else may have taken it.
ReplyAssertion == failed # "reply"
=============================================================================
