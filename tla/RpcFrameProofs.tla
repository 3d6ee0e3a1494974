--------------------------- MODULE RpcFrameProofs ---------------------------
(***************************************************************************)
(* A request is executed at most once and a parsed response is its own,    *)
(* for any number of calls and workers and however the request arrives.    *)
(*                                                                         *)
(* RpcInv follows the two units of a request: they are on the way, in the  *)
(* input buffer, or taken by one worker, which is then the only one at     *)
(* "call".  Two workers may both have seen the whole request, but the      *)
(* second one's retrieve fails its assertion and ends the server, so all   *)
(* is said for a server that has not failed.  Frames exist only after the  *)
(* execution.                                                              *)
(***************************************************************************)
EXTENDS RpcFrame, TLAPS

\* A worker about to call the service for c; the request has been taken out of the buffer.
AtCall(w, c) == worker[w].at = "call" /\ worker[w].c = c
Taken(c) == executed[c] = 1 \/ \E w \in Worker : AtCall(w, c)

UnitsKept ==
  \A c \in Conn :
    /\ client[c] = "idle" => toServer[c] = 0 /\ m_inputBuffer[c] = 0 /\ ~Taken(c)
    /\ toServer[c] + m_inputBuffer[c] <= 2
    /\ executed[c] <= 1
    /\ Taken(c) => toServer[c] = 0 /\ m_inputBuffer[c] = 0

OneCaller ==
  \A w \in Worker, c \in Conn :
    AtCall(w, c) => executed[c] = 0 /\ \A v \in Worker : AtCall(v, c) => v = w

\* Someone has, or is about to make, a reply for c.
Answering(c) ==
  \/ response[c] \/ toClient[c] # <<>> \/ m_outputBuffer[c] # <<>>
  \/ \E i \in DOMAIN functors : functors[i] = c
  \/ loop.at = "append" /\ loop.c = c
  \/ \E w \in Worker : worker[w].c = c /\ worker[w].at \in {"pack", "send", "retrieveAll"}

AnswersExecuted == \A c \in Conn : Answering(c) => executed[c] = 1

\* A worker or a loop that is busy has a connection.
Busy ==
  /\ \A w \in Worker : worker[w].at # "waitDequeue" => worker[w].c \in Conn
  /\ loop.at # "idle" => loop.c \in Conn

RpcInv ==
  /\ ExecutedOnce /\ ResponseMeansExecuted
  /\ failed = "no" => Busy /\ UnitsKept /\ OneCaller /\ AnswersExecuted

-----------------------------------------------------------------------------
(* Types.  WorkerMoves says what a worker's step makes of worker.          *)

WorkerMoves(w) ==
  \/ \E place \in {"retrieve", "call", "pack", "send", "retrieveAll"} : Goes(w, place)
  \/ Continue(w)
  \/ \E c \in Conn : worker' = [worker EXCEPT ![w] = [at |-> "unpack", c |-> c]]

\* A worker's step leaves workers.
LEMMA WorkerType ==
  ASSUME worker \in [Worker -> WorkerState], NEW w \in Worker, WorkerMoves(w)
  PROVE  worker' \in [Worker -> WorkerState]
<1>1. worker[w] \in WorkerState
  OBVIOUS
<1>2. Waiting \in WorkerState /\ \A c \in Conn : [at |-> "unpack", c |-> c] \in WorkerState
  BY DEF Waiting, WorkerState
<1>3. ASSUME NEW place \in {"retrieve", "call", "pack", "send", "retrieveAll"}, Goes(w, place)
      PROVE  worker' \in [Worker -> WorkerState]
  <2>1. [worker[w] EXCEPT !.at = place] \in WorkerState
    BY <1>1 DEF WorkerState
  <2>2. worker' = [worker EXCEPT ![w] = [worker[w] EXCEPT !.at = place]]
    BY <1>3 DEF Goes
  <2> QED
    BY <2>1, <2>2
<1> QED
  BY <1>2, <1>3 DEF WorkerMoves, Continue

\* The types, for one step of a server that has not failed.
LEMMA RpcType == TypeOK /\ Busy /\ UnitsKept /\ Next => TypeOK'
<1> SUFFICES ASSUME TypeOK, Busy, UnitsKept, Next PROVE TypeOK'
  OBVIOUS
<1> USE DEF clientVars, netVars, bufferVars, serverVars, historyVars
<1>0. Idle \in LoopState /\ <<>> \in Seq(Frame) /\ "reply" \in Frame /\ "garbage" \in Frame
  BY DEF Idle, LoopState, Frame
<1>1. ASSUME NEW c \in Conn, CallMethod(c) PROVE TypeOK'
  <2>1. toServer' \in [Conn -> 0 .. 2]
    BY <1>1 DEF CallMethod, TypeOK
  <2> QED
    BY <1>1, <2>1 DEF CallMethod, TypeOK
<1>2. ASSUME NEW c \in Conn, OnMessage(c) PROVE TypeOK'
  BY <1>2 DEF OnMessage, IsResponse, TypeOK
<1>3. ASSUME NEW c \in Conn, OnDisconnected(c) \/ ClientGone(c) PROVE TypeOK'
  BY <1>3 DEF OnDisconnected, ClientGone, TypeOK
<1>4. ASSUME NEW c \in Conn, NEW n \in Pieces, HandleRead(c, n) PROVE TypeOK'
  <2>1. n \in {1, 2} /\ n <= toServer[c] /\ toServer[c] \in 0 .. 2 /\ m_inputBuffer[c] \in 0 .. 2
        /\ toServer[c] + m_inputBuffer[c] <= 2
    BY <1>4, RpcAssumption DEF HandleRead, Arrives, UnitsKept, TypeOK
  <2>2. toServer[c] - n \in 0 .. 2 /\ m_inputBuffer[c] + n \in 0 .. 2
    BY <2>1
  <2>3. toServer' \in [Conn -> 0 .. 2] /\ m_inputBuffer' \in [Conn -> 0 .. 2]
    BY <1>4, <2>2 DEF HandleRead, Arrives, TypeOK
  <2>4. g_toWorkersQueue' \in Seq(Conn)
    BY <1>4 DEF HandleRead, enqueue, TypeOK
  <2> QED
    BY <1>4, <2>3, <2>4 DEF HandleRead, Arrives, TypeOK
<1>5. ASSUME NEW c \in Conn, HandleClose(c) PROVE TypeOK'
  BY <1>5 DEF HandleClose, TypeOK
<1>6. ASSUME NEW c \in Conn, HandleWrite(c) PROVE TypeOK'
  <2>1. loop' \in LoopState
    BY <1>6 DEF HandleWrite, TypeOK, LoopState
  <2> QED
    BY <1>6, <2>1 DEF HandleWrite, TypeOK
<1>7. CASE SendInLoop
  <2>1. Head(functors) \in Conn /\ Tail(functors) \in Seq(Conn)
    BY <1>7 DEF SendInLoop, TypeOK
  <2>2. [at |-> "append", c |-> Head(functors), n |-> 0] \in LoopState
    BY <2>1 DEF LoopState
  <2>3. toClient' \in [Conn -> Seq(Frame)] /\ loop' \in LoopState
    <3>1. toClient \in [Conn -> Seq(Frame)] /\ loop \in LoopState
      BY DEF TypeOK
    <3>2. Append(toClient[Head(functors)], "reply") \in Seq(Frame)
      BY <1>0, <2>1, <3>1
    <3>3. \/ UNCHANGED <<toClient, loop>>
          \/ /\ toClient' = [toClient EXCEPT ![Head(functors)] =
                                Append(toClient[Head(functors)], "reply")]
             /\ loop' = loop
          \/ /\ loop' = [at |-> "append", c |-> Head(functors), n |-> 0]
             /\ toClient' = toClient
      BY <1>7 DEF SendInLoop
    <3> QED
      BY <2>2, <3>1, <3>2, <3>3
  <2> QED
    BY <1>7, <2>1, <2>3 DEF SendInLoop, TypeOK
<1>8. CASE AppendOutput
  <2>1. m_outputBuffer' \in [Conn -> Seq(Frame)]
    <3>1. m_outputBuffer \in [Conn -> Seq(Frame)] /\ loop.c \in Conn
      BY <1>8 DEF TypeOK, AppendOutput, Busy
    <3>2. Append(m_outputBuffer[loop.c], "reply") \in Seq(Frame) /\ <<"garbage">> \in Seq(Frame)
      BY <1>0, <3>1
    <3>3. \E s \in Seq(Frame) : m_outputBuffer' = [m_outputBuffer EXCEPT ![loop.c] = s]
      BY <1>8, <3>2 DEF AppendOutput
    <3> QED
      BY <3>1, <3>3
  <2>2. worker' \in [Worker -> WorkerState]
    <3>1. worker \in [Worker -> WorkerState]
      BY DEF TypeOK
    <3>2. worker' = worker \/ \E w \in Worker : Continue(w)
      BY <1>8 DEF AppendOutput, Continue
    <3> QED
      BY <3>1, <3>2, WorkerType DEF WorkerMoves
  <2> QED
    BY <1>0, <1>8, <2>1, <2>2 DEF AppendOutput, TypeOK
<1>9. CASE RetrieveOutput
  <2>1. loop.c \in Conn /\ loop.n \in Nat
    BY <1>9 DEF RetrieveOutput, Busy, TypeOK, LoopState
  <2>2. m_outputBuffer[loop.c] \in Seq(Frame)
    BY <2>1 DEF TypeOK
  <2>3. SubSeq(m_outputBuffer[loop.c], loop.n + 1, Len(m_outputBuffer[loop.c])) \in Seq(Frame)
    BY <2>1, <2>2
  <2>4. m_outputBuffer' \in [Conn -> Seq(Frame)] /\ writing' \in [Conn -> BOOLEAN]
    BY <1>9, <2>1, <2>3 DEF RetrieveOutput, TypeOK
  <2> QED
    BY <1>0, <1>9, <2>4 DEF RetrieveOutput, TypeOK
<1>10. ASSUME NEW w \in Worker, WaitDequeue(w) \/ WorkerStep(w) PROVE TypeOK'
  <2>1. worker' \in [Worker -> WorkerState]
    <3>1. worker \in [Worker -> WorkerState]
      BY DEF TypeOK
    <3>2. WorkerMoves(w)
      BY <1>10 DEF TypeOK, WaitDequeue, WorkerStep, Unpack, UnpackRetrieve, CallService,
        Pack, Send, RetrieveAll, WorkerMoves
    <3> QED
      BY <3>1, <3>2, WorkerType
  <2>2. UNCHANGED <<known, client, response, clientFin, toServer, toClient, connected,
                    writing, loop>>
    BY <1>10 DEF WaitDequeue, WorkerStep, Unpack, UnpackRetrieve, CallService, Pack, Send,
      RetrieveAll, At
  <2>3. WaitDequeue(w) \/ worker[w].c \in Conn
    BY <1>10 DEF Busy, WorkerStep, Unpack, UnpackRetrieve, CallService, Pack, Send,
      RetrieveAll, At
  <2>4. functors' \in Seq(Conn) /\ g_toWorkersQueue' \in Seq(Conn)
    <3>1. functors \in Seq(Conn) /\ g_toWorkersQueue \in Seq(Conn)
      BY DEF TypeOK
    <3>2. CASE WaitDequeue(w)
      BY <3>1, <3>2 DEF WaitDequeue
    <3>3. CASE Send(w)
      BY <2>3, <3>1, <3>3 DEF Send, WaitDequeue, At
    <3>4. CASE UNCHANGED <<functors, g_toWorkersQueue>>
      BY <3>1, <3>4
    <3> QED
      BY <1>10, <3>2, <3>3, <3>4
      DEF WorkerStep, Unpack, UnpackRetrieve, CallService, Pack, RetrieveAll
  <2>5. m_inputBuffer' \in [Conn -> 0 .. 2] /\ m_outputBuffer' \in [Conn -> Seq(Frame)]
    <3>1. m_inputBuffer \in [Conn -> 0 .. 2] /\ m_outputBuffer \in [Conn -> Seq(Frame)]
      BY DEF TypeOK
    <3>2. CASE UNCHANGED bufferVars
      BY <3>1, <3>2
    <3>3. CASE UnpackRetrieve(w)
      <4>1. /\ m_inputBuffer' = [m_inputBuffer EXCEPT ![worker[w].c] = 0]
            /\ m_outputBuffer' = m_outputBuffer
        BY <3>3 DEF UnpackRetrieve
      <4>2. 0 \in 0 .. 2
        OBVIOUS
      <4> HIDE DEF clientVars, netVars, bufferVars, serverVars, historyVars
      <4>3. m_inputBuffer' \in [Conn -> 0 .. 2]
        BY <3>1, <4>1, <4>2, Zenon
      <4> QED
        BY <3>1, <4>1, <4>3
    <3>4. CASE Pack(w) \/ RetrieveAll(w)
      <4>1. <<"reply">> \in Seq(Frame) /\ <<"garbage">> \in Seq(Frame)
        BY <1>0
      <4>2. /\ m_inputBuffer' = m_inputBuffer
            /\ \E s \in Seq(Frame) : m_outputBuffer' = [m_outputBuffer EXCEPT ![worker[w].c] = s]
        BY <1>0, <3>4, <4>1 DEF Pack, RetrieveAll
      <4> QED
        BY <3>1, <4>2
    <3> QED
      BY <1>10, <3>2, <3>3, <3>4 DEF WaitDequeue, WorkerStep, Unpack, CallService, Send
  <2>6. executed' \in [Conn -> Nat] /\ refused' \subseteq Conn
    <3>1. executed \in [Conn -> Nat] /\ refused \subseteq Conn
      BY DEF TypeOK
    <3>2. CASE CallService(w)
      BY <2>3, <3>1, <3>2 DEF CallService, WaitDequeue, At
    <3>3. CASE UNCHANGED <<executed, refused>>
      BY <3>1, <3>3
    <3> QED
      BY <1>10, <3>2, <3>3
      DEF WaitDequeue, WorkerStep, Unpack, UnpackRetrieve, Pack, Send, RetrieveAll
  <2> QED
    BY <2>1, <2>2, <2>4, <2>5, <2>6 DEF TypeOK
<1> QED
  BY <1>1, <1>2, <1>3, <1>4, <1>5, <1>6, <1>7, <1>8, <1>9, <1>10
  DEF Next, ClientStep, Reads, LoopStep

-----------------------------------------------------------------------------
(* The units, the one caller and the answers.                              *)

\* Busy after every step.
LEMMA BusyStep == TypeOK /\ Busy /\ Next => Busy'
<1> SUFFICES ASSUME TypeOK, Busy, Next PROVE Busy'
  OBVIOUS
<1> USE DEF Busy, clientVars, netVars, bufferVars, serverVars, historyVars
<1>0. loop \in LoopState /\ worker \in [Worker -> WorkerState]
  BY DEF TypeOK
<1>1. CASE UNCHANGED <<worker, loop>>
  BY <1>1
<1>2. ASSUME NEW c \in Conn, HandleWrite(c) PROVE Busy'
  BY <1>2 DEF HandleWrite
<1>3. CASE SendInLoop
  BY <1>3 DEF SendInLoop, TypeOK
<1>4. CASE AppendOutput
  BY <1>0, <1>4 DEF AppendOutput, Idle, Waiting
<1>5. CASE RetrieveOutput
  BY <1>5 DEF RetrieveOutput, Idle
<1>6. ASSUME NEW w \in Worker, WaitDequeue(w) \/ WorkerStep(w) PROVE Busy'
  <2>1. loop' = loop
    BY <1>6 DEF WaitDequeue, WorkerStep, Unpack, UnpackRetrieve, CallService, Pack, Send,
      RetrieveAll, At
  <2>2. CASE WaitDequeue(w)
    <3>1. Head(g_toWorkersQueue) \in Conn
      BY <2>2 DEF WaitDequeue, TypeOK
    <3>2. worker' = [worker EXCEPT ![w] = [at |-> "unpack", c |-> Head(g_toWorkersQueue)]]
      BY <2>2 DEF WaitDequeue
    <3> QED
      BY <1>0, <2>1, <3>1, <3>2, SMTT(30)
  <2>3. CASE WorkerStep(w)
    <3>1. worker[w].c \in Conn /\ worker[w] \in WorkerState
      BY <1>0, <2>3 DEF WorkerStep, Unpack, UnpackRetrieve, CallService, Pack, Send,
        RetrieveAll, At
    <3>2. (\E place : Goes(w, place)) \/ Continue(w)
      BY <2>3 DEF WorkerStep, Unpack, UnpackRetrieve, CallService, Pack, Send, RetrieveAll
    <3> QED
      BY <1>0, <2>1, <3>1, <3>2 DEF Goes, Continue, Waiting, WorkerState
  <2> QED
    BY <1>6, <2>2, <2>3
<1> QED
  BY <1>1, <1>2, <1>3, <1>4, <1>5, <1>6
  DEF Next, ClientStep, Reads, LoopStep, CallMethod, OnMessage, OnDisconnected, ClientGone,
      HandleRead, Arrives, HandleClose

\* The steps at which no worker begins or ends a call.
LEMMA UnitsQuiet ==
  ASSUME TypeOK, UnitsKept, OneCaller, UNCHANGED executed,
         \A w \in Worker, c \in Conn : AtCall(w, c)' <=> AtCall(w, c)
  PROVE  /\ OneCaller'
         /\ UNCHANGED <<client, toServer, m_inputBuffer>> => UnitsKept'
BY DEF UnitsKept, OneCaller, Taken

\* Where a worker goes when it moves, and that the others stay.
LEMMA WorkerMoved ==
  ASSUME TypeOK, NEW w \in Worker
  PROVE  /\ \A place : Goes(w, place) =>
              /\ worker'[w].at = place /\ worker'[w].c = worker[w].c
              /\ \A v \in Worker : v # w => worker'[v] = worker[v]
         /\ Continue(w) =>
              /\ worker'[w].at = "waitDequeue"
              /\ \A v \in Worker : v # w => worker'[v] = worker[v]
<1>1. worker \in [Worker -> WorkerState] /\ worker[w] \in WorkerState
  BY DEF TypeOK
<1> QED
  BY <1>1 DEF Goes, Continue, Waiting, WorkerState

\* The units and the callers.
LEMMA UnitsStep ==
  ASSUME TypeOK, Busy, UnitsKept, OneCaller, Next
  PROVE  /\ \A c \in Conn : executed'[c] <= 1 /\ (executed[c] = 1 => executed'[c] = 1)
         /\ failed' = "no" => UnitsKept' /\ OneCaller'
<1> USE DEF clientVars, netVars, bufferVars, serverVars, historyVars
<1> DEFINE Goal == /\ \A c \in Conn : executed'[c] <= 1 /\ (executed[c] = 1 => executed'[c] = 1)
                   /\ failed' = "no" => UnitsKept' /\ OneCaller'
<1>0. /\ executed \in [Conn -> Nat] /\ toServer \in [Conn -> 0 .. 2]
      /\ m_inputBuffer \in [Conn -> 0 .. 2]
      /\ \A c \in Conn : executed[c] <= 1
  BY DEF TypeOK, UnitsKept
<1>1. CASE UNCHANGED <<worker, executed, client, toServer, m_inputBuffer>>
  BY <1>0, <1>1, UnitsQuiet DEF AtCall
<1>2. ASSUME NEW c \in Conn, CallMethod(c) PROVE Goal
  <2>1. OneCaller' /\ UNCHANGED <<executed, worker, m_inputBuffer>>
    BY <1>2, UnitsQuiet DEF CallMethod, AtCall
  <2>2. UnitsKept'
    BY <1>0, <1>2, <2>1 DEF CallMethod, UnitsKept, Taken, AtCall, TypeOK
  <2> QED
    BY <1>0, <2>1, <2>2
<1>3. ASSUME NEW c \in Conn, OnDisconnected(c) \/ ClientGone(c) PROVE Goal
  <2>1. OneCaller' /\ UNCHANGED <<executed, worker, m_inputBuffer, toServer>>
    BY <1>3, UnitsQuiet DEF OnDisconnected, ClientGone, AtCall
  <2>2. UnitsKept'
    BY <1>0, <1>3, <2>1 DEF OnDisconnected, ClientGone, UnitsKept, Taken, AtCall, TypeOK
  <2> QED
    BY <1>0, <2>1, <2>2
<1>4. ASSUME NEW c \in Conn, NEW n \in Pieces, HandleRead(c, n) PROVE Goal
  <2>1. OneCaller' /\ UNCHANGED <<executed, worker, client>>
    BY <1>4, UnitsQuiet DEF HandleRead, Arrives, AtCall
  <2>2. /\ n \in {1, 2} /\ n <= toServer[c]
        /\ toServer' = [toServer EXCEPT ![c] = @ - n]
        /\ m_inputBuffer' = [m_inputBuffer EXCEPT ![c] = @ + n]
    BY <1>4, RpcAssumption DEF HandleRead, Arrives
  <2>3. ~Taken(c) /\ client[c] # "idle"
    BY <1>0, <2>2 DEF UnitsKept
  <2>4. ASSUME NEW d \in Conn
        PROVE  /\ client'[d] = "idle" => toServer'[d] = 0 /\ m_inputBuffer'[d] = 0 /\ ~Taken(d)'
               /\ toServer'[d] + m_inputBuffer'[d] <= 2
               /\ executed'[d] <= 1
               /\ Taken(d)' => toServer'[d] = 0 /\ m_inputBuffer'[d] = 0
    <3>1. Taken(d)' <=> Taken(d)
      BY <2>1 DEF Taken, AtCall
    <3>2. CASE d = c
      <4>1. toServer'[d] = toServer[c] - n /\ m_inputBuffer'[d] = m_inputBuffer[c] + n
        BY <1>0, <2>2, <3>2
      <4>2. toServer[c] + m_inputBuffer[c] <= 2
        BY DEF UnitsKept
      <4> QED
        BY <1>0, <2>1, <2>2, <2>3, <3>1, <3>2, <4>1, <4>2
    <3>3. CASE d # c
      <4>1. toServer'[d] = toServer[d] /\ m_inputBuffer'[d] = m_inputBuffer[d]
        BY <1>0, <2>2, <3>3
      <4> QED
        BY <1>0, <2>1, <3>1, <4>1 DEF UnitsKept
    <3> QED
      BY <3>2, <3>3
  <2> QED
    BY <1>0, <2>1, <2>4 DEF UnitsKept
<1>5. ASSUME NEW c \in Conn, HandleClose(c) PROVE Goal
  <2>1. OneCaller' /\ UNCHANGED <<executed, worker, client, m_inputBuffer>>
    BY <1>5, UnitsQuiet DEF HandleClose, AtCall
  <2>2. UnitsKept'
    BY <1>0, <1>5, <2>1 DEF HandleClose, UnitsKept, Taken, AtCall
  <2> QED
    BY <1>0, <2>1, <2>2
<1>6. ASSUME \A w \in Worker, c \in Conn : AtCall(w, c)' <=> AtCall(w, c),
             UNCHANGED <<executed, client, toServer, m_inputBuffer>>
      PROVE  Goal
  BY <1>0, <1>6, UnitsQuiet
<1>7. ASSUME NEW w \in Worker, worker[w].at # "call", worker'[w].at # "call",
             \A v \in Worker : v # w => worker'[v] = worker[v],
             UNCHANGED <<executed, client, toServer, m_inputBuffer>>
      PROVE  Goal
  BY <1>6, <1>7 DEF AtCall
<1>8. CASE AppendOutput
  <2>1. UNCHANGED <<executed, client, toServer, m_inputBuffer>>
    BY <1>8 DEF AppendOutput
  <2>2. CASE worker' = worker
    BY <1>1, <2>1, <2>2
  <2>3. ASSUME NEW w \in Worker, worker[w] = [at |-> "retrieveAll", c |-> loop.c], Continue(w)
        PROVE  Goal
    BY <1>7, <2>1, <2>3, WorkerMoved
  <2> QED
    BY <1>8, <2>2, <2>3 DEF AppendOutput, Continue
<1>9. ASSUME NEW w \in Worker, WaitDequeue(w) PROVE Goal
  <2>1. /\ UNCHANGED <<executed, client, toServer, m_inputBuffer>>
        /\ worker[w].at = "waitDequeue"
        /\ worker' = [worker EXCEPT ![w] = [at |-> "unpack", c |-> Head(g_toWorkersQueue)]]
    BY <1>9 DEF WaitDequeue, At
  <2>2. worker \in [Worker -> WorkerState]
    BY DEF TypeOK
  <2>3. worker'[w].at = "unpack" /\ \A v \in Worker : v # w => worker'[v] = worker[v]
    BY <2>1, <2>2
  <2> QED
    BY <1>7, <2>1, <2>3
<1>10. ASSUME NEW w \in Worker, Unpack(w) \/ Pack(w) \/ Send(w) \/ RetrieveAll(w) PROVE Goal
  <2>1. /\ UNCHANGED <<executed, client, toServer, m_inputBuffer>>
        /\ worker[w].at # "call"
        /\ Continue(w) \/ \E place \in {"retrieve", "send", "retrieveAll"} : Goes(w, place)
    BY <1>10 DEF Unpack, Pack, Send, RetrieveAll, At
  <2>2. worker'[w].at # "call" /\ \A v \in Worker : v # w => worker'[v] = worker[v]
    BY <2>1, WorkerMoved
  <2> QED
    BY <1>7, <2>1, <2>2
<1>11. ASSUME NEW w \in Worker, UnpackRetrieve(w) PROVE Goal
  <2> DEFINE c == worker[w].c
  <2>1. /\ UNCHANGED <<executed, client, toServer>> /\ Goes(w, "call")
        /\ worker[w].at = "retrieve" /\ c \in Conn
        /\ m_inputBuffer' = [m_inputBuffer EXCEPT ![c] = 0]
    BY <1>11 DEF UnpackRetrieve, At, Busy
  <2>2. ASSUME failed' = "no" PROVE m_inputBuffer[c] = 2
    BY <1>11, <2>2 DEF UnpackRetrieve
  <2>3. /\ worker'[w].at = "call" /\ worker'[w].c = c
        /\ \A v \in Worker : v # w => worker'[v] = worker[v]
    BY <2>1, WorkerMoved
  <2> HIDE DEF c
  <2>4. ASSUME failed' = "no" PROVE UnitsKept' /\ OneCaller'
    <3>1. /\ ~Taken(c) /\ toServer[c] = 0 /\ client[c] # "idle" /\ executed[c] = 0
      BY <1>0, <2>1, <2>2, <2>4 DEF UnitsKept, Taken
    <3>2. \A v \in Worker, d \in Conn : AtCall(v, d)' <=> AtCall(v, d) \/ (v = w /\ d = c)
      BY <2>1, <2>3 DEF AtCall
    <3>3. OneCaller'
      BY <2>1, <3>1, <3>2 DEF OneCaller, Taken
    <3>4. \A d \in Conn : d # c => (Taken(d)' <=> Taken(d)) /\ m_inputBuffer'[d] = m_inputBuffer[d]
      BY <1>0, <2>1, <3>2 DEF Taken
    <3>5. m_inputBuffer'[c] = 0
      BY <1>0, <2>1
    <3>6. UnitsKept'
      BY <1>0, <2>1, <3>1, <3>4, <3>5 DEF UnitsKept
    <3> QED
      BY <3>3, <3>6
  <2> QED
    BY <1>0, <2>1, <2>4
<1>12. ASSUME NEW w \in Worker, CallService(w) PROVE Goal
  <2> DEFINE c == worker[w].c
  <2>1. /\ UNCHANGED <<client, toServer, m_inputBuffer>> /\ AtCall(w, c) /\ c \in Conn
        /\ \/ Goes(w, "pack") /\ executed' = [executed EXCEPT ![c] = @ + 1]
           \/ Continue(w) /\ executed' = executed
    BY <1>12 DEF CallService, At, Busy, AtCall
  <2>2. worker'[w].at # "call" /\ \A v \in Worker : v # w => worker'[v] = worker[v]
    <3>1. CASE Goes(w, "pack")
      BY <3>1, WorkerMoved
    <3>2. CASE Continue(w)
      BY <3>2, WorkerMoved
    <3> QED
      BY <2>1, <3>1, <3>2
  <2> HIDE DEF c
  <2>3. executed[c] = 0 /\ toServer[c] = 0 /\ m_inputBuffer[c] = 0 /\ client[c] # "idle"
    BY <2>1 DEF OneCaller, UnitsKept, Taken
  <2>4. \A v \in Worker, d \in Conn : AtCall(v, d)' <=> AtCall(v, d) /\ v # w
    BY <2>2 DEF AtCall
  <2>5. \A d \in Conn : /\ d # c => executed'[d] = executed[d]
                        /\ executed'[c] \in {0, 1}
    BY <1>0, <2>1, <2>3
  <2>6. \A d \in Conn : AtCall(w, d) => d = c
    BY <2>1 DEF AtCall
  <2>7. OneCaller'
    BY <2>1, <2>4, <2>5 DEF OneCaller
  <2>8. \A d \in Conn : d # c => (Taken(d)' <=> Taken(d))
    BY <2>4, <2>5, <2>6 DEF Taken
  <2>9. UnitsKept'
    BY <1>0, <2>1, <2>3, <2>5, <2>8 DEF UnitsKept
  <2>10. \A d \in Conn : executed'[d] <= 1 /\ (executed[d] = 1 => executed'[d] = 1)
    BY <1>0, <2>3, <2>5
  <2> QED
    BY <2>7, <2>9, <2>10
<1>13. CASE UNCHANGED <<worker, executed, client, toServer, m_inputBuffer>>
  BY <1>1, <1>13
<1> QED
  BY <1>2, <1>3, <1>4, <1>5, <1>8, <1>9, <1>10, <1>11, <1>12, <1>13
  DEF Next, ClientStep, Reads, LoopStep, WorkerStep, OnMessage, HandleWrite, SendInLoop,
      RetrieveOutput

\* A reply begins with an execution: it is passed on afterwards, never made.
LEMMA AnswerStep ==
  ASSUME TypeOK, Busy, OneCaller, Next, NEW d \in Conn, Answering(d)'
  PROVE  Answering(d) \/ executed'[d] = 1
<1> USE DEF clientVars, netVars, bufferVars, serverVars, historyVars
<1> DEFINE Goal == Answering(d) \/ executed'[d] = 1
           Replies(w) == worker[w].c = d /\ worker[w].at \in {"pack", "send", "retrieveAll"}
<1>0. /\ toClient \in [Conn -> Seq(Frame)] /\ m_outputBuffer \in [Conn -> Seq(Frame)]
      /\ response \in [Conn -> BOOLEAN] /\ executed \in [Conn -> Nat]
      /\ functors \in Seq(Conn) /\ worker \in [Worker -> WorkerState] /\ loop \in LoopState
  BY DEF TypeOK
<1>1. CASE UNCHANGED <<response, toClient, m_outputBuffer, functors, loop, worker>>
  BY <1>1 DEF Answering
<1>2. ASSUME NEW c \in Conn, OnMessage(c) PROVE Goal
  BY <1>0, <1>2 DEF OnMessage, Answering
<1>3. ASSUME NEW c \in Conn, HandleWrite(c) PROVE Goal
  <2>1. d # c => toClient'[d] = toClient[d]
    BY <1>0, <1>3 DEF HandleWrite
  <2>2. d = c => m_outputBuffer[d] # <<>>
    BY <1>3 DEF HandleWrite
  <2>3. UNCHANGED <<response, m_outputBuffer, functors, worker>> /\ loop'.at # "append"
    BY <1>3 DEF HandleWrite
  <2> QED
    BY <2>1, <2>2, <2>3 DEF Answering
<1>4. CASE SendInLoop
  <2>1. /\ functors # <<>> /\ functors' = Tail(functors)
        /\ UNCHANGED <<response, m_outputBuffer, worker>>
    BY <1>4 DEF SendInLoop
  <2>2. d = Head(functors) \/ (toClient'[d] = toClient[d] /\ (loop' = loop \/ loop'.c # d))
    BY <1>0, <1>4 DEF SendInLoop
  <2>3. \A i \in DOMAIN functors' : i + 1 \in DOMAIN functors /\ functors'[i] = functors[i + 1]
    BY <1>0, <2>1
  <2>4. 1 \in DOMAIN functors /\ Head(functors) = functors[1]
    BY <1>0, <2>1
  <2> QED
    BY <2>1, <2>2, <2>3, <2>4 DEF Answering
<1>5. CASE AppendOutput
  <2>1. /\ loop.at = "append" /\ loop'.at # "append"
        /\ UNCHANGED <<response, toClient, functors>>
    BY <1>5 DEF AppendOutput, Idle
  <2>2. d # loop.c => m_outputBuffer'[d] = m_outputBuffer[d]
    BY <1>0, <1>5 DEF AppendOutput
  <2>3. \A w \in Worker : Replies(w)' => Replies(w)
    <3>1. worker' = worker \/ \E w \in Worker : Continue(w)
      BY <1>5 DEF AppendOutput, Continue
    <3> QED
      BY <3>1, WorkerMoved
  <2> QED
    BY <2>1, <2>2, <2>3 DEF Answering
<1>6. CASE RetrieveOutput
  <2>1. loop'.at # "append" /\ UNCHANGED <<response, toClient, functors, worker>>
    BY <1>6 DEF RetrieveOutput, Idle
  <2>2. loop.c \in Conn /\ loop.n \in Nat
    BY <1>0, <1>6 DEF RetrieveOutput, Busy, LoopState
  <2>3. m_outputBuffer[loop.c] = <<>>
          => SubSeq(m_outputBuffer[loop.c], loop.n + 1, Len(m_outputBuffer[loop.c])) = <<>>
    BY <2>2
  <2>4. m_outputBuffer[d] = <<>> => m_outputBuffer'[d] = <<>>
    BY <1>0, <1>6, <2>2, <2>3 DEF RetrieveOutput
  <2> QED
    BY <2>1, <2>4 DEF Answering
<1>7. ASSUME NEW w \in Worker, WaitDequeue(w) \/ WorkerStep(w) PROVE Goal
  <2>1. UNCHANGED <<response, toClient, loop>>
    BY <1>7 DEF WaitDequeue, WorkerStep, Unpack, UnpackRetrieve, CallService, Pack, Send,
      RetrieveAll, At
  <2>2. ASSUME UNCHANGED <<m_outputBuffer, functors>>,
               \A v \in Worker : Replies(v)' => Replies(v)
        PROVE  Goal
    BY <2>1, <2>2 DEF Answering
  <2>3. CASE WaitDequeue(w)
    <3>1. \A v \in Worker : Replies(v)' => Replies(v)
      BY <1>0, <2>3 DEF WaitDequeue
    <3> QED
      BY <2>2, <2>3, <3>1 DEF WaitDequeue
  <2>4. CASE Unpack(w) \/ UnpackRetrieve(w)
    <3>1. Goes(w, "retrieve") \/ Goes(w, "call") \/ Continue(w)
      BY <2>4 DEF Unpack, UnpackRetrieve
    <3>2. /\ worker'[w].at \notin {"pack", "send", "retrieveAll"}
          /\ \A v \in Worker : v # w => worker'[v] = worker[v]
      <4>1. CASE Goes(w, "retrieve")
        BY <4>1, WorkerMoved
      <4>2. CASE Goes(w, "call")
        BY <4>2, WorkerMoved
      <4>3. CASE Continue(w)
        BY <4>3, WorkerMoved
      <4> QED
        BY <3>1, <4>1, <4>2, <4>3
    <3> QED
      BY <2>2, <2>4, <3>2 DEF Unpack, UnpackRetrieve
  <2>5. CASE CallService(w)
    <3>1. AtCall(w, worker[w].c) /\ worker[w].c \in Conn
      BY <2>5 DEF CallService, At, AtCall, Busy
    <3>2. executed[worker[w].c] = 0
      BY <3>1 DEF OneCaller
    <3>3. \/ Goes(w, "pack") /\ executed'[worker[w].c] = 1
          \/ Continue(w)
      BY <1>0, <2>5, <3>1, <3>2 DEF CallService
    <3>4. \/ worker'[w].c = worker[w].c /\ executed'[worker[w].c] = 1
          \/ worker'[w].at = "waitDequeue"
      BY <3>3, WorkerMoved
    <3>5. \A v \in Worker : v # w => worker'[v] = worker[v]
      BY <3>3, WorkerMoved
    <3> QED
      BY <2>2, <2>5, <3>4, <3>5 DEF CallService
  <2>6. CASE Pack(w) \/ Send(w) \/ RetrieveAll(w)
    <3>1. worker[w].at \in {"pack", "send", "retrieveAll"}
      BY <2>6 DEF Pack, Send, RetrieveAll, At
    <3>2. CASE worker[w].c = d
      BY <3>1, <3>2 DEF Answering
    <3>3. CASE worker[w].c # d
      <4>1. (\E place : Goes(w, place)) \/ Continue(w)
        BY <2>6 DEF Pack, Send, RetrieveAll
      <4>2. \A v \in Worker : Replies(v)' => Replies(v)
        BY <3>3, <4>1, WorkerMoved
      <4>3. m_outputBuffer'[d] = m_outputBuffer[d]
        BY <1>0, <2>6, <3>3 DEF Pack, Send, RetrieveAll
      <4>4. functors' = functors \/ functors' = Append(functors, worker[w].c)
        BY <2>6 DEF Pack, Send, RetrieveAll
      <4>5. \A i \in DOMAIN functors' : functors'[i] = d => i \in DOMAIN functors /\ functors[i] = d
        <5>1. worker[w].c \in Conn
          BY <3>1 DEF Busy
        <5>2. functors \in Seq(Conn)
          BY <1>0
        <5>3. ASSUME NEW e \in Conn, e # d, functors' = Append(functors, e),
                     NEW i \in DOMAIN functors', functors'[i] = d
              PROVE  i \in DOMAIN functors /\ functors[i] = d
          <6>1. i \in 1 .. Len(functors) + 1
            BY <5>2, <5>3
          <6>2. i # Len(functors) + 1
            BY <5>2, <5>3
          <6> QED
            BY <5>2, <5>3, <6>1, <6>2
        <5> QED
          BY <3>3, <4>4, <5>1, <5>3
      <4> QED
        BY <2>1, <4>2, <4>3, <4>5 DEF Answering
    <3> QED
      BY <3>2, <3>3
  <2> QED
    BY <1>7, <2>3, <2>4, <2>5, <2>6 DEF WorkerStep
<1> QED
  BY <1>1, <1>2, <1>3, <1>4, <1>5, <1>6, <1>7
  DEF Next, ClientStep, Reads, LoopStep, CallMethod, OnDisconnected, ClientGone,
      HandleRead, Arrives, HandleClose

-----------------------------------------------------------------------------
\* The inductive invariant: where the units of a request and its replies are.
THEOREM RpcInductive == Spec => []RpcInv
<1>1. Init => RpcInv
  <2> SUFFICES ASSUME Init PROVE RpcInv
    OBVIOUS
  <2>1. TypeOK
    BY SMTT(30) DEF Init, TypeOK, Idle, Waiting, LoopState, WorkerState
  <2>2. \A w \in Worker, c \in Conn : ~AtCall(w, c)
    BY Zenon DEF Init, AtCall, Waiting
  <2>3. Busy /\ UnitsKept /\ OneCaller
    <3>1. Busy
      BY DEF Init, Busy, Idle, Waiting
    <3>2. UnitsKept
      <4> SUFFICES ASSUME NEW c \in Conn
                   PROVE  /\ client[c] = "idle" =>
                               toServer[c] = 0 /\ m_inputBuffer[c] = 0 /\ ~Taken(c)
                          /\ toServer[c] + m_inputBuffer[c] <= 2
                          /\ executed[c] <= 1
                          /\ Taken(c) => toServer[c] = 0 /\ m_inputBuffer[c] = 0
        BY DEF UnitsKept
      <4>1. executed[c] = 0 /\ toServer[c] = 0 /\ m_inputBuffer[c] = 0
        BY DEF Init
      <4>2. executed[c] # 1
        BY <4>1
      <4>3. ~Taken(c)
        BY <2>2, <4>2, Zenon DEF Taken
      <4> QED
        BY <4>1, <4>3
    <3>3. OneCaller
      BY <2>2 DEF OneCaller
    <3> QED
      BY <3>1, <3>2, <3>3
  <2>4. AnswersExecuted
    BY DEF Init, AnswersExecuted, Answering, Idle, Waiting
  <2> QED
    BY <2>1, <2>3, <2>4 DEF Init, RpcInv, ExecutedOnce, ResponseMeansExecuted
<1>2. RpcInv /\ [Next]_vars => RpcInv'
  <2>1. ASSUME RpcInv, Next PROVE RpcInv'
    <3>1. TypeOK /\ Busy /\ UnitsKept /\ OneCaller /\ AnswersExecuted
      BY <2>1 DEF RpcInv, ExecutedOnce, Next
    <3>2. TypeOK' /\ Busy'
      BY <2>1, <3>1, RpcType, BusyStep
    <3>3. /\ \A c \in Conn : executed'[c] <= 1 /\ (executed[c] = 1 => executed'[c] = 1)
          /\ failed' = "no" => UnitsKept' /\ OneCaller'
      BY <2>1, <3>1, UnitsStep
    <3>4. \A c \in Conn : Answering(c)' => Answering(c) \/ executed'[c] = 1
      BY <2>1, <3>1, AnswerStep
    <3>5. AnswersExecuted'
      BY <3>1, <3>3, <3>4 DEF AnswersExecuted
    <3>6. ExecutedOnce' /\ ResponseMeansExecuted'
      BY <3>2, <3>3, <3>5 DEF ExecutedOnce, ResponseMeansExecuted, AnswersExecuted, Answering
    <3> QED
      BY <3>2, <3>3, <3>5, <3>6 DEF RpcInv
  <2>2. ASSUME RpcInv, UNCHANGED vars PROVE RpcInv'
    <3> USE <2>2 DEF vars, clientVars, netVars, bufferVars, serverVars, historyVars
    <3>1. ExecutedOnce' /\ ResponseMeansExecuted'
      BY DEF RpcInv, ExecutedOnce, TypeOK, ResponseMeansExecuted
    <3>2. failed' = failed
      OBVIOUS
    <3>3. CASE failed = "no"
      <4>1. Busy' /\ UnitsKept'
        BY <3>3 DEF RpcInv, Busy, UnitsKept, Taken, AtCall
      <4>2. OneCaller'
        BY <3>3 DEF RpcInv, OneCaller, AtCall
      <4>3. AnswersExecuted'
        BY <3>3 DEF RpcInv, AnswersExecuted, Answering
      <4> QED
        BY <3>1, <4>1, <4>2, <4>3 DEF RpcInv
    <3> QED
      BY <3>1, <3>2, <3>3 DEF RpcInv
  <2> QED
    BY <2>1, <2>2
<1> QED
  BY <1>1, <1>2, PTL DEF Spec

\* No request is executed twice, though its connection may be queued for, and
\* read by, several workers at a time.
THEOREM AlwaysExecutedOnce == Spec => []ExecutedOnce
<1>1. RpcInv => ExecutedOnce
  BY DEF RpcInv
<1> QED
  BY <1>1, RpcInductive, PTL

\* What a caller takes for its response comes from the execution of its request.
THEOREM ResponseAlwaysExecuted == Spec => []ResponseMeansExecuted
<1>1. RpcInv => ResponseMeansExecuted
  BY DEF RpcInv
<1> QED
  BY <1>1, RpcInductive, PTL
=============================================================================
