---------------------------- MODULE AsyncLogging ----------------------------
(***************************************************************************)
(* base/AsyncLogging: front-end threads append lines to the current buffer *)
(* under m_mutex; one back-end thread (threadRoutine) takes all buffers    *)
(* with a swap, writes them without the lock and recycles two of them, so  *)
(* that the swap itself never allocates.                                   *)
(*                                                                         *)
(* A buffer is the sequence of the lines in it.  Of the buffers that wait  *)
(* to be used (m_nextBuffer, backupBuffer1, backupBuffer2), always empty,  *)
(* only whether the pointer is set is kept.  m_cond.notify() only ends the *)
(* back-end's wait, which a timeout may end at any time anyway.            *)
(*                                                                         *)
(* Operators marked Wrong are variants of the definition after them, used  *)
(* to see that a property can fail (PROJECT.json, mutants).                *)
(***************************************************************************)
EXTENDS Naturals, Sequences

CONSTANTS Line,         \* the calls of append, each one its own value
          Big,          \* the lines longer than a whole buffer
          Size          \* a buffer's size; a line that is not Big has length 1

ASSUME SizeAssumption == Size \in Nat /\ Size > 1
ASSUME BigAssumption == Big \subseteq Line

VARIABLES
  m_isRunning,
  m_currentBuffer, m_nextBuffer, m_buffers,    \* guarded by m_mutex
  backupBuffer1, backupBuffer2, buffersToWrite,
  written,              \* how many of buffersToWrite are in the file
  pc,                   \* the back-end thread
  owner,                \* the thread that calls start and stop
  output,               \* what was handed to LogFile::append
  failed,               \* an assertion that failed or a null buffer used
  accepted,             \* history: the lines a buffer took, in order
  dropped               \* history: the lines too long for any buffer

frontVars == <<m_currentBuffer, m_nextBuffer, m_buffers>>
backVars == <<backupBuffer1, backupBuffer2, buffersToWrite, written>>
histories == <<accepted, dropped>>
vars == <<m_isRunning, frontVars, backVars, pc, owner, output, failed,
          histories>>

TypeOK ==
  /\ m_isRunning \in BOOLEAN
  /\ m_currentBuffer \in Seq(Line) /\ m_nextBuffer \in BOOLEAN
  /\ m_buffers \in Seq(Seq(Line))
  /\ backupBuffer1 \in BOOLEAN /\ backupBuffer2 \in BOOLEAN
  /\ buffersToWrite \in Seq(Seq(Line))
  /\ written \in Nat
  /\ pc \in {"new", "begin", "while", "lock", "wait", "write", "exit"}
  /\ owner \in {"new", "started", "stopping", "stopped"}
  /\ output \in Seq(Line) /\ accepted \in Seq(Line)
  /\ dropped \subseteq Line
  /\ failed \in {"no", "m_isRunning", "m_currentBuffer", "buffersToWrite"}

Init ==
  /\ m_isRunning = FALSE
  /\ m_currentBuffer = <<>> /\ m_nextBuffer = TRUE /\ m_buffers = <<>>
  /\ backupBuffer1 = TRUE /\ backupBuffer2 = TRUE /\ buffersToWrite = <<>>
  /\ written = 0
  /\ pc = "new" /\ owner = "new"
  /\ output = <<>> /\ accepted = <<>> /\ dropped = {}
  /\ failed = "no"

\* avail() > len, the test of AsyncLogging::append and of LogBuffer::append.
Length(l) == IF l \in Big THEN Size ELSE 1
Fits(buffer, l) == Size - Len(buffer) > Length(l)

\* LogBuffer::append.
Put(buffer, l) == IF Fits(buffer, l) THEN Append(buffer, l) ELSE buffer

\* The histories.
Record(l) ==
  /\ accepted' = IF l \in Big THEN accepted ELSE Append(accepted, l)
  /\ dropped' = dropped \cup ({l} \cap Big)

\* Wrong: the full buffer is dropped.
appendDropping(l) ==
  /\ m_currentBuffer' = IF Fits(m_currentBuffer, l)
                        THEN Append(m_currentBuffer, l) ELSE Put(<<>>, l)
  /\ Record(l)
  /\ UNCHANGED <<m_isRunning, m_nextBuffer, m_buffers, backVars, pc, owner,
                 output, failed>>

append(l) ==
  /\ IF Fits(m_currentBuffer, l)
     THEN /\ m_currentBuffer' = Put(m_currentBuffer, l)
          /\ UNCHANGED <<m_nextBuffer, m_buffers>>
     ELSE /\ m_buffers' = Append(m_buffers, m_currentBuffer)
          /\ m_nextBuffer' = FALSE
          /\ m_currentBuffer' = Put(<<>>, l)
  /\ Record(l)
  /\ UNCHANGED <<m_isRunning, backVars, pc, owner, output, failed>>

start ==
  /\ owner = "new"
  /\ owner' = "started"
  /\ m_isRunning' = TRUE
  /\ pc' = "begin"
  /\ UNCHANGED <<frontVars, backVars, output, failed, histories>>

stop ==
  /\ owner = "started"
  /\ owner' = "stopping"
  /\ m_isRunning' = FALSE
  /\ UNCHANGED <<frontVars, backVars, pc, output, failed,
                 histories>>

\* The join in stop.
Join ==
  /\ owner = "stopping" /\ pc = "exit"
  /\ owner' = "stopped"
  /\ UNCHANGED <<m_isRunning, frontVars, backVars, pc, output, failed,
                 histories>>

\* threadRoutine's first assertion.
Begin ==
  /\ pc = "begin"
  /\ pc' = "while"
  /\ failed' = IF m_isRunning THEN failed ELSE "m_isRunning"
  /\ UNCHANGED <<m_isRunning, frontVars, backVars, owner, output, histories>>

\* while(m_isRunning), with the assertion that starts the loop's body.
While ==
  /\ pc = "while"
  /\ pc' = IF m_isRunning THEN "lock" ELSE "exit"
  /\ failed' = IF m_isRunning /\ buffersToWrite # <<>>
               THEN "buffersToWrite" ELSE failed
  /\ UNCHANGED <<m_isRunning, frontVars, backVars, owner, output, histories>>

\* m_cond.waitForSeconds, when there is no full buffer.
Wait ==
  /\ pc = "lock" /\ m_buffers = <<>>
  /\ pc' = "wait"
  /\ UNCHANGED <<m_isRunning, frontVars, backVars, owner, output, failed,
                 histories>>

\* The rest of the critical section; backupBuffer1 becomes the current buffer.
Swap ==
  /\ pc = "wait" \/ (pc = "lock" /\ m_buffers # <<>>)
  /\ pc' = "write"
  /\ buffersToWrite' = Append(m_buffers, m_currentBuffer)
  /\ m_buffers' = <<>>
  /\ m_currentBuffer' = <<>> /\ backupBuffer1' = FALSE
  /\ failed' = IF backupBuffer1 THEN failed ELSE "m_currentBuffer"
  /\ IF m_nextBuffer
     THEN UNCHANGED <<m_nextBuffer, backupBuffer2>>
     ELSE m_nextBuffer' = backupBuffer2 /\ backupBuffer2' = FALSE
  /\ written' = 0
  /\ UNCHANGED <<m_isRunning, owner, output, histories>>

\* Wrong: the buffers are written from the newest to the oldest.
WriteReversed ==
  /\ pc = "write" /\ written < Len(buffersToWrite)
  /\ output' = output \o buffersToWrite[Len(buffersToWrite) - written]
  /\ written' = written + 1
  /\ UNCHANGED <<m_isRunning, frontVars, backupBuffer1, backupBuffer2,
                 buffersToWrite, pc, owner, failed, histories>>

\* One round of the loop over buffersToWrite.
Write ==
  /\ pc = "write" /\ written < Len(buffersToWrite)
  /\ output' = output \o buffersToWrite[written + 1]
  /\ written' = written + 1
  /\ UNCHANGED <<m_isRunning, frontVars, backupBuffer1, backupBuffer2,
                 buffersToWrite, pc, owner, failed, histories>>

\* How many backup buffers the thread lacks, and how many it kept.
Needed == (IF backupBuffer1 THEN 0 ELSE 1) + (IF backupBuffer2 THEN 0 ELSE 1)

\* Wrong: one buffer too few is kept.
KeptOne == IF Len(buffersToWrite) > 1 THEN 1 ELSE Len(buffersToWrite)

Kept == IF Len(buffersToWrite) > 2 THEN 2 ELSE Len(buffersToWrite)

\* The end of the loop's body.  Both assertions hold when enough were kept.
Recycle ==
  /\ pc = "write" /\ written = Len(buffersToWrite)
  /\ pc' = "while"
  /\ failed' = IF Needed <= Kept THEN failed ELSE "buffersToWrite"
  /\ backupBuffer1' = TRUE /\ backupBuffer2' = TRUE
  /\ buffersToWrite' = <<>> /\ written' = 0
  /\ UNCHANGED <<m_isRunning, frontVars, owner, output, histories>>

BackStep == Begin \/ While \/ Wait \/ Swap \/ Write \/ Recycle

\* Each line is appended at most once.
Fresh(l) == l \notin dropped /\ \A i \in 1 .. Len(accepted) : accepted[i] # l

Next ==
  /\ failed = "no"
  /\ \/ \E l \in Line : Fresh(l) /\ append(l)
     \/ start \/ stop \/ Join
     \/ BackStep

Spec == Init /\ [][Next]_vars

\* The back-end thread is scheduled and its wait times out.
FairSpec == Spec /\ WF_vars(failed = "no" /\ BackStep)
                 /\ WF_vars(failed = "no" /\ Join)

-----------------------------------------------------------------------------
\* The swap always finds a buffer for m_currentBuffer, and after the writing
\* there are always enough buffers to recycle: no assertion of threadRoutine's
\* loop fails, however the appends fall between its steps.
BuffersSuffice == failed \in {"no", "m_isRunning"}

\* Why: m_nextBuffer is used up only together with a buffer being filled, and
\* the back-end has both its backups whenever it is about to swap.
IInv ==
  /\ TypeOK
  /\ BuffersSuffice
  /\ owner = "new" => pc = "new"
  /\ ~m_nextBuffer => m_buffers # <<>>
  /\ pc # "write" => backupBuffer1 /\ backupBuffer2 /\ buffersToWrite = <<>>
  /\ pc = "write" => Needed <= Kept

\* A line that some buffer took is written in the end, unless stop() is called
\* (or the thread never started): lines left in the buffers at stop() are lost.
LinesWritten ==
  \A l \in Line \ Big :
    (\E i \in 1 .. Len(accepted) : accepted[i] = l) /\ owner = "started"
      ~> \/ \E i \in 1 .. Len(output) : output[i] = l
         \/ owner # "started"

=============================================================================
