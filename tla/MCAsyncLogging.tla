--------------------------- MODULE MCAsyncLogging ---------------------------
(***************************************************************************)
(* Finite instances of the log's two halves, AsyncLogging's buffers and    *)
(* the LogFile its back-end writes to; a behaviour is of one of them.      *)
(* A buffer of size 2 holds one line, so five lines fill more buffers than *)
(* the four that exist at first, and a sixth is longer than a buffer.      *)
(***************************************************************************)
EXTENDS AsyncLogging, LogFile

CONSTANTS l1, l2, l3, l4, l5, big

VARIABLE subject

MCBig == {big}
MCLine == {l1, l2, l3, l4, l5} \cup MCBig

MCInit == Init /\ FileInit /\ subject \in {"buffers", "file"}

MCNext ==
  \/ subject = "buffers" /\ Next /\ UNCHANGED <<fileVars, subject>>
  \/ subject = "file" /\ FileNext /\ UNCHANGED <<vars, subject>>

\* The fairness of AsyncLogging's FairSpec.
MCSpec ==
  /\ MCInit /\ [][MCNext]_<<vars, fileVars, subject>>
  /\ WF_vars(subject = "buffers" /\ failed = "no" /\ BackStep
             /\ UNCHANGED <<fileVars, subject>>)
  /\ WF_vars(subject = "buffers" /\ failed = "no" /\ Join
             /\ UNCHANGED <<fileVars, subject>>)

\* No line that a buffer took is lost, duplicated or reordered between append
\* and the file: what is in the file, in the buffers the back-end is writing,
\* in the full buffers and in the current one is what was accepted, in order.
InOrder ==
  accepted = output
             \o FlattenSeq(SubSeq(buffersToWrite, written + 1, Len(buffersToWrite)))
             \o FlattenSeq(m_buffers)
             \o m_currentBuffer
=============================================================================
