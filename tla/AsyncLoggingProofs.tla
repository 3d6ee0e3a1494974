------------------------- MODULE AsyncLoggingProofs -------------------------
(***************************************************************************)
(* Proofs about AsyncLogging, for any set of lines and any buffer size:    *)
(* the double buffering never runs out of buffers.                         *)
(***************************************************************************)
EXTENDS AsyncLogging, SequenceTheorems, TLAPS

USE DEF frontVars, backVars, histories

\* A sequence of buffers is one still, and not empty, with one more.
LEMMA PushBack ==
  ASSUME NEW S, NEW s \in Seq(S), NEW x \in S
  PROVE  Append(s, x) \in Seq(S) /\ Append(s, x) # <<>>
  BY AppendProperties

\* LogBuffer::append gives a buffer of lines again.
LEMMA PutType ==
  ASSUME NEW buffer \in Seq(Line), NEW l \in Line
  PROVE  Put(buffer, l) \in Seq(Line)
<1>1. Append(buffer, l) \in Seq(Line)
  BY AppendProperties
<1> QED
  BY <1>1 DEF Put

\* The initial state satisfies the inductive invariant.
LEMMA InitIInv == Init => IInv
<1> SUFFICES ASSUME Init PROVE IInv
  OBVIOUS
<1>1. <<>> \in Seq(Line) /\ <<>> \in Seq(Seq(Line))
  OBVIOUS
<1> QED
  BY <1>1 DEF Init, IInv, TypeOK, BuffersSuffice

\* An append may use m_nextBuffer, but then leaves a full buffer behind.
LEMMA AppendPreserves ==
  ASSUME IInv, failed = "no", NEW l \in Line, append(l)
  PROVE  IInv'
<1> USE DEF IInv, TypeOK, append, Record, BuffersSuffice, Needed, Kept
<1>1. Append(accepted, l) \in Seq(Line)
  BY AppendProperties
<1>2. accepted' \in Seq(Line) /\ dropped' \subseteq Line
  BY <1>1
<1>3. CASE Fits(m_currentBuffer, l)
  <2>1. m_currentBuffer' \in Seq(Line)
    BY <1>3, PutType
  <2> QED
    BY <1>2, <1>3, <2>1
<1>4. CASE ~Fits(m_currentBuffer, l)
  <2>1. m_currentBuffer' \in Seq(Line)
    <3>1. <<>> \in Seq(Line)
      OBVIOUS
    <3>2. Put(<<>>, l) \in Seq(Line)
      BY <3>1, PutType
    <3> QED
      BY <1>4, <3>2
  <2>2. m_buffers' \in Seq(Seq(Line)) /\ m_buffers' # <<>>
    <3>1. m_buffers' = Append(m_buffers, m_currentBuffer)
      BY <1>4
    <3>2. m_buffers \in Seq(Seq(Line)) /\ m_currentBuffer \in Seq(Line)
      OBVIOUS
    <3>3. /\ Append(m_buffers, m_currentBuffer) \in Seq(Seq(Line))
          /\ Append(m_buffers, m_currentBuffer) # <<>>
      BY <3>2, PushBack
    <3> QED
      BY <3>1, <3>3
  <2> QED
    BY <1>2, <1>4, <2>1, <2>2
<1> QED
  BY <1>3, <1>4

\* A swap takes one buffer, and a second one only if m_nextBuffer was used up,
\* in which case it finds a full buffer besides the current one.
LEMMA SwapPreserves ==
  ASSUME IInv, failed = "no", Swap
  PROVE  IInv'
<1> USE DEF IInv, TypeOK, Swap, BuffersSuffice
<1>1. backupBuffer1 /\ backupBuffer2
  OBVIOUS
<1>2. /\ buffersToWrite' \in Seq(Seq(Line))
      /\ Len(buffersToWrite') = Len(m_buffers) + 1
  BY AppendProperties
<1>3. m_nextBuffer'
  BY <1>1
<1>4. Needed' <= Kept'
  <2>1. CASE m_nextBuffer
    BY <1>1, <1>2, <2>1 DEF Needed, Kept
  <2>2. CASE ~m_nextBuffer
    <3>1. Len(m_buffers) \in Nat /\ Len(m_buffers) # 0
      BY <2>2, EmptySeq, LenProperties
    <3> QED
      BY <1>1, <1>2, <2>2, <3>1 DEF Needed, Kept
  <2> QED
    BY <2>1, <2>2
<1>5. m_currentBuffer' \in Seq(Line) /\ m_buffers' \in Seq(Seq(Line))
  OBVIOUS
<1> QED
  BY <1>1, <1>2, <1>3, <1>4, <1>5

\* Every step of the front-ends, of the owner and of the back-end preserves it.
LEMMA StepPreserves ==
  ASSUME IInv, [Next]_vars
  PROVE  IInv'
<1> USE DEF IInv, TypeOK, BuffersSuffice
<1>1. ASSUME failed = "no", NEW l \in Line, append(l) PROVE IInv'
  BY <1>1, AppendPreserves
<1>2. CASE failed = "no" /\ (start \/ stop \/ Join)
  <2>1. CASE start
    BY <1>2, <2>1 DEF start, Needed, Kept
  <2>2. CASE stop
    BY <1>2, <2>2 DEF stop, Needed, Kept
  <2>3. CASE Join
    BY <1>2, <2>3 DEF Join, Needed, Kept
  <2> QED
    BY <1>2, <2>1, <2>2, <2>3
<1>3. CASE failed = "no" /\ (Begin \/ While \/ Wait)
  BY <1>3 DEF Begin, While, Wait, Needed, Kept
<1>4. CASE failed = "no" /\ Swap
  BY <1>4, SwapPreserves
<1>5. CASE failed = "no" /\ Write
  <2>1. output' \in Seq(Line) /\ written' \in Nat
    BY <1>5, ConcatProperties DEF Write
  <2> QED
    BY <1>5, <2>1 DEF Write, Needed, Kept
<1>6. CASE failed = "no" /\ Recycle
  <2>1. <<>> \in Seq(Seq(Line))
    OBVIOUS
  <2> QED
    BY <1>6, <2>1 DEF Recycle
<1>7. CASE UNCHANGED vars
  BY <1>7 DEF vars, Needed, Kept
<1> QED
  BY <1>1, <1>2, <1>3, <1>4, <1>5, <1>6, <1>7 DEF Next, BackStep

\* IInv is an invariant of the logger.
THEOREM LoggingInductive == Spec => []IInv
<1> QED
  BY InitIInv, StepPreserves, PTL DEF Spec

\* The swap never leaves m_currentBuffer null and no assertion on the buffers
\* of threadRoutine fails, whatever is appended and whenever.
THEOREM BuffersAlwaysSuffice == Spec => []BuffersSuffice
<1>1. IInv => BuffersSuffice
  BY DEF IInv
<1> QED
  BY <1>1, LoggingInductive, PTL
=============================================================================
