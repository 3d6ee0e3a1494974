------------------------------- MODULE Buffer -------------------------------
(***************************************************************************)
(* net/Buffer: a growing vector of bytes with a reader and a writer index. *)
(* The bytes between them are the contents.  Room is made at the end by    *)
(* growing the vector or, when enough bytes before the contents have been  *)
(* read, by moving the contents to the front; kCheapPrepend bytes before   *)
(* them are kept for a header.                                             *)
(*                                                                         *)
(* The history contents is what a plain queue of bytes would hold.  The    *)
(* assertions on a caller's length (retrieve, unwrite, prepend) are guards *)
(* of the actions; those about what the buffer did itself set failed.      *)
(*                                                                         *)
(* Operators marked Wrong are variants of the definition after them, used  *)
(* to see that a property can fail (PROJECT.json, mutants).                *)
(***************************************************************************)
EXTENDS Integers, Sequences

CONSTANTS Byte,
          Zero,                 \* the byte that resize() fills with
          kCheapPrepend, kInitialSize, kExtraBufferSize,
          MaxData,              \* bound: bytes given to one call
          MaxContents           \* bound: bytes in the buffer

ASSUME BufferAssumption ==
  /\ Zero \in Byte
  /\ {kCheapPrepend, kInitialSize, kExtraBufferSize, MaxData, MaxContents} \subseteq Nat

VARIABLES
  m_buffer,             \* [0 .. size - 1 -> Byte]
  size,                 \* m_buffer.size()
  m_readerIndex, m_writerIndex,
  contents,             \* history: what the buffer should hold
  prepended,            \* history: bytes prepended and not yet retrieved, while
                        \* the contents have not moved
  failed

vars == <<m_buffer, size, m_readerIndex, m_writerIndex, contents, prepended, failed>>

TypeOK ==
  /\ size \in Nat
  /\ m_buffer \in [0 .. size - 1 -> Byte]
  /\ m_readerIndex \in 0 .. m_writerIndex
  /\ m_writerIndex \in 0 .. size
  /\ contents \in Seq(Byte)
  /\ prepended \in Nat
  /\ failed \in BOOLEAN

readableBytes == m_writerIndex - m_readerIndex
writableBytes == size - m_writerIndex
prependableBytes == m_readerIndex

Init ==
  /\ size = kCheapPrepend + kInitialSize
  /\ m_buffer = [i \in 0 .. size - 1 |-> Zero]
  /\ m_readerIndex = kCheapPrepend /\ m_writerIndex = kCheapPrepend
  /\ contents = <<>> /\ prepended = 0 /\ failed = FALSE

-----------------------------------------------------------------------------
\* std::copy of the bytes of s to position at, in a vector resized to n bytes.
Copied(buf, n, at, s) ==
  [i \in 0 .. n - 1 |-> IF i \in at .. at + Len(s) - 1 THEN s[i - at + 1]
                        ELSE IF i \in DOMAIN buf THEN buf[i] ELSE Zero]

\* The n bytes of buf from position at on.
Bytes(buf, at, n) == [i \in 1 .. n |-> buf[at + i - 1]]

Readable == Bytes(m_buffer, m_readerIndex, readableBytes)

\* makeSpace(len) with writer index w: whether the vector must grow.
Grows(len, w) == size - w + prependableBytes < len + kCheapPrepend

\* Wrong: the indices move, the bytes do not.
MovedNot(buf, w) == buf

\* The vector after its readable bytes, those up to w, were moved to the front.
Moved(buf, w) ==
  Copied(buf, size, kCheapPrepend, Bytes(buf, m_readerIndex, w - m_readerIndex))

\* append(s) to a vector buf with writer index w: in place, or after makeSpace.
AppendTo(buf, w, s) ==
  \/ /\ size - w >= Len(s)
     /\ m_buffer' = Copied(buf, size, w, s)
     /\ m_writerIndex' = w + Len(s)
     /\ UNCHANGED <<size, m_readerIndex, prepended, failed>>
  \/ /\ size - w < Len(s) /\ Grows(Len(s), w)
     /\ size' = w + Len(s)
     /\ m_buffer' = Copied(buf, w + Len(s), w, s)
     /\ m_writerIndex' = w + Len(s)
     /\ UNCHANGED <<m_readerIndex, prepended, failed>>
  \/ /\ size - w < Len(s) /\ ~Grows(Len(s), w)
     /\ LET end == kCheapPrepend + (w - m_readerIndex) IN
          /\ m_buffer' = Copied(Moved(buf, w), size, end, s)
          /\ m_writerIndex' = end + Len(s)
          /\ failed' = (m_readerIndex <= kCheapPrepend \/ size - end < Len(s))
     /\ m_readerIndex' = kCheapPrepend
     /\ prepended' = 0
     /\ UNCHANGED size

append(s) ==
  /\ AppendTo(m_buffer, m_writerIndex, s)
  /\ contents' = contents \o s

\* readv put the bytes of s into the writable part and, if it was too small,
\* the rest into extrabuf.
readFd(s) ==
  /\ IF Len(s) <= writableBytes
     THEN /\ m_buffer' = Copied(m_buffer, size, m_writerIndex, s)
          /\ m_writerIndex' = m_writerIndex + Len(s)
          /\ UNCHANGED <<size, m_readerIndex, prepended, failed>>
     ELSE /\ writableBytes < kExtraBufferSize
          /\ Len(s) <= writableBytes + kExtraBufferSize
          /\ AppendTo(Copied(m_buffer, size, m_writerIndex, SubSeq(s, 1, writableBytes)),
                      size, SubSeq(s, writableBytes + 1, Len(s)))
  /\ contents' = contents \o s

retrieveAll ==
  /\ m_readerIndex' = kCheapPrepend /\ m_writerIndex' = kCheapPrepend
  /\ prepended' = 0

\* retrieve(len), retrieveAsString(len): the caller's assertion is a guard.
retrieve(len) ==
  /\ len <= readableBytes
  /\ \/ /\ len < readableBytes
        /\ m_readerIndex' = m_readerIndex + len
        /\ prepended' = IF len < prepended THEN prepended - len ELSE 0
        /\ UNCHANGED m_writerIndex
     \/ /\ len = readableBytes
        /\ retrieveAll
  /\ contents' = SubSeq(contents, len + 1, Len(contents))
  /\ UNCHANGED <<m_buffer, size, failed>>

unwrite(len) ==
  /\ len <= readableBytes
  /\ m_writerIndex' = m_writerIndex - len
  /\ contents' = SubSeq(contents, 1, Len(contents) - len)
  /\ UNCHANGED <<m_buffer, size, m_readerIndex, prepended, failed>>

prepend(s) ==
  /\ Len(s) <= prependableBytes
  /\ m_readerIndex' = m_readerIndex - Len(s)
  /\ m_buffer' = Copied(m_buffer, size, m_readerIndex', s)
  /\ contents' = s \o contents
  /\ prepended' = prepended + Len(s)
  /\ UNCHANGED <<size, m_writerIndex, failed>>

Data == UNION {[1 .. n -> Byte] : n \in 1 .. MaxData}

Next ==
  \/ \E s \in Data :
       /\ Len(contents) + Len(s) <= MaxContents
       /\ append(s) \/ readFd(s) \/ prepend(s)
  \/ \E len \in 0 .. readableBytes : retrieve(len) \/ unwrite(len)

Spec == Init /\ [][Next]_vars

-----------------------------------------------------------------------------
\* The buffer is a queue of bytes: whatever was appended, read from a socket or
\* prepended and not yet retrieved is what is readable, in order, through every
\* growing and moving of the vector.
HoldsContents == Readable = contents

\* The assertions of makeSpace and append about their own work hold: contents
\* are moved only towards the front, and there is room afterwards.
SpaceSuffices == ~failed

\* There is room for a header: only bytes already prepended to these contents
\* can make it less than kCheapPrepend.
HeaderFits == m_readerIndex + prepended >= kCheapPrepend
=============================================================================
