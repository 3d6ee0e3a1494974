---------------------------- MODULE BufferProofs ----------------------------
(***************************************************************************)
(* Theorems about Buffer: for all sizes, the indices stay in order, the    *)
(* readable bytes are the contents, the assertions of append and makeSpace *)
(* hold and a header fits before the contents.                             *)
(***************************************************************************)
EXTENDS Buffer, TLAPS

\* The vector holds contents between its two indices.
Holds(buf, r, w, s) ==
  /\ w - r = Len(s)
  /\ \A i \in 1 .. Len(s) : s[i] = buf[r + i - 1]

BInv ==
  /\ TypeOK
  /\ Holds(m_buffer, m_readerIndex, m_writerIndex, contents)
  /\ ~failed
  /\ HeaderFits
  /\ kCheapPrepend <= size

\* What Copied, std::copy into the vector, leaves at each position.
LEMMA CopiedBytes ==
  ASSUME NEW n \in Nat, NEW k \in Nat, NEW buf \in [0 .. k - 1 -> Byte],
         NEW at \in Nat, NEW s \in Seq(Byte)
  PROVE  /\ Copied(buf, n, at, s) \in [0 .. n - 1 -> Byte]
         /\ \A i \in 0 .. n - 1 :
              /\ i \in at .. at + Len(s) - 1 => Copied(buf, n, at, s)[i] = s[i - at + 1]
              /\ i \notin at .. at + Len(s) - 1 /\ i < k => Copied(buf, n, at, s)[i] = buf[i]
  BY BufferAssumption DEF Copied

\* Appending to what a vector holds.
LEMMA AppendHolds ==
  ASSUME NEW n \in Nat, NEW buf \in [0 .. n - 1 -> Byte], NEW r \in Nat, NEW w \in Nat,
         NEW c \in Seq(Byte), NEW s \in Seq(Byte), NEW m \in Nat,
         r <= w, w <= n, w + Len(s) <= m, Holds(buf, r, w, c)
  PROVE  Holds(Copied(buf, m, w, s), r, w + Len(s), c \o s)
<1> DEFINE b == Copied(buf, m, w, s)
<1>0. \A i \in 0 .. m - 1 : /\ i \in w .. w + Len(s) - 1 => b[i] = s[i - w + 1]
                            /\ i \notin w .. w + Len(s) - 1 /\ i < n => b[i] = buf[i]
  BY DEF Copied
<1> HIDE DEF b
<1>1. Len(c \o s) = Len(c) + Len(s)
  OBVIOUS
<1>2. ASSUME NEW i \in 1 .. Len(c \o s)
      PROVE  (c \o s)[i] = b[r + i - 1]
  <2>1. CASE i <= Len(c)
    <3>1. (c \o s)[i] = c[i] /\ i \in 1 .. Len(c)
      BY <2>1
    <3>2. r + i - 1 \in 0 .. m - 1 /\ r + i - 1 < w
      BY <2>1 DEF Holds
    <3>3. b[r + i - 1] = buf[r + i - 1]
      BY <1>0, <3>2
    <3> QED
      BY <3>1, <3>3 DEF Holds
  <2>2. CASE i > Len(c)
    <3>1. (c \o s)[i] = s[i - Len(c)]
      BY <1>1, <2>2
    <3>2. r + i - 1 \in 0 .. m - 1 /\ r + i - 1 \in w .. w + Len(s) - 1
      BY <1>1, <2>2 DEF Holds
    <3>3. (r + i - 1) - w + 1 = i - Len(c)
      BY DEF Holds
    <3> QED
      BY <1>0, <3>1, <3>2, <3>3
  <2> QED
    BY <2>1, <2>2
<1>3. (w + Len(s)) - r = Len(c \o s)
  BY <1>1 DEF Holds
<1>4. Holds(b, r, w + Len(s), c \o s)
  BY <1>2, <1>3 DEF Holds
<1> QED
  BY <1>4 DEF b

\* Bytes reads back what the vector holds.
LEMMA HoldsBytes ==
  ASSUME NEW n \in Nat, NEW buf \in [0 .. n - 1 -> Byte], NEW r \in Nat, NEW w \in Nat,
         NEW c \in Seq(Byte), Holds(buf, r, w, c), r <= w, w <= n
  PROVE  Bytes(buf, r, w - r) = c
<1>1. c = [i \in 1 .. Len(c) |-> c[i]]
  OBVIOUS
<1> QED
  BY <1>1 DEF Holds, Bytes

\* makeSpace, when it moves: what is held is held at the front.
LEMMA MovedHolds ==
  ASSUME TypeOK, NEW buf \in [0 .. size - 1 -> Byte], NEW w \in Nat, NEW c \in Seq(Byte),
         m_readerIndex <= w, w <= size, kCheapPrepend <= m_readerIndex,
         Holds(buf, m_readerIndex, w, c)
  PROVE  /\ Moved(buf, w) \in [0 .. size - 1 -> Byte]
         /\ Holds(Moved(buf, w), kCheapPrepend, kCheapPrepend + (w - m_readerIndex), c)
<1>1. Bytes(buf, m_readerIndex, w - m_readerIndex) = c
  BY HoldsBytes DEF TypeOK
<1>2. Moved(buf, w) = Copied(buf, size, kCheapPrepend, c)
  BY <1>1 DEF Moved
<1>3. kCheapPrepend \in Nat /\ size \in Nat /\ m_readerIndex \in Nat /\ w - m_readerIndex = Len(c)
  BY BufferAssumption DEF TypeOK, Holds
<1>4. \A i \in 1 .. Len(c) : /\ kCheapPrepend + i - 1 \in 0 .. size - 1
                             /\ kCheapPrepend + i - 1 \in kCheapPrepend .. kCheapPrepend + Len(c) - 1
                             /\ (kCheapPrepend + i - 1) - kCheapPrepend + 1 = i
  BY <1>3
<1>5. /\ Copied(buf, size, kCheapPrepend, c) \in [0 .. size - 1 -> Byte]
      /\ \A i \in 0 .. size - 1 : i \in kCheapPrepend .. kCheapPrepend + Len(c) - 1 =>
           Copied(buf, size, kCheapPrepend, c)[i] = c[i - kCheapPrepend + 1]
  BY <1>3, CopiedBytes
<1>6. \A i \in 1 .. Len(c) : Moved(buf, w)[kCheapPrepend + i - 1] = c[i]
  BY <1>2, <1>4, <1>5
<1>7. (kCheapPrepend + (w - m_readerIndex)) - kCheapPrepend = Len(c)
  BY <1>3
<1> QED
  BY <1>2, <1>5, <1>6, <1>7 DEF Holds

\* Concatenation of sequences of bytes is associative.
LEMMA ConcatBytes ==
  ASSUME NEW a \in Seq(Byte), NEW b \in Seq(Byte), NEW c \in Seq(Byte)
  PROVE  (a \o b) \o c = a \o (b \o c)
  OBVIOUS

\* Two byte strings that agree with the first n bytes of s and with the others
\* make up s.
LEMMA JoinBytes ==
  ASSUME NEW s \in Seq(Byte), NEW a \in Seq(Byte), NEW b \in Seq(Byte),
         Len(a) + Len(b) = Len(s),
         \A i \in 1 .. Len(a) : a[i] = s[i],
         \A i \in 1 .. Len(b) : b[i] = s[Len(a) + i]
  PROVE  a \o b = s
<1>0. Len(a) \in Nat /\ Len(b) \in Nat /\ Len(s) \in Nat
  OBVIOUS
<1>1. a \o b \in Seq(Byte) /\ Len(a \o b) = Len(s)
  BY <1>0
<1>2. ASSUME NEW i \in 1 .. Len(s) PROVE (a \o b)[i] = s[i]
  <2>1. CASE i <= Len(a)
    BY <1>0, <2>1
  <2>2. CASE i > Len(a)
    <3>1. (a \o b)[i] = b[i - Len(a)] /\ i - Len(a) \in 1 .. Len(b)
      BY <1>0, <2>2
    <3> QED
      BY <1>0, <3>1
  <2> QED
    BY <1>0, <2>1, <2>2
<1> QED
  BY <1>0, <1>1, <1>2

\* A sequence is its first n elements followed by the others.
LEMMA SplitBytes ==
  ASSUME NEW s \in Seq(Byte), NEW n \in Nat, n < Len(s)
  PROVE  /\ SubSeq(s, 1, n) \in Seq(Byte) /\ Len(SubSeq(s, 1, n)) = n
         /\ SubSeq(s, n + 1, Len(s)) \in Seq(Byte)
         /\ s = SubSeq(s, 1, n) \o SubSeq(s, n + 1, Len(s))
<1> DEFINE a == SubSeq(s, 1, n)
           b == SubSeq(s, n + 1, Len(s))
<1>1. /\ a \in Seq(Byte) /\ Len(a) = n
      /\ \A i \in 1 .. n : a[i] = s[i]
  OBVIOUS
<1>2. /\ b \in Seq(Byte) /\ Len(b) = Len(s) - n
      /\ \A i \in 1 .. Len(s) - n : b[i] = s[n + i]
  OBVIOUS
<1>3. Len(s) \in Nat
  OBVIOUS
<1> HIDE DEF a, b
<1>4. Len(a) + Len(b) = Len(s)
  BY <1>1, <1>2, <1>3
<1>5. /\ a \in Seq(Byte) /\ b \in Seq(Byte)
      /\ \A i \in 1 .. Len(a) : a[i] = s[i]
      /\ \A i \in 1 .. Len(b) : b[i] = s[Len(a) + i]
  BY <1>1, <1>2
<1>6. a \o b = s
  BY <1>4, <1>5, JoinBytes, Zenon
<1> QED
  BY <1>1, <1>2, <1>6 DEF a, b

\* append, in place or after makeSpace, to a vector that holds c.
LEMMA AppendToKeeps ==
  ASSUME TypeOK, ~failed, HeaderFits, kCheapPrepend <= size,
         NEW buf \in [0 .. size - 1 -> Byte], NEW w \in Nat, NEW c \in Seq(Byte),
         m_readerIndex <= w, w <= size, Holds(buf, m_readerIndex, w, c),
         NEW s \in Seq(Byte), AppendTo(buf, w, s), contents' = c \o s
  PROVE  BInv'
<1> USE BufferAssumption
<1> DEFINE end == kCheapPrepend + (w - m_readerIndex)
<1>1. /\ c \o s \in Seq(Byte) /\ Len(s) \in Nat
      /\ size \in Nat /\ m_readerIndex \in Nat /\ kCheapPrepend \in Nat /\ prepended \in Nat
      /\ m_readerIndex + prepended >= kCheapPrepend
  BY DEF TypeOK, HeaderFits
<1>2. CASE /\ size - w >= Len(s)
           /\ m_buffer' = Copied(buf, size, w, s)
           /\ m_writerIndex' = w + Len(s)
           /\ UNCHANGED <<size, m_readerIndex, prepended, failed>>
  <2>1. m_buffer' \in [0 .. size' - 1 -> Byte]
    BY <1>2, CopiedBytes DEF TypeOK
  <2>2. Holds(m_buffer', m_readerIndex', m_writerIndex', contents')
    <3>1. w + Len(s) <= size
      BY <1>1, <1>2
    <3>2. Holds(Copied(buf, size, w, s), m_readerIndex, w + Len(s), c \o s)
      BY <1>1, <3>1, AppendHolds
    <3> QED
      BY <1>2, <3>2
  <2> QED
    BY <1>1, <1>2, <2>1, <2>2 DEF BInv, TypeOK, HeaderFits
<1>3. CASE /\ size - w < Len(s) /\ Grows(Len(s), w)
           /\ size' = w + Len(s)
           /\ m_buffer' = Copied(buf, w + Len(s), w, s)
           /\ m_writerIndex' = w + Len(s)
           /\ UNCHANGED <<m_readerIndex, prepended, failed>>
  <2>1. m_buffer' \in [0 .. size' - 1 -> Byte]
    <3>1. w + Len(s) \in Nat
      BY <1>1
    <3>2. Copied(buf, w + Len(s), w, s) \in [0 .. w + Len(s) - 1 -> Byte]
      BY <1>1, <3>1 DEF Copied
    <3> QED
      BY <1>3, <3>2
  <2>2. Holds(m_buffer', m_readerIndex', m_writerIndex', contents')
    <3>1. w + Len(s) \in Nat /\ w + Len(s) <= w + Len(s)
      BY <1>1
    <3>2. Holds(Copied(buf, w + Len(s), w, s), m_readerIndex, w + Len(s), c \o s)
      BY <1>1, <3>1, AppendHolds
    <3> QED
      BY <1>3, <3>2
  <2> QED
    BY <1>1, <1>3, <2>1, <2>2 DEF BInv, TypeOK, HeaderFits
<1>4. CASE /\ size - w < Len(s) /\ ~Grows(Len(s), w)
           /\ m_buffer' = Copied(Moved(buf, w), size, end, s)
           /\ m_writerIndex' = end + Len(s)
           /\ failed' = (m_readerIndex <= kCheapPrepend \/ size - end < Len(s))
           /\ m_readerIndex' = kCheapPrepend
           /\ prepended' = 0
           /\ UNCHANGED size
  <2>1. /\ m_readerIndex > kCheapPrepend
        /\ end \in Nat /\ end + Len(s) <= size /\ kCheapPrepend <= end
    <3>1. size - w < Len(s) /\ ~(size - w + m_readerIndex < Len(s) + kCheapPrepend)
      BY <1>4, Zenon DEF Grows, prependableBytes
    <3> QED
      BY <1>1, <3>1
  <2>2. /\ Moved(buf, w) \in [0 .. size - 1 -> Byte]
        /\ Holds(Moved(buf, w), kCheapPrepend, end, c)
    BY <1>1, <2>1, MovedHolds
  <2>3. ~(m_readerIndex <= kCheapPrepend \/ size - end < Len(s))
    BY <1>1, <2>1
  <2>4. ~failed'
    BY <1>4, <2>3, Zenon
  <2> HIDE DEF end
  <2>5. m_buffer' \in [0 .. size' - 1 -> Byte]
    <3>1. Copied(Moved(buf, w), size, end, s) \in [0 .. size - 1 -> Byte]
      BY <1>1, <2>1, <2>2, CopiedBytes
    <3> QED
      BY <1>4, <3>1
  <2>6. Holds(m_buffer', m_readerIndex', m_writerIndex', contents')
    <3>1. end <= size
      BY <1>1, <2>1
    <3>2. Holds(Copied(Moved(buf, w), size, end, s), kCheapPrepend, end + Len(s), c \o s)
      BY <1>1, <2>1, <2>2, <3>1, AppendHolds
    <3> QED
      BY <1>4, <3>2
  <2>7. failed' \in BOOLEAN
    BY <1>4, Zenon
  <2>8. /\ size' \in Nat /\ m_readerIndex' \in 0 .. m_writerIndex' /\ m_writerIndex' \in 0 .. size'
        /\ contents' \in Seq(Byte) /\ prepended' \in Nat
        /\ m_readerIndex' + prepended' >= kCheapPrepend /\ kCheapPrepend <= size'
    <3>1. /\ m_writerIndex' = end + Len(s) /\ m_readerIndex' = kCheapPrepend
          /\ prepended' = 0 /\ size' = size
      BY <1>4, Zenon
    <3>2. contents' \in Seq(Byte)
      BY <1>1
    <3> QED
      BY <1>1, <2>1, <3>1, <3>2
  <2> QED
    BY <2>4, <2>5, <2>6, <2>7, <2>8 DEF BInv, TypeOK, HeaderFits
<1> QED
  BY <1>2, <1>3, <1>4 DEF AppendTo

\* What is held after retrieve(len) of a part.
LEMMA RetrieveHolds ==
  ASSUME NEW n \in Nat, NEW buf \in [0 .. n - 1 -> Byte], NEW r \in Nat, NEW w \in Nat,
         NEW c \in Seq(Byte), Holds(buf, r, w, c), r <= w, w <= n,
         NEW len \in 0 .. w - r
  PROVE  /\ SubSeq(c, len + 1, Len(c)) \in Seq(Byte)
         /\ Holds(buf, r + len, w, SubSeq(c, len + 1, Len(c)))
<1>1. Len(c) \in Nat /\ len <= Len(c) /\ len \in Nat
  BY DEF Holds
<1>2. /\ SubSeq(c, len + 1, Len(c)) \in Seq(Byte)
      /\ Len(SubSeq(c, len + 1, Len(c))) = Len(c) - len
      /\ \A i \in 1 .. Len(c) - len : SubSeq(c, len + 1, Len(c))[i] = c[len + i]
  BY <1>1
<1>3. \A i \in 1 .. Len(c) - len : len + i \in 1 .. Len(c) /\ (r + len) + i - 1 = r + (len + i) - 1
  BY <1>1
<1>4. /\ \A i \in 1 .. Len(c) : c[i] = buf[r + i - 1]
      /\ w - (r + len) = Len(c) - len
  BY <1>1 DEF Holds
<1>5. \A i \in 1 .. Len(c) - len : c[len + i] = buf[(r + len) + i - 1]
  BY <1>3, <1>4
<1> QED
  BY <1>2, <1>4, <1>5 DEF Holds

\* And after unwrite(len).
LEMMA UnwriteHolds ==
  ASSUME NEW n \in Nat, NEW buf \in [0 .. n - 1 -> Byte], NEW r \in Nat, NEW w \in Nat,
         NEW c \in Seq(Byte), Holds(buf, r, w, c), r <= w, w <= n,
         NEW len \in 0 .. w - r
  PROVE  /\ SubSeq(c, 1, Len(c) - len) \in Seq(Byte)
         /\ Holds(buf, r, w - len, SubSeq(c, 1, Len(c) - len))
<1>1. Len(c) \in Nat /\ len <= Len(c) /\ len \in Nat
  BY DEF Holds
<1>2. /\ SubSeq(c, 1, Len(c) - len) \in Seq(Byte)
      /\ Len(SubSeq(c, 1, Len(c) - len)) = Len(c) - len
      /\ \A i \in 1 .. Len(c) - len : SubSeq(c, 1, Len(c) - len)[i] = c[i]
  BY <1>1
<1> QED
  BY <1>1, <1>2 DEF Holds

\* And after prepend(s).
LEMMA PrependHolds ==
  ASSUME NEW n \in Nat, NEW buf \in [0 .. n - 1 -> Byte], NEW r \in Nat, NEW w \in Nat,
         NEW c \in Seq(Byte), Holds(buf, r, w, c), r <= w, w <= n,
         NEW s \in Seq(Byte), Len(s) <= r
  PROVE  Holds(Copied(buf, n, r - Len(s), s), r - Len(s), w, s \o c)
<1> DEFINE b == Copied(buf, n, r - Len(s), s)
<1>1. \A i \in 0 .. n - 1 :
        /\ i \in r - Len(s) .. r - 1 => b[i] = s[i - (r - Len(s)) + 1]
        /\ i >= r => b[i] = buf[i]
  BY DEF Copied
<1> HIDE DEF b
<1>2. /\ Len(s \o c) = Len(s) + Len(c)
      /\ w - (r - Len(s)) = Len(s) + Len(c)
  BY DEF Holds
<1>3. ASSUME NEW i \in 1 .. Len(s \o c)
      PROVE  (s \o c)[i] = b[(r - Len(s)) + i - 1]
  <2>1. CASE i <= Len(s)
    <3>1. (s \o c)[i] = s[i]
      BY <1>2, <2>1
    <3>2. /\ (r - Len(s)) + i - 1 \in 0 .. n - 1
          /\ (r - Len(s)) + i - 1 \in r - Len(s) .. r - 1
          /\ ((r - Len(s)) + i - 1) - (r - Len(s)) + 1 = i
      BY <1>2, <2>1
    <3> QED
      BY <1>1, <3>1, <3>2
  <2>2. CASE i > Len(s)
    <3>1. (s \o c)[i] = c[i - Len(s)] /\ i - Len(s) \in 1 .. Len(c)
      BY <1>2, <2>2
    <3>2. /\ (r - Len(s)) + i - 1 \in 0 .. n - 1
          /\ (r - Len(s)) + i - 1 >= r
          /\ (r - Len(s)) + i - 1 = r + (i - Len(s)) - 1
      BY <1>2, <2>2
    <3> QED
      BY <1>1, <3>1, <3>2 DEF Holds
  <2> QED
    BY <2>1, <2>2
<1>4. Holds(b, r - Len(s), w, s \o c)
  BY <1>2, <1>3 DEF Holds
<1> QED
  BY <1>4 DEF b

-----------------------------------------------------------------------------
(* The invariant and the theorems.                                         *)

LEMMA InitBInv == Init => BInv
<1> USE BufferAssumption
<1> SUFFICES ASSUME Init PROVE BInv
  OBVIOUS
<1>0. kCheapPrepend \in Nat /\ kInitialSize \in Nat /\ Zero \in Byte
  OBVIOUS
<1>1. TypeOK /\ kCheapPrepend <= size
  <2>1. size \in Nat /\ kCheapPrepend <= size
    BY <1>0 DEF Init
  <2>2. m_buffer \in [0 .. size - 1 -> Byte]
    BY <1>0, <2>1 DEF Init
  <2>3. failed \in BOOLEAN
    BY Zenon DEF Init
  <2>4. /\ m_readerIndex \in 0 .. m_writerIndex /\ m_writerIndex \in 0 .. size
        /\ contents \in Seq(Byte) /\ prepended \in Nat
    BY <1>0 DEF Init
  <2> QED
    BY <2>1, <2>2, <2>3, <2>4 DEF TypeOK
<1>2. Holds(m_buffer, m_readerIndex, m_writerIndex, contents) /\ ~failed /\ HeaderFits
  BY DEF Init, Holds, HeaderFits
<1> QED
  BY <1>1, <1>2 DEF BInv

\* One step per operation of Buffer.
LEMMA NextBInv == BInv /\ [Next]_vars => BInv'
<1> USE BufferAssumption
<1> SUFFICES ASSUME BInv, [Next]_vars PROVE BInv'
  OBVIOUS
<1>0. /\ TypeOK /\ ~failed /\ HeaderFits
      /\ Holds(m_buffer, m_readerIndex, m_writerIndex, contents)
      /\ size \in Nat /\ m_readerIndex \in Nat /\ m_writerIndex \in Nat
      /\ m_readerIndex <= m_writerIndex /\ m_writerIndex <= size
      /\ m_buffer \in [0 .. size - 1 -> Byte] /\ contents \in Seq(Byte)
      /\ prepended \in Nat /\ kCheapPrepend \in Nat /\ kCheapPrepend <= size
      /\ m_readerIndex + prepended >= kCheapPrepend
  BY DEF BInv, TypeOK, HeaderFits
<1>1. ASSUME NEW s \in Data PROVE s \in Seq(Byte) /\ Len(s) \in Nat
  BY DEF Data
<1>2. ASSUME NEW s \in Data, append(s) PROVE BInv'
  BY <1>0, <1>1, <1>2, AppendToKeeps DEF append
<1>3. ASSUME NEW s \in Data, readFd(s) PROVE BInv'
  <2>1. CASE /\ Len(s) <= writableBytes
             /\ m_buffer' = Copied(m_buffer, size, m_writerIndex, s)
             /\ m_writerIndex' = m_writerIndex + Len(s)
             /\ UNCHANGED <<size, m_readerIndex, prepended, failed>>
    <3>1. AppendTo(m_buffer, m_writerIndex, s)
      BY <1>0, <1>1, <2>1 DEF AppendTo, writableBytes
    <3> QED
      BY <1>0, <1>1, <1>3, <3>1, AppendToKeeps DEF readFd
  <2>2. CASE /\ ~(Len(s) <= writableBytes)
             /\ AppendTo(Copied(m_buffer, size, m_writerIndex, SubSeq(s, 1, writableBytes)),
                         size, SubSeq(s, writableBytes + 1, Len(s)))
    <3> DEFINE n == writableBytes
               front == SubSeq(s, 1, n)
               back == SubSeq(s, n + 1, Len(s))
               buf == Copied(m_buffer, size, m_writerIndex, front)
    <3>1. n \in Nat /\ n < Len(s) /\ m_writerIndex + n = size
      BY <1>0, <1>1, <2>2 DEF writableBytes
    <3> HIDE DEF n
    <3>2. /\ front \in Seq(Byte) /\ Len(front) = n
          /\ back \in Seq(Byte) /\ s = front \o back
      BY <1>1, <3>1, SplitBytes
    <3> HIDE DEF front, back
    <3>3. buf \in [0 .. size - 1 -> Byte]
      BY <1>0, <3>2, CopiedBytes
    <3>4. m_writerIndex + Len(front) = size /\ m_writerIndex + Len(front) <= size
      BY <1>0, <3>1, <3>2
    <3>5. Holds(buf, m_readerIndex, size, contents \o front)
      BY <1>0, <3>2, <3>4, AppendHolds
    <3>6. contents \o front \in Seq(Byte) /\ contents' = (contents \o front) \o back
      <4>1. contents' = contents \o (front \o back)
        BY <1>3, <3>2 DEF readFd
      <4>2. contents \o (front \o back) = (contents \o front) \o back
        BY <1>0, <3>2, ConcatBytes
      <4> QED
        BY <1>0, <3>2, <4>1, <4>2
    <3>7. AppendTo(buf, size, back)
      BY <2>2 DEF n, front, back
    <3>8. m_readerIndex <= size /\ size <= size
      BY <1>0
    <3> HIDE DEF buf
    <3> QED
      BY <1>0, <3>2, <3>3, <3>5, <3>6, <3>7, <3>8, AppendToKeeps
  <2> QED
    BY <1>3, <2>1, <2>2 DEF readFd
<1>4. ASSUME NEW s \in Data, prepend(s) PROVE BInv'
  <2>1. Len(s) <= m_readerIndex /\ m_readerIndex - Len(s) \in Nat
    BY <1>0, <1>1, <1>4 DEF prepend, prependableBytes
  <2>2. m_buffer' \in [0 .. size' - 1 -> Byte]
    <3>1. Copied(m_buffer, size, m_readerIndex - Len(s), s) \in [0 .. size - 1 -> Byte]
      BY <1>0, <1>1, <2>1, CopiedBytes
    <3> QED
      BY <1>4, <3>1 DEF prepend
  <2>3. Holds(m_buffer', m_readerIndex', m_writerIndex', contents')
    <3>1. Holds(Copied(m_buffer, size, m_readerIndex - Len(s), s), m_readerIndex - Len(s),
                m_writerIndex, s \o contents)
      BY <1>0, <1>1, <2>1, PrependHolds
    <3> QED
      BY <1>4, <3>1 DEF prepend
  <2>4. s \o contents \in Seq(Byte)
    BY <1>0, <1>1
  <2>5. /\ m_readerIndex' = m_readerIndex - Len(s) /\ prepended' = prepended + Len(s)
        /\ contents' = s \o contents /\ UNCHANGED <<size, m_writerIndex, failed>>
    BY <1>4 DEF prepend
  <2>6. /\ m_readerIndex' \in 0 .. m_writerIndex' /\ prepended' \in Nat
        /\ m_readerIndex' + prepended' >= kCheapPrepend
    BY <1>0, <1>1, <2>1, <2>5
  <2> QED
    BY <1>0, <2>2, <2>3, <2>4, <2>5, <2>6 DEF BInv, TypeOK, HeaderFits
<1>5. ASSUME NEW len \in 0 .. readableBytes, retrieve(len) PROVE BInv'
  <2>0. len \in 0 .. m_writerIndex - m_readerIndex /\ len \in Nat
    BY <1>0 DEF readableBytes
  <2>1. /\ contents' \in Seq(Byte)
        /\ Holds(m_buffer, m_readerIndex + len, m_writerIndex, contents')
    BY <1>0, <1>5, <2>0, RetrieveHolds DEF retrieve
  <2>2. CASE len < readableBytes
    <3>1. /\ m_readerIndex' = m_readerIndex + len /\ m_writerIndex' = m_writerIndex
          /\ prepended' = IF len < prepended THEN prepended - len ELSE 0
          /\ UNCHANGED <<m_buffer, size, failed>>
      BY <1>0, <1>5, <2>0, <2>2 DEF retrieve, readableBytes
    <3>2. prepended' \in Nat /\ m_readerIndex' + prepended' >= kCheapPrepend
      BY <1>0, <2>0, <3>1
    <3>3. m_readerIndex' \in 0 .. m_writerIndex'
      BY <1>0, <2>0, <3>1
    <3> QED
      BY <1>0, <2>1, <3>1, <3>2, <3>3 DEF BInv, TypeOK, HeaderFits
  <2>3. CASE len = readableBytes
    <3>1. /\ m_readerIndex' = kCheapPrepend /\ m_writerIndex' = kCheapPrepend
          /\ prepended' = 0
          /\ UNCHANGED <<m_buffer, size, failed>>
      BY <1>0, <1>5, <2>0, <2>3 DEF retrieve, retrieveAll, readableBytes
    <3>2. Len(contents') = 0
      BY <1>0, <2>0, <2>1, <2>3 DEF Holds, readableBytes
    <3>3. Holds(m_buffer', m_readerIndex', m_writerIndex', contents')
      BY <1>0, <2>1, <3>1, <3>2 DEF Holds
    <3> QED
      BY <1>0, <2>1, <3>1, <3>3 DEF BInv, TypeOK, HeaderFits
  <2> QED
    BY <1>0, <2>0, <2>2, <2>3 DEF readableBytes
<1>6. ASSUME NEW len \in 0 .. readableBytes, unwrite(len) PROVE BInv'
  <2>0. len \in 0 .. m_writerIndex - m_readerIndex /\ len \in Nat
    BY <1>0 DEF readableBytes
  <2>1. /\ contents' \in Seq(Byte)
        /\ Holds(m_buffer, m_readerIndex, m_writerIndex - len, contents')
    BY <1>0, <1>6, <2>0, UnwriteHolds DEF unwrite
  <2> QED
    BY <1>0, <1>6, <2>0, <2>1 DEF unwrite, BInv, TypeOK, HeaderFits
<1>7. CASE UNCHANGED vars
  BY <1>0, <1>7 DEF vars, BInv, TypeOK, HeaderFits, Holds
<1> QED
  BY <1>2, <1>3, <1>4, <1>5, <1>6, <1>7 DEF Next

\* The indices, the vector's size and its bytes have their types for every
\* sequence of appends, reads, retrieves and prepends.
THEOREM BufferInductive == Spec => []BInv
<1>1. Init => BInv
  BY InitBInv
<1>2. BInv /\ [Next]_vars => BInv'
  BY NextBInv
<1> QED
  BY <1>1, <1>2, PTL DEF Spec

\* The type invariant of Buffer: the reader index is never beyond the writer
\* index, nor that beyond the vector.
THEOREM IndicesInOrder == Spec => []TypeOK
<1>1. BInv => TypeOK
  BY DEF BInv
<1> QED
  BY <1>1, BufferInductive, PTL

\* A Buffer is a queue of bytes: what peek and readableBytes show is what was
\* appended, read or prepended and not yet retrieved.
THEOREM BufferHoldsContents == Spec => []HoldsContents
<1>1. BInv => HoldsContents
  <2> SUFFICES ASSUME BInv PROVE HoldsContents
    OBVIOUS
  <2>1. /\ size \in Nat /\ m_readerIndex \in Nat /\ m_writerIndex \in Nat
        /\ m_readerIndex <= m_writerIndex /\ m_writerIndex <= size
        /\ m_buffer \in [0 .. size - 1 -> Byte] /\ contents \in Seq(Byte)
        /\ Holds(m_buffer, m_readerIndex, m_writerIndex, contents)
    BY DEF BInv, TypeOK
  <2>2. Bytes(m_buffer, m_readerIndex, m_writerIndex - m_readerIndex) = contents
    BY <2>1, HoldsBytes
  <2> QED
    BY <2>2 DEF HoldsContents, Readable, readableBytes
<1> QED
  BY <1>1, BufferInductive, PTL

\* The assertions of makeSpace and append about their own work never fail.
THEOREM SpaceAlwaysSuffices == Spec => []SpaceSuffices
<1>1. BInv => SpaceSuffices
  BY DEF BInv, SpaceSuffices
<1> QED
  BY <1>1, BufferInductive, PTL

\* prepend of a header of up to kCheapPrepend bytes finds room, whatever was
\* done before, unless a header is there already.
THEOREM HeaderAlwaysFits == Spec => []HeaderFits
<1>1. BInv => HeaderFits
  BY DEF BInv
<1> QED
  BY <1>1, BufferInductive, PTL
=============================================================================
