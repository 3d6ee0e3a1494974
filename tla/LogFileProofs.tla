--------------------------- MODULE LogFileProofs ---------------------------
(***************************************************************************)
(* A new period gets its own file after at most checkEveryN_ appends, for  *)
(* every length of the period and every setting of LogFile (by default     *)
(* 1024 appends and a day).                                                *)
(*                                                                         *)
(* While the process runs, the appends to a stale file are counted by      *)
(* count_ too, and the file in use is of the period of lastRoll_: a roll   *)
(* that rollFile refuses, because the clock is not past lastRoll_, is      *)
(* therefore one that no new period has asked for.                         *)
(***************************************************************************)
EXTENDS LogFile, TLAPS

\* A value with the members of Closed.
Members == {"file", "buffer", "writtenBytes", "count", "startOfPeriod", "lastRoll",
            "lastFlush", "disk"}
IsLog(s) == s = [m \in Members |-> s[m]]

\* The count is within its bounds and the file of the period of the last roll.
Rolled(s) ==
  /\ IsLog(s)
  /\ s.count \in Nat /\ s.count < checkEveryN_
  /\ s.lastRoll \in Nat /\ s.startOfPeriod = Period(s.lastRoll)

FileInv ==
  /\ clock \in Nat /\ stale \in Nat
  /\ Rolled(log)
  /\ PeriodRolled
  /\ up => stale <= log.count

\* A later time is not in an earlier period.
LEMMA PeriodMonotone ==
  ASSUME NEW s \in Nat, NEW t \in Nat, s <= t
  PROVE  Period(s) \in Nat /\ Period(s) <= Period(t)
<1> DEFINE k == kRollPerSeconds_
<1>1. k \in Nat /\ k > 0
  BY FileAssumption
<1> HIDE DEF k
<1>2. /\ s \div k \in Nat /\ t \div k \in Nat
      /\ k * (s \div k) <= s /\ t < k * (t \div k) + k
  BY <1>1
<1>3. ASSUME s \div k >= t \div k + 1 PROVE FALSE
  <2>1. k * (s \div k) >= k * (t \div k + 1)
    BY <1>1, <1>2, <1>3
  <2>2. k * (t \div k + 1) = k * (t \div k) + k
    BY <1>1, <1>2
  <2> QED
    BY <1>1, <1>2, <2>1, <2>2
<1> QED
  BY <1>2, <1>3 DEF Period, k

\* What the period's roll looks at is left alone by the file operations.
Same(s, t) ==
  /\ IsLog(t)
  /\ t.count = s.count /\ t.lastRoll = s.lastRoll /\ t.startOfPeriod = s.startOfPeriod

\* Flushing, closing, opening and appending leave the count and the roll alone.
LEMMA FileKeeps ==
  ASSUME NEW s, IsLog(s)
  PROVE  /\ Same(s, Flushed(s)) /\ Same(s, Close(s)) /\ Same(s, Open(s))
         /\ \A lines : \A t \in AppendFile(s, lines) : Same(s, t)
<1> USE DEF IsLog, Members, Same
<1>1. Same(s, Flushed(s))
  BY DEF Flushed
<1>2. Same(s, Close(s))
  BY <1>1 DEF Close
<1>3. Same(s, Open(s))
  BY DEF Open
<1>4. ASSUME NEW r, Same(s, r), NEW lines, NEW t \in WriteAll(r, lines)
      PROVE  Same(s, t)
  BY <1>4 DEF WriteAll
<1>5. ASSUME NEW lines, NEW t \in AppendFile(s, lines) PROVE Same(s, t)
  <2> DEFINE b == [s EXCEPT !.buffer = @ \o lines]
             taken == [s EXCEPT !.buffer = @ \o SubSeq(lines, 1, Room(s))]
  <2>1. Same(s, s) /\ Same(s, b) /\ Same(s, taken)
    OBVIOUS
  <2>2. PICK r : /\ r \in WriteAll(s, lines) \/ r = b \/ r = taken
                    \/ r \in WriteAll(taken, <<Garbage>>)
                 /\ t = [r EXCEPT !.writtenBytes = @ + Len(lines)]
    BY <1>5 DEF AppendFile
  <2> HIDE DEF b, taken, Same
  <2>3. Same(s, r)
    BY <1>4, <2>1, <2>2
  <2> QED
    BY <2>2, <2>3 DEF Same
<1> QED
  BY <1>1, <1>2, <1>3, <1>5

\* rollFile: the roll, or its refusal.
LEMMA RollStep ==
  ASSUME NEW s, Rolled(s), clock \in Nat
  PROVE  /\ Rolled(rollFile(s)) /\ rollFile(s).count = s.count
         /\ Period(clock) <= rollFile(s).startOfPeriod
<1>1. CASE clock > s.lastRoll
  <2> DEFINE c == [Close(s) EXCEPT !.lastRoll = clock, !.lastFlush = clock,
                                   !.startOfPeriod = Period(clock)]
  <2>1. Same(s, Close(s))
    BY FileKeeps DEF Rolled
  <2>2. Rolled(c) /\ c.count = s.count /\ c.startOfPeriod = Period(clock)
    BY <2>1 DEF Same, IsLog, Members, Rolled
  <2>3. rollFile(s) = Open(c)
    BY <1>1 DEF rollFile
  <2> HIDE DEF c
  <2>4. Same(c, Open(c))
    BY <2>2, FileKeeps DEF Rolled
  <2>5. Period(clock) <= Period(clock)
    BY PeriodMonotone
  <2> QED
    BY <2>2, <2>3, <2>4, <2>5 DEF Same, Rolled
<1>2. CASE ~(clock > s.lastRoll)
  <2>1. rollFile(s) = s
    BY <1>2 DEF rollFile
  <2>2. s.lastRoll \in Nat /\ clock <= s.lastRoll
    BY <1>2 DEF Rolled
  <2> QED
    BY <2>1, <2>2, PeriodMonotone DEF Rolled
<1> QED
  BY <1>1, <1>2

\* append_unlocked, after file_->append: the next append is counted, or the
\* file is of the present period.
LEMMA AfterAppendStep ==
  ASSUME NEW s, Rolled(s), clock \in Nat
  PROVE  /\ Rolled(AfterAppend(s))
         /\ \/ Period(clock) <= AfterAppend(s).startOfPeriod
            \/ AfterAppend(s).count = s.count + 1
<1> DEFINE t == [s EXCEPT !.count = 0]
           f == [t EXCEPT !.lastFlush = clock]
           n == [s EXCEPT !.count = @ + 1]
<1>0. checkEveryN_ \in Nat \ {0}
  BY FileAssumption
<1>1. /\ Rolled(t) /\ t.startOfPeriod = s.startOfPeriod
      /\ Rolled(f) /\ f.startOfPeriod = s.startOfPeriod
      /\ n.count = s.count + 1
      /\ s.count + 1 < checkEveryN_ => Rolled(n)
  <2>1. IsLog(s) /\ s.count \in Nat
    BY DEF Rolled
  <2>2. /\ IsLog(t) /\ t.count = 0 /\ t.lastRoll = s.lastRoll
        /\ t.startOfPeriod = s.startOfPeriod
    BY <2>1 DEF IsLog, Members
  <2>3. IsLog(n) /\ n.count = s.count + 1 /\ n.lastRoll = s.lastRoll
        /\ n.startOfPeriod = s.startOfPeriod
    BY <2>1 DEF IsLog, Members
  <2> HIDE DEF t
  <2>4. IsLog(f) /\ f.count = 0 /\ f.lastRoll = s.lastRoll
        /\ f.startOfPeriod = s.startOfPeriod
    BY <2>2 DEF IsLog, Members
  <2> HIDE DEF f, n
  <2> QED
    BY <1>0, <2>1, <2>2, <2>3, <2>4 DEF Rolled
<1>2. Period(clock) \in Nat /\ Period(clock) <= Period(clock)
  BY PeriodMonotone
<1>3. \/ AfterAppend(s) = rollFile(s)
      \/ s.count + 1 < checkEveryN_ /\ AfterAppend(s) = n
      \/ AfterAppend(s) = rollFile(t)
      \/ Period(clock) = s.startOfPeriod /\ AfterAppend(s) \in {Flushed(f), t}
  BY DEF AfterAppend
<1> HIDE DEF t, f, n
<1>4. Same(f, Flushed(f))
  BY <1>1, FileKeeps DEF Rolled
<1>5. Rolled(Flushed(f)) /\ Flushed(f).startOfPeriod = s.startOfPeriod
  BY <1>1, <1>4 DEF Same, Rolled
<1>6. Rolled(rollFile(s)) /\ Period(clock) <= rollFile(s).startOfPeriod
  BY RollStep
<1>7. Rolled(rollFile(t)) /\ Period(clock) <= rollFile(t).startOfPeriod
  BY <1>1, RollStep
<1> QED
  BY <1>1, <1>2, <1>3, <1>5, <1>6, <1>7

-----------------------------------------------------------------------------
\* The inductive invariant of LogFile's rolling.
THEOREM FileInductive == FileSpec => []FileInv
<1>0. checkEveryN_ \in Nat \ {0}
  BY FileAssumption
<1>1. Rolled(Closed) /\ \A d : /\ Rolled([Closed EXCEPT !.disk = d])
                               /\ [Closed EXCEPT !.disk = d].count = 0
  <2>1. 0 = Period(0)
    BY FileAssumption DEF Period
  <2> QED
    BY <1>0, <2>1 DEF Rolled, IsLog, Members, Closed
<1>2. FileInit => FileInv
  BY <1>0, <1>1 DEF FileInit, FileInv, PeriodRolled
<1>3. FileInv /\ [FileNext]_fileVars => FileInv'
  <2> SUFFICES ASSUME FileInv, [FileNext]_fileVars PROVE FileInv'
    OBVIOUS
  <2> USE DEF FileInv, PeriodRolled
  <2>1. CASE Construct
    <3> DEFINE s == [Closed EXCEPT !.disk = log.disk]
    <3>1. Rolled(rollFile(s)) /\ rollFile(s).count = 0
      BY <1>1, RollStep
    <3> HIDE DEF s
    <3>2. log' = rollFile(s) /\ stale' = 0 /\ clock' = clock
      BY <2>1 DEF Construct, s
    <3> QED
      BY <1>0, <3>1, <3>2 DEF Rolled
  <2>2. ASSUME NEW n \in 0 .. 2, AppendLines(n) PROVE FileInv'
    <3>1. PICK s \in AppendFile(log, [i \in 1 .. n |-> handed + i]) : log' = AfterAppend(s)
      BY <2>2 DEF AppendLines
    <3>2. Same(log, s)
      BY <3>1, FileKeeps DEF Rolled
    <3>3. Rolled(s) /\ s.count = log.count
      BY <3>2 DEF Same, Rolled
    <3>4. /\ Rolled(log')
          /\ Period(clock) <= log'.startOfPeriod \/ log'.count = log.count + 1
      BY <3>1, <3>3, AfterAppendStep
    <3>5. /\ up /\ up' = up /\ clock' = clock
          /\ stale' = IF Period(clock) > log'.startOfPeriod THEN stale + 1 ELSE 0
      BY <2>2 DEF AppendLines
    <3>6. /\ Period(clock) \in Nat /\ log'.startOfPeriod \in Nat
          /\ log'.count \in Nat /\ log'.count < checkEveryN_ /\ log.count \in Nat
      BY <3>4, PeriodMonotone DEF Rolled
    <3>7. stale' \in Nat /\ stale' <= log'.count
      BY <3>4, <3>5, <3>6
    <3> HIDE DEF FileInv
    <3>8. Rolled(log)'
      BY <3>4 DEF Rolled, IsLog, Period
    <3> QED
      BY <1>0, <3>5, <3>6, <3>7, <3>8 DEF FileInv
  <2>3. CASE flush
    <3>1. Same(log, Flushed(log))
      BY FileKeeps DEF Rolled
    <3> QED
      BY <2>3, <3>1 DEF flush, Same, Rolled
  <2>4. CASE Destruct
    <3>1. Same(log, Flushed(log))
      BY FileKeeps DEF Rolled
    <3>2. Same(Flushed(log), Close(Flushed(log)))
      BY <3>1, FileKeeps DEF Same
    <3> QED
      BY <2>4, <3>1, <3>2 DEF Destruct, Same, Rolled
  <2>5. CASE Die
    BY <1>1, <2>5 DEF Die
  <2>6. CASE Tick \/ Space \/ UNCHANGED fileVars
    BY <2>6 DEF Tick, Space, fileVars
  <2>7. CASE SetBack
    BY <2>7 DEF SetBack
  <2> QED
    BY <2>1, <2>2, <2>3, <2>4, <2>5, <2>6, <2>7 DEF FileNext
<1> QED
  BY <1>2, <1>3, PTL DEF FileSpec

\* At most checkEveryN_ appends reach the file of a past period, whatever the
\* clock, the disk and restarts do.
THEOREM AlwaysPeriodRolled == FileSpec => []PeriodRolled
<1>1. FileInv => PeriodRolled
  BY DEF FileInv
<1> QED
  BY <1>1, FileInductive, PTL
=============================================================================
