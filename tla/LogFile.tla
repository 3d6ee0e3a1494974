------------------------------ MODULE LogFile ------------------------------
(***************************************************************************)
(* base/LogFile on top of base/FileUtil's AppendFile: the back-end thread  *)
(* of AsyncLogging appends one buffer of lines after the other and flushes *)
(* at the end of every round; LogFile starts a new file, named by the      *)
(* second, when the file is too long or the period is over.                *)
(*                                                                         *)
(* Lines are numbered in the order they are handed over and have length 1. *)
(* The process may die at any time and be started again, the clock be set  *)
(* back, the disk be full for a while.  time() is read once per append.    *)
(***************************************************************************)
EXTENDS Integers, Sequences, SequencesExt

CONSTANTS
  rollSize_, flushInterval_, checkEveryN_, kRollPerSeconds_,
  FileBuffer,           \* sizeof(AppendFile::m_buffer)
  LastTime,             \* bound: the clock runs from 1 to LastTime
  LastLine,             \* bound: the number of lines
  Restarts,             \* bound: how often the process is started again
  SetBacks              \* bound: how often the clock is set back

ASSUME FileAssumption ==
  /\ checkEveryN_ \in Nat \ {0} /\ kRollPerSeconds_ \in Nat \ {0}
  /\ rollSize_ \in Nat /\ flushInterval_ \in Nat /\ FileBuffer \in Nat
  /\ {LastTime, LastLine, Restarts, SetBacks} \subseteq Nat

VARIABLES
  clock, setBacks,
  full,                 \* no space on the disk
  up,                   \* the process runs and its LogFile is open
  log,                  \* the LogFile, its AppendFile and the files, below
  handed,               \* history: the lines handed to append, 1 .. handed
  marked,               \* history: handed at the last flush that had space
  starts,               \* history: what was handed when a process started
  gone,                 \* history: lines the full disk did not take
  stale                 \* history: appends to the file of a past period

fileVars == <<clock, setBacks, full, up, log, handed, marked, starts, gone, stale>>

Time == 1 .. LastTime
Period(t) == t \div kRollPerSeconds_

\* What an uninitialised pointer reads.
Garbage == 0

\* The members of LogFile and AppendFile, and under "disk" the files by name.
Closed == [file |-> 0, buffer |-> <<>>, writtenBytes |-> 0, count |-> 0,
           startOfPeriod |-> 0, lastRoll |-> 0, lastFlush |-> 0,
           disk |-> [t \in Time |-> <<>>]]

\* fflush: AppendFile::flush and the flushing in fclose.
Flushed(s) ==
  IF full \/ s.file = 0 THEN s
  ELSE [s EXCEPT !.disk[s.file] = @ \o s.buffer, !.buffer = <<>>]

\* AppendFile's destructor; what fclose cannot write is lost.
Close(s) == [Flushed(s) EXCEPT !.buffer = <<>>, !.file = 0]

\* The size a file has when it is opened, also one of an earlier process.
fileSize(s) == Len(s.disk[clock])

\* AppendFile's constructor: fopen makes the file if there is none.
Open(s) == [s EXCEPT !.file = clock, !.writtenBytes = fileSize(s)]

\* Wrong: without the test that the clock is past the last roll.
rollAlways(s) ==
  Open([Close(s) EXCEPT !.lastRoll = clock, !.lastFlush = clock,
                        !.startOfPeriod = Period(clock)])

rollFile(s) ==
  IF clock > s.lastRoll
  THEN Open([Close(s) EXCEPT !.lastRoll = clock, !.lastFlush = clock,
                             !.startOfPeriod = Period(clock)])
  ELSE s

\* fwrite_unlocked takes all: it leaves the last lines, as many as it likes up
\* to the buffer's size, in the buffer.
WriteAll(s, lines) ==
  LET all == s.buffer \o lines
  IN  {[s EXCEPT !.disk[s.file] = @ \o SubSeq(all, 1, k),
                 !.buffer = SubSeq(all, k + 1, Len(all))] :
         k \in {n \in 0 .. Len(all) : Len(all) - n <= FileBuffer}}

\* fwrite_unlocked with the disk full: what the buffer has room for.
Room(s) == FileBuffer - Len(s.buffer)

\* AppendFile::append.  After a short write it goes on from logline + n with n
\* not initialised: nothing is written then, or, with space again, something else.
AppendFile(s, lines) ==
  {[t EXCEPT !.writtenBytes = @ + Len(lines)] : t \in
     IF ~full THEN WriteAll(s, lines)
     ELSE IF Len(lines) <= Room(s) THEN {[s EXCEPT !.buffer = @ \o lines]}
     ELSE LET taken == [s EXCEPT !.buffer = @ \o SubSeq(lines, 1, Room(s))]
          IN  {taken} \cup WriteAll(taken, <<Garbage>>)}

\* Wrong: the flush is due before the next period is looked at.
flushFirst(s) ==
  IF s.writtenBytes > rollSize_ THEN rollFile(s)
  ELSE IF s.count + 1 < checkEveryN_ THEN [s EXCEPT !.count = @ + 1]
  ELSE LET t == [s EXCEPT !.count = 0]
       IN  IF clock - s.lastFlush > flushInterval_
           THEN Flushed([t EXCEPT !.lastFlush = clock])
           ELSE IF Period(clock) # s.startOfPeriod THEN rollFile(t) ELSE t

\* What append_unlocked does after file_->append.
AfterAppend(s) ==
  IF s.writtenBytes > rollSize_ THEN rollFile(s)
  ELSE IF s.count + 1 < checkEveryN_ THEN [s EXCEPT !.count = @ + 1]
  ELSE LET t == [s EXCEPT !.count = 0]
       IN  IF Period(clock) # s.startOfPeriod THEN rollFile(t)
           ELSE IF clock - s.lastFlush > flushInterval_
           THEN Flushed([t EXCEPT !.lastFlush = clock])
           ELSE t

\* The lines in the files and the buffer.
InLog(s) == ToSet(s.buffer) \cup UNION {ToSet(s.disk[t]) : t \in Time}

FileInit ==
  /\ clock = 1 /\ setBacks = 0 /\ full = FALSE
  /\ up = FALSE /\ log = Closed
  /\ handed = 0 /\ marked = 0 /\ starts = <<>> /\ gone = {} /\ stale = 0

\* LogFile's constructor, in a process that has just been started.
Construct ==
  /\ ~up /\ Len(starts) <= Restarts
  /\ up' = TRUE
  /\ log' = rollFile([Closed EXCEPT !.disk = log.disk])
  /\ starts' = Append(starts, handed)
  /\ stale' = 0
  /\ UNCHANGED <<clock, setBacks, full, handed, marked, gone>>

\* append and append_unlocked, called with a buffer that holds n lines.
AppendLines(n) ==
  /\ up /\ handed + n <= LastLine
  /\ handed' = handed + n
  /\ \E s \in AppendFile(log, [i \in 1 .. n |-> handed + i]) :
       /\ log' = AfterAppend(s)
       /\ gone' = IF full
                  THEN gone \cup ((ToSet(log.buffer) \cup (handed + 1 .. handed'))
                                  \ InLog(log'))
                  ELSE gone
  /\ stale' = IF Period(clock) > log'.startOfPeriod THEN stale + 1 ELSE 0
  /\ UNCHANGED <<clock, setBacks, full, up, marked, starts>>

\* LogFile::flush, at the end of every round of the back-end.
flush ==
  /\ up /\ log' = Flushed(log)
  /\ marked' = IF full THEN marked ELSE handed
  /\ UNCHANGED <<clock, setBacks, full, up, handed, starts, gone, stale>>

\* The end of threadRoutine: flush, and LogFile's destructor.
Destruct ==
  /\ up /\ up' = FALSE
  /\ log' = Close(Flushed(log))
  /\ marked' = IF full THEN marked ELSE handed
  /\ gone' = IF full THEN gone \cup ToSet(log.buffer) ELSE gone
  /\ UNCHANGED <<clock, setBacks, full, handed, starts, stale>>

\* The process dies: what stdio has buffered is lost, which may be any line
\* handed over since the last flush.
Die ==
  /\ up /\ up' = FALSE
  /\ log' = [Closed EXCEPT !.disk = log.disk]
  /\ gone' = gone \cup ((marked + 1 .. handed) \ InLog(log'))
  /\ UNCHANGED <<clock, setBacks, full, handed, marked, starts, stale>>

Tick ==
  /\ clock < LastTime /\ clock' = clock + 1
  /\ UNCHANGED <<setBacks, full, up, log, handed, marked, starts, gone, stale>>

SetBack ==
  /\ setBacks < SetBacks /\ setBacks' = setBacks + 1
  /\ \E t \in 1 .. clock - 1 : clock' = t
  /\ UNCHANGED <<full, up, log, handed, marked, starts, gone, stale>>

\* The disk becomes full, or has space again.
Space ==
  /\ full' = ~full
  /\ UNCHANGED <<clock, setBacks, up, log, handed, marked, starts, gone, stale>>

FileNext ==
  \/ Construct \/ (\E n \in 0 .. 2 : AppendLines(n)) \/ flush \/ Destruct
  \/ Die \/ Tick \/ SetBack \/ Space

FileSpec == FileInit /\ [][FileNext]_fileVars

-----------------------------------------------------------------------------
\* A file as its reader will see it once the buffer is written.
Contents(t) == log.disk[t] \o (IF t = log.file THEN log.buffer ELSE <<>>)

\* The lines a process handed over, in the order of the files' names.
Written(from, to) ==
  SelectSeq(FlattenSeq([t \in Time |-> Contents(t)]),
            LAMBDA i : from < i /\ i <= to)

\* Whoever reads the files in the order of their names reads the lines of a
\* process in the order they were logged, each one once, though LogFile rolls
\* by a clock that may be set back and reopens files of an earlier process; and
\* a line handed over before a flush is in a file, whenever the process dies,
\* unless there was no space for it.
LogKept ==
  /\ \A p \in 1 .. Len(starts) :
       LET lines == Written(starts[p],
                            IF p = Len(starts) THEN handed ELSE starts[p + 1])
       IN  \A i \in 1 .. Len(lines) - 1 : lines[i] < lines[i + 1]
  /\ (1 .. marked) \ gone \subseteq UNION {ToSet(log.disk[t]) : t \in Time}

\* A new period gets its own file soon: at most checkEveryN_ appends go to the
\* file of an earlier period, the last of which starts the new file, however
\* rolls by size, refused rolls and flushes fall in between.
PeriodRolled == stale < checkEveryN_
=============================================================================
