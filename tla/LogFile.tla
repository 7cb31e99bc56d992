-------------------------------- MODULE LogFile --------------------------------
(***************************************************************************)
(* base/log/LogFile.{h,cc} over FileUtil::AppendFile: lines go to the      *)
(* current file, which is replaced when it is too large or when its period *)
(* (a day) is over, and flushed now and then.  A file is named after the   *)
(* second it is opened in.  append() takes a step for each fwrite() and    *)
(* one for the rest; until then there is no other call, for append() holds *)
(* mutex_, or only one thread calls, and nobody reads the clock.  Its two  *)
(* readings within one append() are taken to be equal.                     *)
(***************************************************************************)
EXTENDS Naturals, Sequences, SequencesExt

CONSTANTS
  RollSize,       \* rollSize_
  FlushInterval,  \* flushInterval_
  CheckEveryN,    \* checkEveryN_
  RollPerSeconds, \* kRollPerSeconds_
  Lengths,        \* the lengths of lines
  Clocks,         \* bound: the seconds time() may return
  MaxLines,       \* bound: the lines of one behaviour
  MaxShort        \* bound: the short writes of one behaviour

ASSUME LogFileAssumption ==
  /\ RollSize \in Nat /\ FlushInterval \in Nat
  /\ CheckEveryN \in Nat \ {0} /\ RollPerSeconds \in Nat \ {0}
  /\ Lengths \subseteq Nat \ {0}
  /\ Clocks \subseteq Nat \ {0}
  /\ MaxLines \in Nat /\ MaxShort \in Nat

(* A file: its name, writtenBytes_, and, for the properties, the bytes that  *)
(* stdio accepted, the lines it took after its period and the lines it took  *)
(* when it was too large and not of this second.                             *)
VARIABLES
  clock,          \* time()
  files,          \* the files opened so far; file_ is the last one
  line,           \* the line that AppendFile::append() is at
  count,          \* count_
  startOfPeriod,  \* startOfPeriod_
  lastRoll,       \* lastRoll_
  lastFlush,      \* lastFlush_
  lines,          \* history: how many lines have been appended
  shorts,         \* history: how many writes came short
  setBack,        \* history: the clock has been set back
  flushedAt,      \* history: when the current file was really flushed or opened
  overdue         \* history: the lines that came too late for the flush interval and wait for a flush

times == <<startOfPeriod, lastRoll, lastFlush>>
vars == <<clock, files, line, count, times, lines, shorts, setBack, flushedAt, overdue>>

PeriodOf(t) == (t \div RollPerSeconds) * RollPerSeconds

(* getLogFileName(): the base name and the second of the call, in UTC; the host *)
(* and the process that complete it are the same in every name of a run.       *)
getLogFileName(now) == [basename |-> "log", second |-> now]

Opened(t) == [name |-> getLogFileName(t), written |-> 0, stored |-> 0, stale |-> 0, excess |-> 0]

(* len, n and remain of AppendFile::append(), and for the properties the      *)
(* places in the line of the bytes that fwrite() accepted                     *)
NoLine == [len |-> 0, n |-> 0, remain |-> 0, text |-> <<>>]

(* LogFile(): rollFile() succeeds, for time() is positive. *)
Init ==
  /\ clock \in Clocks
  /\ files = <<Opened(clock)>> /\ line = NoLine
  /\ count = 0
  /\ startOfPeriod = PeriodOf(clock) /\ lastRoll = clock /\ lastFlush = clock
  /\ lines = 0 /\ shorts = 0 /\ setBack = FALSE /\ flushedAt = clock /\ overdue = 0

-----------------------------------------------------------------------------
(* The bytes of a line from logline + n on, x of them *)
Bytes(n, x) == [i \in 1..x |-> n + i]

(* fwrite() has accepted x bytes more. *)
Resumed_Stale(l, x) == [l EXCEPT !.n = @ + x, !.text = @ \o Bytes(l.n, x)]

Resumed(l, x) ==
  [l EXCEPT !.n = @ + x, !.remain = l.len - (l.n + x), !.text = @ \o Bytes(l.n, x)]

(* fwrite() may come short. *)
Accepts(asked, x) ==
  /\ shorts' = IF x < asked THEN shorts + 1 ELSE shorts
  /\ shorts' <= MaxShort

(* The first fwrite() of append() *)
StartLine(len, x) ==
  /\ line = NoLine /\ lines < MaxLines
  /\ Accepts(len, x)
  /\ line' = [len |-> len, n |-> x, remain |-> len - x, text |-> Bytes(0, x)]
  /\ UNCHANGED <<clock, files, count, times, lines, setBack, flushedAt, overdue>>

(* The loop goes on while more remains than has been written: what is left    *)
(* when it ends, at most half of the line, is lost in silence.                *)
TriesAgain == line.remain > line.n

Retry(x) ==
  /\ TriesAgain
  /\ Accepts(line.remain, x)
  /\ line' = Resumed(line, x)
  /\ UNCHANGED <<clock, files, count, times, lines, setBack, flushedAt, overdue>>

(* The loop has ended, or fwrite() gives nothing and it is left, with a       *)
(* message if ferror() is set.                                                *)
LoopEnds ==
  \/ ~TriesAgain /\ UNCHANGED shorts
  \/ TriesAgain /\ Accepts(line.remain, 0)

(* writtenBytes_ counts the whole line, whatever was written. *)
Written(f) ==
  [f EXCEPT !.written = @ + line.len,
            !.stored = @ + line.n,
            !.stale  = IF PeriodOf(clock) # startOfPeriod THEN @ + 1 ELSE @,
            !.excess = IF f.written > RollSize /\ clock > lastRoll THEN @ + 1 ELSE @]

Overdue == IF clock > flushedAt + FlushInterval THEN overdue + 1 ELSE overdue

(* The line stays in the current file, unflushed. *)
Keep(f) ==
  /\ files' = Append(Front(files), f)
  /\ overdue' = Overdue
  /\ UNCHANGED <<times, flushedAt>>

(* Mutant of RollsOver: >= in place of >. *)
RollsOver_SameSecond == clock >= lastRoll

(* rollFile(): a new file, unless one was opened in this second or later; the *)
(* old one is flushed as it is closed.                                        *)
RollsOver == clock > lastRoll

Roll(f) ==
  \/ /\ RollsOver
     /\ files' = Front(files) \o <<f, Opened(clock)>>
     /\ startOfPeriod' = PeriodOf(clock) /\ lastRoll' = clock /\ lastFlush' = clock
     /\ flushedAt' = clock /\ overdue' = 0
  \/ ~RollsOver /\ Keep(f)

(* The check every checkEveryN_ lines: the period, then the flush interval. *)
Check(f) ==
  \/ /\ PeriodOf(clock) # startOfPeriod
     /\ Roll(f)
  \/ /\ PeriodOf(clock) = startOfPeriod
     /\ clock > lastFlush + FlushInterval
     /\ files' = Append(Front(files), f)
     /\ lastFlush' = clock
     /\ flushedAt' = clock /\ overdue' = 0
     /\ UNCHANGED <<startOfPeriod, lastRoll>>
  \/ /\ PeriodOf(clock) = startOfPeriod
     /\ clock <= lastFlush + FlushInterval
     /\ Keep(f)

TooLarge(f) == f.written > RollSize

(* Mutant of Due: the check comes a line late. *)
Due_Late == count + 1 > CheckEveryN

Due == count + 1 >= CheckEveryN

(* The rest of append(): a file that is too large does not count the line. *)
AppendLine ==
  LET f == Written(Last(files))
  IN /\ line # NoLine /\ LoopEnds
     /\ line' = NoLine /\ lines' = lines + 1
     /\ \/ TooLarge(f) /\ Roll(f) /\ UNCHANGED count
        \/ ~TooLarge(f) /\ Due /\ count' = 0 /\ Check(f)
        \/ ~TooLarge(f) /\ ~Due /\ count' = count + 1 /\ Keep(f)
     /\ UNCHANGED <<clock, setBack>>

(* flush() leaves lastFlush_ alone. *)
Flush ==
  /\ line = NoLine
  /\ flushedAt' = IF clock > flushedAt THEN clock ELSE flushedAt
  /\ overdue' = 0
  /\ UNCHANGED <<clock, files, line, count, times, lines, shorts, setBack>>

(* Time passes, or somebody sets the clock back. *)
ClockChanges ==
  /\ line = NoLine /\ clock' \in Clocks
  /\ setBack' = (setBack \/ clock' < clock)
  /\ UNCHANGED <<files, line, count, times, lines, shorts, flushedAt, overdue>>

Next ==
  \/ \E len \in Lengths : \E x \in 0..len : StartLine(len, x)
  \/ \E x \in 1..line.remain : Retry(x)
  \/ AppendLine
  \/ Flush
  \/ ClockChanges

Spec == Init /\ [][Next]_vars

-----------------------------------------------------------------------------
File == [name : {getLogFileName(t) : t \in Clocks}, written : Nat, stored : Nat, stale : Nat, excess : Nat]

Line == [len : Lengths \cup {0}, n : Nat, remain : Nat, text : Seq(Nat)]

TypeOK ==
  /\ clock \in Clocks /\ files \in Seq(File) /\ files # <<>> /\ line \in Line
  /\ count \in 0..(CheckEveryN - 1)
  /\ startOfPeriod \in Nat /\ lastRoll \in Nat /\ lastFlush \in Nat
  /\ lines \in 0..MaxLines /\ shorts \in 0..MaxShort /\ setBack \in BOOLEAN /\ flushedAt \in Nat /\ overdue \in Nat

(* No two files get the same name, even when many lines come in one second or *)
(* the clock is set back: the files are opened to append, and one name twice  *)
(* would let a file grow beyond its size.                                     *)
NamesIncrease == \A i, j \in 1..Len(files) : i < j => files[i].name.second < files[j].name.second

(* A file that is too large is replaced at the first line of a later second,  *)
(* and only lines of the second it was opened in (or an earlier one, when the *)
(* clock was set back) make it grow further.  The period is looked at every   *)
(* checkEveryN_ lines, and lines that lead to a size roll are not counted:    *)
(* still at most checkEveryN_ lines of a new period land in the old file, as  *)
(* long as nobody sets the clock back.                                        *)
FilesRollInTime ==
  \A i \in 1..Len(files) :
    files[i].excess <= 1 /\ (~setBack => files[i].stale <= CheckEveryN)

(* A line that comes after the flush interval waits for fewer than            *)
(* checkEveryN_ others to be flushed, as long as nobody sets the clock back:  *)
(* neither rolls that fail nor flush() calls, which leave lastFlush_ alone,   *)
(* put the check off.                                                         *)
FewOverdueLines == ~setBack => overdue < CheckEveryN

(* However often fwrite() comes short and is called again, a file gets the    *)
(* first bytes of each line in their order: none twice, none left out before  *)
(* another, none from beyond the line, which the unsigned remain would not    *)
(* show.  So a file never holds more than writtenBytes_, by which it is       *)
(* replaced, although a line counts there that was not written.               *)
LinesArePrefixes ==
  /\ line.n <= line.len /\ line.text = Bytes(0, line.n)
  /\ \A i \in 1..Len(files) : files[i].stored <= files[i].written

=============================================================================
