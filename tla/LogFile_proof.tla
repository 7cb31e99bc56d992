----------------------------- MODULE LogFile_proof -----------------------------
(***************************************************************************)
(* Proofs that the files of base/log/LogFile.cc get different names, are   *)
(* replaced and flushed in time, and get the first bytes of each line and  *)
(* no others, for any sizes, intervals, clock and number of lines.         *)
(***************************************************************************)
EXTENDS LogFile, SequenceTheorems, TLAPS

(* The file in use has the name of lastRoll_, and the names before it are     *)
(* smaller.                                                                   *)
NameInv == NamesIncrease /\ Last(files).name.second = lastRoll

(* The file in use has never been too large in a later second, and takes a    *)
(* stale line only when count_ counts it.                                     *)
FileInv ==
  \A i \in 1..Len(files) :
    /\ files[i].stored <= files[i].written
    /\ files[i].excess <= IF i = Len(files) THEN 0 ELSE 1
    /\ ~setBack => files[i].stale <= IF i = Len(files) THEN count ELSE CheckEveryN

(* As long as time only passes, the file in use has been opened, checked and  *)
(* flushed in this order, and what is stale or overdue remains so until a     *)
(* check or a flush.                                                          *)
ClockInv ==
  /\ startOfPeriod = PeriodOf(lastRoll)
  /\ ~setBack =>
       /\ lastRoll <= lastFlush /\ lastFlush <= flushedAt /\ flushedAt <= clock
       /\ overdue <= count
       /\ overdue > 0 => clock > flushedAt + FlushInterval
       /\ Last(files).stale > 0 => PeriodOf(clock) # startOfPeriod

(* What remains of a line and what has been written make up the line. *)
LineInv ==
  /\ line.n + line.remain = line.len /\ line.text = Bytes(0, line.n)
  /\ line # NoLine => line.len \in Lengths /\ lines < MaxLines

IInv == TypeOK /\ NameInv /\ FileInv /\ ClockInv /\ LineInv

(* Periods follow each other. *)
LEMMA Periods ==
  ASSUME NEW t \in Nat
  PROVE  /\ PeriodOf(t) \in Nat
         /\ \A u \in Nat : t <= u => PeriodOf(t) <= PeriodOf(u)
<1> DEFINE R == RollPerSeconds
           d(s) == s \div R
<1>0. R \in Nat /\ R > 0
  BY LogFileAssumption
<1>1. \A s \in Nat : d(s) \in Nat /\ R * d(s) <= s /\ s < R * d(s) + R
  BY <1>0
<1>2. \A s \in Nat : PeriodOf(s) = R * d(s) /\ R * d(s) \in Nat
  BY <1>0, <1>1 DEF PeriodOf
<1>3. ASSUME NEW u \in Nat, t <= u PROVE R * d(t) <= R * d(u)
  <2>1. d(t) \in Nat /\ d(u) \in Nat /\ R * d(t) <= t /\ u < R * d(u) + R
    BY <1>1
  <2> HIDE DEF d, R
  <2>2. R * d(t) < R * d(u) + R
    BY <1>0, <1>3, <2>1
  <2>3. d(t) < d(u) + 1
    <3>1. CASE d(t) >= d(u) + 1
      <4>1. R * d(t) >= R * (d(u) + 1) /\ R * (d(u) + 1) = R * d(u) + R
        BY <1>0, <2>1, <3>1
      <4> QED BY <1>0, <2>1, <2>2, <4>1
    <3> QED BY <2>1, <3>1
  <2> QED BY <1>0, <2>1, <2>3
<1> QED BY <1>2, <1>3

(* The last file is replaced by what it has become. *)
IsKept(D, s, f) ==
  /\ D \in Seq(File) /\ D # <<>> /\ Len(D) = Len(s) /\ Last(D) = f /\ D[Len(s)] = f
  /\ \A i \in 1..Len(s) : i # Len(s) => D[i] = s[i]

LEMMA KeepFiles ==
  ASSUME NEW s \in Seq(File), s # <<>>, NEW f \in File
  PROVE  IsKept(Append(Front(s), f), s, f)
<1> DEFINE n == Len(s)
           h == Front(s)
           D == Append(h, f)
<1>1. n \in Nat /\ n # 0 /\ DOMAIN s = 1..n
  BY LenProperties, EmptySeq
<1>2. h \in Seq(File) /\ Len(h) = n - 1 /\ \A i \in 1..(n - 1) : h[i] = s[i]
  <2>1. \A i \in 1..(n - 1) : s[i] \in File
    BY <1>1, ElementOfSeq
  <2> QED BY <1>1, <2>1, SubSeqProperties DEF Front
<1> HIDE DEF n, h
<1>4. D \in Seq(File) /\ D # <<>> /\ Len(D) = n /\ D[n] = f /\ \A i \in 1..(n - 1) : D[i] = s[i]
  BY <1>1, <1>2, AppendProperties
<1> HIDE DEF D
<1>5. \A i \in 1..n : i # n => D[i] = s[i]
  BY <1>1, <1>4
<1>6. Last(D) = f
  BY <1>4 DEF Last
<1>7. IsKept(D, s, f)
  BY <1>4, <1>5, <1>6, Zenon DEF n, IsKept
<1> QED BY <1>7, Zenon DEF D, h

(* The last file is closed and another one opened. *)
IsRolled(D, s, f, g) ==
  /\ D \in Seq(File) /\ D # <<>> /\ Len(D) = Len(s) + 1 /\ Last(D) = g /\ D[Len(s) + 1] = g
  /\ D[Len(s)] = f
  /\ \A i \in 1..Len(s) : i # Len(s) => D[i] = s[i]

LEMMA RollFiles ==
  ASSUME NEW s \in Seq(File), s # <<>>, NEW f \in File, NEW g \in File
  PROVE  IsRolled(Front(s) \o <<f, g>>, s, f, g)
<1> DEFINE n == Len(s)
           h == Front(s)
           D == h \o <<f, g>>
<1>1. n \in Nat /\ n # 0 /\ DOMAIN s = 1..n
  BY LenProperties, EmptySeq
<1>2. h \in Seq(File) /\ Len(h) = n - 1 /\ \A i \in 1..(n - 1) : h[i] = s[i]
  <2>1. \A i \in 1..(n - 1) : s[i] \in File
    BY <1>1, ElementOfSeq
  <2> QED BY <1>1, <2>1, SubSeqProperties DEF Front
<1>3. <<f, g>> \in Seq(File) /\ Len(<<f, g>>) = 2 /\ <<f, g>>[1] = f /\ <<f, g>>[2] = g
  OBVIOUS
<1> HIDE DEF n, h
<1>4. /\ D \in Seq(File) /\ Len(D) = Len(h) + Len(<<f, g>>)
      /\ \A i \in 1..(Len(h) + Len(<<f, g>>)) : D[i] = IF i <= Len(h) THEN h[i] ELSE <<f, g>>[i - Len(h)]
  BY <1>2, <1>3, ConcatProperties
<1> HIDE DEF D
<1>5. Len(D) = n + 1 /\ \A i \in 1..(n + 1) : D[i] = IF i <= n - 1 THEN h[i] ELSE <<f, g>>[i - (n - 1)]
  BY <1>1, <1>2, <1>3, <1>4
<1>6. D[n] = f /\ D[n + 1] = g
  BY <1>1, <1>3, <1>5
<1>7. \A i \in 1..n : i # n => D[i] = s[i]
  BY <1>1, <1>2, <1>5
<1>8. D # <<>>
  BY <1>1, <1>4, <1>5, EmptySeq
<1>9. Last(D) = g
  BY <1>5, <1>6 DEF Last
<1>10. IsRolled(D, s, f, g)
  BY <1>4, <1>5, <1>6, <1>7, <1>8, <1>9, Zenon DEF n, IsRolled
<1> QED BY <1>10, Zenon DEF D, h

(* A file is named after a second. *)
LEMMA FileName == \A f \in File : f.name.second \in Nat
<1> SUFFICES ASSUME NEW f \in File PROVE f.name.second \in Nat
  OBVIOUS
<1>1. f.name \in {getLogFileName(t) : t \in Clocks}
  BY DEF File
<1>2. PICK t \in Clocks : f.name = getLogFileName(t)
  BY <1>1
<1> QED BY <1>2, LogFileAssumption DEF getLogFileName

(* A file is opened empty, and its name says when. *)
LEMMA OpenedType ==
  ASSUME NEW t \in Clocks
  PROVE  /\ Opened(t) \in File /\ Opened(t).name.second = t
         /\ Opened(t).stored = 0 /\ Opened(t).written = 0 /\ Opened(t).excess = 0 /\ Opened(t).stale = 0
BY DEF Opened, File, getLogFileName

(* The bytes that follow the first ones *)
LEMMA MoreBytes ==
  ASSUME NEW n \in Nat, NEW x \in Nat
  PROVE  /\ Bytes(0, n) \in Seq(Nat) /\ Len(Bytes(0, n)) = n
         /\ Bytes(0, n) \o Bytes(n, x) = Bytes(0, n + x)
<1> DEFINE a == Bytes(0, n)
           b == Bytes(n, x)
           c == Bytes(0, n + x)
<1>1. a = [i \in 1..n |-> i] /\ b = [i \in 1..x |-> n + i] /\ c = [i \in 1..(n + x) |-> i]
  BY DEF Bytes
<1> HIDE DEF a, b, c
<1>2. /\ a \in Seq(Nat) /\ Len(a) = n /\ \A i \in 1..n : a[i] = i
      /\ b \in Seq(Nat) /\ Len(b) = x /\ \A i \in 1..x : b[i] = n + i
      /\ c \in Seq(Nat) /\ Len(c) = n + x /\ \A i \in 1..(n + x) : c[i] = i
  BY <1>1
<1>3. /\ a \o b \in Seq(Nat) /\ Len(a \o b) = n + x
      /\ \A i \in 1..(n + x) : (a \o b)[i] = IF i <= n THEN a[i] ELSE b[i - n]
  BY <1>2, ConcatProperties
<1>4. \A i \in 1..(n + x) : (a \o b)[i] = c[i]
  <2>1. ASSUME NEW i \in 1..(n + x) PROVE (a \o b)[i] = c[i]
    <3>1. CASE i <= n
      BY <1>2, <1>3, <3>1
    <3>2. CASE ~(i <= n)
      <4>1. i - n \in 1..x /\ n + (i - n) = i
        BY <3>2
      <4> QED BY <1>2, <1>3, <3>2, <4>1
    <3> QED BY <3>1, <3>2
  <2> QED BY <2>1
<1>5. a \o b = c
  BY <1>2, <1>3, <1>4, SeqEqual
<1> QED BY <1>2, <1>5 DEF a, b, c

(* A file after a line: what is stored is counted. *)
LEMMA WrittenType ==
  ASSUME NEW g \in File, line \in Line, line.n + line.remain = line.len
  PROVE  LET f == Written(g)
         IN  /\ f \in File /\ f.name = g.name /\ f.written = g.written + line.len
             /\ g.stored <= g.written => f.stored <= f.written
             /\ f.stale = IF PeriodOf(clock) # startOfPeriod THEN g.stale + 1 ELSE g.stale
             /\ f.excess = IF g.written > RollSize /\ clock > lastRoll THEN g.excess + 1 ELSE g.excess
<1> DEFINE f   == Written(g)
           len == line.len
           n   == line.n
<1>1. len \in Nat /\ n \in Nat /\ n <= len
  BY LogFileAssumption DEF Line
<1>2. /\ g.name \in {getLogFileName(t) : t \in Clocks} /\ g.written \in Nat /\ g.stored \in Nat
      /\ g.stale \in Nat /\ g.excess \in Nat
      /\ g = [name |-> g.name, written |-> g.written, stored |-> g.stored, stale |-> g.stale,
              excess |-> g.excess]
  BY DEF File
<1>3. /\ f.name = g.name /\ f.written = g.written + len /\ f.stored = g.stored + n
      /\ f.stale = IF PeriodOf(clock) # startOfPeriod THEN g.stale + 1 ELSE g.stale
      /\ f.excess = IF g.written > RollSize /\ clock > lastRoll THEN g.excess + 1 ELSE g.excess
      /\ f = [name |-> f.name, written |-> f.written, stored |-> f.stored, stale |-> f.stale,
              excess |-> f.excess]
  <2> DEFINE w == g.written + len
             s == g.stored + n
             t == IF PeriodOf(clock) # startOfPeriod THEN g.stale + 1 ELSE g.stale
             e == IF g.written > RollSize /\ clock > lastRoll THEN g.excess + 1 ELSE g.excess
  <2>1. f = [g EXCEPT !.written = w, !.stored = s, !.stale = t, !.excess = e]
    BY Zenon DEF Written
  <2> HIDE DEF f, w, s, t, e
  <2>2. f = [name |-> g.name, written |-> w, stored |-> s, stale |-> t, excess |-> e]
    BY <1>2, <2>1
  <2>3. /\ f.name = g.name /\ f.written = w /\ f.stored = s /\ f.stale = t /\ f.excess = e
        /\ f = [name |-> f.name, written |-> f.written, stored |-> f.stored, stale |-> f.stale,
                excess |-> f.excess]
    BY <2>2
  <2> QED BY <2>3, Zenon DEF w, s, t, e
<1> HIDE DEF f, len, n
<1>4. /\ f.written \in Nat /\ f.stored \in Nat /\ f.stale \in Nat /\ f.excess \in Nat
      /\ g.stored <= g.written => f.stored <= f.written
  BY <1>1, <1>2, <1>3
<1>5. f \in File
  BY <1>2, <1>3, <1>4 DEF File
<1> QED BY <1>3, <1>4, <1>5 DEF f, len

(* What a short write counts *)
LEMMA AcceptsType ==
  ASSUME shorts \in 0..MaxShort, NEW asked, NEW x, Accepts(asked, x)
  PROVE  shorts' \in 0..MaxShort
BY LogFileAssumption DEF Accepts

(* No line is under way. *)
LEMMA NoLineFine ==
  /\ NoLine \in Line
  /\ NoLine.n + NoLine.remain = NoLine.len /\ NoLine.text = Bytes(0, NoLine.n)
<1>1. <<>> \in Seq(Nat) /\ Bytes(0, 0) = <<>>
  <2>1. Bytes(0, 0) \in Seq(Nat) /\ Len(Bytes(0, 0)) = 0
    BY MoreBytes
  <2> QED BY <2>1, EmptySeq
<1> QED BY <1>1 DEF NoLine, Line

(* The constructor opens the first file. *)
LEMMA InitIInv == Init => IInv
<1> SUFFICES ASSUME Init PROVE IInv
  OBVIOUS
<1>1. /\ clock \in Clocks /\ clock \in Nat /\ files = <<Opened(clock)>> /\ line = NoLine /\ count = 0
      /\ startOfPeriod = PeriodOf(clock) /\ lastRoll = clock /\ lastFlush = clock
      /\ lines = 0 /\ shorts = 0 /\ setBack = FALSE /\ flushedAt = clock /\ overdue = 0
      /\ MaxLines \in Nat /\ MaxShort \in Nat /\ CheckEveryN \in Nat \ {0} /\ FlushInterval \in Nat
  BY LogFileAssumption DEF Init
<1> DEFINE g == Opened(clock)
<1>2. /\ g \in File /\ g.name.second = clock
      /\ g.written = 0 /\ g.stored = 0 /\ g.excess = 0 /\ g.stale = 0
  BY <1>1, OpenedType
<1> HIDE DEF g
<1>3. files \in Seq(File) /\ files # <<>> /\ Len(files) = 1 /\ files[1] = g
  BY <1>1, <1>2 DEF g
<1>4. TypeOK
  <2>1. PeriodOf(clock) \in Nat /\ setBack \in BOOLEAN
    BY <1>1, Periods
  <2>2. count \in 0..(CheckEveryN - 1) /\ lines \in 0..MaxLines /\ shorts \in 0..MaxShort
    BY <1>1
  <2> QED BY <1>1, <1>2, <1>3, <2>1, <2>2, NoLineFine DEF TypeOK
<1>5. NameInv
  BY <1>1, <1>2, <1>3 DEF NameInv, NamesIncrease, Last
<1>6. FileInv
  BY <1>1, <1>2, <1>3 DEF FileInv
<1>7. ClockInv
  BY <1>1, <1>2, <1>3 DEF ClockInv, Last
<1>8. LineInv
  BY <1>1, NoLineFine DEF LineInv
<1> QED BY <1>4, <1>5, <1>6, <1>7, <1>8 DEF IInv

(* What an append() does to the file in use, by the checks it comes to: it is *)
(* replaced, it is flushed, or the line is the only change.                   *)
Replaced(f) ==
  /\ clock > lastRoll
  /\ files' = Front(files) \o <<f, Opened(clock)>>
  /\ startOfPeriod' = PeriodOf(clock) /\ lastRoll' = clock /\ lastFlush' = clock
  /\ flushedAt' = clock /\ overdue' = 0

Flushed(f) ==
  /\ f.written <= RollSize /\ PeriodOf(clock) = startOfPeriod
  /\ files' = Append(Front(files), f)
  /\ lastFlush' = clock /\ flushedAt' = clock /\ overdue' = 0 /\ count' = 0
  /\ startOfPeriod' = startOfPeriod /\ lastRoll' = lastRoll

Left(f) ==
  /\ files' = Append(Front(files), f)
  /\ overdue' = Overdue
  /\ startOfPeriod' = startOfPeriod /\ lastRoll' = lastRoll
  /\ lastFlush' = lastFlush /\ flushedAt' = flushedAt
  /\ \/ clock <= lastRoll /\ (count' = count \/ (count' = 0 /\ f.written <= RollSize /\ PeriodOf(clock) # startOfPeriod))
     \/ /\ f.written <= RollSize /\ count' = 0
        /\ PeriodOf(clock) = startOfPeriod /\ clock <= lastFlush + FlushInterval
     \/ f.written <= RollSize /\ count' = count + 1

LEMMA Outcomes ==
  ASSUME IInv, AppendLine
  PROVE  LET f == Written(Last(files))
         IN  /\ Replaced(f) \/ Flushed(f) \/ Left(f)
             /\ clock' = clock /\ setBack' = setBack
             /\ count' \in 0..(CheckEveryN - 1) /\ lines' \in 0..MaxLines /\ shorts' \in 0..MaxShort
             /\ line' = NoLine /\ line.len \in Lengths
<1> DEFINE f == Written(Last(files))
           Goal == Replaced(f) \/ Flushed(f) \/ Left(f)
<1>0. Keep(f) => /\ files' = Append(Front(files), f) /\ overdue' = Overdue
                 /\ startOfPeriod' = startOfPeriod /\ lastRoll' = lastRoll
                 /\ lastFlush' = lastFlush /\ flushedAt' = flushedAt
  BY DEF Keep, times
<1>1. /\ clock \in Nat /\ count \in 0..(CheckEveryN - 1) /\ CheckEveryN \in Nat \ {0} /\ RollSize \in Nat
      /\ lastRoll \in Nat /\ lastFlush \in Nat /\ FlushInterval \in Nat
      /\ lines \in 0..MaxLines /\ shorts \in 0..MaxShort /\ MaxLines \in Nat /\ MaxShort \in Nat
      /\ files \in Seq(File) /\ files # <<>>
  BY LogFileAssumption DEF IInv, TypeOK
<1>2. f.written \in Nat
  <2>1. Last(files) \in File
    BY <1>1, LenProperties, EmptySeq, ElementOfSeq DEF Last
  <2>2. f \in File
    BY <2>1, WrittenType DEF IInv, TypeOK, LineInv
  <2> HIDE DEF f
  <2> QED BY <2>2 DEF File
<1>3. /\ clock' = clock /\ setBack' = setBack /\ lines' = lines + 1 /\ lines < MaxLines
      /\ line' = NoLine /\ line.len \in Lengths /\ LoopEnds
      /\ \/ TooLarge(f) /\ Roll(f) /\ count' = count
         \/ ~TooLarge(f) /\ Due /\ count' = 0 /\ Check(f)
         \/ ~TooLarge(f) /\ ~Due /\ count' = count + 1 /\ Keep(f)
  BY DEF AppendLine, IInv, LineInv
<1> HIDE DEF f
<1>4. lines' \in 0..MaxLines /\ shorts' \in 0..MaxShort
  BY <1>1, <1>3, AcceptsType DEF LoopEnds
<1>5. count' \in 0..(CheckEveryN - 1)
  BY <1>1, <1>3 DEF Due
<1>6. ASSUME TooLarge(f), Roll(f), count' = count PROVE Goal
  <2>1. CASE RollsOver
    BY <1>6, <2>1 DEF Roll, RollsOver, Replaced
  <2>2. CASE ~RollsOver
    <3>1. clock <= lastRoll
      BY <1>1, <2>2 DEF RollsOver
    <3> QED BY <1>0, <1>6, <2>2, <3>1 DEF Roll, Left
  <2> QED BY <2>1, <2>2
<1>7. ASSUME ~TooLarge(f), Due, count' = 0, Check(f) PROVE Goal
  <2>1. f.written <= RollSize
    BY <1>1, <1>2, <1>7 DEF TooLarge
  <2>2. CASE PeriodOf(clock) # startOfPeriod /\ Roll(f)
    <3>1. CASE RollsOver
      BY <2>2, <3>1 DEF Roll, RollsOver, Replaced
    <3>2. CASE ~RollsOver
      <4>1. clock <= lastRoll
        BY <1>1, <3>2 DEF RollsOver
      <4> QED BY <1>0, <1>7, <2>1, <2>2, <3>2, <4>1 DEF Roll, Left
    <3> QED BY <3>1, <3>2
  <2>3. CASE PeriodOf(clock) = startOfPeriod
    <3>1. CASE clock > lastFlush + FlushInterval
      BY <1>1, <1>7, <2>1, <2>3, <3>1 DEF Check, Flushed
    <3>2. CASE clock <= lastFlush + FlushInterval
      BY <1>0, <1>1, <1>7, <2>1, <2>3, <3>2 DEF Check, Left
    <3> QED BY <1>1, <3>1, <3>2
  <2> QED BY <1>7, <2>2, <2>3 DEF Check
<1>8. ASSUME ~TooLarge(f), ~Due, count' = count + 1, Keep(f) PROVE Goal
  BY <1>0, <1>1, <1>2, <1>8 DEF TooLarge, Left
<1> QED BY <1>3, <1>4, <1>5, <1>6, <1>7, <1>8 DEF f

(* append(): the line, the size, the period and the flush interval. *)
LEMMA AppendIInv ==
  ASSUME IInv, AppendLine
  PROVE  IInv'
<1> DEFINE n == Len(files)
           g == Last(files)
           f == Written(g)
           len == line.len
           o == Opened(clock)
<1>1. /\ clock \in Clocks /\ clock \in Nat /\ count \in 0..(CheckEveryN - 1) /\ CheckEveryN \in Nat \ {0}
      /\ lastRoll \in Nat /\ lastFlush \in Nat /\ flushedAt \in Nat /\ overdue \in Nat /\ startOfPeriod \in Nat
      /\ FlushInterval \in Nat /\ RollSize \in Nat /\ setBack \in BOOLEAN
      /\ files \in Seq(File) /\ files # <<>>
  BY LogFileAssumption DEF IInv, TypeOK
<1>2. n \in Nat \ {0} /\ n \in 1..n /\ g = files[n] /\ \A i \in 1..n : files[i] \in File
  BY <1>1, LenProperties, EmptySeq, ElementOfSeq DEF Last
<1>3. /\ g \in File /\ g.excess \in Nat /\ g.stale \in Nat /\ g.written \in Nat /\ g.excess = 0
      /\ g.stored <= g.written /\ (~setBack => g.stale <= count) /\ g.name.second = lastRoll
  <2>1. g \in File
    BY <1>2
  <2>2. g.excess \in Nat /\ g.stale \in Nat /\ g.written \in Nat
    BY <2>1 DEF File
  <2> QED BY <1>2, <2>1, <2>2 DEF IInv, FileInv, NameInv
<1>4. /\ f \in File /\ f.name = g.name /\ f.written = g.written + len
      /\ f.stored <= f.written
      /\ f.stale = IF PeriodOf(clock) # startOfPeriod THEN g.stale + 1 ELSE g.stale
      /\ f.excess = IF g.written > RollSize /\ clock > lastRoll THEN g.excess + 1 ELSE g.excess
  BY <1>3, WrittenType DEF IInv, TypeOK, LineInv
<1>5. /\ o \in File /\ o.name.second = clock /\ o.written = 0 /\ o.stored = 0 /\ o.excess = 0 /\ o.stale = 0
  BY <1>1, OpenedType
<1>6. /\ Replaced(f) \/ Flushed(f) \/ Left(f)
      /\ clock' = clock /\ setBack' = setBack
      /\ count' \in 0..(CheckEveryN - 1) /\ lines' \in 0..MaxLines /\ shorts' \in 0..MaxShort
      /\ line' = NoLine /\ len \in Lengths
  BY Outcomes
<1>7. ASSUME NEW i \in 1..n, i # n
      PROVE  /\ files[i].stored <= files[i].written /\ files[i].excess <= 1
             /\ ~setBack => files[i].stale <= CheckEveryN
             /\ files[i].name.second < lastRoll
  <2>1. i < n
    BY <1>2, <1>7
  <2> QED BY <1>2, <1>3, <1>7, <2>1 DEF IInv, FileInv, NameInv, NamesIncrease
<1>8. ASSUME NEW i \in 1..n, NEW j \in 1..n, i < j
      PROVE  files[i].name.second < files[j].name.second
  BY <1>8 DEF IInv, NameInv, NamesIncrease
<1>9. /\ startOfPeriod = PeriodOf(lastRoll) /\ PeriodOf(clock) \in Nat
      /\ ~setBack =>
           /\ lastRoll <= lastFlush /\ lastFlush <= flushedAt /\ flushedAt <= clock
           /\ overdue <= count
           /\ overdue > 0 => clock > flushedAt + FlushInterval
           /\ g.stale > 0 => PeriodOf(clock) # startOfPeriod
  BY <1>1, Periods DEF IInv, ClockInv
<1>10. len \in Nat \ {0}
  BY <1>6, LogFileAssumption
<1>13. LineInv' /\ line' \in Line
  BY <1>6, NoLineFine DEF LineInv
<1> DEFINE D == files'
<1> HIDE DEF n, g, f, len, o, D
<1>11. CASE Replaced(f)
  <2>1. /\ D \in Seq(File) /\ D # <<>> /\ Len(D) = n + 1 /\ Last(D) = o /\ D[n + 1] = o /\ D[n] = f
        /\ \A i \in 1..n : i # n => D[i] = files[i]
    <3>1. D = Front(files) \o <<f, o>>
      BY <1>11 DEF Replaced, D, o
    <3>2. IsRolled(D, files, f, o)
      BY <1>1, <1>4, <1>5, <3>1, RollFiles
    <3> QED BY <3>2 DEF IsRolled, n
  <2>2. /\ clock > lastRoll /\ startOfPeriod' = PeriodOf(clock) /\ lastRoll' = clock /\ lastFlush' = clock
        /\ flushedAt' = clock /\ overdue' = 0
    BY <1>11 DEF Replaced
  <2>3. TypeOK'
    BY <1>1, <1>6, <1>9, <1>13, <2>1, <2>2 DEF TypeOK, D
  <2>4. NameInv'
    <3>1. ASSUME NEW i \in 1..Len(D), NEW j \in 1..Len(D), i < j
          PROVE  D[i].name.second < D[j].name.second
      <4>1. i \in 1..n /\ (j \in 1..n \/ j = n + 1)
        BY <1>2, <2>1, <3>1
      <4>2. D[i].name.second = files[i].name.second
        BY <1>2, <1>4, <2>1, <4>1
      <4>3. CASE j \in 1..n
        <5>1. D[j].name.second = files[j].name.second
          BY <1>2, <1>4, <2>1, <4>3
        <5> QED BY <1>8, <3>1, <4>1, <4>2, <4>3, <5>1
      <4>4. CASE j = n + 1
        <5>1. D[j].name.second = clock
          BY <1>5, <2>1, <4>4
        <5>2. CASE i = n
          <6>1. files[i].name.second = lastRoll
            BY <1>2, <1>3, <5>2
          <6> QED BY <1>1, <2>2, <4>2, <5>1, <6>1
        <5>3. CASE i # n
          <6>1. files[i].name.second < lastRoll
            BY <1>7, <4>1, <5>3
          <6>2. files[i].name.second \in Nat
            <7>1. files[i] \in File
              BY <1>2, <4>1
            <7> QED BY <7>1, FileName
          <6> QED BY <1>1, <2>2, <4>2, <5>1, <6>1, <6>2
        <5> QED BY <5>2, <5>3
      <4> QED BY <4>1, <4>3, <4>4
    <3> QED BY <1>5, <2>1, <2>2, <3>1 DEF NameInv, NamesIncrease, D
  <2>5. FileInv'
    <3>1. ASSUME NEW i \in 1..Len(D)
          PROVE  /\ D[i].stored <= D[i].written
                 /\ D[i].excess <= IF i = Len(D) THEN 0 ELSE 1
                 /\ ~setBack => D[i].stale <= IF i = Len(D) THEN count' ELSE CheckEveryN
      <4>1. CASE i = n + 1
        BY <1>1, <1>5, <1>6, <2>1, <4>1
      <4>2. CASE i = n
        BY <1>1, <1>2, <1>3, <1>4, <2>1, <4>2
      <4>3. CASE i # n /\ i # n + 1
        <5>1. i \in 1..n /\ i # Len(D)
          BY <1>2, <2>1, <4>3
        <5> QED BY <1>7, <2>1, <4>3, <5>1
      <4> QED BY <4>1, <4>2, <4>3
    <3> QED BY <1>6, <3>1 DEF FileInv, D
  <2>6. ClockInv'
    BY <1>1, <1>5, <1>6, <2>1, <2>2 DEF ClockInv, D
  <2> QED BY <1>13, <2>3, <2>4, <2>5, <2>6 DEF IInv
<1>12. CASE Flushed(f) \/ Left(f)
  <2>1. /\ D \in Seq(File) /\ D # <<>> /\ Len(D) = n /\ Last(D) = f /\ D[n] = f
        /\ \A i \in 1..n : i # n => D[i] = files[i]
    <3>1. D = Append(Front(files), f)
      BY <1>12 DEF Flushed, Left, D
    <3>2. IsKept(D, files, f)
      BY <1>1, <1>4, <3>1, KeepFiles
    <3> QED BY <3>2 DEF IsKept, n
  <2>2. startOfPeriod' = startOfPeriod /\ lastRoll' = lastRoll
    BY <1>12 DEF Flushed, Left
  <2>3. /\ \/ lastFlush' = clock /\ flushedAt' = clock /\ overdue' = 0
           \/ lastFlush' = lastFlush /\ flushedAt' = flushedAt /\ overdue' = Overdue
    BY <1>12 DEF Flushed, Left
  <2>4. TypeOK'
    BY <1>1, <1>6, <1>13, <2>1, <2>2, <2>3 DEF TypeOK, Overdue, D
  <2>5. NameInv'
    <3>1. ASSUME NEW i \in 1..n PROVE D[i].name.second = files[i].name.second
      BY <1>2, <1>4, <2>1
    <3>2. f.name.second = lastRoll
      BY <1>3, <1>4
    <3> QED BY <1>8, <2>1, <2>2, <3>1, <3>2 DEF NameInv, NamesIncrease, D
  <2>6. f.excess = 0
    <3>1. f.written <= RollSize \/ clock <= lastRoll
      BY <1>12 DEF Flushed, Left
    <3> QED BY <1>1, <1>3, <1>4, <1>10, <3>1
  <2>7. ~setBack => (clock <= lastRoll => PeriodOf(clock) = startOfPeriod)
    BY <1>1, <1>9
  <2>8. ~setBack => f.stale <= count'
    <3>1. CASE Flushed(f)
      BY <1>1, <1>3, <1>4, <1>9, <3>1 DEF Flushed
    <3>2. CASE Left(f)
      BY <1>1, <1>3, <1>4, <1>9, <2>7, <3>2 DEF Left
    <3> QED BY <1>12, <3>1, <3>2
  <2>9. FileInv'
    <3>1. ASSUME NEW i \in 1..Len(D)
          PROVE  /\ D[i].stored <= D[i].written
                 /\ D[i].excess <= IF i = Len(D) THEN 0 ELSE 1
                 /\ ~setBack => D[i].stale <= IF i = Len(D) THEN count' ELSE CheckEveryN
      <4>1. CASE i = n
        BY <1>4, <2>1, <2>6, <2>8, <4>1
      <4>2. CASE i # n
        BY <1>7, <2>1, <4>2
      <4> QED BY <4>1, <4>2
    <3> QED BY <1>6, <3>1 DEF FileInv, D
  <2>10. ~setBack => (f.stale > 0 => PeriodOf(clock) # startOfPeriod)
    BY <1>3, <1>4, <1>9
  <2>11. ASSUME ~setBack
         PROVE  /\ lastRoll' <= lastFlush' /\ lastFlush' <= flushedAt' /\ flushedAt' <= clock
                /\ overdue' <= count'
                /\ overdue' > 0 => clock > flushedAt' + FlushInterval
    <3>1. CASE Flushed(f)
      BY <1>1, <1>9, <2>11, <3>1 DEF Flushed
    <3>2. CASE Left(f)
      <4>1. overdue' = IF clock > flushedAt + FlushInterval THEN overdue + 1 ELSE overdue
        BY <3>2 DEF Left, Overdue
      <4>2. \/ count' = count /\ clock <= lastRoll
            \/ count' = 0 /\ clock <= lastFlush + FlushInterval
            \/ count' = count + 1
        BY <1>1, <1>9, <2>7, <2>11, <3>2 DEF Left
      <4>3. lastFlush' = lastFlush /\ flushedAt' = flushedAt
        BY <3>2 DEF Left
      <4> QED BY <1>1, <1>9, <2>2, <2>11, <4>1, <4>2, <4>3
    <3> QED BY <1>12, <3>1, <3>2
  <2>12. ClockInv'
    BY <1>6, <1>9, <2>1, <2>2, <2>10, <2>11 DEF ClockInv, D
  <2> QED BY <1>13, <2>4, <2>5, <2>9, <2>12 DEF IInv
<1> QED BY <1>6, <1>11, <1>12

(* The calls of fwrite() *)
LEMMA LineIInv ==
  ASSUME IInv, NEW x \in Nat,
         \/ Retry(x) /\ x <= line.remain
         \/ \E len \in Lengths : x <= len /\ StartLine(len, x)
  PROVE  IInv'
<1>1. /\ line \in Line /\ shorts \in 0..MaxShort
      /\ line.n + line.remain = line.len /\ line.text = Bytes(0, line.n)
      /\ line # NoLine => line.len \in Lengths /\ lines < MaxLines
  BY DEF IInv, TypeOK, LineInv
<1>2. /\ line.len \in Lengths \cup {0} /\ line.n \in Nat /\ line.remain \in Nat /\ line.text \in Seq(Nat)
      /\ line = [len |-> line.len, n |-> line.n, remain |-> line.remain, text |-> line.text]
  BY <1>1 DEF Line
<1>3. UNCHANGED <<clock, files, count, startOfPeriod, lastRoll, lastFlush, lines, setBack, flushedAt, overdue>>
  BY DEF Retry, StartLine, times
<1>4. shorts' \in 0..MaxShort
  BY <1>1, AcceptsType DEF Retry, StartLine
<1> DEFINE Fine(l) == /\ l \in Line /\ l.n + l.remain = l.len /\ l.text = Bytes(0, l.n)
                      /\ l.len \in Lengths /\ lines < MaxLines
<1>5. ASSUME NEW len \in Lengths, x <= len, StartLine(len, x) PROVE Fine(line')
  <2>1. /\ line' = [len |-> len, n |-> x, remain |-> len - x, text |-> Bytes(0, x)] /\ lines < MaxLines
    BY <1>5 DEF StartLine
  <2>2. len \in Nat /\ len - x \in Nat /\ x + (len - x) = len
    BY <1>5, LogFileAssumption
  <2>3. Bytes(0, x) \in Seq(Nat)
    BY MoreBytes
  <2> QED BY <2>1, <2>2, <2>3 DEF Line
<1>6. ASSUME Retry(x), x <= line.remain PROVE Fine(line')
  <2> DEFINE len == line.len
             n   == line.n
  <2>1. line' = [len |-> len, n |-> n + x, remain |-> len - (n + x), text |-> line.text \o Bytes(n, x)]
    <3> DEFINE m == n + x
               r == len - (n + x)
               t == line.text \o Bytes(n, x)
    <3>1. line' = [line EXCEPT !.n = m, !.remain = r, !.text = t]
      BY <1>6, Zenon DEF Retry, Resumed
    <3> HIDE DEF m, r, t
    <3>2. line' = [len |-> len, n |-> m, remain |-> r, text |-> t]
      BY <1>2, <3>1
    <3> QED BY <3>2, Zenon DEF m, r, t
  <2>2. line.remain > n
    BY <1>6 DEF Retry, TriesAgain
  <2>3. line # NoLine
    BY <2>2 DEF NoLine
  <2>4. len \in Lengths /\ lines < MaxLines /\ len \in Nat
    BY <1>1, <2>3, LogFileAssumption
  <2>5. n + x \in Nat /\ len - (n + x) \in Nat /\ (n + x) + (len - (n + x)) = len
    <3> DEFINE r == line.remain
    <3>1. n \in Nat /\ r \in Nat /\ n + r = len /\ x <= r
      BY <1>1, <1>2, <1>6
    <3> HIDE DEF n, len, r
    <3> QED BY <2>4, <3>1
  <2>6. line.text \o Bytes(n, x) = Bytes(0, n + x) /\ Bytes(0, n + x) \in Seq(Nat)
    <3>1. n \in Nat /\ line.text = Bytes(0, n)
      BY <1>1, <1>2
    <3> HIDE DEF n
    <3> QED BY <2>5, <3>1, MoreBytes
  <2> HIDE DEF len, n
  <2> QED BY <2>1, <2>4, <2>5, <2>6 DEF Line
<1>7. Fine(line')
  BY <1>5, <1>6
<1>8. TypeOK'
  BY <1>3, <1>4, <1>7 DEF IInv, TypeOK
<1>9. LineInv'
  BY <1>3, <1>7 DEF LineInv
<1>10. NameInv' /\ FileInv' /\ ClockInv'
  BY <1>3 DEF IInv, NameInv, NamesIncrease, FileInv, ClockInv
<1> QED BY <1>8, <1>9, <1>10 DEF IInv

(* flush() and time *)
LEMMA OtherIInv == IInv /\ (Flush \/ ClockChanges \/ UNCHANGED vars) => IInv'
<1> SUFFICES ASSUME IInv, Flush \/ ClockChanges \/ UNCHANGED vars PROVE IInv'
  OBVIOUS
<1>1. /\ clock \in Nat /\ flushedAt \in Nat /\ overdue \in Nat /\ lastFlush \in Nat /\ count \in Nat
      /\ FlushInterval \in Nat /\ lastRoll \in Nat
  BY LogFileAssumption DEF IInv, TypeOK
<1>2. CASE Flush
  <2>1. /\ UNCHANGED <<clock, files, line, count, startOfPeriod, lastRoll, lastFlush, lines, shorts, setBack>>
        /\ flushedAt' = IF clock > flushedAt THEN clock ELSE flushedAt
        /\ overdue' = 0
    BY <1>2 DEF Flush, times
  <2> QED BY <1>1, <2>1 DEF IInv, TypeOK, NameInv, NamesIncrease, FileInv, ClockInv, LineInv
<1>3. CASE ClockChanges
  <2>1. /\ UNCHANGED <<files, line, count, startOfPeriod, lastRoll, lastFlush, lines, shorts, flushedAt, overdue>>
        /\ clock' \in Clocks /\ clock' \in Nat /\ setBack' = (setBack \/ clock' < clock)
    BY <1>3, LogFileAssumption DEF ClockChanges, times
  <2>2. setBack' \in BOOLEAN /\ (~setBack' => ~setBack /\ clock <= clock')
    <3>1. setBack' \in BOOLEAN /\ (~setBack' => ~setBack /\ ~(clock' < clock))
      BY <2>1, Zenon
    <3> QED BY <1>1, <2>1, <3>1
  <2>3. TypeOK'
    BY <2>1, <2>2 DEF IInv, TypeOK
  <2>4. NameInv' /\ FileInv' /\ LineInv'
    BY <2>1, <2>2 DEF IInv, NameInv, NamesIncrease, FileInv, LineInv
  <2>5. ASSUME ~setBack', Last(files).stale > 0 PROVE PeriodOf(clock') # startOfPeriod
    <3>1. /\ PeriodOf(lastRoll) \in Nat /\ PeriodOf(clock) \in Nat /\ PeriodOf(clock') \in Nat
          /\ PeriodOf(clock) # startOfPeriod /\ startOfPeriod = PeriodOf(lastRoll) /\ lastRoll <= clock
      BY <1>1, <2>1, <2>2, <2>5, Periods DEF IInv, ClockInv
    <3>2. PeriodOf(lastRoll) <= PeriodOf(clock) /\ PeriodOf(clock) <= PeriodOf(clock')
      BY <1>1, <2>1, <2>2, <2>5, <3>1, Periods
    <3> QED BY <3>1, <3>2
  <2>6. ClockInv'
    BY <1>1, <2>1, <2>2, <2>5 DEF IInv, ClockInv
  <2> QED BY <2>3, <2>4, <2>6 DEF IInv
<1>4. CASE UNCHANGED vars
  BY <1>4 DEF vars, times, IInv, TypeOK, NameInv, NamesIncrease, FileInv, ClockInv, LineInv
<1> QED BY <1>2, <1>3, <1>4

(* Every step of the log file keeps the invariant. *)
LEMMA StepIInv == IInv /\ [Next]_vars => IInv'
<1> SUFFICES ASSUME IInv, [Next]_vars PROVE IInv'
  OBVIOUS
<1>1. ASSUME NEW len \in Lengths, NEW x \in 0..len, StartLine(len, x) PROVE IInv'
  <2>1. x \in Nat /\ x <= len
    BY LogFileAssumption
  <2> QED BY <1>1, <2>1, LineIInv
<1>2. ASSUME NEW x \in 1..line.remain, Retry(x) PROVE IInv'
  <2>1. x \in Nat /\ x <= line.remain
    BY DEF IInv, TypeOK, Line
  <2> QED BY <1>2, <2>1, LineIInv
<1> QED BY <1>1, <1>2, AppendIInv, OtherIInv DEF Next

LEMMA Invariant == Spec => []IInv
BY InitIInv, StepIInv, PTL DEF Spec

(* No two files of a log have the same name, whatever the clock does. *)
THEOREM LogFileNamesIncrease == Spec => []NamesIncrease
<1>1. IInv => NamesIncrease
  BY DEF IInv, NameInv
<1> QED BY <1>1, Invariant, PTL

(* A file that is too large takes at most one line of a later second, and one *)
(* whose period is over at most checkEveryN_ lines.                           *)
THEOREM LogFileRollsInTime == Spec => []FilesRollInTime
<1>1. IInv => FilesRollInTime
  <2> SUFFICES ASSUME IInv, NEW i \in 1..Len(files)
               PROVE  files[i].excess <= 1 /\ (~setBack => files[i].stale <= CheckEveryN)
    BY DEF FilesRollInTime
  <2>1. files[i] \in File /\ count \in 0..(CheckEveryN - 1) /\ CheckEveryN \in Nat
    BY LenProperties, ElementOfSeq, LogFileAssumption DEF IInv, TypeOK
  <2>2. files[i].excess \in Nat /\ files[i].stale \in Nat
    BY <2>1 DEF File
  <2> QED BY <2>1, <2>2 DEF IInv, FileInv
<1> QED BY <1>1, Invariant, PTL

(* Fewer than checkEveryN_ lines wait for a flush beyond the flush interval.  *)
THEOREM LogFileFlushesInTime == Spec => []FewOverdueLines
<1>1. IInv => FewOverdueLines
  BY LogFileAssumption DEF IInv, TypeOK, ClockInv, FewOverdueLines
<1> QED BY <1>1, Invariant, PTL

(* A file gets the first bytes of each line, in their order and once, however *)
(* often fwrite() comes short, and writtenBytes_ counts at least those.       *)
THEOREM LogFileLinesArePrefixes == Spec => []LinesArePrefixes
<1>1. IInv => LinesArePrefixes
  <2> SUFFICES ASSUME IInv PROVE LinesArePrefixes
    OBVIOUS
  <2>1. line.n \in Nat /\ line.remain \in Nat /\ line.n + line.remain = line.len
    BY DEF IInv, TypeOK, Line, LineInv
  <2>2. line.n <= line.len
    BY <2>1
  <2> QED BY <2>2 DEF IInv, LineInv, FileInv, LinesArePrefixes
<1> QED BY <1>1, Invariant, PTL

=============================================================================
