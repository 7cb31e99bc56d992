--------------------------------- MODULE Logger ---------------------------------
(***************************************************************************)
(* base/log/Logging.{h,cc} over LogStream: threads construct a Logger for  *)
(* each line, which stamps the time with the help of a per-thread cache of *)
(* the second rendered last, collects the pieces of the line in a buffer   *)
(* of fixed size, and hands the buffer to g_output when it is destroyed; a *)
(* FATAL line then flushes and aborts the process.  g_logLevel, g_output,  *)
(* g_flush and g_logTimeZone are plain globals: the model sets them while  *)
(* no thread is logging, as a program without a data race must.  A text is *)
(* its length; an errno's text (LOG_SYSERR) is pieces of the message.      *)
(***************************************************************************)
EXTENDS Integers, Sequences

CONSTANTS
  LogThreads,   \* the threads that log
  Clocks,       \* bound: the seconds Timestamp::now() may return
  Zones,        \* the values of g_logTimeZone
  NoZone,       \* the invalid time zone, for UTC
  Sinks,        \* what g_output and g_flush may be set to act on
  Levels,       \* bound: the levels lines and g_logLevel have
  Messages,     \* bound: sequences of the pieces a statement may stream
  Nobody        \* not a thread

kSmallBuffer == 4000
kMaxNumericSize == 32

LogLevel == [TRACE |-> 0, DEBUG |-> 1, INFO |-> 2, WARN |-> 3, ERROR |-> 4, FATAL |-> 5]

(* A piece is a text or a number, with its number of characters. *)
Text(n)   == [numeric |-> FALSE, len |-> n]
Number(n) == [numeric |-> TRUE, len |-> n]

Piece == {p \in [numeric : BOOLEAN, len : Nat] : p.numeric => p.len \in 1..(kMaxNumericSize - 1)}

ASSUME LoggerAssumption ==
  /\ NoZone \in Zones /\ Clocks \subseteq Nat \ {0}
  /\ Levels \subseteq LogLevel.TRACE..LogLevel.FATAL
  /\ Messages \subseteq Seq(Piece)

VARIABLES
  clock,       \* Timestamp::now(), in seconds
  logLevel,    \* g_logLevel
  zone,        \* g_logTimeZone
  output,      \* the sink g_output writes to
  flush,       \* the sink g_flush flushes
  lastSecond,  \* t_lastSecond of each thread
  time,        \* t_time of each thread: the second it shows and the zone it shows it in
  setSince,    \* history: the zone has been set since the thread rendered t_time
  pc,          \* where each thread is
  line,        \* the line of each thread
  pending,     \* the threads with lines that each sink has not written yet
  aborted      \* the thread that called abort()

cache == <<lastSecond, time, setSince>>
globals == <<logLevel, zone, output, flush>>
vars == <<clock, globals, cache, pc, line, pending, aborted>>

NoLine == [level |-> LogLevel.TRACE]
Alive == aborted = Nobody
NobodyLogs == Alive /\ \A t \in LogThreads : pc[t] = "idle"

Init ==
  /\ clock \in Clocks /\ logLevel \in Levels
  /\ zone = NoZone
  /\ output \in Sinks /\ flush = output
  /\ lastSecond = [t \in LogThreads |-> 0]
  /\ time = [t \in LogThreads |-> [second |-> 0, in |-> NoZone]]
  /\ setSince = [t \in LogThreads |-> FALSE]
  /\ pc = [t \in LogThreads |-> "idle"] /\ line = [t \in LogThreads |-> NoLine]
  /\ pending = [s \in Sinks |-> {}] /\ aborted = Nobody

-----------------------------------------------------------------------------
(* FixedBuffer::append() and LogStream's operators: a piece that does not fit *)
(* is left out, and a number asks for the room of the longest.                *)
Fits_Exactly(used, piece) == kSmallBuffer - used >= piece.len

Fits(used, piece) ==
  IF piece.numeric THEN kSmallBuffer - used >= kMaxNumericSize
                   ELSE kSmallBuffer - used > piece.len

Appended(used, piece) == IF Fits(used, piece) THEN used + piece.len ELSE used

(* formatTime(): the time of 17 characters, and microseconds with a Z when    *)
(* there is no zone                                                           *)
TimePieces(z) == <<Text(17), Text(IF z = NoZone THEN 9 ELSE 8)>>

(* Impl(): the time, the thread's number and the level *)
Header(z) == TimePieces(z) \o <<Text(6), Text(6)>>

(* Logger(): below INFO there is the name of the function, and a space. *)
FuncPieces(l) == IF l < LogLevel.INFO THEN <<Text(4), Text(1)>> ELSE <<>>

(* finish(): " - ", the file, ":" and the number of its line; the newline     *)
(* comes last.                                                                *)
Finish == <<Text(3), Text(8), Text(1), Number(3)>>

Pieces(ln) == Header(ln.suffix) \o FuncPieces(ln.level) \o ln.message \o Finish
Newline == Text(1)

UsedBy(pieces) ==
  LET used[i \in 0..Len(pieces)] == IF i = 0 THEN 0 ELSE Appended(used[i - 1], pieces[i])
  IN  used[Len(pieces)]

-----------------------------------------------------------------------------
(* Mutant of Caches: t_time is not __thread. *)
Caches_Shared(t) == LogThreads

(* The threads whose t_time is the one that t renders. *)
Caches(t) == {t}

(* formatTime(): the text is rendered anew only when the second is another. *)
FormatTime(t) ==
  IF clock # lastSecond[t]
  THEN /\ lastSecond' = [lastSecond EXCEPT ![t] = clock]
       /\ time' = [u \in LogThreads |-> IF u \in Caches(t) THEN [second |-> clock, in |-> zone]
                                                           ELSE time[u]]
       /\ setSince' = [setSince EXCEPT ![t] = FALSE]
  ELSE UNCHANGED cache

(* A LOG_ statement: below WARN it looks at the level first.  The Logger is   *)
(* constructed and the message streamed, all in the thread's own memory.      *)
Log(t, l, m) ==
  /\ Alive /\ pc[t] = "idle"
  /\ l < LogLevel.WARN => logLevel <= l
  /\ FormatTime(t)
  /\ line' = [line EXCEPT ![t] = [level |-> l, second |-> clock, shown |-> time'[t],
                                  suffix |-> zone, setSince |-> setSince'[t], message |-> m]]
  /\ pc' = [pc EXCEPT ![t] = "output"]
  /\ UNCHANGED <<clock, globals, pending, aborted>>

(* Mutant of AfterOutput: a FATAL line aborts before it flushes. *)
AfterOutput_Unflushed(l) == IF l = LogLevel.FATAL THEN "abort" ELSE "idle"

AfterOutput(l) == IF l = LogLevel.FATAL THEN "flush" ELSE "idle"

(* ~Logger() *)
Output(t) ==
  /\ Alive /\ pc[t] = "output"
  /\ pending' = [pending EXCEPT ![output] = @ \cup {t}]
  /\ pc' = [pc EXCEPT ![t] = AfterOutput(line[t].level)]
  /\ line' = [line EXCEPT ![t] = NoLine]
  /\ UNCHANGED <<clock, globals, cache, aborted>>

FlushFatal(t) ==
  /\ Alive /\ pc[t] = "flush"
  /\ pending' = [pending EXCEPT ![flush] = {}]
  /\ pc' = [pc EXCEPT ![t] = "abort"]
  /\ UNCHANGED <<clock, globals, cache, line, aborted>>

Abort(t) ==
  /\ Alive /\ pc[t] = "abort"
  /\ aborted' = t
  /\ UNCHANGED <<clock, globals, cache, pc, line, pending>>

-----------------------------------------------------------------------------
(* setLogLevel(), setOutput(), setFlush() or setTimeZone() *)
Configure ==
  /\ NobodyLogs
  /\ \/ logLevel' \in Levels /\ UNCHANGED <<zone, output, flush, setSince>>
     \/ output' \in Sinks /\ UNCHANGED <<logLevel, zone, flush, setSince>>
     \/ flush' \in Sinks /\ UNCHANGED <<logLevel, zone, output, setSince>>
     \/ /\ zone' \in Zones /\ setSince' = [t \in LogThreads |-> TRUE]
        /\ UNCHANGED <<logLevel, output, flush>>
  /\ UNCHANGED <<clock, lastSecond, time, pc, line, pending, aborted>>

(* The clock goes on, or is set. *)
ClockChanges(c) ==
  /\ Alive
  /\ clock' = c
  /\ UNCHANGED <<globals, cache, pc, line, pending, aborted>>

(* stdio's buffer is full, or the sink's own thread writes what it has. *)
SinkWrites(s) ==
  /\ Alive
  /\ pending' = [pending EXCEPT ![s] = {}]
  /\ UNCHANGED <<clock, globals, cache, pc, line, aborted>>

Next ==
  \/ \E t \in LogThreads :
       \/ \E l \in Levels, m \in Messages : Log(t, l, m)
       \/ Output(t) \/ FlushFatal(t) \/ Abort(t)
  \/ Configure
  \/ \E s \in Sinks : SinkWrites(s)
  \/ \E c \in Clocks : ClockChanges(c)

Spec == Init /\ [][Next]_vars

-----------------------------------------------------------------------------
Composed == {line[t] : t \in {u \in LogThreads : pc[u] = "output"}}

(* A line shows the second it was logged in, however the clock moves and      *)
(* whichever threads log, and shows it in the zone its suffix tells, unless   *)
(* the zone was set after the thread had rendered that second: formatTime()'s *)
(* cache knows the second and not the zone.                                   *)
TimesRight ==
  \A ln \in Composed :
    /\ ln.shown.second = ln.second
    /\ ln.shown.in # ln.suffix => ln.setSince

(* The length of a line with all its pieces *)
Length(pieces) ==
  LET total[i \in 0..Len(pieces)] == IF i = 0 THEN 0 ELSE total[i - 1] + pieces[i].len
  IN  total[Len(pieces)]

(* The buffer is never filled to its end, where debugString() and convert()   *)
(* put a NUL; a line loses its newline only if one byte is left; and a line   *)
(* that leaves room for one more number lost nothing.                         *)
LinesFit ==
  \A ln \in Composed :
    LET used  == UsedBy(Pieces(ln))
        total == Length(Pieces(ln))
    IN /\ Appended(used, Newline) < kSmallBuffer
       /\ ~Fits(used, Newline) => used = kSmallBuffer - 1
       /\ total <= kSmallBuffer - kMaxNumericSize => used = total

(* When the process aborts after a FATAL line, no line of that thread waits   *)
(* in the sink g_output writes to, if g_flush is the one that flushes it:     *)
(* ~Logger() outputs, flushes, and only then aborts.                          *)
FatalLineSurvives ==
  aborted # Nobody /\ output = flush => aborted \notin pending[output]

=============================================================================
