----------------------------- MODULE AsyncLogging -----------------------------
(***************************************************************************)
(* base/log/AsyncLogging.{h,cc}: front-end threads append() lines to the   *)
(* current buffer under mutex_; one back-end thread swaps the full buffers *)
(* and the current one out, writes them to its LogFile and gives two of    *)
(* them back.  stop() touches running_ and cond_ without the mutex.        *)
(*                                                                         *)
(* A critical section is one step.  What the back end does between two     *)
(* critical sections works on its own variables only, so it is one step    *)
(* too.  The contents of a buffer are its lines, in order, and its length. *)
(***************************************************************************)
EXTENDS Naturals, Sequences, FiniteSets, SequencesExt, CountDownLatch

CONSTANTS
  Lines,       \* the lines that are logged, each at most once
  Size,        \* Size[x]: the length of line x
  BufferSize,  \* sizeof data_ of a Buffer (kLargeBuffer)
  DropLimit,   \* 25: more buffers than this at once are dropped but for two
  Owner,       \* the thread that calls start() and stop()
  Backend,     \* thread_
  NoBuffer     \* a BufferPtr that points to nothing

ASSUME AsyncAssumption ==
  /\ Size \in [Lines -> Nat]
  /\ BufferSize \in Nat \ {0}
  /\ DropLimit \in Nat /\ DropLimit >= 2
  /\ LatchThreads = {Owner, Backend} /\ Owner # Backend
  /\ LatchCount = 1
  /\ NoBuffer \notin [lines : Seq(Lines), length : Nat]

VARIABLES
  running,        \* running_
  currentBuffer,  \* currentBuffer_
  nextBuffer,     \* nextBuffer_
  buffers,        \* buffers_, the full buffers
  newBuffer1,     \* newBuffer1 of threadFunc()
  newBuffer2,     \* newBuffer2
  buffersToWrite, \* buffersToWrite
  owner,          \* "new", "starting", "started", "stopping", "joining", "stopped"
  backend,        \* "none", "begin", "head", "lock", "asleep", "woken", "write", "done"
  output,         \* the lines of each buffer given to the LogFile, in order; flushed at each turn
  appended,       \* history: the lines append() was called with, in order
  dropped         \* history: the lines of the buffers that were erased

front   == <<currentBuffer, nextBuffer, buffers>>
spare   == <<newBuffer1, newBuffer2, buffersToWrite>>
control == <<running, owner, backend>>
written == <<output, dropped>>
asyncVars == <<control, front, spare, written, appended, latchVars>>

Empty == [lines |-> <<>>, length |-> 0]

LinesOf(bs) == [i \in 1..Len(bs) |-> bs[i].lines]

Contents(chunks) == UNION {ToSet(chunks[c]) : c \in DOMAIN chunks}

(* FixedBuffer::append(): a line that does not fit is not stored. *)
Stored(b, x) ==
  IF BufferSize - b.length > Size[x]
    THEN [lines |-> Append(b.lines, x), length |-> b.length + Size[x]]
    ELSE b

Init ==
  /\ running = FALSE
  /\ currentBuffer = Empty /\ nextBuffer = Empty /\ buffers = <<>>
  /\ newBuffer1 = Empty /\ newBuffer2 = Empty /\ buffersToWrite = <<>>
  /\ owner = "new" /\ backend = "none"
  /\ output = <<>> /\ appended = <<>> /\ dropped = {}
  /\ LatchInit

-----------------------------------------------------------------------------
(* start(): running_, thread_.start(), and the call of latch_.wait(). *)
Start ==
  /\ owner = "new"
  /\ running' = TRUE
  /\ backend' = "begin"
  /\ owner' = "starting"
  /\ WaitCall(Owner)
  /\ UNCHANGED <<front, spare, written, appended>>

(* start(): the back end has counted down. *)
StartReturn ==
  /\ owner = "starting"
  /\ WaitReturn(Owner)
  /\ owner' = "started"
  /\ UNCHANGED <<running, backend, front, spare, written, appended>>

(* stop(), or the destructor while running_: the flag, the notification and  *)
(* the join, none of them under the mutex.                                   *)
StopFlag ==
  /\ owner = "started"
  /\ running' = FALSE
  /\ owner' = "stopping"
  /\ UNCHANGED <<backend, front, spare, written, appended, latchVars>>

(* cond_.notify(): the back end is the only thread that waits at cond_. *)
Notified == IF backend = "asleep" THEN "woken" ELSE backend

StopNotify ==
  /\ owner = "stopping"
  /\ backend' = Notified
  /\ owner' = "joining"
  /\ UNCHANGED <<running, front, spare, written, appended, latchVars>>

StopReturn ==
  /\ owner = "joining"
  /\ backend = "done"
  /\ owner' = "stopped"
  /\ UNCHANGED <<running, backend, front, spare, written, appended, latchVars>>

-----------------------------------------------------------------------------
NotYet(x) == ~ \E i \in 1..Len(appended) : appended[i] = x

(* append(): there is room in the current buffer. *)
AppendFits(x) ==
  /\ NotYet(x)
  /\ BufferSize - currentBuffer.length > Size[x]
  /\ currentBuffer' = Stored(currentBuffer, x)
  /\ appended' = Append(appended, x)
  /\ UNCHANGED <<control, nextBuffer, buffers, spare, written, latchVars>>

(* append(): the current buffer is full, and the spare one or a new one takes *)
(* its place.                                                                 *)
AppendRotates(x) ==
  /\ NotYet(x)
  /\ BufferSize - currentBuffer.length <= Size[x]
  /\ buffers' = Append(buffers, currentBuffer)
  /\ currentBuffer' = Stored(IF nextBuffer # NoBuffer THEN nextBuffer ELSE Empty, x)
  /\ nextBuffer' = NoBuffer
  /\ backend' = Notified
  /\ appended' = Append(appended, x)
  /\ UNCHANGED <<running, owner, spare, written, latchVars>>

-----------------------------------------------------------------------------
(* threadFunc() up to the loop; assert(running_) *)
BackendBegins ==
  /\ backend = "begin"
  /\ CountDown(Backend)
  /\ backend' = "head"
  /\ UNCHANGED <<running, owner, front, spare, written, appended>>

(* while (running_), read without the mutex. *)
BackendTests ==
  /\ backend = "head"
  /\ backend' = IF running THEN "lock" ELSE "done"
  /\ UNCHANGED <<running, owner, front, spare, written, appended, latchVars>>

(* Nothing is full: cond_.waitForSeconds(flushInterval_), without a loop. *)
BackendSleeps ==
  /\ backend = "lock"
  /\ buffers = <<>>
  /\ backend' = "asleep"
  /\ UNCHANGED <<running, owner, front, spare, written, appended, latchVars>>

(* Mutant of BackendTimesOut: a wait without a timeout. *)
BackendTimesOut_Never == FALSE /\ UNCHANGED asyncVars

(* The time is over, or the wait ends without a signal. *)
BackendTimesOut ==
  /\ backend = "asleep"
  /\ backend' = "woken"
  /\ UNCHANGED <<running, owner, front, spare, written, appended, latchVars>>

(* The lock is still held, or held again after the wait. *)
HasLock == (backend = "lock" /\ buffers # <<>>) \/ backend = "woken"

(* Mutant of BackendSwaps: only full buffers are written. *)
BackendSwaps_FullOnly ==
  /\ HasLock
  /\ buffersToWrite' = IF buffers = <<>> THEN <<Empty>> ELSE buffers
  /\ buffers' = <<>>
  /\ newBuffer1' = IF buffers = <<>> THEN NoBuffer ELSE newBuffer1
  /\ UNCHANGED <<currentBuffer, nextBuffer, newBuffer2>>
  /\ backend' = "write"
  /\ UNCHANGED <<running, owner, written, appended, latchVars>>

(* The rest of the critical section: the current buffer joins the full ones,  *)
(* all of them change hands, and the two spare buffers take their places.     *)
BackendSwaps ==
  /\ HasLock
  /\ buffersToWrite' = Append(buffers, currentBuffer)
  /\ buffers' = buffersToWrite
  /\ currentBuffer' = newBuffer1
  /\ newBuffer1' = NoBuffer
  /\ nextBuffer' = IF nextBuffer = NoBuffer THEN newBuffer2 ELSE nextBuffer
  /\ newBuffer2' = IF nextBuffer = NoBuffer THEN NoBuffer ELSE newBuffer2
  /\ backend' = "write"
  /\ UNCHANGED <<running, owner, written, appended, latchVars>>

(* buffersToWrite after a backlog has been erase()d but for two buffers. *)
Kept == IF Len(buffersToWrite) > DropLimit THEN SubSeq(buffersToWrite, 1, 2) ELSE buffersToWrite

(* Mutant of Recyclable: one buffer is kept. *)
Recyclable_One == SubSeq(Kept, 1, 1)

(* buffersToWrite after resize(2): what newBuffer1 and newBuffer2 come from. *)
Recyclable == IF Len(Kept) > 2 THEN SubSeq(Kept, 1, 2) ELSE Kept

(* Mutant of Reset: a recycled buffer keeps its lines. *)
Reset_Forgotten(b) == b

(* FixedBuffer::reset() *)
Reset(b) == Empty

(* The rest of the turn: a backlog is cut and reported, the buffers are       *)
(* written, the spare ones that were used are replaced from the back of       *)
(* Recyclable, and the file is flushed.  A turn without lines writes nothing. *)
BackendWrites ==
  /\ backend = "write"
  /\ output' = IF Contents(LinesOf(Kept)) = {} THEN output ELSE output \o LinesOf(Kept)
  /\ dropped' = dropped \cup
       UNION {ToSet(buffersToWrite[i].lines) : i \in (Len(Kept) + 1)..Len(buffersToWrite)}
  /\ LET last == Len(Recyclable)
         next == IF newBuffer1 = NoBuffer THEN last - 1 ELSE last
     IN /\ newBuffer1' = IF newBuffer1 = NoBuffer THEN Reset(Recyclable[last]) ELSE newBuffer1
        /\ newBuffer2' = IF newBuffer2 = NoBuffer THEN Reset(Recyclable[next]) ELSE newBuffer2
  /\ buffersToWrite' = <<>>
  /\ backend' = "head"
  /\ UNCHANGED <<running, owner, front, appended, latchVars>>

-----------------------------------------------------------------------------
OwnerStep == StartReturn \/ StopNotify \/ StopReturn

BackendStep ==
  \/ BackendBegins \/ BackendTests \/ BackendSleeps \/ BackendTimesOut
  \/ BackendSwaps \/ BackendWrites

LatchStep ==
  /\ WaitSleep(Owner) \/ WaitWakesAlone(Owner)
  /\ UNCHANGED <<control, front, spare, written, appended>>

Next ==
  \/ Start \/ StopFlag \/ OwnerStep \/ BackendStep \/ LatchStep
  \/ \E x \in Lines : AppendFits(x) \/ AppendRotates(x)

Spec == Init /\ [][Next]_asyncVars

(* The back end runs, its wait times out, and an owner inside start() or      *)
(* stop() goes on.  Nobody has to call start(), stop() or append().           *)
FairSpec == Spec /\ WF_asyncVars(BackendStep) /\ WF_asyncVars(OwnerStep)

-----------------------------------------------------------------------------
(* The assertions of threadFunc(): running_ is set when it begins (stop()     *)
(* comes after the latch), the spare buffers are there and empty at the head  *)
(* of each turn, and there are enough buffers to recycle, whatever append()   *)
(* took in the meantime.                                                      *)
AssertionsHold ==
  /\ backend = "begin" => running
  /\ backend \in {"lock", "asleep", "woken"} =>
       \A b \in {newBuffer1, newBuffer2} : b # NoBuffer /\ b.length = 0
  /\ backend = "write" =>
       Len(Recyclable) >= Cardinality({i \in 1..2 : <<newBuffer1, newBuffer2>>[i] = NoBuffer})

(* The lines given to the LogFile, and those of the buffers in the order they *)
(* will be.                                                                   *)
Pipeline == buffersToWrite \o Append(buffers, currentBuffer)
Chunks == output \o LinesOf(Pipeline)

(* A line that comes before another one in the chunks was appended before it, *)
(* so that none comes twice.                                                  *)
InOrder(chunks, lines) ==
  \A c, d \in DOMAIN chunks : \A i \in DOMAIN chunks[c], j \in DOMAIN chunks[d] :
    c < d \/ (c = d /\ i < j) =>
      \A a, b \in DOMAIN lines : lines[a] = chunks[c][i] /\ lines[b] = chunks[d][j] => a < b

(* Every line that fits in a buffer is written once and in order, is still in *)
(* one of the buffers, or was in a backlog that was dropped and reported; the *)
(* current, spare and full buffers never mix up or repeat their lines.  It    *)
(* does not say that a line in a buffer gets out: once the back end has ended *)
(* nobody writes what is left there.                                          *)
NoLineLostOrRepeated ==
  /\ InOrder(Chunks, appended)
  /\ Contents(Chunks) = {x \in ToSet(appended) : Size[x] < BufferSize /\ x \notin dropped}

(* A line is written within a turn or two, full buffer or not, unless it is   *)
(* too long, dropped in a backlog, or caught by stop().                       *)
LinesGetWritten ==
  \A x \in Lines :
    x \in ToSet(currentBuffer.lines) ~> x \in dropped \/ ~running \/ x \in Contents(output)

(* stop() returns although its flag and its notification may both fall        *)
(* between the back end's test of running_ and its wait: the wait times out.  *)
StopReturns == owner = "joining" ~> owner = "stopped"

=============================================================================
