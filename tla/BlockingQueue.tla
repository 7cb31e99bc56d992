----------------------------- MODULE BlockingQueue -----------------------------
(***************************************************************************)
(* base/BlockingQueue.h: an unbounded queue whose take() waits until there *)
(* is a message.  Everything happens under mutex_, so a critical section   *)
(* is one step; the test of the loop in take() and the sleep that follows  *)
(* are one section, because pthread_cond_wait() gives the mutex back only  *)
(* when the thread is asleep.                                              *)
(***************************************************************************)
EXTENDS Naturals, Sequences, FiniteSets, Condition

CONSTANTS
  QueueThreads,  \* the threads that call put() and take()
  Messages       \* what they put

ASSUME QueueAssumption == IsFiniteSet(QueueThreads)

VARIABLES
  queue,     \* queue_
  taker,     \* taker[t]: "out" of take(), at its "test", or "asleep" in it
  sent,      \* history: the messages put, in order
  received   \* history: <<thread, message>> for each return of take(), in order

queueVars == <<queue, taker, sent, received>>

At(place) == {t \in QueueThreads : taker[t] = place}

QueueInit ==
  /\ queue = <<>>
  /\ taker = [t \in QueueThreads |-> "out"]
  /\ sent = <<>> /\ received = <<>>

(* Mutants of Put: the classic notification on the first message only; no    *)
(* notification at all.                                                      *)
Put_NotifyWhenEmpty(t, m) ==
  /\ taker[t] = "out"
  /\ queue' = Append(queue, m)
  /\ sent' = Append(sent, m)
  /\ taker' \in IF queue = <<>> THEN Notify(taker, "asleep", "test") ELSE {taker}
  /\ UNCHANGED received

Put_Silent(t, m) ==
  /\ taker[t] = "out"
  /\ queue' = Append(queue, m)
  /\ sent' = Append(sent, m)
  /\ UNCHANGED <<taker, received>>

(* put() *)
Put(t, m) ==
  /\ taker[t] = "out"
  /\ queue' = Append(queue, m)
  /\ sent' = Append(sent, m)
  /\ taker' \in Notify(taker, "asleep", "test")
  /\ UNCHANGED received

(* take() up to its lock *)
TakeCall(t) ==
  /\ taker[t] = "out"
  /\ taker' = [taker EXCEPT ![t] = "test"]
  /\ UNCHANGED <<queue, sent, received>>

(* take(): while (queue_.empty()) notEmpty_.wait() *)
TakeWait(t) ==
  /\ taker[t] = "test"
  /\ queue = <<>>
  /\ taker' = [taker EXCEPT ![t] = "asleep"]
  /\ UNCHANGED <<queue, sent, received>>

(* Mutant of TakeReturn: the newest message first. *)
TakeReturn_Last(t) ==
  /\ taker[t] = "test"
  /\ queue # <<>>
  /\ queue' = SubSeq(queue, 1, Len(queue) - 1)
  /\ received' = Append(received, <<t, queue[Len(queue)]>>)
  /\ taker' = [taker EXCEPT ![t] = "out"]
  /\ UNCHANGED sent

(* take(): front, pop_front, return *)
TakeReturn(t) ==
  /\ taker[t] = "test"
  /\ queue # <<>>
  /\ queue' = Tail(queue)
  /\ received' = Append(received, <<t, Head(queue)>>)
  /\ taker' = [taker EXCEPT ![t] = "out"]
  /\ UNCHANGED sent

(* pthread_cond_wait() may return without a signal. *)
TakeWakesAlone(t) ==
  /\ taker[t] = "asleep"
  /\ taker' = [taker EXCEPT ![t] = "test"]
  /\ UNCHANGED <<queue, sent, received>>

QueueNext ==
  \E t \in QueueThreads :
    \/ \E m \in Messages : Put(t, m)
    \/ TakeCall(t) \/ TakeWait(t) \/ TakeReturn(t) \/ TakeWakesAlone(t)

QueueSpec == QueueInit /\ [][QueueNext]_queueVars

-----------------------------------------------------------------------------
QueueTypeOK ==
  /\ queue \in Seq(Messages) /\ sent \in Seq(Messages)
  /\ received \in Seq(QueueThreads \X Messages)
  /\ taker \in [QueueThreads -> {"out", "test", "asleep"}]

(* One notify() per put() is enough, however puts, takes and spurious wakeups *)
(* are interleaved: as long as some thread sleeps in take(), the threads that *)
(* are awake in take() are at least as many as the messages in the queue, so  *)
(* no message is left to a thread that nobody wakes.                          *)
NoLostWakeup == At("asleep") # {} => Cardinality(At("test")) >= Len(queue)

(* The queue is a FIFO channel: put() sends, the call of take() asks, and its *)
(* return receives the oldest message nobody has received.                    *)
Channel == INSTANCE FifoChannel WITH
  Threads <- QueueThreads,
  got <- received,
  asking <- {t \in QueueThreads : taker[t] # "out"}

(* BlockingQueue implements FifoChannel, the order and the ownership of       *)
(* messages: take() hands each to one thread, oldest first.                   *)
IsFifoChannel == Channel!ChanSafe

=============================================================================
