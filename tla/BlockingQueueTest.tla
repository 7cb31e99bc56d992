--------------------------- MODULE BlockingQueueTest ---------------------------
(***************************************************************************)
(* base/tests/BlockingQueue_test.cpp: a BlockingQueue and a CountDownLatch *)
(* at work.  The main thread starts the workers, waits at the latch until  *)
(* each has counted down, puts its messages and one "stop" per worker, and *)
(* joins the workers, which take messages for ever.                        *)
(***************************************************************************)
EXTENDS BlockingQueue, CountDownLatch

CONSTANTS
  Main,    \* the thread that runs main()
  Times,   \* the messages run() puts, in order
  Stop     \* the message joinAll() puts

Workers == QueueThreads \ {Main}

ASSUME TestAssumption ==
  /\ Main \in QueueThreads
  /\ LatchThreads = QueueThreads
  /\ LatchCount = Cardinality(Workers)
  /\ Times \in Seq(Messages \ {Stop})
  /\ Stop \in Messages

VARIABLES
  main,     \* where main() is: "construct", "run", "waiting", "put", "stop", "join", "joined"
  worker,   \* where each worker is: "none", "started", "loop", "taking", "ended"
  goesOn,   \* goesOn[w]: the local variable running of threadFunc
  putCount  \* how many messages main() has put in the loop it is in

testVars == <<queueVars, latchVars, main, worker, goesOn, putCount>>

TestInit ==
  /\ QueueInit
  /\ LatchInit
  /\ main = "construct"
  /\ worker = [w \in Workers |-> "none"]
  /\ goesOn = [w \in Workers |-> TRUE]
  /\ putCount = 0

(* Test(): starts one thread after the other. *)
StartWorker(w) ==
  /\ main = "construct"
  /\ worker[w] = "none"
  /\ worker' = [worker EXCEPT ![w] = "started"]
  /\ main' = IF \E v \in Workers \ {w} : worker[v] = "none" THEN main ELSE "run"
  /\ UNCHANGED <<queueVars, latchVars, goesOn, putCount>>

(* run(): latch_.wait() *)
MainWaits ==
  /\ main = "run"
  /\ WaitCall(Main)
  /\ main' = "waiting"
  /\ UNCHANGED <<queueVars, worker, goesOn, putCount>>

MainPasses ==
  /\ main = "waiting"
  /\ WaitReturn(Main)
  /\ main' = "put"
  /\ UNCHANGED <<queueVars, worker, goesOn, putCount>>

(* run(): the loop of puts, and its end *)
MainPuts ==
  /\ main = "put"
  /\ putCount < Len(Times)
  /\ Put(Main, Times[putCount + 1])
  /\ putCount' = putCount + 1
  /\ UNCHANGED <<latchVars, main, worker, goesOn>>

MainBeginsJoin ==
  /\ main = "put"
  /\ putCount = Len(Times)
  /\ main' = "stop"
  /\ putCount' = 0
  /\ UNCHANGED <<queueVars, latchVars, worker, goesOn>>

(* joinAll(): one "stop" per worker *)
MainStops ==
  /\ main = "stop"
  /\ Put(Main, Stop)
  /\ putCount' = putCount + 1
  /\ main' = IF putCount' = Cardinality(Workers) THEN "join" ELSE main
  /\ UNCHANGED <<latchVars, worker, goesOn>>

(* joinAll(): pthread_join() of each worker returns when all have ended. *)
MainJoins ==
  /\ main = "join"
  /\ main' = IF \A w \in Workers : worker[w] = "ended" THEN "joined" ELSE main
  /\ UNCHANGED <<queueVars, latchVars, worker, goesOn, putCount>>

(* threadFunc(): latch_.countDown() *)
WorkerCountsDown(w) ==
  /\ worker[w] = "started"
  /\ CountDown(w)
  /\ worker' = [worker EXCEPT ![w] = "loop"]
  /\ UNCHANGED <<queueVars, main, goesOn, putCount>>

(* threadFunc(): while (running), and the call of take() *)
WorkerLoops(w) ==
  /\ worker[w] = "loop"
  /\ IF goesOn[w]
       THEN TakeCall(w) /\ worker' = [worker EXCEPT ![w] = "taking"]
       ELSE worker' = [worker EXCEPT ![w] = "ended"] /\ UNCHANGED queueVars
  /\ UNCHANGED <<latchVars, main, goesOn, putCount>>

(* threadFunc(): take() returns the message, which is printed.  running is   *)
(* not looked at and not changed.                                            *)
WorkerGets(w) ==
  /\ worker[w] = "taking"
  /\ TakeReturn(w)
  /\ worker' = [worker EXCEPT ![w] = "loop"]
  /\ UNCHANGED <<latchVars, main, goesOn, putCount>>

(* The waits inside take() and wait(). *)
Sleeps(t) ==
  \/ TakeWait(t) /\ UNCHANGED latchVars
  \/ WaitSleep(t) /\ UNCHANGED queueVars

Wakes(t) ==
  \/ TakeWakesAlone(t) /\ UNCHANGED latchVars
  \/ WaitWakesAlone(t) /\ UNCHANGED queueVars

MainStep == MainWaits \/ MainPasses \/ MainPuts \/ MainBeginsJoin \/ MainStops \/ MainJoins

WorkerStep(w) == WorkerCountsDown(w) \/ WorkerLoops(w) \/ WorkerGets(w)

TestNext ==
  \/ MainStep
  \/ \E w \in Workers : StartWorker(w) \/ WorkerStep(w)
  \/ \E t \in QueueThreads :
       (Sleeps(t) \/ Wakes(t)) /\ UNCHANGED <<main, worker, goesOn, putCount>>

(* Every thread that can run is scheduled. *)
TestSpec ==
  /\ TestInit
  /\ [][TestNext]_testVars
  /\ WF_testVars(MainStep)
  /\ \A w \in Workers : WF_testVars(StartWorker(w)) /\ WF_testVars(WorkerStep(w))

-----------------------------------------------------------------------------
(* The queue works as a channel here too, and every message that is put is   *)
(* received as long as somebody asks: the fairness of FifoChannel follows    *)
(* from that of the threads, so one notify() per put() loses no wakeup.      *)
ImplementsChannel == Channel!ChanSpec

(* The latch does its work: no message is put before all workers have begun, *)
(* although main() may be woken by any of them or by nobody.                 *)
StartsTogether ==
  sent # <<>> => \A w \in Workers : worker[w] \notin {"none", "started"}

(* main() gets past the latch and puts all its messages, and they are taken. *)
AllTaken == <>(main = "join" /\ Len(received) = Len(Times) + Cardinality(Workers))

(* "stop" stops a worker (joinAll() puts one for each and joins them, and    *)
(* threadFunc() reports itself stopped after its loop): joinAll() returns.   *)
JoinAllReturns == main = "join" ~> main = "joined"

=============================================================================
