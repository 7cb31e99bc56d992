---------------------------- MODULE ThreadPoolTest ----------------------------
(***************************************************************************)
(* tests/ThreadPool_test.cpp: main() starts a pool, passes it its tasks    *)
(* one by one, the last one being countDown() on a latch, waits for the    *)
(* latch and stops the pool.  stop() drops what is queued; it is the latch *)
(* behind the last task that lets main() rely on its tasks.  Another       *)
(* thread shares the pool, so that main() is not alone in the queue.       *)
(*                                                                         *)
(* main() is the pool's Owner in start() and stop() and the client Main    *)
(* in run(); the latch is the component CountDownLatch.                    *)
(***************************************************************************)
EXTENDS ThreadPool, CountDownLatch, Functions

CONSTANTS
  Main,       \* main() as a caller of run()
  Script,     \* the tasks of main(), in order
  LatchTask   \* the one that is countDown()

ASSUME TestAssumption ==
  /\ Main \in Clients
  /\ Script \in Seq(Tasks) /\ Script # <<>> /\ Script[Len(Script)] = LatchTask
  /\ \A i \in 1..Len(Script) : Script[i] = LatchTask => i = Len(Script)
  /\ \A x \in Tasks : Nested[x] \notin Range(Script)
  /\ LatchThreads = Workers \cup {Owner}
  /\ LatchCount = 1

VARIABLE step    \* how many calls of run(), and then of wait(), main() has begun

testVars == <<vars, latchVars, step>>

TestInit == Init /\ LatchInit /\ step = 0

-----------------------------------------------------------------------------
MainStarts ==
  /\ \E n \in StartSizes : Start(n)
  /\ UNCHANGED <<latchVars, step>>

(* pool.run(...): the next task of the script. *)
MainRuns ==
  /\ pc[Owner] = "started"
  /\ step < Len(Script)
  /\ RunCall(Main, Script[step + 1])
  /\ step' = step + 1
  /\ UNCHANGED latchVars

(* latch.wait() *)
MainWaits ==
  /\ step = Len(Script)
  /\ pc[Main] = "idle"
  /\ WaitCall(Owner)
  /\ step' = step + 1
  /\ UNCHANGED vars

InsideWait ==
  /\ WaitSleep(Owner) \/ WaitReturn(Owner)
  /\ UNCHANGED <<vars, step>>

MainWakesAlone ==
  /\ WaitWakesAlone(Owner)
  /\ UNCHANGED <<vars, step>>

Waited == step > Len(Script) /\ waiter[Owner] = "out"

(* pool.stop() *)
MainStops ==
  /\ Waited
  /\ StopSection
  /\ UNCHANGED <<latchVars, step>>

(* The worker that has the latch task calls countDown(), after which the task *)
(* may return; until then main() and the others may have gone on.             *)
NotCounted == count = LatchCount

WorkerCounts(w) ==
  /\ pc[w] = "run" /\ cur[w] = LatchTask /\ NotCounted
  /\ CountDown(w)
  /\ UNCHANGED <<vars, step>>

WorkerMoves(w) ==
  /\ WorkerStep(w)
  /\ LatchTask \in finished' \ finished => ~NotCounted
  /\ UNCHANGED <<latchVars, step>>

OtherRuns ==
  /\ \E c \in Clients \ {Main}, x \in Tasks \ Range(Script) : RunInCaller(c, x) \/ RunCall(c, x)
  /\ UNCHANGED <<latchVars, step>>

PoolGoesOn ==
  /\ OwnerGoesOn \/ \E t \in Putters : PutStep(t) \/ Sleep(t) \/ SpuriousWakeup(t)
  /\ UNCHANGED <<latchVars, step>>

TestTerminated == Terminated /\ UNCHANGED <<latchVars, step>>

TestNext ==
  \/ ~aborted /\ \/ MainStarts \/ MainRuns \/ MainWaits \/ InsideWait \/ MainWakesAlone \/ MainStops
                 \/ \E w \in Workers : WorkerMoves(w) \/ WorkerCounts(w)
                 \/ OtherRuns \/ PoolGoesOn
  \/ TestTerminated

(* The threads run when they can; main() may stay away from its next call, as *)
(* any user of the pool may, but not inside wait().                           *)
TestSpec ==
  /\ TestInit /\ [][TestNext]_testVars /\ Fairness
  /\ WF_testVars(InsideWait) /\ \A w \in Workers : WF_testVars(~aborted /\ WorkerCounts(w))

-----------------------------------------------------------------------------
(* The latch task is accepted last and counts down when it is executed, so    *)
(* that when wait() returns every task of the script has been begun, by       *)
(* whichever worker, and when stop() returns every one has finished: none is  *)
(* among those stop() drops.                                                  *)
DoneAtLatch ==
  /\ Waited => Range(Script) \subseteq Range(begun)
  /\ pc[Owner] = "stopped" => Range(Script) \subseteq finished

(* main() gets out of wait(), whatever the other thread puts into the queue. *)
LatchOpens == (step > Len(Script)) ~> Waited

=============================================================================
