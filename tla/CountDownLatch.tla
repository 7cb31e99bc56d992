---------------------------- MODULE CountDownLatch ----------------------------
(***************************************************************************)
(* base/CountDownLatch.{h,cc}: wait() returns when countDown() has been    *)
(* called count_ times.  Both are one critical section each, as in         *)
(* BlockingQueue.  countDown() does not stop at zero.                      *)
(***************************************************************************)
EXTENDS Integers, Condition

CONSTANTS
  LatchThreads,  \* the threads that call wait() and countDown()
  LatchCount     \* the argument of the constructor

ASSUME LatchAssumption == LatchCount \in Int

VARIABLES
  count,   \* count_
  waiter   \* waiter[t]: "out" of wait(), at its "test", or "asleep" in it

latchVars == <<count, waiter>>

LatchInit ==
  /\ count = LatchCount
  /\ waiter = [t \in LatchThreads |-> "out"]

(* wait() up to its lock *)
WaitCall(t) ==
  /\ waiter[t] = "out"
  /\ waiter' = [waiter EXCEPT ![t] = "test"]
  /\ UNCHANGED count

(* wait(): while (count_ > 0) condition_.wait() *)
WaitSleep(t) ==
  /\ waiter[t] = "test"
  /\ count > 0
  /\ waiter' = [waiter EXCEPT ![t] = "asleep"]
  /\ UNCHANGED count

(* Mutant of WaitReturn: if in place of while. *)
WaitReturn_AfterAnyWakeup(t) ==
  /\ waiter[t] = "test"
  /\ waiter' = [waiter EXCEPT ![t] = "out"]
  /\ UNCHANGED count

WaitReturn(t) ==
  /\ waiter[t] = "test"
  /\ count <= 0
  /\ waiter' = [waiter EXCEPT ![t] = "out"]
  /\ UNCHANGED count

(* Mutant of CountDown: the count is compared before it is decremented. *)
CountDown_TestsFirst(t) ==
  /\ waiter[t] = "out"
  /\ count' = count - 1
  /\ waiter' = IF count = 0 THEN NotifyAll(waiter, "asleep", "test") ELSE waiter

(* countDown() *)
CountDown(t) ==
  /\ waiter[t] = "out"
  /\ count' = count - 1
  /\ waiter' = IF count' = 0 THEN NotifyAll(waiter, "asleep", "test") ELSE waiter

WaitWakesAlone(t) ==
  /\ waiter[t] = "asleep"
  /\ waiter' = [waiter EXCEPT ![t] = "test"]
  /\ UNCHANGED count

LatchNext ==
  \E t \in LatchThreads :
    WaitCall(t) \/ WaitSleep(t) \/ WaitReturn(t) \/ CountDown(t) \/ WaitWakesAlone(t)

LatchSpec == LatchInit /\ [][LatchNext]_latchVars

-----------------------------------------------------------------------------
LatchTypeOK ==
  /\ count \in Int
  /\ waiter \in [LatchThreads -> {"out", "test", "asleep"}]

(* The broadcast is sent only when count_ is exactly 0 and never again as it  *)
(* goes on to negative values; still nobody sleeps behind an open latch.      *)
NoSleeperBehindOpenLatch ==
  count <= 0 => \A t \in LatchThreads : waiter[t] # "asleep"

(* wait() returns to nobody before the last countDown(), whatever wakes it.   *)
LatchHolds ==
  [][\A t \in LatchThreads : waiter[t] # "out" /\ waiter'[t] = "out" => count <= 0]_latchVars

=============================================================================
