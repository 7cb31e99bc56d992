-------------------------------- MODULE Monitor --------------------------------
(***************************************************************************)
(* base/Mutex.h and base/Condition.{h,cc}: a pthread mutex together with   *)
(* holder_, the thread id that assertLocked() looks at, and one condition. *)
(* holder_ is written before the mutex is released and after it has been   *)
(* obtained, in lock(), unlock() and around both kinds of wait; each write *)
(* is a step of its own.  The modules that use a monitor take its critical *)
(* sections as one step; this module is why they may.                      *)
(***************************************************************************)
EXTENDS FiniteSets

CONSTANTS
  Threads,  \* the threads that use the monitor
  Nobody    \* no thread; holder_ = 0

ASSUME MonitorAssumption == Nobody \notin Threads

VARIABLES
  owner,      \* external: the thread that owns the pthread mutex
  holder,     \* holder_
  sleepers,   \* external: the threads asleep at the condition
  pc,         \* where each thread is
  timed,      \* timed[t]: the wait t is in is a waitForSeconds()
  timedOut    \* timedOut[t]: the result of the last waitForSeconds() of t

vars == <<owner, holder, sleepers, pc, timed, timedOut>>

Goto(t, place) == pc' = [pc EXCEPT ![t] = place]

Init ==
  /\ owner = Nobody /\ holder = Nobody /\ sleepers = {}
  /\ pc = [t \in Threads |-> "out"]
  /\ timed = [t \in Threads |-> FALSE]
  /\ timedOut = [t \in Threads |-> FALSE]

-----------------------------------------------------------------------------
(* lock(): pthread_mutex_lock() *)
Lock(t) ==
  /\ pc[t] = "out"
  /\ owner = Nobody
  /\ owner' = t
  /\ Goto(t, "assign")
  /\ UNCHANGED <<holder, sleepers, timed, timedOut>>

(* lock(): assignHolder(); and the destructor of UnassignGuard. *)
AssignHolder(t) ==
  /\ pc[t] = "assign"
  /\ holder' = t
  /\ Goto(t, "inside")
  /\ UNCHANGED <<owner, sleepers, timed, timedOut>>

(* Mutant of UnassignHolder: the mutex is released first. *)
UnassignHolder_Later(t) ==
  /\ pc[t] = "inside"
  /\ owner' = Nobody
  /\ Goto(t, "unlock")
  /\ UNCHANGED <<holder, sleepers, timed, timedOut>>

(* unlock(): unassignHolder() *)
UnassignHolder(t) ==
  /\ pc[t] = "inside"
  /\ holder' = Nobody
  /\ Goto(t, "unlock")
  /\ UNCHANGED <<owner, sleepers, timed, timedOut>>

(* unlock(): pthread_mutex_unlock() *)
Unlock(t) ==
  /\ pc[t] = "unlock"
  /\ owner' = Nobody
  /\ Goto(t, "out")
  /\ UNCHANGED <<holder, sleepers, timed, timedOut>>

(* wait() and waitForSeconds(): the constructor of UnassignGuard. *)
WaitUnassigns(t, seconds) ==
  /\ pc[t] = "inside"
  /\ holder' = Nobody
  /\ timed' = [timed EXCEPT ![t] = seconds]
  /\ Goto(t, "wait")
  /\ UNCHANGED <<owner, sleepers, timedOut>>

(* pthread_cond_wait(): the mutex is released and the thread sleeps, at once. *)
WaitSleeps(t) ==
  /\ pc[t] = "wait"
  /\ owner' = Nobody
  /\ sleepers' = sleepers \cup {t}
  /\ Goto(t, "asleep")
  /\ UNCHANGED <<holder, timed, timedOut>>

(* notify(): pthread_cond_signal() wakes a sleeper, if there is one.  The     *)
(* caller need not hold the mutex.                                            *)
Signals(t) ==
  /\ pc[t] \in {"out", "inside"}
  /\ \/ sleepers = {} /\ UNCHANGED <<sleepers, pc, timedOut>>
     \/ \E s \in sleepers :
          /\ sleepers' = sleepers \ {s}
          /\ timedOut' = [timedOut EXCEPT ![s] = FALSE]
          /\ Goto(s, "woken")
  /\ UNCHANGED <<owner, holder, timed>>

(* notifyAll(): pthread_cond_broadcast() *)
Broadcasts(t) ==
  /\ pc[t] \in {"out", "inside"}
  /\ sleepers' = {}
  /\ timedOut' = [s \in Threads |-> IF s \in sleepers THEN FALSE ELSE timedOut[s]]
  /\ pc' = [s \in Threads |-> IF s \in sleepers THEN "woken" ELSE pc[s]]
  /\ UNCHANGED <<owner, holder, timed>>

(* The wait ends without a signal: for no reason, or because its time is over. *)
WaitEnds(t) ==
  /\ t \in sleepers
  /\ sleepers' = sleepers \ {t}
  /\ \/ timedOut' = [timedOut EXCEPT ![t] = FALSE]
     \/ timed[t] /\ timedOut' = [timedOut EXCEPT ![t] = TRUE]
  /\ Goto(t, "woken")
  /\ UNCHANGED <<owner, holder, timed>>

(* Mutant of WaitLocks: holder_ is not assigned again after the wait. *)
WaitLocks_NoAssign(t) ==
  /\ pc[t] = "woken"
  /\ owner = Nobody
  /\ owner' = t
  /\ Goto(t, "inside")
  /\ UNCHANGED <<holder, sleepers, timed, timedOut>>

(* pthread_cond_wait() returns with the mutex, signalled or timed out. *)
WaitLocks(t) ==
  /\ pc[t] = "woken"
  /\ owner = Nobody
  /\ owner' = t
  /\ Goto(t, "assign")
  /\ UNCHANGED <<holder, sleepers, timed, timedOut>>

Next ==
  \E t \in Threads :
    \/ Lock(t) \/ AssignHolder(t) \/ UnassignHolder(t) \/ Unlock(t)
    \/ \E seconds \in BOOLEAN : WaitUnassigns(t, seconds)
    \/ WaitSleeps(t) \/ WaitEnds(t) \/ WaitLocks(t)
    \/ Signals(t) \/ Broadcasts(t)

Spec == Init /\ [][Next]_vars

-----------------------------------------------------------------------------
(* Where a thread owns the pthread mutex. *)
OwnerPlaces == {"assign", "inside", "unlock", "wait"}

TypeOK ==
  /\ owner \in Threads \cup {Nobody}
  /\ holder \in Threads \cup {Nobody}
  /\ sleepers \subseteq Threads
  /\ pc \in [Threads -> OwnerPlaces \cup {"out", "asleep", "woken"}]
  /\ timed \in [Threads -> BOOLEAN]
  /\ timedOut \in [Threads -> BOOLEAN]

(* isLockedByThisThread() reads holder_ without any lock; still it is true    *)
(* for no thread that does not own the mutex, so assertLocked() never passes  *)
(* by accident, at any moment of lock(), unlock() and the waits.              *)
HolderOwns == holder # Nobody => owner = holder

(* In its critical section a thread finds itself in holder_, also after a     *)
(* wait during which others have been there: assertLocked() never fails where *)
(* the mutex is held.                                                         *)
HeldInside == \A t \in Threads : pc[t] = "inside" => holder = t

=============================================================================
