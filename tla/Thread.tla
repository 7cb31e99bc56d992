-------------------------------- MODULE Thread --------------------------------
(***************************************************************************)
(* base/Thread.{h,cc} and the counter of base/Atomic.h: the life of Thread *)
(* objects and of the pthreads they start.  An object may be destroyed     *)
(* before, while or after its thread runs, so the two share only tid_,     *)
(* which the thread reaches through a weak_ptr, and a ThreadData that the  *)
(* thread deletes itself.  An object starts at most one thread, so the     *)
(* thread goes by the name of its object.                                  *)
(***************************************************************************)
EXTENDS Naturals

CONSTANT Objects  \* the Thread objects of one behaviour

VARIABLES
  numCreated,  \* numCreated_
  ticket,      \* ticket[o]: what getAndAdd() gave the constructor of o
  number,      \* number[o]: the number in the default name of o, or 0
  object,      \* object[o]: "none", "counted", "made", "started", "joining", "joined", "dead"
  tid,         \* tid[o]: *tid_ is set
  held,        \* held[o]: the thread holds a reference to tid_ (ptid)
  freed,       \* freed[o]: tid_ has been deleted
  thread,      \* thread[o]: "none", "begin", "write", "name", "run", "return", "deleted", "ended"
  name,        \* name[o]: what t_threadName of the thread points to
  releases,    \* releases[o]: how often the pthread was joined or detached
  aborted      \* abort() was called

counters == <<numCreated, ticket, number>>
shared   == <<tid, held, freed>>
vars == <<counters, object, shared, thread, name, releases, aborted>>

Set(f, o, value) == [f EXCEPT ![o] = value]

Init ==
  /\ numCreated = 0
  /\ ticket = [o \in Objects |-> 0]
  /\ number = [o \in Objects |-> 0]
  /\ object = [o \in Objects |-> "none"]
  /\ tid = [o \in Objects |-> FALSE]
  /\ held = [o \in Objects |-> FALSE]
  /\ freed = [o \in Objects |-> FALSE]
  /\ thread = [o \in Objects |-> "none"]
  /\ name = [o \in Objects |-> "unknown"]
  /\ releases = [o \in Objects |-> 0]
  /\ aborted = FALSE

-----------------------------------------------------------------------------
(* Thread(): getAndAdd(1), the atomic part of incrementAndGet(). *)
Count(o) ==
  /\ object[o] = "none"
  /\ ticket' = Set(ticket, o, numCreated)
  /\ numCreated' = numCreated + 1
  /\ object' = Set(object, o, "counted")
  /\ UNCHANGED <<number, shared, thread, name, releases, aborted>>

(* Mutant of NumberOf: the counter is read again after it was incremented. *)
NumberOf_ReadsAgain(o) == numCreated

(* incrementAndGet() *)
NumberOf(o) == ticket[o] + 1

(* Thread(): the rest of incrementAndGet() and of setDefaultName(). *)
Construct(o) ==
  /\ object[o] = "counted"
  /\ number' = Set(number, o, NumberOf(o))
  /\ object' = Set(object, o, "made")
  /\ UNCHANGED <<numCreated, ticket, shared, thread, name, releases, aborted>>

(* start(): the new thread owns its ThreadData. *)
Start(o) ==
  /\ object[o] = "made"
  /\ object' = Set(object, o, "started")
  /\ thread' = Set(thread, o, "begin")
  /\ UNCHANGED <<counters, shared, name, releases, aborted>>

(* start(): pthread_create() fails, and LOG_SYSFATAL ends the process. *)
StartFails(o) ==
  /\ object[o] = "made"
  /\ aborted' = TRUE
  /\ UNCHANGED <<counters, object, shared, thread, name, releases>>

(* join() up to pthread_join(), and its return *)
Join(o) ==
  /\ object[o] = "started"
  /\ object' = Set(object, o, "joining")
  /\ UNCHANGED <<counters, shared, thread, name, releases, aborted>>

JoinReturn(o) ==
  /\ object[o] = "joining"
  /\ thread[o] = "ended"
  /\ object' = Set(object, o, "joined")
  /\ releases' = Set(releases, o, releases[o] + 1)
  /\ UNCHANGED <<counters, shared, thread, name, aborted>>

(* Mutant of Detaches: joined_ is not looked at. *)
Detaches_AlsoJoined(o) == object[o] # "made"

(* ~Thread(): started_ && !joined_ *)
Detaches(o) == object[o] = "started"

(* ~Thread(): a thread that was started and not joined is detached, and the   *)
(* object's reference to tid_ goes away.                                      *)
Destroy(o) ==
  /\ object[o] \in {"made", "started", "joined"}
  /\ object' = Set(object, o, "dead")
  /\ releases' = Set(releases, o, releases[o] + IF Detaches(o) THEN 1 ELSE 0)
  /\ freed' = Set(freed, o, freed[o] \/ ~held[o])
  /\ UNCHANGED <<counters, tid, held, thread, name, aborted>>

-----------------------------------------------------------------------------
(* Mutant of Holds: a plain pointer in place of the shared_ptr ptid. *)
Holds_Plain(o) == FALSE

(* lock() gives a reference unless the object is gone. *)
Holds(o) == ~freed[o]

(* runInThread(): wkTid_.lock() *)
LockTid(o) ==
  /\ thread[o] = "begin"
  /\ held' = Set(held, o, Holds(o))
  /\ thread' = Set(thread, o, IF freed[o] THEN "name" ELSE "write")
  /\ UNCHANGED <<counters, object, tid, freed, name, releases, aborted>>

(* runInThread(): *ptid = tid and ptid.reset(), which may be the last one. *)
WriteTid(o) ==
  /\ thread[o] = "write"
  /\ tid' = Set(tid, o, TRUE)
  /\ held' = Set(held, o, FALSE)
  /\ freed' = IF object[o] = "dead" THEN Set(freed, o, TRUE) ELSE freed
  /\ thread' = Set(thread, o, "name")
  /\ UNCHANGED <<counters, object, name, releases, aborted>>

(* runInThread(): the name of the thread is in its ThreadData. *)
SetName(o) ==
  /\ thread[o] = "name"
  /\ name' = Set(name, o, "data")
  /\ thread' = Set(thread, o, "run")
  /\ UNCHANGED <<counters, object, shared, releases, aborted>>

(* func_() returns. *)
FuncReturns(o) ==
  /\ thread[o] = "run"
  /\ name' = Set(name, o, "finished")
  /\ thread' = Set(thread, o, "return")
  /\ UNCHANGED <<counters, object, shared, releases, aborted>>

(* func_() throws: abort(), at once or in std::terminate(). *)
FuncThrows(o) ==
  /\ thread[o] = "run"
  /\ name' = Set(name, o, "crashed")
  /\ aborted' = TRUE
  /\ UNCHANGED <<counters, object, shared, thread, releases>>

(* startThread(): delete data.  The destructors of thread-specific data run   *)
(* before the thread has ended, and may log the name of the thread.           *)
DeleteData(o) ==
  /\ thread[o] = "return"
  /\ thread' = Set(thread, o, "deleted")
  /\ UNCHANGED <<counters, object, shared, name, releases, aborted>>

ThreadEnds(o) ==
  /\ thread[o] = "deleted"
  /\ thread' = Set(thread, o, "ended")
  /\ UNCHANGED <<counters, object, shared, name, releases, aborted>>

ObjectStep(o) ==
  \/ Count(o) \/ Construct(o) \/ Start(o) \/ StartFails(o)
  \/ Join(o) \/ JoinReturn(o) \/ Destroy(o)

ThreadStep(o) ==
  \/ LockTid(o) \/ WriteTid(o) \/ SetName(o)
  \/ FuncReturns(o) \/ FuncThrows(o) \/ DeleteData(o) \/ ThreadEnds(o)

Next == ~aborted /\ \E o \in Objects : ObjectStep(o) \/ ThreadStep(o)

Spec == Init /\ [][Next]_vars

-----------------------------------------------------------------------------
ObjectStates == {"none", "counted", "made", "started", "joining", "joined", "dead"}
ThreadStates == {"none", "begin", "write", "name", "run", "return", "deleted", "ended"}

TypeOK ==
  /\ numCreated \in Nat
  /\ ticket \in [Objects -> Nat] /\ number \in [Objects -> Nat]
  /\ object \in [Objects -> ObjectStates]
  /\ thread \in [Objects -> ThreadStates]
  /\ tid \in [Objects -> BOOLEAN] /\ held \in [Objects -> BOOLEAN] /\ freed \in [Objects -> BOOLEAN]
  /\ name \in [Objects -> {"unknown", "data", "finished", "crashed"}]
  /\ releases \in [Objects -> Nat]
  /\ aborted \in BOOLEAN

(* Objects that several threads construct at once get different default names. *)
UniqueNames ==
  \A o, p \in Objects : number[o] = number[p] /\ number[o] # 0 => o = p

(* The thread writes its id to tid_ only while tid_ is there, although the    *)
(* object may be destroyed at any moment before; and tid_ is deleted once     *)
(* both are through with it.                                                  *)
TidOutlivesWrite ==
  \A o \in Objects :
    /\ thread[o] = "write" => ~freed[o]
    /\ object[o] = "dead" /\ thread[o] # "write" => freed[o]

(* Every thread that was started is joined or detached, and never both, when  *)
(* its object is gone, whatever order start(), join(), the destructor and the *)
(* end of the thread come in.                                                 *)
ReleasedOnce ==
  \A o \in Objects :
    releases[o] = IF \/ object[o] = "joined"
                     \/ object[o] = "dead" /\ thread[o] # "none" THEN 1 ELSE 0

=============================================================================
