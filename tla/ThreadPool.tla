------------------------------ MODULE ThreadPool ------------------------------
(***************************************************************************)
(* base/ThreadPool.{h,cc}: a fixed set of worker threads that take tasks   *)
(* from one deque, which is bounded when maxQueueSize_ > 0.  One mutex and *)
(* two condition variables, notEmpty_ and notFull_, order everything but   *)
(* the worker's unlocked read of running_ at the head of its loop.         *)
(*                                                                         *)
(* Granularity.  A critical section that runs from lock() to unlock() is   *)
(* one step that needs the mutex free.  A critical section that ends in    *)
(* Condition::wait() is two steps: the test of the while condition, after  *)
(* which the thread still owns the mutex, and the sleep, which releases it *)
(* (pthread_cond_wait releases and enqueues atomically).  The window       *)
(* between the two is the one the comment in stop() is about.              *)
(* A woken thread goes back to the test: it must get the mutex again and   *)
(* another thread may be faster.                                           *)
(***************************************************************************)
EXTENDS Naturals, Sequences, FiniteSets, Condition

CONSTANTS
  N,             \* the largest pool; the workers are 1..N, in the order of threads_
  StartSizes,    \* the values start() may be called with
  Clients,       \* threads outside the pool that call run()
  Owner,         \* the thread that calls start() and stop()
  Tasks,         \* the tasks, each submitted at most once
  Nested,        \* Nested[x]: the task that task x submits with run() (one level), or NoTask
  Faulty,        \* the tasks that throw
  MaxQueueSize,  \* maxQueueSize_; 0 means unbounded
  MaxSpurious,   \* bound on the number of spurious wakeups of one behaviour
  Nobody,        \* the mutex is free
  NoTask         \* the empty std::function

Workers == 1..N
Threads == Workers \cup Clients \cup {Owner}
Putters == Workers \cup Clients

ASSUME PoolAssumption ==
  /\ N \in Nat
  /\ StartSizes \subseteq 0..N
  /\ Clients \cap Workers = {}
  /\ Owner \notin Workers \cup Clients
  /\ Nobody \notin Threads
  /\ NoTask \notin Tasks
  /\ Nested \in [Tasks -> Tasks \cup {NoTask}]
  /\ \A x, y \in Tasks : Nested[x] = Nested[y] /\ Nested[x] # NoTask => x = y
  /\ \A x \in Tasks : Nested[x] # NoTask => Nested[Nested[x]] = NoTask
  /\ Faulty \subseteq Tasks
  /\ MaxQueueSize \in Nat
  /\ MaxSpurious \in Nat
  /\ IsFiniteSet(Clients)

VARIABLES
  running,    \* running_
  queue,      \* queue_
  want,       \* numThreads, the argument of start()
  created,    \* threads_.size()
  joined,     \* how many elements of threads_ stop() has joined
  mutex,      \* the thread inside the window before Condition::wait(), or Nobody
  pc,         \* where each thread is
  arg,        \* the argument of the run() call a thread is in, or NoTask
  cur,        \* the task each worker executes, or NoTask
  aborted,    \* abort() was called
  spurious,   \* the spurious wakeups so far
  submitted,  \* history: the tasks some thread has passed to run()
  accepted,   \* history: the tasks pushed to queue_, in order
  begun,      \* history: the tasks taken from queue_, in order
  finished,   \* history: the tasks that have returned
  late        \* history: how many tasks each worker took after stop()

threadsVars == <<want, created, joined>>
poolVars == <<running, queue, threadsVars, aborted>>
history  == <<submitted, accepted, begun, finished, late>>
vars == <<poolVars, mutex, pc, arg, cur, spurious, history>>

-----------------------------------------------------------------------------
(* Mutant of IsFull: one task too many is let in. *)
IsFull_OffByOne == MaxQueueSize > 0 /\ Len(queue) > MaxQueueSize

(* isFull(): the bound, when there is one, is reached. *)
IsFull == MaxQueueSize > 0 /\ Len(queue) >= MaxQueueSize

Waiting(place) == {t \in Threads : pc[t] = place}

Goes(t, place) == pc' = [pc EXCEPT ![t] = place]

Init ==
  /\ running = FALSE
  /\ queue = <<>>
  /\ want = 0 /\ created = 0 /\ joined = 0
  /\ mutex = Nobody
  /\ pc = [t \in Threads |-> IF t = Owner THEN "new" ELSE IF t \in Clients THEN "idle" ELSE "none"]
  /\ arg = [t \in Putters |-> NoTask]
  /\ cur = [w \in Workers |-> NoTask]
  /\ aborted = FALSE
  /\ spurious = 0
  /\ submitted = {} /\ accepted = <<>> /\ begun = <<>> /\ finished = {}
  /\ late = [w \in Workers |-> 0]

-----------------------------------------------------------------------------
(* start(numThreads) up to the loop: running_ is set before any thread exists. *)
Start(n) ==
  /\ pc[Owner] = "new"
  /\ running' = TRUE
  /\ want' = n
  /\ Goes(Owner, "starting")
  /\ UNCHANGED <<queue, created, joined, aborted, mutex, arg, cur, spurious, history>>

(* One turn of the loop of start(): the Thread is pushed and started; from   *)
(* here on the new worker interleaves with the rest of the loop.             *)
StartThread ==
  /\ pc[Owner] = "starting"
  /\ created < want
  /\ created' = created + 1
  /\ Goes(created + 1, "init")
  /\ UNCHANGED <<running, queue, want, joined, aborted, mutex, arg, cur, spurious, history>>

StartReturn ==
  /\ pc[Owner] = "starting"
  /\ created = want
  /\ Goes(Owner, "started")
  /\ UNCHANGED <<poolVars, mutex, arg, cur, spurious, history>>

-----------------------------------------------------------------------------
(* runInThread(): threadInitCallback_, before the worker looks at running_. *)
ThreadInit(w) ==
  /\ pc[w] = "init"
  /\ Goes(w, "loop")
  /\ UNCHANGED <<poolVars, mutex, arg, cur, spurious, history>>

(* Mutant of GoesOn: a stopped worker goes on while there is work. *)
GoesOn_Drains == running \/ queue # <<>>

(* while (running_), read without the mutex. *)
GoesOn == running

LoopTest(w) ==
  /\ pc[w] = "loop"
  /\ Goes(w, IF GoesOn THEN "take" ELSE "exit")
  /\ UNCHANGED <<poolVars, mutex, arg, cur, spurious, history>>

(* take(): nothing to do and the pool runs; the worker still owns the mutex. *)
TakeBlock(w) ==
  /\ pc[w] = "take"
  /\ mutex = Nobody
  /\ queue = <<>> /\ running
  /\ mutex' = w
  /\ Goes(w, "sleepE")
  /\ UNCHANGED <<poolVars, arg, cur, spurious, history>>

(* Mutant of PopSignals: only when the queue was full. *)
PopSignals_WhenFull == IsFull

(* Producers are told of the free place of a bounded queue. *)
PopSignals == MaxQueueSize > 0

(* take(): the head of the queue; a bounded queue has room for one more. *)
TakeTask(w) ==
  /\ pc[w] = "take"
  /\ mutex = Nobody
  /\ queue # <<>>
  /\ queue' = Tail(queue)
  /\ cur' = [cur EXCEPT ![w] = Head(queue)]
  /\ begun' = Append(begun, Head(queue))
  /\ late' = [late EXCEPT ![w] = IF running THEN @ ELSE @ + 1]
  /\ LET p == [pc EXCEPT ![w] = "run"]
     IN pc' \in IF PopSignals THEN Notify(p, "waitF", "put") ELSE {p}
  /\ UNCHANGED <<running, threadsVars, aborted, mutex, arg, spurious, submitted, accepted, finished>>

(* take() returns the empty task: the pool has been stopped. *)
TakeNothing(w) ==
  /\ pc[w] = "take"
  /\ mutex = Nobody
  /\ queue = <<>> /\ ~running
  /\ Goes(w, "loop")
  /\ UNCHANGED <<poolVars, mutex, arg, cur, spurious, history>>

(* task() throws: runInThread() reports and calls abort(), or rethrows to    *)
(* Thread, which ends the process all the same.                              *)
TaskThrows(w) ==
  /\ pc[w] = "run"
  /\ cur[w] \in Faulty
  /\ aborted' = TRUE
  /\ UNCHANGED <<running, queue, threadsVars, mutex, pc, arg, cur, spurious, history>>

(* task() calls run() on the pool that executes it. *)
TaskSubmits(w) ==
  /\ pc[w] = "run"
  /\ cur[w] \notin Faulty
  /\ Nested[cur[w]] \notin submitted \cup {NoTask}
  /\ arg' = [arg EXCEPT ![w] = Nested[cur[w]]]
  /\ submitted' = submitted \cup {Nested[cur[w]]}
  /\ Goes(w, "put")
  /\ UNCHANGED <<poolVars, mutex, cur, spurious, accepted, begun, finished, late>>

(* task() returns. *)
TaskReturns(w) ==
  /\ pc[w] = "run"
  /\ cur[w] \notin Faulty
  /\ Nested[cur[w]] \in submitted \cup {NoTask}
  /\ finished' = finished \cup {cur[w]}
  /\ cur' = [cur EXCEPT ![w] = NoTask]
  /\ Goes(w, "loop")
  /\ UNCHANGED <<poolVars, mutex, arg, spurious, submitted, accepted, begun, late>>

-----------------------------------------------------------------------------
(* A client may call run() at any time.  Bound: the tasks that are run in     *)
(* the caller before start() has returned neither throw nor submit.          *)
MayRun(c, x) ==
  /\ pc[c] = "idle"
  /\ x \notin submitted
  /\ \A y \in Tasks : Nested[y] # x
  /\ pc[Owner] \in {"new", "starting"} => Nested[x] = NoTask /\ x \notin Faulty

(* run() of a pool without threads: the caller executes the task, and the    *)
(* task it submits.  threads_.empty() is read without the mutex: while start()*)
(* pushes its first Thread the read races with it and may go either way.  A   *)
(* task that throws here throws at the caller, who is outside this model.     *)
RunInCaller(c, x) ==
  /\ MayRun(c, x)
  /\ created = 0
  /\ {x, Nested[x]} \cap Faulty = {}
  /\ submitted' = submitted \cup ({x, Nested[x]} \ {NoTask})
  /\ finished' = finished \cup ({x, Nested[x]} \ {NoTask})
  /\ UNCHANGED <<poolVars, mutex, pc, arg, cur, spurious, accepted, begun, late>>

(* run() of a pool with threads, up to the mutex. *)
RunCall(c, x) ==
  /\ MayRun(c, x)
  /\ created > 0 \/ (pc[Owner] = "starting" /\ want > 0)
  /\ arg' = [arg EXCEPT ![c] = x]
  /\ submitted' = submitted \cup {x}
  /\ Goes(c, "put")
  /\ UNCHANGED <<poolVars, mutex, cur, spurious, accepted, begun, finished, late>>

(* run(): while (isFull()); the caller still owns the mutex. *)
PutBlock(t) ==
  /\ pc[t] = "put"
  /\ mutex = Nobody
  /\ IsFull
  /\ mutex' = t
  /\ Goes(t, "sleepF")
  /\ UNCHANGED <<poolVars, arg, cur, spurious, history>>

(* Mutants of WakeWorker: a worker is notified only when the queue was empty;*)
(* the wrong condition is notified.                                          *)
WakeWorker_WhenEmpty(p) == IF queue = <<>> THEN Notify(p, "waitE", "take") ELSE {p}
WakeWorker_WrongOne(p) == Notify(p, "waitF", "put")

(* notEmpty_.notify() *)
WakeWorker(p) == Notify(p, "waitE", "take")

(* run(): push_back and notify.  A worker goes on with the task it is in. *)
PutPush(t) ==
  /\ pc[t] = "put"
  /\ mutex = Nobody
  /\ ~IsFull
  /\ queue' = Append(queue, arg[t])
  /\ accepted' = Append(accepted, arg[t])
  /\ arg' = [arg EXCEPT ![t] = NoTask]
  /\ pc' \in WakeWorker([pc EXCEPT ![t] = IF t \in Workers THEN "run" ELSE "idle"])
  /\ UNCHANGED <<running, threadsVars, aborted, mutex, cur, spurious,
                 submitted, begun, finished, late>>

-----------------------------------------------------------------------------
(* Condition::wait(): pthread_cond_wait releases the mutex and sleeps. *)
Sleep(t) ==
  /\ mutex = t
  /\ mutex' = Nobody
  /\ \/ pc[t] = "sleepE" /\ Goes(t, "waitE")
     \/ pc[t] = "sleepF" /\ Goes(t, "waitF")
  /\ UNCHANGED <<poolVars, arg, cur, spurious, history>>

(* pthread_cond_wait may return without a signal. *)
SpuriousWakeup(t) ==
  /\ spurious < MaxSpurious
  /\ spurious' = spurious + 1
  /\ \/ pc[t] = "waitE" /\ Goes(t, "take")
     \/ pc[t] = "waitF" /\ Goes(t, "put")
  /\ UNCHANGED <<poolVars, mutex, arg, cur, history>>

-----------------------------------------------------------------------------
(* stop(), called by the owner or by the destructor while running_ is set:   *)
(* the effect of the critical section but for its notifyAll().               *)
ClearRunning ==
  /\ pc[Owner] = "started"
  /\ running' = FALSE
  /\ UNCHANGED <<queue, threadsVars, aborted, mutex, arg, cur, spurious, history>>

(* Mutants of StopSection: running_ is cleared without the mutex; only one    *)
(* worker is woken.                                                          *)
StopSection_Unlocked ==
  ClearRunning /\ pc' = NotifyAll([pc EXCEPT ![Owner] = "join"], "waitE", "take")

StopSection_NotifiesOne ==
  ClearRunning /\ mutex = Nobody /\ pc' \in Notify([pc EXCEPT ![Owner] = "join"], "waitE", "take")

(* stop(): the critical section, with its notifyAll() on notEmpty_. *)
StopSection ==
  ClearRunning /\ mutex = Nobody /\ pc' = NotifyAll([pc EXCEPT ![Owner] = "join"], "waitE", "take")

(* Mutant of Ended: the threads are detached. *)
Ended_Detached(w) == TRUE

(* pthread_join returns when the thread has. *)
Ended(w) == pc[w] = "exit"

(* stop(): join the threads one after the other. *)
JoinThread ==
  /\ pc[Owner] = "join"
  /\ joined < created
  /\ Ended(joined + 1)
  /\ joined' = joined + 1
  /\ UNCHANGED <<running, queue, want, created, aborted, mutex, pc, arg, cur, spurious, history>>

StopReturn ==
  /\ pc[Owner] = "join"
  /\ joined = created
  /\ Goes(Owner, "stopped")
  /\ UNCHANGED <<poolVars, mutex, arg, cur, spurious, history>>

-----------------------------------------------------------------------------
(* What the owner does inside start() and stop(). *)
OwnerGoesOn == StartThread \/ StartReturn \/ JoinThread \/ StopReturn

OwnerStep == (\E n \in StartSizes : Start(n)) \/ StopSection \/ OwnerGoesOn

WorkerStep(w) ==
  \/ ThreadInit(w) \/ LoopTest(w)
  \/ TakeBlock(w) \/ TakeTask(w) \/ TakeNothing(w)
  \/ TaskThrows(w) \/ TaskSubmits(w) \/ TaskReturns(w)

PutStep(t) == PutBlock(t) \/ PutPush(t)

(* After abort() nothing moves; after stop() the pool has nothing left to do. *)
Terminated ==
  /\ aborted \/ pc[Owner] = "stopped"
  /\ UNCHANGED vars

Step ==
  /\ ~aborted
  /\ \/ OwnerStep
     \/ \E w \in Workers : WorkerStep(w)
     \/ \E c \in Clients, x \in Tasks : RunInCaller(c, x) \/ RunCall(c, x)
     \/ \E t \in Putters : PutStep(t) \/ Sleep(t) \/ SpuriousWakeup(t)

Next == Step \/ Terminated

Spec == Init /\ [][Next]_vars

(* Every thread that can run is scheduled: the pool's threads, the callers    *)
(* inside run() and the owner inside start() and stop().  Nobody has to call  *)
(* run() or stop(), and no wakeup has to come without a signal.               *)
Fairness ==
  /\ \A w \in Workers : WF_vars(~aborted /\ WorkerStep(w))
  /\ \A t \in Putters : WF_vars(~aborted /\ (PutStep(t) \/ Sleep(t)))
  /\ WF_vars(~aborted /\ OwnerGoesOn)

FairSpec == Spec /\ Fairness

-----------------------------------------------------------------------------
(* The places of the three kinds of thread. *)
WorkerPlaces == {"none", "init", "loop", "take", "sleepE", "waitE", "run",
                 "put", "sleepF", "waitF", "exit"}
ClientPlaces == {"idle", "put", "sleepF", "waitF"}
OwnerPlaces  == {"new", "starting", "started", "join", "stopped"}

FlagsOK == running \in BOOLEAN /\ aborted \in BOOLEAN

DataOK ==
  /\ queue \in Seq(Tasks) /\ accepted \in Seq(Tasks) /\ begun \in Seq(Tasks)
  /\ submitted \subseteq Tasks /\ finished \subseteq Tasks
  /\ arg \in [Putters -> Tasks \cup {NoTask}]
  /\ cur \in [Workers -> Tasks \cup {NoTask}]
  /\ late \in [Workers -> Nat]
  /\ spurious \in 0..MaxSpurious

(* start() makes as many threads as it was asked for, stop() joins those. *)
PlacesOK ==
  /\ want \in 0..N /\ created \in 0..want /\ joined \in 0..created
  /\ DOMAIN pc = Threads
  /\ \A w \in Workers : pc[w] \in WorkerPlaces /\ (pc[w] # "none" <=> w <= created)
  /\ \A c \in Clients : pc[c] \in ClientPlaces
  /\ pc[Owner] \in OwnerPlaces /\ (pc[Owner] = "new" => want = 0)

(* The mutex is owned visibly exactly in the window before Condition::wait(), *)
(* an argument lives as long as the run() call, a task until it has returned. *)
OwnershipOK ==
  /\ mutex \in Putters \cup {Nobody}
  /\ \A t \in Putters : mutex = t <=> pc[t] \in {"sleepE", "sleepF"}
  /\ \A t \in Putters : arg[t] # NoTask <=> pc[t] \in {"put", "sleepF", "waitF"}
  /\ \A w \in Workers : cur[w] # NoTask <=> pc[w] \in {"run", "put", "sleepF", "waitF"}

TypeOK == FlagsOK /\ DataOK /\ PlacesOK /\ OwnershipOK

(* However producers, tasks that submit tasks and woken threads race for the  *)
(* mutex, a bounded queue never holds more than maxQueueSize_ tasks: a woken  *)
(* producer looks at isFull() again (run(), the loop around notFull_.wait()). *)
QueueBounded == MaxQueueSize > 0 => Len(queue) <= MaxQueueSize

(* One notify() per push is enough: as long as some worker sleeps at          *)
(* notEmpty_, the workers on their way to the queue are at least as many as   *)
(* the tasks in it, so that no task waits for a sleeping worker.              *)
NoLostTakeWakeup ==
  Waiting("waitE") # {} => Cardinality(Waiting("take")) >= Len(queue)

(* One notify() per pop is enough for the producers too: while some thread    *)
(* sleeps at notFull_, the threads on their way to the queue can fill every   *)
(* free place.                                                                *)
NoLostPutWakeup ==
  Waiting("waitF") # {} => Cardinality(Waiting("put")) >= MaxQueueSize - Len(queue)

(* The comment in stop(): a worker that has seen running_ true must not fall  *)
(* asleep after the notifyAll() of stop(), which it would never hear.         *)
NoSleeperAfterStop ==
  pc[Owner] \in {"join", "stopped"} => Waiting("waitE") = {} /\ Waiting("sleepE") = {}

(* running_ is read without the mutex, so a worker may take a task after      *)
(* stop() has cleared it, but no worker takes two.                            *)
LateTakes == \A w \in Workers : late[w] <= 1

(* To its users the pool is a TaskExecutor: tasks are begun in the order      *)
(* run() accepted them, each once, no task runs in its caller once there are  *)
(* threads, and when stop() has returned nothing runs or is begun any more.   *)
Executor == INSTANCE TaskExecutor WITH
  Capacity  <- MaxQueueSize,
  manned    <- created > 0,
  waiting   <- queue,
  executing <- {cur[w] : w \in Workers} \ {NoTask},
  done      <- finished,
  closed    <- pc[Owner] = "stopped"

ImplementsExecutor == Executor!Spec

(* A queued task runs, unless the pool is stopped first. *)
TaskRuns ==
  \A x \in Tasks : (\E i \in 1..Len(queue) : queue[i] = x) ~> (x \in finished \/ ~running)

(* A call of run() that blocks on a full queue returns, unless the pool is    *)
(* stopped first.                                                             *)
ProducerProceeds ==
  \A c \in Clients : pc[c] \in {"put", "sleepF", "waitF"} ~> (pc[c] = "idle" \/ ~running)

(* stop() ends all threads and returns (the comments above and inside it). *)
StopReturns == pc[Owner] = "join" ~> pc[Owner] = "stopped"

(* The comment above notifyAll() in stop(): the workers are woken to let them *)
(* execute all tasks, so that nothing is queued when stop() has returned.     *)
StopDrainsQueue == pc[Owner] = "stopped" => queue = <<>>

=============================================================================
