-------------------------- MODULE ThreadPoolTest_proof --------------------------
(***************************************************************************)
(* Proofs about ThreadPool, for any number of workers, any finite set of   *)
(* clients, any tasks and any bound on the queue: the queue is bounded, no *)
(* wakeup is lost, stop() is heard, and the pool implements TaskExecutor.  *)
(* Then about the program of ThreadPoolTest: it uses the pool and the latch*)
(* as their specifications allow, and can rely on its tasks.               *)
(***************************************************************************)
EXTENDS ThreadPoolTest, CountDownLatch_proof, SequenceTheorems

(* The names that only abbreviate a part of an action are always expanded. *)
USE DEF threadsVars, Goes, GoesOn, PopSignals, WakeWorker, ClearRunning, Ended, OwnerGoesOn

(* The kinds of threads are apart. *)
LEMMA ThreadFacts ==
  /\ Workers \subseteq Nat /\ N \in Nat
  /\ \A w \in Workers : w \in Putters /\ w \in Threads /\ w \notin Clients /\ w # Owner
  /\ \A c \in Clients : c \in Putters /\ c \in Threads /\ c \notin Workers /\ c # Owner
  /\ \A t \in Putters : t \in Threads /\ t # Owner /\ t # Nobody
  /\ \A t \in Threads : t \in Putters \/ t = Owner
  /\ \A t \in Putters : t \in Workers \/ t \in Clients
  /\ Owner \in Threads /\ Owner \notin Putters
  /\ Nobody \notin Threads /\ NoTask \notin Tasks
BY PoolAssumption DEF Workers, Putters, Threads

(* At the start every variable has its type. *)
LEMMA InitType == Init => TypeOK
<1> SUFFICES ASSUME Init PROVE TypeOK
  OBVIOUS
<1>1. DataOK
  BY PoolAssumption DEF Init, DataOK
<1>5. FlagsOK
  BY DEF Init, FlagsOK
<1>2. /\ \A w \in Workers : pc[w] = "none"
      /\ \A c \in Clients : pc[c] = "idle"
      /\ pc[Owner] = "new"
      /\ DOMAIN pc = Threads
  BY ThreadFacts DEF Init
<1>3. PlacesOK
  <2>1. want \in 0..N /\ created \in 0..want /\ joined \in 0..created /\ want = 0 /\ created = 0
    BY ThreadFacts DEF Init
  <2>2. \A w \in Workers : ~ (w <= created)
    BY <2>1, PoolAssumption DEF Workers
  <2>3. \A w \in Workers : pc[w] \in WorkerPlaces /\ (pc[w] # "none" <=> w <= created)
    BY <1>2, <2>2 DEF WorkerPlaces
  <2>4. (\A c \in Clients : pc[c] \in ClientPlaces) /\ pc[Owner] \in OwnerPlaces
    BY <1>2 DEF ClientPlaces, OwnerPlaces
  <2> QED BY <1>2, <2>1, <2>3, <2>4 DEF PlacesOK
<1>4. OwnershipOK
  BY <1>2, ThreadFacts DEF Init, OwnershipOK
<1> QED BY <1>1, <1>3, <1>4, <1>5 DEF TypeOK

(* Each action keeps the types of the data. *)
LEMMA DataStep == TypeOK /\ [Next]_vars => DataOK'
<1> SUFFICES ASSUME TypeOK, [Next]_vars PROVE DataOK'
  OBVIOUS
<1> USE ThreadFacts DEF DataOK
<1>d. DataOK
  BY DEF TypeOK
<1>1. CASE UNCHANGED vars
  BY <1>1, <1>d DEF vars, poolVars, history
<1>2. CASE OwnerStep
  BY <1>2, <1>d
     DEF OwnerStep, Start, StartThread, StartReturn, StopSection, JoinThread, StopReturn, history, poolVars
<1>3. ASSUME NEW w \in Workers, ThreadInit(w) \/ LoopTest(w) \/ TakeBlock(w) \/ TakeNothing(w)
      PROVE  DataOK'
  BY <1>3, <1>d DEF ThreadInit, LoopTest, TakeBlock, TakeNothing, history, poolVars
<1>4. ASSUME NEW w \in Workers, TakeTask(w) PROVE DataOK'
  BY <1>4, <1>d DEF TakeTask
<1>5. ASSUME NEW w \in Workers, TaskThrows(w) \/ TaskSubmits(w) \/ TaskReturns(w)
      PROVE  DataOK'
  <2>1. cur[w] \in Tasks
    BY <1>5, <1>d DEF TaskThrows, TaskSubmits, TaskReturns, TypeOK, OwnershipOK
  <2>2. CASE TaskThrows(w)
    BY <2>2, <1>d DEF TaskThrows, history
  <2>3. CASE TaskSubmits(w)
    <3>1. Nested[cur[w]] \in Tasks
      BY <2>1, <2>3, PoolAssumption DEF TaskSubmits
    <3> QED BY <3>1, <2>3, <1>d DEF TaskSubmits, poolVars
  <2>4. CASE TaskReturns(w)
    BY <2>1, <2>4, <1>d DEF TaskReturns, poolVars
  <2> QED BY <1>5, <2>2, <2>3, <2>4
<1>6. ASSUME NEW c \in Clients, NEW x \in Tasks, RunInCaller(c, x) \/ RunCall(c, x)
      PROVE  DataOK'
  <2>1. {x, Nested[x]} \ {NoTask} \subseteq Tasks
    BY PoolAssumption
  <2>2. CASE RunInCaller(c, x)
    BY <2>1, <2>2, <1>d DEF RunInCaller, poolVars
  <2>3. CASE RunCall(c, x)
    BY <2>3, <1>d DEF RunCall, poolVars
  <2> QED BY <1>6, <2>2, <2>3
<1>7. ASSUME NEW t \in Putters, PutPush(t) PROVE DataOK'
  <2>1. arg[t] \in Tasks
    BY <1>7, <1>d DEF TypeOK, OwnershipOK, PutPush
  <2>2. queue' \in Seq(Tasks) /\ accepted' \in Seq(Tasks)
    BY <1>7, <2>1, <1>d DEF PutPush
  <2>3. arg' \in [Putters -> Tasks \cup {NoTask}]
    BY <1>7, <2>1, <1>d DEF PutPush
  <2> QED BY <1>7, <2>2, <2>3, <1>d DEF PutPush
<1>8. ASSUME NEW t \in Putters, PutBlock(t) \/ Sleep(t) PROVE DataOK'
  BY <1>8, <1>d DEF PutBlock, Sleep, history, poolVars
<1>9. ASSUME NEW t \in Putters, SpuriousWakeup(t) PROVE DataOK'
  BY <1>9, <1>d, PoolAssumption DEF SpuriousWakeup, history, poolVars
<1> QED
  BY <1>1, <1>2, <1>3, <1>4, <1>5, <1>6, <1>7, <1>8, <1>9
     DEF Next, Step, Terminated, WorkerStep, PutStep

(* What the notifications do: take() returns with a task and wakes a producer *)
(* that sleeps, if the queue is bounded and there is one.                     *)
LEMMA TakeTaskMoves ==
  ASSUME TypeOK, NEW w \in Workers, TakeTask(w)
  PROVE  /\ pc[w] = "take"
         /\ \/ /\ pc' = [pc EXCEPT ![w] = "run"]
               /\ MaxQueueSize > 0 => \A s \in Threads : pc[s] # "waitF"
            \/ \E s \in Putters \ {w} :
                 pc[s] = "waitF" /\ pc' = [pc EXCEPT ![w] = "run", ![s] = "put"]
<1> DEFINE p == [pc EXCEPT ![w] = "run"]
<1>1. pc' \in IF MaxQueueSize > 0 THEN Notify(p, "waitF", "put") ELSE {p}
  BY DEF TakeTask
<1>2. ASSUME NEW s \in DOMAIN p, p[s] = "waitF", pc' = [p EXCEPT ![s] = "put"]
      PROVE  /\ s \in Putters \ {w} /\ pc[s] = "waitF"
             /\ pc' = [pc EXCEPT ![w] = "run", ![s] = "put"]
  BY <1>2, ThreadFacts DEF TypeOK, PlacesOK, OwnerPlaces
<1>3. pc[w] = "take"
  BY DEF TakeTask
<1>4. (\A s \in DOMAIN p : p[s] # "waitF") => \A s \in Threads : pc[s] # "waitF"
  BY <1>3 DEF TypeOK, PlacesOK
<1> HIDE DEF p
<1>5. CASE MaxQueueSize > 0
  <2>1. \/ pc' = p /\ \A s \in DOMAIN p : p[s] # "waitF"
        \/ \E s \in DOMAIN p : p[s] = "waitF" /\ pc' = [p EXCEPT ![s] = "put"]
    BY <1>1, <1>5, NotifyCases
  <2> QED BY <2>1, <1>2, <1>3, <1>4 DEF p
<1> QED BY <1>1, <1>3, <1>5 DEF p

(* A push wakes a worker that sleeps, if there is one; when there is none, no *)
(* worker sleeps.                                                             *)
LEMMA PutPushMoves ==
  ASSUME TypeOK, NEW t \in Putters, PutPush(t)
  PROVE  LET place == IF t \in Workers THEN "run" ELSE "idle"
         IN /\ pc[t] = "put"
            /\ \/ /\ pc' = [pc EXCEPT ![t] = place]
                  /\ \A s \in Threads : pc[s] # "waitE"
               \/ \E s \in Workers \ {t} :
                    pc[s] = "waitE" /\ pc' = [pc EXCEPT ![t] = place, ![s] = "take"]
<1> DEFINE place == IF t \in Workers THEN "run" ELSE "idle"
           p == [pc EXCEPT ![t] = place]
<1>1. pc' \in Notify(p, "waitE", "take")
  BY DEF PutPush
<1>2. pc[t] = "put"
  BY DEF PutPush
<1>3. ASSUME NEW s \in DOMAIN p, p[s] = "waitE", pc' = [p EXCEPT ![s] = "take"]
      PROVE  /\ s \in Workers \ {t} /\ pc[s] = "waitE"
             /\ pc' = [pc EXCEPT ![t] = place, ![s] = "take"]
  BY <1>3, ThreadFacts DEF TypeOK, PlacesOK, OwnerPlaces, ClientPlaces
<1>4. ASSUME pc' = p, \A s \in DOMAIN p : p[s] # "waitE"
      PROVE  \A s \in Threads : pc[s] # "waitE"
  BY <1>2, <1>4 DEF TypeOK, PlacesOK
<1>5. \/ pc' = p /\ \A s \in DOMAIN p : p[s] # "waitE"
      \/ \E s \in DOMAIN p : p[s] = "waitE" /\ pc' = [p EXCEPT ![s] = "take"]
  <2> HIDE DEF p
  <2> QED BY <1>1, NotifyCases
<1> QED BY <1>2, <1>3, <1>4, <1>5

(* stop() wakes all workers that sleep. *)
LEMMA StopMoves ==
  ASSUME TypeOK, StopSection
  PROVE  /\ pc[Owner] = "started"
         /\ DOMAIN pc' = Threads
         /\ pc'[Owner] = "join"
         /\ \A t \in Putters : pc'[t] = IF pc[t] = "waitE" THEN "take" ELSE pc[t]
BY ThreadFacts DEF StopSection, NotifyAll, TypeOK, PlacesOK

(* Each action keeps the flags Boolean. *)
LEMMA FlagsStep == TypeOK /\ [Next]_vars => FlagsOK'
<1> SUFFICES ASSUME TypeOK, [Next]_vars PROVE FlagsOK'
  OBVIOUS
<1> USE DEF FlagsOK
<1>f. FlagsOK
  BY DEF TypeOK
<1>1. CASE UNCHANGED vars
  BY <1>1, <1>f DEF vars, poolVars
<1>2. CASE OwnerStep
  BY <1>2, <1>f
     DEF OwnerStep, Start, StartThread, StartReturn, StopSection, JoinThread, StopReturn, poolVars
<1>3. ASSUME NEW w \in Workers, WorkerStep(w) PROVE FlagsOK'
  BY <1>3, <1>f
     DEF WorkerStep, ThreadInit, LoopTest, TakeBlock, TakeTask, TakeNothing,
         TaskThrows, TaskSubmits, TaskReturns, poolVars
<1>4. ASSUME NEW c \in Clients, NEW x \in Tasks, RunInCaller(c, x) \/ RunCall(c, x)
      PROVE  FlagsOK'
  BY <1>4, <1>f DEF RunInCaller, RunCall, poolVars
<1>5. ASSUME NEW t \in Putters, PutStep(t) \/ Sleep(t) \/ SpuriousWakeup(t) PROVE FlagsOK'
  BY <1>5, <1>f DEF PutStep, PutBlock, PutPush, Sleep, SpuriousWakeup, poolVars
<1> QED
  BY <1>1, <1>2, <1>3, <1>4, <1>5 DEF Next, Step, Terminated

(* Each action keeps every thread at a place of its kind. *)
LEMMA PlacesStep == TypeOK /\ [Next]_vars => PlacesOK'
<1> SUFFICES ASSUME TypeOK, [Next]_vars PROVE PlacesOK'
  OBVIOUS
<1> USE ThreadFacts DEF PlacesOK, WorkerPlaces, ClientPlaces, OwnerPlaces
<1>p. PlacesOK
  BY DEF TypeOK
<1>1. CASE UNCHANGED vars
  BY <1>1, <1>p DEF vars, poolVars
<1>2. ASSUME NEW n \in StartSizes, Start(n) PROVE PlacesOK'
  BY <1>2, <1>p, PoolAssumption DEF Start
<1>3. CASE StartThread
  <2>1. created + 1 \in Workers /\ created + 1 <= want /\ want \in Nat
    BY <1>3, <1>p DEF StartThread, Workers
  <2>2. created' \in 0..want' /\ want' \in 0..N /\ joined' \in 0..created'
    BY <1>3, <1>p, <2>1 DEF StartThread
  <2>3. \A w \in Workers : pc'[w] \in WorkerPlaces /\ (pc'[w] # "none" <=> w <= created')
    BY <1>3, <1>p, <2>1 DEF StartThread, Workers
  <2> QED BY <1>3, <1>p, <2>1, <2>2, <2>3 DEF StartThread
<1>4. CASE StartReturn \/ StopReturn
  BY <1>4, <1>p DEF StartReturn, StopReturn, poolVars
<1>5. CASE StopSection
  <2>1. /\ DOMAIN pc' = Threads /\ pc'[Owner] = "join"
        /\ \A t \in Putters : pc'[t] = IF pc[t] = "waitE" THEN "take" ELSE pc[t]
    BY <1>5, StopMoves
  <2> QED BY <1>5, <1>p, <2>1 DEF StopSection
<1>6. CASE JoinThread
  BY <1>6, <1>p DEF JoinThread
<1>7. ASSUME NEW w \in Workers,
             ThreadInit(w) \/ LoopTest(w) \/ TakeBlock(w) \/ TakeNothing(w)
               \/ TaskThrows(w) \/ TaskSubmits(w) \/ TaskReturns(w)
      PROVE  PlacesOK'
  BY <1>7, <1>p
     DEF ThreadInit, LoopTest, TakeBlock, TakeNothing, TaskThrows, TaskSubmits, TaskReturns, poolVars
<1>8. ASSUME NEW w \in Workers, TakeTask(w) PROVE PlacesOK'
  <2>1. UNCHANGED <<want, created, joined>>
    BY <1>8 DEF TakeTask
  <2> QED BY <1>8, <1>p, <2>1, TakeTaskMoves
<1>9. ASSUME NEW c \in Clients, NEW x \in Tasks, RunInCaller(c, x) \/ RunCall(c, x)
      PROVE  PlacesOK'
  BY <1>9, <1>p DEF RunInCaller, RunCall, poolVars
<1>10. ASSUME NEW t \in Putters, PutPush(t) PROVE PlacesOK'
  <2>1. UNCHANGED <<want, created, joined>>
    BY <1>10 DEF PutPush
  <2> QED BY <1>10, <1>p, <2>1, PutPushMoves
<1>11. ASSUME NEW t \in Putters, PutBlock(t) PROVE PlacesOK'
  BY <1>11, <1>p DEF PutBlock, poolVars
<1>12. ASSUME NEW t \in Putters, Sleep(t) \/ SpuriousWakeup(t) PROVE PlacesOK'
  BY <1>12, <1>p DEF Sleep, SpuriousWakeup, poolVars
<1> QED
  BY <1>1, <1>2, <1>3, <1>4, <1>5, <1>6, <1>7, <1>8, <1>9, <1>10, <1>11, <1>12
     DEF Next, Step, Terminated, OwnerStep, WorkerStep, PutStep

(* Each action keeps the mutex, the arguments and the tasks with those at     *)
(* whose places they belong.                                                  *)
LEMMA OwnershipStep == TypeOK /\ [Next]_vars => OwnershipOK'
<1> SUFFICES ASSUME TypeOK, [Next]_vars PROVE OwnershipOK'
  OBVIOUS
<1> USE ThreadFacts DEF OwnershipOK
<1>p. /\ OwnershipOK /\ DOMAIN pc = Threads
      /\ arg \in [Putters -> Tasks \cup {NoTask}] /\ cur \in [Workers -> Tasks \cup {NoTask}]
      /\ queue \in Seq(Tasks)
      /\ \A c \in Clients : pc[c] \in ClientPlaces
  BY DEF TypeOK, PlacesOK, DataOK
<1>1. CASE UNCHANGED vars
  BY <1>1, <1>p DEF vars, poolVars
<1>2. CASE (\E n \in StartSizes : Start(n)) \/ StartReturn \/ StopReturn \/ JoinThread
  BY <1>2, <1>p DEF Start, StartReturn, StopReturn, JoinThread, poolVars
<1>3. CASE StartThread
  <2>1. created + 1 \in Workers /\ pc[created + 1] = "none"
    BY <1>3, ThreadFacts DEF StartThread, Workers, TypeOK, PlacesOK
  <2> QED BY <1>3, <1>p, <2>1 DEF StartThread
<1>4. CASE StopSection
  <2>1. /\ \A t \in Putters : pc'[t] = IF pc[t] = "waitE" THEN "take" ELSE pc[t]
        /\ UNCHANGED <<mutex, arg, cur>>
    BY <1>4, StopMoves DEF StopSection
  <2> QED BY <1>p, <2>1
<1>5. ASSUME NEW w \in Workers,
             ThreadInit(w) \/ LoopTest(w) \/ TakeBlock(w) \/ TakeNothing(w) \/ TaskThrows(w)
      PROVE  OwnershipOK'
  BY <1>5, <1>p DEF ThreadInit, LoopTest, TakeBlock, TakeNothing, TaskThrows, poolVars
<1>6. ASSUME NEW w \in Workers, TaskSubmits(w) PROVE OwnershipOK'
  BY <1>6, <1>p DEF TaskSubmits, poolVars
<1>7. ASSUME NEW w \in Workers, TaskReturns(w) PROVE OwnershipOK'
  BY <1>7, <1>p DEF TaskReturns, poolVars
<1>8. ASSUME NEW w \in Workers, TakeTask(w) PROVE OwnershipOK'
  <2>1. Head(queue) # NoTask
    BY <1>8, <1>p DEF TakeTask
  <2>2. UNCHANGED <<mutex, arg>> /\ cur' = [cur EXCEPT ![w] = Head(queue)] /\ mutex = Nobody
    BY <1>8 DEF TakeTask
  <2> QED BY <1>8, <1>p, <2>1, <2>2, TakeTaskMoves
<1>9. ASSUME NEW c \in Clients, NEW x \in Tasks, RunInCaller(c, x) \/ RunCall(c, x)
      PROVE  OwnershipOK'
  BY <1>9, <1>p DEF RunInCaller, RunCall, MayRun, poolVars
<1>10. ASSUME NEW t \in Putters, PutPush(t) PROVE OwnershipOK'
  <2>1. /\ mutex = Nobody /\ mutex' = mutex
        /\ arg' = [arg EXCEPT ![t] = NoTask]
        /\ cur' = cur
    BY <1>10 DEF PutPush
  <2> QED BY <1>10, <1>p, <2>1, PutPushMoves
<1>11. ASSUME NEW t \in Putters, PutBlock(t) PROVE OwnershipOK'
  BY <1>11, <1>p DEF PutBlock, poolVars
<1>12. ASSUME NEW t \in Putters, Sleep(t) PROVE OwnershipOK'
  BY <1>12, <1>p DEF Sleep, poolVars, ClientPlaces
<1>13. ASSUME NEW t \in Putters, SpuriousWakeup(t) PROVE OwnershipOK'
  BY <1>13, <1>p DEF SpuriousWakeup, poolVars, ClientPlaces
<1> QED
  BY <1>1, <1>2, <1>3, <1>4, <1>5, <1>6, <1>7, <1>8, <1>9, <1>10, <1>11, <1>12, <1>13
     DEF Next, Step, Terminated, OwnerStep, WorkerStep, PutStep

(* The types hold in every behaviour. *)
LEMMA TypeInvariance == Spec => []TypeOK
<1>1. TypeOK /\ [Next]_vars => TypeOK'
  BY FlagsStep, DataStep, PlacesStep, OwnershipStep DEF TypeOK
<1> QED BY InitType, <1>1, PTL DEF Spec

(* Every variable keeps its type; start() makes no more threads than it was   *)
(* asked for; the mutex is seen owned exactly in the window before a wait().  *)
THEOREM PoolTypes == Spec => []TypeOK
BY TypeInvariance

-----------------------------------------------------------------------------
(* A bounded queue has a free place whenever a task is pushed. *)
LEMMA BoundStep == TypeOK /\ QueueBounded /\ [Next]_vars => QueueBounded'
<1> SUFFICES ASSUME TypeOK, QueueBounded, [Next]_vars, MaxQueueSize > 0
             PROVE  Len(queue') <= MaxQueueSize
  BY DEF QueueBounded
<1>1. Len(queue) <= MaxQueueSize /\ Len(queue) \in Nat /\ queue \in Seq(Tasks) /\ MaxQueueSize \in Nat
  BY PoolAssumption DEF QueueBounded, TypeOK, DataOK
<1>2. CASE UNCHANGED queue
  BY <1>1, <1>2
<1>3. ASSUME NEW w \in Workers, TakeTask(w) PROVE Len(queue') <= MaxQueueSize
  BY <1>1, <1>3 DEF TakeTask
<1>4. ASSUME NEW t \in Putters, PutPush(t) PROVE Len(queue') <= MaxQueueSize
  BY <1>1, <1>4 DEF PutPush, IsFull
<1> QED
  BY <1>2, <1>3, <1>4
     DEF Next, Step, Terminated, OwnerStep, WorkerStep, PutStep, vars, poolVars,
         Start, StartThread, StartReturn, StopSection, JoinThread, StopReturn,
         ThreadInit, LoopTest, TakeBlock, TakeNothing, TaskThrows, TaskSubmits, TaskReturns,
         RunInCaller, RunCall, PutBlock, Sleep, SpuriousWakeup

(* However the callers of run() race for a free place, the queue never holds  *)
(* more than maxQueueSize_ tasks, for any bound and any number of threads.    *)
THEOREM PoolBounded == Spec => []QueueBounded
<1>1. Init => QueueBounded
  BY PoolAssumption DEF Init, QueueBounded
<1> QED BY <1>1, BoundStep, TypeInvariance, PTL DEF Spec

-----------------------------------------------------------------------------
(* running_ is set exactly between start() and stop(). *)
RunningWhile == running <=> pc[Owner] \in {"starting", "started"}

(* No worker falls asleep at notEmpty_ after stop(). *)
NoSleeper == ~running => \A w \in Workers : pc[w] \notin {"waitE", "sleepE"}

StopInv == RunningWhile /\ NoSleeper

(* Every step keeps the workers of a stopped pool awake. *)
LEMMA StopStep == TypeOK /\ StopInv /\ [Next]_vars => StopInv'
<1> SUFFICES ASSUME TypeOK, StopInv, [Next]_vars PROVE StopInv'
  OBVIOUS
<1> USE ThreadFacts DEF StopInv, RunningWhile, NoSleeper
<1>p. /\ DOMAIN pc = Threads
      /\ \A t \in Putters : mutex = t <=> pc[t] \in {"sleepE", "sleepF"}
  BY DEF TypeOK, PlacesOK, OwnershipOK
<1>1. CASE UNCHANGED vars
  BY <1>1 DEF vars, poolVars
<1>2. ASSUME NEW n \in StartSizes, Start(n) PROVE StopInv'
  BY <1>2, <1>p DEF Start
<1>3. CASE StartThread
  <2>1. created + 1 \in Workers
    BY <1>3, ThreadFacts DEF StartThread, Workers, TypeOK, PlacesOK
  <2> QED BY <1>3, <1>p, <2>1 DEF StartThread
<1>4. CASE StartReturn \/ StopReturn \/ JoinThread
  BY <1>4, <1>p DEF StartReturn, StopReturn, JoinThread, poolVars
<1>5. CASE StopSection
  <2>1. /\ ~running' /\ pc'[Owner] = "join" /\ mutex = Nobody
        /\ \A t \in Putters : pc'[t] = IF pc[t] = "waitE" THEN "take" ELSE pc[t]
    BY <1>5, StopMoves DEF StopSection
  <2> QED BY <2>1, <1>p
<1>6. ASSUME NEW w \in Workers,
             ThreadInit(w) \/ LoopTest(w) \/ TakeBlock(w) \/ TakeNothing(w)
               \/ TaskThrows(w) \/ TaskSubmits(w) \/ TaskReturns(w)
      PROVE  StopInv'
  BY <1>6, <1>p
     DEF ThreadInit, LoopTest, TakeBlock, TakeNothing, TaskThrows, TaskSubmits, TaskReturns, poolVars
<1>7. ASSUME NEW w \in Workers, TakeTask(w) PROVE StopInv'
  <2>1. running' = running
    BY <1>7 DEF TakeTask
  <2> QED BY <1>7, <1>p, <2>1, TakeTaskMoves
<1>8. ASSUME NEW c \in Clients, NEW x \in Tasks, RunInCaller(c, x) \/ RunCall(c, x)
      PROVE  StopInv'
  BY <1>8, <1>p DEF RunInCaller, RunCall, poolVars
<1>9. ASSUME NEW t \in Putters, PutPush(t) PROVE StopInv'
  <2>1. running' = running
    BY <1>9 DEF PutPush
  <2> QED BY <1>9, <1>p, <2>1, PutPushMoves
<1>10. ASSUME NEW t \in Putters, PutBlock(t) \/ Sleep(t) \/ SpuriousWakeup(t) PROVE StopInv'
  BY <1>10, <1>p DEF PutBlock, Sleep, SpuriousWakeup, poolVars
<1> QED
  BY <1>1, <1>2, <1>3, <1>4, <1>5, <1>6, <1>7, <1>8, <1>9, <1>10
     DEF Next, Step, Terminated, OwnerStep, WorkerStep, PutStep

(* No worker of a stopped pool sleeps, in every behaviour. *)
LEMMA StopInvariance == Spec => []StopInv
<1>1. Init => StopInv
  BY ThreadFacts DEF Init, StopInv, RunningWhile, NoSleeper
<1> QED BY <1>1, StopStep, TypeInvariance, PTL DEF Spec

(* A worker that has seen running_ true and the queue empty is either asleep  *)
(* before stop() broadcasts, and woken, or finds running_ false: for any      *)
(* number of workers none sleeps behind stop().                               *)
THEOREM PoolStopIsHeard == Spec => []NoSleeperAfterStop
<1>1. TypeOK /\ StopInv => NoSleeperAfterStop
  BY DEF TypeOK, PlacesOK, ClientPlaces, OwnerPlaces, Threads, Putters,
         StopInv, RunningWhile, NoSleeper, NoSleeperAfterStop, Waiting
<1> QED BY <1>1, StopInvariance, TypeInvariance, PTL

-----------------------------------------------------------------------------
(* A worker that took a task after stop() is past the loop's head for good.   *)
LateInv ==
  \A w \in Workers :
    /\ late[w] \in {0, 1}
    /\ late[w] = 1 => /\ ~running /\ pc[Owner] # "new"
                      /\ pc[w] \notin {"none", "init", "take", "sleepE", "waitE"}

(* A worker that leaves the take after stop() never gets back to one. *)
LEMMA LateStep == TypeOK /\ StopInv /\ LateInv /\ [Next]_vars => LateInv'
<1> SUFFICES ASSUME TypeOK, StopInv, LateInv, [Next]_vars PROVE LateInv'
  OBVIOUS
<1> USE ThreadFacts DEF LateInv
<1>p. /\ DOMAIN pc = Threads /\ late \in [Workers -> Nat]
      /\ \A c \in Clients : pc[c] \in ClientPlaces
  BY DEF TypeOK, DataOK, PlacesOK
<1>1. CASE UNCHANGED vars
  BY <1>1 DEF vars, poolVars, history
<1>2. ASSUME NEW n \in StartSizes, Start(n) PROVE LateInv'
  BY <1>2, <1>p DEF Start, history
<1>3. CASE StartThread
  <2>1. created + 1 \in Workers /\ pc[created + 1] = "none"
    BY <1>3, ThreadFacts DEF StartThread, Workers, TypeOK, PlacesOK
  <2> QED BY <1>3, <1>p, <2>1 DEF StartThread, history
<1>4. CASE StartReturn \/ StopReturn \/ JoinThread
  BY <1>4, <1>p DEF StartReturn, StopReturn, JoinThread, poolVars, history
<1>5. CASE StopSection
  <2>1. /\ ~running' /\ pc'[Owner] = "join" /\ late' = late
        /\ \A t \in Putters : pc'[t] = IF pc[t] = "waitE" THEN "take" ELSE pc[t]
    BY <1>5, StopMoves DEF StopSection, history
  <2> QED BY <2>1
<1>6. ASSUME NEW w \in Workers,
             ThreadInit(w) \/ LoopTest(w) \/ TakeBlock(w) \/ TakeNothing(w)
               \/ TaskThrows(w) \/ TaskSubmits(w) \/ TaskReturns(w)
      PROVE  LateInv'
  BY <1>6, <1>p
     DEF ThreadInit, LoopTest, TakeBlock, TakeNothing, TaskThrows, TaskSubmits, TaskReturns,
         poolVars, history
<1>7. ASSUME NEW w \in Workers, TakeTask(w) PROVE LateInv'
  <2>1. running' = running /\ late' = [late EXCEPT ![w] = IF running THEN @ ELSE @ + 1]
    BY <1>7 DEF TakeTask
  <2>2. late[w] = 0
    BY <1>7 DEF TakeTask
  <2>3. running \/ pc[Owner] # "new"
    BY <1>7 DEF TakeTask, TypeOK, PlacesOK, Workers
  <2> QED BY <1>7, <1>p, <2>1, <2>2, <2>3, TakeTaskMoves
<1>8. ASSUME NEW c \in Clients, NEW x \in Tasks, RunInCaller(c, x) \/ RunCall(c, x)
      PROVE  LateInv'
  BY <1>8, <1>p DEF RunInCaller, RunCall, poolVars
<1>9. ASSUME NEW t \in Putters, PutPush(t) PROVE LateInv'
  <2>1. running' = running /\ late' = late
    BY <1>9 DEF PutPush
  <2> QED BY <1>9, <1>p, <2>1, PutPushMoves
<1>10. ASSUME NEW t \in Putters, PutBlock(t) \/ Sleep(t) \/ SpuriousWakeup(t) PROVE LateInv'
  BY <1>10, <1>p DEF PutBlock, Sleep, SpuriousWakeup, poolVars, history
<1> QED
  BY <1>1, <1>2, <1>3, <1>4, <1>5, <1>6, <1>7, <1>8, <1>9, <1>10
     DEF Next, Step, Terminated, OwnerStep, WorkerStep, PutStep

(* The unlocked read of running_ costs at most one task per worker. *)
THEOREM PoolLateTakes == Spec => []LateTakes
<1>1. Init => LateInv
  BY DEF Init, LateInv
<1>2. LateInv => LateTakes
  BY DEF LateInv, LateTakes
<1> QED BY <1>1, <1>2, LateStep, StopInvariance, TypeInvariance, PTL DEF Spec

-----------------------------------------------------------------------------
(* The mutex is not given up between the test of a loop and the sleep, so the *)
(* test still holds when the thread falls asleep.                             *)
WindowInv ==
  \A t \in Putters : /\ pc[t] = "sleepE" => queue = <<>>
                     /\ pc[t] = "sleepF" => Len(queue) >= MaxQueueSize

(* Nobody touches the queue between a thread's test and its sleep. *)
LEMMA WindowStep == TypeOK /\ WindowInv /\ [Next]_vars => WindowInv'
<1> SUFFICES ASSUME TypeOK, WindowInv, [Next]_vars PROVE WindowInv'
  OBVIOUS
<1> USE ThreadFacts DEF WindowInv
<1>p. /\ DOMAIN pc = Threads
      /\ \A t \in Putters : mutex = t <=> pc[t] \in {"sleepE", "sleepF"}
  BY DEF TypeOK, PlacesOK, OwnershipOK
<1>1. CASE UNCHANGED vars
  BY <1>1 DEF vars, poolVars
<1>2. CASE (\E n \in StartSizes : Start(n)) \/ StartReturn \/ StopReturn \/ JoinThread
  BY <1>2, <1>p DEF Start, StartReturn, StopReturn, JoinThread, poolVars
<1>3. CASE StartThread
  <2>1. created + 1 \in Workers
    BY <1>3, ThreadFacts DEF StartThread, Workers, TypeOK, PlacesOK
  <2> QED BY <1>3, <1>p, <2>1 DEF StartThread
<1>4. CASE StopSection
  <2>1. /\ queue' = queue
        /\ \A t \in Putters : pc'[t] = IF pc[t] = "waitE" THEN "take" ELSE pc[t]
    BY <1>4, StopMoves DEF StopSection
  <2> QED BY <2>1
<1>5. ASSUME NEW w \in Workers,
             ThreadInit(w) \/ LoopTest(w) \/ TakeBlock(w) \/ TakeNothing(w)
               \/ TaskThrows(w) \/ TaskSubmits(w) \/ TaskReturns(w)
      PROVE  WindowInv'
  BY <1>5, <1>p
     DEF ThreadInit, LoopTest, TakeBlock, TakeNothing, TaskThrows, TaskSubmits, TaskReturns, poolVars
<1>6. ASSUME NEW w \in Workers, TakeTask(w) PROVE WindowInv'
  <2>1. mutex = Nobody
    BY <1>6 DEF TakeTask
  <2> QED BY <1>6, <1>p, <2>1, TakeTaskMoves
<1>7. ASSUME NEW c \in Clients, NEW x \in Tasks, RunInCaller(c, x) \/ RunCall(c, x)
      PROVE  WindowInv'
  BY <1>7, <1>p DEF RunInCaller, RunCall, poolVars
<1>8. ASSUME NEW t \in Putters, PutPush(t) PROVE WindowInv'
  <2>1. mutex = Nobody
    BY <1>8 DEF PutPush
  <2> QED BY <1>8, <1>p, <2>1, PutPushMoves
<1>9. ASSUME NEW t \in Putters, PutBlock(t) \/ Sleep(t) \/ SpuriousWakeup(t) PROVE WindowInv'
  BY <1>9, <1>p DEF PutBlock, Sleep, SpuriousWakeup, IsFull, poolVars
<1> QED
  BY <1>1, <1>2, <1>3, <1>4, <1>5, <1>6, <1>7, <1>8, <1>9
     DEF Next, Step, Terminated, OwnerStep, WorkerStep, PutStep

(* The threads are finitely many, so that they can be counted. *)
LEMMA ThreadsFinite == IsFiniteSet(Threads)
<1>1. IsFiniteSet(Workers)
  BY PoolAssumption, FS_Interval DEF Workers
<1>2. IsFiniteSet(Workers \cup Clients)
  BY <1>1, PoolAssumption, FS_Union
<1> QED BY <1>2, FS_AddElement DEF Threads

(* The two wakeup invariants, in terms of Count. *)
TakeEnough ==
  \/ \A t \in Threads : pc[t] # "waitE"
  \/ Count(Threads, pc, "take") >= Len(queue)

PutEnough ==
  \/ \A t \in Threads : pc[t] # "waitF"
  \/ Count(Threads, pc, "put") >= MaxQueueSize - Len(queue)

(* The counts say what the two properties say. *)
LEMMA EnoughIsNoLostWakeup ==
  (TakeEnough => NoLostTakeWakeup) /\ (PutEnough => NoLostPutWakeup)
BY DEF TakeEnough, PutEnough, NoLostTakeWakeup, NoLostPutWakeup, Waiting, Count

(* The numbers these invariants are about. *)
LEMMA Numbers ==
  ASSUME TypeOK
  PROVE  /\ Count(Threads, pc, "take") \in Nat /\ Count(Threads, pc, "put") \in Nat
         /\ Count(Threads, pc', "take") \in Nat /\ Count(Threads, pc', "put") \in Nat
         /\ Len(queue) \in Nat /\ MaxQueueSize \in Nat /\ queue \in Seq(Tasks)
         /\ DOMAIN pc = Threads /\ Threads \subseteq DOMAIN pc
BY CountType, ThreadsFinite, PoolAssumption DEF TypeOK, DataOK, PlacesOK

(* One thread moves. *)
OnlyMoves(t) == \A s \in Threads \ {t} : pc'[s] = pc[s]

(* A thread that comes from elsewhere leaves both as they are, or better. *)
LEMMA MoveKeepsTake ==
  ASSUME TypeOK, TakeEnough, NEW t \in Threads, OnlyMoves(t),
         pc[t] # "take", pc'[t] # "waitE", queue' = queue
  PROVE  TakeEnough'
<1>1. CASE pc'[t] = "take"
  <2>1. Count(Threads, pc', "take") = Count(Threads, pc, "take") + 1
    BY <1>1, ThreadsFinite, CountArrives DEF OnlyMoves
  <2> QED BY <1>1, <2>1, Numbers DEF TakeEnough, Count, OnlyMoves
<1>2. CASE pc'[t] # "take"
  <2>1. Count(Threads, pc', "take") = Count(Threads, pc, "take")
    BY <1>2, CountStays DEF OnlyMoves
  <2> QED BY <1>2, <2>1, Numbers DEF TakeEnough, Count, OnlyMoves
<1> QED BY <1>1, <1>2

(* The same for the producers. *)
LEMMA MoveKeepsPut ==
  ASSUME TypeOK, PutEnough, NEW t \in Threads, OnlyMoves(t),
         pc[t] # "put", pc'[t] # "waitF", queue' = queue
  PROVE  PutEnough'
<1>1. CASE pc'[t] = "put"
  <2>1. Count(Threads, pc', "put") = Count(Threads, pc, "put") + 1
    BY <1>1, ThreadsFinite, CountArrives DEF OnlyMoves
  <2> QED BY <1>1, <2>1, Numbers DEF PutEnough, Count, OnlyMoves
<1>2. CASE pc'[t] # "put"
  <2>1. Count(Threads, pc', "put") = Count(Threads, pc, "put")
    BY <1>2, CountStays DEF OnlyMoves
  <2> QED BY <1>2, <2>1, Numbers DEF PutEnough, Count, OnlyMoves
<1> QED BY <1>1, <1>2

(* A push adds one task and wakes one worker, a take removes one of each, and *)
(* a worker sleeps at an empty queue: enough workers stay awake.              *)
LEMMA TakeEnoughStep == TypeOK /\ WindowInv /\ TakeEnough /\ [Next]_vars => TakeEnough'
<1> SUFFICES ASSUME TypeOK, WindowInv, TakeEnough, [Next]_vars PROVE TakeEnough'
  OBVIOUS
<1>d. DOMAIN pc = Threads /\ Len(queue) \in Nat /\ queue \in Seq(Tasks)
  BY Numbers
<1>e. queue' = <<>> => TakeEnough'
  BY Numbers DEF TakeEnough, Count
<1>1. CASE pc' = pc /\ queue' = queue
  BY <1>1 DEF TakeEnough, Count
<1>2. CASE (\E n \in StartSizes : Start(n)) \/ StartReturn \/ StopReturn
  <2>1. /\ Owner \in Threads /\ OnlyMoves(Owner) /\ queue' = queue
        /\ pc[Owner] # "take" /\ pc'[Owner] # "waitE"
    BY <1>2, <1>d, ThreadFacts DEF Start, StartReturn, StopReturn, OnlyMoves, poolVars
  <2> QED BY <2>1, MoveKeepsTake
<1>3. CASE StartThread
  <2>1. created + 1 \in Workers /\ pc[created + 1] = "none"
    BY <1>3, ThreadFacts DEF StartThread, Workers, TypeOK, PlacesOK
  <2>2. /\ created + 1 \in Threads /\ OnlyMoves(created + 1) /\ queue' = queue
        /\ pc[created + 1] # "take" /\ pc'[created + 1] # "waitE"
    BY <1>3, <2>1, <1>d, ThreadFacts DEF StartThread, OnlyMoves
  <2> QED BY <2>2, MoveKeepsTake
<1>4. CASE StopSection
  BY <1>4, StopMoves DEF TakeEnough, Threads, Putters
<1>5. ASSUME NEW w \in Workers, ThreadInit(w) \/ LoopTest(w) \/ TaskSubmits(w) \/ TaskReturns(w)
      PROVE  TakeEnough'
  <2>1. /\ w \in Threads /\ OnlyMoves(w) /\ queue' = queue
        /\ pc[w] # "take" /\ pc'[w] # "waitE"
    BY <1>5, <1>d, ThreadFacts
       DEF ThreadInit, LoopTest, TaskSubmits, TaskReturns, OnlyMoves, poolVars
  <2> QED BY <2>1, MoveKeepsTake
<1>6. ASSUME NEW w \in Workers, TakeBlock(w) \/ TakeNothing(w) PROVE TakeEnough'
  BY <1>6, <1>e DEF TakeBlock, TakeNothing, poolVars
<1>7. ASSUME NEW w \in Workers, TakeTask(w) PROVE TakeEnough'
  <2>1. Len(queue') = Len(queue) - 1
    BY <1>7, <1>d DEF TakeTask
  <2>2. /\ w \in Threads /\ pc[w] = "take" /\ pc'[w] # "take"
        /\ \A s \in Threads \ {w} : pc'[s] = "take" <=> pc[s] = "take"
    BY <1>7, <1>d, TakeTaskMoves, ThreadFacts
  <2>3. (\A s \in Threads : pc[s] # "waitE") => (\A s \in Threads : pc'[s] # "waitE")
    BY <1>7, <1>d, TakeTaskMoves, ThreadFacts
  <2>4. Count(Threads, pc', "take") = Count(Threads, pc, "take") - 1
    BY <2>2, ThreadsFinite, CountLeaves
  <2> QED BY <2>1, <2>3, <2>4, Numbers DEF TakeEnough, Count
<1>8. ASSUME NEW c \in Clients, NEW x \in Tasks, RunCall(c, x) PROVE TakeEnough'
  <2>1. /\ c \in Threads /\ OnlyMoves(c) /\ queue' = queue
        /\ pc[c] # "take" /\ pc'[c] # "waitE"
    BY <1>8, <1>d, ThreadFacts DEF RunCall, MayRun, OnlyMoves, poolVars
  <2> QED BY <2>1, MoveKeepsTake
<1>9. ASSUME NEW t \in Putters, PutPush(t) PROVE TakeEnough'
  <2>1. Len(queue') = Len(queue) + 1
    <3>1. arg[t] \in Tasks
      BY <1>9 DEF PutPush, TypeOK, DataOK, OwnershipOK
    <3> QED BY <1>9, <3>1, <1>d DEF PutPush
  <2>2. CASE \A s \in Threads : pc[s] # "waitE"
    <3>1. \A s \in Threads : pc'[s] # "waitE"
      BY <1>9, <2>2, <1>d, PutPushMoves, ThreadFacts
    <3> QED BY <3>1 DEF TakeEnough
  <2>3. CASE \E s \in Threads : pc[s] = "waitE"
    <3>1. PICK s \in Workers \ {t} :
            /\ pc[s] = "waitE"
            /\ pc' = [pc EXCEPT ![t] = IF t \in Workers THEN "run" ELSE "idle", ![s] = "take"]
      BY <1>9, <2>3, PutPushMoves
    <3>2. /\ s \in Threads /\ pc[s] # "take" /\ pc'[s] = "take"
          /\ \A r \in Threads \ {s} : pc'[r] = "take" <=> pc[r] = "take"
      BY <1>9, <3>1, <1>d, PutPushMoves, ThreadFacts
    <3>3. Count(Threads, pc', "take") = Count(Threads, pc, "take") + 1
      BY <3>2, ThreadsFinite, CountArrives
    <3>4. Count(Threads, pc, "take") >= Len(queue)
      BY <2>3 DEF TakeEnough
    <3> QED BY <2>1, <3>3, <3>4, Numbers DEF TakeEnough, Count
  <2> QED BY <2>2, <2>3
<1>10. ASSUME NEW t \in Putters, PutBlock(t) \/ SpuriousWakeup(t) PROVE TakeEnough'
  <2>1. /\ t \in Threads /\ OnlyMoves(t) /\ queue' = queue
        /\ pc[t] # "take" /\ pc'[t] # "waitE"
    BY <1>10, <1>d, ThreadFacts DEF PutBlock, SpuriousWakeup, OnlyMoves, poolVars
  <2> QED BY <2>1, MoveKeepsTake
<1>11. ASSUME NEW t \in Putters, Sleep(t) PROVE TakeEnough'
  <2>1. CASE pc[t] = "sleepE"
    BY <1>11, <2>1, <1>e DEF Sleep, WindowInv, poolVars
  <2>2. CASE pc[t] = "sleepF"
    <3>1. /\ t \in Threads /\ OnlyMoves(t) /\ queue' = queue
          /\ pc[t] # "take" /\ pc'[t] # "waitE"
      BY <1>11, <2>2, <1>d, ThreadFacts DEF Sleep, OnlyMoves, poolVars
    <3> QED BY <3>1, MoveKeepsTake
  <2> QED BY <1>11, <2>1, <2>2 DEF Sleep
<1>12. ASSUME \/ JoinThread \/ UNCHANGED vars
              \/ \E w \in Workers : TaskThrows(w)
              \/ \E c \in Clients, x \in Tasks : RunInCaller(c, x)
       PROVE  pc' = pc /\ queue' = queue
  BY <1>12 DEF JoinThread, TaskThrows, RunInCaller, poolVars, vars
<1> QED
  BY <1>1, <1>2, <1>3, <1>4, <1>5, <1>6, <1>7, <1>8, <1>9, <1>10, <1>11, <1>12
     DEF Next, Step, Terminated, OwnerStep, WorkerStep, PutStep

(* A take frees one place and wakes one producer, a push fills one and its    *)
(* caller goes, and a producer sleeps at a full queue: enough producers stay  *)
(* awake to fill every free place.                                            *)
LEMMA PutEnoughStep == TypeOK /\ WindowInv /\ PutEnough /\ [Next]_vars => PutEnough'
<1> SUFFICES ASSUME TypeOK, WindowInv, PutEnough, [Next]_vars PROVE PutEnough'
  OBVIOUS
<1>d. DOMAIN pc = Threads /\ Len(queue) \in Nat /\ queue \in Seq(Tasks) /\ MaxQueueSize \in Nat
  BY Numbers
<1>e. Len(queue') \in Nat /\ Len(queue') >= MaxQueueSize => PutEnough'
  BY Numbers DEF PutEnough, Count
<1>1. CASE pc' = pc /\ queue' = queue
  BY <1>1 DEF PutEnough, Count
<1>2. CASE (\E n \in StartSizes : Start(n)) \/ StartReturn \/ StopReturn
  <2>1. /\ Owner \in Threads /\ OnlyMoves(Owner) /\ queue' = queue
        /\ pc[Owner] # "put" /\ pc'[Owner] # "waitF"
    BY <1>2, <1>d, ThreadFacts DEF Start, StartReturn, StopReturn, OnlyMoves, poolVars
  <2> QED BY <2>1, MoveKeepsPut
<1>3. CASE StartThread
  <2>1. created + 1 \in Workers /\ pc[created + 1] = "none"
    BY <1>3, ThreadFacts DEF StartThread, Workers, TypeOK, PlacesOK
  <2>2. /\ created + 1 \in Threads /\ OnlyMoves(created + 1) /\ queue' = queue
        /\ pc[created + 1] # "put" /\ pc'[created + 1] # "waitF"
    BY <1>3, <2>1, <1>d, ThreadFacts DEF StartThread, OnlyMoves
  <2> QED BY <2>2, MoveKeepsPut
<1>4. CASE StopSection
  <2>1. /\ \A t \in Threads : pc'[t] = "put" <=> pc[t] = "put"
        /\ \A t \in Threads : pc'[t] = "waitF" <=> pc[t] = "waitF"
    BY <1>4, StopMoves, ThreadFacts
  <2>2. queue' = queue
    BY <1>4 DEF StopSection
  <2>3. Count(Threads, pc', "put") = Count(Threads, pc, "put")
    BY <2>1, CountStays
  <2> QED BY <2>1, <2>2, <2>3 DEF PutEnough, Count
<1>5. ASSUME NEW w \in Workers,
             ThreadInit(w) \/ LoopTest(w) \/ TakeBlock(w) \/ TakeNothing(w)
               \/ TaskSubmits(w) \/ TaskReturns(w)
      PROVE  PutEnough'
  <2>1. /\ w \in Threads /\ OnlyMoves(w) /\ queue' = queue
        /\ pc[w] # "put" /\ pc'[w] # "waitF"
    BY <1>5, <1>d, ThreadFacts
       DEF ThreadInit, LoopTest, TakeBlock, TakeNothing, TaskSubmits, TaskReturns,
           OnlyMoves, poolVars
  <2> QED BY <2>1, MoveKeepsPut
<1>6. ASSUME NEW w \in Workers, TakeTask(w) PROVE PutEnough'
  <2>1. Len(queue') = Len(queue) - 1
    BY <1>6, <1>d DEF TakeTask
  <2>2. CASE \A s \in Threads : pc[s] # "waitF"
    <3>1. \A s \in Threads : pc'[s] # "waitF"
      BY <1>6, <2>2, <1>d, TakeTaskMoves, ThreadFacts
    <3> QED BY <3>1 DEF PutEnough
  <2>3. CASE MaxQueueSize = 0
    <3>1. Len(queue') \in Nat /\ Len(queue') >= MaxQueueSize
      BY <1>6, <2>3, <1>d DEF TakeTask
    <3> QED BY <3>1, <1>e
  <2>4. CASE MaxQueueSize > 0 /\ \E s \in Threads : pc[s] = "waitF"
    <3>1. PICK s \in Putters \ {w} :
            pc[s] = "waitF" /\ pc' = [pc EXCEPT ![w] = "run", ![s] = "put"]
      BY <1>6, <2>4, TakeTaskMoves
    <3>2. /\ s \in Threads /\ pc[s] # "put" /\ pc'[s] = "put"
          /\ \A r \in Threads \ {s} : pc'[r] = "put" <=> pc[r] = "put"
      BY <1>6, <3>1, <1>d, TakeTaskMoves, ThreadFacts
    <3>3. Count(Threads, pc', "put") = Count(Threads, pc, "put") + 1
      BY <3>2, ThreadsFinite, CountArrives
    <3>4. Count(Threads, pc, "put") >= MaxQueueSize - Len(queue)
      BY <2>4 DEF PutEnough
    <3> QED BY <2>1, <3>3, <3>4, Numbers DEF PutEnough, Count
  <2> QED BY <2>2, <2>3, <2>4, <1>d
<1>7. ASSUME NEW c \in Clients, NEW x \in Tasks, RunCall(c, x) PROVE PutEnough'
  <2>1. /\ c \in Threads /\ OnlyMoves(c) /\ queue' = queue
        /\ pc[c] # "put" /\ pc'[c] # "waitF"
    BY <1>7, <1>d, ThreadFacts DEF RunCall, MayRun, OnlyMoves, poolVars
  <2> QED BY <2>1, MoveKeepsPut
<1>8. ASSUME NEW t \in Putters, PutPush(t) PROVE PutEnough'
  <2>1. Len(queue') = Len(queue) + 1
    <3>1. arg[t] \in Tasks
      BY <1>8 DEF PutPush, TypeOK, DataOK, OwnershipOK
    <3> QED BY <1>8, <3>1, <1>d DEF PutPush
  <2>2. /\ t \in Threads /\ pc[t] = "put" /\ pc'[t] # "put"
        /\ \A s \in Threads \ {t} : pc'[s] = "put" <=> pc[s] = "put"
    BY <1>8, <1>d, PutPushMoves, ThreadFacts
  <2>3. (\A s \in Threads : pc[s] # "waitF") => (\A s \in Threads : pc'[s] # "waitF")
    BY <1>8, <1>d, PutPushMoves, ThreadFacts
  <2>4. Count(Threads, pc', "put") = Count(Threads, pc, "put") - 1
    BY <2>2, ThreadsFinite, CountLeaves
  <2> QED BY <2>1, <2>3, <2>4, Numbers DEF PutEnough, Count
<1>9. ASSUME NEW t \in Putters, PutBlock(t) PROVE PutEnough'
  <2>1. Len(queue') \in Nat /\ Len(queue') >= MaxQueueSize
    BY <1>9, <1>d DEF PutBlock, IsFull, poolVars
  <2> QED BY <2>1, <1>e
<1>10. ASSUME NEW t \in Putters, SpuriousWakeup(t) PROVE PutEnough'
  <2>1. /\ t \in Threads /\ OnlyMoves(t) /\ queue' = queue
        /\ pc[t] # "put" /\ pc'[t] # "waitF"
    BY <1>10, <1>d, ThreadFacts DEF SpuriousWakeup, OnlyMoves, poolVars
  <2> QED BY <2>1, MoveKeepsPut
<1>11. ASSUME NEW t \in Putters, Sleep(t) PROVE PutEnough'
  <2>1. CASE pc[t] = "sleepF"
    <3>1. Len(queue') \in Nat /\ Len(queue') >= MaxQueueSize
      BY <1>11, <2>1, <1>d DEF Sleep, WindowInv, poolVars
    <3> QED BY <3>1, <1>e
  <2>2. CASE pc[t] = "sleepE"
    <3>1. /\ t \in Threads /\ OnlyMoves(t) /\ queue' = queue
          /\ pc[t] # "put" /\ pc'[t] # "waitF"
      BY <1>11, <2>2, <1>d, ThreadFacts DEF Sleep, OnlyMoves, poolVars
    <3> QED BY <3>1, MoveKeepsPut
  <2> QED BY <1>11, <2>1, <2>2 DEF Sleep
<1>12. ASSUME \/ JoinThread \/ UNCHANGED vars
              \/ \E w \in Workers : TaskThrows(w)
              \/ \E c \in Clients, x \in Tasks : RunInCaller(c, x)
       PROVE  pc' = pc /\ queue' = queue
  BY <1>12 DEF JoinThread, TaskThrows, RunInCaller, poolVars, vars
<1> QED
  BY <1>1, <1>2, <1>3, <1>4, <1>5, <1>6, <1>7, <1>8, <1>9, <1>10, <1>11, <1>12
     DEF Next, Step, Terminated, OwnerStep, WorkerStep, PutStep

(* At the start nobody sleeps, and nobody is between a test and a sleep. *)
LEMMA InitWakeups == Init => WindowInv /\ TakeEnough /\ PutEnough
BY ThreadFacts DEF Init, WindowInv, TakeEnough, PutEnough

(* The counts hold in every behaviour. *)
LEMMA WakeupInvariance == Spec => [](WindowInv /\ TakeEnough /\ PutEnough)
BY InitWakeups, WindowStep, TakeEnoughStep, PutEnoughStep, TypeInvariance, PTL DEF Spec

(* One notify() per push never leaves a queued task to sleeping workers only, *)
(* for any number of workers and clients and any bound.                       *)
THEOREM PoolWakesWorkers == Spec => []NoLostTakeWakeup
BY WakeupInvariance, EnoughIsNoLostWakeup, PTL

(* One notify() per pop never leaves a free place to sleeping callers only.   *)
THEOREM PoolWakesProducers == Spec => []NoLostPutWakeup
BY WakeupInvariance, EnoughIsNoLostWakeup, PTL

-----------------------------------------------------------------------------
Elems(q) == {q[i] : i \in 1..Len(q)}

Distinct(q) == \A i, j \in 1..Len(q) : q[i] = q[j] => i = j

(* push_back() of something new keeps the elements of a queue apart. *)
LEMMA AppendElems ==
  ASSUME NEW S, NEW q \in Seq(S), NEW x \in S
  PROVE  /\ Elems(Append(q, x)) = Elems(q) \cup {x}
         /\ Distinct(q) /\ x \notin Elems(q) => Distinct(Append(q, x))
<1> DEFINE p == Append(q, x)
<1>1. /\ Len(q) \in Nat /\ Len(p) = Len(q) + 1 /\ p[Len(q) + 1] = x
      /\ \A i \in 1..Len(q) : p[i] = q[i]
  OBVIOUS
<1>2. \A i \in 1..Len(p) : i \in 1..Len(q) \/ i = Len(q) + 1
  BY <1>1
<1>3. \A i \in 1..Len(q) : i \in 1..Len(p)
  BY <1>1
<1>4. Len(q) + 1 \in 1..Len(p)
  BY <1>1
<1> HIDE DEF p
<1>5. Elems(p) = Elems(q) \cup {x}
  BY <1>1, <1>2, <1>3, <1>4 DEF Elems
<1>6. Distinct(q) /\ x \notin Elems(q) => Distinct(p)
  BY <1>1, <1>2 DEF Elems, Distinct
<1> QED BY <1>5, <1>6 DEF p

(* pop_front() takes the head away for good. *)
LEMMA TailElems ==
  ASSUME NEW S, NEW q \in Seq(S), q # <<>>
  PROVE  /\ Elems(q) = {Head(q)} \cup Elems(Tail(q))
         /\ Distinct(q) => Distinct(Tail(q)) /\ Head(q) \notin Elems(Tail(q))
<1> DEFINE p == Tail(q)
<1>1. /\ Len(q) \in Nat /\ Len(p) \in Nat /\ Len(q) = Len(p) + 1 /\ Head(q) = q[1]
      /\ \A i \in 1..Len(p) : p[i] = q[i + 1]
  BY HeadTailProperties
<1>2. \A i \in 1..Len(p) : i + 1 \in 1..Len(q)
  BY <1>1
<1>3. \A i \in 1..Len(q) : i = 1 \/ (i - 1 \in 1..Len(p) /\ i = (i - 1) + 1)
  BY <1>1
<1>4. 1 \in 1..Len(q)
  BY <1>1
<1> HIDE DEF p
<1>5. Elems(q) = {q[1]} \cup Elems(p)
  <2>1. \A i \in 1..Len(q) : q[i] = q[1] \/ \E j \in 1..Len(p) : p[j] = q[i]
    BY <1>1, <1>3
  <2>2. \A j \in 1..Len(p) : \E i \in 1..Len(q) : p[j] = q[i]
    BY <1>1, <1>2
  <2>3. \A y \in Elems(q) : y \in {q[1]} \cup Elems(p)
    BY <2>1 DEF Elems
  <2>4. \A y \in {q[1]} \cup Elems(p) : y \in Elems(q)
    BY <1>4, <2>2 DEF Elems
  <2> QED BY <2>3, <2>4
<1>6. ASSUME Distinct(q) PROVE Distinct(p) /\ q[1] \notin Elems(p)
  <2>1. \A i \in 1..Len(p) : i \in Nat /\ i # 0
    BY <1>1
  <2> QED BY <1>1, <1>2, <1>4, <1>6, <2>1 DEF Elems, Distinct
<1> QED BY <1>1, <1>5, <1>6 DEF p

-----------------------------------------------------------------------------
(* A task that was submitted is in one place: the argument of one call, the   *)
(* queue, the hands of one worker, or among the finished ones.                *)
QueuePlace ==
  /\ Distinct(queue)
  /\ Elems(queue) \subseteq submitted /\ finished \subseteq submitted
  /\ Elems(queue) \cap finished = {}

ArgPlace ==
  \A t \in Putters : arg[t] # NoTask =>
    /\ arg[t] \in submitted /\ arg[t] \notin Elems(queue) /\ arg[t] \notin finished
    /\ \A s \in Putters : arg[s] = arg[t] => s = t
    /\ \A w \in Workers : cur[w] # arg[t]

CurPlace ==
  \A w \in Workers : cur[w] # NoTask =>
    /\ cur[w] \in submitted /\ cur[w] \notin Elems(queue) /\ cur[w] \notin finished
    /\ \A v \in Workers : cur[v] = cur[w] => v = w

(* A nested task is submitted by its parent only. *)
NestedPlace == \A x \in Tasks : Nested[x] \in submitted => x \in submitted

PlaceInv == QueuePlace /\ ArgPlace /\ CurPlace /\ NestedPlace

(* What no thread inside the pool has in its hands is left alone. *)
LEMMA PlaceUnchanged ==
  ASSUME PlaceInv, UNCHANGED <<queue, arg, cur, submitted, finished>>
  PROVE  PlaceInv'
BY DEF PlaceInv, QueuePlace, ArgPlace, CurPlace, NestedPlace, Elems, Distinct

(* A new task comes into the argument of a call. *)
LEMMA PlaceSubmit ==
  ASSUME PlaceInv, TypeOK, NEW t \in Putters, NEW x \in Tasks, x \notin submitted,
         arg[t] = NoTask, arg' = [arg EXCEPT ![t] = x], submitted' = submitted \cup {x},
         UNCHANGED <<queue, cur, finished>>,
         \A y \in Tasks : Nested[y] = x => y \in submitted
  PROVE  PlaceInv'
<1>1. x # NoTask /\ DOMAIN arg = Putters
  BY ThreadFacts DEF TypeOK, DataOK
<1>2. Elems(queue') = Elems(queue) /\ (Distinct(queue) => Distinct(queue'))
  BY DEF Elems, Distinct
<1>3. QueuePlace'
  BY <1>2 DEF PlaceInv, QueuePlace
<1>4. ArgPlace'
  BY <1>1, <1>2 DEF PlaceInv, QueuePlace, ArgPlace, CurPlace
<1>5. CurPlace'
  BY <1>2 DEF PlaceInv, CurPlace
<1>6. NestedPlace'
  BY DEF PlaceInv, NestedPlace
<1> QED BY <1>3, <1>4, <1>5, <1>6 DEF PlaceInv

(* take(): from the queue to a worker *)
LEMMA PlaceTake ==
  ASSUME PlaceInv, TypeOK, NEW w \in Workers, TakeTask(w)
  PROVE  PlaceInv'
<1> DEFINE x == Head(queue)
<1>1. /\ queue \in Seq(Tasks) /\ queue # <<>> /\ cur[w] = NoTask /\ DOMAIN cur = Workers
      /\ queue' = Tail(queue) /\ cur' = [cur EXCEPT ![w] = x]
      /\ UNCHANGED <<arg, submitted, finished>>
  BY DEF TakeTask, TypeOK, DataOK, OwnershipOK
<1>2. x \in Tasks /\ x # NoTask
  BY <1>1, ThreadFacts
<1>3. /\ Distinct(queue') /\ x \notin Elems(queue') /\ Elems(queue) = {x} \cup Elems(queue')
  BY <1>1, TailElems DEF PlaceInv, QueuePlace
<1> HIDE DEF x
<1>4. QueuePlace'
  BY <1>1, <1>3 DEF PlaceInv, QueuePlace
<1>5. ArgPlace'
  BY <1>1, <1>3 DEF PlaceInv, ArgPlace
<1>6. CurPlace'
  BY <1>1, <1>2, <1>3 DEF PlaceInv, QueuePlace, CurPlace
<1>7. NestedPlace'
  BY <1>1 DEF PlaceInv, NestedPlace
<1> QED BY <1>4, <1>5, <1>6, <1>7 DEF PlaceInv

(* run(): from the argument to the queue *)
LEMMA PlacePush ==
  ASSUME PlaceInv, TypeOK, NEW t \in Putters, PutPush(t)
  PROVE  PlaceInv'
<1> DEFINE x == arg[t]
<1>1. /\ queue \in Seq(Tasks) /\ x \in Tasks /\ x # NoTask /\ DOMAIN arg = Putters
      /\ queue' = Append(queue, x) /\ arg' = [arg EXCEPT ![t] = NoTask]
      /\ UNCHANGED <<cur, submitted, finished>>
  BY ThreadFacts DEF PutPush, TypeOK, DataOK, OwnershipOK
<1>2. /\ x \in submitted /\ x \notin Elems(queue) /\ x \notin finished
      /\ \A s \in Putters : arg[s] = x => s = t
      /\ \A w \in Workers : cur[w] # x
  BY <1>1 DEF PlaceInv, ArgPlace
<1>3. Distinct(queue') /\ Elems(queue') = Elems(queue) \cup {x}
  BY <1>1, <1>2, AppendElems DEF PlaceInv, QueuePlace
<1> HIDE DEF x
<1>4. QueuePlace'
  BY <1>1, <1>2, <1>3 DEF PlaceInv, QueuePlace
<1>5. ArgPlace'
  BY <1>1, <1>2, <1>3 DEF PlaceInv, ArgPlace
<1>6. CurPlace'
  BY <1>1, <1>2, <1>3 DEF PlaceInv, CurPlace
<1>7. NestedPlace'
  BY <1>1 DEF PlaceInv, NestedPlace
<1> QED BY <1>4, <1>5, <1>6, <1>7 DEF PlaceInv

(* A task returns: from its worker to the finished ones. *)
LEMMA PlaceReturn ==
  ASSUME PlaceInv, TypeOK, NEW w \in Workers, TaskReturns(w)
  PROVE  PlaceInv'
<1>1. /\ cur[w] # NoTask /\ DOMAIN cur = Workers
      /\ cur' = [cur EXCEPT ![w] = NoTask] /\ finished' = finished \cup {cur[w]}
      /\ UNCHANGED <<queue, arg, submitted>>
  BY DEF TaskReturns, TypeOK, DataOK, OwnershipOK, poolVars
<1>2. Elems(queue') = Elems(queue) /\ (Distinct(queue) => Distinct(queue'))
  BY <1>1 DEF Elems, Distinct
<1>3. QueuePlace'
  BY <1>1, <1>2 DEF PlaceInv, QueuePlace, CurPlace
<1>4. ArgPlace'
  BY <1>1, <1>2 DEF PlaceInv, ArgPlace
<1>5. CurPlace'
  BY <1>1, <1>2 DEF PlaceInv, CurPlace
<1>6. NestedPlace'
  BY <1>1 DEF PlaceInv, NestedPlace
<1> QED BY <1>3, <1>4, <1>5, <1>6 DEF PlaceInv

(* A client runs a task and its nested one: both are finished at once. *)
LEMMA PlaceDirect ==
  ASSUME PlaceInv, TypeOK, NEW c \in Clients, NEW x \in Tasks, RunInCaller(c, x)
  PROVE  /\ PlaceInv'
         /\ ({x, Nested[x]} \ {NoTask}) \cap submitted = {}
<1> DEFINE X == {x, Nested[x]} \ {NoTask}
<1>1. /\ x \notin submitted /\ \A y \in Tasks : Nested[y] # x
      /\ finished' = finished \cup X /\ submitted' = submitted \cup X
      /\ UNCHANGED <<queue, arg, cur>>
  BY DEF RunInCaller, MayRun, poolVars
<1>2. X \cap submitted = {}
  BY <1>1 DEF PlaceInv, NestedPlace
<1>3. \A y \in Tasks : Nested[y] \in X => y \in X
  BY <1>1, PoolAssumption
<1> HIDE DEF X
<1>4. Elems(queue') = Elems(queue) /\ (Distinct(queue) => Distinct(queue'))
  BY <1>1 DEF Elems, Distinct
<1>5. QueuePlace'
  BY <1>1, <1>2, <1>4 DEF PlaceInv, QueuePlace
<1>6. ArgPlace'
  BY <1>1, <1>2, <1>4 DEF PlaceInv, ArgPlace
<1>7. CurPlace'
  BY <1>1, <1>2, <1>4 DEF PlaceInv, CurPlace
<1>8. NestedPlace'
  BY <1>1, <1>3 DEF PlaceInv, NestedPlace
<1> QED BY <1>2, <1>5, <1>6, <1>7, <1>8 DEF PlaceInv, X

(* Every step keeps each task in one place. *)
LEMMA PlaceStep == TypeOK /\ PlaceInv /\ [Next]_vars => PlaceInv'
<1> SUFFICES ASSUME TypeOK, PlaceInv, [Next]_vars PROVE PlaceInv'
  OBVIOUS
<1>1. CASE UNCHANGED <<queue, arg, cur, submitted, finished>>
  BY <1>1, PlaceUnchanged
<1>2. ASSUME NEW w \in Workers, TaskSubmits(w) PROVE PlaceInv'
  <2>1. /\ cur[w] \in Tasks /\ cur[w] \in submitted /\ arg[w] = NoTask /\ w \in Putters
        /\ Nested[cur[w]] # NoTask
    BY <1>2, ThreadFacts DEF TaskSubmits, TypeOK, DataOK, OwnershipOK, PlaceInv, CurPlace
  <2>2. /\ Nested[cur[w]] \in Tasks
        /\ \A y \in Tasks : Nested[y] = Nested[cur[w]] => y = cur[w]
    BY <2>1, PoolAssumption
  <2>3. /\ Nested[cur[w]] \notin submitted
        /\ arg' = [arg EXCEPT ![w] = Nested[cur[w]]]
        /\ submitted' = submitted \cup {Nested[cur[w]]}
        /\ UNCHANGED <<queue, cur, finished>>
    BY <1>2 DEF TaskSubmits, poolVars
  <2> QED BY <2>1, <2>2, <2>3, PlaceSubmit
<1>3. ASSUME NEW c \in Clients, NEW x \in Tasks, RunCall(c, x) PROVE PlaceInv'
  <2>1. /\ c \in Putters /\ arg[c] = NoTask /\ x \notin submitted
        /\ \A y \in Tasks : Nested[y] # x
        /\ arg' = [arg EXCEPT ![c] = x] /\ submitted' = submitted \cup {x}
        /\ UNCHANGED <<queue, cur, finished>>
    BY <1>3, ThreadFacts DEF RunCall, MayRun, TypeOK, OwnershipOK, poolVars
  <2> QED BY <2>1, PlaceSubmit
<1>4. ASSUME \/ OwnerStep \/ UNCHANGED vars
             \/ \E w \in Workers : \/ ThreadInit(w) \/ LoopTest(w) \/ TakeBlock(w)
                                   \/ TakeNothing(w) \/ TaskThrows(w)
             \/ \E t \in Putters : PutBlock(t) \/ Sleep(t) \/ SpuriousWakeup(t)
      PROVE  UNCHANGED <<queue, arg, cur, submitted, finished>>
  BY <1>4
     DEF OwnerStep, Start, StartThread, StartReturn, StopSection, JoinThread, StopReturn,
         ThreadInit, LoopTest, TakeBlock, TakeNothing, TaskThrows,
         PutBlock, Sleep, SpuriousWakeup, vars, poolVars, history
<1> QED
  BY <1>1, <1>2, <1>3, <1>4, PlaceTake, PlacePush, PlaceReturn, PlaceDirect
     DEF Next, Step, Terminated, WorkerStep, PutStep

-----------------------------------------------------------------------------
(* stop() joins the threads in their order, and a thread that has ended does  *)
(* nothing any more.                                                          *)
JoinInv ==
  /\ \A w \in Workers : w <= joined => pc[w] = "exit"
  /\ pc[Owner] = "stopped" => joined = created
  /\ joined > 0 => pc[Owner] \in {"join", "stopped"}

(* Every step keeps it so. *)
LEMMA JoinStep == TypeOK /\ JoinInv /\ [Next]_vars => JoinInv'
<1> SUFFICES ASSUME TypeOK, JoinInv, [Next]_vars PROVE JoinInv'
  OBVIOUS
<1> USE ThreadFacts DEF JoinInv
<1>p. /\ DOMAIN pc = Threads /\ created \in Nat /\ joined \in Nat
      /\ \A c \in Clients : pc[c] \in ClientPlaces
  BY PoolAssumption DEF TypeOK, PlacesOK
<1>1. CASE UNCHANGED vars
  BY <1>1 DEF vars, poolVars
<1>2. CASE (\E n \in StartSizes : Start(n)) \/ StartReturn \/ StopReturn
  BY <1>2, <1>p DEF Start, StartReturn, StopReturn, poolVars
<1>3. CASE StartThread
  <2>1. created + 1 \in Workers /\ joined = 0
    BY <1>3, <1>p DEF StartThread, Workers, TypeOK, PlacesOK
  <2> QED BY <1>3, <1>p, <2>1 DEF StartThread, Workers
<1>4. CASE StopSection
  <2>1. /\ UNCHANGED <<created, joined>> /\ pc'[Owner] = "join"
        /\ \A t \in Putters : pc'[t] = IF pc[t] = "waitE" THEN "take" ELSE pc[t]
    BY <1>4, StopMoves DEF StopSection
  <2> QED BY <2>1
<1>5. CASE JoinThread
  BY <1>5, <1>p DEF JoinThread, Workers
<1>6. ASSUME NEW w \in Workers,
             ThreadInit(w) \/ LoopTest(w) \/ TakeBlock(w) \/ TakeNothing(w)
               \/ TaskThrows(w) \/ TaskSubmits(w) \/ TaskReturns(w)
      PROVE  JoinInv'
  BY <1>6, <1>p
     DEF ThreadInit, LoopTest, TakeBlock, TakeNothing, TaskThrows, TaskSubmits, TaskReturns, poolVars
<1>7. ASSUME NEW w \in Workers, TakeTask(w) PROVE JoinInv'
  <2>1. UNCHANGED <<created, joined>>
    BY <1>7 DEF TakeTask
  <2> QED BY <1>7, <1>p, <2>1, TakeTaskMoves
<1>8. ASSUME NEW c \in Clients, NEW x \in Tasks, RunInCaller(c, x) \/ RunCall(c, x)
      PROVE  JoinInv'
  BY <1>8, <1>p DEF RunInCaller, RunCall, poolVars
<1>9. ASSUME NEW t \in Putters, PutPush(t) PROVE JoinInv'
  <2>1. UNCHANGED <<created, joined>>
    BY <1>9 DEF PutPush
  <2> QED BY <1>9, <1>p, <2>1, PutPushMoves
<1>10. ASSUME NEW t \in Putters, PutBlock(t) \/ Sleep(t) \/ SpuriousWakeup(t) PROVE JoinInv'
  BY <1>10, <1>p DEF PutBlock, Sleep, SpuriousWakeup, poolVars
<1> QED
  BY <1>1, <1>2, <1>3, <1>4, <1>5, <1>6, <1>7, <1>8, <1>9, <1>10
     DEF Next, Step, Terminated, OwnerStep, WorkerStep, PutStep

(* Both hold in every behaviour. *)
LEMMA PlaceInvariance == Spec => [](TypeOK /\ PlaceInv /\ JoinInv)
<1>1. Init => PlaceInv
  BY PoolAssumption DEF Init, PlaceInv, QueuePlace, ArgPlace, CurPlace, NestedPlace, Elems, Distinct
<1>2. Init => JoinInv
  BY ThreadFacts DEF Init, JoinInv, Workers
<1> QED BY <1>1, <1>2, PlaceStep, JoinStep, TypeInvariance, PTL DEF Spec

-----------------------------------------------------------------------------
(* What the executor knows of are tasks in the queue, in the hands of a       *)
(* worker, or finished.                                                       *)
LEMMA KnownTasks ==
  Executor!Known = Elems(queue) \cup ({cur[w] : w \in Workers} \ {NoTask}) \cup finished
BY DEF Executor!Known, Elems

(* All of them have been submitted. *)
LEMMA KnownSubmitted == PlaceInv => Executor!Known \subseteq submitted
BY KnownTasks DEF PlaceInv, QueuePlace, CurPlace

(* A pool that has stopped has no worker that is not at its end. *)
LEMMA StoppedWorkers ==
  ASSUME TypeOK, JoinInv, joined = created, NEW w \in Workers
  PROVE  pc[w] \in {"none", "exit"} /\ cur[w] = NoTask
<1>1. w \in Nat /\ created \in Nat /\ joined \in Nat
  BY PoolAssumption DEF TypeOK, PlacesOK, Workers
<1>2. pc[w] \in {"none", "exit"}
  BY <1>1 DEF JoinInv, TypeOK, PlacesOK
<1> QED BY <1>2 DEF TypeOK, OwnershipOK

(* Each step of the pool is one of the executor's, or one it does not see.    *)
LEMMA ExecutorStep ==
  TypeOK /\ PlaceInv /\ JoinInv /\ [Next]_vars => [Executor!Next]_(Executor!executorVars)
<1> SUFFICES ASSUME TypeOK, PlaceInv, JoinInv, [Next]_vars
             PROVE  [Executor!Next]_(Executor!executorVars)
  OBVIOUS
<1>p. /\ DOMAIN pc = Threads /\ created \in Nat /\ pc[Owner] \in OwnerPlaces
      /\ DOMAIN cur = Workers
      /\ \A w \in Workers : pc[w] # "none" <=> w <= created
  BY PoolAssumption DEF TypeOK, PlacesOK, DataOK
<1>1. CASE StartThread
  <2>1. /\ created' = created + 1 /\ UNCHANGED <<queue, cur, finished>>
        /\ pc[Owner] # "stopped" /\ pc'[Owner] # "stopped"
    <3>1. created + 1 \in Workers
      BY <1>1, ThreadFacts DEF StartThread, Workers, TypeOK, PlacesOK
    <3> QED BY <1>1, <1>p, <3>1, ThreadFacts DEF StartThread, history
  <2>2. CASE created = 0
    <3>1. Executor!Man
      BY <1>p, <2>1, <2>2 DEF Executor!Man
    <3> QED BY <3>1 DEF Executor!Next
  <2>3. CASE created # 0
    BY <1>p, <2>1, <2>3 DEF Executor!executorVars
  <2> QED BY <2>2, <2>3
<1>2. ASSUME NEW w \in Workers, TakeTask(w) PROVE Executor!Begin
  <2>1. /\ UNCHANGED <<created, finished>> /\ queue # <<>>
        /\ queue' = Tail(queue) /\ cur' = [cur EXCEPT ![w] = Head(queue)]
        /\ pc[w] = "take"
    BY <1>2 DEF TakeTask
  <2>2. pc'[Owner] = pc[Owner]
    BY <1>2, <1>p, TakeTaskMoves, ThreadFacts
  <2>3. created > 0 /\ pc[Owner] # "stopped"
    <3>1. w \in Nat /\ w > 0 /\ w <= created
      BY <1>p, <2>1, PoolAssumption DEF Workers
    <3>2. pc[Owner] # "stopped"
      BY <2>1, StoppedWorkers DEF JoinInv
    <3> QED BY <1>p, <3>1, <3>2
  <2>4. cur[w] = NoTask /\ Head(queue) # NoTask
    <3>1. queue \in Seq(Tasks) /\ cur[w] = NoTask
      BY <2>1 DEF TypeOK, OwnershipOK, DataOK
    <3> QED BY <2>1, <3>1, ThreadFacts
  <2>5. {cur'[v] : v \in Workers} \ {NoTask}
          = ({cur[v] : v \in Workers} \ {NoTask}) \cup {Head(queue)}
    BY <1>p, <2>1, <2>4
  <2> QED BY <2>1, <2>2, <2>3, <2>5 DEF Executor!Begin
<1>3. ASSUME NEW w \in Workers, TaskReturns(w)
      PROVE  Executor!Next
  <2>1. /\ cur[w] \in Tasks /\ cur[w] # NoTask /\ cur' = [cur EXCEPT ![w] = NoTask]
        /\ finished' = finished \cup {cur[w]} /\ UNCHANGED <<queue, created>>
    BY <1>3, ThreadFacts DEF TaskReturns, TypeOK, DataOK, OwnershipOK, poolVars
  <2>2. pc'[Owner] = pc[Owner]
    BY <1>3, <1>p, ThreadFacts DEF TaskReturns
  <2>3. \A v \in Workers : cur[v] = cur[w] => v = w
    BY <2>1 DEF PlaceInv, CurPlace
  <2>4. {cur'[v] : v \in Workers} \ {NoTask} = ({cur[v] : v \in Workers} \ {NoTask}) \ {cur[w]}
    BY <1>p, <2>1, <2>3
  <2>5. PICK x \in Tasks : x = cur[w]
    BY <2>1
  <2>6. Executor!Finish(x)
    BY <2>1, <2>2, <2>4, <2>5 DEF Executor!Finish
  <2> QED BY <2>6 DEF Executor!Next
<1>4. ASSUME NEW t \in Putters, PutPush(t)
      PROVE  Executor!Next
  <2>1. /\ arg[t] \in Tasks /\ arg[t] # NoTask /\ queue' = Append(queue, arg[t]) /\ ~IsFull
        /\ UNCHANGED <<created, cur, finished>>
    BY <1>4, ThreadFacts DEF PutPush, TypeOK, DataOK, OwnershipOK
  <2>2. pc'[Owner] = pc[Owner]
    BY <1>4, <1>p, PutPushMoves, ThreadFacts
  <2>3. arg[t] \notin Executor!Known
    BY <2>1, KnownTasks DEF PlaceInv, ArgPlace
  <2>4. MaxQueueSize = 0 \/ Len(queue) < MaxQueueSize
    BY <2>1, PoolAssumption DEF IsFull, TypeOK, DataOK
  <2>5. Executor!Accept(arg[t])
    BY <2>1, <2>2, <2>3, <2>4 DEF Executor!Accept
  <2> QED BY <2>1, <2>5 DEF Executor!Next
<1>5. ASSUME NEW c \in Clients, NEW x \in Tasks, RunInCaller(c, x)
      PROVE  Executor!Next
  <2> DEFINE X == {x, Nested[x]} \ {NoTask}
  <2>1. X \subseteq Tasks
    BY PoolAssumption
  <2>2. X \cap Executor!Known = {}
    BY <1>5, PlaceDirect, KnownSubmitted
  <2>3. /\ created = 0 /\ finished' = finished \cup X
        /\ UNCHANGED <<queue, created, cur, pc>>
    BY <1>5 DEF RunInCaller, poolVars
  <2> HIDE DEF X
  <2>4. Executor!RunDirectly(X)
    BY <2>2, <2>3 DEF Executor!RunDirectly
  <2> QED BY <2>1, <2>4 DEF Executor!Next
<1>6. CASE StopReturn
  <2>1. /\ pc[Owner] = "join" /\ pc'[Owner] = "stopped" /\ joined = created
        /\ UNCHANGED <<queue, created, cur, finished>>
    BY <1>6, <1>p, ThreadFacts DEF StopReturn, poolVars, history
  <2>2. {cur[w] : w \in Workers} \ {NoTask} = {}
    BY <2>1, StoppedWorkers
  <2>3. Executor!Close
    BY <2>1, <2>2 DEF Executor!Close
  <2> QED BY <2>3 DEF Executor!Next
<1>7. ASSUME \/ \E n \in StartSizes : Start(n)
             \/ StartReturn \/ StopSection \/ JoinThread \/ UNCHANGED vars
             \/ \E w \in Workers : \/ ThreadInit(w) \/ LoopTest(w) \/ TakeBlock(w)
                                   \/ TakeNothing(w) \/ TaskThrows(w) \/ TaskSubmits(w)
             \/ \E c \in Clients, x \in Tasks : RunCall(c, x)
             \/ \E t \in Putters : PutBlock(t) \/ Sleep(t) \/ SpuriousWakeup(t)
      PROVE  UNCHANGED Executor!executorVars
  <2>1. UNCHANGED <<queue, created, cur, finished>>
    BY <1>7
       DEF Start, StartReturn, StopSection, JoinThread, ThreadInit, LoopTest, TakeBlock,
           TakeNothing, TaskThrows, TaskSubmits, RunCall, PutBlock, Sleep, SpuriousWakeup,
           vars, poolVars, history
  <2>2. pc'[Owner] = "stopped" <=> pc[Owner] = "stopped"
    <3>1. CASE StopSection
      BY <3>1, StopMoves
    <3>2. CASE ~StopSection
      BY <1>7, <1>p, <3>2, ThreadFacts
         DEF Start, StartReturn, JoinThread, ThreadInit, LoopTest, TakeBlock,
             TakeNothing, TaskThrows, TaskSubmits, RunCall, PutBlock, Sleep, SpuriousWakeup, vars
    <3> QED BY <3>1, <3>2
  <2> QED BY <2>1, <2>2 DEF Executor!executorVars
<1>8. (\E w \in Workers : TakeTask(w)) => Executor!Next
  BY <1>2 DEF Executor!Next
<1> QED
  BY <1>1, <1>3, <1>4, <1>5, <1>6, <1>7, <1>8
     DEF Next, Step, Terminated, OwnerStep, WorkerStep, PutStep

(* Any pool is a TaskExecutor: its threads begin the tasks in the order in    *)
(* which run() has accepted them, each once; callers run tasks themselves     *)
(* only while there are no threads; and stop() returns when nothing runs, and *)
(* nothing is begun after it.                                                 *)
THEOREM PoolIsExecutor == Spec => ImplementsExecutor
<1>1. Init => Executor!Init
  BY ThreadFacts DEF Init, Executor!Init
<1> QED
  BY <1>1, PlaceInvariance, ExecutorStep, PTL DEF Spec, ImplementsExecutor, Executor!Spec

-----------------------------------------------------------------------------
(* The program: main(), the pool and the latch.                               *)

(* step counts the calls of run() and that of wait(). *)
StepOK == step \in 0..(Len(Script) + 1)

LEMMA StepOKStep == StepOK /\ [TestNext]_testVars => StepOK'
<1> SUFFICES ASSUME StepOK, [TestNext]_testVars PROVE StepOK'
  OBVIOUS
<1>1. Len(Script) \in Nat
  BY TestAssumption
<1>2. step' = step \/ (step < Len(Script) /\ step' = step + 1) \/ (step = Len(Script) /\ step' = step + 1)
  BY DEF TestNext, testVars, MainStarts, MainRuns, MainWaits, InsideWait, MainWakesAlone, MainStops,
         WorkerMoves, WorkerCounts, OtherRuns, PoolGoesOn, TestTerminated
<1> QED BY <1>1, <1>2 DEF StepOK

(* A step of the program is one of the pool, or leaves it alone. *)
LEMMA TestStepsPool == StepOK /\ [TestNext]_testVars => [Next]_vars
<1> SUFFICES ASSUME StepOK, [TestNext]_testVars PROVE [Next]_vars
  OBVIOUS
<1>1. ASSUME MainRuns, ~aborted PROVE Next
  <2>1. Script[step + 1] \in Tasks
    <3>1. step + 1 \in 1..Len(Script)
      BY <1>1, TestAssumption DEF MainRuns, StepOK
    <3> QED BY <3>1, TestAssumption
  <2> QED BY <1>1, <2>1, TestAssumption DEF MainRuns, Next, Step
<1>2. ASSUME OtherRuns, ~aborted PROVE Next
  BY <1>2 DEF OtherRuns, Next, Step
<1>3. ASSUME MainStarts \/ MainStops \/ PoolGoesOn, ~aborted PROVE Next
  BY <1>3 DEF MainStarts, MainStops, PoolGoesOn, Next, Step, OwnerStep
<1>4. ASSUME NEW w \in Workers, WorkerMoves(w), ~aborted PROVE Next
  BY <1>4 DEF WorkerMoves, Next, Step
<1>5. ASSUME \/ MainWaits \/ InsideWait \/ MainWakesAlone \/ UNCHANGED testVars
             \/ \E w \in Workers : WorkerCounts(w)
      PROVE  UNCHANGED vars
  BY <1>5 DEF MainWaits, InsideWait, MainWakesAlone, WorkerCounts, testVars
<1>6. ASSUME TestTerminated PROVE Next
  BY <1>6 DEF TestTerminated, Next
<1> QED BY <1>1, <1>2, <1>3, <1>4, <1>5, <1>6 DEF TestNext

(* A step of the program is one of the latch, or leaves it alone. *)
LEMMA TestStepsLatch == [TestNext]_testVars => [LatchNext]_latchVars
<1> SUFFICES ASSUME [TestNext]_testVars PROVE [LatchNext]_latchVars
  OBVIOUS
<1>0. Owner \in LatchThreads /\ Workers \subseteq LatchThreads
  BY TestAssumption
<1>1. CASE MainStarts \/ MainRuns \/ MainStops \/ OtherRuns \/ PoolGoesOn \/ TestTerminated \/ UNCHANGED testVars
  BY <1>1 DEF MainStarts, MainRuns, MainStops, OtherRuns, PoolGoesOn, TestTerminated, testVars
<1>2. CASE MainWaits \/ InsideWait \/ MainWakesAlone
  BY <1>0, <1>2 DEF MainWaits, InsideWait, MainWakesAlone, LatchNext
<1>3. ASSUME NEW w \in Workers, WorkerMoves(w) \/ WorkerCounts(w) PROVE [LatchNext]_latchVars
  BY <1>0, <1>3 DEF WorkerMoves, WorkerCounts, LatchNext
<1> QED BY <1>1, <1>2, <1>3 DEF TestNext

(* The program uses the pool and the latch as their specifications allow, so  *)
(* that what is proved of each of them holds in it.                           *)
THEOREM TestUsesPoolAndLatch ==
  TestSpec => Spec /\ LatchSpec /\ ImplementsExecutor /\ []NoLostTakeWakeup /\ []NoSleeperBehindOpenLatch
<1>1. TestInit => Init /\ LatchInit /\ StepOK
  BY TestAssumption DEF TestInit, StepOK
<1>2. TestSpec => Spec /\ LatchSpec
  BY <1>1, StepOKStep, TestStepsPool, TestStepsLatch, PTL DEF TestSpec, Spec, LatchSpec
<1> QED BY <1>2, PoolIsExecutor, PoolWakesWorkers, LatchWakesEverybody, PTL

(* Two queues in a row *)
Row(b, q) == b \o q

(* What has been accepted is what has been begun and then what is queued, and *)
(* a task that has been begun is in the hands of a worker or finished.        *)
BegunInv ==
  /\ accepted = Row(begun, queue)
  /\ \A w \in Workers : cur[w] # NoTask => cur[w] \in Elems(begun)
  /\ \A x \in Elems(begun) : x \in finished \/ \E w \in Workers : cur[w] = x

(* main() alone passes the tasks of the script to the pool, in their order:   *)
(* those before the last it has passed are accepted, and behind the latch     *)
(* task none is missing.                                                      *)
ScriptInv ==
  /\ StepOK
  /\ \A t \in Putters : arg[t] \in Range(Script) => t = Main
  /\ arg[Main] # NoTask => step \in 1..Len(Script) /\ arg[Main] = Script[step]
  /\ \A i \in 1..Len(Script) : i <= step => Script[i] = arg[Main] \/ Script[i] \in Elems(accepted)
  /\ \A j \in 1..Len(accepted) : accepted[j] = LatchTask =>
       \A i \in 1..Len(Script) : \E k \in 1..j : accepted[k] = Script[i]

(* The latch is opened by its task, and main() is past wait() only then, and  *)
(* inside stop() only past wait().                                            *)
OpenInv ==
  /\ count \in {0, 1}
  /\ LatchTask \in finished => count = 0
  /\ count = 0 => LatchTask \in Elems(begun)
  /\ Waited => count <= 0
  /\ pc[Owner] \in {"join", "stopped"} => Waited

(* Pushing to the end of the second of two queues is pushing to both in a row. *)
LEMMA RowPush ==
  ASSUME NEW S, NEW b \in Seq(S), NEW q \in Seq(S), NEW x \in S
  PROVE  Append(Row(b, q), x) = Row(b, Append(q, x))
<1>1. <<x>> \in Seq(S) /\ b \o q \in Seq(S)
  BY ConcatProperties
<1>2. (b \o q) \o <<x>> = b \o (q \o <<x>>)
  BY <1>1, ConcatAssociative
<1> QED BY <1>1, <1>2, AppendIsConcat DEF Row

(* Moving the head of the second queue to the end of the first changes nothing. *)
LEMMA RowMove ==
  ASSUME NEW S, NEW b \in Seq(S), NEW q \in Seq(S), q # <<>>
  PROVE  Row(Append(b, Head(q)), Tail(q)) = Row(b, q)
<1> DEFINE h == Head(q)
           r == Tail(q)
           t == <<h>> \o r
<1>1. /\ h \in S /\ r \in Seq(S) /\ Len(q) \in Nat /\ Len(q) > 0 /\ h = q[1]
      /\ Len(r) = Len(q) - 1 /\ \A i \in 1..Len(r) : r[i] = q[i + 1]
  BY HeadTailProperties
<1> HIDE DEF h, r
<1>2. <<h>> \in Seq(S) /\ Len(<<h>>) = 1 /\ <<h>>[1] = h
  BY <1>1
<1>3. t \in Seq(S) /\ Len(t) = Len(q) /\ \A i \in 1..Len(q) : t[i] = IF i <= 1 THEN <<h>>[i] ELSE r[i - 1]
  BY <1>1, <1>2, ConcatProperties
<1>4. \A i \in 1..Len(t) : t[i] = q[i]
  BY <1>1, <1>2, <1>3
<1> HIDE DEF t
<1>5. t = q
  BY <1>3, <1>4, SeqEqual
<1>6. Append(b, h) = b \o <<h>>
  BY <1>1, AppendIsConcat
<1>7. (b \o <<h>>) \o r = b \o (<<h>> \o r)
  BY <1>1, <1>2, ConcatAssociative
<1> QED BY <1>5, <1>6, <1>7 DEF t, h, r, Row

(* Every step of the pool keeps the order of the tasks. *)
LEMMA BegunStep == TypeOK /\ BegunInv /\ [Next]_vars => BegunInv'
<1> SUFFICES ASSUME TypeOK, BegunInv, [Next]_vars PROVE BegunInv'
  OBVIOUS
<1>p. /\ queue \in Seq(Tasks) /\ begun \in Seq(Tasks) /\ DOMAIN cur = Workers
      /\ accepted = Row(begun, queue)
  BY DEF TypeOK, DataOK, BegunInv
<1>1. ASSUME NEW w \in Workers, TakeTask(w) PROVE BegunInv'
  <2> DEFINE x == Head(queue)
  <2>1. /\ queue # <<>> /\ queue' = Tail(queue) /\ begun' = Append(begun, x)
        /\ cur' = [cur EXCEPT ![w] = x] /\ pc[w] = "take" /\ UNCHANGED <<accepted, finished>>
    BY <1>1 DEF TakeTask
  <2>2. accepted' = Row(begun', queue')
    BY <1>p, <2>1, RowMove
  <2>3. Elems(begun') = Elems(begun) \cup {x}
    BY <1>p, <2>1, AppendElems
  <2>4. cur[w] = NoTask
    BY <2>1 DEF TypeOK, OwnershipOK
  <2>5. \A y \in Elems(begun) : y \in Tasks
    BY <1>p DEF Elems
  <2> HIDE DEF x
  <2>6. \A v \in Workers : cur'[v] # NoTask => cur'[v] \in Elems(begun')
    BY <1>p, <2>1, <2>3 DEF BegunInv
  <2>7. \A y \in Elems(begun') : y \in finished' \/ \E v \in Workers : cur'[v] = y
    BY <1>p, <2>1, <2>3, <2>4, <2>5, ThreadFacts DEF BegunInv
  <2> QED BY <2>2, <2>6, <2>7 DEF BegunInv
<1>2. ASSUME NEW t \in Putters, PutPush(t) PROVE BegunInv'
  <2>1. /\ arg[t] \in Tasks /\ queue' = Append(queue, arg[t]) /\ accepted' = Append(accepted, arg[t])
        /\ UNCHANGED <<begun, cur, finished>>
    BY <1>2, ThreadFacts DEF PutPush, TypeOK, DataOK, OwnershipOK
  <2>2. \A x \in Tasks : Append(Row(begun, queue), x) = Row(begun, Append(queue, x))
    BY <1>p, RowPush
  <2>3. accepted' = Row(begun', queue')
    BY <1>p, <2>1, <2>2
  <2> QED BY <2>1, <2>3 DEF BegunInv, Elems
<1>3. ASSUME NEW w \in Workers, TaskReturns(w) PROVE BegunInv'
  <2>1. /\ cur' = [cur EXCEPT ![w] = NoTask] /\ finished' = finished \cup {cur[w]}
        /\ UNCHANGED <<queue, accepted, begun>>
    BY <1>3 DEF TaskReturns, poolVars
  <2>2. Elems(begun') = Elems(begun)
    BY <2>1 DEF Elems
  <2>3. \A v \in Workers : cur'[v] # NoTask => cur'[v] \in Elems(begun')
    BY <1>p, <2>1, <2>2 DEF BegunInv
  <2>4. \A y \in Elems(begun') : y \in finished' \/ \E v \in Workers : cur'[v] = y
    BY <1>p, <2>1, <2>2 DEF BegunInv
  <2> QED BY <2>1, <2>3, <2>4 DEF BegunInv
<1>4. ASSUME UNCHANGED <<queue, accepted, begun, cur>>, finished \subseteq finished' PROVE BegunInv'
  BY <1>4 DEF BegunInv, Elems
<1>5. ASSUME OwnerStep \/ UNCHANGED vars
      PROVE  UNCHANGED <<queue, accepted, begun, cur>> /\ finished \subseteq finished'
  BY <1>5
     DEF OwnerStep, Start, StartThread, StartReturn, StopSection, JoinThread, StopReturn,
         vars, poolVars, history
<1>7. ASSUME NEW c \in Clients, NEW x \in Tasks, RunInCaller(c, x) \/ RunCall(c, x)
      PROVE  UNCHANGED <<queue, accepted, begun, cur>> /\ finished \subseteq finished'
  BY <1>7 DEF RunInCaller, RunCall, poolVars
<1>6. ASSUME \/ \E w \in Workers : \/ ThreadInit(w) \/ LoopTest(w) \/ TakeBlock(w)
                                   \/ TakeNothing(w) \/ TaskThrows(w) \/ TaskSubmits(w)
             \/ \E t \in Putters : PutBlock(t) \/ Sleep(t) \/ SpuriousWakeup(t)
      PROVE  UNCHANGED <<queue, accepted, begun, cur>> /\ finished \subseteq finished'
  BY <1>6
     DEF ThreadInit, LoopTest, TakeBlock, TakeNothing, TaskThrows, TaskSubmits,
         PutBlock, Sleep, SpuriousWakeup, poolVars, history
<1> QED
  BY <1>1, <1>2, <1>3, <1>4, <1>5, <1>6, <1>7 DEF Next, Step, Terminated, WorkerStep, PutStep

(* Every task of the script is a task, and no task submits one of them. *)
LEMMA ScriptFacts ==
  /\ Len(Script) \in Nat /\ Len(Script) > 0
  /\ \A i \in 1..Len(Script) : Script[i] \in Tasks /\ Script[i] \in Range(Script)
  /\ Script[Len(Script)] = LatchTask /\ LatchTask \in Range(Script) /\ LatchTask \in Tasks
  /\ \A i \in 1..Len(Script) : Script[i] = LatchTask => i = Len(Script)
  /\ Main \in Clients /\ Main \in Putters /\ Main \notin Workers
  /\ NoTask \notin Range(Script) /\ Range(Script) = {Script[i] : i \in 1..Len(Script)}
<1>1. DOMAIN Script = 1..Len(Script) /\ Len(Script) \in Nat /\ Len(Script) > 0
  BY TestAssumption
<1>2. Range(Script) = {Script[i] : i \in 1..Len(Script)}
  BY <1>1 DEF Range
<1>3. \A i \in 1..Len(Script) : Script[i] \in Tasks /\ Script[i] \in Range(Script)
  <2>1. \A i \in 1..Len(Script) : Script[i] \in Tasks
    BY TestAssumption, ElementOfSeq
  <2> QED BY <1>2, <2>1
<1>4. Len(Script) \in 1..Len(Script)
  BY <1>1
<1>5. Main \in Clients /\ Main \in Putters /\ Main \notin Workers
  BY TestAssumption, ThreadFacts
<1>6. NoTask \notin Range(Script)
  BY <1>2, <1>3, ThreadFacts
<1>7. Script[Len(Script)] = LatchTask /\ \A i \in 1..Len(Script) : Script[i] = LatchTask => i = Len(Script)
  BY TestAssumption
<1> QED BY <1>1, <1>2, <1>3, <1>4, <1>5, <1>6, <1>7, Zenon

(* Another thread gets a task that is not of the script. *)
LEMMA ScriptOther ==
  ASSUME TypeOK, ScriptInv, NEW t \in Putters, t # Main, NEW x, x \notin Range(Script),
         arg' = [arg EXCEPT ![t] = x], UNCHANGED <<step, accepted>>
  PROVE  ScriptInv'
<1>1. DOMAIN arg = Putters /\ Main \in Putters
  BY ScriptFacts DEF TypeOK, DataOK
<1>2. arg'[Main] = arg[Main] /\ \A s \in Putters : arg'[s] \in Range(Script) => s = Main
  BY <1>1 DEF ScriptInv
<1> QED BY <1>2 DEF ScriptInv, StepOK

(* main() passes its next task to run(). *)
LEMMA ScriptRuns ==
  ASSUME TypeOK, ScriptInv, MainRuns, StepOK'
  PROVE  ScriptInv'
<1> DEFINE x == Script[step + 1]
<1>1. /\ step < Len(Script) /\ step' = step + 1 /\ pc[Main] = "idle"
      /\ arg' = [arg EXCEPT ![Main] = x] /\ accepted' = accepted
  BY DEF MainRuns, RunCall, MayRun
<1>2. step \in Nat /\ Len(Script) \in Nat /\ step + 1 \in 1..Len(Script)
  BY <1>1, ScriptFacts DEF ScriptInv, StepOK
<1>3. arg[Main] = NoTask /\ DOMAIN arg = Putters /\ Main \in Putters
  BY <1>1, ScriptFacts DEF TypeOK, OwnershipOK, DataOK
<1>4. arg'[Main] = x /\ \A s \in Putters : s # Main => arg'[s] = arg[s]
  BY <1>1, <1>3
<1>5. \A s \in Putters : arg'[s] \in Range(Script) => s = Main
  BY <1>4 DEF ScriptInv
<1>6. ASSUME NEW i \in 1..Len(Script), i <= step'
      PROVE  Script[i] = arg'[Main] \/ Script[i] \in Elems(accepted')
  <2>1. CASE i = step + 1
    BY <1>4, <2>1
  <2>2. CASE i <= step
    <3>1. Script[i] = NoTask \/ Script[i] \in Elems(accepted)
      BY <1>3, <2>2 DEF ScriptInv
    <3> QED BY <1>1, <3>1, ScriptFacts, ThreadFacts
  <2> QED BY <1>1, <1>2, <1>6, <2>1, <2>2
<1> QED BY <1>1, <1>2, <1>4, <1>5, <1>6 DEF ScriptInv

(* main() goes on to wait() when its last task has been accepted. *)
LEMMA ScriptWaits ==
  ASSUME TypeOK, ScriptInv, MainWaits, StepOK'
  PROVE  ScriptInv'
<1>1. /\ step = Len(Script) /\ step' = step + 1 /\ pc[Main] = "idle" /\ UNCHANGED <<arg, accepted>>
  BY DEF MainWaits, vars, history
<1>2. arg[Main] = NoTask
  BY <1>1, ScriptFacts DEF TypeOK, OwnershipOK
<1>3. \A i \in 1..Len(Script) : i <= step
  BY <1>1, ScriptFacts
<1>4. Elems(accepted') = Elems(accepted)
  BY <1>1 DEF Elems
<1> QED BY <1>1, <1>2, <1>3, <1>4 DEF ScriptInv

(* run() pushes a task to the queue; the latch task comes behind all others. *)
LEMMA ScriptPush ==
  ASSUME TypeOK, ScriptInv, NEW t \in Putters, PutPush(t), step' = step
  PROVE  ScriptInv'
<1> DEFINE x == arg[t]
           q == accepted'
<1>1. /\ x \in Tasks /\ x # NoTask /\ q = Append(accepted, x) /\ arg' = [arg EXCEPT ![t] = NoTask]
      /\ accepted \in Seq(Tasks) /\ DOMAIN arg = Putters
  BY ThreadFacts DEF PutPush, TypeOK, DataOK, OwnershipOK
<1>2. Elems(q) = Elems(accepted) \cup {x}
  BY <1>1, AppendElems
<1>3. /\ Len(accepted) \in Nat /\ Len(q) = Len(accepted) + 1
      /\ q[Len(q)] = x /\ \A j \in 1..Len(accepted) : q[j] = accepted[j]
  BY <1>1, LenProperties, AppendProperties
<1> HIDE DEF q, x
<1>4. \A s \in Putters : arg'[s] = (IF s = t THEN NoTask ELSE arg[s])
  BY <1>1
<1>5. \A s \in Putters : arg'[s] \in Range(Script) => s = Main
  BY <1>4, ScriptFacts DEF ScriptInv
<1>6. arg'[Main] # NoTask => step' \in 1..Len(Script) /\ arg'[Main] = Script[step']
  BY <1>4, ScriptFacts DEF ScriptInv
<1>7. ASSUME NEW i \in 1..Len(Script), i <= step
      PROVE  Script[i] = arg'[Main] \/ Script[i] \in Elems(q)
  <2>1. Script[i] = arg[Main] \/ Script[i] \in Elems(accepted)
    BY <1>7 DEF ScriptInv
  <2>2. CASE t = Main
    BY <1>2, <2>1, <2>2 DEF x
  <2>3. CASE t # Main
    BY <1>2, <1>4, <2>1, <2>3, ScriptFacts
  <2> QED BY <2>2, <2>3
<1>8. ASSUME NEW j \in 1..Len(q), q[j] = LatchTask, NEW i \in 1..Len(Script)
      PROVE  \E k \in 1..j : q[k] = Script[i]
  <2>1. CASE j \in 1..Len(accepted)
    <3>1. PICK k \in 1..j : accepted[k] = Script[i]
      BY <1>3, <1>8, <2>1 DEF ScriptInv
    <3>2. k \in 1..Len(accepted)
      BY <2>1
    <3> QED BY <1>3, <3>1, <3>2
  <2>2. CASE j = Len(q)
    <3>1. x = LatchTask /\ x \in Range(Script)
      BY <1>3, <1>8, <2>2, ScriptFacts
    <3>2. t = Main /\ step \in 1..Len(Script) /\ x = Script[step]
      BY <1>1, <3>1 DEF ScriptInv, x
    <3>3. step = Len(Script) /\ i <= step
      BY <3>1, <3>2, ScriptFacts
    <3>4. Script[i] = x \/ Script[i] \in Elems(accepted)
      BY <3>2, <3>3 DEF ScriptInv, x
    <3>5. CASE Script[i] = x
      <4>1. j \in 1..j
        BY <1>3, <2>2
      <4> QED BY <1>3, <2>2, <3>5, <4>1
    <3>6. CASE Script[i] \in Elems(accepted)
      <4>1. PICK k \in 1..Len(accepted) : accepted[k] = Script[i]
        BY <3>6 DEF Elems
      <4>2. k \in 1..j
        BY <1>3, <2>2
      <4> QED BY <1>3, <4>1, <4>2
    <3> QED BY <3>4, <3>5, <3>6
  <2> QED BY <1>3, <2>1, <2>2
<1> QED BY <1>5, <1>6, <1>7, <1>8 DEF ScriptInv, StepOK, q

(* Every step of the program keeps the order of the script. *)
LEMMA ScriptStep == TypeOK /\ ScriptInv /\ [TestNext]_testVars => ScriptInv'
<1> SUFFICES ASSUME TypeOK, ScriptInv, [TestNext]_testVars PROVE ScriptInv'
  OBVIOUS
<1>0. StepOK'
  BY StepOKStep DEF ScriptInv
<1>1. CASE MainRuns
  BY <1>0, <1>1, ScriptRuns
<1>2. CASE MainWaits
  BY <1>0, <1>2, ScriptWaits
<1>3. ASSUME NEW w \in Workers, TaskSubmits(w), step' = step PROVE ScriptInv'
  <2> DEFINE x == Nested[cur[w]]
  <2>1. cur[w] \in Tasks /\ arg' = [arg EXCEPT ![w] = x] /\ accepted' = accepted
    BY <1>3 DEF TaskSubmits, TypeOK, DataOK, OwnershipOK
  <2>2. x \notin Range(Script)
    BY <2>1, TestAssumption
  <2>3. w # Main /\ w \in Putters
    BY ScriptFacts, ThreadFacts
  <2> HIDE DEF x
  <2> QED BY <1>3, <2>1, <2>2, <2>3, ScriptOther
<1>4. ASSUME NEW c \in Clients \ {Main}, NEW x \in Tasks \ Range(Script), RunCall(c, x), step' = step
      PROVE  ScriptInv'
  <2>1. arg' = [arg EXCEPT ![c] = x] /\ accepted' = accepted /\ c \in Putters
    BY <1>4, ThreadFacts DEF RunCall
  <2> QED BY <1>4, <2>1, ScriptOther
<1>5. ASSUME NEW t \in Putters, PutPush(t), step' = step PROVE ScriptInv'
  BY <1>5, ScriptPush
<1>6. ASSUME UNCHANGED <<step, arg, accepted>> PROVE ScriptInv'
  BY <1>6 DEF ScriptInv, StepOK, Elems
<1>7. ASSUME \/ MainStarts \/ InsideWait \/ MainWakesAlone \/ MainStops \/ TestTerminated \/ UNCHANGED testVars
             \/ \E w \in Workers : WorkerCounts(w)
             \/ (OwnerGoesOn /\ step' = step)
             \/ \E c \in Clients, x \in Tasks : RunInCaller(c, x) /\ step' = step
             \/ \E t \in Putters : (PutBlock(t) \/ Sleep(t) \/ SpuriousWakeup(t)) /\ step' = step
             \/ \E w \in Workers : /\ \/ ThreadInit(w) \/ LoopTest(w) \/ TakeBlock(w) \/ TakeTask(w)
                                      \/ TakeNothing(w) \/ TaskThrows(w) \/ TaskReturns(w)
                                   /\ step' = step
      PROVE  UNCHANGED <<step, arg, accepted>>
  BY <1>7
     DEF MainStarts, InsideWait, MainWakesAlone, MainStops, TestTerminated, Terminated, WorkerCounts, testVars,
         Start, StartThread, StartReturn, StopSection, JoinThread, StopReturn, RunInCaller,
         PutBlock, Sleep, SpuriousWakeup, ThreadInit, LoopTest, TakeBlock, TakeTask, TakeNothing,
         TaskThrows, TaskReturns, vars, poolVars, history
<1> QED
  BY <1>1, <1>2, <1>3, <1>4, <1>5, <1>6, <1>7
     DEF TestNext, WorkerMoves, WorkerStep, OtherRuns, PoolGoesOn, PutStep

(* Nobody but the owner moves the owner. *)
LEMMA OwnerStays ==
  ASSUME TypeOK,
         \/ \E w \in Workers : WorkerStep(w)
         \/ \E c \in Clients, x \in Tasks : RunInCaller(c, x) \/ RunCall(c, x)
         \/ \E t \in Putters : PutStep(t) \/ Sleep(t) \/ SpuriousWakeup(t)
  PROVE  pc'[Owner] = pc[Owner]
<1>1. DOMAIN pc = Threads
  BY DEF TypeOK, PlacesOK
<1>2. ASSUME NEW w \in Workers, TakeTask(w) PROVE pc'[Owner] = pc[Owner]
  BY <1>1, <1>2, TakeTaskMoves, ThreadFacts
<1>3. ASSUME NEW t \in Putters, PutPush(t) PROVE pc'[Owner] = pc[Owner]
  BY <1>1, <1>3, PutPushMoves, ThreadFacts
<1>4. ASSUME NEW w \in Workers,
             ThreadInit(w) \/ LoopTest(w) \/ TakeBlock(w) \/ TakeNothing(w)
               \/ TaskThrows(w) \/ TaskSubmits(w) \/ TaskReturns(w)
      PROVE  pc'[Owner] = pc[Owner]
  BY <1>1, <1>4, ThreadFacts
     DEF ThreadInit, LoopTest, TakeBlock, TakeNothing, TaskThrows, TaskSubmits, TaskReturns
<1>5. ASSUME NEW c \in Clients, NEW x \in Tasks, RunInCaller(c, x) \/ RunCall(c, x)
      PROVE  pc'[Owner] = pc[Owner]
  BY <1>1, <1>5, ThreadFacts DEF RunInCaller, RunCall
<1>6. ASSUME NEW t \in Putters, PutBlock(t) \/ Sleep(t) \/ SpuriousWakeup(t)
      PROVE  pc'[Owner] = pc[Owner]
  BY <1>1, <1>6, ThreadFacts DEF PutBlock, Sleep, SpuriousWakeup
<1> QED BY <1>2, <1>3, <1>4, <1>5, <1>6 DEF WorkerStep, PutStep

(* What the workers have begun stays begun, and the latch task is finished by *)
(* the worker that has begun it.                                              *)
LEMMA LatchTaskMoves ==
  ASSUME TypeOK, BegunInv, NEW w \in Workers, WorkerStep(w)
  PROVE  /\ finished \subseteq finished'
         /\ Elems(begun) \subseteq Elems(begun')
         /\ \A x \in finished' : x \in finished \/ x \in Elems(begun)
<1>1. CASE TaskReturns(w)
  <2>1. finished' = finished \cup {cur[w]} /\ begun' = begun /\ cur[w] \in Elems(begun)
    BY <1>1 DEF TaskReturns, TypeOK, OwnershipOK, BegunInv
  <2> QED BY <2>1 DEF Elems
<1>2. CASE TakeTask(w)
  <2> DEFINE x == Head(queue)
  <2>1. begun' = Append(begun, x) /\ finished' = finished /\ x \in Tasks /\ begun \in Seq(Tasks)
    BY <1>2, HeadTailProperties DEF TakeTask, TypeOK, DataOK
  <2> HIDE DEF x
  <2>2. Elems(begun') = Elems(begun) \cup {x}
    BY <2>1, AppendElems
  <2> QED BY <2>1, <2>2
<1>3. CASE ThreadInit(w) \/ LoopTest(w) \/ TakeBlock(w) \/ TakeNothing(w) \/ TaskThrows(w) \/ TaskSubmits(w)
  <2>1. begun' = begun /\ finished' = finished
    BY <1>3 DEF ThreadInit, LoopTest, TakeBlock, TakeNothing, TaskThrows, TaskSubmits, history
  <2> QED BY <2>1 DEF Elems
<1> QED BY <1>1, <1>2, <1>3 DEF WorkerStep

(* Nothing that the latch looks at changes. *)
LEMMA OpenUnchanged ==
  ASSUME OpenInv, UNCHANGED <<count, waiter, step>>,
         LatchTask \in finished' => LatchTask \in finished \/ count = 0,
         Elems(begun) \subseteq Elems(begun'),
         pc'[Owner] \in {"join", "stopped"} => pc[Owner] \in {"join", "stopped"}
  PROVE  OpenInv'
BY DEF OpenInv, Waited

(* Every step of the program keeps the latch and its task together. *)
LEMMA OpenStep ==
  TypeOK /\ LatchTypeOK /\ BegunInv /\ StepOK /\ OpenInv /\ [TestNext]_testVars => OpenInv'
<1> SUFFICES ASSUME TypeOK, LatchTypeOK, BegunInv, StepOK, OpenInv, [TestNext]_testVars PROVE OpenInv'
  OBVIOUS
<1>p. DOMAIN pc = Threads /\ DOMAIN waiter = LatchThreads /\ Owner \in LatchThreads /\ Owner \in Threads
  BY TestAssumption, ThreadFacts DEF TypeOK, PlacesOK, LatchTypeOK
<1>1. CASE MainStarts
  <2>1. pc'[Owner] = "starting" /\ UNCHANGED <<count, waiter, step, finished, begun>>
    BY <1>p, <1>1 DEF MainStarts, Start, latchVars, history
  <2> QED BY <2>1, OpenUnchanged DEF Elems
<1>2. CASE MainWaits \/ InsideWait \/ MainWakesAlone
  <2>1. UNCHANGED <<pc, finished, begun, count>>
    BY <1>2 DEF MainWaits, InsideWait, MainWakesAlone, WaitCall, WaitSleep, WaitReturn, WaitWakesAlone, vars, history
  <2>2. ~ Waited
    BY <1>2, ScriptFacts DEF MainWaits, InsideWait, MainWakesAlone, Waited, WaitSleep, WaitReturn, WaitWakesAlone
  <2>3. waiter'[Owner] = "out" => count <= 0
    BY <1>p, <1>2 DEF MainWaits, InsideWait, MainWakesAlone, WaitCall, WaitSleep, WaitReturn, WaitWakesAlone
  <2>4. pc'[Owner] \notin {"join", "stopped"}
    BY <2>1, <2>2 DEF OpenInv
  <2>5. Elems(begun') = Elems(begun)
    BY <2>1 DEF Elems
  <2> QED BY <2>1, <2>3, <2>4, <2>5 DEF OpenInv, Waited
<1>3. CASE MainStops
  <2>1. Waited /\ UNCHANGED <<count, waiter, step, finished, begun>>
    BY <1>3 DEF MainStops, StopSection, latchVars, history
  <2> QED BY <2>1 DEF OpenInv, Waited, Elems
<1>4. ASSUME NEW w \in Workers, WorkerMoves(w) PROVE OpenInv'
  <2>1. /\ finished \subseteq finished' /\ Elems(begun) \subseteq Elems(begun')
        /\ \A x \in finished' : x \in finished \/ x \in Elems(begun)
    BY <1>4, LatchTaskMoves DEF WorkerMoves
  <2>2. pc'[Owner] = pc[Owner] /\ step' = step
    BY <1>4, OwnerStays DEF WorkerMoves
  <2>3. UNCHANGED <<count, waiter>> /\ (LatchTask \in finished' \ finished => count # 1)
    BY <1>4, TestAssumption DEF WorkerMoves, latchVars, NotCounted
  <2>4. LatchTask \in finished' => LatchTask \in finished \/ count = 0
    BY <2>3 DEF OpenInv
  <2> QED BY <2>1, <2>2, <2>3, <2>4, OpenUnchanged
<1>9. ASSUME NEW w \in Workers, WorkerCounts(w) PROVE OpenInv'
  <2>1. /\ count = 1 /\ count' = 0 /\ waiter' = NotifyAll(waiter, "asleep", "test")
        /\ UNCHANGED <<pc, finished, begun, step>>
    BY <1>9, TestAssumption DEF WorkerCounts, NotCounted, CountDown, vars, history
  <2>2. LatchTask \in Elems(begun)
    BY <1>9, ScriptFacts, ThreadFacts DEF WorkerCounts, BegunInv
  <2>3. waiter'[Owner] = "out" <=> waiter[Owner] = "out"
    BY <1>p, <2>1 DEF NotifyAll
  <2>4. Elems(begun') = Elems(begun)
    BY <2>1 DEF Elems
  <2> QED BY <2>1, <2>2, <2>3, <2>4 DEF OpenInv, Waited
<1>5. CASE OtherRuns
  <2>1. PICK c \in Clients \ {Main}, x \in Tasks \ Range(Script) : RunInCaller(c, x) \/ RunCall(c, x)
    BY <1>5 DEF OtherRuns
  <2>2. LatchTask \notin {x, Nested[x]}
    BY <2>1, ScriptFacts, TestAssumption
  <2>3. LatchTask \in finished' <=> LatchTask \in finished
    BY <2>1, <2>2 DEF RunInCaller, RunCall
  <2>4. UNCHANGED <<count, waiter, step, begun>> /\ pc'[Owner] = pc[Owner]
    BY <1>5, <2>1, OwnerStays DEF OtherRuns, latchVars, RunInCaller, RunCall
  <2> QED BY <2>3, <2>4, OpenUnchanged DEF Elems
<1>6. CASE MainRuns
  <2>1. UNCHANGED <<count, waiter, finished, begun>> /\ pc'[Owner] = pc[Owner] /\ step' = step + 1 /\ step < Len(Script)
    BY <1>p, <1>6, ScriptFacts, ThreadFacts DEF MainRuns, RunCall, latchVars
  <2>2. ~ Waited /\ ~ (step' > Len(Script))
    BY <2>1, ScriptFacts DEF StepOK, Waited
  <2> QED BY <2>1, <2>2 DEF OpenInv, Waited, Elems
<1>7. CASE PoolGoesOn
  <2>1. UNCHANGED <<count, waiter, step, finished, begun>>
    BY <1>7
       DEF PoolGoesOn, latchVars, StartThread, StartReturn, JoinThread, StopReturn,
           PutStep, PutBlock, PutPush, Sleep, SpuriousWakeup, history, poolVars
  <2>2. pc'[Owner] \in {"join", "stopped"} => pc[Owner] \in {"join", "stopped"}
    <3>1. CASE StartThread
      <4>1. created + 1 \in Workers
        BY <3>1, ThreadFacts DEF StartThread, Workers, TypeOK, PlacesOK
      <4> QED BY <1>p, <3>1, <4>1, ThreadFacts DEF StartThread
    <3>2. CASE StartReturn \/ JoinThread \/ StopReturn
      BY <1>p, <3>2 DEF StartReturn, JoinThread, StopReturn
    <3>3. CASE \E t \in Putters : PutStep(t) \/ Sleep(t) \/ SpuriousWakeup(t)
      BY <3>3, OwnerStays
    <3> QED BY <1>7, <3>1, <3>2, <3>3 DEF PoolGoesOn
  <2> QED BY <2>1, <2>2, OpenUnchanged DEF Elems
<1>8. CASE TestTerminated \/ UNCHANGED testVars
  <2>1. UNCHANGED <<count, waiter, step, finished, begun, pc>>
    BY <1>8 DEF TestTerminated, Terminated, testVars, latchVars, vars, history
  <2> QED BY <2>1, OpenUnchanged DEF Elems
<1> QED BY <1>1, <1>2, <1>3, <1>4, <1>5, <1>6, <1>7, <1>8, <1>9 DEF TestNext

(* Together they hold in every behaviour of the program. *)
LEMMA TestInvariance == TestSpec => [](TypeOK /\ JoinInv /\ BegunInv /\ ScriptInv /\ OpenInv)
<1>1. TestInit => BegunInv /\ ScriptInv /\ OpenInv
  <2> SUFFICES ASSUME TestInit PROVE BegunInv /\ ScriptInv /\ OpenInv
    OBVIOUS
  <2>1. /\ accepted = <<>> /\ begun = <<>> /\ queue = <<>> /\ finished = {} /\ step = 0
        /\ count = 1 /\ pc[Owner] = "new"
        /\ (\A t \in Putters : arg[t] = NoTask) /\ (\A w \in Workers : cur[w] = NoTask)
    BY TestAssumption, ThreadFacts DEF TestInit, Init, LatchInit
  <2>2. Elems(begun) = {} /\ Len(accepted) = 0
    BY <2>1 DEF Elems
  <2>3. BegunInv
    BY <2>1, <2>2 DEF BegunInv, Row
  <2>4. ScriptInv
    BY <2>1, <2>2, ScriptFacts DEF ScriptInv, StepOK
  <2>5. OpenInv
    BY <2>1, ScriptFacts DEF OpenInv, Waited
  <2> QED BY <2>3, <2>4, <2>5
<1>2. TestSpec => Spec /\ LatchSpec
  BY TestUsesPoolAndLatch
<1>3. LatchIInv => LatchTypeOK
  BY DEF LatchIInv
<1>4. TestSpec => [](TypeOK /\ JoinInv /\ LatchTypeOK)
  BY <1>2, <1>3, PlaceInvariance, LatchInvariance, PTL
<1>5. TypeOK /\ BegunInv /\ [TestNext]_testVars /\ ScriptInv => BegunInv'
  BY TestStepsPool, BegunStep DEF ScriptInv
<1>6. ScriptInv => StepOK
  BY DEF ScriptInv
<1> QED BY <1>1, <1>4, <1>5, <1>6, ScriptStep, OpenStep, PTL DEF TestSpec

(* The latch task is the last of main()'s in the queue, so that a worker has  *)
(* begun every other one before it; stop() waits for those that are executed. *)
THEOREM TestDoneAtLatch == TestSpec => []DoneAtLatch
<1>1. TypeOK /\ JoinInv /\ BegunInv /\ ScriptInv /\ OpenInv => DoneAtLatch
  <2> SUFFICES ASSUME TypeOK, JoinInv, BegunInv, ScriptInv, OpenInv PROVE DoneAtLatch
    OBVIOUS
  <2>1. ASSUME Waited, NEW i \in 1..Len(Script) PROVE Script[i] \in Elems(begun)
    <3>1. LatchTask \in Elems(begun)
      BY <2>1 DEF OpenInv
    <3>2. PICK j \in 1..Len(begun) : begun[j] = LatchTask
      BY <3>1 DEF Elems
    <3>3. /\ Len(begun) \in Nat /\ Len(accepted) = Len(begun) + Len(queue) /\ Len(queue) \in Nat
          /\ \A k \in 1..Len(begun) : accepted[k] = begun[k]
      <4>1. begun \in Seq(Tasks) /\ queue \in Seq(Tasks) /\ accepted = begun \o queue
        BY DEF TypeOK, DataOK, BegunInv, Row
      <4> QED BY <4>1, ConcatProperties, LenProperties
    <3>4. j \in 1..Len(accepted) /\ accepted[j] = LatchTask
      BY <3>2, <3>3
    <3>5. PICK k \in 1..j : accepted[k] = Script[i]
      BY <3>4 DEF ScriptInv
    <3>6. k \in 1..Len(begun)
      BY <3>2, <3>3
    <3> QED BY <3>3, <3>5, <3>6 DEF Elems
  <2>2. DOMAIN begun = 1..Len(begun)
    BY DEF TypeOK, DataOK
  <2>3. Range(begun) = Elems(begun)
    BY <2>2 DEF Range, Elems
  <2>4. ASSUME pc[Owner] = "stopped", NEW i \in 1..Len(Script) PROVE Script[i] \in finished
    <3>1. Script[i] \in Elems(begun)
      BY <2>1, <2>4 DEF OpenInv
    <3>2. \A w \in Workers : cur[w] = NoTask
      BY <2>4, StoppedWorkers DEF JoinInv
    <3> QED BY <3>1, <3>2, ScriptFacts, ThreadFacts DEF BegunInv
  <2> QED BY <2>1, <2>3, <2>4, ScriptFacts DEF DoneAtLatch
<1> QED BY <1>1, TestInvariance, PTL

=============================================================================
