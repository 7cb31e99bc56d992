------------------------ MODULE BlockingQueueTest_proof ------------------------
(***************************************************************************)
(* Proofs about BlockingQueue, and about the program of BlockingQueueTest  *)
(* that uses it and a latch, for any finite set of threads and any         *)
(* messages; and at the end about Monitor, the mutex and the condition     *)
(* whose critical sections the queue takes as one step, for any threads.   *)
(***************************************************************************)
EXTENDS BlockingQueueTest, CountDownLatch_proof, Monitor

-----------------------------------------------------------------------------
(* The queue: one notify() per put() loses no wakeup, and the messages arrive *)
(* as in a FifoChannel.                                                       *)

(* What has been put is what has been received and then what is queued. *)
Conserved ==
  /\ Len(sent) = Len(received) + Len(queue)
  /\ \A i \in 1..Len(queue) : queue[i] = sent[Len(received) + i]

QueueIInv == QueueTypeOK /\ Conserved /\ NoLostWakeup

(* At the start nothing is queued and nobody sleeps. *)
LEMMA QueueInitIInv == QueueInit => QueueIInv
BY DEF QueueInit, QueueIInv, QueueTypeOK, Conserved, NoLostWakeup, At

(* NoLostWakeup in terms of Count. *)
Enough ==
  \/ \A t \in QueueThreads : taker[t] # "asleep"
  \/ Count(QueueThreads, taker, "test") >= Len(queue)

(* With finitely many takers the property and the count agree. *)
LEMMA NoLostWakeupIsEnough == NoLostWakeup <=> Enough
BY DEF NoLostWakeup, Enough, At, Count

(* Appending to a sequence, and taking its head off. *)
LEMMA AppendFacts ==
  ASSUME NEW S, NEW s \in Seq(S), NEW e \in S
  PROVE  /\ Append(s, e) \in Seq(S)
         /\ Len(Append(s, e)) = Len(s) + 1
         /\ \A i \in 1..Len(s) : Append(s, e)[i] = s[i]
         /\ Append(s, e)[Len(s) + 1] = e
OBVIOUS

(* What the queue loses at a take: one element, and none of the others. *)
LEMMA TailFacts ==
  ASSUME NEW S, NEW s \in Seq(S), s # <<>>
  PROVE  /\ Len(s) \in Nat \ {0}
         /\ Tail(s) \in Seq(S)
         /\ Len(Tail(s)) = Len(s) - 1
         /\ \A i \in 1..(Len(s) - 1) : Tail(s)[i] = s[i + 1]
         /\ Head(s) = s[1] /\ Head(s) \in S
OBVIOUS

(* Each action keeps the types. *)
LEMMA QueueTypeStep == QueueTypeOK /\ [QueueNext]_queueVars => QueueTypeOK'
<1> SUFFICES ASSUME QueueTypeOK, [QueueNext]_queueVars PROVE QueueTypeOK'
  OBVIOUS
<1> USE DEF QueueTypeOK
<1>1. CASE UNCHANGED queueVars
  BY <1>1 DEF queueVars
<1>2. ASSUME NEW t \in QueueThreads, NEW m \in Messages, Put(t, m) PROVE QueueTypeOK'
  BY <1>2, NotifyCases DEF Put
<1>3. ASSUME NEW t \in QueueThreads, TakeCall(t) PROVE QueueTypeOK'
  BY <1>3 DEF TakeCall
<1>4. ASSUME NEW t \in QueueThreads, TakeWait(t) PROVE QueueTypeOK'
  BY <1>4 DEF TakeWait
<1>5. ASSUME NEW t \in QueueThreads, TakeReturn(t) PROVE QueueTypeOK'
  BY <1>5 DEF TakeReturn
<1>6. ASSUME NEW t \in QueueThreads, TakeWakesAlone(t) PROVE QueueTypeOK'
  BY <1>6 DEF TakeWakesAlone
<1> QED BY <1>1, <1>2, <1>3, <1>4, <1>5, <1>6 DEF QueueNext

(* Each action keeps what was put apart into received and queued. *)
LEMMA ConservedStep == QueueIInv /\ [QueueNext]_queueVars => Conserved'
<1> SUFFICES ASSUME QueueIInv, [QueueNext]_queueVars PROVE Conserved'
  OBVIOUS
<1>q. /\ queue \in Seq(Messages) /\ sent \in Seq(Messages)
      /\ received \in Seq(QueueThreads \X Messages)
      /\ Len(queue) \in Nat /\ Len(sent) \in Nat /\ Len(received) \in Nat
  BY DEF QueueIInv, QueueTypeOK
<1>c. Conserved
  BY DEF QueueIInv
<1>1. CASE UNCHANGED queueVars
  BY <1>1, <1>c DEF queueVars, Conserved
<1>2. ASSUME NEW t \in QueueThreads, NEW m \in Messages, Put(t, m) PROVE Conserved'
  <2>1. /\ Len(queue') = Len(queue) + 1 /\ Len(sent') = Len(sent) + 1
        /\ queue'[Len(queue) + 1] = m /\ sent'[Len(sent) + 1] = m
        /\ \A i \in 1..Len(queue) : queue'[i] = queue[i]
        /\ \A i \in 1..Len(sent) : sent'[i] = sent[i]
        /\ received' = received
    BY <1>2, <1>q, AppendFacts DEF Put
  <2>2. Len(sent') = Len(received') + Len(queue')
    BY <1>q, <1>c, <2>1 DEF Conserved
  <2>3. ASSUME NEW i \in 1..Len(queue')
        PROVE  queue'[i] = sent'[Len(received') + i]
    <3>1. CASE i = Len(queue) + 1
      BY <3>1, <1>q, <1>c, <2>1 DEF Conserved
    <3>2. CASE i \in 1..Len(queue)
      <4>1. Len(received) + i \in 1..Len(sent)
        BY <3>2, <1>q, <1>c DEF Conserved
      <4> QED BY <4>1, <3>2, <1>c, <2>1 DEF Conserved
    <3> QED BY <3>1, <3>2, <2>1, <1>q
  <2> QED BY <2>2, <2>3 DEF Conserved
<1>3. ASSUME NEW t \in QueueThreads, TakeReturn(t) PROVE Conserved'
  <2>1. /\ Len(queue) \in Nat \ {0}
        /\ Len(queue') = Len(queue) - 1
        /\ \A i \in 1..(Len(queue) - 1) : queue'[i] = queue[i + 1]
    BY <1>3, <1>q, TailFacts DEF TakeReturn
  <2>2. Len(received') = Len(received) + 1 /\ sent' = sent
    <3>1. <<t, Head(queue)>> \in QueueThreads \X Messages
      BY <1>3, <1>q, TailFacts DEF TakeReturn
    <3> QED BY <3>1, <1>3, <1>q DEF TakeReturn
  <2>3. Len(sent') = Len(received') + Len(queue')
    BY <1>q, <1>c, <2>1, <2>2 DEF Conserved
  <2>4. ASSUME NEW i \in 1..Len(queue')
        PROVE  queue'[i] = sent'[Len(received') + i]
    <3>1. i \in 1..(Len(queue) - 1) /\ i + 1 \in 1..Len(queue)
      BY <2>1, <1>q
    <3>2. queue'[i] = sent[Len(received) + (i + 1)]
      BY <3>1, <2>1, <1>c DEF Conserved
    <3>3. Len(received) + (i + 1) = Len(received') + i
      BY <3>1, <2>2, <1>q
    <3> QED BY <3>2, <3>3, <2>2
  <2> QED BY <2>3, <2>4 DEF Conserved
<1>4. ASSUME NEW t \in QueueThreads, TakeCall(t) \/ TakeWait(t) \/ TakeWakesAlone(t)
      PROVE  Conserved'
  BY <1>4, <1>c DEF TakeCall, TakeWait, TakeWakesAlone, Conserved
<1> QED BY <1>1, <1>2, <1>3, <1>4 DEF QueueNext

(* Each action leaves enough threads awake for the messages in the queue:     *)
(* put() adds a message and, if somebody sleeps, a thread; take() returns     *)
(* with one of each; and a thread goes to sleep only when there is nothing.   *)
LEMMA WakeupStep == QueueIInv /\ [QueueNext]_queueVars => NoLostWakeup'
<1> SUFFICES ASSUME QueueIInv, [QueueNext]_queueVars PROVE Enough'
  BY NoLostWakeupIsEnough DEF NoLostWakeup, Enough, At, Count
<1> DEFINE awake == Count(QueueThreads, taker, "test")
<1>e. Enough
  BY NoLostWakeupIsEnough DEF QueueIInv
<1>q. /\ taker \in [QueueThreads -> {"out", "test", "asleep"}]
      /\ QueueThreads \subseteq DOMAIN taker
      /\ queue \in Seq(Messages) /\ Len(queue) \in Nat
  BY DEF QueueIInv, QueueTypeOK
<1>n. awake \in Nat
  BY QueueAssumption, CountType
<1>1. CASE UNCHANGED queueVars
  BY <1>1, <1>e DEF queueVars, Enough, Count
<1>2. ASSUME NEW t \in QueueThreads, NEW m \in Messages, Put(t, m) PROVE Enough'
  <2>1. Len(queue') = Len(queue) + 1
    BY <1>2, <1>q DEF Put
  <2>2. CASE taker' = taker /\ \A s \in DOMAIN taker : taker[s] # "asleep"
    BY <2>2, <1>q DEF Enough
  <2>3. ASSUME NEW s \in DOMAIN taker, taker[s] = "asleep",
               taker' = [taker EXCEPT ![s] = "test"]
        PROVE  Enough'
    <3>1. s \in QueueThreads
      BY <1>q
    <3>2. Count(QueueThreads, taker', "test") = awake + 1
      <4>1. /\ taker[s] # "test" /\ taker'[s] = "test"
            /\ \A r \in QueueThreads \ {s} : taker'[r] = "test" <=> taker[r] = "test"
        BY <2>3, <3>1, <1>q
      <4> QED BY <4>1, <3>1, QueueAssumption, CountArrives
    <3>3. awake >= Len(queue)
      BY <2>3, <3>1, <1>e DEF Enough
    <3> QED BY <2>1, <3>2, <3>3, <1>n, <1>q DEF Enough, Count
  <2> QED BY <1>2, <2>2, <2>3, NotifyCases DEF Put
<1>3. ASSUME NEW t \in QueueThreads, TakeCall(t) \/ TakeWakesAlone(t) PROVE Enough'
  <2>1. taker[t] \in {"out", "asleep"} /\ taker' = [taker EXCEPT ![t] = "test"] /\ queue' = queue
    BY <1>3 DEF TakeCall, TakeWakesAlone
  <2>2. Count(QueueThreads, taker', "test") = awake + 1
    <3>1. /\ taker[t] # "test" /\ taker'[t] = "test"
          /\ \A s \in QueueThreads \ {t} : taker'[s] = "test" <=> taker[s] = "test"
      BY <2>1, <1>q
    <3> QED BY <3>1, QueueAssumption, CountArrives
  <2>3. (\A s \in QueueThreads : taker[s] # "asleep")
          => \A s \in QueueThreads : taker'[s] # "asleep"
    BY <2>1, <1>q
  <2> QED BY <2>1, <2>2, <2>3, <1>e, <1>n, <1>q DEF Enough, Count
<1>4. ASSUME NEW t \in QueueThreads, TakeWait(t) PROVE Enough'
  <2>1. Len(queue') = 0
    BY <1>4 DEF TakeWait
  <2>2. Count(QueueThreads, taker', "test") \in Nat
    BY QueueAssumption, CountType
  <2> QED BY <2>1, <2>2 DEF Enough, Count
<1>5. ASSUME NEW t \in QueueThreads, TakeReturn(t) PROVE Enough'
  <2>1. taker[t] = "test" /\ taker' = [taker EXCEPT ![t] = "out"]
    BY <1>5 DEF TakeReturn
  <2>2. Len(queue') = Len(queue) - 1
    BY <1>5, <1>q, TailFacts DEF TakeReturn
  <2>3. Count(QueueThreads, taker', "test") = awake - 1
    <3>1. /\ taker[t] = "test" /\ taker'[t] # "test"
          /\ \A s \in QueueThreads \ {t} : taker'[s] = "test" <=> taker[s] = "test"
      BY <2>1, <1>q
    <3> QED BY <3>1, QueueAssumption, CountLeaves
  <2>4. (\A s \in QueueThreads : taker[s] # "asleep")
          => \A s \in QueueThreads : taker'[s] # "asleep"
    BY <2>1, <1>q
  <2> QED BY <2>2, <2>3, <2>4, <1>e, <1>n, <1>q DEF Enough, Count
<1> QED BY <1>1, <1>2, <1>3, <1>4, <1>5 DEF QueueNext

(* The three parts are invariants. *)
LEMMA QueueInvariance == QueueSpec => []QueueIInv
<1>1. QueueIInv /\ [QueueNext]_queueVars => QueueIInv'
  BY QueueTypeStep, ConservedStep, WakeupStep DEF QueueIInv
<1> QED BY QueueInitIInv, <1>1, PTL DEF QueueSpec

(* The variables stay within their types. *)
THEOREM QueueTypes == QueueSpec => []QueueTypeOK
BY QueueInvariance, PTL DEF QueueIInv

(* One notify() per put() is enough for any number of threads: a message is   *)
(* never left to a sleeping thread alone.                                     *)
THEOREM QueueLosesNoWakeup == QueueSpec => []NoLostWakeup
BY QueueInvariance, PTL DEF QueueIInv

(* Each step of the queue is one of the channel, or changes nothing that the  *)
(* channel shows: a wait or a wakeup inside take().                           *)
LEMMA ChannelStep ==
  QueueIInv /\ [QueueNext]_queueVars => [Channel!ChanNext]_(Channel!chanVars)
<1> SUFFICES ASSUME QueueIInv, [QueueNext]_queueVars
             PROVE  [Channel!ChanNext]_(Channel!chanVars)
  OBVIOUS
<1> DEFINE asking == {t \in QueueThreads : taker[t] # "out"}
<1>q. /\ taker \in [QueueThreads -> {"out", "test", "asleep"}]
      /\ queue \in Seq(Messages) /\ sent \in Seq(Messages)
      /\ Len(queue) \in Nat /\ Len(sent) \in Nat /\ Len(received) \in Nat
  BY DEF QueueIInv, QueueTypeOK
<1>1. CASE UNCHANGED queueVars
  BY <1>1 DEF queueVars, Channel!chanVars
<1>2. ASSUME NEW t \in QueueThreads, NEW m \in Messages, Put(t, m)
      PROVE  Channel!Send(m)
  <2>1. asking' = asking
    BY <1>2, <1>q, NotifyCases DEF Put
  <2> QED BY <1>2, <2>1 DEF Put, Channel!Send
<1>3. ASSUME NEW t \in QueueThreads, TakeCall(t) PROVE Channel!Ask(t)
  <2>1. t \notin asking /\ asking' = asking \cup {t}
    BY <1>3, <1>q DEF TakeCall
  <2> QED BY <1>3, <2>1 DEF TakeCall, Channel!Ask
<1>4. ASSUME NEW t \in QueueThreads, TakeReturn(t) PROVE Channel!Receive(t)
  <2>1. t \in asking /\ asking' = asking \ {t}
    BY <1>4, <1>q DEF TakeReturn
  <2>2. Len(queue) >= 1 /\ Head(queue) = queue[1]
    BY <1>4, <1>q, TailFacts DEF TakeReturn
  <2>3. Len(received) < Len(sent) /\ Head(queue) = sent[Len(received) + 1]
    BY <2>2, <1>q DEF QueueIInv, Conserved
  <2> QED BY <1>4, <2>1, <2>3 DEF TakeReturn, Channel!Receive
<1>5. ASSUME NEW t \in QueueThreads, TakeWait(t) \/ TakeWakesAlone(t)
      PROVE  UNCHANGED Channel!chanVars
  <2>1. asking' = asking
    BY <1>5, <1>q DEF TakeWait, TakeWakesAlone
  <2> QED BY <1>5, <2>1 DEF TakeWait, TakeWakesAlone, Channel!chanVars
<1> QED
  BY <1>1, <1>2, <1>3, <1>4, <1>5
     DEF QueueNext, Channel!ChanNext, Channel!SomeoneReceives

(* BlockingQueue implements FifoChannel: take() hands out the messages in the *)
(* order of put(), each to one thread, for any number of threads.             *)
THEOREM QueueIsChannel == QueueSpec => IsFifoChannel
<1>1. QueueInit => Channel!ChanInit
  BY DEF QueueInit, Channel!ChanInit
<1> QED
  BY <1>1, QueueInvariance, ChannelStep, PTL DEF QueueSpec, IsFifoChannel, Channel!ChanSafe

-----------------------------------------------------------------------------
(* The program: the main thread and its workers use the queue and the latch   *)
(* as their specifications allow, and start together.                         *)

(* The workers that have not counted down *)
Behind == {w \in Workers : worker[w] \in {"none", "started"}}

(* The latch counts the workers that are behind, and main() gets past it      *)
(* before it puts a message.                                                  *)
TestInv ==
  /\ worker \in [Workers -> {"none", "started", "loop", "taking", "ended"}]
  /\ main \in {"construct", "run", "waiting", "put", "stop", "join", "joined"}
  /\ putCount \in Nat /\ (main = "put" => putCount <= Len(Times))
  /\ main \in {"construct", "run", "waiting"} => putCount = 0
  /\ count = Cardinality(Behind)
  /\ main \in {"put", "stop", "join", "joined"} => Behind = {}
  /\ sent # <<>> => main \in {"put", "stop", "join", "joined"}

(* Workers are finitely many, and nobody's number shrinks to zero unnoticed. *)
LEMMA BehindFacts ==
  /\ IsFiniteSet(Workers) /\ IsFiniteSet(Behind) /\ Cardinality(Behind) \in Nat
  /\ Cardinality(Behind) = 0 <=> Behind = {}
<1>1. IsFiniteSet(Workers)
  BY QueueAssumption, FS_Subset DEF Workers
<1>2. IsFiniteSet(Behind)
  BY <1>1, FS_Subset DEF Behind
<1> QED BY <1>1, <1>2, FS_CardinalityType, FS_EmptySet

(* main() begins with all workers behind. *)
LEMMA TestInitInv == TestInit => TestInv
<1> SUFFICES ASSUME TestInit PROVE TestInv
  OBVIOUS
<1>1. Behind = Workers
  BY DEF TestInit, Behind
<1> QED BY <1>1, TestAssumption DEF TestInit, QueueInit, LatchInit, TestInv

(* A step that leaves the workers, the latch's count and sent alone *)
LEMMA BehindStays ==
  ASSUME TestInv, count' = count, \A w \in Workers : worker'[w] \in {"none", "started"} <=> worker[w] \in {"none", "started"}
  PROVE  Behind' = Behind /\ count' = Cardinality(Behind')
BY DEF TestInv, Behind

(* main()'s steps *)
LEMMA MainKeepsInv == TestInv /\ MainStep => TestInv'
<1> SUFFICES ASSUME TestInv, MainStep PROVE TestInv'
  OBVIOUS
<1>1. worker' = worker
  BY DEF MainStep, MainWaits, MainPasses, MainPuts, MainBeginsJoin, MainStops, MainJoins
<1>2. count' = count
  BY DEF MainStep, MainWaits, MainPasses, MainPuts, MainBeginsJoin, MainStops, MainJoins,
         WaitCall, WaitReturn, latchVars
<1>3. Behind' = Behind /\ count' = Cardinality(Behind')
  BY <1>1, <1>2, BehindStays
<1>4. Len(Times) \in Nat
  BY TestAssumption
<1>5. CASE MainWaits
  <2>1. sent' = sent /\ putCount' = putCount /\ main = "run" /\ main' = "waiting"
    BY <1>5 DEF MainWaits, queueVars
  <2> QED BY <1>1, <1>3, <2>1 DEF TestInv
<1>6. CASE MainPasses
  <2>1. sent' = sent /\ putCount' = putCount /\ main = "waiting" /\ main' = "put" /\ count <= 0
    BY <1>6 DEF MainPasses, WaitReturn, queueVars
  <2>2. Behind = {}
    BY <2>1, BehindFacts DEF TestInv
  <2>3. sent = <<>>
    BY <2>1 DEF TestInv
  <2>4. putCount = 0 /\ putCount' <= Len(Times)
    BY <1>4, <2>1 DEF TestInv
  <2> QED BY <1>1, <1>3, <2>1, <2>2, <2>3, <2>4 DEF TestInv
<1>7. CASE MainPuts
  <2>1. main = "put" /\ main' = main /\ putCount < Len(Times) /\ putCount' = putCount + 1
    BY <1>7 DEF MainPuts
  <2> QED BY <1>1, <1>3, <1>4, <2>1 DEF TestInv
<1>8. CASE MainBeginsJoin
  <2>1. main = "put" /\ main' = "stop" /\ putCount' = 0
    BY <1>8 DEF MainBeginsJoin
  <2> QED BY <1>1, <1>3, <2>1 DEF TestInv
<1>9. CASE MainStops
  <2>1. main = "stop" /\ main' \in {"stop", "join"} /\ putCount' = putCount + 1
    BY <1>9 DEF MainStops
  <2> QED BY <1>1, <1>3, <2>1 DEF TestInv
<1>10. CASE MainJoins
  <2>1. main = "join" /\ main' \in {"join", "joined"} /\ putCount' = putCount
    BY <1>10 DEF MainJoins
  <2> QED BY <1>1, <1>3, <2>1 DEF TestInv
<1> QED BY <1>5, <1>6, <1>7, <1>8, <1>9, <1>10 DEF MainStep

(* The workers' steps: each counts down once. *)
LEMMA WorkerKeepsInv ==
  ASSUME TestInv, NEW w \in Workers, StartWorker(w) \/ WorkerStep(w)
  PROVE  TestInv'
<1>1. CASE StartWorker(w)
  <2>1. /\ main = "construct" /\ main' \in {"construct", "run"} /\ worker[w] = "none"
        /\ worker' = [worker EXCEPT ![w] = "started"] /\ UNCHANGED <<putCount, sent, count>>
    BY <1>1 DEF StartWorker, queueVars, latchVars
  <2>2. Behind' = Behind /\ count' = Cardinality(Behind')
    BY <2>1, BehindStays DEF TestInv
  <2> QED BY <2>1, <2>2 DEF TestInv
<1>2. CASE WorkerCountsDown(w)
  <2>1. /\ worker[w] = "started" /\ worker' = [worker EXCEPT ![w] = "loop"]
        /\ count' = count - 1 /\ UNCHANGED <<main, putCount, sent>>
    BY <1>2 DEF WorkerCountsDown, CountDown, queueVars
  <2>2. w \in Behind /\ Behind' = Behind \ {w}
    BY <2>1 DEF TestInv, Behind
  <2>3. Cardinality(Behind') = Cardinality(Behind) - 1
    BY <2>2, BehindFacts, FS_RemoveElement
  <2> QED BY <2>1, <2>2, <2>3 DEF TestInv
<1>3. CASE WorkerLoops(w) \/ WorkerGets(w)
  <2>1. /\ worker[w] \in {"loop", "taking"} /\ UNCHANGED <<main, putCount, sent, count>>
        /\ \E place \in {"loop", "taking", "ended"} : worker' = [worker EXCEPT ![w] = place]
    BY <1>3 DEF WorkerLoops, WorkerGets, TakeCall, TakeReturn, queueVars, latchVars
  <2>2. Behind' = Behind /\ count' = Cardinality(Behind')
    BY <2>1, BehindStays DEF TestInv
  <2> QED BY <2>1, <2>2 DEF TestInv
<1> QED BY <1>1, <1>2, <1>3 DEF WorkerStep

(* Every step of the program keeps the invariant. *)
LEMMA TestStepInv == TestInv /\ [TestNext]_testVars => TestInv'
<1> SUFFICES ASSUME TestInv, [TestNext]_testVars PROVE TestInv'
  OBVIOUS
<1>1. ASSUME NEW t \in QueueThreads, Sleeps(t) \/ Wakes(t), UNCHANGED <<main, worker, goesOn, putCount>>
      PROVE  TestInv'
  <2>1. UNCHANGED <<sent, count>>
    BY <1>1 DEF Sleeps, Wakes, TakeWait, WaitSleep, TakeWakesAlone, WaitWakesAlone, queueVars, latchVars
  <2> QED BY <1>1, <2>1 DEF TestInv, Behind
<1>2. CASE UNCHANGED testVars
  BY <1>2 DEF testVars, queueVars, latchVars, TestInv, Behind
<1> QED BY <1>1, <1>2, MainKeepsInv, WorkerKeepsInv DEF TestNext

(* A step of the program is one of the queue or leaves it alone. *)
LEMMA TestStepsQueue == TestInv /\ [TestNext]_testVars => [QueueNext]_queueVars
<1> SUFFICES ASSUME TestInv, [TestNext]_testVars PROVE [QueueNext]_queueVars
  OBVIOUS
<1>0. Main \in QueueThreads /\ Stop \in Messages /\ Workers \subseteq QueueThreads
  BY TestAssumption DEF Workers
<1>1. CASE MainStep
  <2>1. CASE MainPuts
    <3>1. putCount + 1 \in 1..Len(Times) /\ Put(Main, Times[putCount + 1])
      BY <2>1 DEF MainPuts, TestInv
    <3>2. Times[putCount + 1] \in Messages
      BY <3>1, TestAssumption
    <3> QED BY <1>0, <3>1, <3>2 DEF QueueNext
  <2>2. CASE MainStops
    BY <1>0, <2>2 DEF MainStops, QueueNext
  <2>3. CASE MainWaits \/ MainPasses \/ MainBeginsJoin \/ MainJoins
    BY <2>3 DEF MainWaits, MainPasses, MainBeginsJoin, MainJoins
  <2> QED BY <1>1, <2>1, <2>2, <2>3 DEF MainStep
<1>2. ASSUME NEW w \in Workers, StartWorker(w) \/ WorkerStep(w) PROVE [QueueNext]_queueVars
  BY <1>0, <1>2 DEF StartWorker, WorkerStep, WorkerCountsDown, WorkerLoops, WorkerGets, QueueNext
<1>3. ASSUME NEW t \in QueueThreads, Sleeps(t) \/ Wakes(t) PROVE [QueueNext]_queueVars
  BY <1>3 DEF Sleeps, Wakes, QueueNext
<1>4. CASE UNCHANGED testVars
  BY <1>4 DEF testVars
<1> QED BY <1>1, <1>2, <1>3, <1>4 DEF TestNext

(* A step of the program is one of the latch or leaves it alone. *)
LEMMA TestStepsLatch == [TestNext]_testVars => [LatchNext]_latchVars
<1> SUFFICES ASSUME [TestNext]_testVars PROVE [LatchNext]_latchVars
  OBVIOUS
<1>0. Main \in LatchThreads /\ Workers \subseteq LatchThreads /\ QueueThreads = LatchThreads
  BY TestAssumption DEF Workers
<1>1. CASE MainStep
  BY <1>0, <1>1 DEF MainStep, MainWaits, MainPasses, MainPuts, MainBeginsJoin, MainStops, MainJoins, LatchNext
<1>2. ASSUME NEW w \in Workers, StartWorker(w) \/ WorkerStep(w) PROVE [LatchNext]_latchVars
  BY <1>0, <1>2 DEF StartWorker, WorkerStep, WorkerCountsDown, WorkerLoops, WorkerGets, LatchNext
<1>3. ASSUME NEW t \in QueueThreads, Sleeps(t) \/ Wakes(t) PROVE [LatchNext]_latchVars
  BY <1>0, <1>3 DEF Sleeps, Wakes, LatchNext
<1>4. CASE UNCHANGED testVars
  BY <1>4 DEF testVars
<1> QED BY <1>1, <1>2, <1>3, <1>4 DEF TestNext

LEMMA TestInvariance == TestSpec => []TestInv
BY TestInitInv, TestStepInv, PTL DEF TestSpec

(* The program uses the queue and the latch as their specifications allow, so *)
(* that what is proved of each of them holds in it: no wakeup is lost, and    *)
(* the messages arrive as in a FifoChannel.                                   *)
THEOREM TestUsesQueueAndLatch ==
  TestSpec => QueueSpec /\ LatchSpec /\ IsFifoChannel /\ []NoLostWakeup /\ []NoSleeperBehindOpenLatch
<1>1. TestInit => QueueInit /\ LatchInit
  BY DEF TestInit
<1>2. TestSpec => QueueSpec /\ LatchSpec
  BY <1>1, TestInvariance, TestStepsQueue, TestStepsLatch, PTL DEF TestSpec, QueueSpec, LatchSpec
<1> QED BY <1>2, QueueIsChannel, QueueLosesNoWakeup, LatchWakesEverybody, PTL

(* No message is put before every worker has counted down, for any number of  *)
(* workers: the latch's count is that of the workers that are behind.         *)
THEOREM TestStartsTogether == TestSpec => []StartsTogether
<1>1. TestInv => StartsTogether
  BY DEF TestInv, StartsTogether, Behind
<1> QED BY <1>1, TestInvariance, PTL

-----------------------------------------------------------------------------
(* The monitor: the mutex excludes and holder_ never lies.  Neither           *)
(* MutualExclusion nor HolderOwns is inductive by itself: the first needs to  *)
(* know that only sleepers are woken, the second that holder_ is cleared      *)
(* before the mutex is given up.                                              *)

(* At most one thread is between lock() and unlock(), and a thread that comes *)
(* back from a wait, signalled or timed out, has waited for its turn again.   *)
MutualExclusion == \A t \in Threads : pc[t] \in OwnerPlaces <=> owner = t

(* A thread is in the condition's queue exactly while it sleeps. *)
Sleeping == \A t \in Threads : t \in sleepers <=> pc[t] = "asleep"

(* holder_ names a thread only while that thread is in its critical section. *)
HolderInside == \A t \in Threads : holder = t => pc[t] = "inside"

MonitorIInv == TypeOK /\ MutualExclusion /\ HeldInside /\ Sleeping /\ HolderInside

(* The mutex starts free, its holder 0. *)
LEMMA MonitorInitIInv == Init => MonitorIInv
<1> SUFFICES ASSUME Init PROVE MonitorIInv
  OBVIOUS
<1> USE MonitorAssumption DEF Init
<1>1. TypeOK
  BY DEF TypeOK, OwnerPlaces
<1>2. MutualExclusion
  BY DEF MutualExclusion, OwnerPlaces
<1>3. HeldInside /\ Sleeping /\ HolderInside
  BY DEF HeldInside, Sleeping, HolderInside
<1> QED BY <1>1, <1>2, <1>3 DEF MonitorIInv

(* Every step keeps the holder in step with the owner. *)
LEMMA MonitorStepIInv == MonitorIInv /\ [Next]_vars => MonitorIInv'
<1> SUFFICES ASSUME MonitorIInv, [Next]_vars PROVE MonitorIInv'
  OBVIOUS
<1> USE MonitorAssumption DEF OwnerPlaces, MonitorIInv
<1>1. CASE UNCHANGED vars
  BY <1>1 DEF vars, TypeOK, MutualExclusion, HeldInside, Sleeping, HolderInside
<1>2. ASSUME NEW t \in Threads, Lock(t) PROVE MonitorIInv'
  BY <1>2 DEF Lock, Goto, TypeOK, MutualExclusion, HeldInside, Sleeping, HolderInside
<1>3. ASSUME NEW t \in Threads, AssignHolder(t) PROVE MonitorIInv'
  BY <1>3 DEF AssignHolder, Goto, TypeOK, MutualExclusion, HeldInside, Sleeping, HolderInside
<1>4. ASSUME NEW t \in Threads, UnassignHolder(t) PROVE MonitorIInv'
  BY <1>4 DEF UnassignHolder, Goto, TypeOK, MutualExclusion, HeldInside, Sleeping, HolderInside
<1>5. ASSUME NEW t \in Threads, Unlock(t) PROVE MonitorIInv'
  BY <1>5 DEF Unlock, Goto, TypeOK, MutualExclusion, HeldInside, Sleeping, HolderInside
<1>6. ASSUME NEW t \in Threads, NEW s \in BOOLEAN, WaitUnassigns(t, s) PROVE MonitorIInv'
  BY <1>6 DEF WaitUnassigns, Goto, TypeOK, MutualExclusion, HeldInside, Sleeping, HolderInside
<1>7. ASSUME NEW t \in Threads, WaitSleeps(t) PROVE MonitorIInv'
  BY <1>7 DEF WaitSleeps, Goto, TypeOK, MutualExclusion, HeldInside, Sleeping, HolderInside
<1>8. ASSUME NEW t \in Threads, Signals(t) PROVE MonitorIInv'
  <2>1. CASE sleepers = {} /\ UNCHANGED <<sleepers, pc, timedOut>>
    BY <1>8, <2>1 DEF Signals, TypeOK, MutualExclusion, HeldInside, Sleeping, HolderInside
  <2>2. ASSUME NEW s \in sleepers,
               sleepers' = sleepers \ {s},
               timedOut' = [timedOut EXCEPT ![s] = FALSE],
               Goto(s, "woken")
        PROVE  MonitorIInv'
    BY <1>8, <2>2
       DEF Signals, Goto, TypeOK, MutualExclusion, HeldInside, Sleeping, HolderInside
  <2> QED BY <1>8, <2>1, <2>2 DEF Signals
<1>9. ASSUME NEW t \in Threads, Broadcasts(t) PROVE MonitorIInv'
  <2>1. TypeOK'
    BY <1>9 DEF Broadcasts, TypeOK
  <2>2. \A s \in Threads : pc'[s] = IF pc[s] = "asleep" THEN "woken" ELSE pc[s]
    BY <1>9 DEF Broadcasts, Sleeping
  <2>3. MutualExclusion' /\ HeldInside' /\ HolderInside'
    BY <1>9, <2>2 DEF Broadcasts, TypeOK, MutualExclusion, HeldInside, HolderInside
  <2>4. Sleeping'
    BY <1>9, <2>2 DEF Broadcasts, Sleeping
  <2> QED BY <2>1, <2>3, <2>4
<1>10. ASSUME NEW t \in Threads, WaitEnds(t) PROVE MonitorIInv'
  BY <1>10 DEF WaitEnds, Goto, TypeOK, MutualExclusion, HeldInside, Sleeping, HolderInside
<1>11. ASSUME NEW t \in Threads, WaitLocks(t) PROVE MonitorIInv'
  BY <1>11 DEF WaitLocks, Goto, TypeOK, MutualExclusion, HeldInside, Sleeping, HolderInside
<1> QED
  BY <1>1, <1>2, <1>3, <1>4, <1>5, <1>6, <1>7, <1>8, <1>9, <1>10, <1>11 DEF Next

(* holder_ is stronger in the invariant than in the property. *)
LEMMA MonitorIInvHolderOwns == MonitorIInv => HolderOwns
BY DEF MonitorIInv, TypeOK, HolderInside, MutualExclusion, HolderOwns, OwnerPlaces

(* The invariant holds in every behaviour. *)
LEMMA MonitorInvariance == Spec => []MonitorIInv
BY MonitorInitIInv, MonitorStepIInv, PTL DEF Spec

(* The variables stay within their types. *)
THEOREM MonitorTypes == Spec => []TypeOK
BY MonitorInvariance, PTL DEF MonitorIInv

(* lock(), unlock(), wait() and waitForSeconds() exclude for any number of    *)
(* threads, whatever wakes a sleeper and however its wait ended.              *)
THEOREM MonitorExcludes == Spec => []MutualExclusion
BY MonitorInvariance, PTL DEF MonitorIInv

(* isLockedByThisThread(), which reads holder_ without the mutex, is true     *)
(* only for the thread that owns the mutex, between any two of the steps.     *)
THEOREM HolderNeverLies == Spec => []HolderOwns
BY MonitorInvariance, MonitorIInvHolderOwns, PTL

(* assertLocked() cannot fail inside a critical section.                      *)
THEOREM AssertLockedHolds == Spec => []HeldInside
BY MonitorInvariance, PTL DEF MonitorIInv

=============================================================================
