-------------------------- MODULE CountDownLatch_proof --------------------------
(***************************************************************************)
(* Proofs about CountDownLatch, for any threads and any count, after the   *)
(* lemmas about Condition that the proofs about its users share: what a    *)
(* notification does to the places of the threads, and how the number of   *)
(* threads at a place changes when one thread moves.                       *)
(***************************************************************************)
EXTENDS CountDownLatch, FiniteSets, FiniteSetTheorems, TLAPS

(* How many of the threads in S are at the place. *)
Count(S, at, place) == Cardinality({t \in S : at[t] = place})

(* notify() wakes one sleeper, or there is none and nothing happens. *)
LEMMA NotifyCases ==
  ASSUME NEW at, NEW asleep, NEW back, NEW result \in Notify(at, asleep, back)
  PROVE  \/ result = at /\ \A t \in DOMAIN at : at[t] # asleep
         \/ \E t \in DOMAIN at : at[t] = asleep /\ result = [at EXCEPT ![t] = back]
BY DEF Notify

(* A number of threads is a natural number. *)
LEMMA CountType ==
  ASSUME NEW S, IsFiniteSet(S), NEW at, NEW place
  PROVE  Count(S, at, place) \in Nat
<1>1. {t \in S : at[t] = place} \in SUBSET S
  OBVIOUS
<1> QED BY <1>1, FS_Subset, FS_CardinalityType DEF Count

(* Nobody is counted at a place where nobody is, and somebody where somebody is. *)
LEMMA CountEmpty ==
  ASSUME NEW S, IsFiniteSet(S), NEW at, NEW place
  PROVE  Count(S, at, place) = 0 <=> \A t \in S : at[t] # place
<1>1. IsFiniteSet({t \in S : at[t] = place})
  <2>1. {t \in S : at[t] = place} \in SUBSET S
    OBVIOUS
  <2> QED BY <2>1, FS_Subset
<1>2. Count(S, at, place) = 0 <=> {t \in S : at[t] = place} = {}
  BY <1>1, FS_EmptySet DEF Count
<1> QED BY <1>2

(* When one thread comes to a place and the others come and go elsewhere,     *)
(* there is one more at the place.                                            *)
LEMMA CountArrives ==
  ASSUME NEW S, IsFiniteSet(S), NEW at, NEW after, NEW t \in S, NEW place,
         at[t] # place, after[t] = place,
         \A s \in S \ {t} : after[s] = place <=> at[s] = place
  PROVE  Count(S, after, place) = Count(S, at, place) + 1
<1> DEFINE A == {s \in S : at[s] = place}
           B == {s \in S : after[s] = place}
<1>1. B = A \cup {t} /\ t \notin A
  OBVIOUS
<1>2. IsFiniteSet(A)
  <2>1. A \in SUBSET S
    OBVIOUS
  <2> QED BY <2>1, FS_Subset
<1>3. Cardinality(B) = Cardinality(A) + 1
  <2> HIDE DEF A, B
  <2> QED BY <1>1, <1>2, FS_AddElement
<1> QED BY <1>3 DEF Count

(* When one thread leaves a place and the others come and go elsewhere, there *)
(* is one less at the place.                                                  *)
LEMMA CountLeaves ==
  ASSUME NEW S, IsFiniteSet(S), NEW at, NEW after, NEW t \in S, NEW place,
         at[t] = place, after[t] # place,
         \A s \in S \ {t} : after[s] = place <=> at[s] = place
  PROVE  Count(S, after, place) = Count(S, at, place) - 1
<1> DEFINE A == {s \in S : at[s] = place}
           B == {s \in S : after[s] = place}
<1>1. B = A \ {t} /\ t \in A
  OBVIOUS
<1>2. IsFiniteSet(A)
  <2>1. A \in SUBSET S
    OBVIOUS
  <2> QED BY <2>1, FS_Subset
<1>3. Cardinality(B) = Cardinality(A) - 1
  <2> HIDE DEF A, B
  <2> QED BY <1>1, <1>2, FS_RemoveElement
<1> QED BY <1>3 DEF Count

(* When nobody comes to a place or leaves it, there are as many as before. *)
LEMMA CountStays ==
  ASSUME NEW S, NEW at, NEW after, NEW place,
         \A s \in S : after[s] = place <=> at[s] = place
  PROVE  Count(S, after, place) = Count(S, at, place)
<1>1. {s \in S : after[s] = place} = {s \in S : at[s] = place}
  OBVIOUS
<1> QED BY <1>1 DEF Count

-----------------------------------------------------------------------------
(* The latch: one broadcast, at zero, is enough.                              *)

LatchIInv == LatchTypeOK /\ NoSleeperBehindOpenLatch

(* At the start nobody sleeps. *)
LEMMA LatchInitIInv == LatchInit => LatchIInv
BY LatchAssumption DEF LatchInit, LatchIInv, LatchTypeOK, NoSleeperBehindOpenLatch

(* countDown() wakes everybody when it gets to zero, and below zero there is  *)
(* nobody left to wake: wait() goes to sleep only while count_ is positive.   *)
LEMMA LatchStepIInv == LatchIInv /\ [LatchNext]_latchVars => LatchIInv'
<1> SUFFICES ASSUME LatchIInv, [LatchNext]_latchVars PROVE LatchIInv'
  OBVIOUS
<1> USE DEF LatchIInv, LatchTypeOK, NoSleeperBehindOpenLatch
<1>1. CASE UNCHANGED latchVars
  BY <1>1 DEF latchVars
<1>2. ASSUME NEW t \in LatchThreads, WaitCall(t) PROVE LatchIInv'
  BY <1>2 DEF WaitCall
<1>3. ASSUME NEW t \in LatchThreads, WaitSleep(t) PROVE LatchIInv'
  BY <1>3 DEF WaitSleep
<1>4. ASSUME NEW t \in LatchThreads, WaitReturn(t) PROVE LatchIInv'
  BY <1>4 DEF WaitReturn
<1>5. ASSUME NEW t \in LatchThreads, CountDown(t) PROVE LatchIInv'
  <2>1. CASE count' = 0
    BY <1>5, <2>1 DEF CountDown, NotifyAll
  <2>2. CASE count' # 0
    BY <1>5, <2>2 DEF CountDown
  <2> QED BY <2>1, <2>2
<1>6. ASSUME NEW t \in LatchThreads, WaitWakesAlone(t) PROVE LatchIInv'
  BY <1>6 DEF WaitWakesAlone
<1> QED BY <1>1, <1>2, <1>3, <1>4, <1>5, <1>6 DEF LatchNext

(* Both parts are invariants. *)
LEMMA LatchInvariance == LatchSpec => []LatchIInv
BY LatchInitIInv, LatchStepIInv, PTL DEF LatchSpec

(* The variables stay within their types. *)
THEOREM LatchTypes == LatchSpec => []LatchTypeOK
BY LatchInvariance, PTL DEF LatchIInv

(* One broadcast, at zero, is enough: whoever comes later, or is woken by     *)
(* nobody, does not sleep behind an open latch, however far the count drops.  *)
THEOREM LatchWakesEverybody == LatchSpec => []NoSleeperBehindOpenLatch
BY LatchInvariance, PTL DEF LatchIInv

(* No step lets a thread out of wait() before the count is used up. *)
LEMMA LatchStepHolds ==
  LatchIInv /\ [LatchNext]_latchVars =>
    [\A t \in LatchThreads : waiter[t] # "out" /\ waiter'[t] = "out" => count <= 0]_latchVars
<1> SUFFICES ASSUME LatchIInv, LatchNext, NEW t \in LatchThreads,
                    waiter[t] # "out", waiter'[t] = "out"
             PROVE  count <= 0
  OBVIOUS
<1>1. PICK s \in LatchThreads :
        WaitCall(s) \/ WaitSleep(s) \/ WaitReturn(s) \/ CountDown(s) \/ WaitWakesAlone(s)
  BY DEF LatchNext
<1>2. ~ WaitCall(s) /\ ~ WaitSleep(s) /\ ~ WaitWakesAlone(s)
  BY DEF LatchIInv, LatchTypeOK, WaitCall, WaitSleep, WaitWakesAlone
<1>3. ~ CountDown(s)
  BY DEF LatchIInv, LatchTypeOK, CountDown, NotifyAll
<1>4. WaitReturn(s) => count <= 0
  BY DEF WaitReturn
<1> QED BY <1>1, <1>2, <1>3, <1>4

(* wait() returns to nobody before the last countDown(), whatever wakes it.   *)
THEOREM LatchHoldsAll == LatchSpec => LatchHolds
BY LatchInvariance, LatchStepHolds, PTL DEF LatchSpec, LatchHolds

=============================================================================
