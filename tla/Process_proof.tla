----------------------------- MODULE Process_proof -----------------------------
(***************************************************************************)
(* Proofs about processes, for any set of Thread objects, singletons and   *)
(* keys.  First, the life of the Thread objects: every step of a Process is*)
(* a step of Thread or leaves it alone, so the invariants of Thread are    *)
(* those of Process.  Then the values of the threads, whose destructors may*)
(* make values anew, and the singletons, whose exit handlers run in the    *)
(* reverse order; and from all of them that nothing dangles.               *)
(***************************************************************************)
EXTENDS Process, TLAPS, WellFoundedInduction

(* An object that has drawn its ticket has one of its own, below the counter; *)
(* the number of its name is made from it.                                    *)
TicketsInv ==
  /\ \A o \in Objects : object[o] # "none" => ticket[o] < numCreated
  /\ \A o, p \in Objects :
       object[o] # "none" /\ object[p] # "none" /\ ticket[o] = ticket[p] => o = p
  /\ \A o \in Objects :
       number[o] # 0 => object[o] # "none" /\ number[o] = ticket[o] + 1

(* The thread holds a reference to tid_ exactly between lock() and reset();   *)
(* the object holds one until it is dead, and the last one frees.             *)
TidInv ==
  \A o \in Objects :
    /\ held[o] <=> thread[o] = "write"
    /\ freed[o] <=> object[o] = "dead" /\ ~held[o]

(* A thread exists from start() on, and is released by the return of join()   *)
(* or by the destructor.                                                      *)
ReleaseInv ==
  \A o \in Objects :
    /\ object[o] \in {"none", "counted", "made"} => thread[o] = "none"
    /\ object[o] \in {"started", "joining", "joined"} => thread[o] # "none"

IInv == TypeOK /\ TicketsInv /\ TidInv /\ ReleaseInv /\ ReleasedOnce

(* No object has been made. *)
LEMMA InitIInv == Init => IInv
<1> SUFFICES ASSUME Init PROVE IInv
  OBVIOUS
<1> QED
  BY DEF Init, IInv, TypeOK, ObjectStates, ThreadStates, TicketsInv, TidInv, ReleaseInv, ReleasedOnce

(* What an object does *)
LEMMA ObjectIInv ==
  ASSUME IInv, NEW x \in Objects, ObjectStep(x)
  PROVE  IInv'
<1> USE DEF Set, IInv, TypeOK, ObjectStates, ThreadStates, counters, shared
<1>1. CASE Count(x)
  <2>1. TypeOK' /\ TicketsInv'
    BY <1>1 DEF Count, TicketsInv
  <2>2. TidInv' /\ ReleaseInv' /\ ReleasedOnce'
    BY <1>1 DEF Count, TidInv, ReleaseInv, ReleasedOnce
  <2> QED BY <2>1, <2>2
<1>2. CASE Construct(x)
  <2>1. TypeOK' /\ TicketsInv'
    BY <1>2 DEF Construct, NumberOf, TicketsInv
  <2>2. TidInv' /\ ReleaseInv' /\ ReleasedOnce'
    BY <1>2 DEF Construct, TidInv, ReleaseInv, ReleasedOnce
  <2> QED BY <2>1, <2>2
<1>3. CASE Start(x)
  BY <1>3 DEF Start, TicketsInv, TidInv, ReleaseInv, ReleasedOnce
<1>4. CASE StartFails(x)
  BY <1>4 DEF StartFails, TicketsInv, TidInv, ReleaseInv, ReleasedOnce
<1>5. CASE Join(x)
  BY <1>5 DEF Join, TicketsInv, TidInv, ReleaseInv, ReleasedOnce
<1>6. CASE JoinReturn(x)
  BY <1>6 DEF JoinReturn, TicketsInv, TidInv, ReleaseInv, ReleasedOnce
<1>7. CASE Destroy(x)
  <2>1. TypeOK' /\ TicketsInv'
    BY <1>7 DEF Destroy, TicketsInv
  <2>2. TidInv' /\ ReleaseInv'
    BY <1>7 DEF Destroy, TidInv, ReleaseInv
  <2>3. ReleasedOnce'
    BY <1>7 DEF Destroy, Detaches, ReleaseInv, ReleasedOnce
  <2> QED BY <2>1, <2>2, <2>3
<1> QED
  BY <1>1, <1>2, <1>3, <1>4, <1>5, <1>6, <1>7 DEF ObjectStep

(* What its thread does *)
LEMMA ThreadIInv ==
  ASSUME IInv, NEW x \in Objects, ThreadStep(x)
  PROVE  IInv'
<1> USE DEF Set, IInv, TypeOK, ObjectStates, ThreadStates, counters, shared
<1>1. CASE LockTid(x)
  <2>1. /\ thread[x] = "begin" /\ Holds(x) \in BOOLEAN
        /\ thread' = [thread EXCEPT ![x] = IF freed[x] THEN "name" ELSE "write"]
        /\ held' = [held EXCEPT ![x] = Holds(x)]
        /\ UNCHANGED <<numCreated, ticket, number, object, tid, freed, name, releases, aborted>>
    BY <1>1 DEF LockTid, Holds
  <2>2. TypeOK' /\ TicketsInv' /\ ReleaseInv' /\ ReleasedOnce'
    BY <2>1 DEF TicketsInv, ReleaseInv, ReleasedOnce
  <2>3. ASSUME NEW o \in Objects
        PROVE  (held[o]' <=> thread[o]' = "write") /\ (freed[o]' <=> object[o]' = "dead" /\ ~held[o]')
    <3>1. CASE o # x
      BY <2>1, <3>1 DEF TidInv
    <3>2. CASE o = x
      <4>1. (held[x]' <=> ~freed[x]) /\ (thread[x]' = "write" <=> ~freed[x])
        BY <2>1 DEF Holds
      <4>2. freed[x] <=> object[x] = "dead"
        BY <2>1 DEF TidInv
      <4> QED BY <2>1, <3>2, <4>1, <4>2
    <3> QED BY <3>1, <3>2
  <2> QED BY <2>2, <2>3 DEF TidInv
<1>2. CASE WriteTid(x)
  BY <1>2 DEF WriteTid, TicketsInv, TidInv, ReleaseInv, ReleasedOnce
<1>3. CASE SetName(x)
  BY <1>3 DEF SetName, TicketsInv, TidInv, ReleaseInv, ReleasedOnce
<1>4. CASE FuncReturns(x)
  BY <1>4 DEF FuncReturns, TicketsInv, TidInv, ReleaseInv, ReleasedOnce
<1>5. CASE FuncThrows(x)
  BY <1>5 DEF FuncThrows, TicketsInv, TidInv, ReleaseInv, ReleasedOnce
<1>6. CASE DeleteData(x)
  BY <1>6 DEF DeleteData, TicketsInv, TidInv, ReleaseInv, ReleasedOnce
<1>7. CASE ThreadEnds(x)
  BY <1>7 DEF ThreadEnds, TicketsInv, TidInv, ReleaseInv, ReleasedOnce
<1> QED
  BY <1>1, <1>2, <1>3, <1>4, <1>5, <1>6, <1>7 DEF ThreadStep

(* Every step of an object or a thread keeps the invariant. *)
LEMMA StepIInv == IInv /\ [Next]_vars => IInv'
<1> SUFFICES ASSUME IInv, [Next]_vars PROVE IInv'
  OBVIOUS
<1>1. CASE Next
  BY <1>1, ObjectIInv, ThreadIInv DEF Next
<1>2. CASE UNCHANGED vars
  BY <1>2 DEF vars, counters, shared, IInv, TypeOK, TicketsInv, TidInv, ReleaseInv, ReleasedOnce
<1> QED BY <1>1, <1>2

(* The tickets make the numbers unique, and the references keep tid_.         *)
LEMMA IInvProperties == IInv => UniqueNames /\ TidOutlivesWrite
BY DEF IInv, TypeOK, TicketsInv, TidInv, UniqueNames, TidOutlivesWrite

(* Every step of the process is one of the threads, or not their business.    *)
LEMMA ProcessStep == [ProcessNext]_processVars => [Next]_vars
<1> SUFFICES ASSUME [ProcessNext]_processVars PROVE [Next]_vars
  OBVIOUS
<1>1. CASE UNCHANGED processVars
  BY <1>1 DEF processVars
<1>2. CASE ~aborted /\ ObjectSteps
  BY <1>2 DEF ObjectSteps, Next
<1>3. ASSUME ~aborted, NEW o \in Objects, ThreadSteps(o) PROVE [Next]_vars
  BY <1>3 DEF ThreadSteps, Next
<1>4. ASSUME ~aborted, NEW t \in Users, Destructors(t) PROVE [Next]_vars
  <2>1. CASE ThreadEnds(t) /\ t # Main
    BY <1>4, <2>1, ProcessAssumption DEF ThreadStep, Next
  <2> QED BY <1>4, <2>1 DEF Destructors
<1>5. ASSUME NEW t \in Users, AskInstance(t) \/ Initialise(t) \/ UseValue(t) PROVE UNCHANGED vars
  BY <1>5 DEF AskInstance, Initialise, UseValue
<1>6. CASE DestroyLocal \/ MainExits \/ Exit \/ ExitHandler
  BY <1>6 DEF DestroyLocal, MainExits, Exit, ExitHandler
<1>7. CASE ProcessEnded
  BY <1>7 DEF ProcessEnded, processVars
<1> QED
  BY <1>1, <1>2, <1>3, <1>4, <1>5, <1>6, <1>7 DEF ProcessNext

(* A process uses its threads as Thread allows: it implements Thread's own    *)
(* specification.                                                             *)
THEOREM ProcessUsesThreads == ProcessSpec => Spec
<1>1. ProcessInit => Init
  BY DEF ProcessInit
<1> QED BY <1>1, ProcessStep, PTL DEF ProcessSpec, Spec

(* The invariant holds in every process. *)
LEMMA Invariance == ProcessSpec => []IInv
BY ProcessUsesThreads, InitIInv, StepIInv, PTL DEF Spec

(* Objects that threads construct at once get different default names,        *)
(* because incrementAndGet() makes the number from what it fetched.           *)
THEOREM ProcessUniqueNames == ProcessSpec => []UniqueNames
BY Invariance, IInvProperties, PTL

(* The weak_ptr gives the thread a tid_ that is alive, or none.               *)
THEOREM ProcessTidOutlivesWrite == ProcessSpec => []TidOutlivesWrite
BY Invariance, IInvProperties, PTL

(* start(), join() and ~Thread() release every thread once.                   *)
THEOREM ProcessReleasesOnce == ProcessSpec => []ReleasedOnce
BY Invariance, PTL DEF IInv

-----------------------------------------------------------------------------
(* The values of a thread: a slot is set as long as its value is alive, and   *)
(* the t_value_ of a ThreadLocalSingleton with it.                            *)
Storage == [slot : SUBSET Keys, tvalue : SUBSET Singles, live : [Keys -> Nat]]

Coherent(s) ==
  /\ s \in Storage
  /\ \A k \in Keys : s.live[k] = IF k \in s.slot THEN 1 ELSE 0
  /\ s.tvalue = s.slot \cap Singles

(* A value made on first use, by value() or by instance(). *)
LEMMA Made ==
  ASSUME NEW s \in Storage, NEW k \in Keys
  PROVE  LET r == Get(s, k)
         IN /\ r \in Storage
            /\ \/ r = s /\ k \in s.slot \cup s.tvalue
               \/ /\ k \notin IF k \in Singles THEN s.tvalue ELSE s.slot
                  /\ r.slot = s.slot \cup {k}
                  /\ r.tvalue = s.tvalue \cup ({k} \cap Singles)
                  /\ r.live = [s.live EXCEPT ![k] = @ + 1]
<1> DEFINE live == [s.live EXCEPT ![k] = @ + 1]
<1>1. live \in [Keys -> Nat]
  BY DEF Storage
<1>2. CASE Get(s, k) = s
  BY <1>2 DEF Get, Value, SingleInstance
<1>3. CASE k \in Singles /\ k \notin s.tvalue
  <2>1. Get(s, k) = [s EXCEPT !.tvalue = @ \cup {k}, !.slot = @ \cup {k}, !.live = live]
    BY <1>3 DEF Get, SingleInstance
  <2>2. {k} \cap Singles = {k}
    BY <1>3
  <2> DEFINE r == Get(s, k)
  <2> HIDE DEF live, r
  <2>3. /\ r.tvalue = s.tvalue \cup {k} /\ r.slot = s.slot \cup {k} /\ r.live = live
        /\ r \in Storage
    BY <1>1, <1>3, <2>1 DEF Storage, r
  <2> QED BY <1>3, <2>2, <2>3 DEF live, r
<1>4. CASE k \notin Singles /\ k \notin s.slot
  <2>1. Get(s, k) = [s EXCEPT !.slot = @ \cup {k}, !.live = live]
    BY <1>4 DEF Get, Value
  <2>2. {k} \cap Singles = {}
    BY <1>4
  <2> DEFINE r == Get(s, k)
  <2> HIDE DEF live, r
  <2>3. /\ r.tvalue = s.tvalue /\ r.slot = s.slot \cup {k} /\ r.live = live
        /\ r \in Storage
    BY <1>1, <2>1 DEF Storage, r
  <2> QED BY <1>4, <2>2, <2>3 DEF live, r
<1> QED BY <1>2, <1>3, <1>4 DEF Get, Value, SingleInstance

(* Using a value keeps the storage coherent and fails no assert(). *)
LEMMA GetFacts ==
  ASSUME NEW s, Coherent(s), NEW k \in Keys
  PROVE  Coherent(Get(s, k)) /\ ~GetFails(s, k) /\ Get(s, k).slot = s.slot \cup {k}
<1> DEFINE r == Get(s, k)
<1>0. s \in Storage /\ s.slot \subseteq Keys
  BY DEF Coherent, Storage
<1>1. CASE r = s /\ k \in s.slot \cup s.tvalue
  BY <1>0, <1>1 DEF Coherent, GetFails
<1>2. CASE ~(r = s /\ k \in s.slot \cup s.tvalue)
  <2>1. /\ r \in Storage /\ r.slot = s.slot \cup {k} /\ r.tvalue = s.tvalue \cup ({k} \cap Singles)
        /\ r.live = [s.live EXCEPT ![k] = @ + 1]
        /\ k \notin s.slot
    BY <1>0, <1>2, Made DEF Coherent
  <2>2. r.tvalue = r.slot \cap Singles
    BY <2>1 DEF Coherent
  <2> HIDE DEF r
  <2>3. \A j \in Keys : r.live[j] = IF j \in r.slot THEN 1 ELSE 0
    BY <1>0, <2>1 DEF Coherent, Storage
  <2> QED BY <2>1, <2>2, <2>3 DEF Coherent, GetFails, r
<1> QED BY <1>1, <1>2

Destroyed(s, k) == IF k \in Singles THEN SingleDestructed(s, k) ELSE Destructed(s, k)

(* A destructor keeps the storage coherent, even when it uses the value that  *)
(* it deletes; the slots set afterwards were set before, or it used them.     *)
LEMMA DestroyedFacts ==
  ASSUME NEW s, Coherent(s), NEW k \in s.slot
  PROVE  /\ Coherent(Destroyed(s, k)) /\ ~DestructorFails(s, k)
         /\ Destroyed(s, k).slot \subseteq (s.slot \ {k}) \cup Used(k)
<1> DEFINE u == [s EXCEPT !.slot = @ \ {k}]
           v == IF Used(k) = {} THEN u ELSE Get(u, Uses[k])
           d == Destructed(s, k)
           e == Destroyed(s, k)
<1>0. s \in Storage /\ s.slot \subseteq Keys /\ k \in Keys
  BY DEF Coherent, Storage
<1>1. u \in Storage /\ u.slot = s.slot \ {k} /\ u.tvalue = s.tvalue /\ u.live = s.live
  BY <1>0 DEF Storage
<1>2. Used(k) # {} => Used(k) = {Uses[k]} /\ Uses[k] \in Keys
  BY <1>0, LocalAssumption DEF Used, Keys
<1>3. \/ v = u
      \/ \E j \in Used(k) :
           /\ v \in Storage /\ v.slot = u.slot \cup {j} /\ v.tvalue = u.tvalue \cup ({j} \cap Singles)
           /\ v.live = [u.live EXCEPT ![j] = @ + 1]
           /\ j \notin IF j \in Singles THEN u.tvalue ELSE u.slot
  <2> HIDE DEF u
  <2> QED BY <1>1, <1>2, Made
<1>4. d = [v EXCEPT !.live = [v.live EXCEPT ![k] = @ - 1]]
  BY DEF Destructed
<1>5. e = IF k \in Singles THEN [d EXCEPT !.tvalue = @ \ {k}] ELSE d
  BY DEF Destroyed, SingleDestructed
<1>6. ~DestructorFails(s, k)
  BY <1>0, <1>1, <1>2 DEF DestructorFails, GetFails, Coherent
<1> HIDE DEF u, v
<1>7. ASSUME v \in Storage, v.live[k] # 0
      PROVE  /\ e \in Storage /\ e.slot = v.slot
             /\ e.tvalue = IF k \in Singles THEN v.tvalue \ {k} ELSE v.tvalue
             /\ e.live = [v.live EXCEPT ![k] = @ - 1]
  <2> DEFINE live == [v.live EXCEPT ![k] = @ - 1]
  <2>1. live \in [Keys -> Nat]
    BY <1>0, <1>7 DEF Storage
  <2>2. d = [v EXCEPT !.live = live]
    BY <1>4
  <2> HIDE DEF live, d, e
  <2>3. d \in Storage /\ d.slot = v.slot /\ d.tvalue = v.tvalue /\ d.live = live
    BY <1>7, <2>1, <2>2 DEF Storage
  <2>4. e \in Storage /\ e.slot = d.slot /\ e.live = d.live
        /\ e.tvalue = IF k \in Singles THEN d.tvalue \ {k} ELSE d.tvalue
    BY <1>5, <2>3 DEF Storage
  <2> QED BY <2>3, <2>4 DEF live
<1> HIDE DEF d, e
<1>8. s.live[k] = 1 /\ (k \in Singles => k \in s.tvalue)
  BY <1>0 DEF Coherent
<1>9. CASE v = u
  <2>1. e.slot = s.slot \ {k} /\ e.tvalue = (s.slot \ {k}) \cap Singles /\ e \in Storage
    BY <1>0, <1>1, <1>7, <1>8, <1>9 DEF Coherent
  <2>2. \A j \in Keys : e.live[j] = IF j \in e.slot THEN 1 ELSE 0
    BY <1>0, <1>1, <1>7, <1>8, <1>9, <2>1 DEF Coherent, Storage
  <2> QED BY <1>6, <2>1, <2>2 DEF Coherent, e
<1>10. ASSUME NEW j \in Used(k),
              v \in Storage, v.slot = u.slot \cup {j}, v.tvalue = u.tvalue \cup ({j} \cap Singles),
              v.live = [u.live EXCEPT ![j] = @ + 1],
              j \notin IF j \in Singles THEN u.tvalue ELSE u.slot
       PROVE  Coherent(e) /\ e.slot \subseteq (s.slot \ {k}) \cup Used(k)
  <2>0. j \in Keys
    BY <1>2
  <2>1. j \notin s.slot \/ (j = k /\ k \notin Singles)
    BY <1>0, <1>1, <1>8, <1>10 DEF Coherent
  <2>2. \A i \in Keys : v.live[i] = IF i = j THEN s.live[i] + 1 ELSE s.live[i]
    BY <1>1, <1>10 DEF Coherent, Storage
  <2>3. v.live[k] # 0
    BY <1>0, <1>8, <2>2
  <2>4. /\ e \in Storage /\ e.slot = v.slot
        /\ e.tvalue = IF k \in Singles THEN v.tvalue \ {k} ELSE v.tvalue
        /\ e.live = [v.live EXCEPT ![k] = @ - 1]
    BY <1>7, <1>10, <2>3
  <2>5. e.tvalue = e.slot \cap Singles
    <3>1. s.tvalue = s.slot \cap Singles
      BY DEF Coherent
    <3> QED BY <1>1, <1>10, <2>1, <2>4, <3>1
  <2>6. \A i \in Keys : e.live[i] = IF i \in e.slot THEN 1 ELSE 0
    <3>1. \A i \in Keys : s.live[i] = IF i \in s.slot THEN 1 ELSE 0
      BY DEF Coherent
    <3>2. \A i \in Keys : e.live[i] = IF i = k THEN v.live[i] - 1 ELSE v.live[i]
      BY <1>0, <1>10, <2>4 DEF Storage
    <3> QED BY <1>0, <1>1, <1>10, <2>1, <2>2, <2>4, <3>1, <3>2
  <2> QED BY <1>1, <1>10, <2>4, <2>5, <2>6 DEF Coherent
<1> QED BY <1>3, <1>6, <1>9, <1>10 DEF e

ValuesInv ==
  /\ failed = FALSE
  /\ store \in [Users -> {s \in Storage : Coherent(s)}]

(* Only the keys of STL come after the start, and only they and those of      *)
(* main()'s ThreadLocal go; before a key is there no slot of it is set.       *)
KeysInv ==
  /\ key \in [Keys -> {"none", "made", "deleted"}]
  /\ \A t \in Users : \A k \in store[t].slot : key[k] # "none"

(* What is left after a round are values that were made in it, by destructors *)
(* of values of a lower rank.                                                 *)
RoundsInv ==
  /\ round \in [Users -> 0..(Rounds + 1)] /\ visit \in [Users -> Nat]
  /\ \A t \in Users : round[t] = 0 => visit[t] = 1
  /\ \A rank \in Ranks : \A t \in Users : \A k \in store[t].slot :
       round[t] # 0 /\ key[k] = "made" =>
         /\ round[t] <= rank[k] + 1
         /\ k < visit[t] => round[t] <= rank[k]

StoreInv == ValuesInv /\ KeysInv /\ RoundsInv

LEMMA Stores ==
  ASSUME ValuesInv, NEW t \in Users
  PROVE  Coherent(store[t]) /\ store[t] \in Storage /\ store[t].slot \subseteq Keys
BY DEF ValuesInv, Storage

(* No thread has a value. *)
LEMMA InitStoreInv == ASSUME NEW made \in SUBSET Keys PROVE LocalInit(made) => StoreInv
<1> SUFFICES ASSUME LocalInit(made) PROVE StoreInv
  OBVIOUS
<1>1. Fresh \in Storage /\ Fresh.slot = {} /\ Coherent(Fresh)
  BY DEF Fresh, Storage, Coherent
<1>2. \A t \in Users : store[t] = Fresh
  BY DEF LocalInit
<1>3. ValuesInv
  BY <1>1 DEF LocalInit, ValuesInv
<1> QED BY <1>1, <1>2, <1>3, LocalAssumption DEF LocalInit, StoreInv, KeysInv, RoundsInv

(* A running thread uses a value. *)
LEMMA UseStoreInv ==
  ASSUME StoreInv, NEW t \in Users, NEW k \in Keys, Use(t, k)
  PROVE  StoreInv'
<1>1. /\ Coherent(Get(store[t], k)) /\ ~GetFails(store[t], k)
      /\ Get(store[t], k).slot = store[t].slot \cup {k}
  BY GetFacts, Stores DEF StoreInv
<1> DEFINE s == Get(store[t], k)
<1>2. /\ round[t] = 0 /\ key[k] = "made" /\ store' = [store EXCEPT ![t] = s]
      /\ failed' = (failed \/ GetFails(store[t], k)) /\ UNCHANGED <<key, round, visit>>
  BY DEF Use
<1> HIDE DEF s
<1>3. ValuesInv'
  BY <1>1, <1>2 DEF StoreInv, ValuesInv, Coherent, s
<1>4. /\ store'[t].slot = store[t].slot \cup {k}
      /\ \A u \in Users \ {t} : store'[u] = store[u]
  BY <1>1, <1>2 DEF StoreInv, ValuesInv, s
<1>5. KeysInv'
  BY <1>2, <1>4 DEF StoreInv, KeysInv
<1>6. RoundsInv'
  BY <1>2, <1>4 DEF StoreInv, RoundsInv, Ranks
<1> QED BY <1>3, <1>5, <1>6 DEF StoreInv

(* A ThreadLocal is made or destroyed. *)
LEMMA KeyStoreInv ==
  ASSUME StoreInv, NEW k \in Keys, MakeKey(k) \/ DeleteKey(k), UNCHANGED <<store, round, visit, failed>>
  PROVE  StoreInv'
<1>1. ValuesInv'
  BY DEF StoreInv, ValuesInv
<1>2. KeysInv'
  BY Stores DEF StoreInv, KeysInv, MakeKey, DeleteKey
<1>3. \A t \in Users : \A j \in store'[t].slot : key'[j] = "made" => key[j] = "made" /\ j \in store[t].slot
  BY Stores DEF StoreInv, KeysInv, MakeKey, DeleteKey
<1>4. RoundsInv'
  BY <1>3 DEF StoreInv, RoundsInv, Ranks
<1> QED BY <1>1, <1>2, <1>4 DEF StoreInv

(* The function of a thread returns. *)
LEMMA BeginStoreInv ==
  ASSUME StoreInv, NEW t \in Users, BeginDestructors(t)
  PROVE  StoreInv'
<1>1. ValuesInv' /\ KeysInv'
  BY DEF StoreInv, ValuesInv, KeysInv, BeginDestructors
<1>2. /\ round' \in [Users -> 0..(Rounds + 1)] /\ visit' \in [Users -> Nat]
      /\ \A u \in Users : round'[u] = 0 => visit'[u] = 1
  BY LocalAssumption DEF StoreInv, RoundsInv, BeginDestructors
<1>3. ASSUME NEW rank \in Ranks, NEW u \in Users, NEW k \in store[u].slot, round'[u] # 0, key[k] = "made"
      PROVE  /\ round'[u] <= rank[k] + 1
             /\ k < visit[u] => round'[u] <= rank[k]
  <2>1. CASE u # t
    BY <1>3, <2>1 DEF StoreInv, RoundsInv, BeginDestructors
  <2>2. CASE u = t
    <3>1. k \in 1..NumKeys /\ rank[k] \in 0..(Rounds - 1)
      BY Stores DEF StoreInv, Ranks, Keys
    <3>2. round'[u] = 1 /\ visit[u] = 1
      BY <2>2 DEF StoreInv, RoundsInv, BeginDestructors
    <3> QED BY <3>1, <3>2, LocalAssumption
  <2> QED BY <2>1, <2>2
<1> QED BY <1>1, <1>2, <1>3 DEF StoreInv, RoundsInv, BeginDestructors, Ranks

(* The next key to visit is there. *)
LEMMA LeastNumber ==
  ASSUME NEW S \in SUBSET Nat, S # {}
  PROVE  LET k == CHOOSE k \in S : \A l \in S : k <= l
         IN k \in S /\ \A l \in S : k <= l
<1> DEFINE less == OpToRel(<, Nat)
<1>1. \A i, j \in Nat : <<i, j>> \in less <=> i < j
  BY DEF OpToRel
<1>2. IsWellFoundedOn(less, Nat)
  BY NatLessThanWellFounded
<1> HIDE DEF less
<1>3. PICK k \in S : \A l \in S : <<l, k>> \notin less
  BY <1>2, WFMin
<1>4. ASSUME NEW l \in S PROVE k <= l
  <2>1. k \in Nat /\ l \in Nat /\ <<l, k>> \notin less
    BY <1>3
  <2> QED BY <1>1, <2>1
<1> QED BY <1>3, <1>4

(* A destructor runs: what it makes has a higher rank than its own value. *)
LEMMA DestructorStoreInv ==
  ASSUME StoreInv, NEW t \in Users, RunDestructor(t)
  PROVE  StoreInv'
<1> DEFINE filled == Filled(t, visit[t])
           k == CHOOSE k \in filled : \A l \in filled : k <= l
           e == Destroyed(store[t], k)
<1>1. k \in filled /\ \A l \in filled : k <= l
  <2>1. filled \in SUBSET Nat /\ filled # {}
    BY Stores DEF RunDestructor, Filled, StoreInv, Keys
  <2> HIDE DEF filled
  <2> QED BY <2>1, LeastNumber
<1>2. k \in store[t].slot /\ k \in Keys /\ key[k] = "made"
  BY <1>1, Stores DEF Filled, StoreInv
<1>3. /\ Coherent(e) /\ ~DestructorFails(store[t], k)
      /\ e.slot \subseteq (store[t].slot \ {k}) \cup Used(k)
  BY <1>2, DestroyedFacts, Stores DEF StoreInv
<1>4. /\ round[t] \in 1..Rounds /\ visit' = [visit EXCEPT ![t] = k + 1]
      /\ store' = [store EXCEPT ![t] = e]
      /\ failed' = (failed \/ DestructorFails(store[t], k)) /\ UNCHANGED <<key, round>>
  BY DEF RunDestructor, Destroyed
<1>5. \A l \in store[t].slot : key[l] = "made" /\ visit[t] <= l => k <= l
  BY <1>1 DEF Filled
<1> HIDE DEF filled, k, e
<1>6. ValuesInv'
  BY <1>3, <1>4 DEF StoreInv, ValuesInv, Coherent
<1>7. /\ store'[t] = e /\ \A u \in Users \ {t} : store'[u] = store[u]
      /\ visit'[t] = k + 1 /\ \A u \in Users \ {t} : visit'[u] = visit[u]
  BY <1>4 DEF StoreInv, ValuesInv, RoundsInv
<1>8. \A u \in Used(k) : u = Uses[k] /\ u \in Keys /\ key[u] = "made" /\ Uses[k] # 0
  BY <1>2, LocalAssumption DEF Used, Keys
<1>9. KeysInv'
  BY <1>3, <1>4, <1>7, <1>8 DEF StoreInv, KeysInv
<1>10. /\ visit' \in [Users -> Nat] /\ round' \in [Users -> 0..(Rounds + 1)]
       /\ \A u \in Users : round'[u] = 0 => visit'[u] = 1
  <2>1. k + 1 \in Nat
    BY <1>2 DEF Keys
  <2> QED BY <1>4, <1>7, <2>1 DEF StoreInv, RoundsInv
<1>11. ASSUME NEW rank \in Ranks, NEW l \in e.slot, key[l] = "made"
       PROVE  /\ round[t] <= rank[l] + 1
              /\ l < k + 1 => round[t] <= rank[l]
  <2>1. rank \in [Keys -> 0..(Rounds - 1)] /\ round[t] \in 1..Rounds /\ visit[t] \in Nat
    BY <1>4 DEF Ranks, StoreInv, RoundsInv
  <2>2. round[t] <= rank[k] + 1
    BY <1>2, <2>1 DEF StoreInv, RoundsInv
  <2>3. CASE l \in Used(k)
    <3>1. rank[k] < rank[l] /\ l \in Keys
      BY <1>2, <1>8, <2>3 DEF Ranks
    <3> QED BY <1>2, <2>1, <2>2, <3>1, LocalAssumption
  <2>4. CASE l \in store[t].slot \ {k}
    <3>1. /\ l \in Keys /\ round[t] <= rank[l] + 1
          /\ l < visit[t] => round[t] <= rank[l]
      BY <1>11, <2>1, <2>4, Stores DEF StoreInv, RoundsInv
    <3>2. visit[t] <= l => k < l
      BY <1>2, <1>5, <1>11, <2>4, <3>1, LocalAssumption DEF Keys
    <3> QED BY <1>2, <2>1, <3>1, <3>2, LocalAssumption DEF Keys
  <2> QED BY <1>3, <2>3, <2>4
<1>12. RoundsInv'
  BY <1>4, <1>7, <1>10, <1>11 DEF StoreInv, RoundsInv, Ranks
<1> QED BY <1>6, <1>9, <1>12 DEF StoreInv

(* A round of destructors is over. *)
LEMMA RoundStoreInv ==
  ASSUME StoreInv, NEW t \in Users, EndRound(t)
  PROVE  StoreInv'
<1>1. ValuesInv' /\ KeysInv'
  BY DEF StoreInv, ValuesInv, KeysInv, EndRound
<1>2. /\ round[t] \in 1..Rounds /\ visit' = [visit EXCEPT ![t] = 1]
      /\ round' = [round EXCEPT ![t] = IF Filled(t, 1) = {} THEN Rounds + 1 ELSE @ + 1]
      /\ UNCHANGED <<key, store>>
  BY DEF EndRound
<1>3. round'[t] \in 1..(Rounds + 1)
  BY <1>2, LocalAssumption DEF StoreInv, RoundsInv
<1>4. /\ round' \in [Users -> 0..(Rounds + 1)] /\ visit' \in [Users -> Nat]
      /\ \A u \in Users : round'[u] = 0 => visit'[u] = 1
      /\ \A u \in Users \ {t} : round'[u] = round[u] /\ visit'[u] = visit[u]
      /\ visit'[t] = 1
  BY <1>2, <1>3, LocalAssumption DEF StoreInv, RoundsInv
<1>5. ASSUME NEW rank \in Ranks, NEW k \in store[t].slot, key[k] = "made"
      PROVE  round'[t] <= rank[k] + 1 /\ ~(k < 1)
  <2>1. k \in Keys /\ k \in Filled(t, 1)
    BY <1>5, Stores DEF StoreInv, Filled, Keys
  <2>2. k < visit[t]
    BY <1>5, <2>1 DEF EndRound, Filled, StoreInv, RoundsInv, Keys
  <2>3. round[t] <= rank[k]
    BY <1>2, <1>5, <2>2 DEF StoreInv, RoundsInv
  <2>4. rank[k] \in 0..(Rounds - 1)
    BY <2>1 DEF Ranks
  <2>5. round'[t] = round[t] + 1
    BY <1>2, <2>1 DEF StoreInv, RoundsInv
  <2> QED BY <1>2, <2>1, <2>3, <2>4, <2>5, LocalAssumption DEF Keys
<1>6. RoundsInv'
  BY <1>2, <1>4, <1>5 DEF StoreInv, RoundsInv, Ranks
<1> QED BY <1>1, <1>6 DEF StoreInv

(* The values change as they do in a process. *)
LEMMA LocalStep ==
  ASSUME StoreInv, [ProcessNext]_processVars
  PROVE  StoreInv'
<1>1. CASE UNCHANGED localVars
  BY <1>1 DEF localVars, StoreInv, ValuesInv, KeysInv, RoundsInv
<1>2. CASE UNCHANGED processVars
  BY <1>1, <1>2 DEF processVars
<1>3. CASE ObjectSteps \/ Exit \/ ProcessEnded
  BY <1>1, <1>2, <1>3 DEF ObjectSteps, Exit, ProcessEnded
<1>4. CASE MainExits
  BY <1>4, BeginStoreInv, ProcessAssumption DEF MainExits
<1>5. CASE DestroyLocal
  BY <1>5, KeyStoreInv, ProcessAssumption DEF DestroyLocal
<1>6. CASE ExitHandler
  <2>1. CASE UNCHANGED key
    BY <1>1, <1>6, <2>1 DEF ExitHandler, localVars
  <2>2. CASE DeleteKey(StlKey)
    BY <1>6, <2>2, KeyStoreInv, ProcessAssumption DEF ExitHandler
  <2> QED BY <1>6, <2>1, <2>2 DEF ExitHandler
<1>7. ASSUME NEW o \in Objects, ThreadSteps(o) PROVE StoreInv'
  BY <1>1, <1>7, BeginStoreInv, ProcessAssumption DEF ThreadSteps
<1>8. ASSUME NEW t \in Users, AskInstance(t) PROVE StoreInv'
  BY <1>1, <1>8 DEF AskInstance
<1>9. ASSUME NEW t \in Users, Initialise(t) PROVE StoreInv'
  <2>1. CASE UNCHANGED key
    BY <1>1, <1>9, <2>1 DEF Initialise, localVars
  <2>2. CASE MakeKey(StlKey)
    BY <1>9, <2>2, KeyStoreInv, ProcessAssumption DEF Initialise
  <2> QED BY <1>9, <2>1, <2>2 DEF Initialise
<1>10. ASSUME NEW t \in Users, UseValue(t) PROVE StoreInv'
  BY <1>10, UseStoreInv, ProcessAssumption DEF UseValue
<1>11. ASSUME NEW t \in Users, Destructors(t) PROVE StoreInv'
  BY <1>11, DestructorStoreInv, RoundStoreInv DEF Destructors
<1> QED
  BY <1>2, <1>3, <1>4, <1>5, <1>6, <1>7, <1>8, <1>9, <1>10, <1>11 DEF ProcessNext

-----------------------------------------------------------------------------
(* A function registered before others, and the first of them called *)
LEMMA Cons ==
  ASSUME NEW S, NEW x \in S, NEW q \in Seq(S)
  PROVE  LET r == <<x>> \o q
         IN /\ r \in Seq(S) /\ r # <<>> /\ Len(r) = Len(q) + 1 /\ r[1] = x
            /\ \A i \in 1..Len(q) : r[i + 1] = q[i]
            /\ \A i \in 1..Len(r) : i # 1 => i - 1 \in 1..Len(q) /\ r[i] = q[i - 1]
OBVIOUS

LEMMA Uncons ==
  ASSUME NEW S, NEW q \in Seq(S), q # <<>>
  PROVE  /\ Head(q) \in S /\ Head(q) = q[1] /\ 1 \in 1..Len(q)
         /\ Tail(q) \in Seq(S) /\ Len(Tail(q)) = Len(q) - 1
         /\ \A i \in 1..Len(Tail(q)) : i + 1 \in 1..Len(q) /\ Tail(q)[i] = q[i + 1]
OBVIOUS

(* A singleton is in one thread's init() at most, and then busy. *)
InitsInv ==
  /\ once \in [Singletons -> {"new", "busy", "done"}]
  /\ inits \in [Users -> Seq(Singletons)]
  /\ \A t \in Users : \A i \in 1..Len(inits[t]) : once[inits[t][i]] = "busy"
  /\ \A t, u \in Users : \A i \in 1..Len(inits[t]), j \in 1..Len(inits[u]) :
       inits[t][i] = inits[u][j] => t = u /\ i = j

(* The exit handlers are those of the objects alive but for the kept ones and *)
(* the one being destroyed, each once; that of an object comes before that of *)
(* the object it needs, unless it was made at exit.                           *)
HandlersInv ==
  /\ value \in [Singletons -> {"null", "live", "deleted"}]
  /\ \A s \in Singletons : value[s] = "null" <=> once[s] # "done"
  /\ \A s \in Kept : value[s] # "deleted"
  /\ atExit \in Seq(Singletons)
  /\ \A i, j \in 1..Len(atExit) : atExit[i] = atExit[j] => i = j
  /\ \A s \in Singletons :
       (value[s] = "live" /\ s \notin Kept /\ s # dying) <=> \E i \in 1..Len(atExit) : atExit[i] = s
  /\ \A i \in 1..Len(atExit) :
       \/ atExit[i] \in late
       \/ Needs[atExit[i]] = NoSingleton
       \/ Needs[atExit[i]] \in Kept /\ value[Needs[atExit[i]]] = "live"
       \/ \E j \in (i + 1)..Len(atExit) : atExit[j] = Needs[atExit[i]]
  /\ dying # NoSingleton =>
       /\ dying \in Singletons \ Kept /\ value[dying] = "live"
       /\ \/ dying \in late
          \/ Needs[dying] = NoSingleton
          \/ Needs[dying] \in Kept /\ value[Needs[dying]] = "live"
          \/ \E j \in 1..Len(atExit) : atExit[j] = Needs[dying]

(* Somebody enters init(). *)
LEMMA EnterInv ==
  ASSUME InitsInv, HandlersInv, NEW t \in Users, NEW s \in Singletons, Enter(t, s)
  PROVE  InitsInv' /\ HandlersInv'
<1> DEFINE q == <<s>> \o inits[t]
<1>1. /\ once[s] = "new" /\ once' = [once EXCEPT ![s] = "busy"]
      /\ inits' = [inits EXCEPT ![t] = q] /\ UNCHANGED <<value, atExit, dying, late>>
  BY DEF Enter
<1>2. /\ q \in Seq(Singletons) /\ Len(q) = Len(inits[t]) + 1 /\ q[1] = s
      /\ \A i \in 1..Len(q) : i # 1 => i - 1 \in 1..Len(inits[t]) /\ q[i] = inits[t][i - 1]
  BY Cons DEF InitsInv
<1> HIDE DEF q
<1>3. \A u \in Users : inits'[u] = IF u = t THEN q ELSE inits[u]
  BY <1>1 DEF InitsInv
<1>4. \A u \in Users : \A i \in 1..Len(inits[u]) : inits[u][i] # s
  BY <1>1 DEF InitsInv
<1>5. once' \in [Singletons -> {"new", "busy", "done"}] /\ inits' \in [Users -> Seq(Singletons)]
  BY <1>1, <1>2 DEF InitsInv
<1>6. ASSUME NEW u \in Users, NEW i \in 1..Len(inits'[u])
      PROVE  \/ u = t /\ i = 1 /\ inits'[u][i] = s
             \/ \E k \in 1..Len(inits[u]) :
                  inits'[u][i] = inits[u][k] /\ i = IF u = t THEN k + 1 ELSE k
  <2>1. CASE u # t
    BY <1>3, <1>6, <2>1
  <2>2. CASE u = t /\ i = 1
    BY <1>2, <1>3, <2>2
  <2>3. CASE u = t /\ i # 1
    <3>1. i - 1 \in 1..Len(inits[t]) /\ inits'[u][i] = inits[u][i - 1] /\ i = (i - 1) + 1
      BY <1>2, <1>3, <1>6, <2>3
    <3> QED BY <2>3, <3>1
  <2> QED BY <2>1, <2>2, <2>3
<1>7. ASSUME NEW u \in Users, NEW i \in 1..Len(inits'[u]) PROVE once'[inits'[u][i]] = "busy"
  <2>1. CASE inits'[u][i] = s
    BY <1>1, <2>1 DEF InitsInv
  <2>2. ASSUME NEW k \in 1..Len(inits[u]), inits'[u][i] = inits[u][k] PROVE once'[inits'[u][i]] = "busy"
    BY <1>1, <2>2 DEF InitsInv
  <2> QED BY <1>6, <1>7, <2>1, <2>2
<1>8. ASSUME NEW u \in Users, NEW v \in Users, NEW i \in 1..Len(inits'[u]), NEW j \in 1..Len(inits'[v]),
             inits'[u][i] = inits'[v][j]
      PROVE  u = v /\ i = j
  <2>1. CASE inits'[u][i] = s
    <3>1. ASSUME NEW w \in Users, NEW k \in 1..Len(inits'[w]), inits'[w][k] = s PROVE w = t /\ k = 1
      <4>1. \A l \in 1..Len(inits[w]) : inits[w][l] # s
        BY <1>4
      <4> QED BY <1>6, <3>1, <4>1
    <3>2. inits'[v][j] = s
      BY <1>8, <2>1
    <3>3. (u = t /\ i = 1) /\ (v = t /\ j = 1)
      BY <2>1, <3>1, <3>2
    <3> QED BY <3>3
  <2>2. CASE inits'[u][i] # s
    <3>1. PICK k \in 1..Len(inits[u]) : inits'[u][i] = inits[u][k] /\ i = IF u = t THEN k + 1 ELSE k
      BY <1>6, <2>2
    <3>2. PICK l \in 1..Len(inits[v]) : inits'[v][j] = inits[v][l] /\ j = IF v = t THEN l + 1 ELSE l
      BY <1>6, <1>8, <2>2
    <3>3. inits[u][k] = inits[v][l]
      BY <1>8, <3>1, <3>2
    <3>4. u = v /\ k = l
      BY <3>3 DEF InitsInv
    <3> QED BY <3>1, <3>2, <3>4
  <2> QED BY <2>1, <2>2
<1>9. HandlersInv'
  BY <1>1 DEF InitsInv, HandlersInv
<1> QED BY <1>5, <1>7, <1>8, <1>9 DEF InitsInv

(* init() returns, while nothing has been deleted or for a destructor. *)
LEMMA ReturnInv ==
  ASSUME InitsInv, HandlersInv, NEW t \in Users, InitReturns(t),
         dying = NoSingleton => \A s \in Singletons : value[s] # "deleted"
  PROVE  InitsInv' /\ HandlersInv'
<1> DEFINE s == Head(inits[t])
           q == Tail(inits[t])
           h == <<s>> \o atExit
<1>1. /\ inits[t] # <<>>
      /\ Needs[s] # NoSingleton => once[Needs[s]] = "done"
      /\ value' = [value EXCEPT ![s] = "live"]
      /\ once' = [once EXCEPT ![s] = "done"]
      /\ atExit' = IF s \in Kept THEN atExit ELSE h
      /\ inits' = [inits EXCEPT ![t] = q]
      /\ late' = (IF dying = NoSingleton THEN late ELSE late \cup {s}) /\ dying' = dying
  BY DEF InitReturns
<1>2. /\ s \in Singletons /\ s = inits[t][1] /\ 1 \in 1..Len(inits[t])
      /\ q \in Seq(Singletons)
      /\ \A i \in 1..Len(q) : i + 1 \in 1..Len(inits[t]) /\ q[i] = inits[t][i + 1]
  <2>1. inits[t] \in Seq(Singletons)
    BY DEF InitsInv
  <2> QED BY <1>1, <2>1, Uncons
<1>3. /\ h \in Seq(Singletons) /\ Len(h) = Len(atExit) + 1 /\ h[1] = s
      /\ \A i \in 1..Len(atExit) : h[i + 1] = atExit[i]
      /\ \A i \in 1..Len(h) : i # 1 => i - 1 \in 1..Len(atExit) /\ h[i] = atExit[i - 1]
  <2>1. atExit \in Seq(Singletons)
    BY DEF HandlersInv
  <2> HIDE DEF s
  <2> QED BY <1>2, <2>1, Cons
<1> HIDE DEF s, q, h
<1>4. \A u \in Users : inits'[u] = IF u = t THEN q ELSE inits[u]
  BY <1>1 DEF InitsInv
<1>5. once[s] = "busy" /\ value[s] = "null"
  BY <1>2 DEF InitsInv, HandlersInv
<1>6. InitsInv'
  <2>1. once' \in [Singletons -> {"new", "busy", "done"}] /\ inits' \in [Users -> Seq(Singletons)]
    BY <1>1, <1>2 DEF InitsInv
  <2>2. ASSUME NEW u \in Users, NEW i \in 1..Len(inits'[u])
        PROVE  \E k \in 1..Len(inits[u]) :
                 /\ inits'[u][i] = inits[u][k] /\ i = IF u = t THEN k - 1 ELSE k
                 /\ inits[u][k] # s
    <3>1. CASE u # t
      BY <1>2, <1>4, <2>2, <3>1 DEF InitsInv
    <3>2. CASE u = t
      <4>1. i \in 1..Len(q) /\ inits'[u][i] = inits[t][i + 1] /\ i + 1 \in 1..Len(inits[t]) /\ i = (i + 1) - 1
        BY <1>2, <1>4, <2>2, <3>2
      <4>2. inits[t][i + 1] # inits[t][1]
        BY <1>2, <4>1 DEF InitsInv
      <4> QED BY <1>2, <3>2, <4>1, <4>2
    <3> QED BY <3>1, <3>2
  <2>3. ASSUME NEW u \in Users, NEW i \in 1..Len(inits'[u]) PROVE once'[inits'[u][i]] = "busy"
    <3>1. PICK k \in 1..Len(inits[u]) : inits'[u][i] = inits[u][k] /\ inits[u][k] # s
      BY <2>2, <2>3
    <3> QED BY <1>1, <3>1 DEF InitsInv
  <2>4. ASSUME NEW u \in Users, NEW v \in Users, NEW i \in 1..Len(inits'[u]), NEW j \in 1..Len(inits'[v]),
               inits'[u][i] = inits'[v][j]
        PROVE  u = v /\ i = j
    <3>1. PICK k \in 1..Len(inits[u]) : inits'[u][i] = inits[u][k] /\ i = IF u = t THEN k - 1 ELSE k
      BY <2>2
    <3>2. PICK l \in 1..Len(inits[v]) : inits'[v][j] = inits[v][l] /\ j = IF v = t THEN l - 1 ELSE l
      BY <2>2
    <3>3. inits[u][k] = inits[v][l]
      BY <2>4, <3>1, <3>2
    <3>4. u = v /\ k = l
      BY <3>3 DEF InitsInv
    <3> QED BY <3>1, <3>2, <3>4
  <2> QED BY <2>1, <2>3, <2>4 DEF InitsInv
<1>7. /\ value' \in [Singletons -> {"null", "live", "deleted"}]
      /\ \A x \in Singletons : value'[x] = "null" <=> once'[x] # "done"
      /\ \A x \in Kept : value'[x] # "deleted"
      /\ value'[s] = "live" /\ \A x \in Singletons \ {s} : value'[x] = value[x]
  BY <1>1, <1>2, SingletonAssumption DEF InitsInv, HandlersInv
<1>8. CASE s \in Kept
  <2>1. atExit' = atExit
    BY <1>1, <1>8
  <2>2. \A i \in 1..Len(atExit) : atExit[i] # s
    BY <1>2, <1>5 DEF HandlersInv
  <2>3. \A x \in Singletons :
          (value'[x] = "live" /\ x \notin Kept /\ x # dying) <=> \E i \in 1..Len(atExit) : atExit[i] = x
    BY <1>7, <1>8, <2>2 DEF HandlersInv
  <2>4. \A x \in Singletons : value[x] = "live" => value'[x] = "live"
    BY <1>7
  <2>5. \A i \in 1..Len(atExit) :
       \/ atExit[i] \in late'
       \/ Needs[atExit[i]] = NoSingleton
       \/ Needs[atExit[i]] \in Kept /\ value'[Needs[atExit[i]]] = "live"
       \/ \E j \in (i + 1)..Len(atExit) : atExit[j] = Needs[atExit[i]]
    BY <1>1, <2>4, SingletonAssumption DEF HandlersInv
  <2>6. dying # NoSingleton =>
       /\ dying \in Singletons \ Kept /\ value'[dying] = "live"
       /\ \/ dying \in late'
          \/ Needs[dying] = NoSingleton
          \/ Needs[dying] \in Kept /\ value'[Needs[dying]] = "live"
          \/ \E j \in 1..Len(atExit) : atExit[j] = Needs[dying]
    BY <1>1, <2>4, SingletonAssumption DEF HandlersInv
  <2> QED BY <1>1, <1>6, <1>7, <2>1, <2>3, <2>5, <2>6 DEF HandlersInv
<1>9. CASE s \notin Kept
  <2>1. atExit' = h
    BY <1>1, <1>9
  <2>2. \A i \in 1..Len(atExit) : atExit[i] # s
    BY <1>2, <1>5 DEF HandlersInv
  <2>3. ASSUME NEW i \in 1..Len(h), NEW j \in 1..Len(h), h[i] = h[j] PROVE i = j
    <3>1. CASE i = 1 \/ j = 1
      BY <1>3, <2>2, <2>3, <3>1
    <3>2. CASE i # 1 /\ j # 1
      <4>1. /\ i - 1 \in 1..Len(atExit) /\ j - 1 \in 1..Len(atExit)
            /\ atExit[i - 1] = atExit[j - 1]
        BY <1>3, <2>3, <3>2
      <4>2. i - 1 = j - 1
        BY <4>1 DEF HandlersInv
      <4> QED BY <4>2
    <3> QED BY <3>1, <3>2
  <2>4. ASSUME NEW x \in Singletons
        PROVE  (value'[x] = "live" /\ x \notin Kept /\ x # dying) <=> \E i \in 1..Len(h) : h[i] = x
    <3>0. atExit \in Seq(Singletons) /\ Len(atExit) \in Nat /\ 1 \in 1..Len(h)
      BY <1>3 DEF HandlersInv
    <3>1. CASE x = s
      <4>1. s # dying
        BY <1>2, <1>5, SingletonAssumption DEF HandlersInv
      <4> QED BY <1>3, <1>7, <1>9, <3>0, <3>1, <4>1
    <3>2. CASE x # s
      <4>1. (\E i \in 1..Len(h) : h[i] = x) <=> \E i \in 1..Len(atExit) : atExit[i] = x
        <5>1. ASSUME NEW i \in 1..Len(h), h[i] = x PROVE \E j \in 1..Len(atExit) : atExit[j] = x
          BY <1>3, <3>2, <5>1
        <5>2. ASSUME NEW i \in 1..Len(atExit), atExit[i] = x PROVE \E j \in 1..Len(h) : h[j] = x
          <6>1. i + 1 \in 1..Len(h) /\ h[i + 1] = x
            BY <1>3, <3>0, <5>2
          <6> QED BY <6>1
        <5> QED BY <5>1, <5>2
      <4> QED BY <1>7, <3>2, <4>1 DEF HandlersInv
    <3> QED BY <3>1, <3>2
  <2>5. ASSUME NEW i \in 1..Len(h)
        PROVE  \/ h[i] \in late'
               \/ Needs[h[i]] = NoSingleton
               \/ Needs[h[i]] \in Kept /\ value'[Needs[h[i]]] = "live"
               \/ \E j \in (i + 1)..Len(h) : h[j] = Needs[h[i]]
    <3>0. atExit \in Seq(Singletons) /\ Len(atExit) \in Nat /\ i \in Nat
      BY <1>3 DEF HandlersInv
    <3>1. CASE i = 1 /\ Needs[s] # NoSingleton /\ dying = NoSingleton
      <4>1. once[Needs[s]] = "done" /\ Needs[s] \in Singletons
        BY <1>1, <1>2, <3>1, SingletonAssumption
      <4>2. value[Needs[s]] = "live" /\ Needs[s] # s
        BY <1>5, <3>1, <4>1 DEF HandlersInv
      <4>3. CASE Needs[s] \notin Kept
        <5>1. PICK j \in 1..Len(atExit) : atExit[j] = Needs[s]
          BY <3>1, <4>1, <4>2, <4>3, SingletonAssumption DEF HandlersInv
        <5>2. h[j + 1] = Needs[s] /\ j + 1 \in (i + 1)..Len(h)
          BY <1>3, <3>0, <3>1, <5>1
        <5> QED BY <1>3, <3>1, <5>2
      <4> QED BY <1>3, <1>7, <3>1, <4>1, <4>2, <4>3
    <3>2. CASE i # 1
      <4>1. i - 1 \in 1..Len(atExit) /\ h[i] = atExit[i - 1]
        BY <1>3, <3>2
      <4>2. CASE Needs[h[i]] = NoSingleton
        BY <4>2
      <4>3. CASE Needs[h[i]] \in Kept /\ value[Needs[h[i]]] = "live"
        BY <1>5, <1>7, <4>3, SingletonAssumption
      <4>4. ASSUME NEW j \in ((i - 1) + 1)..Len(atExit), atExit[j] = Needs[h[i]]
            PROVE  \E l \in (i + 1)..Len(h) : h[l] = Needs[h[i]]
        <5>1. j + 1 \in (i + 1)..Len(h) /\ h[j + 1] = Needs[h[i]]
          BY <1>3, <3>0, <4>1, <4>4
        <5> QED BY <5>1
      <4>5. CASE h[i] \in late
        BY <1>1, <4>5
      <4> QED BY <4>1, <4>2, <4>3, <4>4, <4>5 DEF HandlersInv
    <3>3. CASE i = 1 /\ dying # NoSingleton
      BY <1>1, <1>3, <3>3
    <3> QED BY <1>3, <3>1, <3>2, <3>3
  <2>6. ASSUME dying # NoSingleton
        PROVE  /\ dying \in Singletons \ Kept /\ value'[dying] = "live"
               /\ \/ dying \in late'
                  \/ Needs[dying] = NoSingleton
                  \/ Needs[dying] \in Kept /\ value'[Needs[dying]] = "live"
                  \/ \E j \in 1..Len(h) : h[j] = Needs[dying]
    <3>1. ASSUME NEW j \in 1..Len(atExit), atExit[j] = Needs[dying]
          PROVE  \E l \in 1..Len(h) : h[l] = Needs[dying]
      <4>1. j + 1 \in 1..Len(h) /\ h[j + 1] = Needs[dying]
        BY <1>3, <3>1 DEF HandlersInv
      <4> QED BY <4>1
    <3>2. \A x \in Singletons : value[x] = "live" => value'[x] = "live"
      BY <1>7
    <3>3. dying \in Singletons \ Kept /\ value'[dying] = "live"
      BY <2>6, <3>2 DEF HandlersInv
    <3>4. dying \in late => dying \in late'
      BY <1>1
    <3>5. Needs[dying] \in Kept /\ value[Needs[dying]] = "live" => value'[Needs[dying]] = "live"
      BY <3>2, SingletonAssumption
    <3>6. \/ dying \in late
          \/ Needs[dying] = NoSingleton
          \/ Needs[dying] \in Kept /\ value[Needs[dying]] = "live"
          \/ \E j \in 1..Len(atExit) : atExit[j] = Needs[dying]
      BY <2>6 DEF HandlersInv
    <3> QED BY <3>1, <3>3, <3>4, <3>5, <3>6
  <2>7. /\ \A i, j \in 1..Len(atExit') : atExit'[i] = atExit'[j] => i = j
        /\ \A x \in Singletons :
             (value'[x] = "live" /\ x \notin Kept /\ x # dying') <=> \E i \in 1..Len(atExit') : atExit'[i] = x
    BY <1>1, <2>1, <2>3, <2>4
  <2>8. \A i \in 1..Len(atExit') :
          \/ atExit'[i] \in late'
          \/ Needs[atExit'[i]] = NoSingleton
          \/ Needs[atExit'[i]] \in Kept /\ value'[Needs[atExit'[i]]] = "live"
          \/ \E j \in (i + 1)..Len(atExit') : atExit'[j] = Needs[atExit'[i]]
    BY <2>1, <2>5
  <2>9. dying' # NoSingleton =>
          /\ dying' \in Singletons \ Kept /\ value'[dying'] = "live"
          /\ \/ dying' \in late'
             \/ Needs[dying'] = NoSingleton
             \/ Needs[dying'] \in Kept /\ value'[Needs[dying']] = "live"
             \/ \E j \in 1..Len(atExit') : atExit'[j] = Needs[dying']
    BY <1>1, <2>1, <2>6
  <2> QED BY <1>3, <1>6, <1>7, <2>1, <2>7, <2>8, <2>9 DEF HandlersInv
<1> QED BY <1>6, <1>8, <1>9

(* exit() takes the first handler off its list. *)
LEMMA DestroyInv ==
  ASSUME InitsInv, HandlersInv, RunDestroy
  PROVE  InitsInv' /\ HandlersInv'
<1> DEFINE s == Head(atExit)
           q == Tail(atExit)
<1>1. /\ atExit # <<>> /\ dying = NoSingleton /\ dying' = s /\ atExit' = q
      /\ UNCHANGED <<once, value, inits, late>>
  BY DEF RunDestroy
<1>2. /\ s \in Singletons /\ s = atExit[1] /\ 1 \in 1..Len(atExit)
      /\ q \in Seq(Singletons) /\ Len(q) = Len(atExit) - 1
      /\ \A i \in 1..Len(q) : i + 1 \in 1..Len(atExit) /\ q[i] = atExit[i + 1]
  <2>1. atExit \in Seq(Singletons)
    BY DEF HandlersInv
  <2> QED BY <1>1, <2>1, Uncons
<1> HIDE DEF s, q
<1>3. s \notin Kept /\ value[s] = "live"
  BY <1>2 DEF HandlersInv
<1>4. \A i \in 1..Len(q) : q[i] # s
  <2>1. \A i \in 1..Len(q) : i + 1 # 1
    OBVIOUS
  <2> QED BY <1>2, <2>1 DEF HandlersInv
<1>5. \A i, j \in 1..Len(q) : q[i] = q[j] => i = j
  <2>1. ASSUME NEW i \in 1..Len(q), NEW j \in 1..Len(q), q[i] = q[j] PROVE i = j
    <3>1. i + 1 = j + 1
      BY <1>2, <2>1 DEF HandlersInv
    <3> QED BY <3>1
  <2> QED BY <2>1
<1>6. ASSUME NEW x \in Singletons
      PROVE  (value[x] = "live" /\ x \notin Kept /\ x # s) <=> \E i \in 1..Len(q) : q[i] = x
  <2>1. CASE x = s
    BY <1>4, <2>1
  <2>2. CASE x # s
    <3>1. ASSUME NEW i \in 1..Len(q), q[i] = x PROVE \E j \in 1..Len(atExit) : atExit[j] = x
      BY <1>2, <3>1
    <3>2. ASSUME NEW i \in 1..Len(atExit), atExit[i] = x PROVE \E j \in 1..Len(q) : q[j] = x
      <4>1. i # 1
        BY <1>2, <2>2, <3>2
      <4>2. i - 1 \in 1..Len(q) /\ (i - 1) + 1 = i
        BY <1>2, <4>1
      <4>3. q[i - 1] = x
        BY <1>2, <3>2, <4>2
      <4> QED BY <4>2, <4>3
    <3>3. x # dying
      BY <1>1, SingletonAssumption
    <3> QED BY <2>2, <3>1, <3>2, <3>3 DEF HandlersInv
  <2> QED BY <2>1, <2>2
<1>7. ASSUME NEW i \in 1..Len(q)
      PROVE  \/ q[i] \in late
             \/ Needs[q[i]] = NoSingleton
             \/ Needs[q[i]] \in Kept /\ value[Needs[q[i]]] = "live"
             \/ \E j \in (i + 1)..Len(q) : q[j] = Needs[q[i]]
  <2>0. i + 1 \in 1..Len(atExit) /\ q[i] = atExit[i + 1]
    BY <1>2
  <2>1. ASSUME NEW j \in ((i + 1) + 1)..Len(atExit), atExit[j] = Needs[q[i]]
        PROVE  \E l \in (i + 1)..Len(q) : q[l] = Needs[q[i]]
    <3>1. j - 1 \in (i + 1)..Len(q) /\ j - 1 \in 1..Len(q) /\ (j - 1) + 1 = j
      BY <1>2
    <3>2. q[j - 1] = Needs[q[i]]
      BY <1>2, <2>1, <3>1
    <3> QED BY <3>1, <3>2
  <2> QED BY <2>0, <2>1 DEF HandlersInv
<1>8. \/ s \in late
      \/ Needs[s] = NoSingleton
      \/ Needs[s] \in Kept /\ value[Needs[s]] = "live"
      \/ \E j \in 1..Len(q) : q[j] = Needs[s]
  <2>1. ASSUME NEW j \in (1 + 1)..Len(atExit), atExit[j] = Needs[s]
        PROVE  \E l \in 1..Len(q) : q[l] = Needs[s]
    <3>1. j - 1 \in 1..Len(q) /\ (j - 1) + 1 = j
      BY <1>2
    <3>2. q[j - 1] = Needs[s]
      BY <1>2, <2>1, <3>1
    <3> QED BY <3>1, <3>2
  <2> QED BY <1>2, <2>1 DEF HandlersInv
<1>9. InitsInv'
  BY <1>1 DEF InitsInv
<1> QED BY <1>1, <1>2, <1>3, <1>5, <1>6, <1>7, <1>8, <1>9 DEF HandlersInv

(* The object is deleted: no handler that waits belongs to it or to one that  *)
(* needs it and was made before exit().                                       *)
LEMMA DeletedInv ==
  ASSUME InitsInv, HandlersInv, NEW t \in Users, DestroyReturns(t)
  PROVE  InitsInv' /\ HandlersInv'
<1>1. /\ dying \in Singletons \ Kept /\ value[dying] = "live"
      /\ value' = [value EXCEPT ![dying] = "deleted"] /\ dying' = NoSingleton
      /\ UNCHANGED <<once, atExit, inits, late>>
  BY DEF DestroyReturns, HandlersInv
<1>2. /\ value' \in [Singletons -> {"null", "live", "deleted"}]
      /\ \A x \in Singletons : value'[x] = "null" <=> once'[x] # "done"
      /\ value'[dying] = "deleted" /\ \A x \in Singletons \ {dying} : value'[x] = value[x]
      /\ \A x \in Kept : value'[x] = value[x]
  BY <1>1, SingletonAssumption DEF HandlersInv
<1>3. \A x \in Singletons :
        (value'[x] = "live" /\ x \notin Kept /\ x # dying') <=> \E i \in 1..Len(atExit') : atExit'[i] = x
  BY <1>1, <1>2, SingletonAssumption DEF HandlersInv
<1>4. InitsInv'
  BY <1>1 DEF InitsInv
<1> QED BY <1>1, <1>2, <1>3, <1>4 DEF HandlersInv

(* While somebody initialises nobody has left, but for the destructors at     *)
(* exit: the objects are destroyed after the last init() of a thread.         *)
ExitInv ==
  /\ \A t \in Users : inits[t] # <<>> => Runs(t) \/ (t = Main /\ dying # NoSingleton)
  /\ dying # NoSingleton => main = "exit"
  /\ main = "exit" => AllEnded
  /\ round[Main] \in 1..Rounds => main = "exiting"
  /\ main # "exit" => \A s \in Singletons : value[s] # "deleted"

(* A name in a ThreadData is one of a thread that runs its function. *)
NamesInv == \A o \in Objects : name[o] = "data" => thread[o] = "run"

LifeInv == InitsInv /\ HandlersInv /\ ExitInv /\ NamesInv

LEMMA InitLifeInv == ProcessInit => LifeInv
<1> SUFFICES ASSUME ProcessInit PROVE LifeInv
  OBVIOUS
<1>1. /\ \A t \in Users : inits[t] = <<>> /\ Len(inits[t]) = 0
      /\ \A s \in Singletons : value[s] = "null" /\ once[s] = "new"
      /\ atExit = <<>> /\ Len(atExit) = 0 /\ main = "run" /\ round[Main] = 0
      /\ dying = NoSingleton /\ late = {}
      /\ \A o \in Objects : name[o] = "unknown"
  BY ProcessAssumption DEF ProcessInit, SingletonInit, LocalInit, Init
<1>2. /\ once \in [Singletons -> {"new", "busy", "done"}] /\ inits \in [Users -> Seq(Singletons)]
      /\ value \in [Singletons -> {"null", "live", "deleted"}] /\ atExit \in Seq(Singletons)
  BY ProcessAssumption DEF ProcessInit, SingletonInit
<1>3. InitsInv
  BY <1>1, <1>2 DEF InitsInv
<1>4. HandlersInv
  BY <1>1, <1>2, SingletonAssumption DEF HandlersInv
<1>5. ExitInv /\ NamesInv
  BY <1>1, LocalAssumption DEF ExitInv, NamesInv
<1> QED BY <1>3, <1>4, <1>5 DEF LifeInv

(* An object starts a thread that was not there. *)
LEMMA ObjectChanges ==
  ASSUME IInv, NEW o \in Objects, ObjectStep(o)
  PROVE  /\ \A p \in Objects : thread[p] # "none" => thread'[p] = thread[p]
         /\ UNCHANGED name
BY DEF IInv, TypeOK, ReleaseInv, ObjectStep, Count, Construct, Start, StartFails, Join, JoinReturn, Destroy, Set

(* A thread changes itself, and its name while it runs. *)
LEMMA ThreadChanges ==
  ASSUME IInv, NEW o \in Objects, ThreadStep(o), name[o] = "data" => thread[o] = "run"
  PROVE  /\ thread[o] \notin {"none", "ended"}
         /\ \A p \in Objects \ {o} : thread'[p] = thread[p] /\ name'[p] = name[p]
         /\ name'[o] = "data" => thread'[o] = "run"
BY DEF IInv, TypeOK, ThreadStep, LockTid, WriteTid, SetName, FuncReturns, FuncThrows, DeleteData, ThreadEnds, Set

LEMMA SingletonsStutter ==
  ASSUME InitsInv, HandlersInv, UNCHANGED singletonVars
  PROVE  InitsInv' /\ HandlersInv'
<1>1. UNCHANGED <<once, value, atExit, inits, dying, late>>
  BY DEF singletonVars
<1>2. InitsInv'
  BY <1>1 DEF InitsInv
<1>3. HandlersInv'
  BY <1>1 DEF HandlersInv
<1> QED BY <1>2, <1>3

(* Every step of a process *)
LEMMA LifeStep ==
  ASSUME IInv, RoundsInv, LifeInv, [ProcessNext]_processVars
  PROVE  LifeInv'
<1> USE DEF LifeInv
<1>0. Objects = Users \ {Main} /\ Main \in Users
  BY ProcessAssumption
<1>1. CASE UNCHANGED <<singletonVars, thread, name, main, round>>
  <2>1. InitsInv' /\ HandlersInv' /\ NamesInv'
    BY <1>1, SingletonsStutter DEF NamesInv
  <2> QED BY <1>1, <2>1 DEF ExitInv, Runs, AllEnded, singletonVars
<1>2. CASE ObjectSteps
  <2>1. PICK t \in Users : Runs(t)
    BY <1>2 DEF ObjectSteps, SomeoneRuns
  <2>2. /\ main # "exit" /\ UNCHANGED <<singletonVars, main, round, name>>
        /\ \A o \in Objects : thread[o] # "none" => thread'[o] = thread[o]
    BY <1>0, <1>2, <2>1, ObjectChanges DEF ObjectSteps, localVars, Runs, ExitInv, AllEnded
  <2>3. InitsInv' /\ HandlersInv' /\ NamesInv'
    BY <2>2, SingletonsStutter DEF NamesInv
  <2> QED BY <1>0, <2>2, <2>3 DEF ExitInv, Runs, singletonVars
<1>3. CASE DestroyLocal
  BY <1>1, <1>3 DEF DestroyLocal, vars
<1>4. CASE MainExits
  <2>1. /\ main = "run" /\ inits[Main] = <<>> /\ main' = "exiting"
        /\ UNCHANGED <<singletonVars, thread, name>>
    BY <1>4 DEF MainExits, vars
  <2>2. InitsInv' /\ HandlersInv' /\ NamesInv'
    BY <2>1, SingletonsStutter DEF NamesInv
  <2> QED BY <2>1, <2>2 DEF ExitInv, Runs, singletonVars
<1>5. CASE Exit
  <2>1. /\ main = "ended" \/ (main = "run" /\ inits[Main] = <<>>)
        /\ main' = "exit" /\ AllEnded /\ UNCHANGED <<singletonVars, thread, name, round>>
    BY <1>5 DEF Exit, vars, localVars
  <2>2. InitsInv' /\ HandlersInv' /\ NamesInv'
    BY <2>1, SingletonsStutter DEF NamesInv
  <2>3. \A t \in Users : inits[t] = <<>>
    BY <1>0, <2>1 DEF ExitInv, Runs, AllEnded
  <2> QED BY <2>1, <2>2, <2>3 DEF ExitInv, AllEnded, singletonVars
<1>6. CASE ExitHandler
  <2>1. main = "exit" /\ UNCHANGED <<thread, name, main, round>>
    BY <1>6 DEF ExitHandler, vars
  <2>2. CASE RunDestroy
    <3>1. InitsInv' /\ HandlersInv' /\ inits' = inits /\ \A t \in Users : inits[t] = <<>>
      BY <1>0, <2>1, <2>2, DestroyInv DEF RunDestroy, ExitInv, Runs, AllEnded
    <3> QED BY <2>1, <3>1 DEF ExitInv, NamesInv, Runs, AllEnded
  <2>3. CASE DestructorAsks(Main)
    <3>1. /\ dying \in Singletons /\ dying' = dying /\ dying # NoSingleton
          /\ Enter(Main, Parting[dying]) /\ Parting[dying] \in Singletons
      BY <2>3, SingletonAssumption DEF DestructorAsks, Enter, HandlersInv
    <3>2. InitsInv' /\ HandlersInv'
      BY <1>0, <3>1, EnterInv
    <3>3. \A u \in Users : u # Main => inits'[u] = inits[u]
      BY <3>1 DEF Enter, InitsInv
    <3> QED BY <2>1, <3>1, <3>2, <3>3 DEF ExitInv, NamesInv, Runs, AllEnded
  <2>4. CASE DestroyReturns(Main)
    <3>1. InitsInv' /\ HandlersInv' /\ inits' = inits /\ inits[Main] = <<>> /\ dying' = NoSingleton
      BY <1>0, <2>4, DeletedInv DEF DestroyReturns
    <3> QED BY <2>1, <3>1 DEF ExitInv, NamesInv, Runs, AllEnded
  <2> QED BY <1>6, <2>2, <2>3, <2>4 DEF ExitHandler
<1>7. ASSUME NEW o \in Objects, ThreadSteps(o) PROVE LifeInv'
  <2>1. /\ inits[o] = <<>> /\ UNCHANGED <<singletonVars, main>>
        /\ ThreadStep(o) /\ (UNCHANGED round \/ BeginDestructors(o))
    BY <1>7 DEF ThreadSteps, localVars
  <2>2. /\ thread[o] \notin {"none", "ended"}
        /\ \A p \in Objects \ {o} : thread'[p] = thread[p] /\ name'[p] = name[p]
        /\ name'[o] = "data" => thread'[o] = "run"
    BY <2>1, ThreadChanges DEF NamesInv
  <2>3. InitsInv' /\ HandlersInv' /\ NamesInv'
    BY <2>1, <2>2, SingletonsStutter DEF NamesInv
  <2>4. main # "exit"
    BY <2>2 DEF ExitInv, AllEnded
  <2>5. round'[Main] = round[Main]
    BY <1>0, <2>1 DEF RoundsInv, BeginDestructors
  <2> QED BY <1>0, <2>1, <2>2, <2>3, <2>4, <2>5 DEF ExitInv, Runs, singletonVars
<1>8. ASSUME NEW t \in Users, AskInstance(t) PROVE LifeInv'
  <2>1. PICK s \in Singletons : Enter(t, s) /\ Runs(t)
    BY <1>8 DEF AskInstance, Instance
  <2>2. UNCHANGED <<thread, name, main, round, value, dying>>
    BY <1>8, <2>1 DEF AskInstance, Enter, vars, localVars
  <2>3. InitsInv' /\ HandlersInv'
    BY <2>1, EnterInv
  <2>4. \A u \in Users : u # t => inits'[u] = inits[u]
    BY <2>1 DEF Enter, InitsInv
  <2> QED BY <2>1, <2>2, <2>3, <2>4 DEF ExitInv, NamesInv, Runs, AllEnded
<1>9. ASSUME NEW t \in Users, Initialise(t) PROVE LifeInv'
  <2>1. UNCHANGED <<thread, name, main, round>> /\ (ConstructorAsks(t) \/ InitReturns(t))
    BY <1>9 DEF Initialise, vars
  <2>2. /\ inits[t] # <<>> /\ dying' = dying
        /\ Runs(t) \/ (t = Main /\ dying # NoSingleton)
        /\ dying = NoSingleton => main # "exit"
    BY <1>0, <2>1 DEF ConstructorAsks, InitReturns, Enter, ExitInv, Runs, AllEnded
  <2>3. dying = NoSingleton => \A s \in Singletons : value[s] # "deleted"
    BY <2>2 DEF ExitInv
  <2>4. CASE ConstructorAsks(t)
    <3>1. inits[t] \in Seq(Singletons) /\ Head(inits[t]) \in Singletons
      BY <2>2, Uncons DEF InitsInv
    <3>2. Enter(t, Needs[Head(inits[t])]) /\ Needs[Head(inits[t])] \in Singletons
      BY <2>4, <3>1, SingletonAssumption DEF ConstructorAsks
    <3>3. InitsInv' /\ HandlersInv'
      BY <3>2, EnterInv
    <3>4. \A u \in Users : u # t => inits'[u] = inits[u]
      BY <3>2 DEF Enter, InitsInv
    <3>5. value' = value
      BY <3>2 DEF Enter
    <3> QED BY <2>1, <2>2, <3>3, <3>4, <3>5 DEF ExitInv, NamesInv, Runs, AllEnded
  <2>5. CASE InitReturns(t)
    <3>1. InitsInv' /\ HandlersInv'
      BY <2>3, <2>5, ReturnInv
    <3>2. \A u \in Users : u # t => inits'[u] = inits[u]
      BY <2>5 DEF InitReturns, InitsInv
    <3>3. main # "exit" => \A s \in Singletons : value'[s] # "deleted"
      BY <2>5 DEF InitReturns, HandlersInv, ExitInv
    <3> QED BY <2>1, <2>2, <3>1, <3>2, <3>3 DEF ExitInv, NamesInv, Runs, AllEnded
  <2> QED BY <2>1, <2>4, <2>5
<1>10. ASSUME NEW t \in Users, UseValue(t) PROVE LifeInv'
  BY <1>1, <1>10 DEF UseValue, Use, vars
<1>11. ASSUME NEW t \in Users, Destructors(t) PROVE LifeInv'
  <2>1. /\ UNCHANGED singletonVars /\ round[t] \in 1..Rounds
        /\ \A u \in Users \ {t} : round'[u] = round[u]
    BY <1>11 DEF Destructors, RunDestructor, EndRound, RoundsInv
  <2>2. CASE t = Main
    <3>1. main = "exiting" /\ UNCHANGED <<thread, name>>
          /\ (main' = main \/ (main' = "ended" /\ round'[Main] = Rounds + 1))
      BY <1>11, <2>1, <2>2 DEF Destructors, ExitInv, vars
    <3>2. InitsInv' /\ HandlersInv' /\ NamesInv'
      BY <2>1, <3>1, SingletonsStutter DEF NamesInv
    <3> QED BY <2>1, <3>1, <3>2, LocalAssumption DEF ExitInv, Runs, singletonVars
  <2>3. CASE t # Main /\ round'[t] # Rounds + 1
    <3>1. UNCHANGED <<thread, name, main>> /\ round'[Main] = round[Main]
      BY <1>0, <1>11, <2>1, <2>3 DEF Destructors, vars
    <3>2. InitsInv' /\ HandlersInv' /\ NamesInv'
      BY <2>1, <3>1, SingletonsStutter DEF NamesInv
    <3> QED BY <2>1, <3>1, <3>2 DEF ExitInv, Runs, AllEnded, singletonVars
  <2>4. CASE t # Main /\ round'[t] = Rounds + 1
    <3>1. ThreadEnds(t) /\ UNCHANGED main /\ round'[Main] = round[Main] /\ t \in Objects
      BY <1>0, <1>11, <2>1, <2>4 DEF Destructors
    <3>2. /\ thread[t] = "deleted" /\ thread'[t] = "ended" /\ UNCHANGED name
          /\ \A o \in Objects \ {t} : thread'[o] = thread[o]
      BY <3>1 DEF ThreadEnds, Set, IInv, TypeOK
    <3>3. InitsInv' /\ HandlersInv' /\ NamesInv'
      BY <2>1, <3>2, SingletonsStutter DEF NamesInv
    <3> QED BY <1>0, <2>1, <3>1, <3>2, <3>3 DEF ExitInv, Runs, AllEnded, singletonVars
  <2> QED BY <2>2, <2>3, <2>4
<1>12. CASE UNCHANGED processVars
  BY <1>1, <1>12 DEF processVars, vars, localVars
<1>13. CASE ProcessEnded
  BY <1>12, <1>13 DEF ProcessEnded
<1> QED
  BY <1>2, <1>3, <1>4, <1>5, <1>6, <1>7, <1>8, <1>9, <1>10, <1>11, <1>12, <1>13 DEF ProcessNext

(* All the invariants together hold in every process. *)
LEMMA ProcessInvariance == ProcessSpec => [](IInv /\ StoreInv /\ LifeInv)
<1>1. ProcessInit => IInv /\ StoreInv /\ LifeInv
  BY InitIInv, InitStoreInv, InitLifeInv DEF ProcessInit
<1>2. IInv /\ StoreInv /\ LifeInv /\ [ProcessNext]_processVars => IInv' /\ StoreInv' /\ LifeInv'
  BY StepIInv, ProcessStep, LocalStep, LifeStep DEF StoreInv
<1> QED BY <1>1, <1>2, PTL DEF ProcessSpec

(* The destructors at the end of a thread or of the process reach only what   *)
(* is still there.                                                            *)
THEOREM ProcessNothingDangles == ProcessSpec => []NothingDangles
<1>1. ASSUME StoreInv, LifeInv PROVE NothingDangles
  <2>1. \A o \in Objects : thread[o] \in {"deleted", "ended"} => name[o] # "data"
    BY <1>1 DEF LifeInv, NamesInv
  <2>2. ASSUME NEW t \in Users, NEW k \in store[t].tvalue \cup store[t].slot PROVE store[t].live[k] = 1
    <3>1. Coherent(store[t]) /\ store[t].slot \subseteq Keys
      BY <1>1, Stores DEF StoreInv
    <3> QED BY <2>2, <3>1 DEF Coherent
  <2>3. ASSUME NEW s \in Singletons, value[s] = "live", s \notin Kept \cup late, Needs[s] # NoSingleton
        PROVE  value[Needs[s]] = "live"
    <3>1. s = dying \/ \E i \in 1..Len(atExit) : atExit[i] = s
      BY <1>1, <2>3 DEF LifeInv, HandlersInv
    <3>2. Needs[s] \in Singletons
      BY <2>3, SingletonAssumption
    <3>3. ASSUME NEW j \in 1..Len(atExit), atExit[j] = Needs[s] PROVE value[Needs[s]] = "live"
      BY <1>1, <3>2, <3>3 DEF LifeInv, HandlersInv
    <3>4. ASSUME NEW i \in 1..Len(atExit), atExit[i] = s PROVE value[Needs[s]] = "live"
      <4>1. \A j \in (i + 1)..Len(atExit) : j \in 1..Len(atExit)
        BY <1>1 DEF LifeInv, HandlersInv
      <4> QED BY <1>1, <2>3, <3>3, <3>4, <4>1 DEF LifeInv, HandlersInv
    <3>5. CASE s = dying
      BY <1>1, <2>3, <3>3, <3>5, SingletonAssumption DEF LifeInv, HandlersInv
    <3> QED BY <3>1, <3>4, <3>5
  <2> QED BY <2>1, <2>2, <2>3 DEF NothingDangles
<1> QED BY <1>1, ProcessInvariance, PTL

(* The pointers of a ThreadLocalSingleton agree with its key, whatever is     *)
(* made anew while the values of a thread are deleted.                        *)
THEOREM ProcessTlsAssertions == ProcessSpec => []TlsAssertions
<1>1. StoreInv => TlsAssertions
  BY DEF StoreInv, ValuesInv, TlsAssertions
<1> QED BY <1>1, ProcessInvariance, PTL

(* A thread leaves no value behind when no chain of destructors that make     *)
(* values is longer than the rounds, and the process no singleton.            *)
THEOREM ProcessDeletesValues == ProcessSpec => []ValuesDeleted
<1>1. ASSUME StoreInv, LifeInv PROVE ValuesDeleted
  <2>1. ASSUME NEW t \in Users, NEW k \in Keys
        PROVE  /\ store[t].live[k] \in {0, 1}
               /\ Gone(t) /\ key[k] # "deleted" /\ ShortChains => store[t].live[k] = 0
    <3>1. store[t].live[k] = IF k \in store[t].slot THEN 1 ELSE 0
      BY <1>1, Stores DEF StoreInv, Coherent
    <3>2. ASSUME Gone(t), key[k] # "deleted", ShortChains, k \in store[t].slot PROVE FALSE
      <4>1. PICK rank \in Ranks : TRUE
        BY <3>2 DEF ShortChains
      <4>2. key[k] = "made"
        BY <1>1, <3>2 DEF StoreInv, KeysInv
      <4>3. rank[k] \in 0..(Rounds - 1)
        BY <4>1 DEF Ranks
      <4>4. round[t] = Rounds + 1 /\ round[t] <= rank[k] + 1
        BY <1>1, <3>2, <4>1, <4>2, LocalAssumption DEF StoreInv, RoundsInv, Gone
      <4> QED BY <4>3, <4>4, LocalAssumption
    <3> QED BY <3>1, <3>2
  <2>2. ASSUME atExit = <<>>, dying = NoSingleton, NEW s \in Singletons \ Kept PROVE value[s] # "live"
    BY <1>1, <2>2, SingletonAssumption DEF LifeInv, HandlersInv
  <2> QED BY <2>1, <2>2 DEF ValuesDeleted
<1> QED BY <1>1, ProcessInvariance, PTL

==============================================================================
