------------------------------ MODULE ThreadLocal ------------------------------
(***************************************************************************)
(* base/ThreadLocal.h and base/ThreadLocalSingleton.h: values that each    *)
(* thread makes on first use and that its end deletes, over the keys of    *)
(* pthreads.  When a thread ends the C library visits the keys in order,   *)
(* empties the slot and calls the destructor with what was in it, and      *)
(* starts again, at most Rounds times, while some slot is not empty: a     *)
(* destructor ~T() may use values that are gone by then and make them anew.*)
(***************************************************************************)
EXTENDS Naturals

CONSTANTS
  Users,    \* the threads
  NumKeys,  \* the keys are 1..NumKeys, in the order they were created
  Singles,  \* the keys of ThreadLocalSingleton<T>, the others are of a ThreadLocal<T>
  Uses,     \* Uses[k]: the key whose value ~T() of the value of k uses, or 0
  Rounds    \* PTHREAD_DESTRUCTOR_ITERATIONS

Keys == 1..NumKeys

ASSUME LocalAssumption ==
  /\ NumKeys \in Nat /\ Rounds \in Nat
  /\ Singles \subseteq Keys
  /\ Uses \in [Keys -> 0..NumKeys]

(* A rank for each key that goes up from the key of a value to the key it     *)
(* uses, and that the rounds can count: there is one when no chain of uses is *)
(* longer than the rounds.                                                    *)
Ranks == {r \in [Keys -> 0..(Rounds - 1)] : \A k \in Keys : Uses[k] # 0 => r[k] < r[Uses[k]]}

ShortChains == Ranks # {}

VARIABLES
  key,     \* key[k]: "none" before pthread_key_create(), "made", "deleted" after pthread_key_delete()
  store,   \* store[t]: the slots, the t_value_ pointers and the values alive of a thread
  round,   \* round[t]: 0 while t runs, the round of destructors it is in, Rounds + 1 when it has gone
  visit,   \* visit[t]: the key the round comes to next
  failed   \* an assert() of ThreadLocalSingleton has failed

localVars == <<key, store, round, visit, failed>>

(* At most one value per thread and key is alive, so that a pointer is told   *)
(* by its being set, and the values alive by their number: slot and tvalue    *)
(* are the keys whose pointers are set.                                      *)
Fresh == [slot |-> {}, tvalue |-> {}, live |-> [k \in Keys |-> 0]]

LocalInit(made) ==
  /\ key = [k \in Keys |-> IF k \in made THEN "made" ELSE "none"]
  /\ store = [t \in Users |-> Fresh]
  /\ round = [t \in Users |-> 0]
  /\ visit = [t \in Users |-> 1]
  /\ failed = FALSE

-----------------------------------------------------------------------------
(* ThreadLocal::value() in the storage s of the calling thread *)
Value(s, k) ==
  IF k \in s.slot THEN s ELSE [s EXCEPT !.slot = @ \cup {k}, !.live[k] = @ + 1]

(* Mutants of SingleInstance: the value is not passed to the Deleter; t_value_ is    *)
(* left as it is.                                                            *)
SingleInstance_NotSet(s, k) ==
  IF k \in s.tvalue THEN s ELSE [s EXCEPT !.tvalue = @ \cup {k}, !.live[k] = @ + 1]

SingleInstance_NoPointer(s, k) ==
  IF k \in s.tvalue THEN s ELSE [s EXCEPT !.slot = @ \cup {k}, !.live[k] = @ + 1]

(* ThreadLocalSingleton::instance() *)
SingleInstance(s, k) ==
  IF k \in s.tvalue THEN s ELSE [s EXCEPT !.tvalue = @ \cup {k}, !.slot = @ \cup {k}, !.live[k] = @ + 1]

Get(s, k) == IF k \in Singles THEN SingleInstance(s, k) ELSE Value(s, k)

(* Deleter::set() asserts that the slot is empty. *)
GetFails(s, k) == k \in Singles /\ k \notin s.tvalue /\ k \in s.slot

(* ~T(): nobody uses a ThreadLocal object that is not there. *)
Used(k) == IF Uses[k] # 0 /\ key[Uses[k]] = "made" THEN {Uses[k]} ELSE {}

Destructed(s, k) ==
  LET u == [s EXCEPT !.slot = @ \ {k}]
      v == IF Used(k) = {} THEN u ELSE Get(u, Uses[k])
  IN [v EXCEPT !.live[k] = @ - 1]

(* Mutant of SingleDestructed: t_value_ is not reset. *)
SingleDestructed_KeepsPointer(s, k) == Destructed(s, k)

(* ThreadLocalSingleton::destructor() *)
SingleDestructed(s, k) == [Destructed(s, k) EXCEPT !.tvalue = @ \ {k}]

DestructorFails(s, k) ==
  \/ k \in Singles /\ k \notin s.tvalue
  \/ \E u \in Used(k) : GetFails([s EXCEPT !.slot = @ \ {k}], u)

-----------------------------------------------------------------------------
(* A running thread uses its value of a key. *)
Use(t, k) ==
  /\ round[t] = 0
  /\ key[k] = "made"
  /\ store' = [store EXCEPT ![t] = Get(@, k)]
  /\ failed' = (failed \/ GetFails(store[t], k))
  /\ UNCHANGED <<key, round, visit>>

(* ThreadLocal(), and ~ThreadLocal(), which runs no destructors *)
MakeKey(k)   == key[k] = "none" /\ key' = [key EXCEPT ![k] = "made"]
DeleteKey(k) == key[k] = "made" /\ key' = [key EXCEPT ![k] = "deleted"]

(* The function of the thread has returned. *)
BeginDestructors(t) ==
  /\ round[t] = 0
  /\ round' = [round EXCEPT ![t] = 1]
  /\ UNCHANGED <<key, store, visit, failed>>

Filled(t, from) == {k \in store[t].slot : k >= from /\ key[k] = "made"}

RunDestructor(t) ==
  /\ round[t] \in 1..Rounds
  /\ Filled(t, visit[t]) # {}
  /\ LET k == CHOOSE k \in Filled(t, visit[t]) : \A l \in Filled(t, visit[t]) : k <= l
     IN /\ visit' = [visit EXCEPT ![t] = k + 1]
        /\ store' = [store EXCEPT ![t] = IF k \in Singles THEN SingleDestructed(@, k) ELSE Destructed(@, k)]
        /\ failed' = (failed \/ DestructorFails(store[t], k))
  /\ UNCHANGED <<key, round>>

EndRound(t) ==
  /\ round[t] \in 1..Rounds
  /\ Filled(t, visit[t]) = {}
  /\ round' = [round EXCEPT ![t] = IF Filled(t, 1) = {} THEN Rounds + 1 ELSE @ + 1]
  /\ visit' = [visit EXCEPT ![t] = 1]
  /\ UNCHANGED <<key, store, failed>>

Gone(t) == round[t] = Rounds + 1

=============================================================================
