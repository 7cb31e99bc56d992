-------------------------------- MODULE Process --------------------------------
(***************************************************************************)
(* A process as the tests Singleton, ThreadLocal, ThreadLocalSingleton and *)
(* SingletonThreadLocal make it: main() and the threads of some Thread     *)
(* objects use singletons and values of their own, in any order, the       *)
(* values of one ThreadLocal through a Singleton (STL in the last test).   *)
(* A thread's values are deleted when it ends, the singletons when the     *)
(* last thread ends the process.                                           *)
(***************************************************************************)
EXTENDS Thread, Singleton, ThreadLocal

CONSTANTS
  Main,      \* the main thread
  Stl,       \* the Singleton that is a ThreadLocal
  StlKey,    \* its key
  LocalKey,  \* the key of a ThreadLocal that main() destroys itself
  Wants      \* Wants[t]: the keys whose values the function of thread t may use

ASSUME ProcessAssumption ==
  /\ Main \notin Objects /\ Users = Objects \cup {Main} /\ Callers = Users
  /\ Stl \in Singletons \ Kept
  /\ Wants \in [Users -> SUBSET Keys]
  /\ StlKey \in Keys \ Singles /\ LocalKey \in Keys \ Singles /\ LocalKey # StlKey

VARIABLE main    \* "run", "exiting" from pthread_exit(), "ended", or "exit" when the handlers run

processVars == <<vars, singletonVars, localVars, main>>

(* A Deleter of a ThreadLocalSingleton, and a ThreadLocal outside functions,  *)
(* make their keys before main() runs.                                       *)
ProcessInit ==
  /\ Init /\ SingletonInit /\ LocalInit(Keys \ {StlKey})
  /\ main = "run"

Runs(t) == IF t = Main THEN main = "run" ELSE thread[t] = "run"

(* Somebody is there to make, join and destroy Thread objects. *)
SomeoneRuns == \E t \in Users : Runs(t) /\ inits[t] = <<>>

-----------------------------------------------------------------------------
(* Thread objects are used by any thread. *)
ObjectSteps ==
  /\ SomeoneRuns
  /\ \E o \in Objects : ObjectStep(o)
  /\ UNCHANGED <<singletonVars, localVars, main>>

(* The thread of an object up to the end of its function; when its ThreadData *)
(* is deleted the C library takes over.                                       *)
ThreadSteps(o) ==
  /\ inits[o] = <<>>
  /\ ThreadStep(o)
  /\ thread'[o] # "ended"
  /\ IF thread'[o] = "deleted" THEN BeginDestructors(o) ELSE UNCHANGED localVars
  /\ UNCHANGED <<singletonVars, main>>

AskInstance(t) ==
  /\ Runs(t)
  /\ \E s \in Singletons : Instance(t, s)
  /\ UNCHANGED <<vars, localVars, main>>

(* init(); the object may be the ThreadLocal, whose constructor makes the key.*)
Initialise(t) ==
  /\ \/ ConstructorAsks(t) /\ UNCHANGED key
     \/ InitReturns(t) /\ IF Head(inits[t]) = Stl THEN MakeKey(StlKey) ELSE UNCHANGED key
  /\ UNCHANGED <<vars, store, round, visit, failed, main>>

UseValue(t) ==
  /\ Runs(t) /\ inits[t] = <<>>
  /\ \E k \in Wants[t] : Use(t, k)
  /\ UNCHANGED <<vars, singletonVars, main>>

(* main() destroys a ThreadLocal of which threads have values. *)
DestroyLocal ==
  /\ main = "run"
  /\ DeleteKey(LocalKey)
  /\ UNCHANGED <<vars, singletonVars, store, round, visit, failed, main>>

(* pthread_exit() in main() *)
MainExits ==
  /\ main = "run" /\ inits[Main] = <<>>
  /\ main' = "exiting"
  /\ BeginDestructors(Main)
  /\ UNCHANGED <<vars, singletonVars>>

(* The destructors of a thread, after which it ends. *)
Destructors(t) ==
  /\ RunDestructor(t) \/ EndRound(t)
  /\ IF round'[t] # Rounds + 1 THEN UNCHANGED <<vars, main>>
     ELSE IF t = Main THEN main' = "ended" /\ UNCHANGED vars
     ELSE ThreadEnds(t) /\ UNCHANGED main
  /\ UNCHANGED singletonVars

AllEnded == \A o \in Objects : thread[o] \in {"none", "ended"}

(* The last thread calls exit(); or main() returns, when it is the last. *)
Exit ==
  /\ \/ main = "ended"
     \/ main = "run" /\ inits[Main] = <<>>
  /\ AllEnded
  /\ main' = "exit"
  /\ UNCHANGED <<vars, singletonVars, localVars>>

(* The exit handlers, in the thread that calls exit(), which goes by the name *)
(* of Main whichever it is; that of STL destroys the ThreadLocal.             *)
ExitHandler ==
  /\ main = "exit"
  /\ \/ (RunDestroy \/ DestructorAsks(Main)) /\ UNCHANGED key
     \/ /\ DestroyReturns(Main)
        /\ IF dying = Stl THEN DeleteKey(StlKey) ELSE UNCHANGED key
  /\ UNCHANGED <<vars, store, round, visit, failed, main>>

ProcessEnded ==
  /\ aborted \/ (main = "exit" /\ atExit = <<>> /\ dying = NoSingleton)
  /\ UNCHANGED processVars

ProcessNext ==
  \/ /\ ~aborted
     /\ \/ ObjectSteps \/ DestroyLocal \/ MainExits \/ Exit \/ ExitHandler
        \/ \E o \in Objects : ThreadSteps(o)
        \/ \E t \in Users : AskInstance(t) \/ Initialise(t) \/ UseValue(t) \/ Destructors(t)
  \/ ProcessEnded

ProcessSpec == ProcessInit /\ [][ProcessNext]_processVars

-----------------------------------------------------------------------------
(* What a destructor at the end of a thread, or of the process, can reach is  *)
(* there: the name of the thread outlives its ThreadData, a t_value_ or a     *)
(* slot points to a value that is alive, even one that a destructor made anew *)
(* after its first one was deleted, and a singleton made before exit() finds  *)
(* the one that its constructor asked for alive as long as it is alive        *)
(* itself, whichever thread made which first and whatever destructors make    *)
(* anew.  Of any other singleton, and when it was itself made by a destructor *)
(* at exit(), it may find a deleted object.                                   *)
NothingDangles ==
  /\ \A o \in Objects : thread[o] \in {"deleted", "ended"} => name[o] # "data"
  /\ \A t \in Users :
       /\ \A k \in store[t].tvalue : store[t].live[k] = 1
       /\ \A k \in store[t].slot : key[k] = "made" => store[t].live[k] = 1
  /\ \A s \in Singletons :
       value[s] = "live" /\ s \notin Kept \cup late /\ Needs[s] # NoSingleton => value[Needs[s]] = "live"

(* The assert()s of ThreadLocalSingleton, in destructor() and in set(), hold  *)
(* although values are made anew between and inside the rounds.               *)
TlsAssertions == ~failed

(* A thread that has ended leaves no value behind, those included that its    *)
(* destructors made, as long as no chain of uses is longer than the rounds    *)
(* (ShortChains); only values of a ThreadLocal destroyed before are leaked.   *)
(* A process that has ended leaves only the singletons with no_destroy, also  *)
(* of those that destructors asked for while the exit handlers ran.           *)
ValuesDeleted ==
  /\ \A t \in Users, k \in Keys :
       /\ store[t].live[k] \in {0, 1}
       /\ Gone(t) /\ key[k] # "deleted" /\ ShortChains => store[t].live[k] = 0
  /\ main = "exit" /\ atExit = <<>> /\ dying = NoSingleton => \A s \in Singletons \ Kept : value[s] # "live"

=============================================================================
