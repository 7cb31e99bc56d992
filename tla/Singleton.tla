------------------------------- MODULE Singleton -------------------------------
(***************************************************************************)
(* base/Singleton.h: instance() runs init() through pthread_once(), init() *)
(* makes the object and then registers destroy() with atexit().  The       *)
(* constructor and the destructor of an object may ask for another         *)
(* singleton, the destructor also for one that was deleted before it.      *)
(* Exit handlers run last registered first, those first that a handler     *)
(* registers.                                                              *)
(***************************************************************************)
EXTENDS Naturals, Sequences

CONSTANTS
  Callers,      \* the threads that call instance()
  Singletons,   \* the types T of Singleton<T>
  Needs,        \* Needs[s]: the singleton that the constructor of s asks for, or NoSingleton
  Parting,      \* Parting[s]: the singleton that the destructor of s asks for, or NoSingleton
  Kept,         \* the types with a member no_destroy
  NoSingleton

ASSUME SingletonAssumption ==
  /\ Needs \in [Singletons -> Singletons \cup {NoSingleton}]
  /\ Parting \in [Singletons -> Singletons \cup {NoSingleton}]
  /\ NoSingleton \notin Singletons
  /\ \A S \in SUBSET Singletons : S # {} => \E s \in S : Needs[s] \notin S
  /\ Kept \subseteq Singletons

VARIABLES
  once,    \* ponce_ of each: "new", "busy" or "done"
  value,   \* what value_ points to: "null", "live" or "deleted"
  atExit,  \* the registered destroy() functions, the next to run first
  inits,   \* inits[t]: the init() calls thread t is in, the innermost first
  dying,   \* the object whose destroy() runs, or NoSingleton
  late     \* history: the objects that were made for the destructor of another

singletonVars == <<once, value, atExit, inits, dying, late>>

SingletonInit ==
  /\ once = [s \in Singletons |-> "new"]
  /\ value = [s \in Singletons |-> "null"]
  /\ atExit = <<>>
  /\ inits = [t \in Callers |-> <<>>]
  /\ dying = NoSingleton /\ late = {}

(* instance(): the first caller enters init(), the others wait in             *)
(* pthread_once() until it is done.                                          *)
Enter(t, s) ==
  /\ once[s] = "new"
  /\ once' = [once EXCEPT ![s] = "busy"]
  /\ inits' = [inits EXCEPT ![t] = <<s>> \o @]
  /\ UNCHANGED <<value, atExit, dying, late>>

Instance(t, s) == inits[t] = <<>> /\ Enter(t, s)

(* new T(): the constructor asks for another singleton. *)
ConstructorAsks(t) ==
  /\ inits[t] # <<>>
  /\ Needs[Head(inits[t])] # NoSingleton
  /\ Enter(t, Needs[Head(inits[t])])

(* The constructor returns, once instance() has returned to it, destroy() is   *)
(* registered behind what the constructor has registered, and init() returns. *)
InitReturns(t) ==
  /\ inits[t] # <<>>
  /\ LET s == Head(inits[t])
     IN /\ Needs[s] # NoSingleton => once[Needs[s]] = "done"
        /\ value' = [value EXCEPT ![s] = "live"]
        /\ once' = [once EXCEPT ![s] = "done"]
        /\ atExit' = IF s \in Kept THEN atExit ELSE <<s>> \o atExit
        /\ late' = IF dying = NoSingleton THEN late ELSE late \cup {s}
  /\ inits' = [inits EXCEPT ![t] = Tail(@)]
  /\ UNCHANGED dying

(* exit() in thread t takes the next handler off its list and calls it. *)
RunDestroy ==
  /\ dying = NoSingleton /\ atExit # <<>>
  /\ dying' = Head(atExit)
  /\ atExit' = Tail(atExit)
  /\ UNCHANGED <<once, value, inits, late>>

(* delete value_: the destructor asks for a singleton, which is made now if   *)
(* nobody has asked before; if it was deleted, instance() returns what is not *)
(* there any more.                                                            *)
DestructorAsks(t) ==
  /\ dying # NoSingleton /\ inits[t] = <<>>
  /\ Parting[dying] # NoSingleton
  /\ Enter(t, Parting[dying])

(* value_ keeps its address. *)
DestroyReturns(t) ==
  /\ dying # NoSingleton /\ inits[t] = <<>>
  /\ Parting[dying] # NoSingleton => once[Parting[dying]] = "done"
  /\ value' = [value EXCEPT ![dying] = "deleted"]
  /\ dying' = NoSingleton
  /\ UNCHANGED <<once, atExit, inits, late>>

=============================================================================
