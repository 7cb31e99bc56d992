----------------------------- MODULE TaskExecutor -----------------------------
(***************************************************************************)
(* What ThreadPool promises to the threads that call run(): a bounded FIFO *)
(* of tasks, each of which is begun once and finishes before stop()        *)
(* returns.  Threads, mutex, conditions and the order in which stop()      *)
(* does its work are out of sight.                                         *)
(***************************************************************************)
EXTENDS Naturals, Sequences

CONSTANTS Tasks, Capacity    \* Capacity 0: no bound

VARIABLES
  manned,     \* the executor has threads
  waiting,    \* accepted and not begun, in order
  executing,  \* begun and not finished
  done,       \* finished
  closed      \* stop() has returned

executorVars == <<manned, waiting, executing, done, closed>>

Known == {waiting[i] : i \in 1..Len(waiting)} \cup executing \cup done

Init ==
  /\ manned = FALSE
  /\ waiting = <<>> /\ executing = {} /\ done = {}
  /\ closed = FALSE

Man ==
  /\ ~manned /\ ~closed
  /\ manned' = TRUE
  /\ UNCHANGED <<waiting, executing, done, closed>>

(* A call of run() returns; tasks are accepted after stop() too. *)
Accept(x) ==
  /\ x \notin Known
  /\ Capacity = 0 \/ Len(waiting) < Capacity
  /\ waiting' = Append(waiting, x)
  /\ UNCHANGED <<manned, executing, done, closed>>

(* Only the oldest task may be begun. *)
Begin ==
  /\ manned /\ ~closed
  /\ waiting # <<>>
  /\ executing' = executing \cup {Head(waiting)}
  /\ waiting' = Tail(waiting)
  /\ UNCHANGED <<manned, done, closed>>

Finish(x) ==
  /\ x \in executing
  /\ executing' = executing \ {x}
  /\ done' = done \cup {x}
  /\ UNCHANGED <<manned, waiting, closed>>

(* Without threads the caller runs the task, and what the task submits. *)
RunDirectly(X) ==
  /\ ~manned
  /\ X \cap Known = {}
  /\ done' = done \cup X
  /\ UNCHANGED <<manned, waiting, executing, closed>>

(* stop() waits for the tasks that are executed, not for those that wait. *)
Close ==
  /\ executing = {} /\ ~closed
  /\ closed' = TRUE
  /\ UNCHANGED <<manned, waiting, executing, done>>

Next ==
  \/ Man \/ Begin \/ Close
  \/ \E x \in Tasks : Accept(x) \/ Finish(x)
  \/ \E X \in SUBSET Tasks : RunDirectly(X)

Spec == Init /\ [][Next]_executorVars

=============================================================================
