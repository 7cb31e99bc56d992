------------------------------- MODULE Condition -------------------------------
(***************************************************************************)
(* base/Condition.h as its users see it.  A user keeps a function at that  *)
(* says where each thread is; the threads asleep at one condition are those*)
(* at one place, and waking a thread moves it back to the test of the loop *)
(* around wait(), where it needs the mutex again.                          *)
(***************************************************************************)

(* notify(): one of the threads asleep at the place, if there is one, goes   *)
(* back; the set of the functions at that may result.                        *)
Notify(at, asleep, back) ==
  LET sleepers == {t \in DOMAIN at : at[t] = asleep}
  IN  IF sleepers = {} THEN {at} ELSE {[at EXCEPT ![t] = back] : t \in sleepers}

(* notifyAll(): all of them go back. *)
NotifyAll(at, asleep, back) ==
  [t \in DOMAIN at |-> IF at[t] = asleep THEN back ELSE at[t]]

=============================================================================
