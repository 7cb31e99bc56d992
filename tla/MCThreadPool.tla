----------------------------- MODULE MCThreadPool -----------------------------
(* Small instances of ThreadPool: two workers, two client threads, four      *)
(* or five tasks, of which a submits d and c throws.                         *)
EXTENDS ThreadPool, TLC

CONSTANTS a, b, c, d, e, c1, c2

MCFour      == {a, b, c, d}
MCFive      == {a, b, c, d, e}
MCClients   == {c1, c2}
MCStarts    == {0, 2}
MCTwo       == {2}
MCNested4   == [x \in MCFour |-> IF x = a THEN d ELSE NoTask]
MCNested5   == [x \in MCFive |-> IF x = a THEN d ELSE NoTask]
MCLeaves    == [x \in MCFour |-> NoTask]
MCFaulty    == {c}
MCNone      == {}

(* The clients are interchangeable, and so are the tasks b and e. *)
MCSymmetry == Permutations(MCClients) \cup Permutations({b, e})

=============================================================================
