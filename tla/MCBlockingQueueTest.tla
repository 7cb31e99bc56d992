-------------------------- MODULE MCBlockingQueueTest --------------------------
(* BlockingQueueTest with three workers and three messages. *)
EXTENDS BlockingQueueTest

CONSTANTS u, v, w, a, b, stop

MCThreads  == {Main, u, v, w}
MCMessages == {a, b, stop}
MCTimes    == <<a, b, a>>

=============================================================================
