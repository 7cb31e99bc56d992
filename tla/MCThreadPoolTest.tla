--------------------------- MODULE MCThreadPoolTest ---------------------------
(* Two workers; main() with two tasks before the latch, another client with   *)
(* two tasks of its own, on a queue of two places.                            *)
EXTENDS ThreadPoolTest

CONSTANTS a, b, c, d, latch, main, other

MCTasks   == {a, b, c, d, latch}
MCClients == {main, other}
MCScript  == <<a, b, latch>>
MCLeaves  == [x \in MCTasks |-> NoTask]
MCTwo     == {2}
MCNone    == {}
MCLatchThreads == {1, 2, Owner}

=============================================================================
