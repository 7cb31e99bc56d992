---------------------------- MODULE MCAsyncLogging ----------------------------
(* AsyncLogging with buffers of one short line each and a backlog limit of 3. *)
EXTENDS AsyncLogging

CONSTANTS k, l, m, n, long

MCLines == {k, l, m, n, long}
MCSize  == [x \in MCLines |-> IF x = long THEN 3 ELSE 1]
MCLatch == {Owner, Backend}

=============================================================================
