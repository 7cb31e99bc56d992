------------------------------ MODULE MCLogger ------------------------------
(* Logger with two threads, two seconds, one time zone besides UTC and two   *)
(* sinks.  A FATAL line in UTC has 38 bytes before its message and 16 after: *)
(* the messages leave room for one number, for one byte, and for less.       *)
EXTENDS Logger, TLC

CONSTANTS t1, t2, UTC, Local, StdOut, File

MCThreads  == {t1, t2}
MCSymmetry == Permutations(MCThreads)
MCZones    == {UTC, Local}
MCSinks    == {StdOut, File}
MCClocks   == {1, 2}
MCLevels   == {LogLevel.DEBUG, LogLevel.FATAL}
MCMessages == {<<Text(n)>> : n \in {10, 3915, 3949}} \cup {<<Number(20), Text(3930), Number(20)>>}

=============================================================================
