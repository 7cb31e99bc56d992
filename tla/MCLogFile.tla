------------------------------ MODULE MCLogFile ------------------------------
(* LogFile with periods of three seconds, two of which begin, files of three *)
(* bytes, a check every other line, and lines of one byte or four.            *)
EXTENDS LogFile

MCClocks  == 2..6
MCLengths == {1, 4}

=============================================================================
