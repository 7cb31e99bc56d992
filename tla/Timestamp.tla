------------------------------- MODULE Timestamp -------------------------------
(* base/Timestamp.{h,cc}: microseconds since the epoch. *)
EXTENDS Numbers

kMicroSecondsPerSecond == 1000 * 1000

secondsSinceEpoch(t) == CDiv(t, kMicroSecondsPerSecond)

(* now(), of what gettimeofday() returns *)
Now(tv_sec, tv_usec) == tv_sec * kMicroSecondsPerSecond + tv_usec

(* printf's "%06d", of a number that is not negative *)
SixDigits(n) == [i \in 1..(6 - Len(convert(n))) |-> "0"] \o convert(n)

toString(t) ==
  convert(secondsSinceEpoch(t)) \o <<".">> \o SixDigits(CMod(t, kMicroSecondsPerSecond))

=============================================================================
