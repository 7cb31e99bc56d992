------------------------------- MODULE TimeZone -------------------------------
(***************************************************************************)
(* The zone half of base/TimeZone.cc: conversions between UTC and the      *)
(* local time of a zone that is given by the transitions of a zone file.   *)
(* A broken-down local time is its seconds (what timegm() makes of it),    *)
(* its flag for daylight saving time and where its name, tm_zone, starts;  *)
(* a zone's data is                                                        *)
(*   localtimes:   the kinds of local time, [gmtOffset, isDst, arrbIdx],   *)
(*   transitions:  [gmttime, localtimeIdx], in the order of gmttime,       *)
(*   abbreviation: the bytes of the names, 0 if they have not been read.   *)
(***************************************************************************)
EXTENDS Integers, Sequences, FiniteSetsExt

CONSTANTS
  Hour,  \* 3600, the daylight saving that fromLocalTime() assumes
  Day    \* the length of a day

(* A zone file is read field by field: four bytes that tell it from others,   *)
(* the version, the bytes reserved and six counts; then the times of all      *)
(* transitions, their kinds, three fields for each kind of local time, and    *)
(* the abbreviations.  A read that comes short throws.                        *)
TypesStart(zone) == 9 + 2 * Len(zone.transitions)
TypesEnd(zone)   == TypesStart(zone) + 3 * Len(zone.localtimes)
FileLength(zone) == TypesEnd(zone) + 1

(* readTimeZoneFile() of a zone's file of which only the first fields are     *)
(* there, none if it cannot be opened.  The exception is caught: what had     *)
(* been stored until then is the data, and the zone counts as valid.          *)
readTimeZoneFile(zone, fields) ==
  [localtimes   |-> SubSeq(zone.localtimes, 1, (fields - TypesStart(zone)) \div 3),
   transitions  |-> IF fields >= TypesEnd(zone) THEN zone.transitions ELSE <<>>,
   abbreviation |-> IF fields >= FileLength(zone) THEN zone.abbreviation ELSE 0]

(* What findLocaltime() compares, by UTC or by local time; the local time at  *)
(* a transition is the new one.                                               *)
TimeAt(data, gmt, i) ==
  LET transition == data.transitions[i]
  IN  transition.gmttime + IF gmt THEN 0 ELSE data.localtimes[transition.localtimeIdx].gmtOffset

(* Mutant of Chosen: lower_bound() is taken as it is. *)
Chosen_Bound(data, gmt, bound, sentry) == bound

(* The transition in force, of the first one that is not before the time *)
Chosen(data, gmt, bound, sentry) == IF TimeAt(data, gmt, bound) = sentry THEN bound ELSE bound - 1

(* findLocaltime(): lower_bound(), and one step back unless it hit. *)
findLocaltime(data, gmt, sentry) ==
  LET n == Len(data.transitions)
      notLess == {i \in 1..n : TimeAt(data, gmt, i) >= sentry}
  IN  IF n = 0 \/ sentry < TimeAt(data, gmt, 1) THEN data.localtimes[1]
      ELSE data.localtimes[data.transitions[
             IF notLess = {} THEN n ELSE Chosen(data, gmt, Min(notLess), sentry)].localtimeIdx]

(* &abbreviation[arrbIdx] past the end of the names: no name at all *)
Outside == -1

toLocalTime(data, seconds) ==
  LET local == findLocaltime(data, TRUE, seconds)
  IN  [seconds |-> seconds + local.gmtOffset, isDst |-> local.isDst,
       zone    |-> IF local.arrbIdx <= data.abbreviation THEN local.arrbIdx ELSE Outside]

(* Mutant of Repeated: an hour that comes twice is taken for the later one. *)
Repeated_Ignored(data, tm, local) == FALSE

(* fromLocalTime(): the hour comes twice, and the first one is meant. *)
Repeated(data, tm, local) ==
  LET try == toLocalTime(data, tm.seconds - local.gmtOffset)
  IN  tm.isDst /\ ~try.isDst /\ try.seconds % Day = tm.seconds % Day

fromLocalTime(data, tm) ==
  LET local == findLocaltime(data, FALSE, tm.seconds)
  IN  (IF Repeated(data, tm, local) THEN tm.seconds - Hour ELSE tm.seconds) - local.gmtOffset

=============================================================================
