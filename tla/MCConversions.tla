---------------------------- MODULE MCConversions ----------------------------
(* The years the comment on YearMonthDay names, UTC as far as 32 bits reach,  *)
(* and zones of up to three transitions in units of half an hour; numbers of  *)
(* up to four digits; files of up to ten bytes through a buffer of three;     *)
(* names of up to four characters.                                            *)
EXTENDS Conversions

MCYears    == 1900..2500
MCUtcYears == 1902..2037
MCSeconds  == {0, 59, 3599, 3600, 45296, 86399}
MCMoments  == 0..26
MCValues   == -1100..1100

Kinds(std) == <<[gmtOffset |-> std, isDst |-> FALSE, arrbIdx |-> 4],
                [gmtOffset |-> std + 2, isDst |-> TRUE, arrbIdx |-> 0],
                [gmtOffset |-> std - 3, isDst |-> FALSE, arrbIdx |-> 8]>>

Zone(std, times, idx) ==
  [localtimes |-> Kinds(std), abbreviation |-> 12,
   transitions |-> [i \in 1..Len(times) |-> [gmttime |-> times[i], localtimeIdx |-> idx[i]]]]

Spans == {<<>>, <<6>>, <<4, 10>>, <<4, 7>>, <<3, 9, 20>>, <<5, 8, 11>>}

MCZones == UNION {{Zone(std, times, idx) : idx \in [1..Len(times) -> 1..3]} :
                  std \in {-4, 0, 3}, times \in Spans}

(* From a transition to the next the standard and the saving time alternate. *)
MCSavingZones ==
  {z \in MCZones : \A i \in 1..Len(z.transitions) :
     /\ z.transitions[i].localtimeIdx # 3
     /\ i > 1 => z.transitions[i].localtimeIdx # z.transitions[i - 1].localtimeIdx}

MCStamps == [seconds : {0, 9, 10, 999, 2146}, micros : {0, 1, 42, 99999, 100000, 999999}]

MCFiles == [fd : {-1, 0, 3}, stat : {"regular", "directory", "other", "fails"}, size : 0..10,
            reads : BoundedSeq(0..2, 4)]
MCLimits == {-1, 0, 1, 3, 4, 10, 11}

MCNames == BoundedSeq({"a", "(", ")"}, 4)

=============================================================================
