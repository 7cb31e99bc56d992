------------------------------ MODULE Conversions ------------------------------
(***************************************************************************)
(* The sequential parts of base/ against their definitions, one question   *)
(* per state: a year; a zone, how much of its file is there, and a moment; *)
(* a number; a moment to print; a file to read; the name of a process.     *)
(***************************************************************************)
EXTENDS Date, TimeZone, Timestamp, ReadSmallFile, ProcessInfo

CONSTANTS
  Years,      \* the years asked for
  UtcYears,   \* those of them whose seconds fit the integers at hand
  Seconds,    \* seconds of a day
  Zones,      \* the data of zones
  SavingZones,\* those of them that switch between a standard time and one an Hour ahead of it
  Moments,    \* the times asked for in a zone
  Values,     \* the numbers asked for
  Stamps,     \* seconds and microseconds to print
  Files,      \* the files read
  Limits,     \* the values of maxSize
  Names       \* the names of processes

(* The Julian day numbers of the year are positive: Date::valid(). *)
ValidYear(y) == y \in Int /\ y > -4713

(* A zone as its file has it: there is a first kind of local time, the names  *)
(* of the kinds are there, and the transitions are ascending and to kinds     *)
(* that are there.                                                            *)
KindsOfTime == [gmtOffset : Int, isDst : BOOLEAN, arrbIdx : Nat]
ZoneFiles   == [localtimes   : Seq(KindsOfTime) \ {<<>>},
                transitions  : Seq([gmttime : Int, localtimeIdx : Nat]),
                abbreviation : Nat]

IsZone(z) ==
  /\ z \in ZoneFiles
  /\ \A k \in 1..Len(z.localtimes) : z.localtimes[k].arrbIdx <= z.abbreviation
  /\ \A i \in 1..Len(z.transitions) : z.transitions[i].localtimeIdx \in 1..Len(z.localtimes)
  /\ \A i, j \in 1..Len(z.transitions) : i < j => z.transitions[i].gmttime < z.transitions[j].gmttime

(* The standard time of a kind, if its daylight saving is an Hour *)
Standard(kind) == kind.gmtOffset - (IF kind.isDst THEN Hour ELSE 0)

(* All kinds in use have one standard time, and each lasts longer than that.*)
Saves(z) ==
  LET n == Len(z.transitions)
  IN  /\ \A i \in 1..n :
           Standard(z.localtimes[z.transitions[i].localtimeIdx]) = Standard(z.localtimes[1])
      /\ \A i, j \in 1..n : i < j => z.transitions[j].gmttime - z.transitions[i].gmttime > Hour

ASSUME YearsAssumption ==
  /\ \A y \in Years : ValidYear(y)
  /\ UtcYears \subseteq Years /\ Seconds \subseteq 0..(kSecondsPerDay - 1)

ASSUME ZonesAssumption ==
  /\ \A z \in Zones : IsZone(z)
  /\ SavingZones \subseteq Zones /\ \A z \in SavingZones : Saves(z)
  /\ Moments \subseteq Int /\ Hour \in Nat

ASSUME TextsAssumption ==
  /\ Values \subseteq Int /\ Names \subseteq Seq(STRING)
  /\ Stamps \subseteq [seconds : Nat, micros : 0..(kMicroSecondsPerSecond - 1)]

ASSUME FilesAssumption ==
  /\ Files \subseteq [fd : Int, stat : {"regular", "directory", "other", "fails"},
                  size : Nat, reads : Seq(Nat)]
  /\ Limits \subseteq Int /\ kBufferSize \in Nat \ {0}

VARIABLE question

ZoneQuestions ==
  UNION {[kind : {"zone"}, zone : {z}, fields : 0..FileLength(z), moment : Moments] : z \in Zones}

Init ==
  \/ question \in [kind : {"year"}, year : Years]
  \/ question \in ZoneQuestions
  \/ question \in [kind : {"number"}, value : Values]
  \/ question \in [kind : {"stamp"}, at : Stamps]
  \/ question \in [kind : {"file"}, file : Files, maxSize : Limits, fileSize : BOOLEAN]
  \/ question \in [kind : {"process"}, name : Names]

Next == UNCHANGED question

Spec == Init /\ [][Next]_question

-----------------------------------------------------------------------------
IsLeap(y) == y % 4 = 0 /\ (y % 100 # 0 \/ y % 400 = 0)

MonthLength(y, m) ==
  CASE m \in {4, 6, 9, 11} -> 30
    [] m = 2 -> IF IsLeap(y) THEN 29 ELSE 28
    [] OTHER -> 31

YearLength(y) == IF IsLeap(y) THEN 366 ELSE 365

(* The year that days are counted from, and the Julian day number of its      *)
(* first day                                                                  *)
Epoch      == 1970
DayOfEpoch == 2440588

(* The Julian day number of the first of January *)
FirstDay[y \in Int] ==
  IF y = Epoch THEN DayOfEpoch
  ELSE IF y > Epoch THEN FirstDay[y - 1] + YearLength(y - 1)
  ELSE FirstDay[y + 1] - YearLength(y)

(* The days of a year before each of its months *)
DaysBefore(y) ==
  LET Before[m \in 1..12] == IF m = 1 THEN 0 ELSE Before[m - 1] + MonthLength(y, m - 1)
  IN  Before

(* The UTC time s seconds after the start of a date, so many days after 1970 *)
TimeRight(date, days, yday, s) ==
  LET tm == toUtcTime(days * kSecondsPerDay + s)
  IN  /\ tm.ymd = date /\ tm.wday = (days + 4) % 7 /\ tm.yday = yday
      /\ tm.hour * 3600 + tm.min * 60 + tm.sec = s /\ tm.min < 60 /\ tm.sec < 60
      /\ fromUtcTime(tm) = days * kSecondsPerDay + s

DateRight(y, m, d) ==
  LET yday == DaysBefore(y)[m] - 1 + d
      day  == FirstDay[y] + yday
      date == [year |-> y, month |-> m, day |-> d]
  IN  /\ getJulianDayNumber(y, m, d) = day
      /\ getYearMonthDay(day) = date
      /\ y \in UtcYears /\ d \in {1, 2, MonthLength(y, m)} =>
           \A s \in Seconds : TimeRight(date, day - DayOfEpoch, yday, s)

(* Every date of the Gregorian calendar has the right Julian day number, and *)
(* comes back from it: getJulianDayNumber() and getYearMonthDay() agree with *)
(* counting days from year to year and month to month.  toUtcTime() gives the*)
(* right day, weekday and time of day before 1970 as well as after, where the*)
(* remainder of a division is negative, and fromUtcTime() is its inverse.    *)
DatesRight ==
  question.kind = "year" =>
    \A m \in 1..12 : \A d \in 1..MonthLength(question.year, m) : DateRight(question.year, m, d)

(* The kind of local time at a moment, by the transitions until then *)
KindAt(z, moment) ==
  LET past == {i \in 1..Len(z.transitions) : z.transitions[i].gmttime <= moment}
  IN  z.localtimes[IF past = {} THEN 1 ELSE z.transitions[Max(past)].localtimeIdx]

LocalTime(kind, moment) ==
  [seconds |-> moment + kind.gmtOffset, isDst |-> kind.isDst, zone |-> kind.arrbIdx]

(* The local time apart from its name *)
Clock(tm) == [seconds |-> tm.seconds, isDst |-> tm.isDst]

ZoneRight(z, fields, moment) ==
  LET data  == readTimeZoneFile(z, fields)
      local == toLocalTime(data, moment)
      right == LocalTime(KindAt(z, moment), moment)
  IN  IF data.localtimes = <<>>
      THEN data.transitions = <<>> /\ fields < TypesStart(z) + 3
      ELSE /\ Clock(local) \in {Clock(right), Clock(LocalTime(z.localtimes[1], moment))}
           /\ fields >= TypesEnd(z) => Clock(local) = Clock(right)
           /\ fields = FileLength(z) => data = z /\ local = right

(* The local time is that of the last transition that is not later, or the    *)
(* zone's first kind of time before all transitions, and has its name.  A     *)
(* file that is cut short, which is not reported, gives a zone that answers   *)
(* so or, for all moments, with the first kind: its transitions are never     *)
(* half there, or there without their kinds; but if the names were cut off,   *)
(* tm_zone may point outside them.  If not even one kind was there, there is  *)
(* none to look up, although the zone is valid().                             *)
LookupRight ==
  question.kind = "zone" => ZoneRight(question.zone, question.fields, question.moment)

ComesBack(z, moment) == fromLocalTime(z, toLocalTime(z, moment)) = moment

(* The moment is in the hour after a transition to daylight saving. *)
Springs(z, moment) ==
  \E i \in 1..Len(z.transitions) :
    /\ z.localtimes[z.transitions[i].localtimeIdx].isDst
    /\ ~z.localtimes[IF i = 1 THEN 1 ELSE z.transitions[i - 1].localtimeIdx].isDst
    /\ z.transitions[i].gmttime <= moment /\ moment < z.transitions[i].gmttime + Hour

(* The standard time then is in the hour that the zone's clocks leave out.    *)
SkippedComesBack(z, moment, flag) ==
  Springs(z, moment) =>
    fromLocalTime(z, [seconds |-> moment + Standard(z.localtimes[1]), isDst |-> flag]) = moment

(* With daylight saving of one hour every moment comes back from its local    *)
(* time, also from the hour that comes twice, where the flag tells which one  *)
(* is meant: what test() of TimeZone_unittest.cpp asks of fromLocalTime().  A *)
(* local time in the hour that never comes is taken as standard time, with    *)
(* either flag.                                                               *)
LocalRoundTrip ==
  question.kind = "zone" /\ question.zone \in SavingZones =>
    /\ ComesBack(question.zone, question.moment)
    /\ \A flag \in BOOLEAN : SkippedComesBack(question.zone, question.moment, flag)

(* The digit a character stands for *)
DigitOf(char) == SelectInSeq(digitsHex, LAMBDA c : c = char) - 1

(* The number a text stands for, with this sign *)
Numeral(text, base, sign) ==
  LET Value[n \in 0..Len(text)] ==
        IF n = 0 THEN 0 ELSE (base * Value[n - 1]) + (sign * DigitOf(text[n]))
  IN  Value[Len(text)]

IsNumeral(text) == text # <<>> /\ (Head(text) = "0" => Len(text) = 1)

NumberRight(v) ==
  LET text == convert(v)
  IN  IF v < 0
      THEN Head(text) = "-" /\ IsNumeral(Tail(text)) /\ Numeral(Tail(text), 10, -1) = v
      ELSE /\ IsNumeral(text) /\ Numeral(text, 10, 1) = v
           /\ IsNumeral(convertHex(v)) /\ Numeral(convertHex(v), 16, 1) = v

StampRight(at) ==
  LET t     == Now(at.seconds, at.micros)
      text  == toString(t)
      point == SelectInSeq(text, LAMBDA c : c = ".")
  IN  /\ secondsSinceEpoch(t) = at.seconds
      /\ Numeral(SubSeq(text, 1, point - 1), 10, 1) = at.seconds
      /\ Numeral(SubSeq(text, point + 1, point + 6), 10, 1) = at.micros
      /\ Len(text) = point + 6

NameRight(name) == procname(<<"1", " ", "(">> \o name \o <<")", " ", "S">>) = name

(* convert() writes a number of either sign as decimal text without leading   *)
(* zeros, from remainders that have its sign, as the least integer, which has *)
(* no opposite, requires; convertHex() writes numbers to base 16; the text of *)
(* a Timestamp has its microseconds in six digits after the point; and        *)
(* procname() finds a name that has parentheses of its own.                   *)
TextRight ==
  /\ question.kind = "number" => NumberRight(question.value)
  /\ question.kind = "stamp" => StampRight(question.at)
  /\ question.kind = "process" => NameRight(question.name)

FileRight(f, maxSize, fileSize) ==
  LET limit == {maxSize} \cap Nat
      whole == readToString(f, maxSize, fileSize)
      part  == readToBuffer(f)
  IN  /\ whole.err = "none" /\ f.fd # 0 => whole.content = Min({f.size} \cup limit)
      /\ whole.content = Untouched => whole.err # "none" \/ f.fd = 0
      /\ \A n \in limit : whole.content <= n
      /\ f.stat = "directory" /\ f.fd # 0 /\ maxSize # 0 => whole.err # "none"
      /\ whole.err = "length_error" => maxSize < 0 /\ fileSize /\ whole.content = 0
      /\ part.content < kBufferSize /\ part.content <= f.size

(* A file that is read without an error has been read to its end or to        *)
(* maxSize, however little each read() gives, unless its descriptor is 0.  A  *)
(* negative maxSize is no limit, except that the call throws, and nothing is  *)
(* read, when the caller asks for fileSize too and reserve() gets that number *)
(* for the size of a regular file; no maxSize from 0 on and no call that does *)
(* not ask for fileSize throws.  A string that is left as it was comes with   *)
(* an error, again unless the descriptor is 0, and readToBuffer() leaves room *)
(* for the NUL.                                                               *)
ReadsRight ==
  question.kind = "file" => FileRight(question.file, question.maxSize, question.fileSize)

=============================================================================
