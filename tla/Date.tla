--------------------------------- MODULE Date ---------------------------------
(***************************************************************************)
(* base/Date.{h,cc} and the UTC half of base/TimeZone.cc: dates as Julian  *)
(* day numbers, and time_t to and from a broken-down UTC time.             *)
(***************************************************************************)
EXTENDS CDivision

getJulianDayNumber(year, month, day) ==
  LET a == CDiv(14 - month, 12)
      y == year + 4800 - a
      m == month + 12 * a - 3
  IN  day + CDiv(153 * m + 2, 5) + y * 365 + CDiv(y, 4) - CDiv(y, 100) + CDiv(y, 400) - 32045

getYearMonthDay(julianDayNumber) ==
  LET a == julianDayNumber + 32044
      b == CDiv(4 * a + 3, 146097)
      c == a - CDiv(b * 146097, 4)
      d == CDiv(4 * c + 3, 1461)
      e == c - CDiv(1461 * d, 4)
      m == CDiv(5 * e + 2, 153)
  IN  [year  |-> b * 100 + d - 4800 + CDiv(m, 10),
       month |-> m + 3 - 12 * CDiv(m, 10),
       day   |-> e - CDiv(153 * m + 2, 5) + 1]

kJulianDayOf1970_01_01 == getJulianDayNumber(1970, 1, 1)

(* 0 is Sunday. *)
weekDay(julianDayNumber) == CMod(julianDayNumber + 1, 7)

kSecondsPerDay == 24 * 60 * 60

(* TimeZone::toUtcTime(): quotient and remainder of a time before 1970 are    *)
(* negative or zero, and the remainder is made positive.                      *)
DayAndSecond_RoundsToZero(t) ==
  [days |-> CDiv(t, kSecondsPerDay), seconds |-> CMod(t, kSecondsPerDay)]

DayAndSecond(t) ==
  LET days    == CDiv(t, kSecondsPerDay)
      seconds == CMod(t, kSecondsPerDay)
  IN  IF seconds < 0 THEN [days |-> days - 1, seconds |-> seconds + kSecondsPerDay]
                     ELSE [days |-> days, seconds |-> seconds]

(* The seconds are those of a day, and unsigned. *)
fillHMS(seconds) ==
  LET minutes == seconds \div 60
  IN  [hour |-> minutes \div 60, min |-> minutes % 60, sec |-> seconds % 60]

toUtcTime(t) ==
  LET at   == DayAndSecond(t)
      date == at.days + kJulianDayOf1970_01_01
      ymd  == getYearMonthDay(date)
      hms  == fillHMS(at.seconds)
  IN  [ymd  |-> ymd,
       hour |-> hms.hour, min |-> hms.min, sec |-> hms.sec,
       wday |-> weekDay(date),
       yday |-> date - getJulianDayNumber(ymd.year, 1, 1)]

fromUtcTime(tm) ==
  (getJulianDayNumber(tm.ymd.year, tm.ymd.month, tm.ymd.day) - kJulianDayOf1970_01_01) * kSecondsPerDay
    + tm.hour * 3600 + tm.min * 60 + tm.sec

=============================================================================
