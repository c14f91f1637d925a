------------------------------ MODULE Calendar ------------------------------
(* The calendar of the library: mini_gmtime_r and mini_timegm.  time_t is the *)
(* 4-byte one (narrow) or a longer one (wide), and a wide time is a day       *)
(* number, counted from 1 January 1970, and the seconds of the day.           *)
EXTENDS Integers, Sequences

CONSTANTS Years,      \* the years whose days are converted
          DaySeconds  \* the seconds of the day converted

SecondsOfDay == 0..86399

ASSUME CalendarAssumption == Years \subseteq Int /\ DaySeconds \subseteq SecondsOfDay

VARIABLE date        \* the time, its conversion, and the conversion back

-----------------------------------------------------------------------------
(* mini_gmtime_r.  C's division rounds towards 0.                             *)

CDiv(x, y) == IF x < 0 THEN -((-x) \div y) ELSE x \div y
CMod(x, y) == x - y * CDiv(x, y)

\* The day and the seconds of the day of a narrow time, which may be negative.
DayOf(ts) ==
  LET t == CDiv(ts, 86400)
      hms == CMod(ts, 86400)
  IN IF hms < 0 THEN [day |-> t - 1, hms |-> hms + 86400] ELSE [day |-> t, hms |-> hms]

\* What gmtime_r starts from.
TimeAt(day, hms, narrow) ==
  IF narrow THEN DayOf(day * 86400 + hms) ELSE [day |-> day, hms |-> hms]

Floored(x, y) == IF CMod(x, y) < 0 THEN CDiv(x, y) - 1 ELSE CDiv(x, y)

\* The day of the week, and the year and the days the rest counts with.
NarrowYear(t) == [wday |-> CMod(t + 24861, 7), c |-> CDiv(4 * t + 102035, 1461), t |-> t]

WideYear(t) ==
  LET w == CMod(t + 4, 7)
      f == Floored(4 * t + 102032, 146097) - 1
      u == t + f - f \div 4
  IN [wday |-> IF w < 0 THEN w + 7 ELSE w, c |-> Floored(4 * u + 102035, 1461), t |-> u]

\* Mutant: every fourth year is a leap year.
LeapYearJulian(c, narrow) == c % 4 = 0

LeapYear(c, narrow) == c % 4 = 0 /\ (narrow \/ CMod(c, 100) # 0 \/ CMod(c + 300, 400) = 0)

mini_gmtime_r(day, hms, narrow) ==
  LET y == IF narrow THEN NarrowYear(day) ELSE WideYear(day)
      yday == y.t - 365 * y.c - y.c \div 4 + 25568
      a == yday * 5 + 8
      mon == a \div 153
      late == mon >= 12
  IN [sec |-> hms % 60, min |-> (hms \div 60) % 60, hour |-> hms \div 3600,
      wday |-> y.wday, mday |-> 1 + (a % 153) \div 5,
      mon  |-> IF late THEN mon - 12 ELSE mon,
      year |-> IF late THEN y.c + 1 ELSE y.c,
      yday |-> IF late THEN yday - 366 ELSE IF LeapYear(y.c, narrow) THEN yday ELSE yday - 1]

-----------------------------------------------------------------------------
(* mini_timegm, as a day and seconds, from the day of the year or, when that  *)
(* is negative, from the month and the day of the month.                      *)

DayFromMonth(tm) ==
  LET early == tm.mon + 1 <= 2
      month == IF early THEN tm.mon + 13 ELSE tm.mon + 1
  IN [y |-> tm.year - 100 - (IF early THEN 1 ELSE 0),
      yday |-> (153 * month + 3) \div 5 + tm.mday - 399]

mini_timegm(tm) ==
  LET d == IF tm.yday < 0 THEN DayFromMonth(tm) ELSE [y |-> tm.year - 101, yday |-> tm.yday]
      y4 == d.y \div 4
      y100 == Floored(y4, 25)
  IN [day |-> 365 * d.y + y4 - y100 + y100 \div 4 + d.yday + 11323,
      hms |-> (tm.hour * 60 + tm.min) * 60 + tm.sec]

-----------------------------------------------------------------------------
\* The number of the first day of a year, counted from 1 January 1970.
LeapsTo(y) == y \div 4 - y \div 100 + y \div 400
FirstDay(y) == 365 * (y - 1970) + LeapsTo(y - 1) - LeapsTo(1969)

\* The days whose seconds all fit into a narrow time.
NarrowDays == -24855..24854

DateIdle == [phase |-> "idle", day |-> 0, hms |-> 0, narrow |-> FALSE, tm |-> <<>>, back |-> <<>>]

DateInit ==
  \E y \in Years : \E day \in FirstDay(y)..FirstDay(y + 1) - 1 :
    date = [DateIdle EXCEPT !.phase = "day", !.day = day]

\* gmtime_r, and timegm of its answer with the day of the year and without it.
DateNext ==
  /\ date.phase = "day"
  /\ \E hms \in DaySeconds, narrow \in BOOLEAN :
       /\ narrow => date.day \in NarrowDays
       /\ LET at == TimeAt(date.day, hms, narrow)
              tm == mini_gmtime_r(at.day, at.hms, narrow)
          IN date' = [date EXCEPT !.phase = "tm", !.hms = hms, !.narrow = narrow, !.tm = tm,
                          !.back = <<mini_timegm(tm), mini_timegm([tm EXCEPT !.yday = -1])>>]

DateSpec == DateInit /\ [][DateNext]_date

-----------------------------------------------------------------------------
(* The reference: the Gregorian calendar.                                     *)

IsLeap(y) == y % 4 = 0 /\ (y % 100 # 0 \/ y % 400 = 0)

MonthDays(y) == <<31, IF IsLeap(y) THEN 29 ELSE 28, 31, 30, 31, 30, 31, 31, 30, 31, 30, 31>>

\* The days of a year before each of its months.
DaysBefore(y) ==
  LET l == IF IsLeap(y) THEN 1 ELSE 0
  IN <<0, 31, 59 + l, 90 + l, 120 + l, 151 + l, 181 + l, 212 + l, 243 + l, 273 + l, 304 + l, 334 + l>>

\* tm is the date and the time of day of the given day and second.
IsDateOf(tm, day, hms) ==
  LET y == tm.year + 1900
  IN /\ FirstDay(y) + tm.yday = day
     /\ tm.yday \in 0..(IF IsLeap(y) THEN 365 ELSE 364)
     /\ tm.mon \in 0..11
     /\ tm.mday \in 1..MonthDays(y)[tm.mon + 1]
     /\ tm.yday = DaysBefore(y)[tm.mon + 1] + tm.mday - 1
     /\ tm.wday = (day + 4) % 7
     /\ tm.sec \in 0..59 /\ tm.min \in 0..59 /\ tm.hour \in 0..23
     /\ (tm.hour * 60 + tm.min) * 60 + tm.sec = hms

\* gmtime_r gives the date and the time of day of the Gregorian calendar, before
\* 1970 and in the centuries that have no leap day as well.
GmtimeRight == date.phase = "tm" => IsDateOf(date.tm, date.day, date.hms)

\* timegm brings the answer of gmtime_r back to the time it was made from, by
\* the day of the year and by the month alike.
TimegmInverts ==
  date.phase = "tm" =>
    \A i \in DOMAIN date.back : date.back[i] = [day |-> date.day, hms |-> date.hms]

\* Times become dates and dates times as the calendar has them.
CalendarRight == GmtimeRight /\ TimegmInverts

=============================================================================
