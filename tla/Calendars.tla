----------------------------- MODULE Calendars -----------------------------
(***************************************************************************)
(* Times and calendars (base/time/time.cpp, base/time/time_posix.cpp,      *)
(* base/time_utils.cpp).  Each step converts one time, and converts it     *)
(* back.                                                                   *)
(*                                                                         *)
(* A UTC time is a record: the day since the Unix epoch, the second of the *)
(* day and the microsecond.  A local time is a count of microseconds as in *)
(* the code, with the units scaled down: a day has DayLength seconds, a    *)
(* second MsPerSecond milliseconds, a millisecond UsPerMs microseconds.  A *)
(* zone is an offset with a period in which it is another one.             *)
(***************************************************************************)
EXTENDS Integers, Sequences

CONSTANTS
  Days,           \* days that are converted
  Exploded,       \* the fields that are converted to a time
  Durations,      \* durations in seconds
  MsPerSecond, UsPerMs, DayLength,
  Zones,          \* [standard, summer: offset, from, to: second]
  Seconds         \* seconds since the epoch, in local time

VARIABLES
  asked,          \* what is converted, and how
  answer          \* the conversion, and the conversion back

kvars == <<asked, answer>>

KInit == asked = [op |-> "none"] /\ answer = <<>>

-----------------------------------------------------------------------------
(* std::chrono: the Gregorian calendar *)

Leap(year) == year % 4 = 0 /\ (year % 100 # 0 \/ year % 400 = 0)

DaysInMonth(year, month) ==
  CASE month = 2 -> IF Leap(year) THEN 29 ELSE 28
    [] month \in {4, 6, 9, 11} -> 30
    [] OTHER -> 31

\* Days from the epoch to the first of January.
YearStart(year) ==
  LET y == year - 1
  IN 365 * (year - 1970) + (y \div 4 - y \div 100 + y \div 400) - 477

MonthStart(year, month) ==
  LET before[m \in 1..12] ==
        IF m = 1 THEN 0 ELSE before[m - 1] + DaysInMonth(year, m - 1)
  IN before[month]

sys_days(year, month, day) == YearStart(year) + MonthStart(year, month) + day - 1

year_month_day(days) ==
  LET about == 1970 + (400 * days) \div 146097
      year == CHOOSE y \in (about - 2)..(about + 2) :
                YearStart(y) <= days /\ days < YearStart(y + 1)
      month == CHOOSE m \in 1..12 :
                 LET first == YearStart(year) + MonthStart(year, m)
                 IN first <= days /\ days < first + DaysInMonth(year, m)
  IN [year |-> year, month |-> month,
      day |-> days - YearStart(year) - MonthStart(year, month) + 1]

-----------------------------------------------------------------------------
(* time.cpp: UTC *)

ExplodedMostlyEquals(lhs, rhs) == lhs = rhs

\* floor to days, the calendar of the day, and the time of day.
UtcExplode(time) ==
  LET date == year_month_day(time.day)
  IN [year |-> date.year, month |-> date.month, day_of_month |-> date.day,
      hour |-> time.second \div 3600, minute |-> (time.second \div 60) % 60,
      second |-> time.second % 60, millisecond |-> time.us \div 1000]

\* sys_days + time_of_day: what is too large runs over into the next day.
TimeOf(day, seconds, ms) ==
  LET total == seconds + ms \div 1000
  IN [day |-> day + total \div 86400, second |-> total % 86400,
      us |-> (ms % 1000) * 1000]

FromUtcExploded(e) ==
  IF ~(/\ e.month \in 1..12
       /\ e.day_of_month \in 1..DaysInMonth(e.year, e.month))
  THEN <<>>
  ELSE LET result == TimeOf(sys_days(e.year, e.month, e.day_of_month),
                          3600 * e.hour + 60 * e.minute + e.second, e.millisecond)
       IN IF ExplodedMostlyEquals(UtcExplode(result), e) THEN <<result>> ELSE <<>>

-----------------------------------------------------------------------------
(* time_utils.cpp and TimeFromString: a text is the fields that are in it *)

\* Digits after the point; none for a whole second.
Digits(ms) == IF ms = 0 THEN <<>> ELSE <<ms \div 100, (ms \div 10) % 10, ms % 10>>

\* SerializeToString: "year-month-day hour:minute:second", with milliseconds.
SerializeToString(time) ==
  LET e == UtcExplode(time)
  IN [form |-> "space", zone |-> "", date |-> <<e.year, e.month, e.day_of_month>>,
      time |-> <<e.hour, e.minute, e.second>>, fraction |-> Digits(e.millisecond)]

\* Up to three digits, padded on the right; the others are skipped.
Millisecond(fraction) ==
  LET digit(i) == IF i <= Len(fraction) THEN fraction[i] ELSE 0
  IN 100 * digit(1) + 10 * digit(2) + digit(3)

\* std::get_time takes the three forms with a year of four digits.
ParsedFields(text) ==
  IF text.form \notin {"T", "space", "rfc822"} \/ text.date[1] \notin 0..9999
  THEN <<>>
  ELSE <<[year |-> text.date[1], month |-> text.date[2],
          day_of_month |-> text.date[3], hour |-> text.time[1],
          minute |-> text.time[2], second |-> text.time[3],
          millisecond |-> Millisecond(text.fraction)]>>

\* is_local matters only for a text without a GMT or UTC suffix.
TreatAsUtc(text, is_local) == ~is_local \/ text.zone \in {"GMT", "UTC"}

TimeFromUtcString(text) ==
  LET e == ParsedFields(text)
  IN IF e = <<>> THEN <<>> ELSE FromUtcExploded(e[1])

FloorToMilliseconds(time) == [time EXCEPT !.us = 1000 * (@ \div 1000)]

\* C division truncates towards zero.
DivC(a, b) == IF a >= 0 THEN a \div b ELSE -((-a) \div b)

ModC(a, b) == a - b * DivC(a, b)

\* SerializeToString of a duration: hours, minutes and seconds.
DurationText(s) ==
  <<DivC(DivC(s, 60), 60), ModC(DivC(s, 60), 60), ModC(s, 60)>>

\* Deserialize reads three unsigned numbers.
DurationFromText(parts) ==
  IF \E i \in 1..3 : parts[i] < 0 THEN <<>>
  ELSE <<3600 * parts[1] + 60 * parts[2] + parts[3]>>

-----------------------------------------------------------------------------
(* time_posix.cpp: local time *)

\* Mutant: a time before the epoch is divided like one after it.
SplitTruncated(us) ==
  LET ms == DivC(us, UsPerMs) IN <<DivC(ms, MsPerSecond), ModC(ms, MsPerSecond)>>

\* Seconds and milliseconds of a count of microseconds.
Split(us) ==
  IF us >= 0
  THEN LET ms == DivC(us, UsPerMs)
       IN <<DivC(ms, MsPerSecond), ModC(ms, MsPerSecond)>>
  ELSE LET ms == DivC(us - UsPerMs + 1, UsPerMs)
           rest == ModC(ms, MsPerSecond)
       IN <<DivC(ms - MsPerSecond + 1, MsPerSecond),
            IF rest < 0 THEN rest + MsPerSecond ELSE rest>>

Offset(zone, second) ==
  IF second \in zone.from..(zone.to - 1) THEN zone.summer ELSE zone.standard

\* localtime_r.
LocalTimeToTimeStruct(zone, second) ==
  LET local == second + Offset(zone, second)
  IN [day |-> local \div DayLength, second |-> local % DayLength]

LocalExplode(zone, us) ==
  LET parts == Split(us)
      local == LocalTimeToTimeStruct(zone, parts[1])
  IN [day |-> local.day, second |-> local.second, millisecond |-> parts[2]]

\* mktime with tm_isdst 0 or 1 reads the fields with one of the two offsets.
MktimeAs(zone, e) ==
  {e.day * DayLength + e.second - offset : offset \in {zone.standard, zone.summer}}

\* mktime with tm_isdst -1 takes an offset that is in force, if there is one.
Mktime(zone, e) ==
  LET inForce == {s \in MktimeAs(zone, e) :
                    s + Offset(zone, s) = e.day * DayLength + e.second}
  IN IF inForce # {} THEN inForce ELSE MktimeAs(zone, e)

\* -1 may be an error or the second before the epoch: mktime is asked again with
\* both values of tm_isdst.
RetriedSeconds(dst0, dst1) ==
  CASE dst0 < 0 -> dst1
    [] dst0 >= 0 /\ dst1 < 0 -> dst0
    [] OTHER -> IF dst0 < dst1 THEN dst0 ELSE dst1

LocalTimeFromTimeStruct(zone, e) ==
  LET asked_again == {RetriedSeconds(dst0, dst1) :
                        dst0 \in MktimeAs(zone, e), dst1 \in MktimeAs(zone, e)}
  IN UNION {IF s = -1 THEN asked_again ELSE {s} : s \in Mktime(zone, e)}

\* The outcomes of FromLocalExploded: a time is returned only if it has the
\* fields that were asked for.
FromLocalExploded(zone, e) ==
  LET time(s) == (s * MsPerSecond + e.millisecond) * UsPerMs
  IN {IF LocalExplode(zone, time(s)) = e THEN <<time(s)>> ELSE <<>> :
        s \in LocalTimeFromTimeStruct(zone, e)}

\* The fail-stop of LocalMidnight is the outcome <<>>.
LocalMidnight(zone, us) ==
  FromLocalExploded(zone, [LocalExplode(zone, us) EXCEPT !.second = 0, !.millisecond = 0])

-----------------------------------------------------------------------------
(* Steps *)

Converted == asked.op # "none"

ConvertUtc ==
  /\ ~Converted
  /\ \E day \in Days, second \in {0, 3599, 43200, 86399}, us \in {0, 1999, 999999} :
       LET time == [day |-> day, second |-> second, us |-> us]
       IN /\ asked' = [op |-> "utc", time |-> time]
          /\ answer' = [back |-> FromUtcExploded(UtcExplode(time)),
                        text |-> TimeFromUtcString(SerializeToString(time))]

ConvertFields ==
  /\ ~Converted
  /\ \E e \in Exploded : /\ asked' = [op |-> "fields", fields |-> e]
                         /\ answer' = [time |-> FromUtcExploded(e)]

ParseText ==
  /\ ~Converted
  /\ \E e \in Exploded, fraction \in {<<>>, <<5>>, <<2, 5>>, <<1, 2, 5, 9>>},
        form \in {"T", "space", "rfc822", "other"}, zone \in {"", "UTC", "EST"} :
       LET text == [form |-> form, zone |-> zone, fraction |-> fraction,
                    date |-> <<e.year, e.month, e.day_of_month>>,
                    time |-> <<e.hour, e.minute, e.second>>]
       IN /\ e.millisecond = 0 /\ TreatAsUtc(text, zone = "UTC")
          /\ asked' = [op |-> "text", fields |-> e, text |-> text]
          /\ answer' = [time |-> TimeFromUtcString(text)]

ConvertDuration ==
  /\ ~Converted
  /\ \E s \in Durations : /\ asked' = [op |-> "duration", seconds |-> s]
                          /\ answer' = [back |-> DurationFromText(DurationText(s))]

ConvertLocal ==
  /\ ~Converted
  /\ \E zone \in Zones, s \in Seconds, us \in 0..(MsPerSecond * UsPerMs - 1) :
       LET time == s * MsPerSecond * UsPerMs + us
       IN /\ asked' = [op |-> "local", zone |-> zone, second |-> s, us |-> us]
          /\ \E back \in FromLocalExploded(zone, LocalExplode(zone, time)),
                midnight \in LocalMidnight(zone, time) :
               answer' = [fields |-> LocalExplode(zone, time), back |-> back,
                          midnight |-> midnight]

KNext == ConvertUtc \/ ConvertFields \/ ParseText \/ ConvertDuration \/ ConvertLocal

-----------------------------------------------------------------------------
\* Fields that name a moment of the calendar.
NamesAMoment(e) ==
  /\ e.month \in 1..12 /\ e.day_of_month \in 1..DaysInMonth(e.year, e.month)
  /\ e.hour \in 0..23 /\ e.minute \in 0..59 /\ e.second \in 0..59
  /\ e.millisecond \in 0..999

\* A time exploded in UTC, and a time as text (SerializeToString, Deserialize),
\* comes back to the millisecond; a text has a year of four digits.
\* FromUtcExploded and TimeFromString give the time that has the fields, and none
\* for fields that run over.  A duration that is not negative comes back too.
UtcReadsBack ==
  /\ asked.op = "utc" =>
       LET floor == FloorToMilliseconds(asked.time)
           fourDigits == UtcExplode(asked.time).year \in 0..9999
       IN answer.back = <<floor>> /\ answer.text = (IF fourDigits THEN <<floor>> ELSE <<>>)
  /\ asked.op = "fields" =>
       IF NamesAMoment(asked.fields)
       THEN answer.time # <<>> /\ UtcExplode(answer.time[1]) = asked.fields
       ELSE answer.time = <<>>
  /\ asked.op = "text" /\ answer.time # <<>> =>
       LET e == UtcExplode(answer.time[1])
       IN /\ [e EXCEPT !.millisecond = 0] = asked.fields
          /\ asked.text.fraction = <<2, 5>> => e.millisecond = 250
  /\ asked.op = "duration" /\ asked.seconds >= 0 => answer.back = <<asked.seconds>>

\* A local second that the zone shows twice.
ShownTwice(zone, e) ==
  \A s \in MktimeAs(zone, e) : s + Offset(zone, s) = e.day * DayLength + e.second

\* A midnight that the zone skips.
SkipsMidnight(zone, day) ==
  \A s \in MktimeAs(zone, [day |-> day, second |-> 0]) :
    s + Offset(zone, s) # day * DayLength

\* A time exploded in the local zone, before and after the epoch, comes back to
\* the millisecond, or an hour away when the zone shows the second twice.  Only
\* the second before the epoch, which mktime reports like an error, may be
\* refused.  LocalMidnight is the start of the day in zones that have it.
LocalReadsBack ==
  asked.op = "local" =>
    LET zone == asked.zone
        time == asked.second * MsPerSecond * UsPerMs
                + UsPerMs * (asked.us \div UsPerMs)
        start == [answer.fields EXCEPT !.second = 0, !.millisecond = 0]
    IN /\ answer.fields.millisecond = asked.us \div UsPerMs
       /\ answer.back = <<>> => asked.second = -1
       /\ answer.back # <<>> =>
            \/ answer.back[1] = time
            \/ ShownTwice(zone, answer.fields)
       /\ ~SkipsMidnight(zone, start.day) /\ -1 \notin MktimeAs(zone, start) =>
            /\ answer.midnight # <<>>
            /\ LocalExplode(zone, answer.midnight[1]) = start

=============================================================================
