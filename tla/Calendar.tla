------------------------------ MODULE Calendar ------------------------------
(* The year and period of a moment and back (bridge/_frequencies.py), on the  *)
(* proleptic Gregorian calendar of Python's datetime and the moments (MIT) of *)
(* TimeSeriesEconPy, which are external.                                      *)
(*                                                                            *)
(* A definition marked "Mutant" is not part of the model: it is the next one  *)
(* with a plausible bug, and shows that a property can fail.                  *)
EXTENDS Integers, Sequences

\* A frequency: its family, and the day or month it is anchored to.
Frequency(family, anchor) == [family |-> family, anchor |-> anchor]

\* The periods in a year of the families that count years and periods.
PerYear == [monthly |-> 12, quarterly |-> 4, halfyearly |-> 2, yearly |-> 1]

Leap(year) == year % 4 = 0 /\ (year % 100 # 0 \/ year % 400 = 0)

\* `_days_in_year`
DaysInYear(year) == IF Leap(year) THEN 366 ELSE 365

\* datetime.date as its ordinal: 1 January of year 1 is day 1, a Monday.
NewYear(year) ==
  LET past == year - 1
  IN 365 * past + (past \div 4) - (past \div 100) + (past \div 400) + 1
IsoWeekday(day) == ((day - 1) % 7) + 1
YearOf(day) ==
  LET guess == (day \div 366) + 1
      span == guess..(guess + 2 + (guess \div 400))
  IN CHOOSE year \in span : NewYear(year) <= day /\ day < NewYear(year + 1)
YearDay(day) == day - NewYear(YearOf(day)) + 1

\* Business days are numbered five to a week; a date on a weekend is the Friday
\* before it (bias "previous").
BusinessNumber(day) ==
  5 * ((day - 1) \div 7) + (IF IsoWeekday(day) > 5 THEN 5 ELSE IsoWeekday(day))
BusinessDay(number) == 7 * ((number - 1) \div 5) + ((number - 1) % 5) + 1

\* Weeks are numbered by the day they end on: tsecon's weekly(day, end_day), and the
\* end of a week.
WeekNumber(day, ending) == (day - ending + 6) \div 7
WeekEnd(number, ending) == 7 * number + ending

\* `_first_business_day`
FirstBusinessDay(year) ==
  LET first == NewYear(year)
      weekday == IsoWeekday(first)
  IN first + (IF weekday > 5 THEN 8 - weekday ELSE 0)

\* `_business_days_in_year`
BusinessDaysInYear(year) ==
  BusinessNumber(NewYear(year + 1) - 1) - BusinessNumber(FirstBusinessDay(year)) + 1

Refused == <<>>

\* Mutant: whole weeks that have passed, and the one that is running.
MutWeekOfYear(day) == (YearDay(day) \div 7) + 1

\* The number of the week that ends on a day.
WeekOfYear(day) == -((-YearDay(day)) \div 7)

\* `mit_to_year_period` of the moment with this number.  mit2yp is external.
ToYearPeriod(frequency, moment) ==
  CASE frequency.family = "weekly" ->
         LET end == WeekEnd(moment, frequency.anchor) IN <<YearOf(end), WeekOfYear(end)>>
    [] frequency.family = "daily" -> <<YearOf(moment), YearDay(moment)>>
    [] frequency.family = "business" ->
         LET year == YearOf(BusinessDay(moment))
         IN <<year, moment - BusinessNumber(FirstBusinessDay(year)) + 1>>
    [] OTHER -> LET n == PerYear[frequency.family] IN <<moment \div n, (moment % n) + 1>>

\* `year_period_to_mit`: a period that the year does not have is refused, never
\* moved into another.
ToMoment(frequency, year, period) ==
  CASE frequency.family = "weekly" ->
         LET week == WeekNumber(NewYear(year) + 7 * (period - 1), frequency.anchor)
         IN IF period \in 1..53 /\ ToYearPeriod(frequency, week) = <<year, period>>
              THEN <<week>> ELSE Refused
    [] frequency.family = "daily" ->
         IF period \in 1..DaysInYear(year) THEN <<NewYear(year) + period - 1>> ELSE Refused
    [] frequency.family = "business" ->
         IF period \in 1..BusinessDaysInYear(year)
           THEN <<BusinessNumber(FirstBusinessDay(year)) + period - 1>> ELSE Refused
    [] OTHER ->
         LET n == PerYear[frequency.family]
         IN IF period \in 1..n THEN <<n * year + period - 1>> ELSE Refused

-----------------------------------------------------------------------------
(* The frequencies of the library, as its table of names has them.            *)

\* The months and days of the names, numbered.
AnchoredAt == [weekly |-> 1..7, quarterly |-> 10..12, semiannual |-> 7..12, annual |-> 1..12]

\* `fame_frequency`: a quarterly anchor is the first to third month of a quarter and
\* is named by a month from October, a half-yearly one from July.
FameFrequency(frequency) ==
  CASE frequency.family = "quarterly"  -> Frequency("quarterly", frequency.anchor + 9)
    [] frequency.family = "halfyearly" -> Frequency("semiannual", frequency.anchor + 6)
    [] frequency.family = "yearly"     -> Frequency("annual", frequency.anchor)
    [] frequency.family = "unit"       -> Frequency("case", 0)
    [] OTHER -> frequency

\* The frequencies the bridge supports (`_build_to_tsecon`).
Supported ==
  {Frequency(family, 0) : family \in {"unit", "daily", "business", "monthly"}}
  \cup {Frequency("weekly", d) : d \in 1..7} \cup {Frequency("quarterly", m) : m \in 1..3}
  \cup {Frequency("halfyearly", m) : m \in 1..6} \cup {Frequency("yearly", m) : m \in 1..12}

\* `tsecon_frequency`: the entry of the table, if the library's frequency has one.
TseconFrequency(fame) ==
  LET of == {f \in Supported : FameFrequency(f) = fame}
  IN IF of = {} THEN Refused ELSE <<CHOOSE f \in of : TRUE>>

\* A moment is one of a calendar, which begins with year 1, if its period ends there.
Dated == {f \in Supported : f.family # "unit"}
IsMoment(frequency, moment) ==
  /\ moment \in Int
  /\ frequency.family = "weekly" => WeekEnd(moment, frequency.anchor) >= 1
  /\ frequency.family \in {"daily", "business"} => moment >= 1
IsYear(frequency, year) ==
  /\ year \in Int
  /\ frequency.family \in {"weekly", "daily", "business"} => year >= 1
=============================================================================
