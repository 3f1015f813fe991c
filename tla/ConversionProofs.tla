-------------------------- MODULE ConversionProofs --------------------------
(***************************************************************************)
(* Proofs about DataConversions: the calendar for all years, days and      *)
(* moments, values and objects for any number of observations.             *)
(***************************************************************************)
EXTENDS DataConversions, SequenceTheorems, WellFoundedInduction, TLAPS

-----------------------------------------------------------------------------
(* Years and days *)

LEMMA Least ==
  ASSUME NEW T, T \subseteq Nat, T # {}
  PROVE  \E m \in T : \A n \in T : m <= n
<1>1. PICK m \in T : \A n \in T : <<n, m>> \notin OpToRel(<, Nat)
  BY NatLessThanWellFounded, WFMin
<1>2. ASSUME NEW n \in T, n < m PROVE FALSE
  <2>1. <<n, m>> \in OpToRel(<, Nat)
    BY <1>2 DEF OpToRel
  <2> QED BY <1>1, <2>1
<1> QED BY <1>2

\* A year is as long as `_days_in_year` says, by the Gregorian rule.
LEMMA YearLength ==
  ASSUME NEW y \in Nat \ {0}
  PROVE  /\ NewYear(y) \in Nat \ {0} /\ NewYear(y + 1) - NewYear(y) = DaysInYear(y)
         /\ DaysInYear(y) \in {365, 366}
BY DEF NewYear, DaysInYear, Leap

LEMMA YearsFollow ==
  ASSUME NEW y \in Nat \ {0}, NEW z \in Nat \ {0}, y < z
  PROVE  NewYear(y) < NewYear(z)
BY DEF NewYear

\* The search for the year of a day begins and ends where it is found.
LEMMA SpanBegins ==
  ASSUME NEW day \in Nat \ {0}
  PROVE  NewYear(day \div 366 + 1) <= day
BY DEF NewYear

LEMMA SpanEnds ==
  ASSUME NEW day \in Nat \ {0}, NEW guess \in Nat, guess = day \div 366 + 1
  PROVE  day < NewYear(guess + 2 + guess \div 400 + 1)
BY DEF NewYear

\* The year of a day is the one it is in, and there is only one.
LEMMA YearOfFacts ==
  ASSUME NEW day \in Nat \ {0}
  PROVE  /\ YearOf(day) \in Nat \ {0}
         /\ NewYear(YearOf(day)) <= day /\ day < NewYear(YearOf(day) + 1)
<1> DEFINE guess == (day \div 366) + 1
           last == guess + 2 + (guess \div 400)
           T == {y \in Nat \ {0} : day < NewYear(y + 1)}
<1>1. guess \in Nat \ {0} /\ last \in Nat \ {0} /\ guess <= last
  OBVIOUS
<1>2. NewYear(guess) <= day /\ day < NewYear(last + 1)
  <2>1. NewYear(guess) <= day
    BY SpanBegins
  <2>2. day < NewYear(guess + 2 + guess \div 400 + 1)
    BY <1>1, SpanEnds
  <2> QED BY <2>1, <2>2
<1>3. last \in T /\ T \subseteq Nat
  BY <1>1, <1>2
<1> HIDE DEF T
<1>4. PICK year \in T : \A z \in T : year <= z
  BY <1>3, Least
<1>5. year \in Nat \ {0} /\ day < NewYear(year + 1) /\ year <= last
  BY <1>3, <1>4 DEF T
<1>6. NewYear(year) <= day
  <2>1. CASE year = 1
    BY <2>1 DEF NewYear
  <2>2. CASE year # 1
    <3>1. year - 1 \in Nat \ {0} /\ ~(year <= year - 1) /\ (year - 1) + 1 = year
      BY <1>5, <2>2
    <3>2. ~(day < NewYear(year))
      BY <1>4, <3>1 DEF T
    <3> QED BY <1>5, <3>2, YearLength
  <2> QED BY <2>1, <2>2
<1>7. guess <= year
  <2> SUFFICES ASSUME year < guess PROVE FALSE
    BY <1>1, <1>5
  <2>1. NewYear(year + 1) <= NewYear(guess)
    <3>1. year + 1 = guess \/ year + 1 < guess
      BY <1>1, <1>5
    <3> QED BY <1>1, <1>5, <3>1, YearsFollow, YearLength
  <2> QED BY <1>1, <1>2, <1>5, <2>1, YearLength
<1>8. year \in guess..last
  BY <1>1, <1>5, <1>7
<1> HIDE DEF guess, last
<1>9. \E y \in guess..last : NewYear(y) <= day /\ day < NewYear(y + 1)
  BY <1>5, <1>6, <1>8
<1>10. /\ YearOf(day) \in guess..last
       /\ NewYear(YearOf(day)) <= day /\ day < NewYear(YearOf(day) + 1)
  BY <1>9 DEF YearOf, guess, last
<1> QED BY <1>1, <1>10

LEMMA YearOfIs ==
  ASSUME NEW day \in Nat \ {0}, NEW y \in Nat \ {0},
         NewYear(y) <= day, day < NewYear(y + 1)
  PROVE  YearOf(day) = y
<1> DEFINE z == YearOf(day)
<1>1. z \in Nat \ {0} /\ NewYear(z) <= day /\ day < NewYear(z + 1)
  BY YearOfFacts
<1> HIDE DEF z
<1>2. /\ NewYear(y) \in Nat /\ NewYear(y + 1) \in Nat
      /\ NewYear(z) \in Nat /\ NewYear(z + 1) \in Nat
  BY <1>1, YearLength
<1>3. y < z => NewYear(y + 1) <= NewYear(z)
  BY <1>1, <1>2, YearsFollow
<1>4. z < y => NewYear(z + 1) <= NewYear(y)
  BY <1>1, <1>2, YearsFollow
<1>5. y = z
  BY <1>1, <1>2, <1>3, <1>4
<1> QED BY <1>5 DEF z

-----------------------------------------------------------------------------
(* Weeks and business days *)

\* The first business day is no weekend, and none is before it.
LEMMA FirstFacts ==
  ASSUME NEW n \in Nat \ {0}, NEW first,
         first = n + IF IsoWeekday(n) > 5 THEN 8 - IsoWeekday(n) ELSE 0
  PROVE  /\ first \in Nat \ {0} /\ n <= first /\ first <= n + 2
         /\ BusinessDay(BusinessNumber(first)) = first
         /\ \A m \in Nat \ {0} : n <= BusinessDay(m) => BusinessNumber(first) <= m
BY DEF IsoWeekday, BusinessDay, BusinessNumber

LEMMA NumberFacts ==
  ASSUME NEW m \in Nat \ {0}, NEW day \in Nat \ {0}
  PROVE  /\ BusinessDay(m) \in Nat \ {0} /\ BusinessNumber(day) \in Nat \ {0}
         /\ BusinessDay(m) <= day => m <= BusinessNumber(day)
         /\ m <= BusinessNumber(day) => BusinessDay(m) <= day
         /\ BusinessNumber(day) <= m => BusinessDay(BusinessNumber(day)) <= BusinessDay(m)
BY DEF IsoWeekday, BusinessDay, BusinessNumber

\* The business days of a year are those from its first to the last that is not
\* after its end.
LEMMA BusinessYear ==
  ASSUME NEW y \in Nat \ {0}, NEW m \in Int
  PROVE  /\ FirstBusinessDay(y) \in Nat \ {0}
         /\ BusinessNumber(FirstBusinessDay(y)) \in Nat \ {0}
         /\ BusinessDaysInYear(y) \in Int
         /\ m - BusinessNumber(FirstBusinessDay(y)) + 1 \in 1..BusinessDaysInYear(y) =>
              m >= 1 /\ BusinessDay(m) \in Nat \ {0} /\ YearOf(BusinessDay(m)) = y
         /\ m >= 1 /\ YearOf(BusinessDay(m)) = y =>
              m - BusinessNumber(FirstBusinessDay(y)) + 1 \in 1..BusinessDaysInYear(y)
<1> DEFINE n == NewYear(y)
           first == FirstBusinessDay(y)
           last == NewYear(y + 1) - 1
           low == BusinessNumber(first)
           high == BusinessNumber(last)
<1>1. n \in Nat \ {0} /\ last \in Nat \ {0} /\ n <= last /\ NewYear(y + 1) = last + 1
  <2>1. y + 1 \in Nat \ {0}
    OBVIOUS
  <2>2. n \in Nat \ {0} /\ NewYear(y + 1) \in Nat /\ NewYear(y + 1) - n \in {365, 366}
    BY <2>1, YearLength
  <2> QED BY <2>2
<1>2. first = n + IF IsoWeekday(n) > 5 THEN 8 - IsoWeekday(n) ELSE 0
  BY DEF FirstBusinessDay
<1>3. BusinessDaysInYear(y) = high - low + 1
  BY DEF BusinessDaysInYear
<1> HIDE DEF n, first, last
<1>4. /\ first \in Nat \ {0} /\ n <= first /\ BusinessDay(low) = first
      /\ \A k \in Nat \ {0} : n <= BusinessDay(k) => low <= k
  BY <1>1, <1>2, FirstFacts
<1>5. low \in Nat \ {0} /\ high \in Nat \ {0}
  BY <1>1, <1>4, NumberFacts
<1>6. ASSUME low <= m, m <= high
      PROVE  m >= 1 /\ BusinessDay(m) \in Nat \ {0} /\ YearOf(BusinessDay(m)) = y
  <2>1. m \in Nat \ {0}
    BY <1>5, <1>6
  <2>2. BusinessDay(m) \in Nat \ {0} /\ BusinessDay(m) <= last
    BY <1>1, <1>6, <2>1, NumberFacts
  <2>3. first <= BusinessDay(m)
    BY <1>4, <1>6, <2>1, NumberFacts
  <2>4. n <= BusinessDay(m) /\ BusinessDay(m) < NewYear(y + 1)
    BY <1>1, <1>4, <2>2, <2>3
  <2> QED BY <2>1, <2>2, <2>4, YearOfIs DEF n
<1>7. ASSUME m >= 1, YearOf(BusinessDay(m)) = y
      PROVE  low <= m /\ m <= high
  <2>1. m \in Nat \ {0} /\ BusinessDay(m) \in Nat \ {0}
    BY <1>1, <1>7, NumberFacts
  <2>2. n <= BusinessDay(m) /\ BusinessDay(m) < NewYear(y + 1)
    BY <1>7, <2>1, YearOfFacts DEF n
  <2>3. BusinessDay(m) <= last
    BY <1>1, <2>1, <2>2
  <2> QED BY <1>1, <1>4, <2>1, <2>2, <2>3, NumberFacts
<1> HIDE DEF low, high
<1>8. m - low + 1 \in 1..BusinessDaysInYear(y) <=> low <= m /\ m <= high
  BY <1>3, <1>5
<1> QED BY <1>3, <1>4, <1>5, <1>6, <1>7, <1>8 DEF first, low

-----------------------------------------------------------------------------
(* Moments *)

LEMMA Families ==
  ASSUME NEW f \in Dated
  PROVE  /\ f.family \in {"weekly", "daily", "business"} \cup DOMAIN PerYear
         /\ f.family \in DOMAIN PerYear => PerYear[f.family] \in {1, 2, 4, 12}
         /\ f.family = "weekly" => f.anchor \in 1..7
<1>1. f.family \in {"daily", "business", "monthly", "weekly", "quarterly", "halfyearly", "yearly"}
      /\ (f.family = "weekly" => f.anchor \in 1..7)
  BY DEF Dated, Supported, Frequency
<1>2. DOMAIN PerYear = {"monthly", "quarterly", "halfyearly", "yearly"}
      /\ PerYear["monthly"] = 12 /\ PerYear["quarterly"] = 4
      /\ PerYear["halfyearly"] = 2 /\ PerYear["yearly"] = 1
  BY DEF PerYear
<1> QED BY <1>1, <1>2

\* A moment comes back from its year and period.
LEMMA MomentReturns ==
  ASSUME NEW f \in Dated, NEW m, IsMoment(f, m), NEW yp, yp = ToYearPeriod(f, m)
  PROVE  ToMoment(f, yp[1], yp[2]) = <<m>>
<1>1. m \in Int
  BY DEF IsMoment
<1>2. CASE f.family = "weekly"
  <2> DEFINE end == WeekEnd(m, f.anchor)
             y == YearOf(end)
             p == WeekOfYear(end)
  <2>1. f.anchor \in 1..7 /\ end \in Nat \ {0} /\ end = 7 * m + f.anchor
    BY <1>1, <1>2, Families DEF WeekEnd, IsMoment
  <2>2. yp = <<y, p>>
    BY <1>2 DEF ToYearPeriod
  <2> HIDE DEF end
  <2>3. y \in Nat \ {0} /\ NewYear(y) <= end /\ end < NewYear(y + 1)
    BY <2>1, YearOfFacts
  <2>4. NewYear(y) \in Nat /\ NewYear(y + 1) - NewYear(y) \in {365, 366} /\ NewYear(y + 1) \in Nat
    BY <2>3, YearLength
  <2> DEFINE k == YearDay(end)
  <2>5. k = end - NewYear(y) + 1
    BY DEF YearDay
  <2>6. p = -((-k) \div 7)
    BY DEF WeekOfYear
  <2> HIDE DEF y, k, p
  <2>7. k \in 1..366
    BY <2>1, <2>3, <2>4, <2>5
  <2> DEFINE n == NewYear(y)
             d == f.anchor
  <2>8. d \in 1..7 /\ n \in Int /\ k = 7 * m + d - n + 1
    BY <1>1, <2>1, <2>4, <2>5
  <2>9. n + 7 * (p - 1) = NewYear(y) + 7 * (p - 1) /\ d = f.anchor
    OBVIOUS
  <2> HIDE DEF n, d
  <2>10. p \in 1..53 /\ (n + 7 * (p - 1) - d + 6) \div 7 = m
    BY <1>1, <2>6, <2>7, <2>8
  <2>11. WeekNumber(n + 7 * (p - 1), d) = m
    BY <2>8, <2>10 DEF WeekNumber
  <2>12. WeekNumber(NewYear(y) + 7 * (p - 1), f.anchor) = m
    BY <2>9, <2>11
  <2>13. ToMoment(f, y, p) = <<m>>
    BY <1>2, <2>2, <2>10, <2>12 DEF ToMoment
  <2> QED BY <2>2, <2>13
<1>3. CASE f.family = "daily"
  <2> DEFINE y == YearOf(m)
             p == YearDay(m)
  <2>1. m \in Nat \ {0}
    BY <1>1, <1>3 DEF IsMoment
  <2>2. yp = <<y, p>> /\ p = m - NewYear(y) + 1
    BY <1>3 DEF ToYearPeriod, YearDay
  <2>3. y \in Nat \ {0} /\ NewYear(y) <= m /\ m < NewYear(y + 1)
    BY <2>1, YearOfFacts
  <2> HIDE DEF y, p
  <2>4. p \in 1..DaysInYear(y) /\ NewYear(y) + p - 1 = m
    BY <2>1, <2>2, <2>3, YearLength
  <2>5. ToMoment(f, y, p) = <<m>>
    BY <1>3, <2>4 DEF ToMoment
  <2> QED BY <2>2, <2>5
<1>4. CASE f.family = "business"
  <2> DEFINE y == YearOf(BusinessDay(m))
             low == BusinessNumber(FirstBusinessDay(y))
             p == m - low + 1
  <2>1. m \in Nat \ {0}
    BY <1>1, <1>4 DEF IsMoment
  <2>2. yp = <<y, p>>
    BY <1>4 DEF ToYearPeriod
  <2>3. BusinessDay(m) \in Nat \ {0}
    BY <2>1 DEF BusinessDay
  <2>4. y \in Nat \ {0}
    BY <2>3, YearOfFacts
  <2>5. YearOf(BusinessDay(m)) = y /\ m >= 1
    BY <2>1
  <2> HIDE DEF y
  <2>6. low \in Int /\ p \in 1..BusinessDaysInYear(y)
    BY <1>1, <2>4, <2>5, BusinessYear
  <2> HIDE DEF low
  <2>7. low + p - 1 = m
    BY <1>1, <2>6
  <2> HIDE DEF p
  <2>8. ToMoment(f, y, p) = <<m>>
    BY <1>4, <2>6, <2>7 DEF ToMoment, low
  <2> QED BY <2>2, <2>8
<1>5. CASE f.family \in DOMAIN PerYear
  <2> DEFINE n == PerYear[f.family]
             y == m \div n
             p == (m % n) + 1
  <2>1. f.family \notin {"weekly", "daily", "business"}
    BY <1>5 DEF PerYear
  <2>2. yp = <<y, p>>
    BY <2>1 DEF ToYearPeriod
  <2>3. p \in 1..n /\ n * y + p - 1 = m
    <3>1. n \in {1, 2, 4, 12}
      BY <1>5, Families
    <3> HIDE DEF n
    <3> QED BY <1>1, <3>1
  <2> HIDE DEF y, p
  <2>4. ToMoment(f, y, p) = <<m>>
    BY <2>1, <2>3 DEF ToMoment
  <2> QED BY <2>2, <2>4
<1> QED BY <1>2, <1>3, <1>4, <1>5, Families

\* A year and period that are accepted come back from their moment.
LEMMA PeriodReturns ==
  ASSUME NEW f \in Dated, NEW y, IsYear(f, y), NEW p \in Int,
         NEW out, out = ToMoment(f, y, p), out # Refused
  PROVE  ToYearPeriod(f, out[1]) = <<y, p>>
<1>1. y \in Int
  BY DEF IsYear
<1>2. CASE f.family = "weekly"
  BY <1>2 DEF ToMoment
<1>3. CASE f.family = "daily"
  <2> DEFINE day == NewYear(y) + p - 1
  <2>1. y \in Nat \ {0} /\ p \in 1..DaysInYear(y) /\ out = <<day>>
    BY <1>1, <1>3 DEF ToMoment, IsYear
  <2>2. day \in Nat \ {0} /\ NewYear(y) <= day /\ day < NewYear(y + 1) /\ day - NewYear(y) + 1 = p
    BY <2>1, YearLength
  <2> HIDE DEF day
  <2>3. YearOf(day) = y
    BY <2>1, <2>2, YearOfIs
  <2>4. ToYearPeriod(f, day) = <<y, p>>
    BY <1>3, <2>2, <2>3 DEF ToYearPeriod, YearDay
  <2> QED BY <2>1, <2>4
<1>4. CASE f.family = "business"
  <2> DEFINE low == BusinessNumber(FirstBusinessDay(y))
             m == low + p - 1
  <2>1. y \in Nat \ {0} /\ p \in 1..BusinessDaysInYear(y) /\ out = <<m>>
    BY <1>1, <1>4 DEF ToMoment, IsYear
  <2>2. low \in Nat
    BY <2>1, BusinessYear
  <2>3. m \in Int /\ m - low + 1 = p
    BY <2>2
  <2> HIDE DEF m
  <2>4. YearOf(BusinessDay(m)) = y
    BY <2>1, <2>3, BusinessYear
  <2>5. ToYearPeriod(f, m) = <<y, p>>
    BY <1>4, <2>3, <2>4 DEF ToYearPeriod
  <2> QED BY <2>1, <2>5
<1>5. CASE f.family \in DOMAIN PerYear
  <2> DEFINE n == PerYear[f.family]
             m == n * y + p - 1
  <2>1. f.family \notin {"weekly", "daily", "business"}
    BY <1>5 DEF PerYear
  <2>2. p \in 1..n /\ out = <<m>>
    BY <2>1 DEF ToMoment
  <2>3. m \div n = y /\ (m % n) + 1 = p
    <3>1. n \in {1, 2, 4, 12}
      BY <1>5, Families
    <3> HIDE DEF n
    <3> QED BY <1>1, <2>2, <3>1
  <2> HIDE DEF m
  <2>4. ToYearPeriod(f, m) = <<y, p>>
    BY <2>1, <2>3 DEF ToYearPeriod
  <2> QED BY <2>2, <2>4
<1> QED BY <1>2, <1>3, <1>4, <1>5, Families

-----------------------------------------------------------------------------
(* Observations *)

\* What one observation becomes.
Encodes(o) == IF o = "none" THEN "NC" ELSE Stored(o)
Decodes(o, text) ==
  IF o \in Missing THEN "none"
  ELSE IF text = "bytes" /\ o \in DOMAIN Bytes THEN Bytes[o] ELSE o
Blurs(o) == IF o \in Missing THEN "NC" ELSE o

LEMMA StoredFacts ==
  /\ Stored("b.ascii") = "ascii" /\ Stored("b.wide") = "wide" /\ Stored("b.binary") = "binary"
  /\ \A o \in {"value", "none", "inexact", "ascii", "wide", "NC"} : Stored(o) = o
<1>1. DOMAIN Bytes = {"ascii", "wide", "binary"}
  BY DEF Bytes
<1>2. Bytes["ascii"] = "b.ascii" /\ Bytes["wide"] = "b.wide" /\ Bytes["binary"] = "b.binary"
  BY DEF Bytes
<1>3. ASSUME NEW c \in DOMAIN Bytes PROVE Stored(Bytes[c]) = c
  <2>1. \A d \in DOMAIN Bytes : Bytes[d] = Bytes[c] => d = c
    BY <1>1, <1>2
  <2> DEFINE o == Bytes[c]
  <2>2. \E d \in DOMAIN Bytes : Bytes[d] = o
    OBVIOUS
  <2>3. Stored(o) = CHOOSE d \in DOMAIN Bytes : Bytes[d] = o
    BY <2>2 DEF Stored
  <2> QED BY <2>1, <2>2, <2>3
<1>4. ASSUME NEW o \in {"value", "none", "inexact", "ascii", "wide", "NC"} PROVE Stored(o) = o
  BY <1>1, <1>2 DEF Stored
<1> QED BY <1>1, <1>2, <1>3, <1>4

\* Everything a value can be made of.
Anything == {"value", "none", "inexact"} \cup Characters \cup Octets

\* An observation is missing once it is written only if it was before, and can be
\* read if it can be as it is stored.
LEMMA EncodesFacts ==
  ASSUME NEW o \in Anything, NEW text
  PROVE  /\ Encodes(o) \in Missing <=> o = "none"
         /\ Decodable(Stored(o), text) => Decodable(Encodes(o), text)
BY StoredFacts DEF Encodes, Missing, Decodable, Anything, Characters, Octets

\* An observation that was read is written as what it was, but for what kind of
\* missing one it is.
LEMMA DecodesFacts ==
  ASSUME NEW o \in Missing \cup {"value", "ascii", "wide", "binary"}, NEW text,
         Decodable(o, text), text \in {"ascii", "bytes", "utf-8"}
  PROVE  /\ Blurs(Encodes(Decodes(o, text))) = Blurs(o)
         /\ Decodes(o, text) # "inexact" /\ Encodable(Decodes(o, text), text)
<1>1. DOMAIN Bytes = {"ascii", "wide", "binary"}
  BY DEF Bytes
<1>2. Bytes["ascii"] = "b.ascii" /\ Bytes["wide"] = "b.wide" /\ Bytes["binary"] = "b.binary"
  BY DEF Bytes
<1>3. CASE o \in Missing
  <2>1. Decodes(o, text) = "none"
    BY <1>3 DEF Decodes
  <2> QED BY <1>3, <2>1 DEF Encodes, Blurs, Missing, Encodable
<1>4. CASE o = "value"
  BY <1>1, <1>4, StoredFacts DEF Decodes, Encodes, Blurs, Missing, Encodable
<1>5. CASE o \in {"ascii", "wide", "binary"} /\ text = "bytes"
  <2>1. Decodes(o, text) = Bytes[o]
    BY <1>1, <1>5 DEF Decodes, Missing
  <2> QED BY <1>2, <1>5, <2>1, StoredFacts DEF Encodes, Blurs, Missing, Encodable
<1>6. CASE o \in {"ascii", "wide"} /\ text # "bytes"
  <2>1. Decodes(o, text) = o
    BY <1>6 DEF Decodes, Missing
  <2>2. o = "wide" => text = "utf-8"
    BY <1>6 DEF Decodable
  <2> QED BY <1>6, <2>1, <2>2, StoredFacts DEF Encodes, Blurs, Missing, Encodable
<1>7. CASE o = "binary" /\ text # "bytes"
  BY <1>7 DEF Decodable
<1> QED BY <1>3, <1>4, <1>5, <1>6, <1>7

LEMMA EncodedFacts ==
  ASSUME NEW obs, obs \in Seq(Anything)
  PROVE  /\ DOMAIN Encoded(obs) = 1..Len(obs) /\ DOMAIN obs = 1..Len(obs) /\ Len(obs) \in Nat
         /\ Len(Encoded(obs)) = Len(obs)
         /\ \A i \in DOMAIN obs : Encoded(obs)[i] = Encodes(obs[i]) /\ obs[i] \in Anything
<1>1. DOMAIN obs = 1..Len(obs) /\ Len(obs) \in Nat /\ \A i \in DOMAIN obs : obs[i] \in Anything
  OBVIOUS
<1>2. Encoded(obs) = [i \in 1..Len(obs) |-> Encodes(obs[i])]
  BY <1>1 DEF Encoded, Encodes
<1> HIDE DEF Encodes
<1> QED BY <1>1, <1>2

-----------------------------------------------------------------------------
(* Forms and kinds *)

LEMMA FormFacts ==
  ASSUME NEW form \in DOMAIN KindOf, NEW text
  PROVE  /\ form \notin SeriesForms =>
              ScalarForm(KindOf[form], text) =
                IF ReadAs[form] = "str" /\ text = "bytes" THEN "bytes" ELSE ReadAs[form]
         /\ form \in SeriesForms =>
              SeriesForm(KindOf[form]) = ReadAs[form] /\ ReadAs[form] # "str"
         /\ KindOf[form] = "boolean" => Observations[form] = {"value"}
         /\ KindOf[form] = "string" /\ form \in SeriesForms => form \in {"StringSeries", "list"}
         /\ KindOf[form] # "string" => form \notin {"StringSeries", "list"}
         /\ Observations[form] \subseteq Anything
BY DEF KindOf, SeriesForms, ScalarForm, SeriesForm, ReadAs, Observations, Anything, Characters, Octets

LEMMA KindFacts ==
  ASSUME NEW kind, NEW text
  PROVE  /\ kind \in Kinds \cup {"namelist"} =>
              /\ KindOf[ScalarForm(kind, text)] = kind
              /\ ScalarForm(kind, text) \notin SeriesForms
         /\ kind \in Kinds =>
              KindOf[SeriesForm(kind)] = kind /\ SeriesForm(kind) \in SeriesForms
BY DEF KindOf, SeriesForms, ScalarForm, SeriesForm, Kinds

-----------------------------------------------------------------------------
(* Values *)

\* A value that is not refused, and of which nothing else is announced, is written
\* as an object with its observations, which is not taken for another one.
LEMMA ValueReturns ==
  ASSUME NEW v, IsValue(v), NEW policy \in Policies, NEW raw, raw = ToFame(v, policy),
         ~IsError(raw), ~Announced(v, policy)
  PROVE  FromFame(raw, policy, NoFirst) = Again(v, policy)
<1> DEFINE kind == KindOf[v.form]
           text == policy.text
           e == Encoded(v.obs)
<1>1. v.form \in DOMAIN KindOf /\ v.obs \in Seq(Observations[v.form])
      /\ (v.form \notin SeriesForms => Len(v.obs) = 1 /\ v.first = NoFirst)
  BY DEF IsValue
<1>2. v.obs \in Seq(Anything)
  BY <1>1, FormFacts, SeqMonotonic
<1>3. /\ DOMAIN e = 1..Len(v.obs) /\ DOMAIN v.obs = 1..Len(v.obs) /\ Len(v.obs) \in Nat
      /\ Len(e) = Len(v.obs)
      /\ \A i \in DOMAIN v.obs : e[i] = Encodes(v.obs[i]) /\ v.obs[i] \in Anything
  BY <1>2, EncodedFacts
<1>4. Prepared(v, policy)
  <2>1. "form" \in DOMAIN Error("data") /\ Error("data").form = "error"
    BY DEF Error
  <2>2. ~Prepared(v, policy) => raw = Error("data")
    BY DEF ToFame
  <2> QED BY <2>1, <2>2 DEF IsError
<1>5. /\ ~(v.obs = <<>> /\ (policy.empty = "preserve" \/ v.form \in {"StringSeries", "list"}))
      /\ ~(policy.empty = "reference" /\ v.obs = <<"none">> /\ v.form \in SeriesForms \ {"StringSeries"})
      /\ ~(policy.missing = "strict" /\ "none" \in ToSet(v.obs))
      /\ \A i \in DOMAIN v.obs : Decodable(Stored(v.obs[i]), text)
  BY DEF Announced
<1>6. \A i \in DOMAIN v.obs : /\ e[i] \in Missing <=> v.obs[i] = "none"
                              /\ Decodable(e[i], text)
  BY <1>3, <1>5, EncodesFacts
<1>7. kind = "boolean" => \A i \in DOMAIN v.obs : v.obs[i] # "none"
  <2>1. kind = "boolean" => Observations[v.form] = {"value"}
    BY <1>1, FormFacts
  <2>2. \A i \in DOMAIN v.obs : v.obs[i] \in Observations[v.form]
    BY <1>1
  <2> QED BY <2>1, <2>2
\* An object with these observations is not refused.
<1>8. ASSUME NEW object, object.obs = e, object.kind = kind
      PROVE  Refusal(object, policy) = "none"
  <2>1. IsMissing(object) => \E i \in DOMAIN v.obs : v.obs[i] = "none"
    BY <1>3, <1>6, <1>8 DEF IsMissing
  <2>2. IsMissing(object) => kind # "boolean" /\ policy.missing # "strict"
    BY <1>5, <1>7, <2>1 DEF ToSet
  <2>3. \A i \in DOMAIN object.obs : Decodable(object.obs[i], policy.text)
    BY <1>3, <1>6, <1>8
  <2> QED BY <1>8, <2>2, <2>3 DEF Refusal
<1>9. CASE v.form \notin SeriesForms
  <2>1. raw = Raw("scalar", kind, NoFirst, e)
    BY <1>4, <1>9 DEF ToFame
  <2>2. raw.class = "scalar" /\ raw.kind = kind /\ raw.obs = e
    BY <2>1 DEF Raw
  <2>3. Refusal(raw, policy) = "none"
    BY <1>8, <2>2
  <2>4. FromFame(raw, policy, NoFirst) = Value(ScalarForm(kind, text), 0, Decoded(e, text))
    BY <2>2, <2>3 DEF FromFame, FromScalar
  <2>5. ScalarForm(kind, text) = IF ReadAs[v.form] = "str" /\ text = "bytes"
                                 THEN "bytes" ELSE ReadAs[v.form]
    BY <1>1, <1>9, FormFacts
  <2> QED BY <1>1, <1>9, <2>4, <2>5 DEF Again, NoFirst
<1>10. CASE v.form \in SeriesForms /\ v.obs = <<>>
  <2>1. policy.empty = "reference" /\ kind # "string"
    <3>1. policy.empty \in {"preserve", "reference"}
      BY DEF Policies
    <3> QED BY <1>1, <1>5, <1>10, <3>1, FormFacts
  <2>2. raw = Raw("series", kind, v.first, <<"NA">>)
    BY <1>4, <1>10, <2>1 DEF ToFame
  <2>3. raw.class = "series" /\ raw.kind = kind /\ raw.first = v.first /\ raw.obs = <<"NA">>
    BY <2>2 DEF Raw
  <2>4. Len(raw.obs) = 1 /\ raw.obs # <<>> /\ IsMissing(raw)
    <3>1. 1 \in DOMAIN raw.obs /\ raw.obs[1] = "NA"
      BY <2>3
    <3> QED BY <2>3, <3>1 DEF IsMissing, Missing
  <2>5. FromFame(raw, policy, NoFirst) = Value(SeriesForm(kind), v.first, <<>>)
    BY <2>1, <2>3, <2>4 DEF FromFame, FromSeries
  <2>6. Decoded(e, text) = <<>>
    <3>1. Decoded(e, text) = [i \in 1..0 |-> Decoded(e, text)[i]]
      BY <1>3, <1>10 DEF Decoded
    <3>2. Decoded(e, text) \in Seq({}) /\ Len(Decoded(e, text)) = 0
      BY <3>1
    <3> QED BY <3>2, EmptySeq
  <2>7. SeriesForm(kind) = ReadAs[v.form] /\ ReadAs[v.form] # "str"
    BY <1>1, <1>10, FormFacts
  <2> QED BY <2>5, <2>6, <2>7 DEF Again
<1>11. CASE v.form \in SeriesForms /\ v.obs # <<>>
  <2>1. raw = Raw("series", kind, v.first, e)
    BY <1>4, <1>11 DEF ToFame
  <2>2. raw.class = "series" /\ raw.kind = kind /\ raw.first = v.first /\ raw.obs = e
    BY <2>1 DEF Raw
  <2>3. Len(v.obs) # 0 /\ e # <<>>
    <3>1. Len(v.obs) # 0
      BY <1>2, <1>11, EmptySeq
    <3> QED BY <1>3, <3>1
  <2>4. Refusal(raw, policy) = "none"
    BY <1>8, <2>2
  <2>5. ~(/\ policy.empty = "reference" /\ raw.kind # "string"
          /\ Len(raw.obs) = 1 /\ IsMissing(raw))
    <3> SUFFICES ASSUME policy.empty = "reference", kind # "string", Len(v.obs) = 1,
                        IsMissing(raw)
                 PROVE  FALSE
      BY <1>3, <2>2
    <3>1. PICK i \in DOMAIN v.obs : v.obs[i] = "none"
      BY <1>3, <1>6, <2>2 DEF IsMissing
    <3>2. v.obs[1] = "none"
      BY <1>3, <3>1
    <3>3. v.obs = <<"none">>
      BY <1>2, <3>2
    <3>4. v.form # "StringSeries"
      BY <1>1, FormFacts
    <3> QED BY <1>5, <1>11, <3>3, <3>4
  <2>6. FromFame(raw, policy, NoFirst) = Value(SeriesForm(kind), v.first, Decoded(e, text))
    BY <2>2, <2>3, <2>4, <2>5 DEF FromFame, FromSeries
  <2>7. SeriesForm(kind) = ReadAs[v.form] /\ ReadAs[v.form] # "str"
    BY <1>1, <1>11, FormFacts
  <2> QED BY <2>6, <2>7 DEF Again
<1> QED BY <1>9, <1>10, <1>11

\* Observations that were read are written as what they were.
LEMMA ObservationsReturn ==
  ASSUME NEW obs, NEW S, S \subseteq Missing \cup {"value", "ascii", "wide", "binary"},
         obs \in Seq(S), NEW text \in {"ascii", "bytes", "utf-8"},
         \A i \in DOMAIN obs : Decodable(obs[i], text),
         NEW d, d = Decoded(obs, text)
  PROVE  /\ Len(d) = Len(obs) /\ DOMAIN d = DOMAIN obs
         /\ \A i \in DOMAIN d : d[i] # "inexact" /\ Encodable(d[i], text)
         /\ [i \in DOMAIN Encoded(d) |-> Blurs(Encoded(d)[i])] = [i \in DOMAIN obs |-> Blurs(obs[i])]
<1>1. /\ DOMAIN obs = 1..Len(obs) /\ Len(obs) \in Nat
      /\ \A i \in DOMAIN obs : obs[i] \in Missing \cup {"value", "ascii", "wide", "binary"}
  OBVIOUS
<1>2. d = [i \in 1..Len(obs) |-> Decodes(obs[i], text)]
  BY <1>1 DEF Decoded, Decodes
<1>3. Encoded(d) = [i \in 1..Len(obs) |-> Encodes(Decodes(obs[i], text))]
  <2>1. Encoded(d) = [i \in DOMAIN d |-> Encodes(d[i])]
    BY DEF Encoded, Encodes
  <2> HIDE DEF Decodes, Encodes
  <2> QED BY <1>2, <2>1
<1>4. \A i \in DOMAIN obs : /\ Blurs(Encodes(Decodes(obs[i], text))) = Blurs(obs[i])
                            /\ Decodes(obs[i], text) # "inexact"
                            /\ Encodable(Decodes(obs[i], text), text)
  BY <1>1, DecodesFacts
<1> HIDE DEF Decodes, Encodes, Blurs
<1>5. Len(d) = Len(obs) /\ DOMAIN d = 1..Len(obs) /\ \A i \in 1..Len(obs) : d[i] = Decodes(obs[i], text)
  BY <1>1, <1>2
<1>6. \A i \in DOMAIN d : d[i] # "inexact" /\ Encodable(d[i], text)
  BY <1>1, <1>4, <1>5
<1>7. DOMAIN Encoded(d) = 1..Len(obs)
      /\ \A i \in 1..Len(obs) : Encoded(d)[i] = Encodes(Decodes(obs[i], text))
  BY <1>3
<1>8. [i \in DOMAIN Encoded(d) |-> Blurs(Encoded(d)[i])] = [i \in DOMAIN obs |-> Blurs(obs[i])]
  BY <1>1, <1>4, <1>7
<1> QED BY <1>1, <1>5, <1>6, <1>8

\* What was read is written as an object that differs by the kinds of missing
\* observations only.
LEMMA RawReturns ==
  ASSUME NEW raw, IsRaw(raw), NEW policy \in Policies,
         NEW out, out = FromFame(raw, policy, NoFirst), ~IsError(out)
  PROVE  /\ ToFame(out, policy).class = raw.class /\ ToFame(out, policy).kind = raw.kind
         /\ ToFame(out, policy).first = raw.first
         /\ ToFame(out, policy) = Raw(raw.class, raw.kind, raw.first, ToFame(out, policy).obs)
         /\ [i \in DOMAIN ToFame(out, policy).obs |-> Blurs(ToFame(out, policy).obs[i])] =
              [i \in DOMAIN raw.obs |-> Blurs(raw.obs[i])]
<1> DEFINE text == policy.text
           d == Decoded(raw.obs, text)
           Blurred(obs) == [i \in DOMAIN obs |-> Blurs(obs[i])]
<1>1. /\ raw.class \in {"scalar", "series"} /\ raw.obs \in Seq(Held(raw.class, raw.kind))
      /\ raw.class = "scalar" => raw.kind \in Kinds \cup {"namelist"} /\ raw.first = NoFirst
      /\ raw.class = "series" => raw.kind \in Kinds
  BY DEF IsRaw
<1>2. /\ Held(raw.class, raw.kind) \subseteq Missing \cup {"value", "ascii", "wide", "binary"}
      /\ text \in {"ascii", "bytes", "utf-8"}
  BY DEF Held, Policies
<1>3. \A why : IsError(Error(why))
  BY DEF Error, IsError
<1>4. ASSUME NEW form, NEW first, out = Value(form, first, d), Refusal(raw, policy) = "none"
      PROVE  /\ Prepared(out, policy) /\ Len(d) = Len(raw.obs)
             /\ Blurred(Encoded(d)) = Blurred(raw.obs)
  <2>1. \A i \in DOMAIN raw.obs : Decodable(raw.obs[i], text)
    BY <1>4 DEF Refusal
  <2>2. /\ Len(d) = Len(raw.obs)
        /\ \A i \in DOMAIN d : d[i] # "inexact" /\ Encodable(d[i], text)
        /\ Blurred(Encoded(d)) = Blurred(raw.obs)
    BY <1>1, <1>2, <2>1, ObservationsReturn
  <2>3. out.obs = d
    BY <1>4 DEF Value
  <2> QED BY <2>2, <2>3 DEF Prepared
<1>5. CASE raw.class = "scalar"
  <2> DEFINE form == ScalarForm(raw.kind, text)
  <2>1. Refusal(raw, policy) = "none" /\ out = Value(form, 0, d)
    BY <1>3, <1>5 DEF FromFame, FromScalar
  <2>2. KindOf[form] = raw.kind /\ form \notin SeriesForms
    BY <1>1, <1>5, KindFacts
  <2>3. Prepared(out, policy) /\ Blurred(Encoded(d)) = Blurred(raw.obs)
    BY <1>4, <2>1
  <2> HIDE DEF form
  <2>4. out.form = form /\ out.obs = d
    BY <2>1 DEF Value
  <2>5. ToFame(out, policy) = Raw("scalar", raw.kind, NoFirst, Encoded(d))
    BY <2>2, <2>3, <2>4 DEF ToFame
  <2> QED BY <1>1, <1>5, <2>3, <2>5 DEF Raw
<1>6. CASE raw.class = "series"
  <2> DEFINE form == SeriesForm(raw.kind)
             marker == /\ policy.empty = "reference" /\ raw.kind # "string"
                       /\ Len(raw.obs) = 1 /\ IsMissing(raw)
  <2>1. KindOf[form] = raw.kind /\ form \in SeriesForms
    BY <1>1, <1>6, KindFacts
  <2>2. raw.obs # <<>>
    BY <1>3, <1>6 DEF FromFame, FromSeries
  <2>3. CASE marker
    <3>1. out = Value(form, raw.first, <<>>)
      BY <1>6, <2>2, <2>3 DEF FromFame, FromSeries
    <3> HIDE DEF form
    <3>2. out.form = form /\ out.first = raw.first /\ out.obs = <<>>
      BY <3>1 DEF Value
    <3>3. Prepared(out, policy)
      <4>1. DOMAIN out.obs = {}
        BY <3>2
      <4> QED BY <4>1 DEF Prepared
    <3>4. ToFame(out, policy) = Raw("series", raw.kind, raw.first, <<"NA">>)
      BY <2>1, <2>3, <3>2, <3>3 DEF ToFame
    <3>5. Blurred(<<"NA">>) = Blurred(raw.obs)
      <4>1. DOMAIN raw.obs = {1} /\ raw.obs[1] \in Missing
        BY <1>1, <2>3 DEF IsMissing
      <4>2. DOMAIN <<"NA">> = {1} /\ <<"NA">>[1] \in Missing
        BY DEF Missing
      <4>3. \A o \in Missing : Blurs(o) = "NC"
        BY DEF Blurs
      <4> HIDE DEF Blurs
      <4> QED BY <4>1, <4>2, <4>3
    <3> QED BY <1>6, <3>4, <3>5 DEF Raw
  <2>4. CASE ~marker
    <3>1. Refusal(raw, policy) = "none" /\ out = Value(form, raw.first, d)
      BY <1>3, <1>6, <2>2, <2>4 DEF FromFame, FromSeries
    <3>2. Prepared(out, policy) /\ Blurred(Encoded(d)) = Blurred(raw.obs) /\ Len(d) = Len(raw.obs)
      BY <1>4, <3>1
    <3>3. d # <<>>
      BY <1>1, <2>2, <3>2, EmptySeq
    <3> HIDE DEF form
    <3>4. out.form = form /\ out.first = raw.first /\ out.obs = d
      BY <3>1 DEF Value
    <3>5. ToFame(out, policy) = Raw("series", raw.kind, raw.first, Encoded(d))
      BY <2>1, <3>2, <3>3, <3>4 DEF ToFame
    <3> QED BY <1>6, <3>2, <3>5 DEF Raw
  <2> QED BY <2>3, <2>4
<1> QED BY <1>1, <1>5, <1>6

-----------------------------------------------------------------------------
(* The specification *)

\* The input is one that the functions may be called with, and what came out is what
\* the function of that input returns.
DataInv ==
  /\ \E i \in DOMAIN Inputs : input \in Inputs[i]
  /\ output # None =>
       /\ input.about = "moment" => output = ToYearPeriod(input.frequency, input.moment)
       /\ input.about = "period" =>
            output = ToMoment(input.frequency, input.year, input.period)
       /\ input.about = "value" => output = ToFame(input.value, input.policy)
       /\ input.about = "raw" => output = FromFame(input.raw, input.policy, NoFirst)

LEMMA DataInvariant == DataSpec => []DataInv
<1>1. Init => DataInv
  BY DEF Init, DataInv
<1>2. DataInv /\ [DataNext]_vars => DataInv'
  <2> SUFFICES ASSUME DataInv, [DataNext]_vars PROVE DataInv'
    OBVIOUS
  <2>1. CASE Dates
    BY <2>1 DEF DataInv, Dates, Call
  <2>2. CASE Periods
    BY <2>2 DEF DataInv, Periods, Call
  <2>3. CASE Writes
    BY <2>3 DEF DataInv, Writes, Call
  <2>4. CASE Reads
    BY <2>4 DEF DataInv, Reads, Call
  <2>5. CASE UNCHANGED vars
    BY <2>5 DEF DataInv, vars
  <2> QED BY <2>1, <2>2, <2>3, <2>4, <2>5 DEF DataNext, Done
<1> QED BY <1>1, <1>2, PTL DEF DataSpec

\* For every frequency of the table and every moment, year and period, whatever
\* their size, the two conversions are inverse: no moment is lost and no period
\* that a year does not have is moved into another (mit_to_year_period,
\* year_period_to_mit).
THEOREM PeriodsInverseAlways == DataSpec => []PeriodsInverse
<1>1. DataInv => PeriodsInverse
  <2> SUFFICES ASSUME DataInv PROVE PeriodsInverse
    OBVIOUS
  <2>1. ASSUME After("moment")
        PROVE  ToMoment(input.frequency, output[1], output[2]) = <<input.moment>>
    <3>1. input.frequency \in Dated /\ IsMoment(input.frequency, input.moment)
      BY <2>1, InputsAssumption DEF DataInv, After
    <3>2. output = ToYearPeriod(input.frequency, input.moment)
      BY <2>1 DEF DataInv, After
    <3> QED BY <3>1, <3>2, MomentReturns
  <2>2. ASSUME After("period"), output # Refused
        PROVE  ToYearPeriod(input.frequency, output[1]) = <<input.year, input.period>>
    <3>1. input.frequency \in Dated /\ IsYear(input.frequency, input.year) /\ input.period \in Int
      BY <2>2, InputsAssumption DEF DataInv, After
    <3>2. output = ToMoment(input.frequency, input.year, input.period)
      BY <2>2 DEF DataInv, After
    <3> QED BY <2>2, <3>1, <3>2, PeriodReturns
  <2> QED BY <2>1, <2>2 DEF PeriodsInverse
<1> QED BY <1>1, DataInvariant, PTL

\* Under every policy, a value of any form with any number of observations that
\* to_fame accepts is read by from_fame as the table of the values module says, but
\* for what that module announces.
THEOREM ReadsAsTableAlways == DataSpec => []ReadsAsTable
<1>1. DataInv => ReadsAsTable
  <2> SUFFICES ASSUME DataInv, After("value"), ~IsError(output),
                      ~Announced(input.value, input.policy)
               PROVE  FromFame(output, input.policy, NoFirst) = Again(input.value, input.policy)
    BY DEF ReadsAsTable
  <2>1. IsValue(input.value) /\ input.policy \in Policies
    BY InputsAssumption DEF DataInv, After
  <2>2. output = ToFame(input.value, input.policy)
    BY DEF DataInv, After
  <2> QED BY <2>1, <2>2, ValueReturns
<1> QED BY <1>1, DataInvariant, PTL

\* Under every policy, an object with any number of observations that from_fame
\* reads is written by to_fame as the same object, with the three kinds of missing
\* observations made one and none made a value.
THEOREM WritesBackAlways == DataSpec => []WritesBack
<1>1. DataInv => WritesBack
  <2> SUFFICES ASSUME DataInv, After("raw"), ~IsError(output) PROVE WritesBack
    BY DEF WritesBack
  <2> DEFINE raw == input.raw
             back == ToFame(output, input.policy)
             Blur(obs) == [i \in DOMAIN obs |-> IF obs[i] \in Missing THEN "NC" ELSE obs[i]]
  <2>1. IsRaw(raw) /\ input.policy \in Policies
    BY InputsAssumption DEF DataInv, After
  <2>2. output = FromFame(raw, input.policy, NoFirst)
    BY DEF DataInv, After
  <2>3. /\ back = Raw(raw.class, raw.kind, raw.first, back.obs)
        /\ [i \in DOMAIN back.obs |-> Blurs(back.obs[i])] = [i \in DOMAIN raw.obs |-> Blurs(raw.obs[i])]
    BY <2>1, <2>2, RawReturns
  <2>4. Blur(back.obs) = Blur(raw.obs)
    BY <2>3 DEF Blurs
  <2>5. raw = Raw(raw.class, raw.kind, raw.first, raw.obs)
    BY <2>1 DEF IsRaw
  <2> HIDE DEF raw, back, Blur
  <2>6. [back EXCEPT !.obs = Blur(@)] = Raw(raw.class, raw.kind, raw.first, Blur(back.obs))
    BY <2>3 DEF Raw
  <2>7. [raw EXCEPT !.obs = Blur(@)] = Raw(raw.class, raw.kind, raw.first, Blur(raw.obs))
    BY <2>5 DEF Raw
  <2>8. [back EXCEPT !.obs = Blur(@)] = [raw EXCEPT !.obs = Blur(@)]
    BY <2>4, <2>6, <2>7
  <2> QED BY <2>8 DEF WritesBack, back, raw, Blur
<1> QED BY <1>1, DataInvariant, PTL
=============================================================================
