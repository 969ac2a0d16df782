----------------------------- MODULE CivilTime -----------------------------
(***************************************************************************)
(* The timestamps of the JSON parsers.  JsonNativeDataParser.cpp turns a   *)
(* date into days since 1970-01-01 by Hinnant's formula, which counts      *)
(* years from March in eras of 400; JsonSimpleDataParser.cpp leaves it to  *)
(* timegm, which is given here by its meaning, the count of the days.      *)
(***************************************************************************)
EXTENDS Integers, Sequences, FiniteSets

\* The day of the year that begins on the first of March, and of the era.
DayOfYear(mo, dy) == (153 * (mo + (IF mo <= 2 THEN 9 ELSE -3)) + 2) \div 5 + dy - 1
DayOfEra(yoe, doy) == yoe * 365 + yoe \div 4 - yoe \div 100 + doy

EraDays == 146097
EpochDay == 719468

\* Days since 1970-01-01; era is rounded towards minus infinity.
DaysFromCivil(y, mo, dy) ==
  LET z   == IF mo <= 2 THEN y - 1 ELSE y
      era == z \div 400
  IN  era * EraDays + DayOfEra(z - era * 400, DayOfYear(mo, dy)) - EpochDay
-----------------------------------------------------------------------------
(* The calendar, as the reference *)

Leap(y) == y % 4 = 0 /\ (y % 100 # 0 \/ y % 400 = 0)

MonthDays(y, mo) ==
  IF mo = 2 THEN IF Leap(y) THEN 29 ELSE 28
  ELSE IF mo \in {4, 6, 9, 11} THEN 30 ELSE 31

\* The day after <<y, mo, dy>>.
NextDay(date) ==
  LET y == date[1] mo == date[2] dy == date[3]
  IN  IF dy < MonthDays(y, mo) THEN <<y, mo, dy + 1>>
      ELSE IF mo < 12 THEN <<y, mo + 1, 1>> ELSE <<y + 1, 1, 1>>

\* timegm: the days of the whole years and months before, for years from 1970.
DaysCounted(y, mo, dy) ==
  LET before[k \in 0 .. 12] ==
        IF k = 0 THEN 0 ELSE before[k - 1] + MonthDays(y, k)
  IN  365 * (y - 1970) + Cardinality({k \in 1970 .. y - 1 : Leap(k)})
      + before[mo - 1] + dy - 1
-----------------------------------------------------------------------------
(* Nanoseconds from the digits after the point *)

Pow10(n) == LET p[k \in 0 .. 9] == IF k = 0 THEN 1 ELSE 10 * p[k - 1] IN p[n]

\* The number that the first n digits spell.
Spelt(digits, n) ==
  LET v[k \in 0 .. n] == IF k = 0 THEN 0 ELSE 10 * v[k - 1] + digits[k] IN v[n]

AtMost9(n) == IF n < 9 THEN n ELSE 9

\* The loops with POW10: up to nine digits, scaled up to nine.
Fraction(digits) ==
  Spelt(digits, AtMost9(Len(digits))) * Pow10(9 - AtMost9(Len(digits)))

\* parse_nanos_fixed9: nine digits, each with its weight.
Fixed9(digits) ==
  LET sum[k \in 0 .. 9] ==
        IF k = 0 THEN 0 ELSE sum[k - 1] + digits[k] * Pow10(9 - k)
  IN  sum[9]
=============================================================================
