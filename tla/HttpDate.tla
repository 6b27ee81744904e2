------------------------------ MODULE HttpDate ------------------------------
(***************************************************************************)
(* src/net_rest.c: the clock as the server's Date header sets it.  Days    *)
(* are computed as the code computes them, with C's division; an epoch is  *)
(* its day and its second in the day.                                      *)
(***************************************************************************)
EXTENDS Integers

\* Mutant: every fourth year is a leap year.
DayOfEra_julian(yoe, doy) == yoe * 365 + yoe \div 4 + doy

\* doe, from the year of the era and the day of a year that begins in March.
DayOfEra(yoe, doy) == yoe * 365 + yoe \div 4 - yoe \div 100 + doy

DaysFromCivil(y, m, day) ==
    LET z   == IF m <= 2 THEN y - 1 ELSE y
        era == z \div 400
        doy == (153 * (IF m > 2 THEN m - 3 ELSE m + 9) + 2) \div 5 + day - 1
    IN era * 146097 + DayOfEra(z - era * 400, doy) - 719468

\* parse_http_date: nothing outside these years; the seconds are added to this.
FirstYear == 2020
LastYear  == 2100
Plausible(y) == y \in FirstYear..LastYear

ParseHttpDate(y, m, day, hh, mm, ss) ==
    IF Plausible(y) THEN <<DaysFromCivil(y, m, day), hh * 3600 + mm * 60 + ss>> ELSE <<0, 0>>

-----------------------------------------------------------------------------
Leap(y) == y % 4 = 0 /\ (y % 100 # 0 \/ y % 400 = 0)

MonthLength(y, m) == CASE m \in {4, 6, 9, 11} -> 30
                       [] m = 2 -> IF Leap(y) THEN 29 ELSE 28
                       [] OTHER -> 31

\* The day after is the next in the month, the first of the next month, or of the next year.
Successive(y, m) ==
    /\ \A day \in 1..(MonthLength(y, m) - 1) :
          DaysFromCivil(y, m, day + 1) = DaysFromCivil(y, m, day) + 1
    /\ DaysFromCivil(y, m, MonthLength(y, m)) + 1
          = IF m = 12 THEN DaysFromCivil(y + 1, 1, 1) ELSE DaysFromCivil(y, m + 1, 1)

\* Days count from 1970-01-01, one by one, across the ends of months, leap years and 2100,
\* which is none; and the result fits the 32 bits of the epoch.
CalendarRight ==
    /\ DaysFromCivil(1970, 1, 1) = 0
    /\ \A y \in 1970..LastYear, m \in 1..12 : Successive(y, m)
    /\ DaysFromCivil(LastYear, 12, 31) < 49710     \* 2^32 seconds are 49710.3 days
=============================================================================
