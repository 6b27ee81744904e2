--------------------------- MODULE HttpDate_proofs ---------------------------
(***************************************************************************)
(* Proofs about HttpDate: the days_from_civil of net_rest.c, for every     *)
(* year and not only for those that parse_http_date lets pass.             *)
(***************************************************************************)
EXTENDS RestTransport, TLAPS

\* net_rest.c:174-175: within a month a day later is one more.
LEMMA DayAfter ==
    ASSUME NEW y \in Nat \ {0}, NEW m \in 1..12, NEW day \in Nat
    PROVE  DaysFromCivil(y, m, day + 1) = DaysFromCivil(y, m, day) + 1
<1> DEFINE z == IF m <= 2 THEN y - 1 ELSE y
           mp == (153 * (IF m > 2 THEN m - 3 ELSE m + 9) + 2) \div 5
           yoe == z - (z \div 400) * 400
<1>1. z \in Int /\ yoe \in Int /\ mp \in Int
  OBVIOUS
<1> HIDE DEF z, mp, yoe
<1>2. DaysFromCivil(y, m, day + 1)
         = (z \div 400) * 146097 + DayOfEra(yoe, mp + (day + 1) - 1) - 719468
  BY DEF DaysFromCivil, z, mp, yoe
<1>3. DaysFromCivil(y, m, day)
         = (z \div 400) * 146097 + DayOfEra(yoe, mp + day - 1) - 719468
  BY DEF DaysFromCivil, z, mp, yoe
<1> QED
  BY <1>1, <1>2, <1>3 DEF DayOfEra

\* net_rest.c:169-173: the year that days_from_civil counts with begins in March: from December
\* to January it stays the same, from February to March it advances.
LEMMA MonthAfter ==
    ASSUME NEW y \in Nat \ {0}, NEW m \in 1..12
    PROVE  DaysFromCivil(y, m, MonthLength(y, m)) + 1
              = IF m = 12 THEN DaysFromCivil(y + 1, 1, 1) ELSE DaysFromCivil(y, m + 1, 1)
<1>1. CASE m = 1
  BY <1>1 DEF DaysFromCivil, DayOfEra, MonthLength
<1>2. CASE m = 2
  <2> DEFINE q == (y - 1) \div 400
             r == (y - 1) - q * 400
  <2>0. MonthLength(y, 2) \in 28..29 /\ MonthLength(y, 2) = IF Leap(y) THEN 29 ELSE 28
    BY DEF MonthLength, Leap
  <2>1. q \in Nat /\ r \in 0..399 /\ y = 400 * q + r + 1
    OBVIOUS
  <2>2. DaysFromCivil(y, 2, MonthLength(y, 2))
           = q * 146097 + DayOfEra(r, 336 + MonthLength(y, 2)) - 719468
    BY <2>0 DEF DaysFromCivil
  <2>3. DaysFromCivil(y, 3, 1)
           = (y \div 400) * 146097 + DayOfEra(y - (y \div 400) * 400, 0) - 719468
    BY DEF DaysFromCivil
  <2> HIDE DEF q, r
  <2>4. /\ y % 4 = (r + 1) % 4
        /\ y % 100 = (r + 1) % 100
        /\ y % 400 = (r + 1) % 400
    BY <2>1
  <2>5. Leap(y) <=> (r + 1) % 4 = 0 /\ ((r + 1) % 100 # 0 \/ r = 399)
    BY <2>1, <2>4 DEF Leap
  <2>6. MonthLength(y, 2) = IF Leap(y) THEN 29 ELSE 28
    BY <2>0
  <2>7. CASE r = 399
    <3>1. y \div 400 = q + 1 /\ y - (y \div 400) * 400 = 0
      BY <2>1, <2>7
    <3>2. MonthLength(y, 2) = 29
      BY <2>5, <2>6, <2>7
    <3> QED
      BY <1>2, <2>1, <2>2, <2>3, <2>7, <3>1, <3>2 DEF DayOfEra
  <2>8. CASE r # 399
    <3>1. y \div 400 = q /\ y - (y \div 400) * 400 = r + 1
      BY <2>1, <2>8
    <3>2. MonthLength(y, 2) = IF (r + 1) % 4 = 0 /\ (r + 1) % 100 # 0 THEN 29 ELSE 28
      BY <2>5, <2>6, <2>8
    <3>3. DayOfEra(r + 1, 0) = DayOfEra(r, 336 + MonthLength(y, 2)) + 1
      BY <2>1, <2>8, <3>2 DEF DayOfEra
    <3> QED
      BY <1>2, <2>0, <2>1, <2>2, <2>3, <3>1, <3>3 DEF DayOfEra
  <2> QED
    BY <2>7, <2>8
<1>3. CASE m \in 3..11
  BY <1>3 DEF DaysFromCivil, DayOfEra, MonthLength
<1>4. CASE m = 12
  <2> DEFINE q == y \div 400
             r == y - q * 400
  <2>1. q \in Int /\ r \in Int
    OBVIOUS
  <2>2. MonthLength(y, 12) = 31
    BY DEF MonthLength
  <2>3. DaysFromCivil(y, 12, 31) = q * 146097 + DayOfEra(r, 305) - 719468
    BY DEF DaysFromCivil
  <2>4. (y + 1) - 1 = y
    OBVIOUS
  <2>5. DaysFromCivil(y + 1, 1, 1) = q * 146097 + DayOfEra(r, 306) - 719468
    BY <2>4 DEF DaysFromCivil
  <2> HIDE DEF q, r
  <2> QED
    BY <1>4, <2>1, <2>2, <2>3, <2>5 DEF DayOfEra
<1> QED
  BY <1>1, <1>2, <1>3, <1>4

\* days_from_civil counts the days of the Gregorian calendar one by one, in every year: no
\* day is skipped or counted twice at the end of a month, of a February or of a century.
THEOREM Calendar == \A y \in Nat \ {0}, m \in 1..12 : Successive(y, m)
<1> SUFFICES ASSUME NEW y \in Nat \ {0}, NEW m \in 1..12
             PROVE  Successive(y, m)
  OBVIOUS
<1>1. ASSUME NEW day \in 1..(MonthLength(y, m) - 1)
      PROVE  DaysFromCivil(y, m, day + 1) = DaysFromCivil(y, m, day) + 1
  <2>1. MonthLength(y, m) \in 28..31
    BY DEF MonthLength, Leap
  <2> QED
    BY <2>1, DayAfter
<1> QED
  BY <1>1, MonthAfter DEF Successive

\* Whenever do_request has a response to read, the clock its Date header sets is the
\* calendar's, and fits the 32 bits of the epoch (net_rest.c:178-198).
THEOREM DatesAreRight == Spec => []DatesRight
<1>1. CalendarRight
  <2>1. DaysFromCivil(1970, 1, 1) = 0
    BY DEF DaysFromCivil, DayOfEra
  <2>2. DaysFromCivil(LastYear, 12, 31) < 49710
    BY DEF DaysFromCivil, DayOfEra, LastYear
  <2>3. \A y \in 1970..LastYear : y \in Nat \ {0}
    BY DEF LastYear
  <2> QED
    BY <2>1, <2>2, <2>3, Calendar DEF CalendarRight
<1>2. DatesRight
  BY <1>1 DEF DatesRight
<1> QED
  BY <1>2, PTL
=============================================================================
