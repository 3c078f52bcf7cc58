--------------------------- MODULE FunctionsProofs ---------------------------
(***************************************************************************)
(* The calendar, and the date functions for all timestamps of the years 1  *)
(* to 9999 and all units of the time of a day that nest; LIKE for all      *)
(* texts.                                                                  *)
(*                                                                         *)
(* The leaves about dates name their prover: the numbers of the calendar   *)
(* are too large for Zenon, and products of two variables are left to it.  *)
(***************************************************************************)
EXTENDS LikeMatcher, DateFunctions, WellFoundedInduction, TLAPS

-----------------------------------------------------------------------------
(* The calendar *)

\* The days before March 1 of a year, from March 1 of the year 0.
DaysBefore(y) == 365 * y + (y \div 4) - (y \div 100) + (y \div 400)

\* The days before a month in a year that starts in March.
MonthStart(k) == (153 * k + 2) \div 5

\* Its type
LEMMA DaysBeforeType == \A y \in Int : DaysBefore(y) \in Int
BY SMT DEF DaysBefore

\* A later year starts at least 365 days later.
LEMMA YearsGrow ==
    ASSUME NEW y \in Int, NEW z \in Int, y < z
    PROVE  DaysBefore(y) + 365 <= DaysBefore(z)
<1>1. (z \div 4) - (y \div 4) >= (z \div 100) - (y \div 100)
  <2>1. z \div 100 = (z \div 4) \div 25 /\ y \div 100 = (y \div 4) \div 25
    BY SMT
  <2>2. z \div 4 >= y \div 4
    BY SMT
  <2> QED BY <2>1, <2>2, SMT
<1>2. z \div 400 >= y \div 400
  BY SMT
<1>3. y \div 4 \in Int /\ y \div 100 \in Int /\ y \div 400 \in Int /\ z \div 4 \in Int /\ z \div 100 \in Int /\ z \div 400 \in Int
  BY SMT
<1> QED BY SMT, <1>1, <1>2, <1>3 DEF DaysBefore

\* The cycle of 400 years.
LEMMA DaysBeforeInEra ==
    ASSUME NEW y \in Int, NEW era \in Int, NEW yoe \in Int, yoe >= 0, yoe <= 399, y = 400 * era + yoe
    PROVE  DaysBefore(y) = era * 146097 + yoe * 365 + (yoe \div 4) - (yoe \div 100)
<1>1. y \div 4 = 100 * era + (yoe \div 4)
  BY SMT
<1>2. y \div 100 = 4 * era + (yoe \div 100)
  BY SMT
<1>3. y \div 400 = era
  BY SMT
<1>4. yoe \div 4 \in Int /\ yoe \div 100 \in Int
  BY SMT
<1> QED BY <1>1, <1>2, <1>3, <1>4, SMT DEF DaysBefore

\* The year after a year of a cycle.
LEMMA NextYearInEra ==
    ASSUME NEW y \in Int, NEW era \in Int, NEW yoe \in Int, yoe >= 0, yoe <= 399, y = 400 * era + yoe,
           NEW z \in Int, z = yoe + 1, NEW n \in Int, n = y + 1
    PROVE  DaysBefore(n) = era * 146097 + 365 * z + (z \div 4) - (z \div 100) + (z \div 400)
<1>1. n \div 4 = 100 * era + (z \div 4)
  BY SMT
<1>2. n \div 100 = 4 * era + (z \div 100)
  BY SMT
<1>3. n \div 400 = era + (z \div 400)
  BY SMT
<1>4. z \div 4 \in Int /\ z \div 100 \in Int /\ z \div 400 \in Int
  BY SMT
<1> QED BY <1>1, <1>2, <1>3, <1>4, SMT DEF DaysBefore

\* Date::FromDate counts the days before the year, which starts in March, the
\* month and the day.
LEMMA FromDateCounts ==
    ASSUME NEW y \in Int, NEW month \in Int, NEW day \in Int, NEW z \in Int, NEW k \in Int,
           \/ month >= 1 /\ month <= 2 /\ z = y - 1 /\ k = month + 9
           \/ month >= 3 /\ month <= 12 /\ z = y /\ k = month - 3
    PROVE  FromDate(y, month, day) = DaysBefore(z) + MonthStart(k) + day - 1 - 719468
<1>1. PICK era \in Int, yoe \in Int : yoe >= 0 /\ yoe <= 399 /\ era = z \div 400 /\ yoe = z % 400 /\ z = 400 * era + yoe
  BY SMT
<1>2. DaysBefore(z) = era * 146097 + yoe * 365 + (yoe \div 4) - (yoe \div 100)
  BY <1>1, DaysBeforeInEra, SMT
<1>3. FromDate(y, month, day) =
        era * 146097 + yoe * 365 + (yoe \div 4) - (yoe \div 100) + (((153 * k + 2) \div 5) + day - 1) - 719468
  BY <1>1, SMT DEF FromDate
<1>4. yoe \div 4 \in Int /\ yoe \div 100 \in Int /\ (153 * k + 2) \div 5 \in Int
  BY SMT
<1> QED BY <1>2, <1>3, <1>4, SMT DEF MonthStart

\* The months of a year that starts in March.
LEMMA MonthStarts ==
    /\ MonthStart(0) = 0 /\ MonthStart(1) = 31 /\ MonthStart(2) = 61 /\ MonthStart(3) = 92
    /\ MonthStart(4) = 122 /\ MonthStart(5) = 153 /\ MonthStart(6) = 184 /\ MonthStart(7) = 214
    /\ MonthStart(8) = 245 /\ MonthStart(9) = 275 /\ MonthStart(10) = 306 /\ MonthStart(11) = 337
BY SMT DEF MonthStart

\* It is an integer.
LEMMA MonthStartType ==
    ASSUME NEW k \in Int
    PROVE  MonthStart(k) \in Int
BY SMT DEF MonthStart

\* The year of a cycle that a day is in.
LEMMA YearOfEra ==
    ASSUME NEW doe \in Int, doe >= 0, doe <= 146096, NEW a \in Int, NEW b \in Int, NEW c \in Int, NEW yoe \in Int,
           a = doe \div 1460, b = doe \div 36524, c = doe \div 146096, yoe = (doe - a + b - c) \div 365
    PROVE  /\ yoe >= 0 /\ yoe <= 399
           /\ 365 * yoe + (yoe \div 4) - (yoe \div 100) <= doe
           /\ doe < 365 * (yoe + 1) + ((yoe + 1) \div 4) - ((yoe + 1) \div 100) + ((yoe + 1) \div 400)
<1>1. yoe >= 0 /\ yoe <= 399
  BY SMT
<1>2. 365 * yoe + (yoe \div 4) - (yoe \div 100) <= doe
  BY SMT
<1>3. doe < 365 * (yoe + 1) + ((yoe + 1) \div 4) - ((yoe + 1) \div 100) + ((yoe + 1) \div 400)
  BY <1>1, SMT
<1> QED BY <1>1, <1>2, <1>3, SMT

\* The year and the month of a day, counted from March.
MarchYear(d) == IF Month(d) <= 2 THEN Year(d) - 1 ELSE Year(d)
MarchMonth(d) == IF Month(d) <= 2 THEN Month(d) + 9 ELSE Month(d) - 3

\* Date::Convert finds the year, the month and the day.
LEMMA ConvertFinds ==
    ASSUME NEW d \in Int
    PROVE  /\ Year(d) \in Int /\ Month(d) \in Int /\ Month(d) >= 1 /\ Month(d) <= 12
           /\ d + 719468 < DaysBefore(MarchYear(d) + 1)
           /\ MonthStart(MarchMonth(d)) <= d + 719468 - DaysBefore(MarchYear(d))
           /\ MarchMonth(d) < 11 => d + 719468 - DaysBefore(MarchYear(d)) < MonthStart(MarchMonth(d) + 1)
           /\ Convert(d).day = d + 719468 - DaysBefore(MarchYear(d)) - MonthStart(MarchMonth(d)) + 1
<1> DEFINE doe == (d + 719468) % 146097
           era == (d + 719468) \div 146097
           a == doe \div 1460
           b == doe \div 36524
           c == doe \div 146096
           yoe == (doe - a + b - c) \div 365
           doy == doe - (365 * yoe + (yoe \div 4) - (yoe \div 100))
           mp == (5 * doy + 2) \div 153
           month == IF mp < 10 THEN mp + 3 ELSE mp - 9
           y == 400 * era + yoe
<1>1. Month(d) = month /\ Convert(d).day = doy - ((153 * mp + 2) \div 5) + 1
  BY SMT DEF Month, Convert
<1>2. Year(d) = yoe + era * 400 + (IF month <= 2 THEN 1 ELSE 0)
  BY SMT DEF Year, Convert
<1>3. doe \in Int /\ doe >= 0 /\ doe <= 146096 /\ era \in Int /\ d + 719468 = 146097 * era + doe
  BY SMT
<1> HIDE DEF doe, era
<1>4. a \in Int /\ b \in Int /\ c \in Int /\ a = doe \div 1460 /\ b = doe \div 36524 /\ c = doe \div 146096
  BY <1>3, SMT
<1> HIDE DEF a, b, c
<1>5. yoe \in Int /\ yoe = (doe - a + b - c) \div 365
  BY <1>3, <1>4, SMT
<1> HIDE DEF yoe
<1>6. /\ yoe >= 0 /\ yoe <= 399
      /\ 365 * yoe + (yoe \div 4) - (yoe \div 100) <= doe
      /\ doe < 365 * (yoe + 1) + ((yoe + 1) \div 4) - ((yoe + 1) \div 100) + ((yoe + 1) \div 400)
  BY <1>3, <1>4, <1>5, YearOfEra, SMT
<1>7. y \in Int /\ y = 400 * era + yoe
  BY <1>3, <1>5, SMT
<1> HIDE DEF y
<1> era \in Int /\ yoe \in Int /\ yoe >= 0 /\ yoe <= 399
  BY <1>3, <1>5, <1>6, SMT
<1>8. DaysBefore(y) = era * 146097 + yoe * 365 + (yoe \div 4) - (yoe \div 100)
  BY <1>7, DaysBeforeInEra, SMT
<1>9. DaysBefore(y + 1) =
        era * 146097 + 365 * (yoe + 1) + ((yoe + 1) \div 4) - ((yoe + 1) \div 100) + ((yoe + 1) \div 400)
  <2>1. PICK z \in Int, n \in Int : z = yoe + 1 /\ n = y + 1
    BY <1>7, SMT
  <2>2. DaysBefore(n) = era * 146097 + 365 * z + (z \div 4) - (z \div 100) + (z \div 400)
    BY <1>7, <2>1, NextYearInEra, SMT
  <2> QED BY <2>1, <2>2, SMT
<1>10. doy \in Int
  BY <1>3, <1>5, SMT
<1>11. doy = d + 719468 - DaysBefore(y) /\ doy >= 0 /\ d + 719468 < DaysBefore(y + 1) /\ doy <= 365
  <2>1. PICK p \in Int, q \in Int, r \in Int, s \in Int, t \in Int :
          /\ p = yoe \div 4 /\ q = yoe \div 100 /\ r = (yoe + 1) \div 4 /\ s = (yoe + 1) \div 100 /\ t = (yoe + 1) \div 400
          /\ r - p <= 1 /\ s >= q /\ t <= s - q
    BY SMT
  <2> QED BY <1>3, <1>6, <1>8, <1>9, <1>10, <2>1, SMT
<1> HIDE DEF doy
<1>12. mp \in Int /\ mp = (5 * doy + 2) \div 153
  BY <1>10, SMT
<1> HIDE DEF mp
<1>13. mp >= 0 /\ mp <= 11 /\ MonthStart(mp) <= doy /\ (mp < 11 => doy < MonthStart(mp + 1)) /\ MonthStart(mp) \in Int
  BY <1>10, <1>11, <1>12, SMT DEF MonthStart
<1>14. Year(d) = IF mp < 10 THEN y ELSE y + 1
  <2>1. CASE mp < 10
    BY <1>2, <1>3, <1>5, <1>7, <1>12, <1>13, <2>1, SMT
  <2>2. CASE ~(mp < 10)
    BY <1>2, <1>3, <1>5, <1>7, <1>12, <1>13, <2>2, SMT
  <2> QED BY <2>1, <2>2, SMT
<1>15. Convert(d).day = doy - MonthStart(mp) + 1
  BY <1>1, SMT DEF MonthStart
<1>16. Month(d) = IF mp < 10 THEN mp + 3 ELSE mp - 9
  BY <1>1, SMT
<1> HIDE DEF month
<1>17. Year(d) \in Int /\ Month(d) \in Int /\ Month(d) >= 1 /\ Month(d) <= 12
  BY <1>7, <1>12, <1>13, <1>14, <1>16, SMT
<1>18. MarchYear(d) = y /\ MarchMonth(d) = mp
  BY <1>7, <1>12, <1>13, <1>14, <1>16, SMT DEF MarchYear, MarchMonth
<1>19. d + 719468 < DaysBefore(MarchYear(d) + 1)
  BY <1>11, <1>18, SMT
<1>20. /\ MonthStart(MarchMonth(d)) <= d + 719468 - DaysBefore(MarchYear(d))
       /\ Convert(d).day = d + 719468 - DaysBefore(MarchYear(d)) - MonthStart(MarchMonth(d)) + 1
  BY <1>7, <1>10, <1>11, <1>13, <1>15, <1>18, DaysBeforeType, SMT
<1>21. MarchMonth(d) < 11 => d + 719468 - DaysBefore(MarchYear(d)) < MonthStart(MarchMonth(d) + 1)
  BY <1>11, <1>13, <1>18, SMT
<1> QED BY <1>17, <1>19, <1>20, <1>21, SMT

\* The first day of the month that follows.
NextMonth(y, m) == IF m = 12 THEN FromDate(y + 1, 1, 1) ELSE FromDate(y, m + 1, 1)

\* March 1 of a year.
MarchFirst(y) == DaysBefore(y) - 719468

\* The first days of the months of a year.
MonthTable(y) ==
    /\ MarchFirst(y - 1) \in Int /\ MarchFirst(y) \in Int /\ MarchFirst(y + 1) \in Int
    /\ MarchFirst(y - 1) + 365 <= MarchFirst(y) /\ MarchFirst(y) + 365 <= MarchFirst(y + 1)
    /\ FromDate(y, 1, 1) = MarchFirst(y - 1) + 306 /\ FromDate(y, 2, 1) = MarchFirst(y - 1) + 337
    /\ FromDate(y, 3, 1) = MarchFirst(y) /\ FromDate(y, 4, 1) = MarchFirst(y) + 31
    /\ FromDate(y, 5, 1) = MarchFirst(y) + 61 /\ FromDate(y, 6, 1) = MarchFirst(y) + 92
    /\ FromDate(y, 7, 1) = MarchFirst(y) + 122 /\ FromDate(y, 8, 1) = MarchFirst(y) + 153
    /\ FromDate(y, 9, 1) = MarchFirst(y) + 184 /\ FromDate(y, 10, 1) = MarchFirst(y) + 214
    /\ FromDate(y, 11, 1) = MarchFirst(y) + 245 /\ FromDate(y, 12, 1) = MarchFirst(y) + 275
    /\ FromDate(y + 1, 1, 1) = MarchFirst(y) + 306

\* Date::FromDate gives these days.
LEMMA FirstDays == \A y \in Int : MonthTable(y)
<1> SUFFICES ASSUME NEW y \in Int PROVE MonthTable(y)
  BY SMT
<1>1. MarchFirst(y - 1) \in Int /\ MarchFirst(y) \in Int /\ MarchFirst(y + 1) \in Int
  BY DaysBeforeType, SMT DEF MarchFirst
<1>2. MarchFirst(y - 1) + 365 <= MarchFirst(y) /\ MarchFirst(y) + 365 <= MarchFirst(y + 1)
  BY YearsGrow, DaysBeforeType, SMT DEF MarchFirst
<1>3. FromDate(y, 1, 1) = MarchFirst(y - 1) + 306 /\ FromDate(y, 2, 1) = MarchFirst(y - 1) + 337
  <2>1. FromDate(y, 1, 1) = DaysBefore(y - 1) + MonthStart(10) + 1 - 1 - 719468
    BY FromDateCounts, SMT
  <2>2. FromDate(y, 2, 1) = DaysBefore(y - 1) + MonthStart(11) + 1 - 1 - 719468
    BY FromDateCounts, SMT
  <2> QED BY <2>1, <2>2, MonthStarts, DaysBeforeType, SMT DEF MarchFirst
<1>4. FromDate(y, 3, 1) = MarchFirst(y) /\ FromDate(y, 4, 1) = MarchFirst(y) + 31 /\ FromDate(y, 5, 1) = MarchFirst(y) + 61
  <2>1. FromDate(y, 3, 1) = DaysBefore(y) + MonthStart(0) + 1 - 1 - 719468
    BY FromDateCounts, SMT
  <2>2. FromDate(y, 4, 1) = DaysBefore(y) + MonthStart(1) + 1 - 1 - 719468
    BY FromDateCounts, SMT
  <2>3. FromDate(y, 5, 1) = DaysBefore(y) + MonthStart(2) + 1 - 1 - 719468
    BY FromDateCounts, SMT
  <2> QED BY <2>1, <2>2, <2>3, MonthStarts, DaysBeforeType, SMT DEF MarchFirst
<1>5. FromDate(y, 6, 1) = MarchFirst(y) + 92 /\ FromDate(y, 7, 1) = MarchFirst(y) + 122 /\ FromDate(y, 8, 1) = MarchFirst(y) + 153
  <2>1. FromDate(y, 6, 1) = DaysBefore(y) + MonthStart(3) + 1 - 1 - 719468
    BY FromDateCounts, SMT
  <2>2. FromDate(y, 7, 1) = DaysBefore(y) + MonthStart(4) + 1 - 1 - 719468
    BY FromDateCounts, SMT
  <2>3. FromDate(y, 8, 1) = DaysBefore(y) + MonthStart(5) + 1 - 1 - 719468
    BY FromDateCounts, SMT
  <2> QED BY <2>1, <2>2, <2>3, MonthStarts, DaysBeforeType, SMT DEF MarchFirst
<1>6. /\ FromDate(y, 9, 1) = MarchFirst(y) + 184 /\ FromDate(y, 10, 1) = MarchFirst(y) + 214
      /\ FromDate(y, 11, 1) = MarchFirst(y) + 245 /\ FromDate(y, 12, 1) = MarchFirst(y) + 275
  <2>1. FromDate(y, 9, 1) = DaysBefore(y) + MonthStart(6) + 1 - 1 - 719468
    BY FromDateCounts, SMT
  <2>2. FromDate(y, 10, 1) = DaysBefore(y) + MonthStart(7) + 1 - 1 - 719468
    BY FromDateCounts, SMT
  <2>3. FromDate(y, 11, 1) = DaysBefore(y) + MonthStart(8) + 1 - 1 - 719468
    BY FromDateCounts, SMT
  <2>4. FromDate(y, 12, 1) = DaysBefore(y) + MonthStart(9) + 1 - 1 - 719468
    BY FromDateCounts, SMT
  <2> QED BY <2>1, <2>2, <2>3, <2>4, MonthStarts, DaysBeforeType, SMT DEF MarchFirst
<1>7. FromDate(y + 1, 1, 1) = MarchFirst(y) + 306
  <2>1. FromDate(y + 1, 1, 1) = DaysBefore(y) + MonthStart(10) + 1 - 1 - 719468
    BY FromDateCounts, SMT
  <2> QED BY <2>1, MonthStarts, DaysBeforeType, SMT DEF MarchFirst
<1> QED BY <1>1, <1>2, <1>3, <1>4, <1>5, <1>6, <1>7, SMT DEF MonthTable

\* The first days of the months are integers, and a month has at least 28 days.
LEMMA MonthLength ==
    ASSUME NEW y \in Int, NEW m \in Int, m >= 1, m <= 12
    PROVE  /\ FromDate(y, m, 1) \in Int /\ NextMonth(y, m) \in Int
           /\ FromDate(y, m, 1) + 28 <= NextMonth(y, m)
           /\ FromDate(y, 1, 1) <= FromDate(y, m, 1) /\ NextMonth(y, m) <= FromDate(y + 1, 1, 1)
<1>1. m \in {1, 2, 3, 4, 5, 6, 7, 8, 9, 10, 11, 12}
  BY SMT
<1>2. MonthTable(y)
  BY FirstDays, SMT
<1> QED BY <1>1, <1>2, SMT DEF MonthTable, NextMonth

\* The months of a year follow each other.
LEMMA MonthsFollow ==
    ASSUME NEW y \in Int, NEW m \in Int, NEW k \in Int, m >= 1, k <= 12, m < k
    PROVE  NextMonth(y, m) <= FromDate(y, k, 1)
<1>1. m \in {1, 2, 3, 4, 5, 6, 7, 8, 9, 10, 11, 12}
  BY SMT
<1>2. MonthTable(y)
  BY FirstDays, SMT
<1> QED BY <1>1, <1>2, SMT DEF MonthTable, NextMonth

\* The first day of a year is an integer.
LEMMA YearStartType ==
    ASSUME NEW y \in Int
    PROVE  FromDate(y, 1, 1) \in Int
<1>1. FromDate(y, 1, 1) = MarchFirst(y - 1) + 306
  BY FirstDays, SMT DEF MonthTable
<1>2. MarchFirst(y - 1) \in Int
  BY DaysBeforeType, SMT DEF MarchFirst
<1> QED BY <1>1, <1>2, SMT

\* The years follow each other.
LEMMA YearsFollow ==
    ASSUME NEW y \in Int, NEW z \in Int, y <= z
    PROVE  FromDate(y, 1, 1) <= FromDate(z, 1, 1)
<1>1. MonthTable(y) /\ MonthTable(z)
  BY FirstDays, SMT
<1>2. MarchFirst(y - 1) <= MarchFirst(z - 1)
  <2>1. CASE y = z
    BY <2>1, DaysBeforeType, SMT DEF MarchFirst
  <2>2. CASE y < z
    <3>1. PICK i \in Int, k \in Int : i = y - 1 /\ k = z - 1 /\ i < k
      BY <2>2, SMT
    <3>2. DaysBefore(i) + 365 <= DaysBefore(k)
      BY <3>1, YearsGrow, SMT
    <3>3. DaysBefore(i) \in Int /\ DaysBefore(k) \in Int
      BY DaysBeforeType, SMT
    <3> QED BY <3>1, <3>2, <3>3, SMT DEF MarchFirst
  <2> QED BY <2>1, <2>2, SMT
<1> QED BY <1>1, <1>2, SMT DEF MonthTable

\* A day is in the month that Date::Convert gives.
LEMMA DayInMonth ==
    ASSUME NEW d \in Int
    PROVE  /\ Year(d) \in Int /\ Month(d) \in 1..12
           /\ FromDate(Year(d), Month(d), 1) <= d /\ d < NextMonth(Year(d), Month(d))
           /\ Convert(d).day = d - FromDate(Year(d), Month(d), 1) + 1
<1>1. /\ Year(d) \in Int /\ Month(d) \in Int /\ Month(d) >= 1 /\ Month(d) <= 12
      /\ d + 719468 < DaysBefore(MarchYear(d) + 1)
      /\ MonthStart(MarchMonth(d)) <= d + 719468 - DaysBefore(MarchYear(d))
      /\ MarchMonth(d) < 11 => d + 719468 - DaysBefore(MarchYear(d)) < MonthStart(MarchMonth(d) + 1)
      /\ Convert(d).day = d + 719468 - DaysBefore(MarchYear(d)) - MonthStart(MarchMonth(d)) + 1
  BY ConvertFinds, SMT
<1>2. PICK y \in Int, m \in Int : y = Year(d) /\ m = Month(d)
  BY <1>1, SMT
<1>3. MonthTable(y)
  BY FirstDays, SMT
<1>4. CASE m <= 2
  <2>1. MarchYear(d) = y - 1 /\ MarchMonth(d) = m + 9
    BY <1>2, <1>4, SMT DEF MarchYear, MarchMonth
  <2>2. DaysBefore(MarchYear(d)) = MarchFirst(y - 1) + 719468 /\ DaysBefore(MarchYear(d) + 1) = MarchFirst(y) + 719468
    BY <2>1, DaysBeforeType, SMT DEF MarchFirst
  <2>3. CASE m = 1
    BY <1>1, <1>2, <1>3, <2>1, <2>2, <2>3, MonthStarts, SMT DEF MonthTable, NextMonth
  <2>4. CASE m = 2
    BY <1>1, <1>2, <1>3, <2>1, <2>2, <2>4, MonthStarts, SMT DEF MonthTable, NextMonth
  <2> QED BY <1>1, <1>2, <1>4, <2>3, <2>4, SMT
<1>5. CASE m >= 3
  <2>1. MarchYear(d) = y /\ MarchMonth(d) = m - 3
    BY <1>2, <1>5, SMT DEF MarchYear, MarchMonth
  <2>2. DaysBefore(MarchYear(d)) = MarchFirst(y) + 719468
    BY <2>1, DaysBeforeType, SMT DEF MarchFirst
  <2>3. /\ MonthStart(m - 3) <= d - MarchFirst(y) /\ d - MarchFirst(y) < MonthStart(m - 2)
        /\ Convert(d).day = d - MarchFirst(y) - MonthStart(m - 3) + 1
    <3>1. MarchFirst(y) \in Int /\ MarchFirst(y + 1) \in Int /\ DaysBefore(y + 1) = MarchFirst(y + 1) + 719468
      BY DaysBeforeType, SMT DEF MarchFirst
    <3>2. /\ d < MarchFirst(y + 1) /\ MonthStart(m - 3) <= d - MarchFirst(y)
          /\ m - 3 < 11 => d - MarchFirst(y) < MonthStart(m - 3 + 1)
          /\ Convert(d).day = d - MarchFirst(y) - MonthStart(m - 3) + 1
      <4>1. MonthStart(m - 3) \in Int /\ MonthStart(m - 3 + 1) \in Int
        BY MonthStartType, SMT
      <4> QED BY <1>1, <1>2, <2>1, <2>2, <3>1, <4>1, SMT
    <3> QED BY <1>1, <1>2, <3>1, <3>2, SMT
  <2>4. CASE m \in {3, 4, 5, 6, 7}
    BY <1>2, <1>3, <2>3, <2>4, MonthStarts, SMT DEF MonthTable, NextMonth
  <2>5. CASE m \in {8, 9, 10, 11, 12}
    BY <1>2, <1>3, <2>3, <2>5, MonthStarts, SMT DEF MonthTable, NextMonth
  <2> QED BY <1>1, <1>2, <1>5, <2>4, <2>5, SMT
<1> QED BY <1>4, <1>5, SMT

\* A day between the first days of two years that follow each other is in the
\* first of them.
LEMMA YearOfDay ==
    ASSUME NEW d \in Int, NEW y \in Int
    PROVE  /\ Year(d) >= y <=> FromDate(y, 1, 1) <= d
           /\ Year(d) <= y <=> d < FromDate(y + 1, 1, 1)
<1>1. Year(d) \in Int /\ FromDate(Year(d), 1, 1) <= d /\ d < FromDate(Year(d) + 1, 1, 1)
  <2>1. PICK z \in Int, k \in Int : z = Year(d) /\ k = Month(d)
    BY DayInMonth, SMT
  <2>2. k >= 1 /\ k <= 12 /\ FromDate(z, k, 1) <= d /\ d < NextMonth(z, k)
    BY <2>1, DayInMonth, SMT
  <2>3. /\ FromDate(z, k, 1) \in Int /\ NextMonth(z, k) \in Int
        /\ FromDate(z, 1, 1) <= FromDate(z, k, 1) /\ NextMonth(z, k) <= FromDate(z + 1, 1, 1)
    BY <2>2, MonthLength, SMT
  <2>4. FromDate(z, 1, 1) \in Int /\ FromDate(z + 1, 1, 1) \in Int
    BY YearStartType, SMT
  <2> QED BY <2>1, <2>2, <2>3, <2>4, SMT
<1>2. \A z \in Int : FromDate(z, 1, 1) \in Int
  BY YearStartType, SMT
<1>3. \A z \in Int : y <= z => FromDate(y, 1, 1) <= FromDate(z, 1, 1)
  BY YearsFollow, SMT
<1>4. \A z \in Int : z <= y => FromDate(z, 1, 1) <= FromDate(y, 1, 1)
  BY YearsFollow, SMT
<1>5. \A z \in Int : y + 1 <= z => FromDate(y + 1, 1, 1) <= FromDate(z, 1, 1)
  BY YearsFollow, SMT
<1>6. \A z \in Int : z <= y + 1 => FromDate(z, 1, 1) <= FromDate(y + 1, 1, 1)
  BY YearsFollow, SMT
<1>7. Year(d) + 1 \in Int /\ y + 1 \in Int
  BY <1>1, SMT
<1> QED BY <1>1, <1>2, <1>3, <1>4, <1>5, <1>6, <1>7, SMT

\* A day from the first day of a month up to the next is in that month.
LEMMA MonthOfDay ==
    ASSUME NEW d \in Int, NEW y \in Int, NEW m \in Int, m >= 1, m <= 12, FromDate(y, m, 1) <= d, d < NextMonth(y, m)
    PROVE  Year(d) = y /\ Month(d) = m
<1>1. /\ FromDate(y, m, 1) \in Int /\ NextMonth(y, m) \in Int
      /\ FromDate(y, 1, 1) <= FromDate(y, m, 1) /\ NextMonth(y, m) <= FromDate(y + 1, 1, 1)
  BY MonthLength, SMT
<1>2. FromDate(y, 1, 1) \in Int /\ FromDate(y + 1, 1, 1) \in Int
  BY YearStartType, SMT
<1>3. Year(d) = y
  <2>1. FromDate(y, 1, 1) <= d /\ d < FromDate(y + 1, 1, 1)
    BY <1>1, <1>2, SMT
  <2>2. Year(d) >= y /\ Year(d) <= y
    BY <2>1, YearOfDay, SMT
  <2>3. Year(d) \in Int
    BY DayInMonth, SMT
  <2> QED BY <2>2, <2>3, SMT
<1>4. PICK k \in Int : k = Month(d)
  BY DayInMonth, SMT
<1>5. k >= 1 /\ k <= 12 /\ FromDate(y, k, 1) <= d /\ d < NextMonth(y, k)
  BY <1>3, <1>4, DayInMonth, SMT
<1>6. FromDate(y, k, 1) \in Int /\ NextMonth(y, k) \in Int
  BY <1>5, MonthLength, SMT
<1>7. ~(k < m)
  BY <1>1, <1>5, <1>6, MonthsFollow, SMT
<1>8. ~(m < k)
  BY <1>1, <1>5, <1>6, MonthsFollow, SMT
<1> QED BY <1>3, <1>4, <1>7, <1>8, SMT

\* A year has at least 365 days.
LEMMA YearLength ==
    ASSUME NEW y \in Int
    PROVE  FromDate(y, 1, 1) + 365 <= FromDate(y + 1, 1, 1)
<1>1. MonthTable(y)
  BY FirstDays, SMT
<1> QED BY <1>1, SMT DEF MonthTable

\* The days of a month follow each other.
LEMMA FromDateDay ==
    ASSUME NEW y \in Int, NEW m \in Int, m >= 1, m <= 12, NEW k \in Int
    PROVE  FromDate(y, m, k) = FromDate(y, m, 1) + k - 1
<1> DEFINE y1 == IF m <= 2 THEN y - 1 ELSE y
           a == (153 * (m + (IF m > 2 THEN -3 ELSE 9)) + 2) \div 5
           yoe == y1 % 400
           b == (y1 \div 400) * 146097 + yoe * 365 + (yoe \div 4) - (yoe \div 100)
<1>1. \A i \in Int : FromDate(y, m, i) = b + (a + i - 1) - 719468
  BY SMT DEF FromDate
<1>2. y1 \in Int /\ a \in Int
  BY SMT
<1> HIDE DEF y1, a
<1>3. b \in Int
  BY <1>2, SMT
<1> HIDE DEF b
<1> QED BY <1>1, <1>2, <1>3, SMT

\* The first day of a year, and the day before it.
LEMMA FirstOfYear ==
    ASSUME NEW y \in Int, NEW s \in Int, s = FromDate(y, 1, 1)
    PROVE  Year(s) = y /\ Month(s) = 1 /\ Year(s - 1) = y - 1 /\ \A k \in Int : k >= 0 /\ k <= 364 => Year(s + k) = y
<1>1. /\ FromDate(y, 1, 1) + 365 <= FromDate(y + 1, 1, 1)
      /\ FromDate(y - 1, 1, 1) + 365 <= FromDate(y, 1, 1)
  BY YearLength, SMT
<1>2. FromDate(y + 1, 1, 1) \in Int /\ FromDate(y - 1, 1, 1) \in Int
  BY YearStartType, SMT
<1>3. ASSUME NEW k \in Int, k >= 0, k <= 364 PROVE Year(s + k) = y
  <2>1. PICK e \in Int : e = s + k
    BY <1>3, SMT
  <2>2. e >= FromDate(y, 1, 1) /\ e < FromDate(y + 1, 1, 1)
    BY <1>1, <1>2, <1>3, <2>1, SMT
  <2>3. Year(e) \in Int /\ Year(e) >= y /\ Year(e) <= y
    BY <2>2, YearOfDay, DayInMonth, SMT
  <2> QED BY <2>1, <2>3, SMT
<1>4. Year(s - 1) = y - 1
  <2>1. PICK e \in Int : e = s - 1
    BY SMT
  <2>2. PICK z \in Int : z = y - 1
    BY SMT
  <2>3. z + 1 = y
    BY <2>2, SMT
  <2>4. FromDate(z, 1, 1) <= e /\ e < FromDate(z + 1, 1, 1)
    BY <1>1, <1>2, <2>1, <2>2, <2>3, SMT
  <2>5. Year(e) \in Int /\ Year(e) >= z /\ Year(e) <= z
    BY <2>4, YearOfDay, DayInMonth, SMT
  <2> QED BY <2>1, <2>2, <2>5, SMT
<1>5. Month(s) = 1
  <2>1. FromDate(y, 1, 1) \in Int /\ FromDate(y, 1, 1) + 28 <= NextMonth(y, 1) /\ NextMonth(y, 1) \in Int
    BY MonthLength, SMT
  <2> QED BY <2>1, MonthOfDay, SMT
<1>6. Year(s) = y
  <2>1. Year(s + 0) = y
    BY <1>3, SMT
  <2> QED BY <2>1, SMT
<1> QED BY <1>3, <1>4, <1>5, <1>6, SMT

\* The first day of a month, and the day before it.
LEMMA FirstOfMonth ==
    ASSUME NEW y \in Int, NEW m \in Int, m >= 1, m <= 12, NEW s \in Int, s = FromDate(y, m, 1)
    PROVE  /\ Year(s) = y /\ Month(s) = m
           /\ IF m = 1 THEN Year(s - 1) = y - 1 ELSE Year(s - 1) = y /\ Month(s - 1) = m - 1
<1>1. FromDate(y, m, 1) + 28 <= NextMonth(y, m) /\ NextMonth(y, m) \in Int
  BY MonthLength, SMT
<1>2. Year(s) = y /\ Month(s) = m
  BY <1>1, MonthOfDay, SMT
<1>3. CASE m = 1
  BY <1>2, <1>3, FirstOfYear, SMT
<1>4. CASE m > 1
  <2>1. PICK e \in Int : e = s - 1
    BY SMT
  <2>2. PICK k \in Int : k = m - 1
    BY SMT
  <2>3. NextMonth(y, k) = s /\ k >= 1 /\ k <= 11
    BY <1>4, <2>2, SMT DEF NextMonth
  <2>4. FromDate(y, k, 1) + 28 <= NextMonth(y, k) /\ FromDate(y, k, 1) \in Int
    BY <2>3, MonthLength, SMT
  <2>5. Year(e) = y /\ Month(e) = k
    BY <2>1, <2>3, <2>4, MonthOfDay, SMT
  <2> QED BY <1>2, <1>4, <2>1, <2>2, <2>5, SMT
<1> QED BY <1>3, <1>4, SMT

\* The year a day is in starts on or before the day.
LEMMA YearStarts ==
    ASSUME NEW d \in Int, NEW z \in Int, z <= Year(d)
    PROVE  FromDate(z, 1, 1) \in Int /\ FromDate(z, 1, 1) <= d
BY YearStartType, YearOfDay, DayInMonth, SMT

\* The week of a day starts with the Monday on or before it.
LEMMA MondayOfWeek ==
    ASSUME NEW d \in Int
    PROVE  /\ Monday(d) \in Int /\ Monday(d) <= d /\ d <= Monday(d) + 6
           /\ Monday(d) + 3 = 7 * ((d + 3) \div 7)
BY SMT DEF Monday

\* The Monday of a day is a Monday, and so is the one a week before it.
LEMMA MondayOfMonday ==
    ASSUME NEW k \in Int, NEW d \in Int, 7 * k - 3 <= d, d <= 7 * k + 3
    PROVE  Monday(d) = 7 * k - 3 /\ (d + 3) \div 7 = k
BY SMT DEF Monday

\* The ISO year of a day starts on the Monday of 4 January, on or before the
\* day, and its Thursday is among the first seven days of the year.
LEMMA ISOYearStarts ==
    ASSUME NEW d \in Int, NEW y \in Int, y = ISOYear(d), NEW s \in Int, s = Monday(FromDate(y, 1, 4))
    PROVE  /\ s <= Monday(d) /\ (Monday(d) - s) % 7 = 0
           /\ Year(s + 3) = y /\ Year(s - 4) = y - 1
           /\ s + 3 = 7 * ((s + 3) \div 7) /\ s - 4 = 7 * ((s - 1 + 3) \div 7)
<1> DEFINE t == Monday(d) + 3
           k == (d + 3) \div 7
<1>1. k \in Int /\ t = 7 * k /\ t \in Int
  BY MondayOfWeek, SMT
<1>2. Year(t) = y
  BY SMT DEF ISOYear
<1> HIDE DEF t, k
<1>3. PICK f \in Int : f = FromDate(y, 1, 1)
  BY YearStartType, SMT
<1>4. f <= t
  BY <1>1, <1>2, <1>3, YearStarts, SMT
<1>5. FromDate(y, 1, 4) = f + 3
  BY <1>3, FromDateDay, SMT
<1>6. PICK j \in Int : s + 3 = 7 * j /\ s <= f + 3 /\ f + 3 <= s + 6
  <2>1. PICK e \in Int : e = f + 3
    BY SMT
  <2>2. s = Monday(e)
    BY <1>5, <2>1, SMT
  <2>3. s + 3 = 7 * ((e + 3) \div 7) /\ s <= e /\ e <= s + 6 /\ (e + 3) \div 7 \in Int
    BY <2>2, MondayOfWeek, SMT
  <2> QED BY <2>1, <2>3, SMT
<1>7. j <= k
  BY <1>1, <1>4, <1>6, SMT
<1>8. s <= Monday(d) /\ Monday(d) - s = 7 * (k - j)
  <2>1. Monday(d) = t - 3
    BY MondayOfWeek, SMT DEF t
  <2> QED BY <1>1, <1>6, <1>7, <2>1, SMT
<1>9. (Monday(d) - s) % 7 = 0
  BY <1>1, <1>8, SMT
<1>10. Year(s + 3) = y
  <2>1. PICK i \in Int : i = s + 3 - f
    BY SMT
  <2>2. i >= 0 /\ i <= 364 /\ s + 3 = f + i
    BY <1>6, <2>1, SMT
  <2>3. Year(f + i) = y
    BY <1>3, <2>2, FirstOfYear, SMT
  <2> QED BY <2>2, <2>3, SMT
<1>11. Year(s - 4) = y - 1
  <2>1. PICK e \in Int : e = s - 4
    BY SMT
  <2>2. PICK z \in Int : z = y - 1
    BY SMT
  <2>3. z + 1 = y
    BY <2>2, SMT
  <2>4. FromDate(z, 1, 1) + 365 <= FromDate(z + 1, 1, 1) /\ FromDate(z, 1, 1) \in Int
    BY YearLength, YearStartType, SMT
  <2>5. FromDate(z, 1, 1) <= e /\ e < FromDate(z + 1, 1, 1)
    BY <1>3, <1>6, <2>1, <2>3, <2>4, SMT
  <2>6. Year(e) \in Int /\ Year(e) >= z /\ Year(e) <= z
    BY <2>5, YearOfDay, DayInMonth, SMT
  <2> QED BY <2>1, <2>2, <2>6, SMT
<1>12. s + 3 = 7 * ((s + 3) \div 7) /\ s - 4 = 7 * ((s - 1 + 3) \div 7)
  BY <1>6, SMT
<1> QED BY <1>8, <1>9, <1>10, <1>11, <1>12, SMT

\* Date::FromDate and Date::Convert are each other's inverses, for all days
\* before and after 1970.
THEOREM CalendarInverse ==
    /\ \A d \in Int : FromDate(Year(d), Month(d), Convert(d).day) = d
    /\ \A y \in Int, m \in 1..12, k \in Int :
         LET d == FromDate(y, m, k)
         IN k >= 1 /\ d < NextMonth(y, m) => Convert(d).day = k /\ Month(d) = m /\ Year(d) = y
<1>1. ASSUME NEW d \in Int PROVE FromDate(Year(d), Month(d), Convert(d).day) = d
  <2>1. PICK y \in Int, m \in Int : y = Year(d) /\ m = Month(d)
    BY DayInMonth, SMT
  <2>2. m >= 1 /\ m <= 12 /\ Convert(d).day = d - FromDate(y, m, 1) + 1
    BY <2>1, DayInMonth, SMT
  <2>3. PICK f \in Int : f = FromDate(y, m, 1)
    BY <2>2, MonthLength, SMT
  <2>4. PICK k \in Int : k = Convert(d).day /\ k = d - f + 1
    BY <2>2, <2>3, SMT
  <2>5. FromDate(y, m, k) = f + k - 1
    BY <2>2, <2>3, FromDateDay, SMT
  <2> QED BY <2>1, <2>4, <2>5, SMT
<1>2. ASSUME NEW y \in Int, NEW m \in 1..12, NEW k \in Int, NEW d, d = FromDate(y, m, k), k >= 1, d < NextMonth(y, m)
      PROVE  Convert(d).day = k /\ Month(d) = m /\ Year(d) = y
  <2>1. m \in Int /\ m >= 1 /\ m <= 12
    BY SMT
  <2>2. PICK f \in Int : f = FromDate(y, m, 1)
    BY <2>1, MonthLength, SMT
  <2>6. FromDate(y, m, k) = FromDate(y, m, 1) + k - 1
    BY <2>1, FromDateDay
  <2>7. d = f + k - 1 /\ k >= 1
    BY <1>2, <2>2, <2>6
  <2>3. d = f + k - 1 /\ d \in Int /\ f <= d
    BY <2>7, SMT
  <2>4. Year(d) = y /\ Month(d) = m
    BY <1>2, <2>1, <2>2, <2>3, MonthOfDay, SMT
  <2>5. Convert(d).day = d - f + 1
    BY <2>2, <2>3, <2>4, DayInMonth, SMT
  <2> QED BY <2>3, <2>4, <2>5, SMT
<1> QED BY <1>1, <1>2, SMT

-----------------------------------------------------------------------------
(* The units *)

\* SQLiteFloorDivide rounds towards minus infinity, with C's division that
\* rounds towards zero.
LEMMA FloorDivideIsFloor ==
    ASSUME NEW v \in Int, NEW u \in Nat \ {0}
    PROVE  FloorDivide(v, u) = v \div u
<1>1. CASE v >= 0
  BY <1>1 DEF FloorDivide, CDivide
<1>2. CASE v < 0
  <2> DEFINE q == (-(v + 1)) \div u
             r == (-(v + 1)) % u
  <2>1. q \in Int /\ r \in 0..(u - 1) /\ -(v + 1) = u * q + r
    BY <1>2
  <2>2. v = u * (-q - 1) + (u - 1 - r) /\ u - 1 - r \in 0..(u - 1)
    BY <2>1
  <2>3. v \div u = -q - 1
    <3> HIDE DEF q, r
    <3> QED BY <2>1, <2>2
  <2>4. FloorDivide(v, u) = CDivide(v + 1, u) - 1
    BY <1>2 DEF FloorDivide
  <2>5. CASE v + 1 < 0
    <3>1. CDivide(v + 1, u) = -q
      BY <2>5 DEF CDivide
    <3> HIDE DEF q, r
    <3> QED BY <2>1, <2>3, <2>4, <3>1
  <2>6. CASE v + 1 = 0
    <3>1. CDivide(v + 1, u) = 0 \div u /\ q = 0 \div u
      BY <2>6 DEF CDivide
    <3>2. 0 \div u = 0
      OBVIOUS
    <3> HIDE DEF q, r
    <3> QED BY <2>1, <2>3, <2>4, <3>1, <3>2
  <2> QED BY <1>2, <2>5, <2>6
<1> QED BY <1>1, <1>2

\* The quotient and the remainder of a division are unique.
LEMMA Quotient ==
    ASSUME NEW v \in Int, NEW u \in Nat \ {0}, NEW q \in Int, NEW r \in Int, r >= 0, r < u, v = u * q + r
    PROVE  v \div u = q /\ v % u = r
BY SMT

\* And they exist.
LEMMA Divides ==
    ASSUME NEW v \in Int, NEW u \in Nat \ {0}
    PROVE  v \div u \in Int /\ v % u \in Int /\ v % u >= 0 /\ v % u < u /\ v = u * (v \div u) + (v % u)
BY SMT

\* SQLiteTruncFixed rounds towards minus infinity.
LEMMA TruncFixedIsFloor ==
    ASSUME NEW v \in Int, NEW u \in Nat \ {0}
    PROVE  TruncFixed(v, u) = (v \div u) * u
<1>1. CASE v >= 0
  BY <1>1, SMT DEF TruncFixed, CDivide
<1>2. CASE v < 0
  <2> DEFINE q == (-v) \div u
             r == (-v) % u
  <2>1. q \in Int /\ r \in Int /\ r >= 0 /\ r < u /\ -v = u * q + r
    BY Divides, SMT
  <2>2. CDivide(v, u) = -q
    BY <1>2, SMT DEF CDivide
  <2> HIDE DEF q, r
  <2>3. v - (-q) * u = -r
    BY <2>1, SMT
  <2>4. TruncFixed(v, u) = (-q - (IF v - (-q) * u # 0 /\ v < 0 THEN 1 ELSE 0)) * u
    BY <2>2, SMT DEF TruncFixed
  <2>5. CASE r = 0
    <3>1. v = u * (-q) + 0
      BY <2>1, <2>5, SMT
    <3>2. v \div u = -q
      BY <2>1, <3>1, Quotient, SMT
    <3> QED BY <2>1, <2>3, <2>4, <2>5, <3>2, SMT
  <2>6. CASE r # 0
    <3>1. v = u * (-q - 1) + (u - r)
      BY <2>1, <2>6, SMT
    <3>2. v \div u = -q - 1
      BY <2>1, <2>6, <3>1, Quotient, SMT
    <3> QED BY <1>2, <2>1, <2>3, <2>4, <2>6, <3>2, SMT
  <2> QED BY <2>5, <2>6, SMT
<1> QED BY <1>1, <1>2, SMT

\* The first instant of a unit is in it, and the instant before is in the unit before.
LEMMA FirstInstant ==
    ASSUME NEW k \in Int, NEW u \in Nat \ {0}
    PROVE  k * u \in Int /\ (k * u) \div u = k /\ (k * u - 1) \div u = k - 1
<1>1. k * u \in Int /\ k * u = u * k + 0 /\ k * u - 1 = u * (k - 1) + (u - 1)
  BY SMT
<1>2. (k * u) \div u = k
  BY <1>1, Quotient, SMT
<1>3. (k * u - 1) \div u = k - 1
  BY <1>1, Quotient, SMT
<1> QED BY <1>1, <1>2, <1>3, SMT

\* The first instant of an earlier unit is earlier.
LEMMA EarlierInstant ==
    ASSUME NEW v \in Int, NEW u \in Nat \ {0}, NEW k \in Int, k <= v \div u
    PROVE  k * u <= v
<1> DEFINE q == v \div u
<1>1. q \in Int /\ q * u <= v
  BY Divides, SMT
<1>2. k <= q
  BY SMT
<1> HIDE DEF q
<1>3. q * u - k * u = (q - k) * u
  BY <1>1, SMT
<1>4. (q - k) * u >= 0
  BY <1>1, <1>2, SMT
<1> QED BY <1>1, <1>3, <1>4, SMT

\* What is counted in a smaller unit since a larger one started.
LEMMA Nested ==
    ASSUME NEW v \in Int, NEW u \in Nat \ {0}, NEW w \in Nat \ {0}, w % u = 0
    PROVE  (v % w) \div u = (v \div u) - (((v \div w) * w) \div u)
<1> DEFINE q == v \div w
           r == v % w
           n == w \div u
           a == r \div u
           b == r % u
<1>1. q \in Int /\ r \in Int /\ v = w * q + r /\ n \in Int /\ w = u * n
  <2>1. n \in Int /\ w = u * n + (w % u)
    BY Divides, SMT
  <2> QED BY <2>1, Divides, SMT
<1> HIDE DEF q, r, n
<1>2. a \in Int /\ b \in Int /\ b >= 0 /\ b < u /\ r = u * a + b
  BY <1>1, Divides, SMT
<1> HIDE DEF a, b
<1>3. n * q \in Int /\ n * q + a \in Int
  BY <1>1, <1>2, SMT
<1>4. q * w = u * (n * q) + 0
  BY <1>1, SMT
<1>5. v = u * (n * q + a) + b
  <2>1. w * q = u * (n * q)
    BY <1>1, SMT
  <2>2. u * (n * q + a) = u * (n * q) + u * a
    BY <1>1, <1>2, SMT
  <2> QED BY <1>1, <1>2, <1>3, <2>1, <2>2, SMT
<1>6. v \div u = n * q + a
  BY <1>2, <1>3, <1>5, Quotient, SMT
<1>7. (q * w) \div u = n * q
  BY <1>1, <1>3, <1>4, Quotient, SMT
<1>8. r \div u = a
  BY <1>1, SMT DEF a
<1>9. (v % w) \div u = r \div u /\ (v \div w) * w = q * w
  BY SMT DEF q, r
<1>10. (n * q + a) - (n * q) = a
  BY <1>2, <1>3, SMT
<1> QED BY <1>6, <1>7, <1>8, <1>9, <1>10, Zenon

\* A remainder by a smaller unit is that of the remainder by a larger one.
LEMMA NestedRemainder ==
    ASSUME NEW v \in Int, NEW u \in Nat \ {0}, NEW w \in Nat \ {0}, w % u = 0
    PROVE  (v % w) % u = v % u
<1> DEFINE q == v \div w
           r == v % w
           n == w \div u
           a == r \div u
           b == r % u
<1>1. q \in Int /\ r \in Int /\ v = w * q + r /\ n \in Int /\ w = u * n
  <2>1. n \in Int /\ w = u * n + (w % u)
    BY Divides, SMT
  <2> QED BY <2>1, Divides, SMT
<1>0. (v % w) % u = b
  BY SMT
<1> HIDE DEF q, r, n
<1>2. a \in Int /\ b \in Int /\ b >= 0 /\ b < u /\ r = u * a + b
  BY <1>1, Divides, SMT
<1> HIDE DEF a, b
<1>3. n * q \in Int /\ n * q + a \in Int
  BY <1>1, <1>2, SMT
<1>5. v = u * (n * q + a) + b
  <2>1. w * q = u * (n * q)
    BY <1>1, SMT
  <2>2. u * (n * q + a) = u * (n * q) + u * a
    BY <1>1, <1>2, SMT
  <2> QED BY <1>1, <1>2, <1>3, <2>1, <2>2, SMT
<1>6. v % u = b
  BY <1>2, <1>3, <1>5, Quotient, SMT
<1> QED BY <1>0, <1>6, SMT

-----------------------------------------------------------------------------
(* Where periods start *)

\* The parts of a day and longer.
DayParts == {"millennium", "century", "decade", "year", "quarter", "month", "week", "isoyear", "day"}

\* The day TruncateDate gives for such a part.
DayStart(part, d) ==
    CASE part = "millennium" -> FromDate(CDivide(Year(d), 1000) * 1000, 1, 1)
      [] part = "century" -> FromDate(CDivide(Year(d), 100) * 100, 1, 1)
      [] part = "decade" -> FromDate(CDivide(Year(d), 10) * 10, 1, 1)
      [] part = "year" -> FromDate(Year(d), 1, 1)
      [] part = "quarter" -> FromDate(Year(d), 1 + CDivide(Month(d) - 1, 3) * 3, 1)
      [] part = "month" -> FromDate(Year(d), Month(d), 1)
      [] part = "week" -> Monday(d)
      [] part = "isoyear" -> Monday(d) - (ISOWeek(Monday(d)) - 1) * 7
      [] part = "day" -> d

\* The number of the period a day is in.
DayPeriod(part, d) ==
    CASE part = "millennium" -> Year(d) \div 1000
      [] part = "century" -> Year(d) \div 100
      [] part = "decade" -> Year(d) \div 10
      [] part = "year" -> Year(d)
      [] part = "quarter" -> Year(d) * 4 + ((Month(d) - 1) \div 3)
      [] part = "month" -> Year(d) * 12 + Month(d)
      [] part = "week" -> (d + 3) \div 7
      [] part = "isoyear" -> Year(7 * ((d + 3) \div 7))
      [] part = "day" -> d

\* These are what date_trunc computes and what its result is about.
LEMMA DayTrunc ==
    ASSUME NEW part \in DayParts, NEW ts
    PROVE  DateTrunc(part, ts) = DayStart(part, GetDate(ts)) * DAY /\ Period(part, ts) = DayPeriod(part, ts \div DAY)
<1>1. part \notin {"hour", "minute", "second", "millisecond", "microsecond"}
  BY SMT DEF DayParts
<1>2. DateTrunc(part, ts) = DayStart(part, GetDate(ts)) * DAY
  BY <1>1, SMT DEF DateTrunc, DayStart, DayParts
<1>3. Period(part, ts) = DayPeriod(part, ts \div DAY)
  BY <1>1, SMT DEF Period, DayPeriod, DayParts
<1> QED BY <1>2, <1>3, SMT

\* The bounds of a period of n years.
LEMMA YearsBounds ==
    ASSUME NEW d \in Int, NEW z \in Int, NEW n \in Nat \ {0}, z = (Year(d) \div n) * n, NEW s, s = FromDate(z, 1, 1)
    PROVE  s \in Int /\ s <= d /\ Year(s) \div n = Year(d) \div n /\ Year(s - 1) \div n # Year(s) \div n
<1>1. Year(d) \in Int
  BY DayInMonth, SMT
<1>2. PICK k \in Int : k = Year(d) \div n
  BY <1>1, Divides, SMT
<1>3. z = k * n
  BY <1>2, SMT
<1>4. z <= Year(d)
  BY <1>1, <1>2, <1>3, EarlierInstant, SMT
<1>5. s \in Int /\ s <= d
  BY <1>4, YearStarts, SMT
<1>6. Year(s) = z /\ Year(s - 1) = z - 1
  BY <1>5, FirstOfYear, SMT
<1>7. (k * n) \div n = k /\ (k * n - 1) \div n = k - 1
  BY FirstInstant, Zenon
<1>8. Year(s) \div n = k /\ Year(s - 1) \div n = k - 1
  BY <1>3, <1>6, <1>7, Zenon
<1> QED BY <1>2, <1>5, <1>8, SMT

\* The start of a quarter.
LEMMA QuarterBounds ==
    ASSUME NEW d \in Int, NEW s, s = FromDate(Year(d), 1 + CDivide(Month(d) - 1, 3) * 3, 1)
    PROVE  /\ s \in Int /\ s <= d
           /\ Year(s) * 4 + ((Month(s) - 1) \div 3) = Year(d) * 4 + ((Month(d) - 1) \div 3)
           /\ Year(s - 1) * 4 + ((Month(s - 1) - 1) \div 3) # Year(s) * 4 + ((Month(s) - 1) \div 3)
<1>1. PICK y \in Int, m \in Int : y = Year(d) /\ m = Month(d)
  BY DayInMonth, SMT
<1>2. m >= 1 /\ m <= 12 /\ FromDate(y, m, 1) <= d
  BY <1>1, DayInMonth, SMT
<1>3. PICK q \in Int : q = (m - 1) \div 3 /\ q >= 0 /\ q <= 3 /\ 3 * q <= m - 1
  BY <1>2, SMT
<1>4. PICK k \in Int : k = 1 + 3 * q
  BY SMT
<1>5. s = FromDate(y, k, 1)
  <2>1. CDivide(m - 1, 3) = q
    BY <1>2, <1>3, SMT DEF CDivide
  <2>2. 1 + CDivide(m - 1, 3) * 3 = k
    BY <1>4, <2>1, SMT
  <2> QED BY <1>1, <2>2, SMT
<1>6. k >= 1 /\ k <= 12 /\ k <= m
  BY <1>2, <1>3, <1>4, SMT
<1>0. (k - 1) \div 3 = q
  BY <1>3, <1>4, SMT
<1>7. s \in Int /\ FromDate(y, m, 1) \in Int
  BY <1>2, <1>5, <1>6, MonthLength, SMT
<1>8. s <= d
  <2>1. CASE k = m
    BY <1>2, <1>5, <2>1, SMT
  <2>2. CASE k < m
    <3>1. NextMonth(y, k) <= FromDate(y, m, 1)
      BY <1>2, <1>6, <2>2, MonthsFollow, SMT
    <3>2. FromDate(y, k, 1) + 28 <= NextMonth(y, k) /\ NextMonth(y, k) \in Int
      BY <1>6, MonthLength, Zenon
    <3> QED BY <1>2, <1>5, <1>7, <3>1, <3>2, SMT
  <2> QED BY <1>6, <2>1, <2>2, SMT
<1>9. /\ Year(s) = y /\ Month(s) = k
      /\ IF k = 1 THEN Year(s - 1) = y - 1 ELSE Year(s - 1) = y /\ Month(s - 1) = k - 1
  BY <1>5, <1>6, <1>7, FirstOfMonth, SMT
<1>10. Year(s) * 4 + ((Month(s) - 1) \div 3) = y * 4 + q /\ Year(d) * 4 + ((Month(d) - 1) \div 3) = y * 4 + q
  BY <1>0, <1>1, <1>3, <1>9, Zenon
<1>11. Year(s - 1) * 4 + ((Month(s - 1) - 1) \div 3) < y * 4 + q
  <2>1. PICK e \in Int : e = s - 1
    BY <1>7, SMT
  <2>2. Month(e) \in 1..12
    BY DayInMonth, SMT
  <2>3. CASE k = 1
    <3>1. Year(e) = y - 1 /\ q = 0
      BY <1>4, <1>9, <2>1, <2>3, SMT
    <3>2. (Month(e) - 1) \div 3 <= 3 /\ (Month(e) - 1) \div 3 \in Int
      BY <2>2, SMT
    <3>3. Year(e) * 4 + ((Month(e) - 1) \div 3) < y * 4 + q
      BY <3>1, <3>2, SMT
    <3> QED BY <2>1, <3>3, SMT
  <2>4. CASE k # 1
    <3>1. Year(e) = y /\ Month(e) = k - 1
      BY <1>9, <2>1, <2>4, SMT
    <3>2. (k - 1 - 1) \div 3 = q - 1
      BY <1>4, <1>3, SMT
    <3>3. Year(e) * 4 + ((Month(e) - 1) \div 3) < y * 4 + q
      BY <3>1, <3>2, SMT
    <3> QED BY <2>1, <3>3, SMT
  <2> QED BY <2>3, <2>4, SMT
<1>12. Year(s - 1) * 4 + ((Month(s - 1) - 1) \div 3) # Year(s) * 4 + ((Month(s) - 1) \div 3)
  BY <1>3, <1>10, <1>11, SMT
<1> QED BY <1>7, <1>8, <1>10, <1>12, SMT

\* The start of a month.
LEMMA MonthBounds ==
    ASSUME NEW d \in Int, NEW s, s = FromDate(Year(d), Month(d), 1)
    PROVE  /\ s \in Int /\ s <= d
           /\ Year(s) * 12 + Month(s) = Year(d) * 12 + Month(d)
           /\ Year(s - 1) * 12 + Month(s - 1) # Year(s) * 12 + Month(s)
<1>1. PICK y \in Int, m \in Int : y = Year(d) /\ m = Month(d)
  BY DayInMonth, SMT
<1>2. m >= 1 /\ m <= 12 /\ s <= d /\ s = FromDate(y, m, 1)
  BY <1>1, DayInMonth, SMT
<1>3. s \in Int
  BY <1>2, MonthLength, SMT
<1>4. /\ Year(s) = y /\ Month(s) = m
      /\ IF m = 1 THEN Year(s - 1) = y - 1 ELSE Year(s - 1) = y /\ Month(s - 1) = m - 1
  BY <1>2, <1>3, FirstOfMonth, SMT
<1>5. PICK e \in Int : e = s - 1
  BY <1>3, SMT
<1>6. Month(e) \in 1..12
  BY DayInMonth, SMT
<1>7. Year(e) * 12 + Month(e) # y * 12 + m
  BY <1>4, <1>5, <1>6, SMT
<1> QED BY <1>1, <1>2, <1>3, <1>4, <1>5, <1>7, SMT

\* The start of a week.
LEMMA WeekBounds ==
    ASSUME NEW d \in Int, NEW s, s = Monday(d)
    PROVE  s \in Int /\ s <= d /\ (s + 3) \div 7 = (d + 3) \div 7 /\ (s - 1 + 3) \div 7 # (s + 3) \div 7
<1>1. PICK k \in Int : k = (d + 3) \div 7
  BY SMT
<1>2. s \in Int /\ s <= d /\ s + 3 = 7 * k
  BY <1>1, MondayOfWeek, SMT
<1> QED BY <1>1, <1>2, SMT

\* date_trunc goes back to the Monday of 4 January of the ISO year.
LEMMA ISOYearStart ==
    ASSUME NEW d \in Int
    PROVE  /\ ISOYear(d) \in Int /\ Monday(FromDate(ISOYear(d), 1, 4)) \in Int
           /\ Monday(d) - (ISOWeek(Monday(d)) - 1) * 7 = Monday(FromDate(ISOYear(d), 1, 4))
           /\ ISOWeek(d) = ((Monday(d) - Monday(FromDate(ISOYear(d), 1, 4))) \div 7) + 1
<1>1. PICK p \in Int : p = Monday(d)
  BY MondayOfWeek, SMT
<1>2. Monday(p) = p
  <2>1. PICK k \in Int : p + 3 = 7 * k
    BY <1>1, MondayOfWeek, SMT
  <2> QED BY <2>1, MondayOfMonday, SMT
<1>3. ISOYear(p) = ISOYear(d)
  BY <1>1, <1>2, SMT DEF ISOYear
<1>4. PICK y \in Int : y = ISOYear(d)
  <2>1. PICK t \in Int : t = p + 3
    BY SMT
  <2>2. Year(t) \in Int
    BY DayInMonth, SMT
  <2> QED BY <1>1, <2>1, <2>2, SMT DEF ISOYear
<1>5. PICK s \in Int : s = Monday(FromDate(y, 1, 4))
  <2>1. FromDate(y, 1, 4) \in Int
    BY FromDateDay, YearStartType, SMT
  <2> QED BY <2>1, MondayOfWeek, SMT
<1>6. (p - s) % 7 = 0
  BY <1>1, <1>4, <1>5, ISOYearStarts, SMT
<1>7. ISOWeek(p) = ((p - s) \div 7) + 1 /\ ISOWeek(d) = ((p - s) \div 7) + 1
  BY <1>1, <1>2, <1>3, <1>4, <1>5, SMT DEF ISOWeek
<1>8. p - (((p - s) \div 7) + 1 - 1) * 7 = s
  BY <1>6, SMT
<1> QED BY <1>1, <1>4, <1>5, <1>7, <1>8, SMT

\* The start of an ISO year.
LEMMA ISOYearBounds ==
    ASSUME NEW d \in Int, NEW s, s = Monday(d) - (ISOWeek(Monday(d)) - 1) * 7
    PROVE  /\ s \in Int /\ s <= d
           /\ Year(7 * ((s + 3) \div 7)) = Year(7 * ((d + 3) \div 7))
           /\ Year(7 * ((s - 1 + 3) \div 7)) # Year(7 * ((s + 3) \div 7))
<1>1. PICK y \in Int : y = ISOYear(d)
  BY ISOYearStart, SMT
<1>2. s \in Int /\ s = Monday(FromDate(y, 1, 4))
  BY <1>1, ISOYearStart, SMT
<1>3. /\ s <= Monday(d) /\ Year(s + 3) = y /\ Year(s - 4) = y - 1
      /\ s + 3 = 7 * ((s + 3) \div 7) /\ s - 4 = 7 * ((s - 1 + 3) \div 7)
  BY <1>1, <1>2, ISOYearStarts, SMT
<1>4. Monday(d) \in Int /\ Monday(d) <= d /\ Monday(d) + 3 = 7 * ((d + 3) \div 7)
  BY MondayOfWeek, SMT
<1>5. Year(7 * ((d + 3) \div 7)) = y
  BY <1>1, <1>4, SMT DEF ISOYear
<1>6. Year(7 * ((s + 3) \div 7)) = y
  BY <1>3, Zenon
<1>7. Year(7 * ((s - 1 + 3) \div 7)) = y - 1
  BY <1>3, Zenon
<1>8. y - 1 # y
  BY SMT
<1>9. s <= d
  BY <1>2, <1>3, <1>4, SMT
<1> QED BY <1>2, <1>5, <1>6, <1>7, <1>8, <1>9, Zenon

\* A day's period starts with the day TruncateDate gives, whatever the part.
LEMMA DayBounds ==
    ASSUME NEW part \in DayParts, NEW d \in Int, Year(d) >= 1, NEW s, s = DayStart(part, d)
    PROVE  s \in Int /\ s <= d /\ DayPeriod(part, s) = DayPeriod(part, d) /\ DayPeriod(part, s - 1) # DayPeriod(part, s)
<1>1. Year(d) \in Int
  BY DayInMonth, SMT
<1>2. ASSUME NEW n \in Nat \ {0}, s = FromDate(CDivide(Year(d), n) * n, 1, 1), \A e : DayPeriod(part, e) = Year(e) \div n
      PROVE  s \in Int /\ s <= d /\ DayPeriod(part, s) = DayPeriod(part, d) /\ DayPeriod(part, s - 1) # DayPeriod(part, s)
  <2>1. CDivide(Year(d), n) = Year(d) \div n
    BY <1>1, SMT DEF CDivide
  <2>2. PICK k \in Int : k = Year(d) \div n
    BY <1>1, Divides, SMT
  <2>3. PICK z \in Int : z = k * n
    BY SMT
  <2>4. s = FromDate(z, 1, 1) /\ z = (Year(d) \div n) * n
    BY <1>2, <2>1, <2>2, <2>3, Zenon
  <2>5. s \in Int /\ s <= d /\ Year(s) \div n = Year(d) \div n /\ Year(s - 1) \div n # Year(s) \div n
    BY <2>4, YearsBounds, SMT
  <2> QED BY <1>2, <2>5, Zenon
<1>3. CASE part = "millennium"
  <2>1. \A e : DayPeriod(part, e) = Year(e) \div 1000
    BY <1>3, SMT DEF DayPeriod
  <2>2. s = FromDate(CDivide(Year(d), 1000) * 1000, 1, 1)
    BY <1>3, SMT DEF DayStart
  <2> QED BY <1>2, <2>1, <2>2, SMT
<1>4. CASE part = "century"
  <2>1. \A e : DayPeriod(part, e) = Year(e) \div 100
    BY <1>4, SMT DEF DayPeriod
  <2>2. s = FromDate(CDivide(Year(d), 100) * 100, 1, 1)
    BY <1>4, SMT DEF DayStart
  <2> QED BY <1>2, <2>1, <2>2, SMT
<1>5. CASE part = "decade"
  <2>1. \A e : DayPeriod(part, e) = Year(e) \div 10
    BY <1>5, SMT DEF DayPeriod
  <2>2. s = FromDate(CDivide(Year(d), 10) * 10, 1, 1)
    BY <1>5, SMT DEF DayStart
  <2> QED BY <1>2, <2>1, <2>2, SMT
<1>6. CASE part = "year"
  <2>1. DayPeriod(part, s) = Year(s) /\ DayPeriod(part, d) = Year(d) /\ DayPeriod(part, s - 1) = Year(s - 1)
    BY <1>6, SMT DEF DayPeriod
  <2>2. s = FromDate(Year(d), 1, 1)
    BY <1>6, SMT DEF DayStart
  <2>3. s \in Int /\ s <= d
    BY <1>1, <2>2, YearStarts, SMT
  <2>4. Year(s) = Year(d) /\ Year(s - 1) = Year(d) - 1
    BY <1>1, <2>2, <2>3, FirstOfYear, SMT
  <2> QED BY <1>1, <2>1, <2>3, <2>4, SMT
<1>7. CASE part = "quarter"
  <2>1. /\ DayPeriod(part, s) = Year(s) * 4 + ((Month(s) - 1) \div 3) /\ DayPeriod(part, d) = Year(d) * 4 + ((Month(d) - 1) \div 3)
        /\ DayPeriod(part, s - 1) = Year(s - 1) * 4 + ((Month(s - 1) - 1) \div 3)
    BY <1>7, SMT DEF DayPeriod
  <2>2. s = FromDate(Year(d), 1 + CDivide(Month(d) - 1, 3) * 3, 1)
    BY <1>7, SMT DEF DayStart
  <2>3. /\ s \in Int /\ s <= d
        /\ Year(s) * 4 + ((Month(s) - 1) \div 3) = Year(d) * 4 + ((Month(d) - 1) \div 3)
        /\ Year(s - 1) * 4 + ((Month(s - 1) - 1) \div 3) # Year(s) * 4 + ((Month(s) - 1) \div 3)
    BY <2>2, QuarterBounds, SMT
  <2> QED BY <2>1, <2>3, Zenon
<1>8. CASE part = "month"
  <2>1. /\ DayPeriod(part, s) = Year(s) * 12 + Month(s) /\ DayPeriod(part, d) = Year(d) * 12 + Month(d)
        /\ DayPeriod(part, s - 1) = Year(s - 1) * 12 + Month(s - 1)
    BY <1>8, SMT DEF DayPeriod
  <2>2. s = FromDate(Year(d), Month(d), 1)
    BY <1>8, SMT DEF DayStart
  <2> QED BY <2>1, <2>2, MonthBounds, SMT
<1>9. CASE part = "week"
  <2>1. DayPeriod(part, s) = (s + 3) \div 7 /\ DayPeriod(part, d) = (d + 3) \div 7 /\ DayPeriod(part, s - 1) = (s - 1 + 3) \div 7
    BY <1>9, SMT DEF DayPeriod
  <2>2. s = Monday(d)
    BY <1>9, SMT DEF DayStart
  <2> QED BY <2>1, <2>2, WeekBounds, Zenon
<1>10. CASE part = "isoyear"
  <2>1. /\ DayPeriod(part, s) = Year(7 * ((s + 3) \div 7)) /\ DayPeriod(part, d) = Year(7 * ((d + 3) \div 7))
        /\ DayPeriod(part, s - 1) = Year(7 * ((s - 1 + 3) \div 7))
    BY <1>10, SMT DEF DayPeriod
  <2>2. s = Monday(d) - (ISOWeek(Monday(d)) - 1) * 7
    BY <1>10, SMT DEF DayStart
  <2> QED BY <2>1, <2>2, ISOYearBounds, Zenon
<1>11. CASE part = "day"
  BY <1>11, SMT DEF DayPeriod, DayStart
<1> QED BY <1>3, <1>4, <1>5, <1>6, <1>7, <1>8, <1>9, <1>10, <1>11, SMT DEF DayParts

\* A unit of the time of a day starts with the instant SQLiteTruncFixed gives.
LEMMA UnitBounds ==
    ASSUME NEW v \in Int, NEW u \in Nat \ {0}
    PROVE  /\ TruncFixed(v, u) \in Int /\ TruncFixed(v, u) <= v /\ TruncFixed(v, u) \div u = v \div u
           /\ (TruncFixed(v, u) - 1) \div u # TruncFixed(v, u) \div u
<1>1. PICK k \in Int : k = v \div u
  BY Divides, SMT
<1>2. TruncFixed(v, u) = k * u
  BY <1>1, TruncFixedIsFloor, Zenon
<1>3. k * u \in Int /\ (k * u) \div u = k /\ (k * u - 1) \div u = k - 1
  BY FirstInstant, Zenon
<1>4. k * u <= v
  BY <1>1, EarlierInstant, SMT
<1>5. k - 1 # k
  BY SMT
<1> QED BY <1>1, <1>2, <1>3, <1>4, <1>5, Zenon

\* date_trunc gives the first instant of the period of its argument.
LEMMA TruncBounds ==
    ASSUME NEW part \in TruncParts, NEW ts \in Int, Year(GetDate(ts)) >= 1, NEW s, s = DateTrunc(part, ts)
    PROVE  s \in Int /\ s <= ts /\ Period(part, s) = Period(part, ts) /\ Period(part, s - 1) # Period(part, s)
<1>1. {MSEC, SEC, MINUTE, HOUR, DAY} \subseteq Nat \ {0}
  BY UnitsAssumption, SMT
<1>2. CASE part \in DayParts
  <2>1. PICK d \in Int : d = ts \div DAY
    BY <1>1, Divides, SMT
  <2>2. GetDate(ts) = d
    BY <2>1, SMT DEF GetDate
  <2>3. PICK t : t = DayStart(part, d)
    BY Zenon
  <2>4. t \in Int /\ t <= d /\ DayPeriod(part, t) = DayPeriod(part, d) /\ DayPeriod(part, t - 1) # DayPeriod(part, t)
    <3>1. Year(d) >= 1
      BY <2>2, Zenon
    <3> QED BY <1>2, <2>3, <3>1, DayBounds, SMT
  <2>5. s = t * DAY
    BY <1>2, <2>2, <2>3, DayTrunc, Zenon
  <2>6. t * DAY \in Int /\ (t * DAY) \div DAY = t /\ (t * DAY - 1) \div DAY = t - 1
    BY <1>1, <2>4, FirstInstant, Zenon
  <2>7. t * DAY <= ts
    BY <1>1, <2>1, <2>4, EarlierInstant, SMT
  <2>8. Period(part, ts) = DayPeriod(part, d) /\ Period(part, s) = DayPeriod(part, t) /\ Period(part, s - 1) = DayPeriod(part, t - 1)
    BY <1>2, <2>1, <2>5, <2>6, DayTrunc, Zenon
  <2> QED BY <2>4, <2>5, <2>6, <2>7, <2>8, Zenon
<1>0. ASSUME NEW u \in Nat \ {0}, s = TruncFixed(ts, u), \A v : Period(part, v) = v \div u
      PROVE  s \in Int /\ s <= ts /\ Period(part, s) = Period(part, ts) /\ Period(part, s - 1) # Period(part, s)
  <2>1. /\ TruncFixed(ts, u) \in Int /\ TruncFixed(ts, u) <= ts /\ TruncFixed(ts, u) \div u = ts \div u
        /\ (TruncFixed(ts, u) - 1) \div u # TruncFixed(ts, u) \div u
    BY UnitBounds, Zenon
  <2>2. s \in Int /\ s <= ts /\ s \div u = ts \div u /\ (s - 1) \div u # s \div u
    BY <1>0, <2>1, Zenon
  <2> QED BY <1>0, <2>2, Zenon
<1>3. CASE part = "hour"
  <2>1. s = TruncFixed(ts, HOUR)
    BY <1>3, SMT DEF DateTrunc
  <2>2. \A v : Period(part, v) = v \div HOUR
    BY <1>3, SMT DEF Period
  <2> QED BY <1>0, <1>1, <2>1, <2>2, SMT
<1>4. CASE part = "minute"
  <2>1. s = TruncFixed(ts, MINUTE)
    BY <1>4, SMT DEF DateTrunc
  <2>2. \A v : Period(part, v) = v \div MINUTE
    BY <1>4, SMT DEF Period
  <2> QED BY <1>0, <1>1, <2>1, <2>2, SMT
<1>5. CASE part = "second"
  <2>1. s = TruncFixed(ts, SEC)
    BY <1>5, SMT DEF DateTrunc
  <2>2. \A v : Period(part, v) = v \div SEC
    BY <1>5, SMT DEF Period
  <2> QED BY <1>0, <1>1, <2>1, <2>2, SMT
<1>6. CASE part = "millisecond"
  <2>1. s = TruncFixed(ts, MSEC)
    BY <1>6, SMT DEF DateTrunc
  <2>2. \A v : Period(part, v) = v \div MSEC
    BY <1>6, SMT DEF Period
  <2> QED BY <1>0, <1>1, <2>1, <2>2, SMT
<1>7. CASE part = "microsecond"
  BY <1>7, SMT DEF DateTrunc, Period
<1> QED BY <1>2, <1>3, <1>4, <1>5, <1>6, <1>7, SMT DEF TruncParts, DayParts

\* The last day of the month of a timestamp, that of December included.
LEMMA LastDayBounds ==
    ASSUME NEW ts \in Int, Representable(GetDate(ts)), NEW l, l = LastDay(ts)
    PROVE  /\ l \in Int /\ Representable(l)
           /\ Period("month", l * DAY) = Period("month", ts)
           /\ Period("month", (l + 1) * DAY) # Period("month", l * DAY)
<1>1. DAY \in Nat \ {0}
  BY UnitsAssumption, SMT
<1>2. PICK d \in Int : d = ts \div DAY
  BY <1>1, Divides, SMT
<1>3. GetDate(ts) = d
  BY <1>2, SMT DEF GetDate
<1>4. PICK y \in Int, m \in Int : y = Year(d) /\ m = Month(d)
  BY DayInMonth, SMT
<1>5. m >= 1 /\ m <= 12
  BY <1>4, DayInMonth, SMT
<1>6. PICK n \in Int : n = NextMonth(y, m)
  BY <1>5, MonthLength, SMT
<1>7. l = n - 1
  <2>1. l = IF m = 12 THEN FromDate(y, 12, 31) ELSE FromDate(y, m + 1, 1) - 1
    BY <1>3, <1>4, SMT DEF LastDay, Year, Month
  <2>2. CASE m = 12
    <3>1. FromDate(y, 12, 31) = FromDate(y, 12, 1) + 31 - 1
      BY FromDateDay, SMT
    <3>2. FromDate(y, 12, 1) + 31 = FromDate(y + 1, 1, 1)
      BY FirstDays, SMT DEF MonthTable
    <3>3. FromDate(y, 12, 1) \in Int
      BY MonthLength, SMT
    <3> QED BY <1>6, <2>1, <2>2, <3>1, <3>2, <3>3, SMT DEF NextMonth
  <2>3. CASE m # 12
    BY <1>6, <2>1, <2>3, SMT DEF NextMonth
  <2> QED BY <2>2, <2>3, SMT
<1>8. l \in Int /\ FromDate(y, m, 1) <= l /\ l < n
  <2>1. FromDate(y, m, 1) \in Int /\ FromDate(y, m, 1) + 28 <= NextMonth(y, m)
    BY <1>5, MonthLength, Zenon
  <2> QED BY <1>6, <1>7, <2>1, SMT
<1>9. Year(l) = y /\ Month(l) = m
  BY <1>5, <1>6, <1>8, MonthOfDay, SMT
<1>10. Year(n) * 12 + Month(n) # y * 12 + m
  <2>1. CASE m = 12
    <3>1. PICK z \in Int : z = y + 1
      BY SMT
    <3>2. n = FromDate(z, 1, 1)
      BY <1>6, <2>1, <3>1, SMT DEF NextMonth
    <3>3. Year(n) = z /\ Month(n) = 1
      BY <3>2, FirstOfYear, SMT
    <3> QED BY <2>1, <3>1, <3>3, SMT
  <2>2. CASE m # 12
    <3>1. PICK k \in Int : k = m + 1
      BY SMT
    <3>2. n = FromDate(y, k, 1) /\ k >= 1 /\ k <= 12
      BY <1>5, <1>6, <2>2, <3>1, SMT DEF NextMonth
    <3>3. Year(n) = y /\ Month(n) = k
      BY <3>2, FirstOfMonth, SMT
    <3> QED BY <3>1, <3>3, SMT
  <2> QED BY <2>1, <2>2, SMT
<1>11. (l * DAY) \div DAY = l /\ ((l + 1) * DAY) \div DAY = l + 1
  <2>1. l + 1 \in Int
    BY <1>8, SMT
  <2> QED BY <1>1, <1>8, <2>1, FirstInstant, Zenon
<1>12. l + 1 = n
  BY <1>7, SMT
<1>13. \A v : Period("month", v) = Year(v \div DAY) * 12 + Month(v \div DAY)
  BY SMT DEF Period
<1>14. Period("month", l * DAY) = y * 12 + m /\ Period("month", ts) = y * 12 + m
  BY <1>2, <1>4, <1>9, <1>11, <1>13, Zenon
<1>15. Period("month", (l + 1) * DAY) = Year(n) * 12 + Month(n)
  BY <1>11, <1>12, <1>13, Zenon
<1>16. Representable(l)
  BY <1>3, <1>4, <1>9, SMT DEF Representable
<1> QED BY <1>8, <1>10, <1>14, <1>15, <1>16, Zenon

-----------------------------------------------------------------------------
(* What the functions count *)

\* The quarter of a month that is counted from the year 0.
LEMMA QuarterOfMonths ==
    ASSUME NEW y \in Int, y >= 1, NEW k \in 1..12
    PROVE  CDivide(y * 12 + k - 1, 3) = y * 4 + ((k - 1) \div 3)
<1>1. CDivide(y * 12 + k - 1, 3) = (y * 12 + k - 1) \div 3
  BY DEF CDivide
<1> QED BY <1>1

\* The units of the time of a day nest.
LEMMA UnitsNest ==
    /\ MSEC \in Nat \ {0} /\ SEC \in Nat \ {0} /\ MINUTE \in Nat \ {0} /\ HOUR \in Nat \ {0} /\ DAY \in Nat \ {0}
    /\ MINUTE % SEC = 0 /\ MINUTE % MSEC = 0 /\ HOUR % MINUTE = 0 /\ DAY % HOUR = 0 /\ DAY % MINUTE = 0
<1>1. {MSEC, SEC, MINUTE, HOUR, DAY} \subseteq Nat \ {0}
  BY UnitsAssumption, SMT
<1>2. MSEC \in Nat \ {0} /\ SEC \in Nat \ {0} /\ MINUTE \in Nat \ {0} /\ HOUR \in Nat \ {0} /\ DAY \in Nat \ {0}
  BY <1>1, SMT
<1>3. SEC % MSEC = 0 /\ MINUTE % SEC = 0 /\ HOUR % MINUTE = 0 /\ DAY % HOUR = 0
  BY UnitsAssumption, SMT
<1>4. ASSUME NEW u \in Nat \ {0}, NEW w \in Nat \ {0}, NEW x \in Nat \ {0}, w % u = 0, x % w = 0
      PROVE  x % u = 0
  <2>1. (x % w) % u = x % u
    <3>1. x \in Int
      BY SMT
    <3> QED BY <1>4, <3>1, NestedRemainder, Zenon
  <2>2. 0 % u = 0
    BY SMT
  <2> QED BY <1>4, <2>1, <2>2, Zenon
<1>5. MINUTE % MSEC = 0
  BY <1>2, <1>3, <1>4, Zenon
<1>6. DAY % MINUTE = 0
  BY <1>2, <1>3, <1>4, Zenon
<1> QED BY <1>2, <1>3, <1>5, <1>6, Zenon

\* A part of the time of a day is counted from the start of the unit around it.
LEMMA UnitCounts ==
    ASSUME NEW ts \in Int, NEW u \in Nat \ {0}, NEW w \in Nat \ {0}, w % u = 0, DAY % w = 0
    PROVE  (GetTime(ts) % w) \div u = FloorDivide(ts, u) - FloorDivide(TruncFixed(ts, w), u)
<1>1. PICK q \in Int : q = ts \div w
  BY Divides, SMT
<1>2. TruncFixed(ts, w) = q * w /\ q * w \in Int
  <2>1. TruncFixed(ts, w) = q * w
    BY <1>1, TruncFixedIsFloor, Zenon
  <2>2. q * w \in Int
    BY SMT
  <2> QED BY <2>1, <2>2, Zenon
<1>3. FloorDivide(ts, u) = ts \div u /\ FloorDivide(q * w, u) = (q * w) \div u
  BY <1>2, FloorDivideIsFloor, Zenon
<1>4. GetTime(ts) % w = ts % w
  BY NestedRemainder, UnitsNest, Zenon DEF GetTime
<1>5. (ts % w) \div u = (ts \div u) - (((ts \div w) * w) \div u)
  BY Nested, Zenon
<1> QED BY <1>1, <1>2, <1>3, <1>4, <1>5, Zenon

\* date_part of the parts that are counted from the start of a day, a month or
\* a year.
LEMMA DayCounts ==
    ASSUME NEW d \in Int, Year(d) >= 1
    PROVE  /\ Month(d) = 1 + (Months(d) - Months(DayStart("year", d)))
           /\ CDivide(Month(d) - 1, 3) + 1 = 1 + (CDivide(Months(d), 3) - CDivide(Months(DayStart("year", d)), 3))
           /\ Convert(d).day = 1 + (d - DayStart("month", d))
           /\ d - FromDate(Year(d), 1, 1) + 1 = 1 + (d - DayStart("year", d))
           /\ ISODayOfWeek(d) = 1 + (d - DayStart("week", d))
           /\ ISOWeek(d) = 1 + CDivide(d - DayStart("isoyear", d), 7)
<1>1. PICK y \in Int, m \in Int : y = Year(d) /\ m = Month(d)
  BY DayInMonth, SMT
<1>2. m >= 1 /\ m <= 12 /\ y >= 1
  BY <1>1, DayInMonth, SMT
<1>3. PICK s \in Int : s = FromDate(y, 1, 1)
  BY YearStartType, SMT
<1>4. DayStart("year", d) = s
  BY <1>1, <1>3, SMT DEF DayStart
<1>5. Year(s) = y /\ Month(s) = 1
  BY <1>3, FirstOfYear, SMT
<1>6. Months(d) = y * 12 + m - 1 /\ Months(s) = y * 12 + 1 - 1
  BY <1>1, <1>5, Zenon DEF Months
<1>7. Month(d) = 1 + (Months(d) - Months(DayStart("year", d)))
  BY <1>1, <1>4, <1>6, SMT
<1>8. CDivide(Month(d) - 1, 3) + 1 = 1 + (CDivide(Months(d), 3) - CDivide(Months(DayStart("year", d)), 3))
  <2>1. m \in 1..12 /\ 1 \in 1..12
    BY <1>2, SMT
  <2>2. CDivide(y * 12 + m - 1, 3) = y * 4 + ((m - 1) \div 3) /\ CDivide(y * 12 + 1 - 1, 3) = y * 4 + ((1 - 1) \div 3)
    BY <1>2, <2>1, QuarterOfMonths, Zenon
  <2>3. CDivide(m - 1, 3) = (m - 1) \div 3 /\ (m - 1) \div 3 \in Int
    BY <1>2, SMT DEF CDivide
  <2>4. PICK q \in Int : q = (m - 1) \div 3
    BY <2>3, SMT
  <2>5. (1 - 1) \div 3 = 0
    BY SMT
  <2>6. q + 1 = 1 + ((y * 4 + q) - (y * 4 + 0))
    BY SMT
  <2> QED BY <1>1, <1>4, <1>6, <2>2, <2>3, <2>4, <2>5, <2>6, Zenon
<1>9. Convert(d).day = 1 + (d - DayStart("month", d))
  <2>1. PICK f \in Int : f = FromDate(y, m, 1)
    BY <1>2, MonthLength, SMT
  <2>2. DayStart("month", d) = f
    BY <1>1, <2>1, SMT DEF DayStart
  <2>3. Convert(d).day = d - f + 1
    BY <1>1, <2>1, DayInMonth, Zenon
  <2> QED BY <2>2, <2>3, SMT
<1>10. d - FromDate(Year(d), 1, 1) + 1 = 1 + (d - DayStart("year", d))
  BY <1>1, <1>3, <1>4, SMT
<1>11. ISODayOfWeek(d) = 1 + (d - DayStart("week", d))
  <2>1. DayStart("week", d) = Monday(d) /\ Monday(d) \in Int
    BY MondayOfWeek, SMT DEF DayStart
  <2> QED BY <2>1, SMT DEF ISODayOfWeek
<1>12. ISOWeek(d) = 1 + CDivide(d - DayStart("isoyear", d), 7)
  <2>1. PICK z \in Int : z = ISOYear(d)
    BY ISOYearStart, SMT
  <2>2. PICK f \in Int : f = Monday(FromDate(z, 1, 4))
    BY <2>1, ISOYearStart, SMT
  <2>3. PICK p \in Int : p = Monday(d)
    BY MondayOfWeek, SMT
  <2>4. DayStart("isoyear", d) = f
    <3>1. DayStart("isoyear", d) = Monday(d) - (ISOWeek(Monday(d)) - 1) * 7
      BY SMT DEF DayStart
    <3> QED BY <2>1, <2>2, <3>1, ISOYearStart, Zenon
  <2>5. ISOWeek(d) = ((p - f) \div 7) + 1
    BY <2>1, <2>2, <2>3, ISOYearStart, Zenon
  <2>6. f <= p /\ (p - f) % 7 = 0
    BY <2>1, <2>2, <2>3, ISOYearStarts, SMT
  <2>7. p <= d /\ d <= p + 6
    BY <2>3, MondayOfWeek, SMT
  <2>8. (d - f) \div 7 = (p - f) \div 7 /\ (p - f) \div 7 \in Int
    BY <2>6, <2>7, SMT
  <2>9. CDivide(d - f, 7) = (d - f) \div 7
    BY <2>6, <2>7, SMT DEF CDivide
  <2> QED BY <2>4, <2>5, <2>8, <2>9, SMT
<1> QED BY <1>7, <1>8, <1>9, <1>10, <1>11, <1>12, Zenon

\* A part is what date_diff counts from where date_trunc puts the start of the
\* period around it.
LEMMA PartCounts ==
    ASSUME NEW part \in DOMAIN CountedIn, NEW ts \in Int, Year(GetDate(ts)) >= 1, NEW c, c = CountedIn[part]
    PROVE  DatePart(part, ts) = c[3] + DateDiff(c[2], DateTrunc(c[1], ts), ts)
<1>1. PICK d \in Int : d = GetDate(ts) /\ d = ts \div DAY
  BY UnitsNest, Divides, SMT DEF GetDate
<1>2. Year(d) >= 1
  BY <1>1, Zenon
<1>3. ASSUME NEW p \in DayParts
      PROVE  DateTrunc(p, ts) = DayStart(p, d) * DAY /\ GetDate(DateTrunc(p, ts)) = DayStart(p, d)
  <2>1. DateTrunc(p, ts) = DayStart(p, d) * DAY
    BY <1>1, DayTrunc, Zenon
  <2>2. DayStart(p, d) \in Int
    BY <1>2, DayBounds, Zenon
  <2>3. (DayStart(p, d) * DAY) \div DAY = DayStart(p, d)
    BY <2>2, UnitsNest, FirstInstant, Zenon
  <2> QED BY <2>1, <2>3, Zenon DEF GetDate
<1>4. {"year", "month", "week", "isoyear", "day"} \subseteq DayParts
  BY SMT DEF DayParts
<1>5. CASE part = "month"
  <2>1. c = <<"year", "month", 1>>
    BY <1>5, SMT DEF CountedIn
  <2>2. DatePart(part, ts) = Month(d)
    BY <1>1, <1>5, SMT DEF DatePart
  <2>3. DateDiff("month", DateTrunc("year", ts), ts) = Months(d) - Months(DayStart("year", d))
    <3>1. GetDate(DateTrunc("year", ts)) = DayStart("year", d)
      BY <1>3, <1>4, Zenon
    <3> QED BY <1>1, <3>1, SMT DEF DateDiff
  <2> QED BY <1>2, <2>1, <2>2, <2>3, DayCounts, SMT
<1>6. CASE part = "quarter"
  <2>1. c = <<"year", "quarter", 1>>
    BY <1>6, SMT DEF CountedIn
  <2>2. DatePart(part, ts) = CDivide(Month(d) - 1, 3) + 1
    BY <1>1, <1>6, SMT DEF DatePart
  <2>3. DateDiff("quarter", DateTrunc("year", ts), ts) = CDivide(Months(d), 3) - CDivide(Months(DayStart("year", d)), 3)
    <3>1. GetDate(DateTrunc("year", ts)) = DayStart("year", d)
      BY <1>3, <1>4, Zenon
    <3> QED BY <1>1, <3>1, SMT DEF DateDiff
  <2> QED BY <1>2, <2>1, <2>2, <2>3, DayCounts, SMT
<1>7. CASE part = "day"
  <2>1. c = <<"month", "day", 1>>
    BY <1>7, SMT DEF CountedIn
  <2>2. DatePart(part, ts) = Convert(d).day
    BY <1>1, <1>7, SMT DEF DatePart
  <2>3. DateDiff("day", DateTrunc("month", ts), ts) = d - DayStart("month", d)
    <3>1. GetDate(DateTrunc("month", ts)) = DayStart("month", d)
      BY <1>3, <1>4, Zenon
    <3> QED BY <1>1, <3>1, SMT DEF DateDiff
  <2> QED BY <1>2, <2>1, <2>2, <2>3, DayCounts, SMT
<1>8. CASE part = "doy"
  <2>1. c = <<"year", "day", 1>>
    BY <1>8, SMT DEF CountedIn
  <2>2. DatePart(part, ts) = d - FromDate(Year(d), 1, 1) + 1
    BY <1>1, <1>8, SMT DEF DatePart
  <2>3. DateDiff("day", DateTrunc("year", ts), ts) = d - DayStart("year", d)
    <3>1. GetDate(DateTrunc("year", ts)) = DayStart("year", d)
      BY <1>3, <1>4, Zenon
    <3> QED BY <1>1, <3>1, SMT DEF DateDiff
  <2> QED BY <1>2, <2>1, <2>2, <2>3, DayCounts, SMT
<1>9. CASE part = "isodow"
  <2>1. c = <<"week", "day", 1>>
    BY <1>9, SMT DEF CountedIn
  <2>2. DatePart(part, ts) = ISODayOfWeek(d)
    BY <1>1, <1>9, SMT DEF DatePart
  <2>3. DateDiff("day", DateTrunc("week", ts), ts) = d - DayStart("week", d)
    <3>1. GetDate(DateTrunc("week", ts)) = DayStart("week", d)
      BY <1>3, <1>4, Zenon
    <3> QED BY <1>1, <3>1, SMT DEF DateDiff
  <2> QED BY <1>2, <2>1, <2>2, <2>3, DayCounts, SMT
<1>10. CASE part = "week"
  <2>1. c = <<"isoyear", "week", 1>>
    BY <1>10, SMT DEF CountedIn
  <2>2. DatePart(part, ts) = ISOWeek(d)
    BY <1>1, <1>10, SMT DEF DatePart
  <2>3. DateDiff("week", DateTrunc("isoyear", ts), ts) = CDivide(d - DayStart("isoyear", d), 7)
    <3>1. GetDate(DateTrunc("isoyear", ts)) = DayStart("isoyear", d)
      BY <1>3, <1>4, Zenon
    <3> QED BY <1>1, <3>1, SMT DEF DateDiff
  <2> QED BY <1>2, <2>1, <2>2, <2>3, DayCounts, SMT
<1>11. PICK t \in Int : t = GetTime(ts) /\ t = ts % DAY
  BY UnitsNest, Divides, SMT DEF GetTime
<1>12. CASE part = "hour"
  <2>1. c = <<"day", "hour", 0>>
    BY <1>12, SMT DEF CountedIn
  <2>2. DatePart(part, ts) = t \div HOUR
    BY <1>11, <1>12, SMT DEF DatePart
  <2>3. DateDiff("hour", DateTrunc("day", ts), ts) = FloorDivide(ts, HOUR) - FloorDivide(d * DAY, HOUR)
    <3>1. DayStart("day", d) = d
      BY SMT DEF DayStart
    <3>2. DateTrunc("day", ts) = d * DAY
      BY <1>3, <1>4, <3>1, Zenon
    <3> QED BY <3>2, SMT DEF DateDiff
  <2>4. d * DAY \in Int
    BY UnitsNest, SMT
  <2>5. FloorDivide(ts, HOUR) = ts \div HOUR /\ FloorDivide(d * DAY, HOUR) = (d * DAY) \div HOUR
    BY <2>4, UnitsNest, FloorDivideIsFloor, Zenon
  <2>6. (ts % DAY) \div HOUR = (ts \div HOUR) - (((ts \div DAY) * DAY) \div HOUR)
    BY UnitsNest, Nested, Zenon
  <2>7. DatePart(part, ts) = DateDiff("hour", DateTrunc("day", ts), ts)
    BY <1>1, <1>11, <2>2, <2>3, <2>5, <2>6, Zenon
  <2>8. t \div HOUR \in Int
    BY <1>11, UnitsNest, Divides, Zenon
  <2> QED BY <2>1, <2>2, <2>7, <2>8, SMT
<1>13. CASE part = "minute"
  <2>1. c = <<"hour", "minute", 0>>
    BY <1>13, SMT DEF CountedIn
  <2>2. DatePart(part, ts) = (t % HOUR) \div MINUTE
    BY <1>11, <1>13, SMT DEF DatePart
  <2>3. DateDiff("minute", DateTrunc("hour", ts), ts) = FloorDivide(ts, MINUTE) - FloorDivide(TruncFixed(ts, HOUR), MINUTE)
    BY SMT DEF DateDiff, DateTrunc
  <2>4. (t % HOUR) \div MINUTE = FloorDivide(ts, MINUTE) - FloorDivide(TruncFixed(ts, HOUR), MINUTE)
    BY <1>11, UnitsNest, UnitCounts, Zenon
  <2>5. (t % HOUR) \div MINUTE \in Int
    BY <1>11, UnitsNest, Divides, Zenon
  <2> QED BY <2>1, <2>2, <2>3, <2>4, <2>5, SMT
<1>14. CASE part = "second"
  <2>1. c = <<"minute", "second", 0>>
    BY <1>14, SMT DEF CountedIn
  <2>2. DatePart(part, ts) = (t % MINUTE) \div SEC
    BY <1>11, <1>14, SMT DEF DatePart
  <2>3. DateDiff("second", DateTrunc("minute", ts), ts) = FloorDivide(ts, SEC) - FloorDivide(TruncFixed(ts, MINUTE), SEC)
    BY SMT DEF DateDiff, DateTrunc
  <2>4. (t % MINUTE) \div SEC = FloorDivide(ts, SEC) - FloorDivide(TruncFixed(ts, MINUTE), SEC)
    BY <1>11, UnitsNest, UnitCounts, Zenon
  <2>5. (t % MINUTE) \div SEC \in Int
    BY <1>11, UnitsNest, Divides, Zenon
  <2> QED BY <2>1, <2>2, <2>3, <2>4, <2>5, SMT
<1>15. CASE part = "millisecond"
  <2>1. c = <<"minute", "millisecond", 0>>
    BY <1>15, SMT DEF CountedIn
  <2>2. DatePart(part, ts) = (t % MINUTE) \div MSEC
    BY <1>11, <1>15, SMT DEF DatePart
  <2>3. DateDiff("millisecond", DateTrunc("minute", ts), ts) = FloorDivide(ts, MSEC) - FloorDivide(TruncFixed(ts, MINUTE), MSEC)
    BY SMT DEF DateDiff, DateTrunc
  <2>4. (t % MINUTE) \div MSEC = FloorDivide(ts, MSEC) - FloorDivide(TruncFixed(ts, MINUTE), MSEC)
    BY <1>11, UnitsNest, UnitCounts, Zenon
  <2>5. (t % MINUTE) \div MSEC \in Int
    BY <1>11, UnitsNest, Divides, Zenon
  <2> QED BY <2>1, <2>2, <2>3, <2>4, <2>5, SMT
<1>16. CASE part = "microsecond"
  <2>1. c = <<"minute", "microsecond", 0>>
    BY <1>16, SMT DEF CountedIn
  <2>2. DatePart(part, ts) = t % MINUTE
    BY <1>11, <1>16, SMT DEF DatePart
  <2>3. DateDiff("microsecond", DateTrunc("minute", ts), ts) = ts - TruncFixed(ts, MINUTE)
    BY SMT DEF DateDiff, DateTrunc
  <2>4. t % MINUTE = ts % MINUTE
    <3>1. (ts % DAY) % MINUTE = ts % MINUTE
      BY UnitsNest, NestedRemainder, Zenon
    <3> QED BY <1>11, <3>1, Zenon
  <2>5. TruncFixed(ts, MINUTE) = (ts \div MINUTE) * MINUTE
    BY UnitsNest, TruncFixedIsFloor, Zenon
  <2>6. ts % MINUTE \in Int /\ ts - (ts \div MINUTE) * MINUTE = ts % MINUTE
    BY UnitsNest, Divides, SMT
  <2> QED BY <2>1, <2>2, <2>3, <2>4, <2>5, <2>6, SMT
<1>17. part \in {"month", "quarter", "day", "doy", "isodow", "week", "hour", "minute", "second", "millisecond", "microsecond"}
  BY SMT DEF CountedIn
<1> QED BY <1>5, <1>6, <1>7, <1>8, <1>9, <1>10, <1>12, <1>13, <1>14, <1>15, <1>16, <1>17, Zenon

\* Both divisions give integers.
LEMMA CDivideType ==
    ASSUME NEW v \in Int, NEW u \in Nat \ {0}
    PROVE  CDivide(v, u) \in Int /\ FloorDivide(v, u) \in Int
<1>1. CDivide(v, u) \in Int
  BY SMT DEF CDivide
<1>2. FloorDivide(v, u) \in Int
  BY FloorDivideIsFloor, Divides, Zenon
<1> QED BY <1>1, <1>2, Zenon

\* date_part returns an integer.
LEMMA DatePartType ==
    ASSUME NEW part \in PartParts, NEW ts \in Int
    PROVE  DatePart(part, ts) \in Int
<1>1. PICK d \in Int : d = GetDate(ts)
  BY UnitsNest, Divides, SMT DEF GetDate
<1>2. PICK t \in Int : t = GetTime(ts)
  BY UnitsNest, Divides, SMT DEF GetTime
<1>3. PICK y \in Int, m \in Int, k \in Int : y = Year(d) /\ m = Month(d) /\ k = Convert(d).day
  <2>1. Year(d) \in Int /\ Month(d) \in Int
    BY DayInMonth, SMT
  <2>2. PICK z \in Int, i \in Int : z = Year(d) /\ i = Month(d)
    BY <2>1, SMT
  <2>3. i >= 1 /\ i <= 12 /\ Convert(d).day = d - FromDate(z, i, 1) + 1
    BY <2>2, DayInMonth, SMT
  <2>4. FromDate(z, i, 1) \in Int
    BY <2>3, MonthLength, SMT
  <2> QED BY <2>2, <2>3, <2>4, SMT
<1>4. PICK w \in Int, i \in Int, n \in Int : w = Monday(d) /\ i = ISOYear(d) /\ n = ISOWeek(d)
  <2>1. Monday(d) \in Int /\ ISOYear(d) \in Int /\ Monday(FromDate(ISOYear(d), 1, 4)) \in Int
    BY MondayOfWeek, ISOYearStart, Zenon
  <2>2. ISOWeek(d) = ((Monday(d) - Monday(FromDate(ISOYear(d), 1, 4))) \div 7) + 1
    BY ISOYearStart, Zenon
  <2>3. ISOWeek(d) \in Int
    BY <2>1, <2>2, SMT
  <2> QED BY <2>1, <2>3, SMT
<1>5. FromDate(y, 1, 1) \in Int
  BY YearStartType, SMT
<1>6. CASE part \in {"year", "month", "day", "era"}
  BY <1>1, <1>3, <1>6, SMT DEF DatePart
<1>7. CASE part = "decade"
  <2>1. DatePart(part, ts) = CDivide(y, 10)
    BY <1>1, <1>3, <1>7, SMT DEF DatePart
  <2> QED BY <2>1, SMT DEF CDivide
<1>8. CASE part = "century"
  <2>1. DatePart(part, ts) = IF y > 0 THEN CDivide(y - 1, 100) + 1 ELSE CDivide(y, 100) - 1
    BY <1>1, <1>3, <1>8, SMT DEF DatePart
  <2> QED BY <2>1, SMT DEF CDivide
<1>9. CASE part = "millennium"
  <2>1. DatePart(part, ts) = IF y > 0 THEN CDivide(y - 1, 1000) + 1 ELSE CDivide(y, 1000) - 1
    BY <1>1, <1>3, <1>9, SMT DEF DatePart
  <2> QED BY <2>1, SMT DEF CDivide
<1>10. CASE part = "quarter"
  <2>1. DatePart(part, ts) = CDivide(m - 1, 3) + 1
    BY <1>1, <1>3, <1>10, SMT DEF DatePart
  <2> QED BY <2>1, SMT DEF CDivide
<1>11. CASE part \in {"dow", "isodow"}
  <2>1. DatePart(part, ts) = IF part = "dow" THEN (d - w + 1) % 7 ELSE d - w + 1
    BY <1>1, <1>4, <1>11, SMT DEF DatePart, ISODayOfWeek
  <2> QED BY <2>1, SMT
<1>12. CASE part = "doy"
  <2>1. DatePart(part, ts) = d - FromDate(y, 1, 1) + 1
    BY <1>1, <1>3, <1>12, SMT DEF DatePart
  <2> QED BY <1>5, <2>1, SMT
<1>13. CASE part \in {"week", "isoyear"}
  BY <1>1, <1>4, <1>13, SMT DEF DatePart
<1>14. CASE part = "yearweek"
  <2>1. DatePart(part, ts) = i * 100 + (IF i > 0 THEN n ELSE -n)
    BY <1>1, <1>4, <1>14, SMT DEF DatePart
  <2> QED BY <2>1, SMT
<1>15. ASSUME NEW v \in Int
       PROVE  /\ v % MINUTE \in Int /\ v % HOUR \in Int /\ v \div MSEC \in Int
              /\ v \div SEC \in Int /\ v \div MINUTE \in Int /\ v \div HOUR \in Int
  BY UnitsNest, Divides, Zenon
<1>16. CASE part = "microsecond"
  <2>1. DatePart(part, ts) = t % MINUTE
    BY <1>2, <1>16, SMT DEF DatePart
  <2> QED BY <1>15, <2>1, Zenon
<1>17. CASE part = "millisecond"
  <2>1. DatePart(part, ts) = (t % MINUTE) \div MSEC
    BY <1>2, <1>17, SMT DEF DatePart
  <2> QED BY <1>15, <2>1, Zenon
<1>18. CASE part = "second"
  <2>1. DatePart(part, ts) = (t % MINUTE) \div SEC
    BY <1>2, <1>18, SMT DEF DatePart
  <2> QED BY <1>15, <2>1, Zenon
<1>19. CASE part = "minute"
  <2>1. DatePart(part, ts) = (t % HOUR) \div MINUTE
    BY <1>2, <1>19, SMT DEF DatePart
  <2> QED BY <1>15, <2>1, Zenon
<1>20. CASE part = "hour"
  <2>1. DatePart(part, ts) = t \div HOUR
    BY <1>2, <1>20, SMT DEF DatePart
  <2> QED BY <1>15, <2>1, Zenon
<1> QED
  BY <1>6, <1>7, <1>8, <1>9, <1>10, <1>11, <1>12, <1>13, <1>14, <1>16, <1>17, <1>18, <1>19, <1>20, SMT
  DEF PartParts, DiffParts, TruncParts

\* date_diff returns an integer.
LEMMA DateDiffType ==
    ASSUME NEW part \in DiffParts, NEW start \in Int, NEW end \in Int
    PROVE  DateDiff(part, start, end) \in Int
<1>1. PICK s \in Int, e \in Int : s = GetDate(start) /\ e = GetDate(end)
  BY UnitsNest, Divides, SMT DEF GetDate
<1>2. PICK y \in Int, z \in Int : y = Year(s) /\ z = Year(e)
  BY DayInMonth, SMT
<1>3. PICK m \in Int, n \in Int : m = Months(s) /\ n = Months(e)
  <2>1. Month(s) \in Int /\ Month(e) \in Int
    BY DayInMonth, SMT
  <2> QED BY <1>2, <2>1, SMT DEF Months
<1>4. PICK i \in Int, j \in Int : i = ISOYear(s) /\ j = ISOYear(e)
  BY ISOYearStart, SMT
<1>5. CASE part \in {"year", "month", "day", "isoyear", "microsecond"}
  BY <1>1, <1>2, <1>3, <1>4, <1>5, SMT DEF DateDiff
<1>6. CASE part = "decade"
  <2>1. DateDiff(part, start, end) = CDivide(z, 10) - CDivide(y, 10)
    BY <1>1, <1>2, <1>6, SMT DEF DateDiff
  <2> QED BY <2>1, SMT DEF CDivide
<1>7. CASE part = "century"
  <2>1. DateDiff(part, start, end) = CDivide(z, 100) - CDivide(y, 100)
    BY <1>1, <1>2, <1>7, SMT DEF DateDiff
  <2> QED BY <2>1, SMT DEF CDivide
<1>8. CASE part = "millennium"
  <2>1. DateDiff(part, start, end) = CDivide(z, 1000) - CDivide(y, 1000)
    BY <1>1, <1>2, <1>8, SMT DEF DateDiff
  <2> QED BY <2>1, SMT DEF CDivide
<1>9. CASE part = "quarter"
  <2>1. DateDiff(part, start, end) = CDivide(n, 3) - CDivide(m, 3)
    BY <1>1, <1>3, <1>9, SMT DEF DateDiff
  <2> QED BY <2>1, SMT DEF CDivide
<1>10. CASE part = "week"
  <2>1. DateDiff(part, start, end) = CDivide(e - s, 7)
    BY <1>1, <1>10, SMT DEF DateDiff
  <2> QED BY <2>1, SMT DEF CDivide
<1>11. ASSUME NEW u \in Nat \ {0} PROVE FloorDivide(end, u) - FloorDivide(start, u) \in Int
  <2>1. FloorDivide(end, u) \in Int /\ FloorDivide(start, u) \in Int
    BY CDivideType, Zenon
  <2> QED BY <2>1, SMT
<1>12. CASE part \in {"millisecond", "second", "minute", "hour"}
  BY <1>11, <1>12, UnitsNest, SMT DEF DateDiff
<1> QED BY <1>5, <1>6, <1>7, <1>8, <1>9, <1>10, <1>12, SMT DEF DiffParts, TruncParts

\* What date_diff computes for a part, as a difference of periods.
LEMMA DiffIsPeriods ==
    ASSUME NEW part \in DiffParts \ {"week"}, NEW s \in Timestamps, NEW e \in Timestamps
    PROVE  DateDiff(part, s, e) = Period(part, e) - Period(part, s)
<1> DEFINE ds == GetDate(s)
           de == GetDate(e)
<1>1. s \in Int /\ e \in Int /\ DAY \in Nat \ {0}
  BY UnitsAssumption, TimestampsAssumption
<1>2. ds \in Int /\ de \in Int
  BY <1>1 DEF GetDate
<1>3. Year(ds) >= 1 /\ Year(de) >= 1
  BY TimestampsAssumption DEF Representable
<1>4. ds = s \div DAY /\ de = e \div DAY
  BY DEF GetDate
<1> HIDE DEF ds, de
<1>5. Year(ds) \in Int /\ Month(ds) \in 1..12 /\ Year(de) \in Int /\ Month(de) \in 1..12
  BY <1>2, DayInMonth, SMT
<1>6. \A u \in Nat \ {0} : CDivide(Year(ds), u) = Year(ds) \div u /\ CDivide(Year(de), u) = Year(de) \div u
  BY <1>3, <1>5 DEF CDivide
<1>7. CASE part = "year"
  BY <1>4, <1>7 DEF DateDiff, Period, ds, de
<1>8. CASE part = "month"
  <2>1. DateDiff(part, s, e) = Months(de) - Months(ds)
    BY <1>8 DEF DateDiff, ds, de
  <2>2. Period(part, e) = Year(de) * 12 + Month(de) /\ Period(part, s) = Year(ds) * 12 + Month(ds)
    BY <1>4, <1>8 DEF Period
  <2> QED BY <1>5, <2>1, <2>2 DEF Months
<1>9. CASE part = "day"
  BY <1>4, <1>9 DEF DateDiff, Period, ds, de
<1>10. CASE part = "decade"
  <2>1. DateDiff(part, s, e) = CDivide(Year(de), 10) - CDivide(Year(ds), 10)
    BY <1>10 DEF DateDiff, ds, de
  <2>2. Period(part, e) = Year(de) \div 10 /\ Period(part, s) = Year(ds) \div 10
    BY <1>4, <1>10 DEF Period
  <2> QED BY <1>6, <2>1, <2>2
<1>11. CASE part = "century"
  <2>1. DateDiff(part, s, e) = CDivide(Year(de), 100) - CDivide(Year(ds), 100)
    BY <1>11 DEF DateDiff, ds, de
  <2>2. Period(part, e) = Year(de) \div 100 /\ Period(part, s) = Year(ds) \div 100
    BY <1>4, <1>11 DEF Period
  <2> QED BY <1>6, <2>1, <2>2
<1>12. CASE part = "millennium"
  <2>1. DateDiff(part, s, e) = CDivide(Year(de), 1000) - CDivide(Year(ds), 1000)
    BY <1>12 DEF DateDiff, ds, de
  <2>2. Period(part, e) = Year(de) \div 1000 /\ Period(part, s) = Year(ds) \div 1000
    BY <1>4, <1>12 DEF Period
  <2> QED BY <1>6, <2>1, <2>2
<1>13. CASE part = "quarter"
  <2>1. DateDiff(part, s, e) = CDivide(Year(de) * 12 + Month(de) - 1, 3) - CDivide(Year(ds) * 12 + Month(ds) - 1, 3)
    BY <1>13 DEF DateDiff, Months, ds, de
  <2>2. /\ Period(part, e) = Year(de) * 4 + ((Month(de) - 1) \div 3)
        /\ Period(part, s) = Year(ds) * 4 + ((Month(ds) - 1) \div 3)
    BY <1>4, <1>13 DEF Period
  <2>3. /\ CDivide(Year(de) * 12 + Month(de) - 1, 3) = Year(de) * 4 + ((Month(de) - 1) \div 3)
        /\ CDivide(Year(ds) * 12 + Month(ds) - 1, 3) = Year(ds) * 4 + ((Month(ds) - 1) \div 3)
    BY <1>3, <1>5, QuarterOfMonths
  <2> QED BY <2>1, <2>2, <2>3
<1>14. CASE part = "isoyear"
  <2>1. DateDiff(part, s, e) = Year(Monday(de) + 3) - Year(Monday(ds) + 3)
    BY <1>14 DEF DateDiff, ISOYear, ds, de
  <2>2. Period(part, e) = Year(7 * ((de + 3) \div 7)) /\ Period(part, s) = Year(7 * ((ds + 3) \div 7))
    BY <1>4, <1>14 DEF Period
  <2>3. Monday(de) + 3 = 7 * ((de + 3) \div 7) /\ Monday(ds) + 3 = 7 * ((ds + 3) \div 7)
    BY <1>2 DEF Monday
  <2> QED BY <2>1, <2>2, <2>3
<1>15. CASE part = "microsecond"
  BY <1>15 DEF DateDiff, Period
<1>16. CASE part = "millisecond"
  BY <1>1, <1>16, FloorDivideIsFloor, UnitsAssumption DEF DateDiff, Period
<1>17. CASE part = "second"
  BY <1>1, <1>17, FloorDivideIsFloor, UnitsAssumption DEF DateDiff, Period
<1>18. CASE part = "minute"
  BY <1>1, <1>18, FloorDivideIsFloor, UnitsAssumption DEF DateDiff, Period
<1>19. CASE part = "hour"
  BY <1>1, <1>19, FloorDivideIsFloor, UnitsAssumption DEF DateDiff, Period
<1> QED
  BY <1>7, <1>8, <1>9, <1>10, <1>11, <1>12, <1>13, <1>14, <1>15, <1>16, <1>17, <1>18, <1>19 DEF DiffParts, TruncParts

-----------------------------------------------------------------------------
(* The functions *)

\* Of two instants, the earlier one is not in a later unit.
LEMMA UnitsFollow ==
    ASSUME NEW v \in Int, NEW w \in Int, v <= w, NEW u \in Nat \ {0}
    PROVE  v \div u <= w \div u
<1>1. PICK q \in Int, r \in Int : q = v \div u /\ r >= 0 /\ v = u * q + r
  BY Divides, SMT
<1>2. PICK p \in Int, i \in Int : p = w \div u /\ i < u /\ w = u * p + i
  BY Divides, SMT
<1>3. u * (q - p) < u
  <2>1. u * (q - p) = u * q - u * p
    BY SMT
  <2>2. u * q \in Int /\ u * p \in Int
    BY SMT
  <2> QED BY <1>1, <1>2, <2>1, <2>2, SMT
<1>4. q <= p
  <2> SUFFICES ASSUME q > p PROVE FALSE
    BY SMT
  <2>1. PICK k \in Int : q - p = 1 + k /\ k >= 0
    BY SMT
  <2>2. u * (1 + k) = u + u * k /\ u * k >= 0 /\ u * k \in Int
    BY <2>1, SMT
  <2> QED BY <1>3, <2>1, <2>2, SMT
<1> QED BY <1>1, <1>2, <1>4, SMT

\* date_trunc answers with the timestamp, or fails before the year 1.
LEMMA TruncAnswer ==
    ASSUME NEW part \in TruncParts, NEW ts \in Int, Representable(GetDate(ts)), NEW s, s = DateTrunc(part, ts)
    PROVE  SetTimestamp(s) = IF Year(s \div DAY) < 1 THEN Error ELSE [kind |-> "timestamp", value |-> s]
<1>1. PICK d \in Int : d = ts \div DAY /\ d = GetDate(ts)
  BY UnitsNest, Divides, SMT DEF GetDate
<1>2. Year(d) >= 1 /\ Year(d) <= 9999 /\ Year(d) \in Int
  BY <1>1, DayInMonth, SMT DEF Representable
<1>3. s \in Int /\ s <= ts
  BY <1>1, <1>2, TruncBounds, SMT
<1>4. PICK e \in Int : e = s \div DAY
  BY <1>3, UnitsNest, Divides, Zenon
<1>5. e <= d
  BY <1>1, <1>3, <1>4, UnitsNest, UnitsFollow, Zenon
<1>6. PICK y \in Int : y = Year(e)
  BY DayInMonth, SMT
<1>7. FromDate(y, 1, 1) \in Int /\ FromDate(y, 1, 1) <= e
  BY <1>6, YearStarts, SMT
<1>8. FromDate(y, 1, 1) <= d
  BY <1>5, <1>7, SMT
<1>9. Year(d) >= y
  BY <1>8, YearOfDay, SMT
<1>10. Representable(e) <=> y >= 1
  BY <1>2, <1>6, <1>9, SMT DEF Representable
<1>11. GetDate(s) = e
  BY <1>4, Zenon DEF GetDate
<1> QED BY <1>4, <1>6, <1>10, <1>11, SMT DEF SetTimestamp

\* The invocations, and the answer of each once there is one.
AnswerInv ==
    /\ invocation.start \in Timestamps /\ invocation.end \in Timestamps \union {0}
    /\ invocation.function \in {"date_part", "date_trunc", "date_diff", "last_day"}
    /\ invocation.function = "date_part" =>
         invocation.part \in PartParts /\ answer \in {NoAnswer, Number(DatePart(invocation.part, invocation.start))}
    /\ invocation.function = "date_trunc" =>
         invocation.part \in TruncParts /\ answer \in {NoAnswer, SetTimestamp(DateTrunc(invocation.part, invocation.start))}
    /\ invocation.function = "date_diff" =>
         /\ invocation.part \in DiffParts /\ invocation.end \in Timestamps
         /\ answer \in {NoAnswer, Number(DateDiff(invocation.part, invocation.start, invocation.end))}
    /\ invocation.function = "last_day" => answer \in {NoAnswer, Number(LastDay(invocation.start))}

\* Every function answers with what it computes from its arguments.
THEOREM AnswersComputed == DateSpec => []AnswerInv
<1>1. DateInit => AnswerInv
  BY Zenon DEF DateInit, AnswerInv
<1>2. AnswerInv /\ [DateNext]_dateVars => AnswerInv'
  <2> SUFFICES ASSUME AnswerInv, [DateNext]_dateVars PROVE AnswerInv'
    BY Zenon
  <2>1. CASE DateDiffFunction
    BY <2>1, SMT DEF AnswerInv, DateDiffFunction, Invoke
  <2>2. CASE DatePartFunction
    BY <2>2, SMT DEF AnswerInv, DatePartFunction, Invoke
  <2>3. CASE DateTruncFunction
    BY <2>3, SMT DEF AnswerInv, DateTruncFunction, Invoke
  <2>4. CASE LastDayExpression
    BY <2>4, SMT DEF AnswerInv, LastDayExpression, Invoke
  <2>5. CASE UNCHANGED dateVars
    BY <2>5, SMT DEF AnswerInv, dateVars
  <2> QED BY <2>1, <2>2, <2>3, <2>4, <2>5, Zenon DEF DateNext
<1> QED BY <1>1, <1>2, PTL DEF DateSpec

\* What the timestamps are.
LEMMA TimestampFacts ==
    ASSUME AnswerInv
    PROVE  invocation.start \in Int /\ Representable(GetDate(invocation.start)) /\ Year(GetDate(invocation.start)) >= 1
<1>1. invocation.start \in Int /\ Representable(GetDate(invocation.start))
  BY TimestampsAssumption, Zenon DEF AnswerInv
<1>2. Year(GetDate(invocation.start)) >= 1
  BY <1>1, SMT DEF Representable
<1> QED BY <1>1, <1>2, Zenon

\* The types follow from what the functions compute.
LEMMA AnswerTypes ==
    ASSUME AnswerInv
    PROVE  DateTypeOK
<1>1. invocation.start \in Timestamps /\ invocation.end \in Timestamps \union {0}
  BY Zenon DEF AnswerInv
<1>2. invocation.start \in Int /\ Representable(GetDate(invocation.start)) /\ Year(GetDate(invocation.start)) >= 1
  BY TimestampFacts, Zenon
<1> SUFFICES /\ answer.kind \in {"none", "integer", "timestamp", "error"} /\ answer.value \in Int
             /\ answer.kind = "timestamp" => Representable(GetDate(answer.value))
  BY <1>1, Zenon DEF DateTypeOK
<1>3. ASSUME NEW n \in Int, answer = Number(n)
      PROVE  /\ answer.kind \in {"none", "integer", "timestamp", "error"} /\ answer.value \in Int
             /\ answer.kind = "timestamp" => Representable(GetDate(answer.value))
  BY <1>3, SMT DEF Number
<1>4. CASE answer = NoAnswer
  BY <1>4, SMT DEF NoAnswer
<1>5. CASE invocation.function = "date_part" /\ answer # NoAnswer
  <2>1. invocation.part \in PartParts /\ answer = Number(DatePart(invocation.part, invocation.start))
    BY <1>5, Zenon DEF AnswerInv
  <2>2. DatePart(invocation.part, invocation.start) \in Int
    BY <1>2, <2>1, DatePartType, Zenon
  <2> QED BY <1>3, <2>1, <2>2, Zenon
<1>6. CASE invocation.function = "date_trunc" /\ answer # NoAnswer
  <2>1. PICK s : s = DateTrunc(invocation.part, invocation.start)
    BY Zenon
  <2>2. invocation.part \in TruncParts /\ answer = SetTimestamp(s)
    BY <1>6, <2>1, Zenon DEF AnswerInv
  <2>3. s \in Int
    BY <1>2, <2>1, <2>2, TruncBounds, Zenon
  <2> QED BY <2>2, <2>3, SMT DEF SetTimestamp, Error
<1>7. CASE invocation.function = "date_diff" /\ answer # NoAnswer
  <2>1. /\ invocation.part \in DiffParts /\ invocation.end \in Timestamps
        /\ answer = Number(DateDiff(invocation.part, invocation.start, invocation.end))
    BY <1>7, Zenon DEF AnswerInv
  <2>2. invocation.end \in Int
    BY <2>1, TimestampsAssumption, Zenon
  <2>3. DateDiff(invocation.part, invocation.start, invocation.end) \in Int
    BY <1>2, <2>1, <2>2, DateDiffType, Zenon
  <2> QED BY <1>3, <2>1, <2>3, Zenon
<1>8. CASE invocation.function = "last_day" /\ answer # NoAnswer
  <2>1. answer = Number(LastDay(invocation.start))
    BY <1>8, Zenon DEF AnswerInv
  <2>2. LastDay(invocation.start) \in Int
    BY <1>2, LastDayBounds, Zenon
  <2> QED BY <1>3, <2>1, <2>2, Zenon
<1> QED BY <1>4, <1>5, <1>6, <1>7, <1>8, Zenon DEF AnswerInv

\* date_trunc answers with the first instant of the period of its argument, or
\* with an error when that is before the year 1, and last_day with the last day
\* of the month: for all timestamps of the years 1 to 9999.
THEOREM DatesPeriodBoundsExact == DateSpec => []PeriodBoundsExact
<1>1. AnswerInv => PeriodBoundsExact
  <2> SUFFICES ASSUME AnswerInv PROVE PeriodBoundsExact
    BY Zenon
  <2>1. DateTypeOK
    BY AnswerTypes, Zenon
  <2>2. invocation.start \in Int /\ Representable(GetDate(invocation.start)) /\ Year(GetDate(invocation.start)) >= 1
    BY TimestampFacts, Zenon
  <2>3. ASSUME Done("date_trunc"), NEW s, s = DateTrunc(invocation.part, invocation.start)
        PROVE  /\ s <= invocation.start /\ Period(invocation.part, s) = Period(invocation.part, invocation.start)
               /\ Period(invocation.part, s - 1) # Period(invocation.part, s)
               /\ answer = IF Year(s \div DAY) < 1 THEN Error ELSE [kind |-> "timestamp", value |-> s]
    <3>1. invocation.part \in TruncParts /\ answer = SetTimestamp(s)
      BY <2>3, Zenon DEF AnswerInv, Done
    <3>2. /\ s <= invocation.start /\ Period(invocation.part, s) = Period(invocation.part, invocation.start)
          /\ Period(invocation.part, s - 1) # Period(invocation.part, s)
      BY <2>2, <2>3, <3>1, TruncBounds, SMT
    <3>3. SetTimestamp(s) = IF Year(s \div DAY) < 1 THEN Error ELSE [kind |-> "timestamp", value |-> s]
      BY <2>2, <2>3, <3>1, TruncAnswer, Zenon
    <3> QED BY <3>1, <3>2, <3>3, Zenon
  <2>4. ASSUME Done("last_day")
        PROVE  /\ Period("month", answer.value * DAY) = Period("month", invocation.start)
               /\ Period("month", (answer.value + 1) * DAY) # Period("month", answer.value * DAY)
               /\ Representable(answer.value)
    <3>1. answer = Number(LastDay(invocation.start))
      BY <2>4, Zenon DEF AnswerInv, Done
    <3>2. answer.value = LastDay(invocation.start)
      BY <3>1, SMT DEF Number
    <3> QED BY <2>2, <3>2, LastDayBounds, Zenon
  <2> QED BY <2>1, <2>3, <2>4, Zenon DEF PeriodBoundsExact
<1> QED BY <1>1, AnswersComputed, PTL

\* date_part, date_diff and date_trunc agree, for all timestamps of the years 1
\* to 9999 and all units that nest.
THEOREM DatesPartsCountFromTrunc == DateSpec => []PartsCountFromTrunc
<1>1. AnswerInv => PartsCountFromTrunc
  <2> SUFFICES ASSUME AnswerInv, Done("date_part"), invocation.part \in DOMAIN CountedIn, NEW c, c = CountedIn[invocation.part]
      PROVE  answer.value = c[3] + DateDiff(c[2], DateTrunc(c[1], invocation.start), invocation.start)
    BY Zenon DEF PartsCountFromTrunc
  <2>1. invocation.start \in Int /\ Representable(GetDate(invocation.start)) /\ Year(GetDate(invocation.start)) >= 1
    BY TimestampFacts, Zenon
  <2>2. answer = Number(DatePart(invocation.part, invocation.start))
    BY Zenon DEF AnswerInv, Done
  <2>3. answer.value = DatePart(invocation.part, invocation.start)
    BY <2>2, SMT DEF Number
  <2> QED BY <2>1, <2>3, PartCounts, Zenon
<1> QED BY <1>1, AnswersComputed, PTL

\* duckdb_date_diff returns the number of part boundaries between its
\* arguments, for all timestamps of the years 1 to 9999, before and after 1970.
THEOREM DateDiffCountsBoundaries == DateSpec => []DiffCountsBoundaries
<1>1. AnswerInv => DiffCountsBoundaries
  <2> SUFFICES ASSUME AnswerInv, Done("date_diff"), invocation.part # "week"
      PROVE  answer.value = Period(invocation.part, invocation.end) - Period(invocation.part, invocation.start)
    BY Zenon DEF DiffCountsBoundaries
  <2>1. /\ invocation.part \in DiffParts /\ invocation.start \in Timestamps /\ invocation.end \in Timestamps
        /\ answer = Number(DateDiff(invocation.part, invocation.start, invocation.end))
    BY Zenon DEF AnswerInv, Done
  <2>2. answer.value = DateDiff(invocation.part, invocation.start, invocation.end)
    BY <2>1, SMT DEF Number
  <2> QED BY <2>1, <2>2, DiffIsPeriods, Zenon
<1> QED BY <1>1, AnswersComputed, PTL

-----------------------------------------------------------------------------
(* The matching loop of LikeMatcher *)

\* Every set of naturals that is not empty has a least element.
LEMMA LeastNatural ==
    ASSUME NEW T, T \subseteq Nat, T # {}
    PROVE  \E k \in T : \A h \in T : k <= h
<1>1. IsWellFoundedOn(OpToRel(<, Nat), Nat)
  BY NatLessThanWellFounded
<1>2. PICK k \in T : \A h \in T : ~(<<h, k>> \in OpToRel(<, Nat))
  BY <1>1, WFMin
<1>3. \A h \in T : ~(h < k)
  BY <1>2 DEF OpToRel
<1> QED
  BY <1>3

\* The loop that skips continuation bytes stops inside the text, at a later index.
LEMMA SkipCharacterBounds ==
    ASSUME NEW s \in Seq(Bytes), NEW i \in Nat, i < Len(s)
    PROVE  SkipCharacter(s, i) \in (i + 1)..Len(s)
<1> DEFINE T == {k \in (i + 1)..Len(s) : k = Len(s) \/ s[k + 1] # "C"}
<1>0. Len(s) \in Nat
  OBVIOUS
<1>1. T \subseteq Nat /\ Len(s) \in T
  BY <1>0
<1>2. PICK k \in T : \A h \in T : k <= h
  <2> HIDE DEF T
  <2> QED BY <1>1, LeastNatural
<1>3. \A h \in (i + 1)..(k - 1) : s[h + 1] = "C"
  <2>1. SUFFICES ASSUME NEW h \in (i + 1)..(k - 1), s[h + 1] # "C" PROVE FALSE
    OBVIOUS
  <2>2. h \in T /\ h < k
    BY <1>0, <2>1
  <2> QED
    BY <1>2, <2>2
<1>4. \E m \in (i + 1)..Len(s) : /\ m = Len(s) \/ s[m + 1] # "C"
                                 /\ \A h \in (i + 1)..(m - 1) : s[h + 1] = "C"
  BY <1>2, <1>3
<1> QED
  BY <1>4 DEF SkipCharacter

\* The loop that skips "%" stops inside the pattern.
LEMMA SkipPercentBounds ==
    ASSUME NEW p \in Seq(Bytes), NEW i \in Nat, i <= Len(p)
    PROVE  SkipPercent(p, i) \in i..Len(p)
<1> DEFINE T == {k \in i..Len(p) : k = Len(p) \/ p[k + 1] # "%"}
<1>0. Len(p) \in Nat
  OBVIOUS
<1>1. T \subseteq Nat /\ Len(p) \in T
  BY <1>0
<1>2. PICK k \in T : \A h \in T : k <= h
  <2> HIDE DEF T
  <2> QED BY <1>1, LeastNatural
<1>3. \A h \in i..(k - 1) : p[h + 1] = "%"
  <2>1. SUFFICES ASSUME NEW h \in i..(k - 1), p[h + 1] # "%" PROVE FALSE
    OBVIOUS
  <2>2. h \in T /\ h < k
    BY <1>0, <2>1
  <2> QED
    BY <1>2, <2>2
<1>4. \E m \in i..Len(p) : /\ m = Len(p) \/ p[m + 1] # "%"
                           /\ \A h \in i..(m - 1) : p[h + 1] = "%"
  BY <1>2, <1>3
<1> QED
  BY <1>4 DEF SkipPercent

-----------------------------------------------------------------------------

\* Where the loop stands: the retry position is never ahead of the index, and
\* before the loop everything is at its start.
LoopInv ==
    /\ retry_sidx <= sidx
    /\ pc \in {"write", "call"} => sidx = 0 /\ pidx = 0 /\ retry_sidx = 0 /\ retry_pidx = 0

\* The inductive invariant.
IInv == TypeOK /\ LoopInv

(* The invariant holds before the call.                                     *)
LEMMA InitEstablishes == Init => IInv
<1> SUFFICES ASSUME Init PROVE IInv
  OBVIOUS
<1>1. sdata \in Seq(Bytes) /\ pdata \in Seq(Bytes)
  BY DEF Init
<1>2. slen = 0 /\ plen = 0
  BY DEF Init, slen, plen
<1>3. /\ sidx \in 0..slen /\ pidx \in 0..plen
      /\ retry_sidx \in 0..slen /\ retry_pidx \in 0..plen
  BY <1>2 DEF Init
<1>4. has_percentage \in BOOLEAN
  BY Zenon DEF Init
<1>5. LoopInv
  BY DEF Init, LoopInv
<1>6. /\ call \in Calls /\ pc \in {"write", "call", "match", "tail", "done"}
      /\ escape \in Bytes \union {NoArgument}
      /\ result \in {"none", "true", "false", "null", "error"}
  BY DEF Init
<1> QED
  BY Zenon, <1>1, <1>3, <1>4, <1>5, <1>6 DEF IInv, TypeOK

\* The lower case of a text is a text, of the same length.
LEMMA FoldText ==
    ASSUME NEW s \in Seq(Bytes)
    PROVE  Fold(s) \in Seq(Bytes)
<1>1. \A c \in Bytes : LowerByte(c) \in Bytes
  BY DEF LowerByte, Bytes
<1>2. LowerCase(s) \in Seq(Bytes)
  BY <1>1 DEF LowerCase
<1> QED
  BY <1>2 DEF Fold

(* The escape argument that LikeFunction accepts is one byte, or none.      *)
LEMMA EscapeOfByte ==
    ASSUME call \in Calls, call.escape # Null, call.escape # NoArgument => Len(call.escape) <= 1
    PROVE  EscapeOf \in Bytes \union {NoArgument}
<1>0. \A c \in Bytes : LowerByte(c) \in Bytes
  BY DEF LowerByte, Bytes
<1>1. call.escape \in Escapes \union {NoArgument}
  BY DEF Calls
<1>2. CASE call.escape \in {NoArgument, <<>>}
  <2>1. EscapeByte(call.escape) = NoArgument
    BY <1>2 DEF EscapeByte
  <2>2. LowerByte(NoArgument) \in {NoArgument, "a"}
    BY DEF LowerByte
  <2> QED
    BY <2>1, <2>2 DEF EscapeOf, Bytes
<1>3. CASE call.escape \in Escapes /\ call.escape # <<>> /\ call.escape # NoArgument
  <2>1. call.escape \in Seq(Bytes)
    BY <1>3, TextAssumption
  <2>2. EscapeByte(call.escape) = call.escape[1]
    BY <1>3 DEF EscapeByte
  <2>3. call.escape[1] \in Bytes
    BY <2>1, <1>3
  <2> QED
    BY <1>0, <2>2, <2>3 DEF EscapeOf
<1> QED
  BY <1>1, <1>2, <1>3

\* The state outside the indices and the retry position is typed after every step.
Typed ==
    /\ call \in Calls
    /\ pc \in {"write", "call", "match", "tail", "done"}
    /\ sdata \in Seq(Bytes) /\ pdata \in Seq(Bytes) /\ escape \in Bytes \union {NoArgument}
    /\ result \in {"none", "true", "false", "null", "error"}

\* The indices are inside the buffers, and the retry position is not ahead.
Indices ==
    /\ sidx \in 0..slen /\ pidx \in 0..plen
    /\ retry_sidx \in 0..slen /\ retry_pidx \in 0..plen
    /\ LoopInv

(* The invariant in the three parts that are proved apart.                  *)
LEMMA IInvParts == IInv <=> Typed /\ Indices /\ has_percentage \in BOOLEAN
<1> QED
  BY Zenon DEF IInv, TypeOK, Typed, Indices

\* Every step of the matching loop keeps the texts.
LEMMA LoopKeepsTexts ==
    LikeMatches => UNCHANGED Inputs
<1> QED
  BY DEF LikeMatches, EscapeAtEnd, EscapedByte, Underscore, Percent, SameByte, Backtrack,
         StringDone, PatternRest

(* An iteration of the matching loop keeps the types.                       *)
LEMMA LoopTyped == Typed /\ LikeMatches => Typed'
<1> SUFFICES ASSUME Typed, LikeMatches PROVE Typed'
  OBVIOUS
<1>1. UNCHANGED <<call, sdata, pdata, escape>>
  BY LoopKeepsTexts DEF Inputs
<1>2. pc' \in {"match", "tail", "done"}
  BY DEF LikeMatches, EscapeAtEnd, EscapedByte, Underscore, Percent, SameByte, Backtrack,
         StringDone, PatternRest, Answer, InPattern, Mismatch
<1>3. result' \in {result, "true", "false", "error"}
  BY DEF LikeMatches, EscapeAtEnd, EscapedByte, Underscore, Percent, SameByte, Backtrack,
         StringDone, PatternRest, Answer
<1> QED
  BY <1>1, <1>2, <1>3 DEF Typed

(* An iteration of the matching loop keeps both indices in their texts and  *)
(* moves on.                                                                *)
LEMMA LoopIndices ==
    ASSUME Typed, Indices, LikeMatches
    PROVE  /\ Indices'
           /\ MovesOn
<1>0. UNCHANGED <<call, sdata, pdata, escape>>
  BY LoopKeepsTexts DEF Inputs
<1>1. slen \in Nat /\ plen \in Nat /\ slen' = slen /\ plen' = plen
  BY <1>0 DEF Typed, slen, plen
<1>2. CASE EscapeAtEnd
  BY <1>1, <1>2 DEF EscapeAtEnd, Indices, LoopInv, MovesOn, Retry, Answer, InPattern
<1>3. CASE EscapedByte
  BY <1>1, <1>3 DEF EscapedByte, Indices, LoopInv, MovesOn, Retry, InPattern
<1>4. CASE Underscore
  <2>1. /\ pc = "match" /\ sidx < slen /\ pidx < plen
        /\ sidx' = SkipCharacter(sdata, sidx) /\ pidx' = pidx + 1
        /\ UNCHANGED <<retry_sidx, retry_pidx, pc>>
    BY <1>4 DEF Underscore, InPattern, Retry
  <2>2. sdata \in Seq(Bytes) /\ sidx \in Nat /\ sidx < Len(sdata)
    BY <1>1, <2>1 DEF Typed, Indices, slen
  <2>3. sidx' \in (sidx + 1)..slen
    BY <2>1, <2>2, SkipCharacterBounds DEF slen
  <2> QED
    BY <1>1, <2>1, <2>3 DEF Indices, LoopInv, MovesOn
<1>5. CASE Percent
  <2>1. /\ pc = "match" /\ sidx < slen /\ pidx < plen
        /\ pidx' = SkipPercent(pdata, pidx + 1) /\ sidx' = sidx
    BY <1>5 DEF Percent, InPattern
  <2>2. pdata \in Seq(Bytes) /\ pidx + 1 \in Nat /\ pidx + 1 <= Len(pdata)
    BY <1>1, <2>1 DEF Typed, Indices, plen
  <2>3. pidx' \in (pidx + 1)..plen
    BY <2>1, <2>2, SkipPercentBounds DEF plen
  <2>4. \/ UNCHANGED <<retry_sidx, retry_pidx>> /\ pc' = "done"
        \/ retry_pidx' = pidx' /\ retry_sidx' = sidx /\ pc' = pc
    BY Zenon, <1>5 DEF Percent, Answer, Retry
  <2> QED
    BY <1>1, <2>1, <2>3, <2>4 DEF Indices, LoopInv, MovesOn
<1>6. CASE SameByte
  <2>1. /\ pc = "match" /\ sidx < slen /\ pidx < plen
        /\ sidx' = sidx + 1 /\ pidx' = pidx + 1
        /\ UNCHANGED <<retry_sidx, retry_pidx, pc>>
    BY <1>6 DEF SameByte, InPattern, Retry
  <2> QED
    BY <1>1, <2>1 DEF Indices, LoopInv, MovesOn
<1>7. CASE Backtrack
  <2>1. pc = "match" /\ sidx < slen /\ retry_pidx' = retry_pidx
    BY <1>7 DEF Backtrack, Mismatch
  <2>2. \/ pc' = "done" /\ UNCHANGED <<sidx, pidx, retry_sidx>>
        \/ pidx' = retry_pidx /\ retry_sidx' = retry_sidx + 1 /\ sidx' = retry_sidx + 1 /\ pc' = pc
    BY Zenon, <1>7 DEF Backtrack, Answer, RetryAt
  <2> QED
    BY <1>1, <2>1, <2>2 DEF Indices, LoopInv, MovesOn
<1>8. CASE StringDone
  BY <1>1, <1>8 DEF StringDone, Indices, LoopInv, MovesOn, Retry
<1>9. CASE PatternRest
  BY <1>1, <1>9 DEF PatternRest, Indices, LoopInv, MovesOn, Retry, Answer
<1> QED
  BY <1>2, <1>3, <1>4, <1>5, <1>6, <1>7, <1>8, <1>9 DEF LikeMatches

(* An iteration of the matching loop leaves has_percentage a Boolean.       *)
LEMMA LoopFlag ==
    ASSUME has_percentage \in BOOLEAN, LikeMatches
    PROVE  has_percentage' \in BOOLEAN
<1>1. has_percentage' \in {has_percentage, TRUE}
  BY Zenon DEF LikeMatches, EscapeAtEnd, EscapedByte, Underscore, Percent, SameByte, Backtrack,
         StringDone, PatternRest, Retry
<1> QED
  BY Zenon, <1>1

(* Writing the pattern for SQLite, as a GLOB or for duckdb_like, keeps the  *)
(* invariant and moves on.                                                  *)
LEMMA WriteLikeKeeps ==
    ASSUME IInv, WriteLike
    PROVE  IInv' /\ MovesOn
<1>1. UNCHANGED <<call, sdata, pdata, escape, sidx, pidx, has_percentage, retry_sidx, retry_pidx>>
  BY DEF WriteLike
<1>2. pc = "write" /\ pc' \in {"call", "done"}
  BY DEF WriteLike, Answer
<1>3. result' \in {result, "null", "true", "false"}
  BY DEF WriteLike, Answer
<1>4. Typed'
  BY <1>1, <1>2, <1>3, IInvParts DEF Typed
<1>5. Indices' /\ MovesOn
  BY <1>1, <1>2, IInvParts DEF Indices, LoopInv, slen, plen, MovesOn
<1>6. has_percentage' \in BOOLEAN
  BY Zenon, <1>1, IInvParts
<1> QED
  BY Zenon, <1>4, <1>5, <1>6 DEF IInv, TypeOK, Typed, Indices

(* The checks of the arguments keep the invariant and move on.              *)
LEMMA LikeFunctionKeeps ==
    ASSUME IInv, LikeFunction
    PROVE  IInv' /\ MovesOn
<1>1. UNCHANGED <<call, sidx, pidx, has_percentage, retry_sidx, retry_pidx>>
  BY DEF LikeFunction
<1>2. pc = "call" /\ pc' \in {"match", "done"} /\ result' \in {result, "null", "error"}
  BY DEF LikeFunction, Answer
<1>3. sdata' \in Seq(Bytes) /\ pdata' \in Seq(Bytes) /\ escape' \in Bytes \union {NoArgument}
  <2>1. CASE UNCHANGED <<sdata, pdata, escape>>
    BY <2>1, IInvParts DEF Typed
  <2>2. CASE /\ Null \notin {call.str, call.pattern, call.escape}
             /\ call.escape # NoArgument => Len(call.escape) <= 1
             /\ sdata' = Fold(call.str) /\ pdata' = Fold(call.pattern) /\ escape' = EscapeOf
    <3>1. call.str \in Seq(Bytes) /\ call.pattern \in Seq(Bytes)
      BY <2>2, TextAssumption, IInvParts DEF Typed, Calls
    <3>2. Fold(call.str) \in Seq(Bytes) /\ Fold(call.pattern) \in Seq(Bytes)
      BY <3>1, FoldText
    <3>3. EscapeOf \in Bytes \union {NoArgument}
      BY <2>2, EscapeOfByte, IInvParts DEF Typed
    <3> QED
      BY <2>2, <3>2, <3>3
  <2> QED
    BY <2>1, <2>2 DEF LikeFunction
<1>4. Typed'
  BY <1>1, <1>2, <1>3, IInvParts DEF Typed
<1>5. slen' \in Nat /\ plen' \in Nat
  BY <1>3 DEF slen, plen
<1>6. Indices' /\ MovesOn
  BY <1>1, <1>2, <1>5, IInvParts DEF Indices, LoopInv, MovesOn
<1>7. has_percentage' \in BOOLEAN
  BY Zenon, <1>1, IInvParts
<1> QED
  BY Zenon, <1>4, <1>6, <1>7 DEF IInv, TypeOK, Typed, Indices

(* Every step keeps the invariant and moves on.                             *)
LEMMA StepKeeps ==
    ASSUME IInv, Next
    PROVE  IInv' /\ MovesOn
<1>1. CASE LikeMatches
  <2>1. Typed' /\ Indices' /\ MovesOn
    BY <1>1, IInvParts, LoopTyped, LoopIndices
  <2>2. has_percentage' \in BOOLEAN
    BY <1>1, IInvParts, LoopFlag
  <2> QED
    BY Zenon, <2>1, <2>2 DEF IInv, TypeOK, Typed, Indices
<1> QED
  BY <1>1, WriteLikeKeeps, LikeFunctionKeeps DEF Next

(* A step that changes nothing keeps the invariant.                         *)
LEMMA StutterKeeps ==
    ASSUME IInv, UNCHANGED vars
    PROVE  IInv'
<1> QED
  BY DEF vars, IInv, TypeOK, LoopInv, slen, plen

(* The invariant holds in every state of every behaviour.                   *)
LEMMA Inductive == Spec => []IInv
<1>1. Init => IInv
  BY InitEstablishes
<1>2. IInv /\ [Next]_vars => IInv'
  BY StepKeeps, StutterKeeps
<1> QED
  BY <1>1, <1>2, PTL DEF Spec

\* SQLiteLikeMatches reads its two buffers only inside their bounds, for all
\* texts, patterns and escape strings.
THEOREM LikeReadsInBounds == Spec => []TypeOK
<1>1. IInv => TypeOK
  BY DEF IInv
<1> QED
  BY <1>1, Inductive, PTL

\* The matching loop cannot run forever: every iteration moves the retry
\* position forward, or keeps it and moves forward in the pattern, or leaves
\* the loop; both are bounded by LikeReadsInBounds.
THEOREM LikeMakesProgress == Spec => Progress
<1>1. IInv /\ [Next]_vars => [MovesOn]_vars
  BY StepKeeps
<1> QED
  BY <1>1, Inductive, PTL DEF Spec, Progress
==============================================================================
