---- MODULE DateFunctions ----
(***************************************************************************)
(* duckdb_date_part, duckdb_date_trunc, duckdb_date_diff and the last_day    *)
(* expression of pushed down queries.  A timestamp counts microseconds from  *)
(* 1970-01-01, and is negative before.  The calendar is the real one; the    *)
(* units of the time of a day are constants, so that a day has few           *)
(* microseconds.                                                             *)
(***************************************************************************)
EXTENDS Integers

CONSTANTS
    Timestamps,                        \* the arguments of the calls
    MSEC, SEC, MINUTE, HOUR, DAY       \* microseconds in each unit

ASSUME UnitsAssumption ==
    /\ {MSEC, SEC, MINUTE, HOUR, DAY} \subseteq Nat \ {0}
    /\ SEC % MSEC = 0 /\ MINUTE % SEC = 0 /\ HOUR % MINUTE = 0 /\ DAY % HOUR = 0

VARIABLES
    invocation,       \* the function, the part and the arguments
    answer      \* what SQLite gets from it

dateVars == <<invocation, answer>>

-----------------------------------------------------------------------------
(* Division.  C truncates towards zero. *)

CDivide(v, u) == IF v >= 0 THEN v \div u ELSE -((-v) \div u)

\* Faulty variant: C's division, on both sides of 1970.
FloorDivideC(v, u) == CDivide(v, u)

FloorDivide(v, u) == LET negative == IF v < 0 THEN 1 ELSE 0 IN CDivide(v + negative, u) - negative

\* Faulty variant: a negative timestamp is always moved down.
TruncFixedAlways(v, u) == (CDivide(v, u) - (IF v < 0 THEN 1 ELSE 0)) * u

TruncFixed(v, u) ==
    LET remainder == v - CDivide(v, u) * u
    IN (CDivide(v, u) - (IF remainder # 0 /\ v < 0 THEN 1 ELSE 0)) * u

-----------------------------------------------------------------------------
(* The calendar, in days from 1970-01-01. *)

FromDate(y, month, day) ==
    LET y1 == IF month <= 2 THEN y - 1 ELSE y
        doy == ((153 * (month + (IF month > 2 THEN -3 ELSE 9)) + 2) \div 5) + day - 1
        yoe == y1 % 400
    IN (y1 \div 400) * 146097 + yoe * 365 + (yoe \div 4) - (yoe \div 100) + doy - 719468

Convert(d) ==
    LET doe == (d + 719468) % 146097
        yoe == (doe - (doe \div 1460) + (doe \div 36524) - (doe \div 146096)) \div 365
        doy == doe - (365 * yoe + (yoe \div 4) - (yoe \div 100))
        mp == (5 * doy + 2) \div 153
        month == IF mp < 10 THEN mp + 3 ELSE mp - 9
    IN [year |-> yoe + ((d + 719468) \div 146097) * 400 + (IF month <= 2 THEN 1 ELSE 0),
        month |-> month, day |-> doy - ((153 * mp + 2) \div 5) + 1]

Year(d) == Convert(d).year
Month(d) == Convert(d).month
Monday(d) == d - ((d + 3) % 7)
ISOYear(d) == Year(Monday(d) + 3)
ISOWeek(d) == ((Monday(d) - Monday(FromDate(ISOYear(d), 1, 4))) \div 7) + 1
ISODayOfWeek(d) == d - Monday(d) + 1
GetDate(ts) == ts \div DAY
GetTime(ts) == ts % DAY

-----------------------------------------------------------------------------
(* The functions *)

DatePart(part, ts) ==
    LET d == GetDate(ts)
        t == GetTime(ts)
    IN CASE part = "year" -> Year(d)
         [] part = "month" -> Month(d)
         [] part = "day" -> Convert(d).day
         [] part = "decade" -> CDivide(Year(d), 10)
         [] part = "century" -> IF Year(d) > 0 THEN CDivide(Year(d) - 1, 100) + 1 ELSE CDivide(Year(d), 100) - 1
         [] part = "millennium" -> IF Year(d) > 0 THEN CDivide(Year(d) - 1, 1000) + 1 ELSE CDivide(Year(d), 1000) - 1
         [] part = "quarter" -> CDivide(Month(d) - 1, 3) + 1
         [] part = "dow" -> ISODayOfWeek(d) % 7
         [] part = "isodow" -> ISODayOfWeek(d)
         [] part = "doy" -> d - FromDate(Year(d), 1, 1) + 1
         [] part = "week" -> ISOWeek(d)
         [] part = "isoyear" -> ISOYear(d)
         [] part = "yearweek" -> ISOYear(d) * 100 + (IF ISOYear(d) > 0 THEN ISOWeek(d) ELSE -ISOWeek(d))
         [] part = "era" -> IF Year(d) > 0 THEN 1 ELSE 0
         [] part = "microsecond" -> t % MINUTE
         [] part = "millisecond" -> (t % MINUTE) \div MSEC
         [] part = "second" -> (t % MINUTE) \div SEC
         [] part = "minute" -> (t % HOUR) \div MINUTE
         [] part = "hour" -> t \div HOUR

DateTrunc(part, ts) ==
    LET d == GetDate(ts)
        y == Year(d)
        start == CASE part = "millennium" -> FromDate(CDivide(y, 1000) * 1000, 1, 1)
                   [] part = "century" -> FromDate(CDivide(y, 100) * 100, 1, 1)
                   [] part = "decade" -> FromDate(CDivide(y, 10) * 10, 1, 1)
                   [] part = "year" -> FromDate(y, 1, 1)
                   [] part = "quarter" -> FromDate(y, 1 + CDivide(Month(d) - 1, 3) * 3, 1)
                   [] part = "month" -> FromDate(y, Month(d), 1)
                   [] part = "week" -> Monday(d)
                   [] part = "isoyear" -> Monday(d) - (ISOWeek(Monday(d)) - 1) * 7
                   [] part = "day" -> d
    IN CASE part = "hour" -> TruncFixed(ts, HOUR)
         [] part = "minute" -> TruncFixed(ts, MINUTE)
         [] part = "second" -> TruncFixed(ts, SEC)
         [] part = "millisecond" -> TruncFixed(ts, MSEC)
         [] part = "microsecond" -> ts
         [] OTHER -> start * DAY

Months(d) == Year(d) * 12 + Month(d) - 1

DateDiff(part, start, end) ==
    LET s == GetDate(start)
        e == GetDate(end)
        diff(units) == FloorDivide(end, units) - FloorDivide(start, units)
    IN CASE part = "year" -> Year(e) - Year(s)
         [] part = "month" -> Months(e) - Months(s)
         [] part = "day" -> e - s
         [] part = "decade" -> CDivide(Year(e), 10) - CDivide(Year(s), 10)
         [] part = "century" -> CDivide(Year(e), 100) - CDivide(Year(s), 100)
         [] part = "millennium" -> CDivide(Year(e), 1000) - CDivide(Year(s), 1000)
         [] part = "quarter" -> CDivide(Months(e), 3) - CDivide(Months(s), 3)
         [] part = "week" -> CDivide(e - s, 7)
         [] part = "isoyear" -> ISOYear(e) - ISOYear(s)
         [] part = "microsecond" -> end - start
         [] part = "millisecond" -> diff(MSEC)
         [] part = "second" -> diff(SEC)
         [] part = "minute" -> diff(MINUTE)
         [] part = "hour" -> diff(HOUR)

\* The CASE expression the writer writes for last_day: a date.
LastDay(ts) ==
    LET c == Convert(GetDate(ts))
    IN IF c.month = 12 THEN FromDate(c.year, 12, 31) ELSE FromDate(c.year, c.month + 1, 1) - 1

-----------------------------------------------------------------------------
(* Calls *)

TruncParts == {"millennium", "century", "decade", "year", "quarter", "month", "week", "isoyear", "day",
               "hour", "minute", "second", "millisecond", "microsecond"}
DiffParts == TruncParts
PartParts == DiffParts \union {"dow", "isodow", "doy", "yearweek", "era"}

NoAnswer == [kind |-> "none", value |-> 0]
Number(n) == [kind |-> "integer", value |-> n]
Error == [kind |-> "error", value |-> 0]

Representable(d) == Year(d) >= 1 /\ Year(d) <= 9999

\* The arguments are texts of timestamps that SetResult or the writer wrote.
ASSUME TimestampsAssumption == \A ts \in Timestamps : ts \in Int /\ Representable(GetDate(ts))

\* SetResult of a TIMESTAMP.
SetTimestamp(ts) == IF Representable(GetDate(ts)) THEN [kind |-> "timestamp", value |-> ts] ELSE Error

DateInit ==
    /\ invocation \in [function : {"date_part"}, part : PartParts, start : Timestamps, end : {0}]
             \union [function : {"date_trunc"}, part : TruncParts, start : Timestamps, end : {0}]
             \union [function : {"last_day"}, part : {"month"}, start : Timestamps, end : {0}]
             \union [function : {"date_diff"}, part : DiffParts, start : Timestamps, end : Timestamps]
    /\ answer = NoAnswer

Invoke(function, r) ==
    /\ invocation.function = function /\ answer = NoAnswer
    /\ answer' = r
    /\ UNCHANGED invocation

DatePartFunction == Invoke("date_part", Number(DatePart(invocation.part, invocation.start)))
DateTruncFunction == Invoke("date_trunc", SetTimestamp(DateTrunc(invocation.part, invocation.start)))
DateDiffFunction == Invoke("date_diff", Number(DateDiff(invocation.part, invocation.start, invocation.end)))
LastDayExpression == Invoke("last_day", Number(LastDay(invocation.start)))

DateNext == DatePartFunction \/ DateTruncFunction \/ DateDiffFunction \/ LastDayExpression

DateSpec == DateInit /\ [][DateNext]_dateVars

-----------------------------------------------------------------------------
(* Properties *)

\* The types of the variables; a timestamp SQLite gets has a year of four digits.
DateTypeOK ==
    /\ invocation.start \in Timestamps /\ invocation.end \in Timestamps \union {0}
    /\ answer.kind \in {"none", "integer", "timestamp", "error"} /\ answer.value \in Int
    /\ answer.kind = "timestamp" => Representable(GetDate(answer.value))

Done(function) == invocation.function = function /\ answer # NoAnswer

\* The number of the period a timestamp is in: what the parts mean.
Period(part, ts) ==
    LET d == ts \div DAY
    IN CASE part = "millennium" -> Year(d) \div 1000
         [] part = "century" -> Year(d) \div 100
         [] part = "decade" -> Year(d) \div 10
         [] part = "year" -> Year(d)
         [] part = "quarter" -> Year(d) * 4 + ((Month(d) - 1) \div 3)
         [] part = "month" -> Year(d) * 12 + Month(d)
         [] part = "week" -> (d + 3) \div 7
         [] part = "isoyear" -> Year(7 * ((d + 3) \div 7))
         [] part = "day" -> d
         [] part = "hour" -> ts \div HOUR
         [] part = "minute" -> ts \div MINUTE
         [] part = "second" -> ts \div SEC
         [] part = "millisecond" -> ts \div MSEC
         [] part = "microsecond" -> ts

\* date_trunc gives the first instant of the period of its argument, before
\* 1970 as well, and an error when that instant is before the year 1.  last_day
\* gives the last day of the month, in December 9999 as well, after which there
\* is no day in SQLite.
PeriodBoundsExact ==
    /\ DateTypeOK
    /\ Done("date_trunc") =>
         LET first == DateTrunc(invocation.part, invocation.start)
         IN /\ first <= invocation.start
            /\ Period(invocation.part, first) = Period(invocation.part, invocation.start)
            /\ Period(invocation.part, first - 1) # Period(invocation.part, first)
            /\ answer = IF Year(first \div DAY) < 1 THEN Error ELSE [kind |-> "timestamp", value |-> first]
    /\ Done("last_day") =>
         LET month(d) == Period("month", d * DAY)
         IN /\ month(answer.value) = Period("month", invocation.start)
            /\ month(answer.value + 1) # month(answer.value)
            /\ Representable(answer.value)

\* date_diff is the number of part boundaries between its arguments, as its
\* comment says.  Weeks are a distance.
DiffCountsBoundaries ==
    Done("date_diff") /\ invocation.part # "week" =>
      answer.value = Period(invocation.part, invocation.end) - Period(invocation.part, invocation.start)

\* The period a part is counted in, the unit it counts and its first number.
CountedIn ==
    [month |-> <<"year", "month", 1>>, quarter |-> <<"year", "quarter", 1>>, day |-> <<"month", "day", 1>>,
     doy |-> <<"year", "day", 1>>, isodow |-> <<"week", "day", 1>>, week |-> <<"isoyear", "week", 1>>,
     hour |-> <<"day", "hour", 0>>, minute |-> <<"hour", "minute", 0>>, second |-> <<"minute", "second", 0>>,
     millisecond |-> <<"minute", "millisecond", 0>>, microsecond |-> <<"minute", "microsecond", 0>>]

\* The three functions agree: a part is what date_diff counts from where
\* date_trunc puts the start of the enclosing period.
PartsCountFromTrunc ==
    Done("date_part") /\ invocation.part \in DOMAIN CountedIn =>
      LET c == CountedIn[invocation.part]
      IN answer.value = c[3] + DateDiff(c[2], DateTrunc(c[1], invocation.start), invocation.start)

====
