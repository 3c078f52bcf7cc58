---- MODULE ColumnReads ----
(***************************************************************************)
(* How a column of a SQLite table becomes a DuckDB column.  A declared type *)
(* gives a DuckDB type by the extension's rules and an affinity by SQLite's, *)
(* and SQLite stores values of any class in any column.  The same query is   *)
(* answered in two ways: the table scan converts the stored values and       *)
(* DuckDB evaluates the query, or SQLite evaluates it over the expressions   *)
(* the writer reads the columns with, and the result is converted.           *)
(*                                                                           *)
(* A declared type is the set of the keywords it contains.  A number is      *)
(* counted in halves, so that 3 is 1.5; a text is what it spells.            *)
(***************************************************************************)
EXTENDS Integers, Sequences, FiniteSets, TLC

CONSTANTS
    DeclaredTypes,  \* sets of keywords
    ClientValues,   \* what other SQLite clients insert
    MaxStored         \* bound on the rows of the table

VARIABLES
    declared,       \* the keywords of the column's declared type
    nocase,         \* is the column declared with COLLATE NOCASE
    all_varchar,    \* the setting sqlite_all_varchar
    stored,         \* the values of the column, in row id order
    written,        \* the rows DuckDB wrote, and the values it wrote
    query,          \* the query that is asked both ways, or NoQuery
    read,           \* what DuckDB answers over the table scan
    pushed          \* what the pushed down query answers

readVars == <<declared, nocase, all_varchar, stored, written, query, read, pushed>>

(* Texts: "1" is Text("int", 1); "1.5" is Text("real", 3); a word; a day; a
   day and a time.  Far is a day whose year has five digits. *)
Far == 9
Text(kind, n) == [kind |-> kind, n |-> n]

(* Values of SQLite: a storage class and a number or a text. *)
Classes == {"NULL", "INTEGER", "FLOAT", "TEXT", "BLOB"}
ASSUME ClientValuesAssumption == \A s \in ClientValues : s.class \in Classes

SqlNull == [class |-> "NULL", num |-> 0, text |-> Text("word", 0)]
Integer(n) == [SqlNull EXCEPT !.class = "INTEGER", !.num = 2 * n]
Real(h) == [SqlNull EXCEPT !.class = "FLOAT", !.num = h]
TextValue(t) == [SqlNull EXCEPT !.class = "TEXT", !.text = t]
BlobValue(t) == [SqlNull EXCEPT !.class = "BLOB", !.text = t]

\* SQLite's numbers, and the texts that spell one.
IsNumber(s) == s.class \in {"INTEGER", "FLOAT"}
IsNumeric(t) == t.kind \in {"int", "real"}
NumberOf(t) == IF t.kind = "int" THEN 2 * t.n ELSE t.n

\* The text of a value; a blob is read as its bytes.
ValueText(s) == IF s.class = "INTEGER" THEN Text("int", s.num \div 2)
                ELSE IF s.class = "FLOAT" THEN Text("real", s.num) ELSE s.text

(* Texts in byte order.  A day is written 1970-01-0x, the far one 10000-01-01,
   a word "A" or "a". *)
DayLength == 10
TextRank(t) == CASE t = Text("int", 1) -> 1
                 [] t = Text("real", 2) -> 2
                 [] t = Text("real", 3) -> 3
                 [] t = Text("day", Far) -> 4
                 [] t.kind = "day" /\ t.n # Far -> 20 * (t.n + 1)
                 [] t.kind = "time" -> 20 * ((t.n \div DayLength) + 1) + 1 + (t.n % DayLength)
                 [] t = Text("int", 2) -> 90
                 [] t.kind = "word" -> 95 + t.n

-----------------------------------------------------------------------------
(* Types and affinities *)

TypeToLogicalType(k) ==
    CASE "int" \in k -> "BIGINT"
      [] "int" \notin k /\ "bool" \in k -> "BIGINT"
      [] k \intersect {"int", "bool"} = {} /\ "text" \in k -> "VARCHAR"
      [] k \intersect {"int", "bool", "text"} = {} /\ ("blob" \in k \/ k = {}) -> "BLOB"
      [] k \intersect {"int", "bool", "text", "blob"} = {} /\ "real" \in k -> "DOUBLE"
      [] k = {"date"} -> "DATE"
      [] k \intersect {"int", "bool", "text", "blob", "real"} = {} /\ "time" \in k -> "TIMESTAMP"
      [] k \intersect {"int", "bool", "text", "blob", "real", "time"} = {} /\ "dec" \in k -> "DOUBLE"
      [] OTHER -> "VARCHAR"

\* SQLite's rules, from the declared type.
Affinity(k) ==
    CASE "int" \in k -> "INTEGER"
      [] "int" \notin k /\ "text" \in k -> "TEXT"
      [] k \intersect {"int", "text"} = {} /\ ("blob" \in k \/ k = {}) -> "BLOB"
      [] k \intersect {"int", "text", "blob"} = {} /\ "real" \in k -> "REAL"
      [] OTHER -> "NUMERIC"

HasTextAffinity == "int" \notin declared /\ "text" \in declared

RealAffinity == declared \intersect {"int", "text", "blob"} = {} /\ "real" \in declared

ColumnType == IF all_varchar THEN "VARCHAR" ELSE TypeToLogicalType(declared)

\* What SQLite stores for a value in a column of an affinity.
Stored(affinity, s) ==
    IF affinity = "TEXT" /\ IsNumber(s) THEN TextValue(ValueText(s))
    ELSE IF affinity \in {"INTEGER", "NUMERIC", "REAL"} /\ (IsNumber(s) \/ (s.class = "TEXT" /\ IsNumeric(s.text)))
         THEN LET h == IF IsNumber(s) THEN s.num ELSE NumberOf(s.text)
              IN IF affinity # "REAL" /\ h % 2 = 0 THEN Integer(h \div 2) ELSE Real(h)
    ELSE s

-----------------------------------------------------------------------------
(* DuckDB's values: a type, and a number or a text.  A TIMESTAMP is counted
   in half seconds and a DATE in days of DayLength half seconds. *)

Number(type, n) == [type |-> type, num |-> n, text |-> SqlNull.text]
Bytes(type, t) == [type |-> type, num |-> 0, text |-> t]
NullValue == Number("NULL", 0)
Error == Number("ERROR", 0)

DayOf(ts) == ts \div DayLength

\* The storage classes a column is read from as they are.
Matches(type, s) ==
    CASE type = "BIGINT" -> s.class = "INTEGER"
      [] type = "DOUBLE" -> s.class \in {"FLOAT", "INTEGER"}
      [] type = "VARCHAR" -> s.class = "TEXT"
      [] OTHER -> TRUE

\* A date or a timestamp from an ISO text or from a unix timestamp.
ReadTime(type, s) ==
    CASE IsNumber(s) /\ type = "DATE" -> Number(type, DayOf(s.num))
      [] IsNumber(s) /\ type = "TIMESTAMP" -> Number(type, s.num)
      [] s.class = "TEXT" /\ type = "DATE" /\ s.text.kind = "day" -> Number(type, s.text.n)
      [] s.class = "TEXT" /\ type = "DATE" /\ s.text.kind = "time" -> Number(type, DayOf(s.text.n))
      [] s.class = "TEXT" /\ type = "TIMESTAMP" /\ s.text.kind = "day" -> Number(type, s.text.n * DayLength)
      [] s.class = "TEXT" /\ type = "TIMESTAMP" /\ s.text.kind = "time" -> Number(type, s.text.n)
      [] OTHER -> Error

\* A value as the table scan reads it: CheckTypeMatches or
\* CheckTypeIsFloatOrInteger, then the conversion.
ScanValue(s) ==
    CASE s.class = "NULL" -> NullValue
      [] s.class # "NULL" /\ ColumnType \in {"BIGINT", "DOUBLE"} ->
             IF Matches(ColumnType, s) THEN Number(ColumnType, s.num) ELSE Error
      [] s.class # "NULL" /\ ColumnType = "VARCHAR" ->
             IF all_varchar \/ Matches("VARCHAR", s) THEN Bytes("VARCHAR", ValueText(s)) ELSE Error
      [] s.class # "NULL" /\ ColumnType = "BLOB" -> Bytes("BLOB", ValueText(s))
      [] s.class # "NULL" /\ ColumnType \in {"DATE", "TIMESTAMP"} -> ReadTime(ColumnType, s)

-----------------------------------------------------------------------------
(* Pushed down: the expression that reads the column, and its value. *)

\* Faulty variant: a VARCHAR column is never cast.
ColumnReadBareText ==
    CASE ColumnType = "BIGINT" -> "bare"
      [] ColumnType = "DOUBLE" -> IF RealAffinity THEN "bare" ELSE "CAST AS REAL"
      [] ColumnType \in {"DATE", "TIMESTAMP"} -> "duckdb_read"
      [] ColumnType = "BLOB" -> "CAST AS BLOB"
      [] ColumnType = "VARCHAR" -> "bare"

\* SQLiteColumnRead.
ColumnRead ==
    CASE ColumnType = "BIGINT" -> "bare"
      [] ColumnType = "DOUBLE" -> IF RealAffinity THEN "bare" ELSE "CAST AS REAL"
      [] ColumnType \in {"DATE", "TIMESTAMP"} -> "duckdb_read"
      [] ColumnType = "BLOB" -> "CAST AS BLOB"
      [] ColumnType = "VARCHAR" -> IF all_varchar \/ ~HasTextAffinity THEN "CAST AS TEXT" ELSE "bare"

\* The collation of the expression: a VARCHAR column is read with COLLATE BINARY.
ComparesBinary == ColumnType = "VARCHAR" \/ ~nocase

HasCanonicalText(v) == v.num < (IF v.type = "DATE" THEN Far ELSE Far * DayLength)

\* SetResult of a date or a timestamp: its text, if that has four digits for the year.
SetResult(v) ==
    CASE v = NullValue -> SqlNull
      [] v.type = "DATE" /\ HasCanonicalText(v) -> TextValue(Text("day", v.num))
      [] v.type = "TIMESTAMP" /\ HasCanonicalText(v) -> TextValue(Text("time", v.num))
      [] OTHER -> [SqlNull EXCEPT !.class = "ERROR"]

\* SQLite's CAST.
CastReal(s) == IF IsNumber(s) THEN Real(s.num)
               ELSE Real(IF IsNumeric(s.text) THEN NumberOf(s.text) ELSE 0)

\* The value of the expression that reads the column.
Evaluate(s) ==
    CASE s.class = "NULL" \/ ColumnRead = "bare" -> s
      [] s.class # "NULL" /\ ColumnRead = "CAST AS REAL" -> CastReal(s)
      [] s.class # "NULL" /\ ColumnRead = "CAST AS TEXT" -> TextValue(ValueText(s))
      [] s.class # "NULL" /\ ColumnRead = "CAST AS BLOB" -> BlobValue(ValueText(s))
      [] s.class # "NULL" /\ ColumnRead = "duckdb_read" -> SetResult(ReadTime(ColumnType, s))

ReadAffinity ==
    CASE ColumnRead = "bare" -> Affinity(declared)
      [] ColumnRead = "CAST AS REAL" -> "REAL"
      [] ColumnRead = "CAST AS TEXT" -> "TEXT"
      [] OTHER -> "BLOB"

\* A constant of a query, as the writer writes it.
Constant(v) ==
    CASE v.type = "BIGINT" -> Integer(v.num \div 2)
      [] v.type = "DOUBLE" -> Real(v.num)
      [] v.type = "VARCHAR" -> TextValue(v.text)
      [] v.type = "BLOB" -> BlobValue(v.text)
      [] OTHER -> SetResult(v)

(* SQLite's comparison: the affinity of the column is applied to the constant,
   then numbers come before texts and texts before blobs. *)
ClassRank(s) == CASE IsNumber(s) -> 1 [] s.class = "TEXT" -> 2 [] s.class = "BLOB" -> 3
                  [] s.class \in {"NULL", "ERROR"} -> 0
ByteRank(s) == IF ~ComparesBinary /\ s.class = "TEXT" /\ s.text.kind = "word" THEN 95 ELSE TextRank(s.text)
SqlLess(x, y) ==
    \/ ClassRank(x) < ClassRank(y)
    \/ ClassRank(x) = 1 /\ ClassRank(y) = 1 /\ x.num < y.num
    \/ ClassRank(x) = ClassRank(y) /\ ClassRank(x) > 1 /\ ByteRank(x) < ByteRank(y)
SqlEqual(x, y) == ~SqlLess(x, y) /\ ~SqlLess(y, x)

Converted(c) == IF ReadAffinity = "BLOB" THEN c ELSE Stored(ReadAffinity, c)

\* ToDuckDBValue for a value of another storage class than the type is stored in.
ToDuckDBValue(type, s) ==
    CASE type \in {"DATE", "TIMESTAMP"} -> ReadTime(type, s)
      [] type \in {"VARCHAR", "BLOB"} -> Bytes(type, ValueText(s))
      [] type \in {"BIGINT", "DOUBLE"} ->
             LET h == IF IsNumber(s) THEN s.num ELSE NumberOf(s.text)
             IN IF IsNumber(s) \/ (s.class = "TEXT" /\ IsNumeric(s.text))
                THEN Number(type, IF type = "BIGINT" THEN 2 * ((h + 1) \div 2) ELSE h) ELSE Error

\* SqliteReadTypedValue: a value of the result of the pushed down query.
ReadTypedValue(s) ==
    CASE s.class = "NULL" -> NullValue
      [] s.class # "NULL" /\ ColumnType \in {"BIGINT", "DOUBLE"} /\ Matches(ColumnType, s) -> Number(ColumnType, s.num)
      [] s.class = "TEXT" /\ ColumnType = "VARCHAR" -> Bytes("VARCHAR", s.text)
      [] s.class = "BLOB" /\ ColumnType = "BLOB" -> Bytes("BLOB", s.text)
      [] OTHER -> ToDuckDBValue(ColumnType, s)

-----------------------------------------------------------------------------
(* The system *)

NoQuery == [op |-> "none", constant |-> NullValue]
NoAnswer == <<Number("NONE", 0)>>
Raised == <<Error>>

ReadInit ==
    /\ declared \in DeclaredTypes /\ nocase \in BOOLEAN /\ all_varchar \in BOOLEAN
    /\ stored = <<>> /\ written = <<>>
    /\ query = NoQuery /\ read = NoAnswer /\ pushed = NoAnswer

\* Another client of the database inserts a value.
ClientInsert(s) ==
    /\ query = NoQuery /\ Len(stored) < MaxStored
    /\ stored' = Append(stored, Stored(Affinity(declared), s))
    /\ UNCHANGED <<declared, nocase, all_varchar, written, query, read, pushed>>

\* Faulty variant: the values are not cast to the types SQLite stores.
BindValueUncast(v) ==
    CASE v = NullValue -> SqlNull
      [] v.type \in {"BIGINT", "DATE", "TIMESTAMP"} -> Integer(v.num \div 2)
      [] v.type = "DOUBLE" -> Real(v.num)
      [] v.type = "BLOB" -> BlobValue(v.text)
      [] v.type = "VARCHAR" -> TextValue(v.text)

\* A value of a type of DuckDB, as BindValue binds it after AddCastToSQLiteTypes.
BindValue(v) ==
    CASE v = NullValue -> SqlNull
      [] v.type = "BIGINT" -> Integer(v.num \div 2)
      [] v.type = "DOUBLE" -> Real(v.num)
      [] v.type = "BLOB" -> BlobValue(v.text)
      [] v.type = "VARCHAR" -> TextValue(v.text)
      [] v.type = "DATE" -> TextValue(Text("day", v.num))
      [] v.type = "TIMESTAMP" -> TextValue(Text("time", v.num))

Domain(type) ==
    CASE type = "BIGINT" -> {Number(type, 2), Number(type, 4)}
      [] type = "DOUBLE" -> {Number(type, 2), Number(type, 3)}
      [] type \in {"VARCHAR", "BLOB"} -> {Bytes(type, Text("int", 1)), Bytes(type, Text("word", 2))}
      [] type = "DATE" -> {Number(type, 0), Number(type, 1)}
      [] type = "TIMESTAMP" -> {Number(type, 2), Number(type, DayLength)}

\* The sink of an INSERT, for one row.
DuckDBInsert(v) ==
    /\ query = NoQuery /\ Len(stored) < MaxStored
    /\ stored' = Append(stored, Stored(Affinity(declared), BindValue(v)))
    /\ written' = Append(written, [row |-> Len(stored) + 1, value |-> v])
    /\ UNCHANGED <<declared, nocase, all_varchar, query, read, pushed>>

Queries == {[op |-> o, constant |-> NullValue] : o \in {"select", "order", "update"}}
           \union [op : {"less", "equal"}, constant : Domain(ColumnType)]

Ask(q) ==
    /\ query = NoQuery
    /\ query' = q
    /\ UNCHANGED <<declared, nocase, all_varchar, stored, written, read, pushed>>

\* DuckDB's order of the values of a type.
Less(x, y) == IF x.type \in {"VARCHAR", "BLOB"} THEN TextRank(x.text) < TextRank(y.text) ELSE x.num < y.num

Column == [i \in 1..Len(stored) |-> ScanValue(stored[i])]
Raises(column) == \E i \in 1..Len(column) : column[i] = Error

\* The answer over the table scan, with no filter pushed into it (see module
\* FilterPushdown).  An update reads the column of every row.
SqliteScan ==
    /\ query # NoQuery /\ read = NoAnswer
    /\ read' =
         CASE Raises(Column) -> Raised
           [] ~Raises(Column) /\ query.op = "select" -> Column
           [] ~Raises(Column) /\ query.op = "update" -> <<>>
           [] ~Raises(Column) /\ query.op = "less" ->
                  SelectSeq(Column, LAMBDA v : v # NullValue /\ Less(v, query.constant))
           [] ~Raises(Column) /\ query.op = "equal" -> SelectSeq(Column, LAMBDA v : v = query.constant)
           [] ~Raises(Column) /\ query.op = "order" ->
                  SortSeq(Column, LAMBDA v, w : v # NullValue /\ (w = NullValue \/ Less(v, w)))
    /\ UNCHANGED <<declared, nocase, all_varchar, stored, written, query, pushed>>

Evaluated == [i \in 1..Len(stored) |-> Evaluate(stored[i])]

\* The rows of the result, in SQLite.
ResultRows ==
    LET c == Converted(Constant(query.constant))
    IN CASE query.op = "select" -> Evaluated
         [] query.op = "less" -> SelectSeq(Evaluated, LAMBDA s : s.class # "NULL" /\ SqlLess(s, c))
         [] query.op = "equal" -> SelectSeq(Evaluated, LAMBDA s : s.class # "NULL" /\ SqlEqual(s, c))
         [] query.op = "order" ->
                SortSeq(Evaluated, LAMBDA s, u : s.class # "NULL" /\ (u.class = "NULL" \/ SqlLess(s, u)))
         [] query.op = "update" -> <<>>

\* Faulty variant: only integers are checked.
CheckTypeInteger(s) == ColumnType # "BIGINT" \/ s.class \in {"INTEGER", "NULL"}

\* duckdb_check_type, for the columns that a pushed down UPDATE reads.
CheckType(s) ==
    \/ s.class = "NULL" \/ all_varchar
    \/ ColumnType \notin {"BIGINT", "DOUBLE", "VARCHAR"}
    \/ Matches(ColumnType, s)

RemoteQuery ==
    /\ query # NoQuery /\ pushed = NoAnswer
    /\ LET typed == [i \in 1..Len(ResultRows) |-> ReadTypedValue(ResultRows[i])]
       IN pushed' = IF \/ \E i \in 1..Len(stored) : Evaluated[i].class = "ERROR"
                       \/ query.op = "update" /\ \E i \in 1..Len(stored) : ~CheckType(stored[i])
                       \/ Raises(typed)
                    THEN Raised ELSE typed
    /\ UNCHANGED <<declared, nocase, all_varchar, stored, written, query, read>>

ReadNext ==
    \/ \E s \in ClientValues : ClientInsert(s)
    \/ \E v \in Domain(ColumnType) \union {NullValue} : DuckDBInsert(v)
    \/ \E q \in Queries : Ask(q)
    \/ SqliteScan \/ RemoteQuery

ReadSpec == ReadInit /\ [][ReadNext]_readVars

-----------------------------------------------------------------------------
(* Properties *)

\* The types of the variables; an answer has values of the column's type only.
ReadTypeOK ==
    /\ declared \in DeclaredTypes /\ nocase \in BOOLEAN /\ all_varchar \in BOOLEAN
    /\ \A i \in 1..Len(stored) : stored[i].class \in Classes
    /\ \A i \in 1..Len(written) : written[i].row \in 1..Len(stored)
    /\ query \in {NoQuery} \union Queries
    /\ \A a \in {read, pushed} : \A i \in 1..Len(a) : a[i].type \in {ColumnType, "NULL", "ERROR", "NONE"}

Answered == read # NoAnswer /\ pushed # NoAnswer

\* A date or a timestamp whose year does not have four digits.
HasFar == \E i \in 1..Len(stored) :
             LET v == ScanValue(stored[i]) IN v.type \in {"DATE", "TIMESTAMP"} /\ ~HasCanonicalText(v)

\* Columns are read the way the table scan reads them: where the scan does not
\* reject a value, a selection, a comparison and an order have the same answer
\* in SQLite, whatever the affinity and the collation of the column.  Dates
\* that would not order correctly as text raise an error instead.  Every value
\* of an answer has the column's type.
ReadAlike ==
    /\ ReadTypeOK
    /\ Answered /\ read # Raised => pushed = IF HasFar THEN Raised ELSE read

\* A pushed down UPDATE rejects the values that the table scan rejects, and no
\* others (far dates aside).
UpdateChecksLikeScan ==
    Answered /\ query.op = "update" /\ ~HasFar => (pushed = Raised <=> read = Raised)

\* The column stores what DuckDB's type for it needs: DuckDB writes columns of
\* these kinds itself.
Consistent ==
    CASE ColumnType = "BIGINT" -> Affinity(declared) \in {"INTEGER", "NUMERIC"}
      [] ColumnType = "VARCHAR" -> HasTextAffinity
      [] OTHER -> TRUE

\* What DuckDB writes, it reads again, through SQLite's affinity conversions.
WrittenIsRead ==
    ~all_varchar /\ Consistent =>
      \A i \in 1..Len(written) : ScanValue(stored[written[i].row]) = written[i].value
====
