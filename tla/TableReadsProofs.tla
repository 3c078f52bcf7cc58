-------------------------- MODULE TableReadsProofs --------------------------
(***************************************************************************)
(* Filter pushdown is exact for every order of the values, every scan and  *)
(* every chunk size.  The invariant says what the conditions and the       *)
(* filters left for DuckDB are, once a column has been transformed         *)
(* (Transformed), and what the chunk and the emitted rows are while SQLite *)
(* steps (Accounted).                                                      *)
(*                                                                         *)
(* Columns are read in SQLite as the table scan reads them, for any stored *)
(* values.  What a declared type, a stored value and a written value come  *)
(* to is proved value by value (ReadAsScanned, WrittenReadsBack); the      *)
(* invariant says that the rows written are where they were put (RowsInv)  *)
(* and that an answer is the one for the rows stored (AnswersInv).         *)
(***************************************************************************)
EXTENDS FilterPushdown, ColumnReads, FiniteSetTheorems, TLAPS

\* What TransformFilters has made of the columns it has been through
Transformed ==
    /\ \A c \in Columns \ todo : c \in filters \/ (CanPushColumn(c) /\ TransformFilter(c))
    /\ \A condition \in conditions : \E c \in Columns : \E leaf \in scan.filter[c] :
          CanPushColumn(c) /\ Translates(leaf) /\ condition = <<c, leaf>>
    /\ \A c \in Columns \ todo : \A leaf \in scan.filter[c] :
          CanPushColumn(c) /\ Translates(leaf) => <<c, leaf>> \in conditions
    /\ stage # "transform" => todo = {}

\* The rows that pass all filters in DuckDB's order
PassesAll(r) == \A c \in Columns : Passes(r, c)

\* Where the rows are that SQLite has gone through
Accounted ==
    /\ \A r \in emitted : PassesAll(r)
    /\ \A r \in output : Selected(r) /\ (stage = "filtered" => PassesAll(r))
    /\ stage = "transform" => cursor = 0 /\ ~done
    /\ done => cursor = Len(scan.rows)
    /\ done /\ stage # "filtered" => output = {}
    /\ stage = "finished" => done

Shape ==
    /\ scan \in Scans
    /\ TypeOK

IInv == Shape /\ Transformed /\ NeverDropped /\ Accounted

\* A column that can be pushed down is compared in DuckDB's order.
LEMMA PushedOrder == \A c : CanPushColumn(c) => ConditionOrder(c) = "binary"
BY DEF CanPushColumn, ConditionOrder, SQLiteOrder

\* Once all columns are transformed, a row passes the filters if and only if SQLite selects it
\* and it passes the filters left for DuckDB.
LEMMA SplitFilter ==
    ASSUME Transformed, todo = {}, NEW r
    PROVE  PassesAll(r) <=> Selected(r) /\ \A c \in filters \cap Columns : Passes(r, c)
<1>1. ASSUME PassesAll(r), NEW condition \in conditions
      PROVE  Holds(condition[2], ConditionOrder(condition[1]), scan.rows[r][condition[1]])
  <2>0. PICK c \in Columns : \E leaf \in scan.filter[c] :
          CanPushColumn(c) /\ Translates(leaf) /\ condition = <<c, leaf>>
    BY <1>1 DEF Transformed
  <2>1. condition[1] \in Columns /\ CanPushColumn(condition[1])
    BY <2>0
  <2>2. condition[2] \in scan.filter[condition[1]] /\ Translates(condition[2])
    BY <2>0
  <2>3. condition[2].kind # "internal"
    BY <2>2 DEF Translates
  <2>4. Holds(condition[2], "binary", scan.rows[r][condition[1]])
    BY <1>1, <2>1, <2>2, <2>3 DEF PassesAll, Passes
  <2> QED BY <2>1, <2>4, PushedOrder
<1>2. ASSUME Selected(r), \A c \in filters \cap Columns : Passes(r, c), NEW c \in Columns
      PROVE  Passes(r, c)
  <2>1. CASE c \in filters
    BY <2>1, <1>2
  <2>2. CASE c \notin filters
    <3>1. CanPushColumn(c) /\ TransformFilter(c)
      BY <2>2 DEF Transformed
    <3> SUFFICES ASSUME NEW leaf \in scan.filter[c], leaf.kind # "internal"
                 PROVE  Holds(leaf, "binary", scan.rows[r][c])
      BY DEF Passes
    <3>2. Translates(leaf)
      BY <3>1 DEF TransformFilter
    <3>3. <<c, leaf>> \in conditions
      BY <3>1, <3>2 DEF Transformed
    <3>4. Holds(leaf, ConditionOrder(c), scan.rows[r][c])
      BY <3>3, <1>2 DEF Selected
    <3> QED BY <3>1, <3>4, PushedOrder
  <2> QED BY <2>1, <2>2
<1> QED BY <1>1, <1>2 DEF PassesAll, Selected

(* The invariant holds before the first filter is pushed.                   *)
LEMMA InitIInv == Init => IInv
<1> SUFFICES ASSUME Init PROVE IInv
  OBVIOUS
<1>1. Len(scan.rows) \in Nat
  BY ScansAssumption DEF Init
<1>2. Cardinality(output) = 0
  BY FS_EmptySet DEF Init
<1>3. Shape
  <2>1. done \in BOOLEAN
    BY Zenon DEF Init
  <2> QED BY <2>1, <1>1, <1>2, ChunkAssumption DEF Init, Shape, TypeOK
<1>4. Transformed /\ NeverDropped /\ Accounted
  BY <1>1 DEF Init, Transformed, NeverDropped, Accounted
<1> QED BY <1>3, <1>4 DEF IInv

\* The state of the filters is kept by the steps of the scan.
LEMMA KeepTransformed ==
    ASSUME Transformed, UNCHANGED <<scan, todo, conditions, filters>>,
           stage' # "transform" => todo = {}
    PROVE  Transformed'
BY DEF Transformed, CanPushColumn, TransformFilter, Translates

(* What the scan gives SQLite decides which rows pass, and nothing else     *)
(* does.                                                                    *)
LEMMA KeepPasses ==
    ASSUME UNCHANGED scan, NEW r
    PROVE  /\ \A c : Passes(r, c)' = Passes(r, c)
           /\ PassesAll(r)' = PassesAll(r)
           /\ UNCHANGED conditions => Selected(r)' = Selected(r)
<1>1. \A leaf, order, v : Holds(leaf, order, v)' = Holds(leaf, order, v)
  BY Zenon DEF Holds
<1>2. \A c : Passes(r, c)' = Passes(r, c)
  BY <1>1, Zenon DEF Passes
<1>3. PassesAll(r)' = PassesAll(r)
  BY <1>2, Zenon DEF PassesAll
<1>4. \A c : ConditionOrder(c)' = ConditionOrder(c)
  BY DEF ConditionOrder, SQLiteOrder
<1>5. UNCHANGED conditions => Selected(r)' = Selected(r)
  BY <1>1, <1>4, Zenon DEF Selected
<1> QED BY <1>2, <1>3, <1>5

(* Every step of the pushdown, and of the plan that it leaves behind, keeps *)
(* the invariant.                                                           *)
LEMMA NextIInv == IInv /\ [Next]_vars => IInv'
<1> SUFFICES ASSUME IInv, [Next]_vars PROVE IInv'
  OBVIOUS
<1> USE ChunkAssumption
<1>0. /\ scan \in Scans /\ TypeOK /\ Transformed /\ NeverDropped /\ Accounted
      /\ Len(scan.rows) \in Nat
  BY ScansAssumption DEF IInv, Shape
<1>f. IsFiniteSet(output) /\ Cardinality(output) \in Nat
  <2>1. IsFiniteSet(1..cursor)
    BY <1>0, FS_Interval DEF TypeOK
  <2>2. IsFiniteSet(output)
    BY <2>1, <1>0, FS_Subset DEF TypeOK
  <2> QED BY <2>2, FS_CardinalityType
<1>1. ASSUME NEW c \in Columns, TransformFilters(c) PROVE IInv'
  <2>1. Shape'
    BY <1>0, <1>1 DEF TransformFilters, Shape, TypeOK
  <2>2. /\ \A d : CanPushColumn(d)' = CanPushColumn(d) /\ TransformFilter(d)' = TransformFilter(d)
        /\ \A l : Translates(l)' = Translates(l)
    BY <1>1 DEF TransformFilters, CanPushColumn, TransformFilter, Translates
  <2>3. Transformed'
    <3>1. (\A d \in Columns \ todo : d \in filters \/ (CanPushColumn(d) /\ TransformFilter(d)))'
      BY <1>0, <1>1, <2>2 DEF TransformFilters, Transformed
    <3>2. \A condition \in conditions' :
             \/ condition \in conditions
             \/ CanPushColumn(c) /\ \E l \in scan.filter[c] : Translates(l) /\ condition = <<c, l>>
      BY <1>1 DEF TransformFilters
    <3>3. (\A condition \in conditions : \E d \in Columns : \E leaf \in scan.filter[d] :
             CanPushColumn(d) /\ Translates(leaf) /\ condition = <<d, leaf>>)'
      <4> SUFFICES ASSUME NEW condition \in conditions'
                   PROVE  \E d \in Columns : \E leaf \in scan.filter[d] :
                             CanPushColumn(d) /\ Translates(leaf) /\ condition = <<d, leaf>>
        BY <2>2, <1>1 DEF TransformFilters
      <4>1. CASE condition \in conditions
        BY <4>1, <1>0 DEF Transformed
      <4>2. CASE condition \notin conditions
        BY <4>2, <3>2
      <4> QED BY <4>1, <4>2
    <3>5. (\A d \in Columns \ todo : \A leaf \in scan.filter[d] :
             CanPushColumn(d) /\ Translates(leaf) => <<d, leaf>> \in conditions)'
      BY <1>0, <1>1, <2>2 DEF TransformFilters, Transformed
    <3>6. (stage # "transform" => todo = {})'
      BY <1>0, <1>1 DEF TransformFilters, Transformed
    <3> QED BY <3>1, <3>3, <3>5, <3>6 DEF Transformed
  <2>4. cursor = 0 /\ output = {} /\ emitted = {}
    BY <1>0, <1>1 DEF TransformFilters, TypeOK, Accounted
  <2>5. NeverDropped' /\ Accounted'
    BY <1>0, <1>1, <2>4 DEF TransformFilters, NeverDropped, Accounted
  <2> QED BY <2>1, <2>3, <2>5 DEF IInv
<1>2. CASE Prepared
  <2>1. Transformed'
    BY <1>0, <1>2, KeepTransformed DEF Prepared
  <2>2. \A r : PassesAll(r)' = PassesAll(r) /\ Selected(r)' = Selected(r)
    BY <1>2, KeepPasses DEF Prepared
  <2>3. NeverDropped'
    BY <1>0, <1>2, <2>2 DEF Prepared, NeverDropped, PassesAll
  <2>4. Shape' /\ Accounted'
    BY <1>0, <1>2, <2>2 DEF Prepared, Shape, TypeOK, Accounted
  <2> QED BY <2>1, <2>3, <2>4 DEF IInv
<1>3. CASE Step
  <2>1. Transformed'
    BY <1>0, <1>3, KeepTransformed DEF Step, Transformed
  <2>2. \A r : PassesAll(r)' = PassesAll(r) /\ Selected(r)' = Selected(r)
    BY <1>3, KeepPasses DEF Step
  <2>3. Cardinality(output') <= ChunkSize
    <3>1. CASE output' = output
      BY <3>1, <1>0 DEF TypeOK
    <3>2. CASE output' = output \cup {cursor + 1}
      <4>1. \/ Cardinality(output') = Cardinality(output)
            \/ Cardinality(output') = Cardinality(output) + 1
        BY <3>2, <1>f, FS_AddElement
      <4> QED BY <4>1, <1>f, <1>3 DEF Step
    <3> QED BY <3>1, <3>2, <1>3 DEF Step
  <2>4. Shape'
    BY <1>0, <1>3, <2>3 DEF Step, Shape, TypeOK
  <2>5. NeverDropped'
    <3> SUFFICES ASSUME NEW r \in 1..(cursor + 1), PassesAll(r)
                 PROVE  r \in output' \cup emitted
      BY <2>2, <1>3 DEF Step, NeverDropped, PassesAll
    <3>1. CASE r \in 1..cursor
      BY <3>1, <1>0, <1>3 DEF Step, NeverDropped, PassesAll
    <3>2. CASE r = cursor + 1
      <4>1. Selected(r)
        BY <1>0, <1>3, SplitFilter DEF Step, Transformed
      <4> QED BY <4>1, <3>2, <1>3 DEF Step
    <3> QED BY <3>1, <3>2, <1>0 DEF TypeOK
  <2>6. Accounted'
    BY <1>0, <1>3, <2>2 DEF Step, Accounted
  <2> QED BY <2>1, <2>4, <2>5, <2>6 DEF IInv
<1>4. CASE SqliteApplyFilters
  <2>1. Transformed'
    BY <1>0, <1>4, KeepTransformed DEF SqliteApplyFilters, Transformed
  <2>2. \A r : PassesAll(r)' = PassesAll(r) /\ Selected(r)' = Selected(r)
    BY <1>4, KeepPasses DEF SqliteApplyFilters
  <2>3. Cardinality(output') <= Cardinality(output) /\ Cardinality(output') \in Nat
    BY <1>f, <1>4, FS_Subset, FS_CardinalityType DEF SqliteApplyFilters
  <2>4. Shape'
    <3>1. Cardinality(output') <= ChunkSize
      BY <2>3, <1>f, <1>0 DEF TypeOK
    <3>2. done' \in BOOLEAN
      <4>1. (Cardinality(output) < ChunkSize) \in BOOLEAN
        BY <1>f
      <4>2. done' = (Cardinality(output) < ChunkSize)
        BY <1>4, Zenon DEF SqliteApplyFilters
      <4> QED BY <4>1, <4>2, Zenon
    <3>3. output' \subseteq output /\ UNCHANGED <<scan, todo, filters, cursor, emitted>>
          /\ stage' = "filtered"
      BY <1>4 DEF SqliteApplyFilters
    <3> QED BY <1>0, <3>1, <3>2, <3>3 DEF Shape, TypeOK
  <2>5. \A r \in output : PassesAll(r) <=> r \in output'
    <3> SUFFICES ASSUME NEW r \in output PROVE PassesAll(r) <=> r \in output'
      OBVIOUS
    <3>1. Selected(r)
      BY <1>0 DEF Accounted
    <3>2. filters \cap Columns = filters
      BY <1>0 DEF TypeOK
    <3>3. todo = {}
      BY <1>0, <1>4 DEF SqliteApplyFilters, Transformed
    <3>4. PassesAll(r) <=> \A c \in filters : Passes(r, c)
      BY <3>1, <3>2, <3>3, <1>0, SplitFilter
    <3> QED BY <3>4, <1>4 DEF SqliteApplyFilters
  <2>6. NeverDropped'
    <3> SUFFICES ASSUME NEW r \in 1..cursor, PassesAll(r)
                 PROVE  r \in output' \cup emitted
      BY <2>2, <1>4 DEF SqliteApplyFilters, NeverDropped, PassesAll
    <3>1. r \in output \cup emitted
      BY <1>0 DEF NeverDropped, PassesAll
    <3> QED BY <3>1, <2>5
  <2>7. Accounted'
    <3>1. (\A r \in emitted : PassesAll(r))'
      BY <1>0, <1>4, <2>2 DEF SqliteApplyFilters, Accounted
    <3>2. (\A r \in output : Selected(r) /\ (stage = "filtered" => PassesAll(r)))'
      BY <1>0, <1>4, <2>2, <2>5 DEF SqliteApplyFilters, Accounted
    <3>3. done' => cursor = Len(scan.rows)
      <4>1. done' => Cardinality(output) < ChunkSize
        BY <1>4, Zenon DEF SqliteApplyFilters
      <4>2. Cardinality(output) = ChunkSize \/ cursor = Len(scan.rows)
        BY <1>4, Zenon DEF SqliteApplyFilters
      <4> QED BY <4>1, <4>2, <1>f
    <3> QED BY <3>1, <3>2, <3>3, <1>4 DEF SqliteApplyFilters, Accounted
  <2> QED BY <2>1, <2>4, <2>6, <2>7 DEF IInv
<1>5. CASE ReturnChunk
  <2>1. Transformed'
    BY <1>0, <1>5, KeepTransformed DEF ReturnChunk, Transformed
  <2>2. \A r : PassesAll(r)' = PassesAll(r) /\ Selected(r)' = Selected(r)
    BY <1>5, KeepPasses DEF ReturnChunk
  <2>3. Cardinality(output') = 0
    BY <1>5, FS_EmptySet DEF ReturnChunk
  <2>4. Shape'
    BY <1>0, <1>5, <2>3 DEF ReturnChunk, Shape, TypeOK
  <2>5. NeverDropped'
    <3> SUFFICES ASSUME NEW r \in 1..cursor, PassesAll(r)
                 PROVE  r \in output' \cup emitted'
      BY <2>2, <1>5 DEF ReturnChunk, NeverDropped, PassesAll
    <3> QED BY <1>0, <1>5 DEF ReturnChunk, NeverDropped, PassesAll
  <2>6. Accounted'
    BY <1>0, <1>5, <2>2 DEF ReturnChunk, Accounted
  <2> QED BY <2>1, <2>4, <2>5, <2>6 DEF IInv
<1>6. CASE Finish
  <2>1. Transformed'
    BY <1>0, <1>6, KeepTransformed DEF Finish, Transformed
  <2>2. \A r : PassesAll(r)' = PassesAll(r) /\ Selected(r)' = Selected(r)
    BY <1>6, KeepPasses DEF Finish
  <2>3. NeverDropped'
    BY <1>0, <1>6, <2>2 DEF Finish, NeverDropped, PassesAll
  <2>4. Shape' /\ Accounted'
    BY <1>0, <1>6, <2>2 DEF Finish, Shape, TypeOK, Accounted
  <2> QED BY <2>1, <2>3, <2>4 DEF IInv
<1>7. CASE UNCHANGED vars
  <2>1. Transformed'
    BY <1>0, <1>7, KeepTransformed DEF vars, Transformed
  <2>2. \A r : PassesAll(r)' = PassesAll(r) /\ Selected(r)' = Selected(r)
    BY <1>7, KeepPasses DEF vars
  <2>3. NeverDropped'
    BY <1>0, <1>7, <2>2 DEF vars, NeverDropped, PassesAll
  <2>4. Shape' /\ Accounted'
    BY <1>0, <1>7, <2>2 DEF vars, Shape, TypeOK, Accounted
  <2> QED BY <2>1, <2>3, <2>4 DEF IInv
<1> QED BY <1>1, <1>2, <1>3, <1>4, <1>5, <1>6, <1>7 DEF Next

(* The invariant holds in every state of every behaviour.                   *)
LEMMA AlwaysIInv == Spec => []IInv
<1>1. Init => IInv
  BY InitIInv
<1>2. IInv /\ [Next]_vars => IInv'
  BY NextIInv
<1> QED BY <1>1, <1>2, PTL DEF Spec

(***************************************************************************)
(* A chunk of the scan never holds more than ChunkSize rows.               *)
(***************************************************************************)
THEOREM ScanTypes == Spec => []TypeOK
<1>1. IInv => TypeOK
  BY DEF IInv, Shape
<1> QED BY <1>1, AlwaysIInv, PTL

(***************************************************************************)
(* The conditions in SQLite drop no row that DuckDB's comparisons keep,    *)
(* whatever the values and their orders are.                               *)
(***************************************************************************)
THEOREM PushdownDropsNothing == Spec => []NeverDropped
<1>1. IInv => NeverDropped
  BY DEF IInv
<1> QED BY <1>1, AlwaysIInv, PTL

(***************************************************************************)
(* A scan that has ended has emitted the rows that DuckDB's comparisons    *)
(* select, and no others.                                                  *)
(***************************************************************************)
THEOREM PushdownExact == Spec => []ScanFilters
<1>1. IInv => ScanFilters
  <2> SUFFICES ASSUME IInv, stage = "finished"
               PROVE  emitted = {r \in Rows : \A c \in Columns : Passes(r, c)}
    BY DEF ScanFilters
  <2>1. cursor = Len(scan.rows) /\ output = {}
    BY DEF IInv, Accounted
  <2>2. \A r \in Rows : (\A c \in Columns : Passes(r, c)) => r \in emitted
    BY <2>1 DEF IInv, NeverDropped, Rows
  <2>3. \A r \in emitted : r \in Rows /\ \A c \in Columns : Passes(r, c)
    BY <2>1 DEF IInv, Shape, TypeOK, Accounted, PassesAll, Rows
  <2> QED BY <2>2, <2>3
<1> QED BY <1>1, AlwaysIInv, PTL

-----------------------------------------------------------------------------
(* The values of columns. *)

\* The types that columns of SQLite tables have
Types == {"BIGINT", "VARCHAR", "BLOB", "DOUBLE", "DATE", "TIMESTAMP"}

\* The extension gives every declared type one of six types.
LEMMA SixTypes == ColumnType \in Types
<1>1. TypeToLogicalType(declared) \in Types
  BY DEF TypeToLogicalType, Types
<1> QED BY <1>1 DEF ColumnType, Types

\* The fields of the values of SQLite and of DuckDB.
LEMMA SqlFields ==
    /\ SqlNull.class = "NULL" /\ SqlNull.num = 0 /\ SqlNull.text = Text("word", 0)
    /\ \A n : Integer(n).class = "INTEGER" /\ Integer(n).num = 2 * n
    /\ \A n : Real(n).class = "FLOAT" /\ Real(n).num = n
    /\ \A t : TextValue(t).class = "TEXT" /\ TextValue(t).text = t
    /\ \A t : BlobValue(t).class = "BLOB" /\ BlobValue(t).text = t
BY DEF SqlNull, Integer, Real, TextValue, BlobValue

\* The fields of a value in DuckDB
LEMMA ValueFields ==
    /\ \A type, n : Number(type, n).type = type /\ Number(type, n).num = n
    /\ \A type, t : Bytes(type, t).type = type /\ Bytes(type, t).text = t
    /\ NullValue.type = "NULL" /\ Error.type = "ERROR"
    /\ \A kind, n : Text(kind, n).kind = kind /\ Text(kind, n).n = n
BY DEF Number, Bytes, NullValue, Error, Text

\* A date or a timestamp that is read is an error or a value of the type.
LEMMA ReadTimeGives ==
    ASSUME NEW type \in {"DATE", "TIMESTAMP"}, NEW s, ReadTime(type, s) # Error
    PROVE  ReadTime(type, s) = Number(type, ReadTime(type, s).num)
<1>1. \A t, n : Number(t, n).num = n
  BY ValueFields, Zenon
<1> QED BY <1>1 DEF ReadTime

\* What duckdb_date and duckdb_timestamp return, and what is read from that.
LEMMA SetResultGives ==
    ASSUME ColumnType \in {"DATE", "TIMESTAMP"}, NEW v, v = Error \/ v = Number(ColumnType, v.num)
    PROVE  /\ SetResult(v).class = "ERROR" <=> (v = Error \/ ~HasCanonicalText(v))
           /\ v # Error /\ HasCanonicalText(v) => ReadTypedValue(SetResult(v)) = v
<1>1. [SqlNull EXCEPT !.class = "ERROR"].class = "ERROR"
  BY DEF SqlNull
<1>2. CASE v = Error
  <2>1. v.type = "ERROR" /\ NullValue.type = "NULL"
    BY <1>2, ValueFields
  <2>2. SetResult(v) = [SqlNull EXCEPT !.class = "ERROR"]
    BY <2>1 DEF SetResult
  <2> QED BY <1>1, <1>2, <2>2
<1>3. CASE v # Error /\ ~HasCanonicalText(v)
  <2>1. v.type = ColumnType /\ NullValue.type = "NULL"
    BY <1>3, ValueFields
  <2>2. SetResult(v) = [SqlNull EXCEPT !.class = "ERROR"]
    BY <1>3, <2>1 DEF SetResult
  <2> QED BY <1>1, <1>3, <2>2
<1>4. CASE v # Error /\ HasCanonicalText(v)
  <2> DEFINE t == IF ColumnType = "DATE" THEN Text("day", v.num) ELSE Text("time", v.num)
  <2>1. v.type = ColumnType /\ NullValue.type = "NULL" /\ v = Number(ColumnType, v.num)
    BY <1>4, ValueFields
  <2>2. SetResult(v) = TextValue(t)
    BY <1>4, <2>1 DEF SetResult
  <2>3. t.n = v.num /\ t.kind = IF ColumnType = "DATE" THEN "day" ELSE "time"
    BY ValueFields
  <2> HIDE DEF t
  <2>4. TextValue(t).class = "TEXT" /\ TextValue(t).text = t
    BY SqlFields
  <2>5. ReadTypedValue(TextValue(t)) = ReadTime(ColumnType, TextValue(t))
    BY <2>4 DEF ReadTypedValue, ToDuckDBValue
  <2>6. ReadTime(ColumnType, TextValue(t)) = Number(ColumnType, t.n)
    BY <2>3, <2>4 DEF ReadTime, IsNumber
  <2> QED BY <1>4, <2>1, <2>2, <2>3, <2>4, <2>5, <2>6
<1> QED BY <1>2, <1>3, <1>4

\* A date or a timestamp whose year does not have four digits.
FarValue(s) == LET v == ScanValue(s) IN v.type \in {"DATE", "TIMESTAMP"} /\ ~HasCanonicalText(v)

\* A value is read in SQLite as the table scan reads it.
LEMMA ReadAsScanned ==
    ASSUME NEW s, s.class \in Classes, all_varchar \in BOOLEAN
    PROVE  /\ FarValue(s) => Evaluate(s).class = "ERROR"
           /\ ~FarValue(s) /\ ScanValue(s) # Error => Evaluate(s).class # "ERROR" /\ ReadTypedValue(Evaluate(s)) = ScanValue(s)
           /\ ~FarValue(s) => (Evaluate(s).class = "ERROR" \/ ~CheckType(s) <=> ScanValue(s) = Error)
<1>0. ColumnType \in Types
  BY SixTypes
<1>1. CASE s.class = "NULL"
  <2>1. ScanValue(s) = NullValue /\ Evaluate(s) = s /\ ReadTypedValue(s) = NullValue /\ CheckType(s)
    BY <1>1 DEF ScanValue, Evaluate, ReadTypedValue, CheckType
  <2>2. NullValue.type = "NULL" /\ Error.type = "ERROR"
    BY ValueFields
  <2> QED BY <1>1, <2>1, <2>2 DEF FarValue
<1>2. CASE s.class # "NULL" /\ ColumnType = "BIGINT"
  <2>1. ~all_varchar
    BY <1>2 DEF ColumnType
  <2>2. ScanValue(s) = IF s.class = "INTEGER" THEN Number("BIGINT", s.num) ELSE Error
    BY <1>2 DEF ScanValue, Matches
  <2>3. Evaluate(s) = s
    BY <1>2 DEF Evaluate, ColumnRead
  <2>4. s.class = "INTEGER" => ReadTypedValue(s) = Number("BIGINT", s.num)
    BY <1>2 DEF ReadTypedValue, Matches
  <2>5. CheckType(s) <=> s.class = "INTEGER"
    BY <1>2, <2>1 DEF CheckType, Matches
  <2>6. Number("BIGINT", s.num).type = "BIGINT" /\ Error.type = "ERROR"
    BY ValueFields
  <2> QED BY <2>2, <2>3, <2>4, <2>5, <2>6 DEF FarValue, Classes
<1>3. CASE s.class # "NULL" /\ ColumnType = "DOUBLE"
  <2>1. ~all_varchar
    BY <1>3 DEF ColumnType
  <2>2. ScanValue(s) = IF s.class \in {"FLOAT", "INTEGER"} THEN Number("DOUBLE", s.num) ELSE Error
    BY <1>3 DEF ScanValue, Matches
  <2>3. Evaluate(s) = s \/ Evaluate(s) = CastReal(s)
    BY <1>3 DEF Evaluate, ColumnRead
  <2>4. CastReal(s).class = "FLOAT" /\ (s.class \in {"FLOAT", "INTEGER"} => CastReal(s).num = s.num)
    BY SqlFields DEF CastReal, IsNumber
  <2>5. s.class \in {"FLOAT", "INTEGER"} => ReadTypedValue(Evaluate(s)) = Number("DOUBLE", s.num)
    BY <1>3, <2>3, <2>4 DEF ReadTypedValue, Matches
  <2>6. CheckType(s) <=> s.class \in {"FLOAT", "INTEGER"}
    BY <1>3, <2>1 DEF CheckType, Matches
  <2>7. Number("DOUBLE", s.num).type = "DOUBLE" /\ Error.type = "ERROR"
    BY ValueFields
  <2>8. Evaluate(s).class # "ERROR"
    BY <2>3, <2>4 DEF Classes
  <2> QED BY <2>2, <2>5, <2>6, <2>7, <2>8 DEF FarValue
<1>4. CASE s.class # "NULL" /\ ColumnType = "VARCHAR"
  <2>1. ScanValue(s) = IF all_varchar \/ s.class = "TEXT" THEN Bytes("VARCHAR", ValueText(s)) ELSE Error
    BY <1>4 DEF ScanValue, Matches
  <2>2. Evaluate(s) = IF all_varchar \/ ~HasTextAffinity THEN TextValue(ValueText(s)) ELSE s
    BY <1>4 DEF Evaluate, ColumnRead
  <2>3. TextValue(ValueText(s)).class = "TEXT" /\ TextValue(ValueText(s)).text = ValueText(s)
    BY SqlFields
  <2>4. Evaluate(s).class # "ERROR"
    BY <2>2, <2>3 DEF Classes
  <2>5. ReadTypedValue(TextValue(ValueText(s))) = Bytes("VARCHAR", ValueText(s))
    BY <1>4, <2>3 DEF ReadTypedValue
  <2>6. s.class = "TEXT" => ValueText(s) = s.text
    BY DEF ValueText
  <2>7. s.class = "TEXT" => ReadTypedValue(s) = Bytes("VARCHAR", s.text)
    BY <1>4 DEF ReadTypedValue
  <2>8. CheckType(s) <=> all_varchar \/ s.class = "TEXT"
    BY <1>4 DEF CheckType, Matches
  <2>9. Bytes("VARCHAR", ValueText(s)).type = "VARCHAR" /\ Error.type = "ERROR"
    BY ValueFields
  <2>10. ~FarValue(s)
    BY <2>1, <2>9 DEF FarValue
  <2>11. all_varchar \/ s.class = "TEXT" => ReadTypedValue(Evaluate(s)) = Bytes("VARCHAR", ValueText(s))
    BY <2>2, <2>5, <2>6, <2>7
  <2>12. ScanValue(s) = Error <=> ~(all_varchar \/ s.class = "TEXT")
    BY <2>1, <2>9
  <2> QED BY <2>1, <2>4, <2>8, <2>10, <2>11, <2>12
<1>5. CASE s.class # "NULL" /\ ColumnType = "BLOB"
  <2>1. ScanValue(s) = Bytes("BLOB", ValueText(s))
    BY <1>5 DEF ScanValue
  <2>2. Evaluate(s) = BlobValue(ValueText(s))
    BY <1>5 DEF Evaluate, ColumnRead
  <2>3. BlobValue(ValueText(s)).class = "BLOB" /\ BlobValue(ValueText(s)).text = ValueText(s)
    BY SqlFields
  <2>4. ReadTypedValue(BlobValue(ValueText(s))) = Bytes("BLOB", ValueText(s))
    BY <1>5, <2>3 DEF ReadTypedValue
  <2>5. CheckType(s)
    BY <1>5 DEF CheckType
  <2>6. Bytes("BLOB", ValueText(s)).type = "BLOB" /\ Error.type = "ERROR"
    BY ValueFields
  <2> QED BY <2>1, <2>2, <2>3, <2>4, <2>5, <2>6 DEF FarValue
<1>6. CASE s.class # "NULL" /\ ColumnType \in {"DATE", "TIMESTAMP"}
  <2> DEFINE v == ReadTime(ColumnType, s)
  <2>1. ScanValue(s) = v
    BY <1>6 DEF ScanValue
  <2>2. Evaluate(s) = SetResult(v)
    BY <1>6 DEF Evaluate, ColumnRead
  <2>3. v = Error \/ v = Number(ColumnType, v.num)
    BY <1>6, ReadTimeGives
  <2> HIDE DEF v
  <2>4. /\ SetResult(v).class = "ERROR" <=> (v = Error \/ ~HasCanonicalText(v))
        /\ v # Error /\ HasCanonicalText(v) => ReadTypedValue(SetResult(v)) = v
    BY <1>6, <2>3, SetResultGives
  <2>5. CheckType(s)
    BY <1>6 DEF CheckType
  <2>6. v # Error => v.type = ColumnType
    BY <2>3, ValueFields
  <2>7. FarValue(s) <=> v # Error /\ ~HasCanonicalText(v)
    BY <1>6, <2>1, <2>6, ValueFields DEF FarValue
  <2> QED BY <2>1, <2>2, <2>4, <2>5, <2>7
<1> QED BY <1>0, <1>1, <1>2, <1>3, <1>4, <1>5, <1>6 DEF Types

\* The values of DuckDB's types: numbers, texts, days and times of any size.
IsValue(type, v) ==
    CASE type = "BIGINT" -> \E n \in Int : v = Number(type, 2 * n)
      [] type = "DOUBLE" -> v.num \in Int /\ v = Number(type, v.num)
      [] type \in {"VARCHAR", "BLOB"} -> v = Bytes(type, v.text)
      [] type \in {"DATE", "TIMESTAMP"} -> v = Number(type, v.num)

\* The affinity of a column whose type needs one.
LEMMA AffinityOfType ==
    ASSUME ~all_varchar, Consistent
    PROVE  /\ ColumnType = "BIGINT" => Affinity(declared) \in {"INTEGER", "NUMERIC"}
           /\ ColumnType = "DOUBLE" => Affinity(declared) \in {"REAL", "NUMERIC"}
           /\ ColumnType = "VARCHAR" => Affinity(declared) = "TEXT"
           /\ ColumnType = "BLOB" => Affinity(declared) = "BLOB"
           /\ ColumnType \in {"DATE", "TIMESTAMP"} => Affinity(declared) = "NUMERIC"
<1>1. ColumnType = TypeToLogicalType(declared)
  BY DEF ColumnType
<1>2. ColumnType = "BIGINT" => Affinity(declared) \in {"INTEGER", "NUMERIC"}
  BY DEF Consistent
<1>3. ColumnType = "VARCHAR" => Affinity(declared) = "TEXT"
  BY DEF Consistent, HasTextAffinity, Affinity
<1>4. ColumnType = "DOUBLE" => Affinity(declared) \in {"REAL", "NUMERIC"}
  BY <1>1 DEF TypeToLogicalType, Affinity
<1>5. ColumnType = "BLOB" => Affinity(declared) = "BLOB"
  BY <1>1 DEF TypeToLogicalType, Affinity
<1>6. ColumnType \in {"DATE", "TIMESTAMP"} => Affinity(declared) = "NUMERIC"
  BY <1>1 DEF TypeToLogicalType, Affinity
<1> QED BY <1>2, <1>3, <1>4, <1>5, <1>6

\* A text that does not spell a number is stored as it is.
LEMMA StoredAsIs ==
    ASSUME NEW a, NEW x, ~IsNumber(x), a \notin {"INTEGER", "NUMERIC", "REAL"} \/ x.class # "TEXT" \/ ~IsNumeric(x.text)
    PROVE  Stored(a, x) = x
BY DEF Stored

\* A value that is bound, converted by the column's affinity and read by the
\* table scan is the value that was written.
THEOREM WrittenReadsBack ==
    ASSUME ~all_varchar, Consistent, NEW v, v = NullValue \/ IsValue(ColumnType, v)
    PROVE  ScanValue(Stored(Affinity(declared), BindValue(v))) = v
<1>0. ColumnType \in Types
  BY SixTypes
<1>1. CASE v = NullValue
  <2>1. BindValue(v) = SqlNull
    BY <1>1, ValueFields DEF BindValue
  <2>2. SqlNull.class = "NULL"
    BY SqlFields
  <2>3. Stored(Affinity(declared), SqlNull) = SqlNull
    BY <2>2, StoredAsIs DEF IsNumber
  <2> QED BY <1>1, <2>1, <2>2, <2>3 DEF ScanValue
<1>2. CASE v # NullValue /\ ColumnType = "BIGINT"
  <2>1. PICK n \in Int : v = Number("BIGINT", 2 * n)
    BY <1>2 DEF IsValue
  <2>2. v.type = "BIGINT" /\ v.num = 2 * n
    BY <2>1, ValueFields
  <2>3. BindValue(v) = Integer(n)
    <3>1. BindValue(v) = Integer(v.num \div 2)
      BY <1>2, <2>2 DEF BindValue
    <3>2. (2 * n) \div 2 = n
      OBVIOUS
    <3> QED BY <2>2, <3>1, <3>2
  <2>4. Integer(n).class = "INTEGER" /\ Integer(n).num = 2 * n
    BY SqlFields
  <2>5. Stored(Affinity(declared), Integer(n)) = Integer(n)
    <3>1. (2 * n) % 2 = 0 /\ (2 * n) \div 2 = n
      OBVIOUS
    <3>2. Affinity(declared) \in {"INTEGER", "NUMERIC"}
      BY <1>2, AffinityOfType
    <3>3. Stored(Affinity(declared), Integer(n)) =
            IF Integer(n).num % 2 = 0 THEN Integer(Integer(n).num \div 2) ELSE Real(Integer(n).num)
      BY <2>4, <3>2 DEF Stored, IsNumber
    <3> QED BY <2>4, <3>1, <3>3
  <2>6. ScanValue(Integer(n)) = Number("BIGINT", Integer(n).num)
    BY <1>2, <2>4 DEF ScanValue, Matches
  <2> QED BY <2>1, <2>3, <2>4, <2>5, <2>6
<1>3. CASE v # NullValue /\ ColumnType = "DOUBLE"
  <2>1. PICK h \in Int : v = Number("DOUBLE", h)
    BY <1>3 DEF IsValue
  <2>2. v.type = "DOUBLE" /\ v.num = h
    BY <2>1, ValueFields
  <2>3. BindValue(v) = Real(h)
    BY <1>3, <2>2 DEF BindValue
  <2>4. Real(h).class = "FLOAT" /\ Real(h).num = h /\ Integer(h \div 2).class = "INTEGER" /\ Integer(h \div 2).num = 2 * (h \div 2)
    BY SqlFields
  <2>5. Affinity(declared) \in {"REAL", "NUMERIC"}
    BY <1>3, AffinityOfType
  <2>6. PICK x : x = Stored(Affinity(declared), Real(h))
    OBVIOUS
  <2>7. x = IF Affinity(declared) # "REAL" /\ h % 2 = 0 THEN Integer(h \div 2) ELSE Real(h)
    BY <2>4, <2>5, <2>6 DEF Stored, IsNumber
  <2>8. x.class \in {"FLOAT", "INTEGER"} /\ x.num = h
    <3>1. h % 2 = 0 => 2 * (h \div 2) = h
      OBVIOUS
    <3> QED BY <2>4, <2>7, <3>1
  <2>9. ScanValue(x) = Number("DOUBLE", x.num)
    BY <1>3, <2>8 DEF ScanValue, Matches
  <2> QED BY <2>1, <2>3, <2>6, <2>8, <2>9
<1>4. CASE v # NullValue /\ ColumnType = "VARCHAR"
  <2>1. v = Bytes("VARCHAR", v.text)
    BY <1>4 DEF IsValue
  <2>2. v.type = "VARCHAR"
    BY <2>1, ValueFields
  <2>3. BindValue(v) = TextValue(v.text)
    BY <1>4, <2>2 DEF BindValue
  <2>4. TextValue(v.text).class = "TEXT" /\ TextValue(v.text).text = v.text
    BY SqlFields
  <2>5. Stored(Affinity(declared), TextValue(v.text)) = TextValue(v.text)
    <3>1. Affinity(declared) = "TEXT"
      BY <1>4, AffinityOfType
    <3> QED BY <2>4, <3>1, StoredAsIs DEF IsNumber
  <2>6. ScanValue(TextValue(v.text)) = Bytes("VARCHAR", v.text)
    BY <1>4, <2>4 DEF ScanValue, Matches, ValueText
  <2> QED BY <2>1, <2>3, <2>5, <2>6
<1>5. CASE v # NullValue /\ ColumnType = "BLOB"
  <2>1. v = Bytes("BLOB", v.text)
    BY <1>5 DEF IsValue
  <2>2. v.type = "BLOB"
    BY <2>1, ValueFields
  <2>3. BindValue(v) = BlobValue(v.text)
    BY <1>5, <2>2 DEF BindValue
  <2>4. BlobValue(v.text).class = "BLOB" /\ BlobValue(v.text).text = v.text
    BY SqlFields
  <2>5. Stored(Affinity(declared), BlobValue(v.text)) = BlobValue(v.text)
    BY <2>4, StoredAsIs DEF IsNumber
  <2>6. ScanValue(BlobValue(v.text)) = Bytes("BLOB", v.text)
    BY <1>5, <2>4 DEF ScanValue, ValueText
  <2> QED BY <2>1, <2>3, <2>5, <2>6
<1>6. CASE v # NullValue /\ ColumnType \in {"DATE", "TIMESTAMP"}
  <2> DEFINE t == IF ColumnType = "DATE" THEN Text("day", v.num) ELSE Text("time", v.num)
  <2>1. v = Number(ColumnType, v.num)
    BY <1>6 DEF IsValue
  <2>2. v.type = ColumnType
    BY <2>1, ValueFields
  <2>3. BindValue(v) = TextValue(t)
    BY <1>6, <2>2 DEF BindValue
  <2>4. t.n = v.num /\ t.kind = IF ColumnType = "DATE" THEN "day" ELSE "time"
    BY ValueFields
  <2> HIDE DEF t
  <2>5. TextValue(t).class = "TEXT" /\ TextValue(t).text = t
    BY SqlFields
  <2>6. Stored(Affinity(declared), TextValue(t)) = TextValue(t)
    BY <2>4, <2>5, StoredAsIs DEF IsNumber, IsNumeric
  <2>7. ScanValue(TextValue(t)) = ReadTime(ColumnType, TextValue(t))
    BY <1>6, <2>5 DEF ScanValue
  <2>8. ReadTime(ColumnType, TextValue(t)) = Number(ColumnType, t.n)
    BY <1>6, <2>4, <2>5 DEF ReadTime, IsNumber
  <2> QED BY <2>1, <2>3, <2>4, <2>6, <2>7, <2>8
<1> QED BY <1>0, <1>1, <1>2, <1>3, <1>4, <1>5, <1>6 DEF Types

-----------------------------------------------------------------------------
(* The system *)

\* The values DuckDB writes, and what may be in the column.
WrittenValues == {NullValue} \union UNION {Domain(type) : type \in Types}
StoredValues ==
    {Stored(Affinity(k), x) : k \in DeclaredTypes, x \in ClientValues}
    \union {Stored(Affinity(k), BindValue(v)) : k \in DeclaredTypes, v \in WrittenValues}

\* The answers of a selection and of an update.
Typed == [i \in 1..Len(stored) |-> ReadTypedValue(Evaluated[i])]
ReadsError == \E i \in 1..Len(stored) : Evaluated[i].class = "ERROR"
SelectRead == IF Raises(Column) THEN Raised ELSE Column
SelectPushed == IF ReadsError \/ Raises(Typed) THEN Raised ELSE Typed
UpdateRead == IF Raises(Column) THEN Raised ELSE <<>>
UpdatePushed == IF ReadsError \/ (\E i \in 1..Len(stored) : ~CheckType(stored[i])) THEN Raised ELSE <<>>

\* The rows DuckDB wrote are still as they were stored.
RowsInv ==
    /\ declared \in DeclaredTypes /\ all_varchar \in BOOLEAN
    /\ stored \in Seq(StoredValues) /\ written \in Seq([row : Nat, value : WrittenValues])
    /\ \A i \in 1..Len(written) :
         /\ written[i].row \in 1..Len(stored) /\ written[i].value \in Domain(ColumnType) \union {NullValue}
         /\ stored[written[i].row] = Stored(Affinity(declared), BindValue(written[i].value))

\* An answer is about the rows that are stored: they do not change once a query is asked.
AnswersInv ==
    /\ query = NoQuery => read = NoAnswer /\ pushed = NoAnswer
    /\ query.op = "select" => read \in {NoAnswer, SelectRead} /\ pushed \in {NoAnswer, SelectPushed}
    /\ query.op = "update" => read \in {NoAnswer, UpdateRead} /\ pushed \in {NoAnswer, UpdatePushed}

\* The values of a type's domain are values of the type.
LEMMA DomainValues ==
    ASSUME NEW type \in Types, NEW v \in Domain(type)
    PROVE  IsValue(type, v) /\ v.type = type
<1>1. CASE type = "BIGINT"
  <2>1. v = Number(type, 2 * 1) \/ v = Number(type, 2 * 2)
    BY <1>1 DEF Domain
  <2>2. \E n \in Int : v = Number(type, 2 * n)
    BY <2>1
  <2>3. IsValue(type, v)
    BY <1>1, <2>2 DEF IsValue
  <2>4. v.type = type
    BY <2>2, ValueFields
  <2> QED BY <2>3, <2>4
<1>2. CASE type = "DOUBLE"
  <2>1. v = Number(type, 2) \/ v = Number(type, 3)
    BY <1>2 DEF Domain
  <2> QED BY <1>2, <2>1, ValueFields DEF IsValue
<1>3. CASE type \in {"VARCHAR", "BLOB"}
  <2>1. v = Bytes(type, Text("int", 1)) \/ v = Bytes(type, Text("word", 2))
    BY <1>3 DEF Domain
  <2>2. v.type = type /\ v = Bytes(type, v.text)
    BY <2>1, ValueFields
  <2> QED BY <1>3, <2>2 DEF IsValue
<1>4. CASE type = "DATE"
  <2>1. v = Number(type, 0) \/ v = Number(type, 1)
    BY <1>4 DEF Domain
  <2> QED BY <1>4, <2>1, ValueFields DEF IsValue
<1>5. CASE type = "TIMESTAMP"
  <2>1. v = Number(type, 2) \/ v = Number(type, DayLength)
    BY <1>5 DEF Domain
  <2> QED BY <1>5, <2>1, ValueFields DEF IsValue
<1> QED BY <1>1, <1>2, <1>3, <1>4, <1>5 DEF Types

\* Affinities keep the storage classes.
LEMMA StoredClass ==
    ASSUME NEW x \in StoredValues
    PROVE  x.class \in Classes
<1>1. ASSUME NEW a, NEW y, y.class \in Classes PROVE Stored(a, y).class \in Classes
  <2>1. Stored(a, y) = y \/ Stored(a, y).class \in {"TEXT", "INTEGER", "FLOAT"}
    BY SqlFields DEF Stored
  <2> QED BY <1>1, <2>1 DEF Classes
<1>2. ASSUME NEW v \in WrittenValues PROVE BindValue(v).class \in Classes
  <2>1. v = NullValue \/ v.type \in Types
    BY DomainValues DEF WrittenValues
  <2>2. CASE v = NullValue
    BY <2>2, ValueFields, SqlFields DEF BindValue, Classes
  <2>3. CASE v # NullValue /\ v.type \in Types
    BY <2>3, SqlFields DEF BindValue, Classes, Types
  <2> QED BY <2>1, <2>2, <2>3
<1> QED BY <1>1, <1>2, ClientValuesAssumption DEF StoredValues

\* The answers depend on the column and its rows only.
LEMMA AnswersKeep ==
    ASSUME UNCHANGED <<declared, nocase, all_varchar, stored>>
    PROVE  /\ UNCHANGED <<SelectRead, SelectPushed, UpdateRead, UpdatePushed, ColumnType>>
<1>1. ColumnType' = ColumnType
  BY DEF ColumnType
<1>2. \A x : ScanValue(x)' = ScanValue(x)
  BY <1>1 DEF ScanValue
<1>3. ColumnRead' = ColumnRead
  BY <1>1 DEF ColumnRead, RealAffinity, HasTextAffinity
<1>4. \A x : Evaluate(x)' = Evaluate(x)
  BY <1>1, <1>3 DEF Evaluate
<1>5. \A x : ReadTypedValue(x)' = ReadTypedValue(x)
  BY <1>1 DEF ReadTypedValue
<1>6. \A x : CheckType(x)' = CheckType(x)
  BY <1>1 DEF CheckType
<1>7. Column' = Column
  BY <1>2 DEF Column
<1>8. Evaluated' = Evaluated
  BY <1>4 DEF Evaluated
<1>9. Typed' = Typed
  BY <1>5, <1>8 DEF Typed
<1>10. ReadsError' = ReadsError
  BY <1>8 DEF ReadsError
<1>11. SelectRead' = SelectRead /\ UpdateRead' = UpdateRead
  BY <1>7 DEF SelectRead, UpdateRead, Raises
<1>12. SelectPushed' = SelectPushed
  BY <1>9, <1>10 DEF SelectPushed, Raises
<1>13. UpdatePushed' = UpdatePushed
  BY <1>6, <1>10 DEF UpdatePushed
<1> QED BY <1>1, <1>11, <1>12, <1>13

\* A function on 1..n is a sequence of length n.
LEMMA FunctionLength ==
    ASSUME NEW n \in Nat, NEW f, f = [i \in 1..n |-> f[i]]
    PROVE  Len(f) = n
<1>1. PICK S : S = {f[i] : i \in 1..n}
  OBVIOUS
<1>2. \A i \in 1..n : f[i] \in S
  BY <1>1
<1>3. f \in [1..n -> S]
  BY <1>2
<1>4. f \in Seq(S)
  BY <1>3
<1>5. DOMAIN f = 1..Len(f) /\ DOMAIN f = 1..n /\ Len(f) \in Nat
  BY <1>3, <1>4
<1> QED BY <1>5

\* The columns of a table have as many values as it has rows.
LEMMA ColumnLengths ==
    ASSUME stored \in Seq(StoredValues)
    PROVE  Len(Column) = Len(stored) /\ Len(Evaluated) = Len(stored) /\ Len(Typed) = Len(stored)
<1>1. Len(stored) \in Nat
  OBVIOUS
<1>2. Len(Column) = Len(stored)
  <2>1. Column = [i \in 1..Len(stored) |-> Column[i]]
    BY DEF Column
  <2> QED BY <1>1, <2>1, FunctionLength
<1>3. Len(Evaluated) = Len(stored)
  <2>1. Evaluated = [i \in 1..Len(stored) |-> Evaluated[i]]
    BY DEF Evaluated
  <2> QED BY <1>1, <2>1, FunctionLength
<1>4. Len(Typed) = Len(stored)
  <2>1. Typed = [i \in 1..Len(stored) |-> Typed[i]]
    BY DEF Typed
  <2> QED BY <1>1, <2>1, FunctionLength
<1> QED BY <1>2, <1>3, <1>4

\* A row is inserted.
LEMMA InsertKeeps ==
    ASSUME RowsInv, NEW x \in StoredValues, stored' = Append(stored, x), UNCHANGED <<declared, nocase, all_varchar>>,
           \/ UNCHANGED written
           \/ \E v \in Domain(ColumnType) \union {NullValue} :
                /\ x = Stored(Affinity(declared), BindValue(v))
                /\ written' = Append(written, [row |-> Len(stored) + 1, value |-> v])
    PROVE  RowsInv'
<1> DEFINE Kept(i) ==
             /\ written[i].row \in 1..Len(stored) /\ written[i].value \in Domain(ColumnType) \union {NullValue}
             /\ stored[written[i].row] = Stored(Affinity(declared), BindValue(written[i].value))
<1>1. /\ declared \in DeclaredTypes /\ all_varchar \in BOOLEAN
      /\ stored \in Seq(StoredValues) /\ written \in Seq([row : Nat, value : WrittenValues])
      /\ \A i \in 1..Len(written) : Kept(i)
  BY DEF RowsInv
<1>2. ColumnType' = ColumnType
  BY DEF ColumnType
<1>3. /\ stored' \in Seq(StoredValues) /\ Len(stored') = Len(stored) + 1 /\ stored'[Len(stored) + 1] = x
      /\ \A i \in 1..Len(stored) : stored'[i] = stored[i]
  BY <1>1
<1>4. Len(stored) \in Nat
  BY <1>1
<1>7. \A r \in 1..Len(stored) : r \in 1..Len(stored') /\ stored'[r] = stored[r]
  BY <1>3, <1>4
<1> HIDE DEF Kept
<1>5. CASE UNCHANGED written
  <2>1. ASSUME NEW i \in 1..Len(written) PROVE Kept(i)'
    <3>1. Kept(i) /\ written'[i] = written[i]
      BY <1>1, <1>5
    <3>2. written[i].row \in 1..Len(stored') /\ stored'[written[i].row] = stored[written[i].row]
      BY <1>7, <3>1 DEF Kept
    <3> QED BY <1>2, <3>1, <3>2 DEF Kept
  <2> QED BY <1>1, <1>3, <1>5, <2>1 DEF RowsInv, Kept
<1>6. ASSUME NEW v \in Domain(ColumnType) \union {NullValue}, x = Stored(Affinity(declared), BindValue(v)),
             written' = Append(written, [row |-> Len(stored) + 1, value |-> v])
      PROVE  RowsInv'
  <2> DEFINE w == [row |-> Len(stored) + 1, value |-> v]
  <2>1. v \in WrittenValues
    BY SixTypes DEF WrittenValues
  <2>2. w \in [row : Nat, value : WrittenValues] /\ w.row = Len(stored) + 1 /\ w.value = v
    BY <1>4, <2>1
  <2>3. written' = Append(written, w)
    BY <1>6
  <2> HIDE DEF w
  <2>4. /\ written' \in Seq([row : Nat, value : WrittenValues]) /\ Len(written') = Len(written) + 1
        /\ written'[Len(written) + 1] = w /\ \A i \in 1..Len(written) : written'[i] = written[i]
    BY <1>1, <2>2, <2>3
  <2>5. Len(written) \in Nat
    BY <1>1
  <2>6. ASSUME NEW i \in 1..Len(written) PROVE Kept(i)'
    <3>1. Kept(i) /\ written'[i] = written[i]
      BY <1>1, <2>4
    <3>2. written[i].row \in 1..Len(stored') /\ stored'[written[i].row] = stored[written[i].row]
      BY <1>7, <3>1 DEF Kept
    <3> QED BY <1>2, <3>1, <3>2 DEF Kept
  <2>7. PICK n \in Nat : n = Len(written) + 1
    BY <2>5
  <2>9. written'[n] = w /\ Len(written') = n
    BY <2>4, <2>7
  <2>10. Kept(n)'
    BY <1>2, <1>3, <1>4, <1>6, <2>2, <2>9 DEF Kept
  <2>11. \A i \in 1..n : i = n \/ i \in 1..Len(written)
    BY <2>5, <2>7
  <2>8. \A i \in 1..Len(written') : Kept(i)'
    BY <2>6, <2>9, <2>10, <2>11
  <2> QED BY <1>1, <1>3, <2>4, <2>8 DEF RowsInv, Kept
<1> QED BY <1>5, <1>6

\* Nothing is inserted.
LEMMA RowsKeep ==
    ASSUME RowsInv, UNCHANGED <<declared, nocase, all_varchar, stored, written>>
    PROVE  RowsInv'
<1>1. ColumnType' = ColumnType
  BY DEF ColumnType
<1> QED BY <1>1 DEF RowsInv

\* The invariant holds of a column without rows and before a query is asked.
LEMMA ReadInductive ==
    /\ ReadInit => RowsInv /\ AnswersInv
    /\ RowsInv /\ AnswersInv /\ [ReadNext]_readVars => RowsInv' /\ AnswersInv'
<1>1. ReadInit => RowsInv /\ AnswersInv
  <2>1. NoQuery.op = "none"
    BY DEF NoQuery
  <2> QED BY <2>1 DEF ReadInit, RowsInv, AnswersInv
<1>2. ASSUME RowsInv, AnswersInv, [ReadNext]_readVars PROVE RowsInv' /\ AnswersInv'
  <2>0. /\ declared \in DeclaredTypes /\ all_varchar \in BOOLEAN /\ stored \in Seq(StoredValues)
        /\ NoQuery.op = "none"
    BY <1>2 DEF RowsInv, NoQuery
  <2>1. ASSUME NEW s \in ClientValues, ClientInsert(s) PROVE RowsInv' /\ AnswersInv'
    <3>1. Stored(Affinity(declared), s) \in StoredValues
      BY <2>0 DEF StoredValues
    <3>2. RowsInv'
      BY <1>2, <2>1, <3>1, InsertKeeps DEF ClientInsert
    <3>3. AnswersInv'
      BY <1>2, <2>0, <2>1 DEF ClientInsert, AnswersInv
    <3> QED BY <3>2, <3>3
  <2>2. ASSUME NEW v \in Domain(ColumnType) \union {NullValue}, DuckDBInsert(v) PROVE RowsInv' /\ AnswersInv'
    <3>1. v \in WrittenValues
      BY SixTypes DEF WrittenValues
    <3>2. Stored(Affinity(declared), BindValue(v)) \in StoredValues
      BY <2>0, <3>1 DEF StoredValues
    <3>3. RowsInv'
      BY <1>2, <2>2, <3>2, InsertKeeps DEF DuckDBInsert
    <3>4. AnswersInv'
      BY <1>2, <2>0, <2>2 DEF DuckDBInsert, AnswersInv
    <3> QED BY <3>3, <3>4
  <2>3. ASSUME NEW q \in Queries, Ask(q) PROVE RowsInv' /\ AnswersInv'
    <3>1. RowsInv'
      BY <1>2, <2>3, RowsKeep DEF Ask
    <3>2. AnswersInv'
      BY <1>2, <2>3 DEF Ask, AnswersInv
    <3> QED BY <3>1, <3>2
  <2>4. CASE SqliteScan
    <3>1. RowsInv'
      BY <1>2, <2>4, RowsKeep DEF SqliteScan
    <3>2. UNCHANGED <<SelectRead, SelectPushed, UpdateRead, UpdatePushed, ColumnType>> /\ UNCHANGED <<query, pushed>>
      BY <2>4, AnswersKeep DEF SqliteScan
    <3>3. query.op = "select" => read' = SelectRead
      BY <2>4 DEF SqliteScan, SelectRead
    <3>4. query.op = "update" => read' = UpdateRead
      BY <2>4 DEF SqliteScan, UpdateRead
    <3>5. query # NoQuery
      BY <2>4 DEF SqliteScan
    <3>6. AnswersInv'
      BY <1>2, <3>2, <3>3, <3>4, <3>5 DEF AnswersInv
    <3> QED BY <3>1, <3>6
  <2>5. CASE RemoteQuery
    <3>1. RowsInv'
      BY <1>2, <2>5, RowsKeep DEF RemoteQuery
    <3>2. UNCHANGED <<SelectRead, SelectPushed, UpdateRead, UpdatePushed, ColumnType>> /\ UNCHANGED <<query, read>>
      BY <2>5, AnswersKeep DEF RemoteQuery
    <3>3. query # NoQuery
      BY <2>5 DEF RemoteQuery
    <3> DEFINE typed == [i \in 1..Len(ResultRows) |-> ReadTypedValue(ResultRows[i])]
    <3>4. pushed' = IF \/ \E i \in 1..Len(stored) : Evaluated[i].class = "ERROR"
                       \/ query.op = "update" /\ \E i \in 1..Len(stored) : ~CheckType(stored[i])
                       \/ Raises(typed)
                    THEN Raised ELSE typed
      BY <2>5 DEF RemoteQuery
    <3>5. query.op = "select" => typed = Typed
      <4>1. query.op = "select" => ResultRows = Evaluated
        BY DEF ResultRows
      <4>2. Len(Evaluated) = Len(stored)
        BY <2>0, ColumnLengths
      <4> QED BY <4>1, <4>2 DEF Typed
    <3>6. query.op = "update" => typed = <<>>
      <4>1. query.op = "update" => ResultRows = <<>>
        BY DEF ResultRows
      <4> QED BY <4>1
    <3> HIDE DEF typed
    <3>7. query.op = "select" => pushed' = SelectPushed
      BY <3>4, <3>5 DEF SelectPushed, ReadsError
    <3>8. query.op = "update" => pushed' = UpdatePushed
      <4>1. ~Raises(<<>>)
        BY DEF Raises
      <4> QED BY <3>4, <3>6, <4>1 DEF UpdatePushed, ReadsError
    <3>9. AnswersInv'
      BY <1>2, <3>2, <3>3, <3>7, <3>8 DEF AnswersInv
    <3> QED BY <3>1, <3>9
  <2>6. CASE UNCHANGED readVars
    <3>1. UNCHANGED <<SelectRead, SelectPushed, UpdateRead, UpdatePushed, ColumnType>>
      BY <2>6, AnswersKeep DEF readVars
    <3>2. RowsInv'
      BY <1>2, <2>6, RowsKeep DEF readVars
    <3> QED BY <1>2, <2>6, <3>1, <3>2 DEF AnswersInv, readVars
  <2> QED BY <1>2, <2>1, <2>2, <2>3, <2>4, <2>5, <2>6 DEF ReadNext
<1> QED BY <1>1, <1>2

\* A pushed down UPDATE rejects the values that the table scan rejects, for
\* every declared type, every affinity and all values other clients store.
THEOREM UpdateChecked == ReadSpec => []UpdateChecksLikeScan
<1>1. RowsInv /\ AnswersInv => UpdateChecksLikeScan
  <2> SUFFICES ASSUME RowsInv, AnswersInv, Answered, query.op = "update", ~HasFar
      PROVE  pushed = Raised <=> read = Raised
    BY DEF UpdateChecksLikeScan
  <2>1. read = UpdateRead /\ pushed = UpdatePushed
    BY DEF AnswersInv, Answered
  <2>2. stored \in Seq(StoredValues) /\ all_varchar \in BOOLEAN /\ Len(Column) = Len(stored)
    BY ColumnLengths DEF RowsInv
  <2>3. ASSUME NEW i \in 1..Len(stored)
        PROVE  /\ Column[i] = ScanValue(stored[i]) /\ Evaluated[i] = Evaluate(stored[i])
               /\ Evaluate(stored[i]).class = "ERROR" \/ ~CheckType(stored[i]) <=> ScanValue(stored[i]) = Error
    <3>1. stored[i].class \in Classes
      BY <2>2, StoredClass
    <3>2. ~FarValue(stored[i])
      BY DEF HasFar, FarValue
    <3>3. Column[i] = ScanValue(stored[i]) /\ Evaluated[i] = Evaluate(stored[i])
      BY DEF Column, Evaluated
    <3> QED BY <2>2, <3>1, <3>2, <3>3, ReadAsScanned
  <2>4. Raises(Column) <=> ReadsError \/ \E i \in 1..Len(stored) : ~CheckType(stored[i])
    BY <2>2, <2>3 DEF Raises, ReadsError
  <2>5. Raised # <<>>
    BY DEF Raised
  <2> QED BY <2>1, <2>4, <2>5 DEF UpdateRead, UpdatePushed
<1> QED BY <1>1, ReadInductive, PTL DEF ReadSpec

\* A selection is read in SQLite as the table scan reads it, or raises an error
\* when a date would not be written with four digits for the year.
SelectAlike ==
    Answered /\ query.op = "select" /\ read # Raised => pushed = IF HasFar THEN Raised ELSE read

\* The part of ReadAlike that does not filter or order the rows.
THEOREM SelectionsAlike == ReadSpec => []SelectAlike
<1>1. RowsInv /\ AnswersInv => SelectAlike
  <2> SUFFICES ASSUME RowsInv, AnswersInv, Answered, query.op = "select", read # Raised
      PROVE  pushed = IF HasFar THEN Raised ELSE read
    BY DEF SelectAlike
  <2>1. read = SelectRead /\ pushed = SelectPushed
    BY DEF AnswersInv, Answered
  <2>2. ~Raises(Column) /\ read = Column
    BY <2>1 DEF SelectRead
  <2>3. /\ stored \in Seq(StoredValues) /\ all_varchar \in BOOLEAN
        /\ Len(Column) = Len(stored) /\ Len(Typed) = Len(stored)
    BY ColumnLengths DEF RowsInv
  <2>4. ASSUME NEW i \in 1..Len(stored)
        PROVE  /\ Evaluated[i] = Evaluate(stored[i]) /\ Column[i] = ScanValue(stored[i]) /\ Column[i] # Error
               /\ FarValue(stored[i]) => Evaluated[i].class = "ERROR"
               /\ ~FarValue(stored[i]) => Evaluated[i].class # "ERROR" /\ Typed[i] = Column[i]
    <3>1. stored[i].class \in Classes
      BY <2>3, StoredClass
    <3>2. Evaluated[i] = Evaluate(stored[i]) /\ Column[i] = ScanValue(stored[i]) /\ Typed[i] = ReadTypedValue(Evaluated[i])
      BY DEF Column, Evaluated, Typed
    <3>3. Column[i] # Error
      BY <2>2, <2>3 DEF Raises
    <3> QED BY <2>3, <3>1, <3>2, <3>3, ReadAsScanned
  <2>5. CASE HasFar
    <3>1. ReadsError
      BY <2>4, <2>5 DEF HasFar, FarValue, ReadsError
    <3> QED BY <2>1, <2>5, <3>1 DEF SelectPushed
  <2>6. CASE ~HasFar
    <3>1. \A i \in 1..Len(stored) : ~FarValue(stored[i])
      BY <2>6 DEF HasFar, FarValue
    <3>2. ~ReadsError
      BY <2>4, <3>1 DEF ReadsError
    <3>3. \A i \in 1..Len(stored) : Typed[i] = Column[i]
      BY <2>4, <3>1
    <3>4. Typed = Column
      BY <3>3 DEF Typed, Column
    <3> QED BY <2>1, <2>2, <2>6, <3>2, <3>4 DEF SelectPushed
  <2> QED BY <2>5, <2>6
<1> QED BY <1>1, ReadInductive, PTL DEF ReadSpec

\* What DuckDB writes, it reads again, whatever other clients insert.
THEOREM WrittenRead == ReadSpec => []WrittenIsRead
<1>1. RowsInv => WrittenIsRead
  <2> SUFFICES ASSUME RowsInv, ~all_varchar, Consistent, NEW i \in 1..Len(written)
      PROVE  ScanValue(stored[written[i].row]) = written[i].value
    BY DEF WrittenIsRead
  <2>1. /\ written[i].value \in Domain(ColumnType) \union {NullValue}
        /\ stored[written[i].row] = Stored(Affinity(declared), BindValue(written[i].value))
    BY DEF RowsInv
  <2>2. written[i].value = NullValue \/ IsValue(ColumnType, written[i].value)
    BY <2>1, SixTypes, DomainValues
  <2> QED BY <2>1, <2>2, WrittenReadsBack
<1> QED BY <1>1, ReadInductive, PTL DEF ReadSpec
=============================================================================
