--------------------------- MODULE FilterPushdown ---------------------------
(***************************************************************************)
(* The filters of a table scan.  DuckDB hands the scan one filter for each *)
(* filtered column and does not evaluate it itself.  TransformFilters puts *)
(* the conditions that SQLite evaluates like DuckDB into the query; the    *)
(* other filters are evaluated on every chunk, by SqliteApplyFilters.      *)
(*                                                                         *)
(* A value is told from another one by its rank in each of the orders in   *)
(* which it may be compared.  DuckDB compares in the order "binary".       *)
(***************************************************************************)
EXTENDS Naturals, Sequences, FiniteSets

CONSTANTS
    Null,
    Rank,        \* Rank[order][value]
    Columns,     \* positions of the scanned columns
    Scans,       \* what may be scanned: columns, filters and rows
    ChunkSize    \* STANDARD_VECTOR_SIZE

ASSUME ChunkAssumption == ChunkSize \in Nat \ {0}
ASSUME ScansAssumption == \A s \in Scans : Len(s.rows) \in Nat

VARIABLES
    scan,        \* the scan: bind data, the filter of each column, the rows
    todo,        \* columns whose filter is still to be transformed
    conditions,  \* conditions of the query: pairs of a column and a leaf
    filters,     \* columns whose filter is evaluated in DuckDB
    cursor,    \* rows that SQLite has gone through
    output,      \* the rows of the chunk
    done,        \* SQLite has no more rows
    emitted,     \* the rows given to DuckDB
    stage

vars == <<scan, todo, conditions, filters, cursor, output, done, emitted, stage>>

Rows == 1..Len(scan.rows)

-----------------------------------------------------------------------------
(* Comparisons.                                                            *)

\* Whether a leaf of a filter holds for a value, compared in an order.
Holds(leaf, order, v) ==
    CASE leaf.op = "<" -> v # Null /\ Rank[order][v] < Rank[order][leaf.constant]
      [] leaf.op = "=" -> v # Null /\ Rank[order][v] = Rank[order][leaf.constant]
      [] leaf.op = "IS NOT" -> v = Null \/ Rank[order][v] # Rank[order][leaf.constant]
      [] leaf.op = "IS NULL" -> v = Null
      [] OTHER -> TRUE

\* The order in which SQLite compares a column: by its affinity, its collation, and the
\* encoding of the database.
SQLiteOrder(c, nocase) ==
    LET column == scan.columns[c]
    IN  CASE column.type = "VARCHAR" /\ ~column.text -> "numeric"
          [] column.type = "VARCHAR" /\ nocase -> "nocase"
          [] column.type = "VARCHAR" /\ ~scan.utf8 -> "utf16"
          [] column.type \in {"BIGINT", "ROWID", "VARCHAR"} -> "binary"
          [] OTHER -> "storage"

\* The order of a condition of the query: strings are compared with COLLATE BINARY.
ConditionOrder(c) == SQLiteOrder(c, FALSE)

\* An internal filter only prunes rows that the query does not need.
Passes(r, c) ==
    \A leaf \in scan.filter[c] : leaf.kind = "internal" \/ Holds(leaf, "binary", scan.rows[r][c])

-----------------------------------------------------------------------------
(* SQLiteFilterPushdown::TransformFilters.                                 *)

\* CanPushColumn: utf8_text_affinity is only set for text columns of an UTF-8 database.
CanPushColumn(c) ==
    LET column == scan.columns[c]
    IN  \/ column.type = "ROWID" /\ scan.rowid_name
        \/ /\ ~scan.all_varchar
           /\ \/ column.type = "BIGINT"
              \/ column.type = "VARCHAR" /\ column.text /\ scan.utf8

\* HasNulByteConstant, and FilterPushdown::TransformFilterExpression (external): the leaves
\* that can be written as a condition.
Translates(leaf) == leaf.kind = "comparison"

\* Faulty variant: the filter counts as complete when one of its leaves is.
TransformFilterAnyLeaf(c) ==
    \E leaf \in scan.filter[c] : Translates(leaf) \/ leaf.kind = "internal"

\* TransformFilter returns whether nothing of the filter is left for DuckDB.
TransformFilter(c) ==
    \A leaf \in scan.filter[c] : Translates(leaf) \/ leaf.kind = "internal"

TransformFilters(c) ==
    /\ stage = "transform" /\ c \in todo
    /\ todo' = todo \ {c}
    /\ conditions' = conditions \cup
          (IF CanPushColumn(c)
           THEN {<<c, leaf>> : leaf \in {l \in scan.filter[c] : Translates(l)}} ELSE {})
    /\ filters' = IF CanPushColumn(c) /\ TransformFilter(c) THEN filters ELSE filters \cup {c}
    /\ UNCHANGED <<scan, cursor, output, done, emitted, stage>>

Prepared ==
    /\ stage = "transform" /\ todo = {}
    /\ stage' = "scan"
    /\ UNCHANGED <<scan, todo, conditions, filters, cursor, output, done, emitted>>

-----------------------------------------------------------------------------
(* SqliteScan.                                                             *)

\* The rows that SQLite yields for the query
Selected(r) ==
    \A condition \in conditions :
        Holds(condition[2], ConditionOrder(condition[1]), scan.rows[r][condition[1]])

\* A row of the query is read into the chunk, or SQLite skips it.
Step ==
    /\ stage = "scan" /\ ~done /\ Cardinality(output) < ChunkSize
    /\ cursor < Len(scan.rows)
    /\ cursor' = cursor + 1
    /\ output' = IF Selected(cursor + 1) THEN output \cup {cursor + 1} ELSE output
    /\ UNCHANGED <<scan, todo, conditions, filters, done, emitted, stage>>

\* The chunk is full, or SQLite has no more rows: the filters that are left are evaluated.
SqliteApplyFilters ==
    /\ stage = "scan" /\ ~done
    /\ Cardinality(output) = ChunkSize \/ cursor = Len(scan.rows)
    /\ done' = (Cardinality(output) < ChunkSize)
    /\ output' = {r \in output : \A c \in filters : Passes(r, c)}
    /\ stage' = "filtered"
    /\ UNCHANGED <<scan, todo, conditions, filters, cursor, emitted>>

\* The loop goes on until there is a row to return: an empty chunk tells DuckDB that the scan
\* has ended.
ReturnChunk ==
    /\ stage = "filtered"
    /\ emitted' = emitted \cup output
    /\ output' = {}
    /\ stage' = "scan"
    /\ UNCHANGED <<scan, todo, conditions, filters, cursor, done>>

Finish ==
    /\ stage = "scan" /\ done
    /\ stage' = "finished"
    /\ UNCHANGED <<scan, todo, conditions, filters, cursor, output, done, emitted>>

Init ==
    /\ scan \in Scans
    /\ todo = Columns
    /\ conditions = {} /\ filters = {}
    /\ cursor = 0
    /\ output = {}
    /\ done = FALSE
    /\ emitted = {}
    /\ stage = "transform"

Next ==
    \/ \E c \in Columns : TransformFilters(c)
    \/ Prepared \/ Step \/ SqliteApplyFilters \/ ReturnChunk \/ Finish

Spec == Init /\ [][Next]_vars /\ WF_vars(Next)

-----------------------------------------------------------------------------
\* A chunk has room for ChunkSize rows.
TypeOK ==
    /\ todo \subseteq Columns /\ filters \subseteq Columns
    /\ cursor \in 0..Len(scan.rows)
    /\ output \subseteq 1..cursor /\ emitted \subseteq 1..cursor
    /\ Cardinality(output) <= ChunkSize
    /\ done \in BOOLEAN
    /\ stage \in {"transform", "scan", "filtered", "finished"}

(***************************************************************************)
(* The rows that a scan emits are the rows that pass the filters as DuckDB *)
(* evaluates them, whatever was pushed down: the conditions in SQLite      *)
(* never drop a row that DuckDB would keep, and what they do not cover is  *)
(* evaluated on the chunk.  Nothing evaluates the filters again.           *)
(***************************************************************************)
ScanFilters ==
    stage = "finished" => emitted = {r \in Rows : \A c \in Columns : Passes(r, c)}

(***************************************************************************)
(* A row that SQLite skipped is a row that the filters reject: the         *)
(* pushed conditions are implied by the filters, for NULL, for strings     *)
(* that look like numbers, differ in case only, or are ordered differently *)
(* in UTF-16.                                                              *)
(***************************************************************************)
NeverDropped ==
    \A r \in 1..cursor :
        (\A c \in Columns : Passes(r, c)) => r \in output \cup emitted
=============================================================================
