----------------------------- MODULE TableWrites -----------------------------
(***************************************************************************)
(* One INSERT, UPDATE, DELETE or CREATE TABLE AS that DuckDB executes row  *)
(* by row: a scan fills a chunk, the sink of the operator consumes it, and *)
(* so on.  Scan and sink may use the same SQLite connection, and then the  *)
(* scan's cursor walks a b-tree that the sink is changing.                 *)
(***************************************************************************)
EXTENDS Naturals, Sequences, FiniteSets, FiniteSetsExt, Functions

CONSTANTS
    Tables,      \* the tables a statement may start with: functions from row ids to values
    Limits,      \* WHERE i < limit, a filter that is pushed down to SQLite
    Added,       \* what UPDATE adds to a value (SET i = i + Added)
    VectorSize,  \* STANDARD_VECTOR_SIZE
    MaxRowId,    \* bound on row ids
    MaxValue     \* bound on values

ASSUME VectorSizeAssumption == VectorSize \in Nat \ {0}
ASSUME BoundsAssumption ==
    MaxRowId \in Nat /\ MaxValue \in Nat /\ Added \in Nat /\ Limits \subseteq Nat
ASSUME TablesAssumption ==
    \A T \in Tables : DOMAIN T \subseteq 1..MaxRowId /\ T \in [DOMAIN T -> 0..MaxValue]

VARIABLES
    op,         \* "insert", "update", "delete" or "create": CREATE TABLE AS
    same,       \* the scan reads the table that is written
    shared,     \* use_global_db: the scan reads through the connection that writes
    order,      \* the b-tree SQLite scans: "rowid", or an index on the "value"
    limit,      \* the condition of the statement: rows with a value below it
    repeat,     \* how often a join of DuckDB emits each scanned row
    target,     \* the table that is written, as its connection sees it
    before,     \* the target when the statement began
    source,     \* the other table, if the scan reads one, or the target before
    phase,      \* "plan", "scan", "sink", "write" (of DELETE), "result", "done" or "failed"
    cursor,     \* the key of the row the scan read last
    done,       \* SqliteLocalState::done
    chunk,      \* rows of the scan: <<rowid, value>>
    row,        \* r: the next row of the chunk, or of rowids
    rowids,     \* collected by DELETE
    count       \* insert_count, update_count or delete_count

vars == <<op, same, shared, order, limit, repeat, target, before, source, phase, cursor, done, chunk,
          row, rowids, count>>
statement == <<op, same, shared, order, limit, repeat, before, source>>

Empty == [r \in {} |-> 0]

Init ==
    /\ op \in {"insert", "update", "delete", "create"}
    /\ same \in IF op = "insert" THEN BOOLEAN ELSE {op \in {"update", "delete"}}
    /\ shared \in BOOLEAN
    /\ order \in {"rowid", "value"}
    /\ limit \in Limits
    /\ repeat \in IF op = "delete" THEN 1..2 ELSE {1}
    /\ source \in Tables
    /\ target = IF same THEN source ELSE Empty
    /\ before = target
    /\ phase = "plan"
    /\ cursor = <<0, 0>>
    /\ done = FALSE
    /\ chunk = <<>>
    /\ row = 1
    /\ rowids = <<>>
    /\ count = 0

-----------------------------------------------------------------------------
(* Planning and the sink state.                                            *)

\* What the planner is given besides the operation
Clauses == {"plain", "returning", "on conflict", "set default"}

Rejected(clause) ==
    \/ clause = "returning" /\ op \in {"insert", "update", "delete"}
    \/ clause = "on conflict" /\ op = "insert"
    \/ clause = "set default" /\ op = "update"

\* PlanInsert, PlanUpdate, PlanDelete, PlanCreateTableAs; then GetGlobalSinkState, which
\* creates the table of CREATE TABLE AS, or prepares the statement: either may throw.
Plan(clause, prepared) ==
    /\ phase = "plan"
    /\ phase' = IF Rejected(clause) \/ (~prepared /\ op # "delete") THEN "failed" ELSE "scan"
    /\ UNCHANGED <<statement, target, cursor, done, chunk, row, rowids, count>>

-----------------------------------------------------------------------------
(* SqliteScan.                                                             *)

\* The table as the scan's connection sees it
Scanned == IF ~same THEN source ELSE IF shared THEN target ELSE before

Key(T, r) == IF order = "rowid" THEN <<r, 0>> ELSE <<T[r], r>>

Below(a, b) == a[1] < b[1] \/ (a[1] = b[1] /\ a[2] < b[2])

\* The rows a cursor has still to visit: SQLite restores a cursor to its key when the b-tree
\* below it has changed.
Ahead == {r \in DOMAIN Scanned : Scanned[r] < limit /\ Below(cursor, Key(Scanned, r))}

NextRow == CHOOSE r \in Ahead : \A s \in Ahead : s # r => Below(Key(Scanned, r), Key(Scanned, s))

Emitted(r) == [i \in 1..repeat |-> <<r, Scanned[r]>>]

\* Faulty variant: the row is stepped to before the chunk is found to be full.
StepThenTest ==
    /\ phase = "scan"
    /\ \/ /\ Len(chunk) >= VectorSize /\ Ahead # {}
          /\ cursor' = Key(Scanned, NextRow)
          /\ phase' = "sink"
          /\ UNCHANGED <<chunk, done>>
       \/ /\ Ahead = {}
          /\ phase' = "sink" /\ done' = TRUE
          /\ UNCHANGED <<cursor, chunk>>
       \/ /\ Len(chunk) < VectorSize /\ Ahead # {}
          /\ cursor' = Key(Scanned, NextRow)
          /\ chunk' = chunk \o Emitted(NextRow)
          /\ UNCHANGED <<phase, done>>
    /\ UNCHANGED <<statement, target, row, rowids, count>>

ScanStep ==
    /\ phase = "scan"
    /\ \/ /\ Len(chunk) >= VectorSize
          /\ phase' = "sink"
          /\ UNCHANGED <<cursor, chunk, done>>
       \/ /\ Len(chunk) < VectorSize /\ Ahead = {}
          /\ phase' = "sink" /\ done' = TRUE
          /\ UNCHANGED <<cursor, chunk>>
       \/ /\ Len(chunk) < VectorSize /\ Ahead # {}
          /\ cursor' = Key(Scanned, NextRow)
          /\ chunk' = chunk \o Emitted(NextRow)
          /\ UNCHANGED <<phase, done>>
    /\ UNCHANGED <<statement, target, row, rowids, count>>

\* An exception of the scan or of the sink: DuckDB rolls back (external).
Fail ==
    /\ phase \in {"scan", "sink", "write"}
    /\ phase' = "failed"
    /\ target' = before
    /\ UNCHANGED <<statement, cursor, done, chunk, row, rowids, count>>

-----------------------------------------------------------------------------
(* The sinks.                                                              *)

NewRowId(T) == IF DOMAIN T = {} THEN 1 ELSE Max(DOMAIN T) + 1

WithRow(T, r, v) == [s \in DOMAIN T \cup {r} |-> IF s = r THEN v ELSE T[s]]

\* One turn of the loop of SQLiteInsert::Sink
InsertRow ==
    /\ phase = "sink" /\ op \in {"insert", "create"} /\ row <= Len(chunk)
    /\ NewRowId(target) <= MaxRowId
    /\ target' = WithRow(target, NewRowId(target), chunk[row][2])
    /\ row' = row + 1
    /\ UNCHANGED <<statement, phase, cursor, done, chunk, rowids, count>>

\* One turn of the loop of SQLiteUpdate::Sink: WHERE rowid = ? may find no row.
UpdateRow ==
    /\ phase = "sink" /\ op = "update" /\ row <= Len(chunk)
    /\ chunk[row][2] + Added <= MaxValue
    /\ LET r == chunk[row][1]
       IN  target' = IF r \in DOMAIN target
                     THEN WithRow(target, r, chunk[row][2] + Added) ELSE target
    /\ row' = row + 1
    /\ UNCHANGED <<statement, phase, cursor, done, chunk, rowids, count>>

NextPhase == IF ~done THEN "scan" ELSE IF op = "delete" THEN "write" ELSE "result"

\* The end of Sink of INSERT and UPDATE
CountChunk ==
    /\ phase = "sink" /\ op # "delete" /\ row > Len(chunk)
    /\ count' = count + Len(chunk)
    /\ chunk' = <<>> /\ row' = 1
    /\ phase' = NextPhase
    /\ UNCHANGED <<statement, target, cursor, done, rowids>>

ChunkRowIds == [i \in 1..Len(chunk) |-> chunk[i][1]]

\* Faulty variant: a chunk replaces the row ids collected before.
KeepLastChunk ==
    /\ phase = "sink" /\ op = "delete"
    /\ rowids' = ChunkRowIds
    /\ chunk' = <<>>
    /\ phase' = NextPhase
    /\ UNCHANGED <<statement, target, cursor, done, row, count>>

\* SQLiteDelete::Sink
CollectRowIds ==
    /\ phase = "sink" /\ op = "delete"
    /\ rowids' = rowids \o ChunkRowIds
    /\ chunk' = <<>>
    /\ phase' = NextPhase
    /\ UNCHANGED <<statement, target, cursor, done, row, count>>

\* SQLiteDelete::GetDataInternal, one turn of the loop; a row id may be gone already.
DeleteRow ==
    /\ phase = "write" /\ row <= Len(rowids)
    /\ target' = Restrict(target, DOMAIN target \ {rowids[row]})
    /\ row' = row + 1
    /\ UNCHANGED <<statement, phase, cursor, done, chunk, rowids, count>>

CountRowIds ==
    /\ phase = "write" /\ row > Len(rowids)
    /\ count' = Len(rowids)
    /\ phase' = "result"
    /\ UNCHANGED <<statement, target, cursor, done, chunk, row, rowids>>

\* GetDataInternal returns the count.
GetData ==
    /\ phase = "result"
    /\ phase' = "done"
    /\ UNCHANGED <<statement, target, cursor, done, chunk, row, rowids, count>>

Next ==
    \/ \E clause \in Clauses, prepared \in BOOLEAN : Plan(clause, prepared)
    \/ ScanStep \/ Fail
    \/ InsertRow \/ UpdateRow \/ CountChunk
    \/ CollectRowIds \/ DeleteRow \/ CountRowIds
    \/ GetData

Spec == Init /\ [][Next]_vars

-----------------------------------------------------------------------------
\* The types of the table, the statement and its scan; row ids and values stay in their bounds.
TypeOK ==
    /\ op \in {"insert", "update", "delete", "create"}
    /\ {same, shared, done} \subseteq BOOLEAN
    /\ order \in {"rowid", "value"}
    /\ limit \in Limits
    /\ repeat \in 1..2
    /\ DOMAIN target \subseteq 1..MaxRowId
    /\ \A r \in DOMAIN target : target[r] \in 0..MaxValue
    /\ before \in Tables \cup {Empty} /\ source \in Tables
    /\ phase \in {"plan", "scan", "sink", "write", "result", "done", "failed"}
    /\ cursor \in Nat \X Nat
    /\ \A i \in DOMAIN chunk : chunk[i] \in (1..MaxRowId) \X (0..MaxValue)
    /\ row \in 1..(Max({Len(chunk), Len(rowids)}) + 1)
    /\ rowids \in Seq(1..MaxRowId)
    /\ count \in Nat

\* The rows that satisfy the condition when the statement begins
Selected == {r \in DOMAIN source : source[r] < limit}

\* What a statement means: it handles every selected row once, and its result counts them
Meant ==
    /\ repeat = 1 => count = Cardinality(Selected)
    /\ CASE op = "update" ->
               target = [r \in DOMAIN before |->
                            IF r \in Selected THEN before[r] + Added ELSE before[r]]
         [] op = "delete" -> target = Restrict(before, DOMAIN before \ Selected)
         [] OTHER ->
               /\ Restrict(target, DOMAIN before) = before
               /\ \A v \in 0..MaxValue :
                     Cardinality({r \in DOMAIN target \ DOMAIN before : target[r] = v})
                       = Cardinality({r \in Selected : source[r] = v})

(***************************************************************************)
(* DELETE collects all row ids before it deletes the first row: whatever   *)
(* b-tree the scan walks, on whichever connection, and however often a     *)
(* join repeats a row, exactly the scanned rows are gone.                  *)
(***************************************************************************)
DeleteExact == TypeOK /\ (phase = "done" /\ op = "delete" => Meant)

\* What keeps the scan of INSERT and UPDATE apart from their writes: another table, another
\* connection, keys that UPDATE does not change, or a scan that ends in its first chunk.
Separate ==
    \/ ~same \/ ~shared
    \/ op = "update" /\ order = "rowid"
    \/ Cardinality(Selected) < VectorSize

\* INSERT, UPDATE and CREATE TABLE AS handle every row of the scan once, over any number of
\* chunks, when scan and sink are apart.
SeparateWritesExact == phase = "done" /\ op # "delete" /\ Separate => Meant

(***************************************************************************)
(* UPDATE changes every row once (test/sql/storage/attach_transactions.test*)
(* updates a table in a transaction with SET i=i+100 and finds each value  *)
(* 100 larger), whatever index SQLite scans and however many chunks the    *)
(* scan fills.                                                             *)
(***************************************************************************)
UpdateOnce == phase = "done" /\ op = "update" => Meant
=============================================================================
