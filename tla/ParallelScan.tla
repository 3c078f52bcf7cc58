---------------------------- MODULE ParallelScan ----------------------------
(***************************************************************************)
(* The table scan of sqlite_scanner.cpp: bind reads the range of the row   *)
(* ids, the global state hands out slices of that range under its lock,    *)
(* and every thread runs "rowid BETWEEN lo AND hi" for the slices it       *)
(* claims, chunk by chunk, until no slice is left.                         *)
(*                                                                         *)
(* The contents of the table and the outcome of the filters on each row    *)
(* are chosen in ScanInit and do not change: the scan of a changing        *)
(* database is a matter of SQLiteTransactions.                             *)
(***************************************************************************)
EXTENDS Integers, FiniteSets

CONSTANTS
    Threads,        \* the tasks DuckDB may launch for the pipeline
    RowIds,         \* the row ids a table can have (a set of integers)
    RowsPerGroup,   \* SqliteBindData::rows_per_group (122880)
    MaxRows,        \* GetRowIdInfo's MAX_ROWS
    VectorSize,     \* STANDARD_VECTOR_SIZE
    IdxMod          \* the number of values of idx_t (2^64)

ASSUME RowIdsAssumption == RowIds \subseteq Int

ASSUME GroupAssumption ==
    /\ RowsPerGroup \in Nat \ {0}
    /\ MaxRows \in Nat
    /\ VectorSize \in Nat \ {0}

\* A row id is an int64 and takes half of the range of idx_t: a slice of at most
\* twice the range that GetRowIdInfo accepts fits into the other half.
ASSUME IdxAssumption ==
    /\ IdxMod \in Nat \ {0, 1}
    /\ \A r \in RowIds : r + 2 * MaxRows + RowsPerGroup + 1 < IdxMod

VARIABLES
    rows,            \* the row ids stored in the table
    sqlMatch,        \* the rows that satisfy filter_condition in SQLite
    residualMatch,   \* the rows that pass the filters evaluated in DuckDB
    hasRowId,        \* rowid_name is not empty and the table can be asked for it
    useGlobalDB,     \* use_global_db: the scan reads through the transaction's connection
    phase,           \* "bind", "init" (bound), "scan" (global state exists)
    parallel,        \* rows_per_group.IsValid()
    min_rowid,
    max_rowid,
    position,        \* SqliteGlobalState::position
    rows_per_group,  \* SqliteGlobalState::rows_per_group
    launched,        \* the threads DuckDB runs the pipeline with
    status,          \* per thread: "new", "scanning", "done", "finished", "error"
    scanned,         \* per thread: scan_count # 0
    pending,         \* per thread: the rows its statement has still to return
    chunk,           \* per thread: the rows of the chunk being filled
    delivered        \* how often each row was handed to DuckDB

table == <<rows, sqlMatch, residualMatch, hasRowId, useGlobalDB>>
bound == <<parallel, min_rowid, max_rowid>>
gstate == <<position, rows_per_group, launched>>
lstate == <<status, scanned, pending, chunk>>
scanVars == <<table, phase, bound, gstate, lstate, delivered>>

-----------------------------------------------------------------------------
\* Arithmetic of idx_t: every operand is below IdxMod, so one subtraction wraps.
Idx(n) == IF n < IdxMod THEN n ELSE n - IdxMod

\* The largest idx_t, which marks the single slice of a serial scan as claimed.
IdxMax == IdxMod - 1

SmallerOf(a, b) == IF a < b THEN a ELSE b

ScanInit ==
    /\ rows \in SUBSET RowIds
    /\ sqlMatch \in SUBSET rows
    /\ residualMatch \in SUBSET sqlMatch
    /\ hasRowId \in BOOLEAN
    /\ useGlobalDB \in BOOLEAN
    /\ phase = "bind"
    /\ parallel = FALSE
    /\ min_rowid = 0
    /\ max_rowid = 0
    /\ position = 0
    /\ rows_per_group = 0
    /\ launched = {}
    /\ status = [t \in Threads |-> "new"]
    /\ scanned = [t \in Threads |-> TRUE]
    /\ pending = [t \in Threads |-> {}]
    /\ chunk = [t \in Threads |-> {}]
    /\ delivered = [r \in RowIds |-> 0]

-----------------------------------------------------------------------------
(***************************************************************************)
(* SQLiteDB::GetRowIdInfo: MIN and MAX of the row id, refused when the     *)
(* name addresses no row id, when the range is empty or a single row       *)
(* (an empty table reads as 0, 0), starts below zero or is too sparse.     *)
(***************************************************************************)
GetRowIdInfo(lo, hi) ==
    /\ hasRowId
    /\ lo \in rows /\ hi \in rows
    /\ \A r \in rows : lo <= r /\ r <= hi
    /\ lo >= 0
    /\ hi > lo
    /\ hi - lo < MaxRows

\* SqliteBind and SQLiteTableEntry::GetScanFunction: a scan through the
\* transaction's connection is never split.
Bind ==
    /\ phase = "bind"
    /\ phase' = "init"
    /\ \/ \E lo, hi \in RowIds :
            /\ GetRowIdInfo(lo, hi)
            /\ min_rowid' = lo
            /\ max_rowid' = hi
            /\ parallel' = ~useGlobalDB
       \/ /\ \A lo, hi \in RowIds : ~GetRowIdInfo(lo, hi)
          /\ parallel' = FALSE
          /\ UNCHANGED <<min_rowid, max_rowid>>
    /\ UNCHANGED <<table, gstate, lstate, delivered>>

\* SqliteMaxThreads: 0 for a table smaller than a row group, which DuckDB
\* (external) runs with one task like 1.
MaxThreads ==
    IF parallel THEN (max_rowid - min_rowid) \div RowsPerGroup ELSE 1

\* Faulty variant: rows_per_group is left at its initial value.
InitGlobalStateNoGroup ==
    /\ phase = "init"
    /\ phase' = "scan"
    /\ position' = IF parallel /\ min_rowid > 0 THEN min_rowid - 1 ELSE 0
    /\ launched' \in SUBSET Threads
    /\ launched' # {}
    /\ Cardinality(launched') <= 1 \/ Cardinality(launched') <= MaxThreads
    /\ UNCHANGED <<table, bound, lstate, rows_per_group, delivered>>

\* SqliteInitGlobalState: the first slice starts one before the first row id.
InitGlobalState ==
    /\ phase = "init"
    /\ phase' = "scan"
    /\ position' = IF parallel /\ min_rowid > 0 THEN min_rowid - 1 ELSE 0
    /\ rows_per_group' = IF parallel THEN RowsPerGroup ELSE 0
    /\ launched' \in SUBSET Threads
    /\ launched' # {}
    /\ Cardinality(launched') <= 1 \/ Cardinality(launched') <= MaxThreads
    /\ UNCHANGED <<table, bound, lstate, delivered>>

-----------------------------------------------------------------------------
\* Faulty variant: the last row id counts as claimed.
NoSliceLeftEarly == position > 0 /\ position >= (IF parallel THEN max_rowid ELSE 0)

\* Whether SqliteClaimNextSlice returns false.
NoSliceLeft == position > (IF parallel THEN max_rowid ELSE 0)

\* A thread whose previous slice returned no row doubles the slices of all.
Doubles(t) == ~scanned[t] /\ rows_per_group < max_rowid

NextRowsPerGroup(t) == IF Doubles(t) THEN Idx(2 * rows_per_group) ELSE rows_per_group

SliceEnd(t) == SmallerOf(max_rowid, Idx(position + NextRowsPerGroup(t) - 1))

\* Faulty variant: the end of a slice is claimed again with the next one.
PositionAtSliceEnd(t) == SliceEnd(t)

PositionAfterSlice(t) == SliceEnd(t) + 1

(***************************************************************************)
(* SqliteClaimNextSlice, with the lock held, and SqliteInitInternal, which *)
(* prepares the statement of the slice.                                    *)
(***************************************************************************)
ClaimNextSlice(t) ==
    /\ ~NoSliceLeft
    /\ IF parallel
       THEN /\ NextRowsPerGroup(t) # 0
            /\ rows_per_group' = NextRowsPerGroup(t)
            /\ position' = PositionAfterSlice(t)
            /\ pending' = [pending EXCEPT ![t] =
                              {r \in sqlMatch : position <= r /\ r <= SliceEnd(t)}]
       ELSE /\ position' = IdxMax
            /\ pending' = [pending EXCEPT ![t] = sqlMatch]
            /\ UNCHANGED rows_per_group
    /\ scanned' = [scanned EXCEPT ![t] = FALSE]
    /\ status' = [status EXCEPT ![t] = "scanning"]
    /\ UNCHANGED <<launched, chunk, delivered>>

\* The slice is claimed, but opening the thread's connection or preparing the
\* statement throws: the error ends the query.
ClaimThenFail(t) ==
    /\ ~NoSliceLeft
    /\ rows_per_group' = IF parallel THEN NextRowsPerGroup(t) ELSE rows_per_group
    /\ position' = IF parallel THEN PositionAfterSlice(t) ELSE IdxMax
    /\ scanned' = [scanned EXCEPT ![t] = FALSE]
    /\ status' = [status EXCEPT ![t] = "error"]
    /\ UNCHANGED <<launched, pending, chunk, delivered>>

\* SqliteInitLocalState
InitLocalState(t) ==
    /\ phase = "scan"
    /\ t \in launched
    /\ status[t] = "new"
    /\ \/ ClaimNextSlice(t)
       \/ ClaimThenFail(t)
       \/ /\ NoSliceLeft
          /\ status' = [status EXCEPT ![t] = "done"]
          /\ UNCHANGED <<gstate, scanned, pending, chunk, delivered>>
    /\ UNCHANGED <<table, phase, bound>>

-----------------------------------------------------------------------------
\* SqliteApplyFilters, and handing what is left of the chunk to DuckDB.  A
\* chunk the filters empty is not handed out: SqliteScan fills another one.
DeliverChunk(t) ==
    /\ delivered' = [r \in RowIds |->
                        IF r \in chunk[t] /\ r \in residualMatch
                        THEN delivered[r] + 1 ELSE delivered[r]]
    /\ chunk' = [chunk EXCEPT ![t] = {}]

\* SqliteScan: one stmt.Step() that returns a row.
StepRow(t) ==
    /\ status[t] = "scanning"
    /\ Cardinality(chunk[t]) < VectorSize
    /\ \E r \in pending[t] :
         /\ pending' = [pending EXCEPT ![t] = @ \ {r}]
         /\ chunk' = [chunk EXCEPT ![t] = @ \cup {r}]
    /\ scanned' = [scanned EXCEPT ![t] = TRUE]
    /\ UNCHANGED <<table, phase, bound, gstate, status, delivered>>

\* SqliteScan: out_idx reached STANDARD_VECTOR_SIZE.
ChunkFull(t) ==
    /\ status[t] = "scanning"
    /\ Cardinality(chunk[t]) >= VectorSize
    /\ DeliverChunk(t)
    /\ UNCHANGED <<table, phase, bound, gstate, status, scanned, pending>>

\* Faulty variant: a slice without rows is never marked as done.
StepDoneUnlessEmpty(t) ==
    /\ status[t] = "scanning"
    /\ Cardinality(chunk[t]) < VectorSize
    /\ pending[t] = {}
    /\ status' = IF chunk[t] = {} THEN status ELSE [status EXCEPT ![t] = "done"]
    /\ DeliverChunk(t)
    /\ UNCHANGED <<table, phase, bound, gstate, scanned, pending>>

\* SqliteScan: stmt.Step() returns no row, the slice is done.
StepDone(t) ==
    /\ status[t] = "scanning"
    /\ Cardinality(chunk[t]) < VectorSize
    /\ pending[t] = {}
    /\ status' = [status EXCEPT ![t] = "done"]
    /\ DeliverChunk(t)
    /\ UNCHANGED <<table, phase, bound, gstate, scanned, pending>>

\* SqliteScan: stmt.Step() or a type check throws.
StepError(t) ==
    /\ status[t] = "scanning"
    /\ status' = [status EXCEPT ![t] = "error"]
    /\ UNCHANGED <<table, phase, bound, gstate, scanned, pending, chunk, delivered>>

\* SqliteScan: the next slice, or the empty chunk that ends the thread.
NextSlice(t) ==
    /\ status[t] = "done"
    /\ \/ ClaimNextSlice(t)
       \/ ClaimThenFail(t)
       \/ /\ NoSliceLeft
          /\ status' = [status EXCEPT ![t] = "finished"]
          /\ UNCHANGED <<gstate, scanned, pending, chunk, delivered>>
    /\ UNCHANGED <<table, phase, bound>>

Stopped(t) == status[t] \in {"finished", "error"}

Terminated ==
    /\ phase = "scan"
    /\ \A t \in launched : Stopped(t)
    /\ UNCHANGED scanVars

ThreadStep(t) ==
    \/ InitLocalState(t)
    \/ StepRow(t)
    \/ ChunkFull(t)
    \/ StepDone(t)
    \/ NextSlice(t)

ScanNext ==
    \/ Bind
    \/ InitGlobalState
    \/ \E t \in Threads : ThreadStep(t)
    \/ \E t \in Threads : StepError(t)
    \/ Terminated

ScanSpec == ScanInit /\ [][ScanNext]_scanVars

FairScan ==
    /\ ScanSpec
    /\ WF_scanVars(Bind)
    /\ WF_scanVars(InitGlobalState)
    /\ \A t \in Threads : WF_scanVars(ThreadStep(t))

-----------------------------------------------------------------------------
\* The types of the variables of the bind data, the global state and the threads.
ScanTypeOK ==
    /\ rows \in SUBSET RowIds
    /\ sqlMatch \in SUBSET rows
    /\ residualMatch \in SUBSET sqlMatch
    /\ hasRowId \in BOOLEAN /\ useGlobalDB \in BOOLEAN
    /\ phase \in {"bind", "init", "scan"}
    /\ parallel \in BOOLEAN
    /\ min_rowid \in Int /\ max_rowid \in Int
    /\ position \in Nat
    /\ rows_per_group \in Nat
    /\ launched \in SUBSET Threads
    /\ status \in [Threads -> {"new", "scanning", "done", "finished", "error"}]
    /\ scanned \in [Threads -> BOOLEAN]
    /\ pending \in [Threads -> SUBSET RowIds]
    /\ chunk \in [Threads -> SUBSET RowIds]
    /\ delivered \in [RowIds -> Nat]

(***************************************************************************)
(* No row is handed to DuckDB twice, whatever the interleaving of the      *)
(* claims and of the doublings of rows_per_group: the slices of            *)
(* SqliteClaimNextSlice are disjoint.                                      *)
(***************************************************************************)
EachRowAtMostOnce == \A r \in RowIds : delivered[r] <= 1

\* All threads of the scan have ended.
Succeeded ==
    /\ phase = "scan"
    /\ \A t \in launched : status[t] = "finished"

(***************************************************************************)
(* A scan that ends without an error has handed out every row that passes  *)
(* the filters: the slices cover the range up to its last row (the row     *)
(* that was dropped when the range was a multiple of rows_per_group), and  *)
(* an emptied chunk does not end a thread early.                           *)
(***************************************************************************)
CompleteWhenFinished ==
    Succeeded => \A r \in RowIds : delivered[r] = 1 <=> r \in residualMatch

(***************************************************************************)
(* However often empty slices double rows_per_group, the end of a slice is *)
(* computed without wrapping around idx_t, and rows_per_group never        *)
(* becomes 0 (the InternalException of SqliteClaimNextSlice is not thrown).*)
(***************************************************************************)
SliceArithmeticFits ==
    (phase = "scan" /\ parallel) =>
        /\ rows_per_group # 0
        /\ \A t \in Threads :
             ~NoSliceLeft =>
                 position + (IF Doubles(t) THEN 2 * rows_per_group ELSE rows_per_group) < IdxMod

(***************************************************************************)
(* The scan ends: every launched thread finishes or reports an error.      *)
(***************************************************************************)
ScanTerminates == <>(phase = "scan" /\ \A t \in launched : Stopped(t))
=============================================================================
