# A TLA+ model of the SQLite extension of DuckDB

This directory models the extension that lets DuckDB read and write SQLite
databases: how tables are scanned in parallel, how DuckDB's transactions map to
SQLite's, how remote files are opened and read, how the catalog is cached, how
rows are written, and how statements, filters, functions and columns that SQLite
evaluates give the answers DuckDB would give.  It also models the part of the
bundled SQLite on which an attached file's transactions rest: the rollback journal
and the write-ahead log.  TLC checks every module on small
instances, and TLAPS proves the main safety properties of thirteen of them for all values
of the constants.

`PROJECT.json` lists components, runs, theorems, findings and hazards, and maps
every definition to the source lines it models.  Paths below are relative to the
repository's `src/`.

## 1. The system and its parts

DuckDB loads the extension (`sqlite_extension.cpp`), which registers table
functions, settings, functions for use inside SQLite and a storage extension.
`ATTACH` makes a `SQLiteCatalog`; from then on

1. every DuckDB transaction that touches the database gets a `SQLiteTransaction`
   with a SQLite connection: its own for a file, opened lazily for a remote file,
   the catalog's single one for an in-memory database;
2. tables are looked up through the transaction, which caches an entry per name;
3. a query is executed in one of two ways.  *Locally*, DuckDB plans it, and scans
   each table (`sqlite_scanner.cpp`) with the filters that were pushed down;
   several threads may scan slices of one table on connections of their own.
   *Remotely*, the whole statement is translated to SQLite's dialect and becomes
   a call of `sqlite_query`;
4. INSERT, UPDATE, DELETE and CREATE TABLE AS run locally as operators that
   execute one SQLite statement per row, or remotely as one statement;
5. a remote file is read through a VFS that is registered per DuckDB connection
   and refuses databases whose journal or WAL would be needed;
6. a local file is read and written by SQLite's pager.  Other processes may have
   the file open, in any journal mode, and may die at any moment.

| Part | Source | Module | Modelled |
|---|---|---|---|
| Parallel table scan | `sqlite_scanner.cpp`, `sqlite_db.cpp` | `ParallelScan` | yes |
| Filter pushdown of a scan | `sqlite_filter_pushdown.cpp`, `sqlite_scanner.cpp` | `FilterPushdown` | yes |
| Column types and value conversion | `sqlite_utils.cpp`, `sqlite_scanner.cpp`, `sqlite_stmt.cpp`, writer | `ColumnReads` | yes |
| Transactions of local and in-memory databases | `storage/sqlite_transaction*.cpp`, `storage/sqlite_catalog.cpp` | `SQLiteTransactions` | yes |
| Lazily opened transactions of remote databases | `storage/sqlite_transaction.cpp` | `RemoteTransaction` | yes |
| Catalog entries and DDL | `storage/sqlite_transaction.cpp`, `storage/sqlite_schema_entry.cpp` | `CatalogCache` | yes |
| INSERT, UPDATE, DELETE, CREATE TABLE AS | `storage/sqlite_insert.cpp`, `_update.cpp`, `_delete.cpp` | `TableWrites` | yes |
| Remote execution, `sqlite_query` | `storage/sqlite_catalog.cpp`, `storage/sqlite_query.cpp`, `sqlite_scanner.cpp` | `RemoteQuery` | yes |
| VFS registry | `sqlite_duckdb_vfs_cache.cpp`, `sqlite_db.cpp` | `VFSRegistry` | yes |
| Remote database files | `sqlite_duckdb_vfs_cache.cpp` | `RemoteFile` | partly |
| Aggregate and window functions in SQLite | `sqlite_functions.cpp` | `Aggregates` | yes |
| LIKE and ILIKE | writer, `sqlite_functions.cpp` | `LikeMatcher` | yes |
| Date functions | `sqlite_functions.cpp`, writer | `DateFunctions` | partly |
| SQLite: write-ahead log | `sqlite/sqlite3.c` (wal.c) | `WriteAheadLog`, `SnapshotStore` | partly |
| SQLite: rollback journal | `sqlite/sqlite3.c` (pager.c, locks of os_unix.c) | `RollbackJournal`, `SnapshotStore` | partly |
| SQLite: SQL compiler, virtual machine, B-trees | `sqlite/sqlite3.c` | | no |
| SQL writer, capabilities, scalar functions, attach, DuckLake profile, loading, `sqlite_attach` | see section 7 | | no |

DuckDB is not part of the model, and of SQLite only the storage layer is a
component.  Where the extension relies on either, its module has a definition of
what is relied on.  For SQLite (locks, affinities, comparison, GLOB, row ids,
DDL) it is mapped to the lines of `sqlite3.c` it abstracts; for DuckDB (scheduling,
its calendar, errors) and for the file systems it is marked external in the map.

## 2. The modules

Each component has a module with its state, Init, one action per operation, Next
and the specification.  `MC` modules give the constants their values for TLC.
Most of them take two or three components that do not share state but belong to
one question (`MCTableReads`, `MCRemoteFiles`, `MCTransactions`, `MCStatements`,
`MCFunctions`, `MCStorage`): a variable that never changes says which of them a
behaviour is about, and the variables of the others stay as they are initially, so
nothing is composed and no behaviour of any of them is lost.  Where components share a
run and a proof module, the second and third one's `Init`, `Next`, `Spec`, `vars` and
`TypeOK` have a prefix (`GetDBInit`, `FileSpec`, `QueryNext`, `CatalogTypeOK`).  A module's type
invariant, where it has one, is a conjunct of one of its safety invariants.  A
definition commented "Faulty variant" is a plausible mistake in the definition it
stands next to; it is used by no specification, only to see that a property notices
the mistake.  Names follow the source.

* **`ParallelScan`**.  `Bind` is the part of `SqliteBind` and `GetRowIdInfo` that
  reads the row id range and decides whether the scan can be parallel.
  `InitGlobalState` chooses the number of threads.  A thread claims a slice under
  the global lock (`SqliteClaimNextSlice`, including the doubling of the group
  size and `idx_t` arithmetic modulo `IdxMod`), steps its statement, filters the
  chunk and returns it.  A step or a prepare may fail.  The rows and the outcome
  of the filters are chosen in Init.
* **`FilterPushdown`**.  `TransformFilters` goes through the filtered columns:
  conditions that SQLite evaluates in DuckDB's order go into the query, the rest
  stays for `SqliteApplyFilters`.  A value is known by its rank in five orders
  (binary, UTF-16, NOCASE, numeric, storage class).
* **`ColumnReads`**.  A declared type gives a DuckDB type and an affinity; the
  stored value, of any class, is converted by the scan, by a typed `sqlite_query`
  result, or by the expression the writer reads the column with.  The same query
  is answered both ways and the answers are compared.
* **`SQLiteTransactions`**.  Clients start, bind, scan, write, commit and roll
  back, each step possibly failing; locks follow the rollback journal or WAL.  A
  parallel scan reads through connections other than the transaction's.
* **`RemoteTransaction`**.  `GetDB` one shared-memory step at a time: the atomic
  fast path, `init_lock`, open, `BEGIN`, publication, and each failure.
* **`CatalogCache`**.  The cache of one transaction next to the database's schema,
  with DDL through the catalog and behind it by `sqlite_query`.
* **`TableWrites`**.  One statement: plan, scan a chunk, sink it, scan the next.
  The scan is a cursor on the row id b-tree or on an index of the written column,
  on the sink's connection or on another one.
* **`RemoteQuery`**.  Capabilities (as an outcome), `RemoteExecute`,
  `SQLiteQueryBind`, the check of the transaction, preliminary queries, command or
  rows, upkeep of the cache, and the fall back to local execution.
* **`VFSRegistry`**.  Every step under `registry_mutex` is one action; the steps
  of `sqlite3_open_v2` between them interleave with those of other threads and
  with the end of the connection.
* **`RemoteFile`**.  A writer in either journal mode is cut off at any step and
  its files are published; the reader probes the sidecars on the first access.
* **`Aggregates`**.  Step, Inverse, Value and Final of each function with its
  state and the heap objects it owns; any allocation fails, any row interrupts.
* **`LikeMatcher`**.  The writer's translation to GLOB, and the matching loop, one
  iteration per step, over bytes with one-byte and two-byte characters.
* **`DateFunctions`**.  `duckdb_date_part`, `_trunc`, `_diff` and `last_day` over the
  proleptic Gregorian calendar.

* **`SnapshotStore`**.  What SQLite's storage promises: a committed image that one
  whole transaction replaces in one step, readers that keep the image they started
  with, one writer that starts from the newest image, commits that recovery may
  complete after their writer's death (`limbo`), and the earlier images to which a
  power loss may return (`doubt`).
* **`WriteAheadLog`**.  Each connection is a process with its `Wal` object.  The steps
  are the accesses to shared memory and files: `walIndexTryHdr`, the choice, lock and
  re-check of a read mark in `walTryBeginRead`, frames of a spill or a commit, the two
  stores of `walIndexWriteHdr`, `walRestartLog`, each test, lock and copied page of
  `walCheckpoint`, `walIndexRecover`.  A frame's checksum is the identity of the frame
  before it and the salt, so a stale or torn frame ends the valid prefix.
* **`RollbackJournal`**.  The lock levels of `unixLock`, the three looks of
  `hasHotJournal`, playback record by record, `pager_open_journal`, `syncJournal` with
  its stale-header check and its two flushes, `pager_write_pagelist` page by page,
  `pager_end_transaction` for DELETE, TRUNCATE and PERSIST, the page cache and the
  change counter.  A journal is a sequence of headers and records; a deleted file that
  a connection has open lives on in that connection (`own`).

In both, every file exists twice, as written and as flushed.  A process may die at
any step: its locks go, the files stay.  At a power loss every write that was not
flushed is on the medium, absent or torn, each page, frame and record independently.
`Image`, `Snap` and `Intent` are the refinement mapping to `SnapshotStore`; `limbo` and
`doubt` are history variables.

Components meet at few places, and each meeting is inside a module rather than in
a composition: transactions and scan connections in `SQLiteTransactions`, the
cache and the executor of `sqlite_query` in `RemoteQuery` (and the cache and the
row id names of UPDATE and DELETE in `CatalogCache`), scan and sink in
`TableWrites`, scan and writer in `ColumnReads`.

## 3. The runs

A passing run explores the whole state space of its instance.

| Run | Instance | States | Question |
|---|---|---|---|
| `table_reads` | scans: 2 threads, row ids from {-1, 0, 1, 3, 6}, groups of 1 doubling, chunks of 2, `idx_t` modulo 21; filters: 7 rows of 6 strings, every filter of 2 leaves; columns: 15 declared types, 2 rows of 10 values | 632,831 | Is every matching row read once, with the answers DuckDB would give? |
| `remote_files` | 2 connections, 3 opening threads, 3 wrapper addresses; files of 2 pages, 3 versions | 502,136 | Can a wrapper be used after it was freed, or a torn file be served? |
| `transactions` | 3 threads in `GetDB`, 2 calls each, 3 opens; 2 clients, 3 versions, journal / WAL / in-memory | 160,548 | Does every transaction see one version, lose nothing, and let go of everything? |
| `statements` | tables of up to 3 rows with gaps and ties, chunks of 2; 2 remote statements; 3 names, 3 column names, 3 DDL statements | 147,815 | Does a statement handle every row once, is it executed once, and is the cache right? |
| `functions` | texts of 3, patterns of 4 characters; groups of 4 rows, 15 functions; 21 days around boundaries, 3 times each, all parts | 979,782 | Are LIKE, the aggregates and the date functions right, within their buffers and objects? |
| `storage` | 2 processes, 2 pages, 3 read marks, 2 transactions, 1 fault, synchronous=FULL; DELETE, TRUNCATE, PERSIST and WAL | 511,426 | Do the journals implement the abstract store? |

**`table_reads`**: of `ParallelScan` `EachRowAtMostOnce`, `CompleteWhenFinished`,
`SliceArithmeticFits`, `ThreadsEnd`.  The row ids include a negative one (no parallel
scan), 0 (where the code must not subtract), a gap longer than a slice and a range
that ends a group; three doublings fit in it.  Two threads are enough for the
shared state, a position and a size under one lock; the proofs hold for any number.
Of `FilterPushdown` `ScanFilters`; of `ColumnReads` `ReadAlike`, `UpdateChecksLikeScan`,
`WrittenIsRead`.  The strings differ in each of the orders, and the declared types
cover every keyword and pairs on which SQLite's and the extension's rules disagree.

**`remote_files`**: of `VFSRegistry` `NoUseAfterFree`, `CountMatchesHandles`,
`NameTableValid`, `ErrorOfConnection`, `RetiredIsReleased`.  Two threads share a
connection and one has its own; wrapper addresses are used again, so that a stale
pointer can meet a new wrapper.  Of `RemoteFile` `ServedIsCommitted`, `CleanIsServed`:
the writer stops between any two steps, and each probe finds, does not find, or fails.

**`transactions`**: of `RemoteTransaction` `ReturnedIsBegun`, `EveryBeginEnds`,
`GetDBEnds`; of `SQLiteTransactions` `EndedTransactionsHoldNothing`,
`ReadsOneVersion`, `NoLostUpdate`, `InMemoryExclusive`, `CommitEnds`.  Three
threads are needed for one that fails while another waits and a third takes the
fast path.  Two clients are enough for conflicts between a reader and a writer
and between two writers.  Deadlock is not checked, as a remote transaction ends.

**`statements`**: of `TableWrites` `DeleteExact`, `SeparateWritesExact`: a scan ends in
its first chunk, at its border or in the second; `MaxRowId` and `MaxValue` stop the
statements that feed themselves.  Of `RemoteQuery` `ReadOnlyUnwritten`, `StatementOnce`,
`CacheShowsSchema`.  Of `CatalogCache` `TableEntriesFresh`, `WritesAddressRowIds`: the
columns are the three names of row ids, the only ones the code treats specially;
names are symmetric; three DDL statements create, change or drop, and create again.

**`functions`**: of `LikeMatcher` `TypeOK` (all accesses inside the buffers),
`LikeCorrect`, `Progress`; of `Aggregates` `ResultCorrect`, `FreedExactlyOnce`; of
`DateFunctions` `PeriodBoundsExact`, `DiffCountsBoundaries`, `PartsCountFromTrunc`.  The
alphabet has a byte of ASCII in both cases, the two bytes of another character,
both wildcards, GLOB's `*` and, as escape, each kind of argument.  The units of time
are shortened (a day of 72 ticks), the calendar is the real one.

**`storage`**: `ImplementsStore` (the specification `SnapshotStore!StoreSpec` under the
refinement mapping) and `JournalCoversWrites`.

* Behaviours without a fault start from a database that was never written; the ones
  with a fault start from a fully copied log to restart, or from a journal file that
  still has two segments of an earlier PERSIST transaction.  So a second transaction
  always finds leftovers of a first one, which is where stale frames, headers and
  records come from.  With three read marks there are two to compete for.
* Two processes give a reader next to a writer or a checkpoint, two writers, and a
  survivor that recovers what the other left.  WAL transactions change both pages and
  may spill page 2 first; a journal transaction changes page 2, or both.
* Journal modes may differ between the connections in behaviours without fault.
* Three constants keep known defects out of this run: `StaleHeader` and `KeepOpen`
  (the runs `wal_reset` and `journal_orphan` set them, see section 6) and `TornRestart`
  (a process that dies inside `walRestartHdr` leaves `nBackfill` of the old log with the
  header of the new one; with it `ImplementsStore` fails, see the hazards).
* Larger instances that are not part of the runs also pass: the log with
  synchronous=NORMAL (360,731 states), where a power loss may return to an image in
  `doubt`, and two faults (251,105 states with a journal, 858,512 with the log).  The rollback journal is checked with
  FULL only: with NORMAL the comment at `sqlite3.c:56724` itself allows corruption.

Six further runs each find one property violated; see section 6.

## 4. Fairness

| Property | Assumed | Why |
|---|---|---|
| `ThreadsEnd` | `WF` of bind, of the global state and of each thread's steps | DuckDB's scheduler runs every task it has started. Nothing in the scan waits but the slice lock, which is held for one step. No fairness for errors. |
| `GetDBEnds` | `WF` of each thread's steps inside `GetDB` | A thread in the function goes on, or waits for `init_lock`. Nothing is assumed about calls or the end of the transaction. |
| `CommitEnds` | `WF` of `EndStep` | `sqlite3_step` of COMMIT returns `SQLITE_BUSY` when the busy timeout has expired (`sqlite_db.cpp:69`); what follows does not wait. |
| `RetiredIsReleased` | `WF` of `CloseFile` and `CloseRelease` | Connections are owned by scans and transactions that end, also when their client goes away. |

`ImplementsStore` is a safety property; `storage` assumes no fairness, as a process may
stay idle for ever.  No action that a client chooses is fair, and strong fairness is not used.

## 5. What is proved

TLAPS checks eight modules.  Each extends its components and assumes only what they
state about their constants; TLC evaluates those assumptions in the runs.  All
theorems are about any number of threads, clients, connections, rows, names and
statements; the bounds that the components put on counters are arbitrary naturals.
Every proof has the same shape: the invariant named below holds initially, one lemma
per action shows that it is kept, and the properties follow from it.

| Module | Proves |
|---|---|
| `ParallelScanProofs` | `EachRowAtMostOnce`, `CompleteWhenFinished`, `SliceArithmeticFits` |
| `TableReadsProofs` | `ScanFilters`, `UpdateChecksLikeScan`, `WrittenIsRead`, and `ReadAlike` for queries that do not compare or order |
| `TransactionsProofs` | `ReturnedIsBegun`, `EveryBeginEnds`, `EndedTransactionsHoldNothing`, `ReadsOneVersion`, `NoLostUpdate`, `InMemoryExclusive` |
| `RemoteFilesProofs` | `NoUseAfterFree`, `CountMatchesHandles`, `NameTableValid`, `ErrorOfConnection`, `ServedIsCommitted`, `CleanIsServed` |
| `StatementsProofs` | `ReadOnlyUnwritten`, `StatementOnce`, `CacheShowsSchema`, `TableEntriesFresh`, `WritesAddressRowIds` |
| `TableWritesProofs` | `DeleteExact`, `SeparateWritesExact` |
| `FunctionsProofs` | `TypeOK` (bounds of the buffers of LIKE), `Progress`; `PeriodBoundsExact`, `DiffCountsBoundaries`, `PartsCountFromTrunc` |
| `RollbackJournalProofs` | `JournalCoversWrites` |

**`ParallelScanProofs`** (`RowIdsAssumption`, `GroupAssumption`, `IdxAssumption`: row
ids are integers, sizes are positive, and the largest row id plus twice the
maximal range fits `idx_t`).  `NoRowTwice`, `NoRowMissing`, `NoWrapAround` and
`ScanTypeCorrect` hold for every table, set of threads, group size and
interleaving.  None of the properties is inductive: which rows a thread holds
depends on the slices claimed before.  The invariant says that

* the range found at bind time contains all rows (`BoundRange`);
* the slices handed out so far cover exactly the row ids below `position`, and a
  slice that is not the last is no longer than everything before it
  (`SliceFrontier`), which bounds the doubling and so the arithmetic;
* a row is unclaimed, pending in one thread, in one thread's chunk, or delivered
  once (`OnePlace`), and a claimed row that matches is in one of these places
  unless a thread failed (`NoneLost`);
* threads that have not started, or ended, hold nothing (`IdleHoldsNothing`,
  `NothingBeforeScan`, `LaunchedSome`).

`SliceBounds` does the arithmetic of `SqliteClaimNextSlice` once; each action has a
lemma.

**`TableReadsProofs`**.  *Filters* (`ChunkAssumption`, `ScansAssumption`).  `PushdownExact`: for
any values with any five orders, any filters and any rows, the emitted rows are
the ones that DuckDB's comparisons select.  `PushdownDropsNothing`: no row that
passes is skipped by SQLite.  `ScanTypes`: no chunk overflows.  The argument is
`PushedOrder` (a column is pushed down only where SQLite's order is the binary
one), `SplitFilter` (conditions and remaining filters together are the filter) and
an invariant that follows the columns still to be transformed and where each row
read so far is.
*Columns* (`ClientValuesAssumption`: a stored value has one of SQLite's five classes).
`WrittenReadsBack` goes once through types, affinities and values: what is bound,
converted by the affinity and scanned is what was written.  `WrittenRead` lifts it to
all behaviours with the invariant `RowsInv` (a written row is stored as it was bound and
converted, and other clients only add rows).  `UpdateChecked` and `SelectionsAlike` compare
the pushed down statement with the scan; their invariant `AnswersInv` says that an answer
is the one for the rows stored, and `ReadAsScanned` that the writer's expression for a
column gives the value of the scan.

**`TransactionsProofs`**.  *`GetDB`* (`ThreadAssumption`, `BoundAssumption`).
`OneBegunConnection` and `NoBeginLeft`.  That the returned connection is begun does not
follow from what `GetDB` has returned so far; `GetDBInv` says what the one thread past
`init_lock` has done (`Attempt`: nothing, opened, begun, owned, started) and that
without such a thread only the published connection is open (`Published`).
*Local databases* (`ClientAssumption`, `VersionAssumption`, `DatabaseAssumption`).
`NothingHeldAfterEnd`, `OneVersionRead` and the action property `CommitsWhatWasRead`
follow from `TxInv`: a connection outside a transaction holds nothing (`ConnInv`); there
is one writer, its snapshot is the newest version, and with a rollback journal every
lock pins the version (`LockInv`); what the phase of a DuckDB transaction says of its
connection (`PhaseInv`); an in-memory database has one user (`UserInv`); and every
version read lies between the snapshot and the newest version while the lock is held
(`ReadInv`).  A COMMIT with changes therefore finds snapshot, reads and version equal.
`OneInMemoryTransaction` assumes `NoAutoRollback`, that no in-memory database has
statements at which SQLite rolls back by itself.  Without it the property is false: the
run `tx_memory_rollback` is the counterexample.  `MemInv` adds that an invalid
transaction is still open in SQLite.

**`RemoteFilesProofs`**.  *Registry* (`OpenersAssumption`, `CtxAssumption`,
`NoneAssumption`; the set of threads is finite, which the count of handles needs).
`WrapperOutlivesUse`, `CountIsExact`, `NamesAreRegistered`, `OwnErrorReported`.
`RegistryInv` adds to the properties that a wrapper is retired exactly when its flag is
set (`Flags`), that an open in flight keeps its context and so its wrapper registered,
and that a thread never points to a wrapper that another context has (`Places`, which is
where reuse of an address would show), and that the message in a registered wrapper is
about its own context (`Messages`).  *Files* (`PagesAssumption`).  `DirtyNeverServed` and
`RefusalHasCause`.  `WriterInv` holds wherever the writer is cut off: the main file is
the committed database unless the sidecar is live.  `ReaderInv` says that what the reader
keeps was found with both probes passed, and `ResultInv` that it hands out pages of the
main file, or zeros.

**`StatementsProofs`**.  *Remote execution* (`StatementsAssumption`).
`ReadOnlyStaysUnwritten`, `ExecutedOnce`, `CacheIsCurrent`.  `QueryInv` follows a statement
from stage to stage: how often it was executed (`RunsInv`), what the parameters of
`sqlite_query` say of it (`ArgsInv`: a statement that writes and has given column types
carries `modifies_database`, one that alters the schema `clear_catalog_cache`), that a
write is registered before the transaction is checked (`WritesInv`), and that the cache
is stale at most until the scan is initialized (`CachedInv`); `SchemaInv` bounds the
schema counter.  *Catalog* (`CatalogAssumption`).  `CachedTablesAreFresh`,
`RowIdsAreAddressed`.  `CatalogInv` is the conjunction of the properties and is
inductive; the work is in `OthersKept`, what DROP, RENAME and the other forms of ALTER
leave of the rest of the schema.

**`TableWritesProofs`** (`VectorSizeAssumption`, `BoundsAssumption`, `TablesAssumption`:
a table is a function from row ids to values within their bounds).
`DeletesWhatWasScanned` and `WritesWhatWasScanned` hold for all tables, conditions, both
b-trees and all chunk sizes.  `RowWritesInv` relates the cursor to the statement:
`Visited` are the selected rows that the cursor has passed, and every one of them is
counted, in the chunk, collected, or written (`ScanInv`, `UpdateInv`, `InsertInv`,
`DeleteInv`); `FirstChunkInv` is for scans that end before the first write.  The central
lemmas are `LeastKey` and `NextRowLeast` (the next row of the cursor is the least one
ahead, for which the naturals' well-foundedness is cited), `ScanIsSteady` (while scan and
sink are apart, the cursor sees the rows ahead as they were when the statement began) and
`VisitNext` (a step of the scan visits exactly one more row).

**`FunctionsProofs`**.  *LIKE* (`TextAssumption`).  `LikeReadsInBounds`: for all texts,
patterns and escapes the loop reads inside its two buffers.
`LikeMakesProgress`: every iteration moves the retry position or, with the same
retry position, the pattern index forward; this is the termination argument.
The invariant adds that the retry positions are set when they are used.
*Dates* (`UnitsAssumption`: each unit of the time of a day is a multiple of the one below;
`TimestampsAssumption`: the years 1 to 9999).  `CalendarInverse` is about the calendar alone:
`FromDate` and `Convert` are inverse for all days.  It rests on `DaysBefore`, the days
before a year, which grows by 365 or 366, and `MonthStart`, the days before a month of a year
that begins in March; with them the day lies in the month that `Convert` names
(`DayInMonth`) and in no other (`MonthOfDay`).  `DatesPeriodBoundsExact`: the result of
`date_trunc` is in the period of its argument and the instant before it is not, likewise
`last_day`.  `DatesPartsCountFromTrunc`: `date_part` counts from what `date_trunc` returns in
the units of `date_diff`.  `DateDiffCountsBoundaries`: `date_diff` is the number of boundaries
between its arguments for every part but week.  `FloorDivideIsFloor` shows that the
correction of C's division is the floor.  The invariant (`AnswersComputed`) says that an
answer is what the function computes from the arguments of the call.

**`RollbackJournalProofs`** (`JournalAssumption`: finitely many pages).
`ChangesAreJournalled` is `JournalCoversWrites` for any number of connections, pages,
transactions, deaths and power losses, any journal modes and both settings of
`synchronous`.  It has two hypotheses.  `~KeepOpen` excludes the transactions of the finding
`journal_orphan`, for which the property is false; `NoFileDistinct` says that the value for
"no journal file" is not the content of one.  The property is not inductive: that the first
cell is a valid header when the database is first written depends on who else could have
written to, truncated or deleted the journal since.  `IInv` says

* which locks exclude each other (`LocksInv`), and which lock each phase of a transaction or
  a playback holds (`LockState`);
* what a connection knows of its journal (`JournalState`): the handle is closed while it
  looks for a hot journal, a handle with a position belongs to the one that holds
  RESERVED, the database is changed only behind a written and counted header;
* that the file called journal is then as long as the connection believes, begins with a
  header, and the header is valid from the flush of its record count on (`Open`);
* that journals are sequences of cells, torn ones too (`FilesInv`).

`OnlyWriter` is the central lemma: only the connection with RESERVED or EXCLUSIVE changes the
journal, so the journals of all others are untouched.  `ChangesAreLocked` is a second
consequence: while the database file is changed, every other connection is idle without a
lock.

Only model-checked:

* `ThreadsEnd`, `GetDBEnds`, `CommitEnds` and `RetiredIsReleased`: liveness under fairness
  is out of the prover's reach.
* `LikeCorrect` and `ResultCorrect`: they compare with recursive definitions, which needs
  induction over texts and groups.  `Aggregates` (`FreedExactlyOnce` too) uses `Bitwise`
  and recursive operators, which the prover cannot load.
* `ReadAlike` for queries that compare or order: which rows are selected and how they are
  sorted is defined with `SelectSeq` and `SortSeq`, and needs induction over the rows.
* `ImplementsStore`: playback and the valid prefix of a log are folds and recursive
  functions over the cells or frames, so what they compute from a journal that grows needs
  induction over it.

## 6. Findings and observations

Six runs end with a counterexample; `PROJECT.json` quotes the lines that promise
otherwise.

* `tx_memory_rollback`: a failed ROLLBACK leaves the transaction object and, for an
  in-memory database, `active_in_memory`, so that no later transaction can start
  (`storage/sqlite_transaction_manager.cpp:38`).
* `catalog_stale_drop`: after DROP TABLE the entries of its indexes stay cached, and
  CREATE OR REPLACE with such a name tries to drop what is not there
  (`storage/sqlite_transaction.cpp:295`).
* `table_writes_update`: an UPDATE whose scan walks an index on the updated column
  handles rows twice once the scan needs a second chunk
  (`storage/sqlite_update.cpp:68`).
* `remote_query_replace`: CREATE OR REPLACE TABLE AS from a view of the replaced
  table is pushed down and reads the new table
  (`storage/sqlite_capabilities.cpp:1530`).

* `wal_reset`: `sqlite3WalCheckpoint` reads the header, then a writer starts the log over
  (that needs no checkpoint lock), then `walCheckpoint` goes on with the old header and
  records more frames as copied than the log has (`sqlite/sqlite3.c:62999`).
* `journal_orphan`: a connection in PERSIST or TRUNCATE mode that has committed and still
  reads keeps its journal handle; a DELETE connection that rolls back deletes the file;
  the first one's next transaction journals into a file without a name
  (`sqlite/sqlite3.c:58982`).

Two comments say more than the code does, without a run of their own.
`sqlite_db.cpp:117` says of the last error that "a non-empty value belongs to this
attempt"; it can be from another thread's read on the same connection, which is
why `ErrorOfConnection` is stated per connection.  README.md says that
`clear_catalog_cache` clears the cache after the statement; a statement with result
columns and no preliminary queries does not reach that line
(`sqlite_scanner.cpp:386`).

## 7. What is not modelled

* **SQL writer and capabilities**: pure functions over syntax trees.  A property
  needs the semantics of both dialects; the parts whose semantics fit a model
  (LIKE, column reads, checks of pushed down DML, `last_day`, the replaced table)
  are in the modules above.
* **Scalar functions**: one library call each.
* **Attach, DuckLake profile, loading, settings**: run once, without later state.
* **`sqlite_attach`**: creates views in DuckDB; `sqlite_scan` shares the scan.
* **Connections**: RAII around the C API, covered where they are used.
* **Remote files**: locking, writing and syncing methods are constants.  One that
  changes under the reader is outside the design (the files are immutable).
* **Date functions**: parts that are doubles or names, intervals, `strftime`.
* **SQLite's SQL compiler, virtual machine and B-trees**: sequential code over data
  structures whose correctness is functional; the model uses what they return.
* **SQLite's storage**: the size of a database and its truncation, closing the last
  WAL connection, a read-only wal-index, I/O errors and full disks, super-journals,
  savepoints and the sub-journal, exclusive locking mode, the journal modes MEMORY and
  OFF, changes of the journal mode, snapshots.  A page that was spilled into the log and
  is changed again by its transaction is not rewritten in place (`iReCksum`).  Exclusive
  read locks that are taken and released around one store are one step.  A spill never
  takes page 1, which is in use throughout (`sqlite3.c:64317`); a spill into the database
  file takes all other dirty pages at once.  The death of an idle process is left out, it
  holds nothing.
* **WAL autocommit scans**: threads that open their connections one after another
  may read different versions; `ReadsOneVersion` excludes this case (see the
  hazards).

## 8. Plan

1. A pushed down UPDATE next to the local one: subqueries that read the updated
   table (`storage/sqlite_capabilities.cpp:1309`).
2. Scalar functions with state or widths: the regular expression cached per
   statement, shifts and `round`, `left`, `right` and padding.
3. `SQLiteTransactions` over `SnapshotStore` instead of its own locks and versions;
   savepoints of the pager.
4. Proofs: that the rollback journal and the log implement `SnapshotStore`, step by
   step.
5. CTE visibility and ON CONFLICT of the writer, as far as they decide what a
   statement reads or writes.
