----------------------------- MODULE RemoteQuery -----------------------------
(***************************************************************************)
(* Statements on an attached database with remote pushdown, one after the  *)
(* other in a transaction: DuckDB asks SQLiteCapabilities whether SQLite   *)
(* can execute a statement, RemoteExecute turns it into a call of          *)
(* sqlite_query or gives it back to be executed locally, SQLiteQueryBind   *)
(* binds the call, and the scan executes it.  A user can call sqlite_query *)
(* as well.                                                                *)
(***************************************************************************)
EXTENDS Naturals, Sequences

CONSTANTS
    NoEntries,      \* the catalog cache is empty
    MaxStatements   \* bound on the statements of the transaction

ASSUME StatementsAssumption == MaxStatements \in Nat /\ NoEntries \notin Nat

VARIABLES
    readOnlyAttach,  \* ATTACH ... (READ_ONLY)
    readOnlyTx,      \* BEGIN TRANSACTION READ ONLY
    utf8,            \* the encoding of the database is UTF-8
    collation,       \* default_collation is set
    statements,      \* statements so far
    stage,
    stmt,            \* the statement: kind, what its query reads, what it does in SQLite
    args,            \* the named parameters of sqlite_query
    bound,           \* SqliteBindData, and whether the statement is registered as a write
    preliminary,     \* preliminary queries still to be executed
    returned,        \* SqliteLocalState::done
    mainRuns, localRuns,   \* executions of the statement in SQLite, and locally
    schema,          \* version of the schema
    cached,          \* the version that the catalog cache shows
    wrote,           \* something was written
    replacedRead     \* the query of CREATE OR REPLACE TABLE AS read the new, empty table

queryVars == <<readOnlyAttach, readOnlyTx, utf8, collation, statements, stage, stmt, args, bound,
               preliminary, returned, mainRuns, localRuns, schema, cached, wrote, replacedRead>>
databaseVars == <<readOnlyAttach, readOnlyTx, utf8, collation>>

Queries == {"trivial", "select", "dml", "returning"}
Definitions == {"create as", "replace as", "create view", "replace view", "drop or alter"}

\* What the query of a statement reads: other tables, the table the statement changes by its
\* name, or that table through a view
Sources == {"other", "target", "view"}

\* What a statement given to sqlite_query does: it has result columns, writes, or changes the
\* schema.
Effects == {e \in [columns : BOOLEAN, writes : BOOLEAN, alters : BOOLEAN] :
               e.alters => e.writes /\ ~e.columns}

EffectOf(kind) ==
    [columns |-> kind \in {"trivial", "select", "returning"},
     writes |-> kind \notin {"trivial", "select"},
     alters |-> kind \in {"create view", "replace view", "drop or alter"}]

NotBound == [typed |-> FALSE, command_only |-> FALSE, modifies |-> FALSE]
NoStatement == [kind |-> "none", source |-> "other", effect |-> EffectOf("select")]

QueryInit ==
    /\ readOnlyAttach \in BOOLEAN
    /\ readOnlyTx \in BOOLEAN
    /\ utf8 \in BOOLEAN
    /\ collation \in BOOLEAN
    /\ statements = 0
    /\ stage = "idle"
    /\ stmt = NoStatement
    /\ args = {}
    /\ bound = NotBound
    /\ preliminary = 0
    /\ returned = FALSE
    /\ mainRuns = 0 /\ localRuns = 0
    /\ schema = 0
    /\ cached = NoEntries
    /\ wrote = FALSE
    /\ replacedRead = FALSE

-----------------------------------------------------------------------------
(* SQLiteCapabilities::SupportsPushdown.                                   *)

\* For a statement whose constructs SQLite has: nothing is written to a read-only database, and
\* the query of CREATE OR REPLACE TABLE AS does not name the table.
SupportsPushdown(s) ==
    /\ readOnlyAttach => s.kind \in {"trivial", "select"}
    /\ ~(s.kind = "replace as" /\ s.source = "target")

\* Entries are looked up, and cached, when a statement is analysed.
LookupEntries == cached' = IF cached = NoEntries THEN schema ELSE cached

\* A statement of the user; supported tells whether SQLite has all of its constructs.
Submit(kind, reads, supported) ==
    /\ stage = "idle" /\ statements < MaxStatements
    /\ kind \in Queries \cup Definitions
    /\ LET s == [kind |-> kind, source |-> reads, effect |-> EffectOf(kind)]
       IN  /\ stmt' = s
           /\ stage' = IF supported /\ SupportsPushdown(s) THEN "remote" ELSE "local"
    /\ statements' = statements + 1
    /\ args' = {} /\ bound' = NotBound /\ preliminary' = 0 /\ returned' = FALSE
    /\ mainRuns' = 0 /\ localRuns' = 0
    /\ LookupEntries
    /\ UNCHANGED <<databaseVars, schema, wrote, replacedRead>>

\* A call of sqlite_query.  As README.md asks, the caller says so when a statement with
\* column_types writes, and when a statement changes the schema.
Call(effect, named, n) ==
    /\ stage = "idle" /\ statements < MaxStatements
    /\ (effect.writes /\ "column_types" \in named) => "modifies_database" \in named
    /\ effect.alters => "clear_catalog_cache" \in named
    /\ (n > 0) = ("preliminary_queries" \in named)
    /\ stmt' = [kind |-> "call", source |-> "other", effect |-> effect]
    /\ args' = named
    /\ preliminary' = n
    /\ statements' = statements + 1
    /\ stage' = "bind"
    /\ bound' = NotBound /\ returned' = FALSE
    /\ mainRuns' = 0 /\ localRuns' = 0
    /\ UNCHANGED <<databaseVars, schema, cached, wrote, replacedRead>>

-----------------------------------------------------------------------------
(* SQLiteCatalog::RemoteExecute.                                           *)

(***************************************************************************)
(* A query is executed locally if it is a plain scan, or if any step on    *)
(* the way to a SQLite query fails: f tells whether DuckDB can bind it and *)
(* name its result types, whether the writer can translate it, and whether *)
(* SQLite can prepare it.                                                  *)
(***************************************************************************)
RemoteExecuteQuery(f) ==
    /\ stage = "remote" /\ stmt.kind \in Queries
    /\ IF /\ stmt.kind # "trivial" /\ utf8 /\ ~collation
          /\ f.binds /\ f.representable /\ f.translated /\ f.prepares
       THEN /\ stage' = "bind"
            /\ args' = CASE stmt.kind = "dml" -> {"return_changed_rows"}
                         [] stmt.kind = "returning" -> {"modifies_database", "column_types"}
                         [] OTHER -> {"column_types"}
       ELSE stage' = "local" /\ UNCHANGED args
    /\ UNCHANGED <<databaseVars, statements, stmt, bound, preliminary, returned, mainRuns, localRuns,
                   schema, cached, wrote, replacedRead>>

\* WriteStatement: CREATE TABLE AS is preceded by CREATE TABLE, a replaced entry by DROP.
PreliminaryQueries ==
    CASE stmt.kind = "replace as" -> 2
      [] stmt.kind \in {"create as", "replace view"} -> 1
      [] OTHER -> 0

\* A statement that cannot be written is an error: it is not executed locally.
RemoteExecuteStatement(translated) ==
    /\ stage = "remote" /\ stmt.kind \in Definitions
    /\ IF translated /\ ~(collation /\ stmt.kind \in {"create as", "replace as"})
       THEN /\ stage' = "bind"
            /\ preliminary' = PreliminaryQueries
            /\ args' = {"clear_catalog_cache"}
                 \cup (IF PreliminaryQueries > 0 THEN {"preliminary_queries"} ELSE {})
                 \cup (IF stmt.kind \in {"create as", "replace as"}
                       THEN {"return_changed_rows"} ELSE {"suppress_output"})
       ELSE stage' = "idle" /\ UNCHANGED <<args, preliminary>>
    /\ UNCHANGED <<databaseVars, statements, stmt, bound, returned, mainRuns, localRuns, schema, cached,
                   wrote, replacedRead>>

-----------------------------------------------------------------------------
(* SQLiteQueryBind.                                                        *)

Given(name) == name \in args

\* The statement is prepared to be bound.
PreparedAtBind ==
    ~Given("suppress_output") /\ ~Given("column_types") /\ ~Given("preliminary_queries")

HasColumns == PreparedAtBind /\ stmt.effect.columns

CommandOnly == ~Given("column_types") /\ ~HasColumns

\* Faulty variant: only a statement that is prepared can be found to write.
ModifiesIfPrepared == PreparedAtBind /\ stmt.effect.writes

ModifiesDatabase ==
    \/ Given("modifies_database")
    \/ Given("preliminary_queries")
    \/ PreparedAtBind /\ stmt.effect.writes
    \/ CommandOnly

\* valid: the parameters are well-formed and the statement, if prepared, has no error.
SQLiteQueryBind(valid) ==
    /\ stage = "bind"
    /\ IF valid /\ ~(Given("suppress_output") /\ Given("column_types"))
       THEN /\ stage' = "check"
            /\ bound' = [typed |-> Given("column_types"), command_only |-> CommandOnly,
                         modifies |-> ModifiesDatabase]
       ELSE stage' = "idle" /\ UNCHANGED bound
    /\ UNCHANGED <<databaseVars, statements, stmt, args, preliminary, returned, mainRuns, localRuns,
                   schema, cached, wrote, replacedRead>>

\* DuckDB (external): a statement that is registered as a write is refused in a read-only
\* transaction, or on a read-only database.
CheckTransaction ==
    /\ stage = "check"
    /\ stage' = IF bound.modifies /\ (readOnlyTx \/ readOnlyAttach) THEN "idle" ELSE "initialize"
    /\ UNCHANGED <<databaseVars, statements, stmt, args, bound, preliminary, returned, mainRuns,
                   localRuns, schema, cached, wrote, replacedRead>>

-----------------------------------------------------------------------------
(* The scan of sqlite_query: SqliteInitGlobalState, SqliteScan.            *)

\* One of the preliminary queries: each may create or drop a table.
Preliminary(alters) ==
    /\ stage = "initialize" /\ preliminary > 0
    /\ stmt.kind \in Definitions => alters
    /\ stmt.kind = "call" /\ alters => Given("clear_catalog_cache")
    /\ preliminary' = preliminary - 1
    /\ wrote' = TRUE
    /\ schema' = IF alters THEN schema + 1 ELSE schema
    /\ UNCHANGED <<databaseVars, statements, stage, stmt, args, bound, returned, mainRuns, localRuns,
                   cached, replacedRead>>

\* The end of SqliteInitGlobalState
Initialized ==
    /\ stage = "initialize" /\ preliminary = 0
    /\ cached' = IF Given("preliminary_queries") /\ Given("clear_catalog_cache")
                 THEN NoEntries ELSE cached
    /\ stage' = "scan"
    /\ UNCHANGED <<databaseVars, statements, stmt, args, bound, preliminary, returned, mainRuns,
                   localRuns, schema, wrote, replacedRead>>

\* The statement itself, executed by SQLite.
Executed ==
    /\ mainRuns' = mainRuns + 1
    /\ wrote' = (wrote \/ stmt.effect.writes)
    /\ schema' = IF stmt.effect.alters THEN schema + 1 ELSE schema
    /\ replacedRead' = (replacedRead \/ (stmt.kind = "replace as" /\ stmt.source # "other"))

\* Faulty variant: the catalog cache is kept.
CommandKeepsCache ==
    /\ stage = "scan" /\ bound.command_only /\ ~returned
    /\ Executed
    /\ returned' = TRUE
    /\ UNCHANGED <<databaseVars, statements, stage, stmt, args, bound, preliminary, localRuns, cached>>

\* Faulty variant: the command is executed by every call.
CommandAgain ==
    /\ stage = "scan" /\ bound.command_only /\ mainRuns < 2
    /\ Executed
    /\ returned' = (mainRuns' = 2)
    /\ cached' = IF Given("clear_catalog_cache") THEN NoEntries ELSE cached
    /\ UNCHANGED <<databaseVars, statements, stage, stmt, args, bound, preliminary, localRuns>>

\* SqliteScan of a command: executed by the first call.
Command ==
    /\ stage = "scan" /\ bound.command_only /\ ~returned
    /\ Executed
    /\ returned' = TRUE
    /\ cached' = IF Given("clear_catalog_cache") THEN NoEntries ELSE cached
    /\ UNCHANGED <<databaseVars, statements, stage, stmt, args, bound, preliminary, localRuns>>

\* SqliteScan of a query: the rows are read until SQLite has no more.  A statement without
\* result columns does not have the number of columns that column_types say.
Rows ==
    /\ stage = "scan" /\ ~bound.command_only /\ ~returned
    /\ stmt.effect.columns
    /\ Executed
    /\ returned' = TRUE
    /\ UNCHANGED <<databaseVars, statements, stage, stmt, args, bound, preliminary, localRuns, cached>>

\* The call after the last row yields an empty chunk.
NoMoreRows ==
    /\ stage = "scan" /\ returned
    /\ stage' = "done"
    /\ UNCHANGED <<databaseVars, statements, stmt, args, bound, preliminary, returned, mainRuns,
                   localRuns, schema, cached, wrote, replacedRead>>

\* An error of the execution: DuckDB then only lets the transaction be rolled back (external).
QueryFails ==
    /\ stage \in {"initialize", "scan"}
    /\ stage' = "aborted"
    /\ UNCHANGED <<databaseVars, statements, stmt, args, bound, preliminary, returned, mainRuns,
                   localRuns, schema, cached, wrote, replacedRead>>

\* Local execution by DuckDB: its own checks of the transaction, its own upkeep of the cache.
ExecuteLocally ==
    /\ stage = "local"
    /\ IF stmt.effect.writes /\ (readOnlyTx \/ readOnlyAttach)
       THEN stage' = "idle" /\ UNCHANGED <<localRuns, schema, cached, wrote>>
       ELSE /\ stage' = "done"
            /\ localRuns' = localRuns + 1
            /\ wrote' = (wrote \/ stmt.effect.writes)
            /\ IF stmt.kind \in Definitions
               THEN schema' = schema + 1 /\ cached' = NoEntries
               ELSE UNCHANGED <<schema, cached>>
    /\ UNCHANGED <<databaseVars, statements, stmt, args, bound, preliminary, returned, mainRuns,
                   replacedRead>>

\* The result is delivered; the next statement may come.
Finish ==
    /\ stage = "done"
    /\ stage' = "idle"
    /\ UNCHANGED <<databaseVars, statements, stmt, args, bound, preliminary, returned, mainRuns,
                   localRuns, schema, cached, wrote, replacedRead>>

Facts == [binds : BOOLEAN, representable : BOOLEAN, translated : BOOLEAN, prepares : BOOLEAN]

Options == {"column_types", "preliminary_queries", "clear_catalog_cache", "suppress_output",
            "modifies_database"}

QueryNext ==
    \/ \E kind \in Queries \cup Definitions, reads \in Sources, supported \in BOOLEAN :
          Submit(kind, reads, supported)
    \/ \E effect \in Effects, named \in SUBSET Options, n \in 0..2 : Call(effect, named, n)
    \/ \E f \in Facts : RemoteExecuteQuery(f)
    \/ \E translated \in BOOLEAN : RemoteExecuteStatement(translated)
    \/ \E valid \in BOOLEAN : SQLiteQueryBind(valid)
    \/ CheckTransaction
    \/ \E alters \in BOOLEAN : Preliminary(alters)
    \/ Initialized \/ Command \/ Rows \/ NoMoreRows \/ QueryFails
    \/ ExecuteLocally \/ Finish

QuerySpec == QueryInit /\ [][QueryNext]_queryVars

-----------------------------------------------------------------------------
\* The types of the statement, of what the bind derives from it and of its execution.
QueryTypeOK ==
    /\ readOnlyAttach \in BOOLEAN /\ readOnlyTx \in BOOLEAN /\ utf8 \in BOOLEAN /\ collation \in BOOLEAN
    /\ returned \in BOOLEAN /\ wrote \in BOOLEAN /\ replacedRead \in BOOLEAN
    /\ statements \in 0..MaxStatements
    /\ stage \in {"idle", "remote", "local", "bind", "check", "initialize", "scan", "done", "aborted"}
    /\ stmt \in [kind : Queries \cup Definitions \cup {"call", "none"}, source : Sources, effect : Effects]
    /\ args \subseteq Options \cup {"return_changed_rows"}
    /\ bound \in [typed : BOOLEAN, command_only : BOOLEAN, modifies : BOOLEAN]
    /\ bound.typed => ~bound.command_only
    /\ preliminary \in 0..2
    /\ mainRuns \in 0..1 /\ localRuns \in 0..1
    /\ schema \in 0..3 * MaxStatements
    /\ cached \in (0..schema) \cup {NoEntries}

(***************************************************************************)
(* "Statements are checked against the transaction like DuckDB statements  *)
(* (e.g. a read-only transaction cannot write)" (README.md): whichever way *)
(* a statement gets to SQLite, prepared at bind time or not, alone or with *)
(* preliminary queries, it is registered as a write if it writes.          *)
(***************************************************************************)
ReadOnlyUnwritten == readOnlyTx \/ readOnlyAttach => ~wrote

(***************************************************************************)
(* A statement that ended was executed once: in SQLite or locally, never   *)
(* both, after all of its preliminary queries.                             *)
(***************************************************************************)
StatementOnce ==
    /\ QueryTypeOK
    /\ stage = "done" => mainRuns + localRuns = 1 /\ preliminary = 0

(***************************************************************************)
(* Between the statements of a transaction the catalog cache shows the     *)
(* current schema, although the entries were cached when the statement     *)
(* that changed the schema was analysed.                                   *)
(***************************************************************************)
CacheShowsSchema == stage = "idle" => cached \in {NoEntries, schema}

(***************************************************************************)
(* "the existing table is dropped before the query is executed - the query *)
(* must not read it" (src/storage/sqlite_capabilities.cpp, SupportsPushdown*)
(* of a CREATE statement), in whichever way the query gets at it.          *)
(***************************************************************************)
ReplacedNotRead == ~replacedRead
=============================================================================
