---------------------------- MODULE CatalogCache ----------------------------
(***************************************************************************)
(* The catalog entries that a SQLiteTransaction caches (SQLiteCatalogMap), *)
(* next to the schema of the SQLite database as its connection sees it.    *)
(*                                                                         *)
(* DDL reaches the database through SQLiteSchemaEntry, which keeps the     *)
(* cache up to date entry by entry, or through sqlite_query, which clears  *)
(* all of it, but only if it is asked to (clear_catalog_cache).  UPDATE    *)
(* and DELETE find their rows by the row id name of a cached entry.        *)
(***************************************************************************)
EXTENDS Naturals, Sequences

CONSTANTS
    Names,      \* names of tables, views and indexes
    Columns,    \* names of columns
    None,
    MaxDDL      \* bound on the number of statements that change the schema

ASSUME CatalogAssumption == None \notin Names /\ MaxDDL \in Nat

VARIABLES
    db,       \* sqlite_master: the object of each name
    cache,    \* SQLiteCatalogMap::catalog_entries
    direct,   \* this transaction changed the schema without clearing the cache
    drop,     \* the DROP of CREATE OR REPLACE: whether its entry was in the database
    write,    \* the last UPDATE or DELETE: its table and row id name
    ddl       \* statements so far

catalogVars == <<db, cache, direct, drop, write, ddl>>

\* cols: the columns of a table or the indexed column; of: the table of an index or view
Table(cols) == [type |-> "table", cols |-> cols, of |-> None]
View(t) == [type |-> "view", cols |-> {}, of |-> t]
Index(t, c) == [type |-> "index", cols |-> {c}, of |-> t]

TableSchemas == (SUBSET Columns) \ {{}}
Objects ==
    {Table(cols) : cols \in TableSchemas} \cup {View(t) : t \in Names}
        \cup {Index(t, c) : t \in Names, c \in Columns}

EmptyCache == [n \in Names |-> None]
NoWrite == [table |-> None, rowid |-> "none", cols |-> {}]

IsType(obj, type) == obj # None /\ obj.type = type

CatalogInit ==
    /\ db = [n \in Names |-> None]
    /\ cache = EmptyCache
    /\ direct = FALSE
    /\ drop = "none"
    /\ write = NoWrite
    /\ ddl = 0

-----------------------------------------------------------------------------
(***************************************************************************)
(* What DDL does to the database (SQLite, external).                       *)
(***************************************************************************)
\* The schema after DROP: the indexes of a table go with it.
Dropped(n) ==
    [m \in Names |-> IF m = n \/ (IsType(db[n], "table") /\ IsType(db[m], "index") /\ db[m].of = n)
                     THEN None ELSE db[m]]

\* The schema after RENAME TO: indexes and views follow the table.
Renamed(t, u) ==
    LET follow(obj) == IF obj # None /\ obj.of = t THEN [obj EXCEPT !.of = u] ELSE obj
    IN [m \in Names |-> IF m = t THEN None ELSE IF m = u THEN db[t] ELSE follow(db[m])]

\* The schema after RENAME COLUMN
ColumnRenamed(t, c, d) ==
    LET follow(cols) == IF c \in cols THEN (cols \ {c}) \cup {d} ELSE cols
    IN [m \in Names |-> IF m = t \/ (IsType(db[m], "index") /\ db[m].of = t)
                        THEN [db[m] EXCEPT !.cols = follow(@)] ELSE db[m]]

MayRename(t, u) == IsType(db[t], "table") /\ db[u] = None

MayDropColumn(t, c) ==
    /\ IsType(db[t], "table")
    /\ c \in db[t].cols
    /\ db[t].cols # {c}
    /\ \A m \in Names : IsType(db[m], "index") /\ db[m].of = t => c \notin db[m].cols

-----------------------------------------------------------------------------
\* FindRowIdName: the first name of the row id that no column hides; "" if none.
FindRowIdName(cols) ==
    CASE "rowid" \notin cols -> "rowid"
      [] "rowid" \in cols /\ "_rowid_" \notin cols -> "_rowid_"
      [] "rowid" \in cols /\ "_rowid_" \in cols /\ "oid" \notin cols -> "oid"
      [] OTHER -> ""

\* SQLiteCatalogMap::InsertEntry keeps an entry that is there.
InsertEntry(map, n, obj) == IF map[n] = None THEN [map EXCEPT ![n] = obj] ELSE map

\* SQLiteCatalogMap::EraseEntry
EraseEntry(map, n) == [map EXCEPT ![n] = None]

(***************************************************************************)
(* The cache after GetCatalogEntry(n), for a database schema: an entry     *)
(* that is not cached is read from the database, an index after its table. *)
(* The columns of an index are looked up in the cached entry of its table, *)
(* which fails if it does not have them or is not a table.                 *)
(***************************************************************************)
CacheAfterLookup(master, map, n) ==
    IF map[n] # None \/ master[n] = None
    THEN map
    ELSE IF master[n].type # "index"
         THEN InsertEntry(map, n, master[n])
         ELSE LET withTable == InsertEntry(map, master[n].of, master[master[n].of])
                  table == withTable[master[n].of]
              IN IF IsType(table, "table") /\ master[n].cols \subseteq table.cols
                 THEN InsertEntry(withTable, n, master[n])
                 ELSE withTable

\* GetCatalogEntry; also any statement that looks n up and then fails.
Lookup(n) ==
    /\ cache' = CacheAfterLookup(db, cache, n)
    /\ UNCHANGED <<db, direct, drop, write, ddl>>

\* SQLiteSchemaEntry::Scan looks up every entry of a type (if one fails: a few Lookups).
Scan(type) ==
    /\ \A n \in Names : IsType(db[n], type) =>
           cache[n] # None \/ CacheAfterLookup(db, cache, n)[n] # None
    /\ cache' = [n \in Names |->
                    IF cache[n] = None /\ \E m \in Names :
                           IsType(db[m], type) /\ CacheAfterLookup(db, cache, m)[n] # None
                    THEN db[n] ELSE cache[n]]
    /\ UNCHANGED <<db, direct, drop, write, ddl>>

CountDDL == ddl < MaxDDL /\ ddl' = ddl + 1

(***************************************************************************)
(* DropEntry of an entry that is found: the cached entry is erased before  *)
(* DROP is executed, which fails for an object of another type.            *)
(***************************************************************************)
DropFound(type, n) ==
    /\ db' = IF IsType(db[n], type) THEN Dropped(n) ELSE db
    /\ cache' = EraseEntry(CacheAfterLookup(db, cache, n), n)

\* DropEntry: an entry that is not found is an error, or not (IF EXISTS).
DropEntry(type, n) ==
    /\ CountDDL
    /\ CacheAfterLookup(db, cache, n)[n] # None
    /\ DropFound(type, n)
    /\ UNCHANGED <<direct, drop, write>>

(***************************************************************************)
(* CreateTable and CreateView: CREATE, then the new entry is looked up.    *)
(* CREATE fails for a name that is taken, or does nothing (IF NOT EXISTS). *)
(***************************************************************************)
Create(n, obj) ==
    /\ CountDDL
    /\ db' = IF db[n] = None THEN [db EXCEPT ![n] = obj] ELSE db
    /\ \/ cache' = CacheAfterLookup(db', cache, n)
       \/ db[n] # None /\ cache' = cache
    /\ UNCHANGED <<direct, drop, write>>

(***************************************************************************)
(* CREATE OR REPLACE: TryDropEntry, CREATE, look the new entry up.  An     *)
(* error of the DROP ends the statement.                                   *)
(***************************************************************************)
CreateOrReplace(n, obj) ==
    /\ CountDDL
    /\ \/ /\ CacheAfterLookup(db, cache, n)[n] = None /\ db[n] = None
          /\ db' = [db EXCEPT ![n] = obj]
          /\ cache' = CacheAfterLookup(db', cache, n)
          /\ UNCHANGED drop
       \/ /\ CacheAfterLookup(db, cache, n)[n] # None /\ IsType(db[n], obj.type)
          /\ db' = [Dropped(n) EXCEPT ![n] = obj]
          /\ cache' = CacheAfterLookup(db', EraseEntry(cache, n), n)
          /\ drop' = "existing"
       \/ /\ CacheAfterLookup(db, cache, n)[n] # None /\ ~IsType(db[n], obj.type)
          /\ DropFound(obj.type, n)
          /\ drop' = IF db[n] = None THEN "missing" ELSE "existing"
    /\ UNCHANGED <<direct, write>>

\* CreateIndex: the table was bound from the cache, the index is not looked up.
CreateIndex(n, t, c) ==
    /\ CountDDL
    /\ LET looked == CacheAfterLookup(db, cache, t)
       IN /\ IsType(looked[t], "table")
          /\ c \in looked[t].cols
          /\ cache' = looked
    /\ db' = IF db[n] = None /\ IsType(db[t], "table") /\ c \in db[t].cols
             THEN [db EXCEPT ![n] = Index(t, c)] ELSE db
    /\ UNCHANGED <<direct, drop, write>>

-----------------------------------------------------------------------------
\* Faulty variant: the altered entry stays cached.
AlterKeepsEntry(t, master) ==
    /\ db' = master
    /\ cache' = CacheAfterLookup(db, cache, t)

\* SQLiteSchemaEntry::Alter: the entry of the altered table is erased, unless ALTER fails.
AlterTo(t, master) ==
    /\ db' = master
    /\ cache' = EraseEntry(CacheAfterLookup(db, cache, t), t)

RenameTable(t, u) == MayRename(t, u) /\ AlterTo(t, Renamed(t, u))

RenameColumn(t, c, d) ==
    /\ IsType(db[t], "table") /\ c \in db[t].cols /\ d \notin db[t].cols
    /\ AlterTo(t, ColumnRenamed(t, c, d))

\* IF NOT EXISTS and IF EXISTS return before ALTER, and the entry is erased all the same.
AddColumn(t, c) ==
    /\ IsType(db[t], "table")
    /\ AlterTo(t, [db EXCEPT ![t].cols = @ \cup {c}])

RemoveColumn(t, c) ==
    /\ IsType(db[t], "table")
    /\ c \in db[t].cols => MayDropColumn(t, c)
    /\ AlterTo(t, [db EXCEPT ![t].cols = @ \ {c}])

Alter(t) ==
    /\ CountDDL
    /\ \/ \E u \in Names : RenameTable(t, u)
       \/ \E c, d \in Columns : RenameColumn(t, c, d)
       \/ \E c \in Columns : AddColumn(t, c) \/ RemoveColumn(t, c)
    /\ UNCHANGED <<direct, drop, write>>

-----------------------------------------------------------------------------
\* SqliteScan of a command: ClearCatalogCache after the statement.
CacheAfterCommand(clear) == IF clear THEN EmptyCache ELSE cache

\* sqlite_query executes DDL that the user wrote for SQLite.
SQLiteQueryDDL(n, clear) ==
    /\ CountDDL
    /\ \/ \E obj \in Objects :
            /\ db[n] = None
            /\ obj.of # None => IsType(db[obj.of], "table") /\ obj.cols \subseteq db[obj.of].cols
            /\ db' = [db EXCEPT ![n] = obj]
       \/ db[n] # None /\ db' = Dropped(n)
       \/ \E u \in Names : MayRename(n, u) /\ db' = Renamed(n, u)
       \/ \E c \in Columns : IsType(db[n], "table") /\ db' = [db EXCEPT ![n].cols = @ \cup {c}]
       \/ \E c \in Columns : MayDropColumn(n, c) /\ db' = [db EXCEPT ![n].cols = @ \ {c}]
    /\ cache' = CacheAfterCommand(clear)
    /\ direct' = (direct \/ ~clear)
    /\ UNCHANGED <<drop, write>>

\* Faulty variant: the row id name of the entry is used as it is.
MayWriteRowsUnchecked(t, entry) == entry.cols # Columns

\* GetWriteRowIdName: the table still has the row id name that the scan uses.
MayWriteRows(t, entry) ==
    /\ FindRowIdName(db[t].cols) # ""
    /\ FindRowIdName(db[t].cols) = FindRowIdName(entry.cols)

(***************************************************************************)
(* UPDATE or DELETE: the scan reads the row ids by the name of the cached  *)
(* entry, the statement writes by the name that GetWriteRowIdName returns. *)
(***************************************************************************)
WriteRows(t) ==
    LET looked == CacheAfterLookup(db, cache, t) IN
    /\ IsType(looked[t], "table")
    /\ IsType(db[t], "table")
    /\ cache' = looked
    /\ MayWriteRows(t, looked[t])
    /\ write' = [table |-> t, rowid |-> FindRowIdName(looked[t].cols), cols |-> db[t].cols]
    /\ UNCHANGED <<db, direct, drop, ddl>>

\* The transaction ends and its catalog map with it.  What others change before the
\* next one is not told apart from what a first sqlite_query changes.
EndTransaction ==
    /\ cache' = EmptyCache
    /\ direct' = FALSE
    /\ drop' = "none"
    /\ write' = NoWrite
    /\ UNCHANGED <<db, ddl>>

CatalogNext ==
    \/ \E n \in Names : Lookup(n) \/ Alter(n) \/ WriteRows(n)
    \/ \E n \in Names, clear \in BOOLEAN : SQLiteQueryDDL(n, clear)
    \/ \E type \in {"table", "view", "index"} :
          Scan(type) \/ \E n \in Names : DropEntry(type, n)
    \/ \E n \in Names :
          \/ \E cols \in TableSchemas : Create(n, Table(cols)) \/ CreateOrReplace(n, Table(cols))
          \/ \E t \in Names : Create(n, View(t)) \/ CreateOrReplace(n, View(t))
          \/ \E t \in Names, c \in Columns : CreateIndex(n, t, c)
    \/ EndTransaction

CatalogSpec == CatalogInit /\ [][CatalogNext]_catalogVars

-----------------------------------------------------------------------------
\* The types of the database, the cached entries and the statements under way.
CatalogTypeOK ==
    /\ db \in [Names -> Objects \cup {None}]
    /\ cache \in [Names -> Objects \cup {None}]
    /\ direct \in BOOLEAN
    /\ drop \in {"none", "existing", "missing"}
    /\ write.table \in Names \cup {None}
    /\ ddl \in 0..MaxDDL

(***************************************************************************)
(* A table that the transaction has looked up is the table that is in the  *)
(* database, through any sequence of CREATE, OR REPLACE, DROP and ALTER,   *)
(* failed ones included, and of sqlite_query statements that clear the     *)
(* cache.                                                                  *)
(***************************************************************************)
TableEntriesFresh ==
    /\ CatalogTypeOK
    /\ ~direct => \A n \in Names : IsType(cache[n], "table") => cache[n] = db[n]

(***************************************************************************)
(* Even if sqlite_query changed the columns behind the cache, the name by  *)
(* which the scan of an UPDATE or DELETE reads the row ids addresses row   *)
(* ids and not a column: no other rows are changed (GetWriteRowIdName).    *)
(***************************************************************************)
WritesAddressRowIds ==
    write # NoWrite => write.rowid \in {"rowid", "_rowid_", "oid"} \ write.cols

(***************************************************************************)
(* "CREATE OR REPLACE - drop any existing entries first (if any)": the     *)
(* DROP of CreateTable and CreateView is executed only for an entry that   *)
(* exists; for one that does not it fails, and the CREATE with it.         *)
(***************************************************************************)
DropsExisting == ~direct => drop # "missing"
=============================================================================
