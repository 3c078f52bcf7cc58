------------------------- MODULE SQLiteTransactions -------------------------
(***************************************************************************)
(* The transactions of an attached local or in-memory database:            *)
(* SQLiteTransaction, SQLiteTransactionManager, the in-memory database of  *)
(* SQLiteCatalog, and the connections its scans read through.              *)
(*                                                                         *)
(* A DuckDB transaction on a local database owns one SQLite connection;    *)
(* all transactions on an in-memory database share the catalog's.  The     *)
(* locks and snapshots of SQLite are external: they are modelled as the    *)
(* code relies on them, for a rollback journal or for WAL.                 *)
(***************************************************************************)
EXTENDS Naturals, FiniteSets

CONSTANTS
    Clients,       \* DuckDB connections, each with at most one transaction
    Mem,           \* the connection of an in-memory database
    Databases,     \* the kinds of database to attach
    MaxVersion     \* bound on the number of commits that change the database

ASSUME ClientAssumption == Mem \notin Clients
ASSUME VersionAssumption == MaxVersion \in Nat
ASSUME DatabaseAssumption ==
    Databases \subseteq [in_memory : BOOLEAN, wal : BOOLEAN, auto_rollback : BOOLEAN]

VARIABLES
    database,          \* the kind of the attached database; it does not change
    phase,             \* the DuckDB transaction of each client
    autocommit,        \* it runs a single statement
    modifies,          \* its statements modify the database
    ownScan,           \* its scan reads through connections of its own threads
    reads,             \* the versions of the database it has read
    sqTx,              \* per SQLite connection: a transaction is open
    lock,              \* per SQLite connection: the lock on the database file
    snap,              \* per SQLite connection: the version it reads
    dirty,             \* per SQLite connection: uncommitted changes
    version,           \* the number of committed changes
    active_in_memory,  \* SQLiteCatalog::active_in_memory
    orphaned           \* a SQLiteTransaction without DuckDB transaction is in transactions

duckVars == <<phase, autocommit, modifies, ownScan, reads>>
connVars == <<sqTx, lock, snap, dirty>>
vars == <<database, duckVars, connVars, version, active_in_memory, orphaned>>

InMemory == database.in_memory           \* SQLiteCatalog::InMemory()
Wal == database.wal                      \* it is in WAL mode
AutoRollback == database.auto_rollback   \* a statement can make SQLite roll back (ON CONFLICT ROLLBACK)

Conns == Clients \cup {Mem}
Conn(c) == IF InMemory THEN Mem ELSE c

NoSnapshot == MaxVersion + 1
Phases == {"none", "active", "invalid", "committing", "commit_failed", "closing"}
Locks == {"none", "shared", "reserved", "pending"}

Init ==
    /\ database \in Databases
    /\ phase = [c \in Clients |-> "none"]
    /\ autocommit = [c \in Clients |-> FALSE]
    /\ modifies = [c \in Clients |-> FALSE]
    /\ ownScan = [c \in Clients |-> FALSE]
    /\ reads = [c \in Clients |-> {}]
    /\ sqTx = [k \in Conns |-> FALSE]
    /\ lock = [k \in Conns |-> "none"]
    /\ snap = [k \in Conns |-> NoSnapshot]
    /\ dirty = [k \in Conns |-> FALSE]
    /\ version = 0
    /\ active_in_memory = FALSE
    /\ orphaned = FALSE

-----------------------------------------------------------------------------
(***************************************************************************)
(* SQLite (external).                                                      *)
(***************************************************************************)
\* No other connection keeps new readers out.
MayRead(k) == \A j \in Conns \ {k} : lock[j] # "pending"

\* No other connection is writing; a WAL snapshot must be the latest version.
MayWrite(k) ==
    /\ \A j \in Conns \ {k} : lock[j] \notin {"reserved", "pending"}
    /\ Wal => snap[k] \in {version, NoSnapshot}

\* The pages can be written to the database file.
MayCommit(k) == Wal \/ ~dirty[k] \/ \A j \in Conns \ {k} : lock[j] = "none"

\* A read takes a lock and a snapshot, which last until the transaction ends.
AcquireRead(k) ==
    /\ lock[k] # "none" \/ MayRead(k)
    /\ lock' = [lock EXCEPT ![k] = IF @ = "none" THEN "shared" ELSE @]
    /\ snap' = [snap EXCEPT ![k] = IF @ = NoSnapshot THEN version ELSE @]

\* The end of a SQLite transaction, by COMMIT, ROLLBACK or an error.
EndSQLiteTransaction(k) ==
    /\ sqTx' = [sqTx EXCEPT ![k] = FALSE]
    /\ lock' = [lock EXCEPT ![k] = "none"]
    /\ snap' = [snap EXCEPT ![k] = NoSnapshot]
    /\ dirty' = [dirty EXCEPT ![k] = FALSE]

-----------------------------------------------------------------------------
SetPhase(c, p) == phase' = [phase EXCEPT ![c] = p]

\* The DuckDB transaction is gone.
EndTransaction(c) ==
    /\ SetPhase(c, "none")
    /\ autocommit' = [autocommit EXCEPT ![c] = FALSE]
    /\ modifies' = [modifies EXCEPT ![c] = FALSE]
    /\ ownScan' = [ownScan EXCEPT ![c] = FALSE]
    /\ reads' = [reads EXCEPT ![c] = {}]

\* SQLiteTransaction::Start: BEGIN
Start(k) == sqTx' = [sqTx EXCEPT ![k] = TRUE]

(***************************************************************************)
(* StartTransaction: open the connection, or take the in-memory database   *)
(* if no transaction has it, and BEGIN.                                    *)
(***************************************************************************)
StartTransaction(c) ==
    /\ phase[c] = "none"
    /\ InMemory => ~active_in_memory
    /\ ~sqTx[Conn(c)]
    /\ active_in_memory' = InMemory
    /\ Start(Conn(c))
    /\ SetPhase(c, "active")
    /\ \E auto, writes \in BOOLEAN :
         /\ autocommit' = [autocommit EXCEPT ![c] = auto]
         /\ modifies' = [modifies EXCEPT ![c] = auto /\ writes]
    /\ UNCHANGED <<ownScan, reads, lock, snap, dirty, version, orphaned>>

\* Faulty variant: only a transaction that has written reads its own connection.
UseGlobalDBIfWritten(c, readOnly) == ~readOnly \/ InMemory

\* GetScanFunction: use_global_db
UseGlobalDB(c, readOnly) == ~readOnly \/ ~autocommit[c] \/ InMemory

\* Faulty variant: a read through a connection that is closed again.
ReadElsewhere(c) ==
    /\ MayRead(Conn(c))
    /\ reads' = [reads EXCEPT ![c] = @ \cup {version}]
    /\ UNCHANGED <<lock, snap>>

\* A read through the transaction's connection (GetDB) keeps its lock.
ReadThroughTransaction(c) ==
    /\ AcquireRead(Conn(c))
    /\ reads' = [reads EXCEPT ![c] = @ \cup {snap'[Conn(c)]}]

(***************************************************************************)
(* A statement is bound: the catalog entries and the row id range are read *)
(* through the transaction's connection, and GetScanFunction decides which *)
(* connections the scans of the statement use.  DuckDB marks a transaction as writing       *)
(* before or after it binds the statement that writes; with one thread     *)
(* the scan always uses the transaction's connection.                      *)
(***************************************************************************)
Bind(c) ==
    /\ phase[c] = "active"
    /\ ReadThroughTransaction(c)
    /\ \E readOnly, oneThread \in BOOLEAN :
         /\ readOnly \/ modifies[c]
         /\ ownScan' = [ownScan EXCEPT ![c] = @ \/ (~oneThread /\ ~UseGlobalDB(c, readOnly))]
    /\ UNCHANGED <<phase, autocommit, modifies, sqTx, dirty, version, active_in_memory, orphaned>>

\* The database is locked: the statement fails.  An explicit transaction can go
\* on after a statement that could not be bound.
BindFails(c) ==
    /\ phase[c] = "active"
    /\ lock[Conn(c)] = "none"
    /\ ~MayRead(Conn(c))
    /\ \/ SetPhase(c, "invalid")
       \/ ~autocommit[c] /\ SetPhase(c, "active")
    /\ UNCHANGED <<autocommit, modifies, ownScan, reads, connVars, version, active_in_memory, orphaned>>

\* SqliteInitInternal: a thread of the scan opens a connection and reads a slice.
ScanSlice(c) ==
    /\ phase[c] = "active"
    /\ ownScan[c]
    /\ \A j \in Conns : lock[j] # "pending"
    /\ reads' = [reads EXCEPT ![c] = @ \cup {version}]
    /\ UNCHANGED <<phase, autocommit, modifies, ownScan, connVars, version, active_in_memory, orphaned>>

\* A writer that waits in its COMMIT keeps the slice out until the busy timeout.
ScanSliceFails(c) ==
    /\ phase[c] = "active"
    /\ ownScan[c]
    /\ \E j \in Conns : lock[j] = "pending"
    /\ SetPhase(c, "invalid")
    /\ UNCHANGED <<autocommit, modifies, ownScan, reads, connVars, version, active_in_memory, orphaned>>

\* The sink of an INSERT, UPDATE or DELETE, or DDL, writes through the
\* transaction's connection.
Write(c) ==
    LET k == Conn(c) IN
    /\ phase[c] = "active"
    /\ autocommit[c] => modifies[c]
    /\ version < MaxVersion
    /\ lock[k] # "none" \/ MayRead(k)
    /\ MayWrite(k)
    /\ modifies' = [modifies EXCEPT ![c] = TRUE]
    /\ lock' = [lock EXCEPT ![k] = "reserved"]
    /\ snap' = [snap EXCEPT ![k] = IF @ = NoSnapshot THEN version ELSE @]
    /\ dirty' = [dirty EXCEPT ![k] = TRUE]
    /\ UNCHANGED <<phase, autocommit, ownScan, reads, sqTx, version, active_in_memory, orphaned>>

\* The write fails and invalidates the DuckDB transaction: the database is
\* locked, or a constraint is violated, which can end the SQLite transaction.
WriteFails(c) ==
    /\ phase[c] = "active"
    /\ lock[Conn(c)] # "none"
    /\ SetPhase(c, "invalid")
    /\ \/ UNCHANGED connVars
       \/ AutoRollback /\ EndSQLiteTransaction(Conn(c))
    /\ UNCHANGED <<autocommit, modifies, ownScan, reads, version, active_in_memory, orphaned>>

-----------------------------------------------------------------------------
\* CommitTransaction: COMMIT waits for the readers, and keeps new ones out.
Commit(c) ==
    /\ phase[c] = "active"
    /\ SetPhase(c, "committing")
    /\ lock' = IF dirty[Conn(c)] /\ ~Wal THEN [lock EXCEPT ![Conn(c)] = "pending"] ELSE lock
    /\ UNCHANGED <<autocommit, modifies, ownScan, reads, sqTx, snap, dirty, version,
                   active_in_memory, orphaned>>

CommitSucceeds(c) ==
    /\ phase[c] = "committing"
    /\ MayCommit(Conn(c))
    /\ SetPhase(c, "closing")
    /\ version' = IF dirty[Conn(c)] THEN version + 1 ELSE version
    /\ EndSQLiteTransaction(Conn(c))
    /\ UNCHANGED <<autocommit, modifies, ownScan, reads, active_in_memory, orphaned>>

\* Faulty variant: COMMIT waits for the readers without a timeout.
CommitWaits(c) ==
    /\ phase[c] = "committing"
    /\ dirty[Conn(c)]
    /\ MayCommit(Conn(c))
    /\ SetPhase(c, "commit_failed")
    /\ UNCHANGED connVars \/ EndSQLiteTransaction(Conn(c))
    /\ UNCHANGED <<autocommit, modifies, ownScan, reads, version, active_in_memory, orphaned>>

\* COMMIT fails: the busy timeout expired or a deferred constraint is violated,
\* and SQLite keeps the transaction; or an I/O error made it roll back.
CommitFails(c) ==
    /\ phase[c] = "committing"
    /\ dirty[Conn(c)]
    /\ SetPhase(c, "commit_failed")
    /\ UNCHANGED connVars \/ EndSQLiteTransaction(Conn(c))
    /\ UNCHANGED <<autocommit, modifies, ownScan, reads, version, active_in_memory, orphaned>>

\* Faulty variant: the error of the COMMIT leaves CommitTransaction.
CommitErrorThrown(c) ==
    /\ phase[c] = "commit_failed"
    /\ EndTransaction(c)
    /\ UNCHANGED <<connVars, version, active_in_memory, orphaned>>

\* CommitTransaction: the failed transaction is rolled back; an error of that
\* ROLLBACK is ignored.
RollbackFailedCommit(c) ==
    /\ phase[c] = "commit_failed"
    /\ SetPhase(c, "closing")
    /\ IF sqTx[Conn(c)] THEN EndSQLiteTransaction(Conn(c)) ELSE UNCHANGED connVars
    /\ UNCHANGED <<autocommit, modifies, ownScan, reads, version, active_in_memory, orphaned>>

(***************************************************************************)
(* RollbackTransaction.  ROLLBACK is an error when SQLite has already      *)
(* ended the transaction: the exception leaves the SQLiteTransaction where *)
(* it is, while the DuckDB transaction has ended.                          *)
(***************************************************************************)
RollbackTransaction(c) ==
    /\ phase[c] \in {"active", "invalid"}
    /\ IF sqTx[Conn(c)]
       THEN /\ SetPhase(c, "closing")
            /\ EndSQLiteTransaction(Conn(c))
            /\ UNCHANGED <<autocommit, modifies, ownScan, reads, orphaned>>
       ELSE /\ EndTransaction(c)
            /\ orphaned' = TRUE
            /\ UNCHANGED connVars
    /\ UNCHANGED <<version, active_in_memory>>

\* Faulty variant: the in-memory database stays taken.
CloseWithoutRelease(c) ==
    /\ phase[c] = "closing"
    /\ EndTransaction(c)
    /\ IF InMemory THEN UNCHANGED connVars ELSE EndSQLiteTransaction(c)
    /\ UNCHANGED <<version, active_in_memory, orphaned>>

\* ExtractAndCloseAfterUnlock: the SQLiteTransaction is destroyed, which gives
\* back the in-memory database or closes the connection.
ExtractAndClose(c) ==
    /\ phase[c] = "closing"
    /\ EndTransaction(c)
    /\ active_in_memory' = FALSE
    /\ IF InMemory THEN UNCHANGED connVars ELSE EndSQLiteTransaction(c)
    /\ UNCHANGED <<version, orphaned>>

EndStep(c) ==
    \/ CommitSucceeds(c) \/ CommitFails(c) \/ RollbackFailedCommit(c) \/ ExtractAndClose(c)

ClientStep(c) ==
    \/ StartTransaction(c)
    \/ Bind(c) \/ BindFails(c) \/ ScanSlice(c) \/ ScanSliceFails(c)
    \/ Write(c) \/ WriteFails(c)
    \/ Commit(c) \/ RollbackTransaction(c)
    \/ EndStep(c)

Next == UNCHANGED database /\ \E c \in Clients : ClientStep(c)

Spec == Init /\ [][Next]_vars

\* A COMMIT returns, with an error when the busy timeout has expired, and the
\* rest of CommitTransaction does not wait for anything.
Fairness == \A c \in Clients : WF_vars(UNCHANGED database /\ EndStep(c))

-----------------------------------------------------------------------------
\* The types of the transactions, the connections and the locks of the file.
TypeOK ==
    /\ database \in Databases
    /\ phase \in [Clients -> Phases]
    /\ autocommit \in [Clients -> BOOLEAN]
    /\ modifies \in [Clients -> BOOLEAN]
    /\ ownScan \in [Clients -> BOOLEAN]
    /\ reads \in [Clients -> SUBSET (0..MaxVersion)]
    /\ sqTx \in [Conns -> BOOLEAN]
    /\ lock \in [Conns -> Locks]
    /\ snap \in [Conns -> 0..NoSnapshot]
    /\ dirty \in [Conns -> BOOLEAN]
    /\ version \in 0..MaxVersion
    /\ active_in_memory \in BOOLEAN
    /\ orphaned \in BOOLEAN

(***************************************************************************)
(* When a DuckDB transaction has ended, however it ended, its connection   *)
(* holds neither a transaction nor a lock (the promise of                  *)
(* attach_commit_busy.test), and the BEGIN of the next transaction on an   *)
(* in-memory database does not find the previous one still open.           *)
(***************************************************************************)
EndedTransactionsHoldNothing ==
    /\ TypeOK
    /\ \A c \in Clients : phase[c] = "none" => ~sqTx[c] /\ lock[c] = "none" /\ ~dirty[c]
    /\ ~active_in_memory => ~sqTx[Mem] /\ lock[Mem] = "none" /\ ~dirty[Mem]

(***************************************************************************)
(* A transaction reads one version of the database however many statements *)
(* and connections read it.  With a rollback journal this covers a scan    *)
(* whose threads use connections of their own: the lock taken when the     *)
(* statement was bound keeps writers from committing.  In WAL mode it      *)
(* covers explicit transactions, which GetScanFunction keeps on their own  *)
(* connection ("Scans in a transaction read the snapshot of the            *)
(* transaction", attach_transaction_scan.test).                            *)
(***************************************************************************)
ReadsOneVersion ==
    \A c \in Clients : (Wal => ~autocommit[c]) => Cardinality(reads[c]) <= 1

(***************************************************************************)
(* A transaction that commits changes has read nothing but the version     *)
(* they are applied to: no committed change of another transaction is lost *)
(* between its scan and its COMMIT, whichever connections the scan used.   *)
(***************************************************************************)
NoLostUpdate ==
    [][\A c \in Clients :
          (phase[c] = "committing" /\ dirty[Conn(c)] /\ version' # version /\ phase'[c] = "closing")
              => reads[c] \subseteq {version}]_vars

(***************************************************************************)
(* A COMMIT that waits for readers, which wait for it in turn because the  *)
(* slices of their scan need new locks, ends, and so does its transaction. *)
(***************************************************************************)
CommitEnds == \A c \in Clients : phase[c] = "committing" ~> phase[c] = "none"

(***************************************************************************)
(* "Whether or not there is any active transaction on the in-memory        *)
(* database" (SQLiteCatalog::active_in_memory).                            *)
(***************************************************************************)
ActiveMeansTransaction == active_in_memory => \E c \in Clients : phase[c] # "none"

(***************************************************************************)
(* At most one transaction uses the connection of an in-memory database,   *)
(* and active_in_memory says whether there is one.                         *)
(***************************************************************************)
InMemoryExclusive ==
    InMemory =>
        /\ \A c, d \in Clients : phase[c] # "none" /\ phase[d] # "none" => c = d
        /\ active_in_memory = (\E c \in Clients : phase[c] # "none")
=============================================================================
