----------------------------- MODULE RemoteFile -----------------------------
(***************************************************************************)
(* Reading a SQLite database that was published on a remote file system:   *)
(* DuckDBCachedFile and the file methods of SQLiteDuckDBCacheVFS.          *)
(*                                                                         *)
(* A writer (SQLite, external) changes a database file with its rollback   *)
(* journal or its WAL and is cut off at any moment; what is on its disk is *)
(* published as it is.  The reader sees only the main file, so it may      *)
(* serve it only if no live sidecar is needed to make sense of it.  Probes *)
(* and reads can fail as HTTP or other errors.                             *)
(***************************************************************************)
EXTENDS Naturals, Sequences

CONSTANTS
    NumPages,     \* pages of a database that is not empty
    MaxVersion,   \* bound on the number of transactions
    MaxOffset     \* bound on the pages a read starts at and asks for

ASSUME PagesAssumption == NumPages \in Nat \ {0} /\ MaxVersion \in Nat \ {0} /\ MaxOffset \in Nat

VARIABLES
    walMode,      \* byte 19 of the header: WAL or rollback journal
    main,         \* the pages of the main file; 0 is a page never written
    committed,    \* the pages of the last committed state
    target,       \* the state the writer is turning main into
    journal,      \* the "-journal" file
    wal,          \* the "-wal" file
    version,      \* transactions so far
    published,
    initialized, init_failed, cached_file_size,
    init_error,   \* the SQLite code of init_error_message
    netError,     \* a remote operation of the initialization has failed
    opens,        \* remote opens so far
    result        \* what the last call of the reader returned

writerVars == <<walMode, main, committed, target, journal, wal, version, published>>
readerVars == <<initialized, init_failed, cached_file_size, init_error, netError, opens, result>>
fileVars == <<writerVars, readerVars>>

Pages == 1..NumPages
Failed(rc) == [rc |-> rc, offset |-> 0, amount |-> 0, data |-> <<>>]

FileInit ==
    /\ walMode \in BOOLEAN
    /\ main \in {<<>>, [p \in Pages |-> 1]}
    /\ walMode => main # <<>>
    /\ committed = main
    /\ target = main
    /\ journal = "absent"
    /\ wal = "absent"
    /\ version = 1
    /\ published = FALSE
    /\ initialized = FALSE
    /\ init_failed = FALSE
    /\ cached_file_size = 0
    /\ init_error = "none"
    /\ netError = FALSE
    /\ opens = 0
    /\ result = Failed("none")

-----------------------------------------------------------------------------
(***************************************************************************)
(* The writer (SQLite, external).                                          *)
(***************************************************************************)
\* The state a transaction makes of the committed one: it changes some pages.
Changed(touched) ==
    [p \in Pages |-> IF committed = <<>> \/ p \in touched THEN version + 1 ELSE committed[p]]

WriteMain(p) ==
    main' = [q \in 1..(IF p > Len(main) THEN p ELSE Len(main)) |->
                IF q = p THEN target[p] ELSE IF q \in 1..Len(main) THEN main[q] ELSE 0]

JournalCreate ==
    /\ ~walMode /\ journal = "absent" /\ version < MaxVersion
    /\ journal' = "empty"
    /\ UNCHANGED <<main, committed, target, wal, version>>

\* The originals of the pages are in the journal before the main file changes.
JournalWrite ==
    /\ ~walMode /\ journal \in {"empty", "zeroed"} /\ version < MaxVersion
    /\ journal' = "hot"
    /\ \E touched \in (SUBSET Pages) \ {{}} : target' = Changed(touched)
    /\ version' = version + 1
    /\ UNCHANGED <<main, committed, wal>>

MainWrite ==
    /\ journal = "hot"
    /\ \/ \E p \in 1..Len(target) : WriteMain(p)
       \/ target = <<>> /\ main' = <<>>
    /\ UNCHANGED <<committed, target, journal, wal, version>>

\* ROLLBACK, or the recovery of a hot journal by the next writer.
JournalRollback ==
    /\ journal = "hot"
    /\ target' = committed
    /\ UNCHANGED <<main, committed, journal, wal, version>>

\* The end of a transaction: journal_mode DELETE, TRUNCATE or PERSIST.
JournalFinalize ==
    /\ journal = "hot" /\ main = target
    /\ committed' = target
    /\ journal' \in {"absent", "empty", "zeroed"}
    /\ UNCHANGED <<main, target, wal, version>>

WalCreate ==
    /\ walMode /\ wal \in {"absent", "empty"}
    /\ wal' = "header"
    /\ UNCHANGED <<main, committed, target, journal, version>>

\* Frames of a transaction that has not committed (and may never).
WalAppend ==
    /\ walMode /\ wal = "header"
    /\ wal' = "frames"
    /\ UNCHANGED <<main, committed, target, journal, version>>

WalCommit ==
    /\ walMode /\ wal = "frames" /\ version < MaxVersion
    /\ \E touched \in (SUBSET Pages) \ {{}} : committed' = Changed(touched)
    /\ target' = committed'
    /\ version' = version + 1
    /\ UNCHANGED <<main, journal, wal>>

Checkpoint ==
    /\ walMode /\ wal = "frames"
    /\ \E p \in Pages : WriteMain(p)
    /\ UNCHANGED <<committed, target, journal, wal, version>>

\* PRAGMA wal_checkpoint(TRUNCATE), or the last connection closes.
WalReset ==
    /\ walMode /\ wal # "absent" /\ main = committed
    /\ wal' \in {"empty", "absent"}
    /\ UNCHANGED <<main, committed, target, journal, version>>

WriterStep ==
    /\ ~published
    /\ \/ JournalCreate \/ JournalWrite \/ MainWrite \/ JournalRollback \/ JournalFinalize
       \/ WalCreate \/ WalAppend \/ WalCommit \/ Checkpoint \/ WalReset
    /\ UNCHANGED <<walMode, published, readerVars>>

\* The writer is cut off and its files are served as they are.
Publish ==
    /\ ~published
    /\ published' = TRUE
    /\ UNCHANGED <<walMode, main, committed, target, journal, wal, version, readerVars>>

-----------------------------------------------------------------------------
(***************************************************************************)
(* Remote errors: the HTTP status if there is one, whether it is an HTTP   *)
(* exception or message, and whether its text says that the file does not  *)
(* exist.  Ok stands for no error.                                         *)
(***************************************************************************)
Errors == [status : {0, 403, 404, 429}, http : BOOLEAN, notFound : BOOLEAN]
Ok == [status |-> 200, http |-> FALSE, notFound |-> FALSE]

\* The errors of a file that is not there: 404, or the text of a file system.
AbsentErrors ==
    {e \in Errors : (e.status = 404 /\ e.http) \/ (e.status = 0 /\ ~e.http /\ e.notFound)}

\* The errors of a file that may be there: a request that was refused or failed,
\* whatever its text says, or a fault of the local block cache.
OtherErrors ==
    {e \in Errors : e.status # 404 /\ (e.status # 0 => e.http) /\ (e.notFound => e.http)}

\* What a remote operation on a file can end with.
Outcomes(exists) == OtherErrors \cup (IF exists THEN {Ok} ELSE AbsentErrors)

\* SidecarConfirmedAbsent, for the errors of GetHttpStatus and IsHttpError
SidecarConfirmedAbsent(e) == e.status = 404 \/ (e.status = 0 /\ ~e.http /\ e.notFound)

\* SafeVFSCall with HttpStatusToSqliteError: the code of a failed xRead
SqliteError(e) ==
    CASE e.status = 404 -> "SQLITE_CANTOPEN"
      [] e.status = 429 -> "SQLITE_BUSY"
      [] OTHER -> "SQLITE_IOERR_READ"

-----------------------------------------------------------------------------
HasHeader == Len(main) > 0
IsSqlite == HasHeader /\ main[1] # 0

WalSize == CASE wal \in {"absent", "empty"} -> 0 [] wal = "header" -> 32 [] OTHER -> 33

\* Faulty variant: a "-wal" with nothing but its header is refused.
WalRejectsHeader(e) == IF e = Ok THEN WalSize < 32 ELSE SidecarConfirmedAbsent(e)

\* The "-wal" probe lets the main file be served.
WalProbePasses(e) == IF e = Ok THEN WalSize <= 32 ELSE SidecarConfirmedAbsent(e)

\* The "-journal" probe: a journal whose first byte is not zero is hot.
JournalProbePasses(e) == IF e = Ok THEN journal \in {"empty", "zeroed"} ELSE SidecarConfirmedAbsent(e)

SidecarExists == IF walMode THEN wal # "absent" ELSE journal # "absent"

\* Faulty variant: only the journal is probed.
SidecarPassesJournalOnly(e) == ~IsSqlite \/ walMode \/ JournalProbePasses(e)

SidecarPasses(e) ==
    ~IsSqlite \/ (IF walMode THEN WalProbePasses(e) ELSE JournalProbePasses(e))

(***************************************************************************)
(* InitializeFromRemote, with the errors that its operations on the main   *)
(* file and on the sidecar meet.  The members change only when all of them *)
(* succeed; EnsureInitialized remembers a failure.                         *)
(***************************************************************************)
InitializeFromRemote ==
    \E mainError \in Outcomes(TRUE), sideError \in Outcomes(SidecarExists) :
        /\ opens' = opens + (IF mainError = Ok /\ IsSqlite THEN 2 ELSE 1)
        /\ netError' = (mainError # Ok \/ (IsSqlite /\ sideError \in OtherErrors))
        /\ IF mainError = Ok /\ SidecarPasses(sideError)
           THEN /\ initialized' = TRUE
                /\ cached_file_size' = Len(main)
                /\ UNCHANGED <<init_failed, init_error>>
           ELSE /\ init_failed' = TRUE
                /\ init_error' = SqliteError(IF mainError # Ok THEN mainError ELSE sideError)
                /\ UNCHANGED <<initialized, cached_file_size>>

initVars == <<initialized, init_failed, cached_file_size, init_error, netError, opens>>

EnsureInitialized ==
    IF initialized \/ init_failed THEN UNCHANGED initVars ELSE InitializeFromRemote

\* DuckDBCachedFile::Read: a short read is filled up with zeros.
ReadPages(offset, amount) ==
    LET available == IF offset >= cached_file_size' THEN 0 ELSE cached_file_size' - offset
        toRead == IF available < amount THEN available ELSE amount
    IN [rc |-> IF toRead < amount THEN "SQLITE_IOERR_SHORT_READ" ELSE "SQLITE_OK",
        offset |-> offset, amount |-> amount,
        data |-> SubSeq(main, offset + 1, offset + toRead) \o [i \in 1..(amount - toRead) |-> 0]]

(***************************************************************************)
(* xRead.  The text of a remembered failure may or may not tell its HTTP   *)
(* status; the remote read itself can fail as well.                        *)
(***************************************************************************)
XRead(offset, amount) ==
    /\ published
    /\ EnsureInitialized
    /\ \/ /\ init_failed'
          /\ \E rc \in {init_error', "SQLITE_IOERR_READ"} : result' = Failed(rc)
       \/ /\ initialized' /\ offset < cached_file_size'
          /\ \E e \in OtherErrors : result' = Failed(SqliteError(e))
       \/ /\ initialized'
          /\ result' = ReadPages(offset, amount)
    /\ UNCHANGED writerVars

\* xFileSize
XFileSize ==
    /\ published
    /\ EnsureInitialized
    /\ result' = Failed(IF initialized' THEN "none" ELSE "SQLITE_IOERR")
    /\ UNCHANGED writerVars

FileNext ==
    \/ WriterStep
    \/ Publish
    \/ \E offset \in 0..MaxOffset, amount \in 1..MaxOffset : XRead(offset, amount)
    \/ XFileSize

FileSpec == FileInit /\ [][FileNext]_fileVars

-----------------------------------------------------------------------------
\* The types of the files and of the state a reader keeps of them.
FileTypeOK ==
    /\ walMode \in BOOLEAN
    /\ main \in Seq(0..MaxVersion)
    /\ committed \in Seq(1..MaxVersion)
    /\ target \in Seq(1..MaxVersion)
    /\ journal \in {"absent", "empty", "zeroed", "hot"}
    /\ wal \in {"absent", "empty", "header", "frames"}
    /\ version \in 1..MaxVersion
    /\ published \in BOOLEAN
    /\ initialized \in BOOLEAN
    /\ init_failed \in BOOLEAN
    /\ cached_file_size \in 0..NumPages
    /\ init_error \in {"none", "SQLITE_IOERR_READ", "SQLITE_BUSY", "SQLITE_CANTOPEN"}
    /\ netError \in BOOLEAN
    /\ opens \in 0..2
    /\ result.rc \in {"none", "SQLITE_OK", "SQLITE_IOERR_SHORT_READ", "SQLITE_IOERR",
                      "SQLITE_IOERR_READ", "SQLITE_BUSY", "SQLITE_CANTOPEN"}

(***************************************************************************)
(* "a dirty main file is never served": wherever the writer was cut off,   *)
(* and whatever errors the probes meet, every page the reader hands to     *)
(* SQLite is that page of the last committed state, or zeros beyond its    *)
(* end, and the buffer is filled.  (A file whose header was never written  *)
(* is refused by SQLite.)                                                  *)
(***************************************************************************)
ServedIsCommitted ==
    /\ FileTypeOK
    /\ result.rc \in {"SQLITE_OK", "SQLITE_IOERR_SHORT_READ"} /\ (HasHeader => IsSqlite) =>
        /\ Len(result.data) = result.amount
        /\ \A i \in DOMAIN result.data :
              result.data[i] = IF result.offset + i <= Len(committed)
                               THEN committed[result.offset + i] ELSE 0

(***************************************************************************)
(* A database is refused only if a remote operation failed or a sidecar    *)
(* really holds something: one that was closed cleanly, or checkpointed,   *)
(* is served whichever way its journal was finalized.                      *)
(***************************************************************************)
CleanIsServed ==
    init_failed => netError \/ (IF walMode THEN wal = "frames" ELSE journal = "hot")
=============================================================================
