------------------------------ MODULE MCStorage ------------------------------
(***************************************************************************)
(* Two processes on one database file.  A behaviour is about a file in WAL *)
(* mode (WriteAheadLog, the instance Log) or with a rollback journal       *)
(* (RollbackJournal); the variables of the other component stay as they    *)
(* are initially.                                                          *)
(*                                                                         *)
(* A behaviour has one fault at most.  The ones with a fault start from a  *)
(* file that has been written before, with a log to restart or a journal   *)
(* to overwrite.                                                           *)
(***************************************************************************)
EXTENDS RollbackJournal, TLC

CONSTANTS c1, c2, NoConn, Readers, LogSets, CkptModes, StaleHeader, TornRestart, Journals

VARIABLES
    journalMode,   \* "wal" or "rollback", one of Journals
    db, dbDisk, wal, walDisk, shm, conn, locks, ckpt, salts, limbo,   \* those of WriteAheadLog
    logSync, logStamps, logFaults, logDoubt

Log == INSTANCE WriteAheadLog WITH
          WriteSets <- LogSets, sync <- logSync, stamps <- logStamps, faults <- logFaults, doubt <- logDoubt

logVars == <<db, dbDisk, wal, walDisk, shm, conn, locks, ckpt, salts, limbo,
             logSync, logStamps, logFaults, logDoubt>>

MCConns == {c1, c2}
Perms == Permutations(MCConns)

LogStarts ==
    \/ Log!StartsAs(Log!NeverUsed) /\ logFaults = MaxFaults
    \/ Log!StartsAs(Log!Backfilled) /\ logFaults = 0

PagerStarts ==
    \/ StartsAs(NeverUsed) /\ faults = MaxFaults
    \/ /\ StartsAs(Remains) /\ faults = 0
       /\ pager[c1].mode = pager[c2].mode

MCInit ==
    /\ journalMode \in Journals
    /\ IF journalMode = "wal" THEN LogStarts
       ELSE Log!StartsAs(Log!NeverUsed) /\ logSync = "FULL" /\ logFaults = 0
    /\ IF journalMode = "rollback" THEN PagerStarts
       ELSE /\ StartsAs(NeverUsed) /\ faults = 0
            /\ \A c \in Conns : pager[c].mode = "delete"

MCNext ==
    /\ UNCHANGED journalMode
    /\ \/ journalMode = "wal" /\ Log!WalNext /\ UNCHANGED journalVars
       \/ journalMode = "rollback" /\ JournalNext /\ UNCHANGED logVars

MCSpec == MCInit /\ [][MCNext]_<<journalMode, journalVars, logVars>>

-----------------------------------------------------------------------------
InLog == journalMode = "wal"

Store == INSTANCE SnapshotStore WITH
            image <- IF InLog THEN Log!Image ELSE Image,
            snap <- [c \in Conns |-> IF InLog THEN Log!Snap(c) ELSE Snap(c)],
            intent <- [c \in Conns |-> IF InLog THEN Log!Intent(c) ELSE Intent(c)],
            limbo <- IF InLog THEN limbo ELSE {},
            doubt <- IF InLog THEN logDoubt ELSE doubt,
            Stamps <- 1 .. MaxStamp

(***************************************************************************)
(* Both journals implement SnapshotStore.  A read transaction sees one     *)
(* committed image from its first page to its last, cached pages included, *)
(* whatever writers, checkpoints and log restarts do meanwhile; a writer   *)
(* starts from the newest image.  A transaction is committed as a whole by *)
(* one store into the wal-index (walIndexWriteHdr) or by the step that     *)
(* finalizes the journal (pager_end_transaction); no death of a process    *)
(* undoes or half-applies it.  A power loss at any moment, in the middle   *)
(* of a rollback too, leaves the newest image; an earlier one only where   *)
(* the end of the journal, or with synchronous=NORMAL the log, was not     *)
(* flushed.                                                                *)
(***************************************************************************)
ImplementsStore == Store!StoreSpec

\* nBackfill is never beyond the log (WriteAheadLog).
BackfillWithinLog == Log!BackfillWithinLog
==============================================================================
