CONSTANTS
    c1 = c1
    c2 = c2
    Conns <- MCConns
    Pages = {1, 2}
    NoConn = NoConn
    NoSnap = NoSnap
    NoFile = NoFile
    Journals = {"wal"}
    Readers = 3
    WriteSets = {{2}, {1, 2}}
    LogSets = {{1}}
    JournalModes = {"delete", "persist", "truncate"}
    Syncs = {"FULL"}
    MaxStamp = 2
    MaxFaults = 0
    CkptModes = {"passive", "truncate"}
    StaleHeader = TRUE
    TornRestart = FALSE
    KeepOpen = FALSE

SPECIFICATION MCSpec
SYMMETRY Perms

\* A connection may stay idle, and the transactions are bounded.
CHECK_DEADLOCK FALSE

INVARIANT
    BackfillWithinLog
