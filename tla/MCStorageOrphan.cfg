CONSTANTS
    c1 = c1
    c2 = c2
    Conns <- MCConns
    Pages = {1, 2}
    NoConn = NoConn
    NoSnap = NoSnap
    NoFile = NoFile
    Journals = {"rollback"}
    Readers = 3
    WriteSets = {{2}}
    LogSets = {{1, 2}}
    JournalModes = {"delete", "persist"}
    Syncs = {"FULL"}
    MaxStamp = 3
    MaxFaults = 0
    CkptModes = {"passive", "truncate"}
    StaleHeader = FALSE
    TornRestart = FALSE
    KeepOpen = TRUE

SPECIFICATION MCSpec
SYMMETRY Perms

\* A connection may stay idle, and the transactions are bounded.
CHECK_DEADLOCK FALSE

INVARIANT
    JournalCoversWrites
