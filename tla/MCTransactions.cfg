CONSTANTS
    t1 = t1
    t2 = t2
    t3 = t3
    a = a
    b = b
    None = None
    Mem = mem
    Threads <- MCThreads
    MaxOpens = 3
    MaxCalls = 2
    Clients <- MCClients
    Databases <- MCDatabases
    MaxVersion = 3

SPECIFICATION MCSpec

\* A remote transaction ends.
CHECK_DEADLOCK FALSE

INVARIANTS
    ReturnedIsBegun
    EveryBeginEnds
    EndedTransactionsHoldNothing
    ReadsOneVersion
    InMemoryExclusive

PROPERTIES
    NoLostUpdate
    GetDBEnds
    CommitEnds
