CONSTANTS
    t1 = t1
    t2 = t2
    Threads <- MCThreads
    RowIds <- MCRowIds
    RowsPerGroup = 1
    MaxRows = 6
    VectorSize = 2
    IdxMod = 21
    None = None
    Null = None
    Rank <- MCRank
    Columns <- MCColumns
    Scans <- MCScans
    ChunkSize = 2
    DeclaredTypes <- MCDeclaredTypes
    ClientValues <- MCClientValues
    MaxStored = 2

SPECIFICATION MCSpec

\* A scan and a query end.
CHECK_DEADLOCK FALSE

INVARIANTS
    EachRowAtMostOnce
    CompleteWhenFinished
    SliceArithmeticFits
    ScanFilters
    ReadAlike
    UpdateChecksLikeScan
    WrittenIsRead

PROPERTY
    ThreadsEnd
