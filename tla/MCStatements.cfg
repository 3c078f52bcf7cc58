CONSTANTS
    None = None
    NoEntries = NoEntries
    MaxStatements = 2
    t = t
    u = u
    i = i
    Names <- MCNames
    Columns <- MCColumns
    MaxDDL = 3
    Tables <- MCTables
    Limits = {2, 3, 9}
    Added = 1
    VectorSize = 2
    MaxRowId = 8
    MaxValue = 9

SPECIFICATION MCSpec
SYMMETRY MCSymmetry

\* A transaction may end after any statement, and a statement ends; an INSERT
\* that reads its own rows stops at MaxRowId, an UPDATE that does at MaxValue.
CHECK_DEADLOCK FALSE

INVARIANTS
    ReadOnlyUnwritten
    StatementOnce
    CacheShowsSchema
    DeleteExact
    SeparateWritesExact
    TableEntriesFresh
    WritesAddressRowIds
