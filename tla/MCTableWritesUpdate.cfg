CONSTANTS
    Tables <- MCTables
    Limits = {2, 3, 9}
    Added = 1
    VectorSize = 2
    MaxRowId = 8
    MaxValue = 9
SPECIFICATION Spec
\* A statement ends; an INSERT that reads its own rows stops at MaxRowId,
\* and an UPDATE that does at MaxValue.
CHECK_DEADLOCK FALSE
INVARIANT UpdateOnce
