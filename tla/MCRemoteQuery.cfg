CONSTANTS
    NoEntries = NoEntries
    MaxStatements = 2
SPECIFICATION QuerySpec
\* The transaction may end after any statement.
CHECK_DEADLOCK FALSE
INVARIANT ReplacedNotRead
