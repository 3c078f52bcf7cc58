------------------------ MODULE MCSQLiteTransactions ------------------------
(* In-memory databases whose statements can make SQLite roll back. *)
EXTENDS SQLiteTransactions

CONSTANTS a, b

MCClients == {a, b}
MCDatabases == {[in_memory |-> TRUE, wal |-> FALSE, auto_rollback |-> TRUE]}
=============================================================================
