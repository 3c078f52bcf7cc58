--------------------------- MODULE MCTransactions ---------------------------
(***************************************************************************)
(* The transactions of every kind of attached database.  A behaviour is    *)
(* about one database: a remote one (RemoteTransaction) or a local or      *)
(* in-memory one (SQLiteTransactions); the variables of the other          *)
(* component stay as they are initially.                                   *)
(***************************************************************************)
EXTENDS RemoteTransaction, SQLiteTransactions

CONSTANTS t1, t2, t3, a, b

VARIABLE remote   \* the attached database is remote

MCThreads == {t1, t2, t3}
MCClients == {a, b}

Journal == [in_memory |-> FALSE, wal |-> FALSE, auto_rollback |-> TRUE]
MCDatabases == {Journal,
                [in_memory |-> FALSE, wal |-> TRUE, auto_rollback |-> TRUE],
                [in_memory |-> TRUE, wal |-> FALSE, auto_rollback |-> FALSE]}

MCInit ==
    /\ remote \in BOOLEAN
    /\ GetDBInit
    /\ Init
    /\ remote => database = Journal

MCNext ==
    /\ UNCHANGED remote
    /\ \/ remote /\ GetDBNext /\ UNCHANGED vars
       \/ ~remote /\ Next /\ UNCHANGED getDBVars

MCSpec == MCInit /\ [][MCNext]_<<remote, getDBVars, vars>> /\ GetDBFairness /\ Fairness
=============================================================================
