-------------------------- MODULE RemoteTransaction --------------------------
(***************************************************************************)
(* The SQLiteTransaction of a remote database: its connection is opened,   *)
(* and its SQLite transaction begun, by the first GetDB.  The threads of a *)
(* scan may race there; opening and BEGIN may fail, and a later GetDB      *)
(* tries again.  Commit and Rollback come after the threads have joined.   *)
(***************************************************************************)
EXTENDS Naturals, FiniteSets

CONSTANTS
    Threads,
    None,
    MaxOpens,   \* bound on the number of connections opened
    MaxCalls    \* bound on the calls of GetDB by a thread

ASSUME ThreadAssumption == None \notin Threads /\ None \notin Nat
ASSUME BoundAssumption == MaxOpens \in Nat /\ MaxCalls \in Nat

VARIABLES
    pc,            \* where a thread is in GetDB
    calls,         \* calls of GetDB by a thread
    returned,      \* the connection that a thread's GetDB returned last
    init_lock,     \* the thread that holds it
    initialized, started, db,
    expired,       \* the ClientContext is gone
    opens,         \* connections opened so far: the next one is opens + 1
    live,          \* connections that are open
    begun,         \* connections inside a SQLite transaction
    stage          \* "running", or "ended" by COMMIT or ROLLBACK

getDBVars == <<pc, calls, returned, init_lock, initialized, started, db, expired, opens, live,
          begun, stage>>

Connections == 1..MaxOpens

GetDBInit ==
    /\ pc = [t \in Threads |-> "idle"]
    /\ calls = [t \in Threads |-> 0]
    /\ returned = [t \in Threads |-> None]
    /\ init_lock = None
    /\ initialized = FALSE
    /\ started = FALSE
    /\ db = None
    /\ expired = FALSE
    /\ opens = 0
    /\ live = {}
    /\ begun = {}
    /\ stage = "running"

GoTo(t, label) == pc' = [pc EXCEPT ![t] = label]

Return(t) ==
    /\ GoTo(t, "idle")
    /\ returned' = [returned EXCEPT ![t] = db]

\* Start: a no-op for a remote database, since initialized is false.
Call(t) ==
    /\ stage = "running" /\ pc[t] = "idle" /\ calls[t] < MaxCalls
    /\ GoTo(t, "fast")
    /\ calls' = [calls EXCEPT ![t] = @ + 1]
    /\ UNCHANGED <<returned, init_lock, initialized, started, db, expired, opens, live, begun, stage>>

\* The acquire load of initialized
FastPath(t) ==
    /\ pc[t] = "fast"
    /\ IF initialized THEN Return(t) ELSE GoTo(t, "slow") /\ UNCHANGED returned
    /\ UNCHANGED <<calls, init_lock, initialized, started, db, expired, opens, live, begun, stage>>

Lock(t) ==
    /\ pc[t] = "slow" /\ init_lock = None
    /\ init_lock' = t
    /\ GoTo(t, "locked")
    /\ UNCHANGED <<calls, returned, initialized, started, db, expired, opens, live, begun, stage>>

\* Faulty variant: initialized is not read again under the lock.
NoRecheck(t) ==
    /\ pc[t] = "locked"
    /\ IF expired
       THEN GoTo(t, "idle") /\ init_lock' = None
       ELSE GoTo(t, "open") /\ UNCHANGED init_lock
    /\ UNCHANGED <<calls, returned, initialized, started, db, expired, opens, live, begun, stage>>

\* The second look at initialized, and at the ClientContext
Recheck(t) ==
    /\ pc[t] = "locked"
    /\ \/ /\ initialized
          /\ Return(t) /\ init_lock' = None
       \/ /\ ~initialized /\ expired
          /\ GoTo(t, "idle") /\ init_lock' = None /\ UNCHANGED returned
       \/ /\ ~initialized /\ ~expired
          /\ GoTo(t, "open") /\ UNCHANGED <<init_lock, returned>>
    /\ UNCHANGED <<calls, initialized, started, db, expired, opens, live, begun, stage>>

Open(t) ==
    /\ pc[t] = "open" /\ opens < MaxOpens
    /\ opens' = opens + 1
    /\ live' = live \cup {opens'}
    /\ GoTo(t, "begin")
    /\ UNCHANGED <<calls, returned, init_lock, initialized, started, db, expired, begun, stage>>

\* Faulty variant: the lock is kept when opening fails.
OpenFailsLocked(t) ==
    /\ pc[t] = "open"
    /\ GoTo(t, "idle")
    /\ UNCHANGED <<calls, returned, init_lock, initialized, started, db, expired, opens, live,
                   begun, stage>>

\* SQLiteDB::Open throws: nothing is kept, the lock is released.
OpenFails(t) ==
    /\ pc[t] = "open"
    /\ init_lock' = None
    /\ GoTo(t, "idle")
    /\ UNCHANGED <<calls, returned, initialized, started, db, expired, opens, live, begun, stage>>

\* new_db is the connection opened last.
Begin(t) ==
    /\ pc[t] = "begin"
    /\ begun' = begun \cup {opens}
    /\ GoTo(t, "own")
    /\ UNCHANGED <<calls, returned, init_lock, initialized, started, db, expired, opens, live, stage>>

\* BEGIN throws: new_db is closed on the way out.
BeginFails(t) ==
    /\ pc[t] = "begin"
    /\ live' = live \ {opens}
    /\ init_lock' = None
    /\ GoTo(t, "idle")
    /\ UNCHANGED <<calls, returned, initialized, started, db, expired, opens, begun, stage>>

\* owned_db takes new_db over; what owned_db held is closed.
Own(t) ==
    /\ pc[t] = "own"
    /\ db' = opens
    /\ live' = live \ {db}
    /\ begun' = begun \ {db}
    /\ GoTo(t, "start")
    /\ UNCHANGED <<calls, returned, init_lock, initialized, started, expired, opens, stage>>

\* Faulty variant: the BEGIN is not recorded.
NotStarted(t) ==
    /\ pc[t] = "start"
    /\ GoTo(t, "publish")
    /\ UNCHANGED <<calls, returned, init_lock, initialized, started, db, expired, opens, live,
                   begun, stage>>

SetStarted(t) ==
    /\ pc[t] = "start"
    /\ started' = TRUE
    /\ GoTo(t, "publish")
    /\ UNCHANGED <<calls, returned, init_lock, initialized, db, expired, opens, live, begun, stage>>

\* The release store of initialized, and the return under the lock
Publish(t) ==
    /\ pc[t] = "publish"
    /\ initialized' = TRUE
    /\ init_lock' = None
    /\ Return(t)
    /\ UNCHANGED <<calls, started, db, expired, opens, live, begun, stage>>

\* DuckDB ends the transaction (external: after its threads have joined), with
\* SQLiteTransaction::Commit or Rollback; then owned_db is closed.
End ==
    /\ stage = "running"
    /\ \A t \in Threads : pc[t] = "idle"
    /\ begun' = IF started THEN begun \ {db} ELSE begun
    /\ live' = live \ {db}
    /\ stage' = "ended"
    /\ UNCHANGED <<pc, calls, returned, init_lock, initialized, started, db, expired, opens>>

ContextExpires ==
    /\ ~expired
    /\ expired' = TRUE
    /\ UNCHANGED <<pc, calls, returned, init_lock, initialized, started, db, opens, live, begun, stage>>

GetDBStep(t) ==
    \/ FastPath(t) \/ Lock(t) \/ Recheck(t)
    \/ Open(t) \/ OpenFails(t) \/ Begin(t) \/ BeginFails(t)
    \/ Own(t) \/ SetStarted(t) \/ Publish(t)

GetDBNext == End \/ ContextExpires \/ \E t \in Threads : Call(t) \/ GetDBStep(t)

GetDBSpec == GetDBInit /\ [][GetDBNext]_getDBVars

\* A thread inside GetDB goes on; nothing makes DuckDB call it or end the transaction.
GetDBFairness == \A t \in Threads : WF_getDBVars(GetDBStep(t))

-----------------------------------------------------------------------------
Critical == {"locked", "open", "begin", "own", "start", "publish"}

\* Includes what init_lock is for: one thread at a time is past it.
GetDBTypeOK ==
    /\ pc \in [Threads -> {"idle", "fast", "slow"} \cup Critical]
    /\ calls \in [Threads -> 0..MaxCalls]
    /\ returned \in [Threads -> Connections \cup {None}]
    /\ init_lock \in Threads \cup {None}
    /\ \A t \in Threads : pc[t] \in Critical <=> init_lock = t
    /\ initialized \in BOOLEAN
    /\ started \in BOOLEAN
    /\ db \in Connections \cup {None}
    /\ expired \in BOOLEAN
    /\ opens \in 0..MaxOpens
    /\ live \subseteq Connections
    /\ begun \subseteq Connections
    /\ stage \in {"running", "ended"}

(***************************************************************************)
(* While the transaction runs, every connection that a GetDB has returned  *)
(* is open and inside a SQLite transaction, whichever way the threads      *)
(* raced; the fast path relies on it.  There is only one such connection,  *)
(* so only one snapshot, and init_lock is held by the thread that is       *)
(* inside it.                                                              *)
(***************************************************************************)
ReturnedIsBegun ==
    /\ GetDBTypeOK
    /\ stage = "running" =>
          \A t \in Threads : returned[t] # None => returned[t] \in live /\ returned[t] \in begun
    /\ \A t, u \in Threads : returned[t] # None /\ returned[u] # None => returned[t] = returned[u]

(***************************************************************************)
(* COMMIT or ROLLBACK is executed if and only if BEGIN was, and nothing    *)
(* stays open: no connection of a failed attempt is left behind.           *)
(***************************************************************************)
EveryBeginEnds == stage = "ended" => begun = {} /\ live = {}

\* Every GetDB returns or throws; a failed attempt does not block the others.
GetDBEnds == \A t \in Threads : (pc[t] # "idle") ~> (pc[t] = "idle")
=============================================================================
