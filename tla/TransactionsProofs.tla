------------------------- MODULE TransactionsProofs -------------------------
(***************************************************************************)
(* Proofs about the transactions of attached databases, for any number of  *)
(* threads, clients, calls, connections and versions: RemoteTransaction    *)
(* first, then SQLiteTransactions.                                         *)
(***************************************************************************)
EXTENDS RemoteTransaction, SQLiteTransactions, FiniteSetTheorems, TLAPS

-----------------------------------------------------------------------------
(* RemoteTransaction.                                                      *)

(***************************************************************************)
(* The connections of GetDB.  The thread past init_lock is the only one    *)
(* that can have a connection which no GetDB has returned: opened, then    *)
(* begun, then owned by the transaction, then marked as started.  Without  *)
(* such a thread only the connection that was published is open, and it is *)
(* inside a transaction that the end of the DuckDB transaction will end.   *)
(***************************************************************************)
At(t, places) == pc[t] \in places

Attempt ==
    \A t \in Threads :
        /\ At(t, Critical \ {"locked"}) => ~initialized
        /\ At(t, {"locked", "open"}) /\ ~initialized => live = {} /\ begun = {} /\ db = None
        /\ pc[t] = "begin" => live = {opens} /\ begun = {}
        /\ At(t, {"own", "start", "publish"}) => live = {opens} /\ begun = {opens}
        /\ At(t, {"begin", "own"}) => db = None
        /\ At(t, {"start", "publish"}) => db = opens
        /\ At(t, {"begin", "own", "start", "publish"}) => opens \in Connections
        /\ pc[t] = "publish" => started
        /\ pc[t] # "idle" => stage = "running"

Published ==
    /\ initialized => db \in Connections /\ started
    /\ initialized /\ stage = "running" => live = {db} /\ begun = {db}
    /\ ~initialized /\ init_lock = None => live = {} /\ begun = {} /\ db = None
    /\ ~initialized => \A t \in Threads : returned[t] = None
    /\ \A t \in Threads : returned[t] \in {None, db}
    /\ stage = "ended" => live = {} /\ begun = {}

GetDBInv == GetDBTypeOK /\ Attempt /\ Published

(* The invariant holds before the first GetDB.                              *)
LEMMA GetDBStart == GetDBInit => GetDBInv
  <1> SUFFICES ASSUME GetDBInit
               PROVE  GetDBInv
    OBVIOUS
  <1> USE BoundAssumption, ThreadAssumption DEF GetDBInit
  <1>0. 0 \in 0..MaxOpens /\ 0 \in 0..MaxCalls
    OBVIOUS
  <1>1. GetDBTypeOK
    BY <1>0, Zenon DEF GetDBTypeOK, Critical, Connections
  <1>2. Attempt
    BY DEF Attempt, At, Critical
  <1>3. Published
    BY DEF Published
  <1>4. QED
    BY <1>1, <1>2, <1>3 DEF GetDBInv

\* A step of one thread in GetDB, and the end of the transaction, keep the invariant.
LEMMA GetDBInductive == GetDBInv /\ [GetDBNext]_getDBVars => GetDBInv'
  <1> SUFFICES ASSUME GetDBInv, [GetDBNext]_getDBVars
               PROVE  GetDBInv'
    OBVIOUS
  <1> USE BoundAssumption, ThreadAssumption
      DEF GetDBInv, GetDBTypeOK, Attempt, Published, At, Critical, Connections, GoTo, Return
  <1>1. CASE End
    BY <1>1 DEF End
  <1>2. CASE ContextExpires
    BY <1>2 DEF ContextExpires
  <1>3. ASSUME NEW t \in Threads, Call(t)
        PROVE  GetDBInv'
    BY <1>3 DEF Call
  <1>4. ASSUME NEW t \in Threads, FastPath(t)
        PROVE  GetDBInv'
    BY <1>4 DEF FastPath
  <1>5. ASSUME NEW t \in Threads, Lock(t)
        PROVE  GetDBInv'
    BY <1>5 DEF Lock
  <1>6. ASSUME NEW t \in Threads, Recheck(t)
        PROVE  GetDBInv'
    BY <1>6 DEF Recheck
  <1>7. ASSUME NEW t \in Threads, Open(t)
        PROVE  GetDBInv'
    <2> USE <1>7 DEF Open
    <2>0. opens' \in Connections /\ opens' \in 0..MaxOpens
      OBVIOUS
    <2>1. live = {} /\ live' = {opens'} /\ begun = {} /\ ~initialized
      BY Zenon
    <2>2. GetDBTypeOK'
      BY <2>0, <2>1
    <2>3. Attempt'
      BY <2>0, <2>1
    <2>4. Published'
      BY <2>0, <2>1
    <2>5. QED
      BY <2>2, <2>3, <2>4
  <1>8. ASSUME NEW t \in Threads, OpenFails(t)
        PROVE  GetDBInv'
    BY <1>8 DEF OpenFails
  <1>9. ASSUME NEW t \in Threads, Begin(t)
        PROVE  GetDBInv'
    BY <1>9 DEF Begin
  <1>10. ASSUME NEW t \in Threads, BeginFails(t)
        PROVE  GetDBInv'
    BY <1>10 DEF BeginFails
  <1>11. ASSUME NEW t \in Threads, Own(t)
        PROVE  GetDBInv'
    BY <1>11 DEF Own
  <1>12. ASSUME NEW t \in Threads, SetStarted(t)
        PROVE  GetDBInv'
    BY <1>12 DEF SetStarted
  <1>13. ASSUME NEW t \in Threads, Publish(t)
        PROVE  GetDBInv'
    BY <1>13 DEF Publish
  <1>14. CASE UNCHANGED getDBVars
    BY <1>14 DEF getDBVars
  <1>15. QED
    BY <1>1, <1>2, <1>3, <1>4, <1>5, <1>6, <1>7, <1>8, <1>9, <1>10, <1>11, <1>12, <1>13, <1>14
    DEF GetDBNext, GetDBStep

(* It holds in every state of every behaviour.                              *)
LEMMA GetDBInvariant == GetDBSpec => []GetDBInv
  BY GetDBStart, GetDBInductive, PTL DEF GetDBSpec

(***************************************************************************)
(* However the threads of a transaction race in GetDB, and whichever       *)
(* opens and BEGINs fail, the connection that a GetDB returned stays open  *)
(* and inside its SQLite transaction until the transaction ends, and it is *)
(* the same one for all threads.                                           *)
(***************************************************************************)
THEOREM OneBegunConnection == GetDBSpec => []ReturnedIsBegun
  <1>1. GetDBInv => ReturnedIsBegun
    BY DEF GetDBInv, ReturnedIsBegun, Published
  <1>2. QED
    BY <1>1, GetDBInvariant, PTL

(***************************************************************************)
(* A transaction on a remote database that has ended leaves no connection  *)
(* open and no BEGIN without its COMMIT or ROLLBACK.                       *)
(***************************************************************************)
THEOREM NoBeginLeft == GetDBSpec => []EveryBeginEnds
  <1>1. GetDBInv => EveryBeginEnds
    BY DEF GetDBInv, EveryBeginEnds, Published
  <1>2. QED
    BY <1>1, GetDBInvariant, PTL

-----------------------------------------------------------------------------
(* SQLiteTransactions.                                                     *)

Idle(k) == ~sqTx[k] /\ lock[k] = "none" /\ snap[k] = NoSnapshot /\ ~dirty[k]

(* A connection outside a transaction holds nothing; the connections that   *)
(* this kind of database does not use never do.                             *)
ConnInv ==
    /\ \A k \in Conns : ~sqTx[k] => Idle(k)
    /\ IF InMemory THEN \A c \in Clients : ~sqTx[c] ELSE ~sqTx[Mem] /\ ~active_in_memory
    /\ \A k \in Conns : lock[k] = "none" <=> snap[k] = NoSnapshot

(* There is one writer, and it changes the version it has read; with a      *)
(* rollback journal every lock pins the version.                            *)
LockInv ==
    /\ \A k \in Conns : dirty[k] <=> lock[k] \in {"reserved", "pending"}
    /\ \A k \in Conns : dirty[k] => version < MaxVersion /\ snap[k] = version
    /\ \A j, k \in Conns : dirty[j] /\ dirty[k] => j = k
    /\ \A k \in Conns : lock[k] # "none" => snap[k] <= version
    /\ ~Wal => \A k \in Conns : lock[k] # "none" => snap[k] = version

(* What the phase of a DuckDB transaction says of its connection.           *)
PhaseInv ==
    \A c \in Clients :
        /\ phase[c] = "none" => reads[c] = {} /\ ~ownScan[c]
        /\ phase[c] = "none" /\ ~InMemory => ~sqTx[c]
        /\ phase[c] \in {"active", "committing"} => sqTx[Conn(c)]
        /\ phase[c] = "closing" => ~sqTx[Conn(c)]

(* The connection of an in-memory database has one user.                    *)
UserInv ==
    InMemory =>
        /\ \A c \in Clients : phase[c] # "none" => active_in_memory
        /\ \A c, d \in Clients : phase[c] # "none" /\ phase[d] # "none" => c = d
        /\ ~active_in_memory => ~sqTx[Mem]

(* What a transaction has read lies between its snapshot and the newest     *)
(* version; connections of its own read for it only while its lock is held. *)
ReadInv ==
    \A c \in Clients :
        /\ Wal /\ ~autocommit[c] => ~ownScan[c]
        /\ (Wal => ~autocommit[c]) => \A x, y \in reads[c] : x = y
        /\ phase[c] \in {"active", "committing"} =>
             /\ ownScan[c] => lock[Conn(c)] # "none"
             /\ \A x \in reads[c] : lock[Conn(c)] # "none" /\ snap[Conn(c)] <= x /\ x <= version
             /\ Wal /\ ~autocommit[c] => \A x \in reads[c] : x = snap[Conn(c)]

TxInv == TypeOK /\ ConnInv /\ LockInv /\ PhaseInv /\ UserInv /\ ReadInv

(* The invariant holds before the first transaction.                        *)
LEMMA TxStart == Init => TxInv
  <1> SUFFICES ASSUME Init
               PROVE  TxInv
    OBVIOUS
  <1> USE ClientAssumption, VersionAssumption, DatabaseAssumption DEF Init, Conns, NoSnapshot
  <1>0. 0 \in 0..MaxVersion /\ MaxVersion + 1 \in 0..(MaxVersion + 1)
    OBVIOUS
  <1>1. TypeOK
    BY <1>0, Zenon DEF TypeOK, Phases, Locks
  <1>2. ConnInv
    BY DEF ConnInv, Idle
  <1>3. LockInv
    BY DEF LockInv
  <1>4. PhaseInv
    BY DEF PhaseInv
  <1>5. UserInv
    BY DEF UserInv
  <1>6. ReadInv
    BY DEF ReadInv
  <1>7. QED
    BY <1>1, <1>2, <1>3, <1>4, <1>5, <1>6 DEF TxInv

(* A SQLite transaction ends or goes on; the other connections do not       *)
(* notice.                                                                  *)
Ends(k) == EndSQLiteTransaction(k) \/ UNCHANGED connVars

(* What the end of a SQLite transaction does to every connection.           *)
LEMMA EndTypes ==
  ASSUME NEW k \in Conns, TypeOK, Ends(k)
  PROVE  /\ sqTx' \in [Conns -> BOOLEAN] /\ dirty' \in [Conns -> BOOLEAN]
         /\ lock' \in [Conns -> Locks] /\ snap' \in [Conns -> 0..NoSnapshot]
         /\ \A j \in Conns :
              \/ sqTx'[j] = sqTx[j] /\ lock'[j] = lock[j] /\ snap'[j] = snap[j] /\ dirty'[j] = dirty[j]
              \/ j = k /\ ~sqTx'[j] /\ lock'[j] = "none" /\ snap'[j] = NoSnapshot /\ ~dirty'[j]
  <1>1. CASE UNCHANGED connVars
    BY <1>1 DEF connVars, TypeOK
  <1>2. CASE EndSQLiteTransaction(k)
    <2> USE <1>2, VersionAssumption DEF TypeOK, EndSQLiteTransaction
    <2>1. sqTx' \in [Conns -> BOOLEAN] /\ dirty' \in [Conns -> BOOLEAN]
      OBVIOUS
    <2>2. lock' \in [Conns -> Locks]
      BY DEF Locks
    <2>3. snap' \in [Conns -> 0..NoSnapshot]
      BY DEF NoSnapshot
    <2>4. QED
      BY <2>1, <2>2, <2>3
  <1>3. QED
    BY <1>1, <1>2 DEF Ends

(* A connection whose transaction ends is idle.                             *)
LEMMA EndKeepsConns ==
  ASSUME NEW k \in Conns, TypeOK, ConnInv, Ends(k), UNCHANGED database,
         active_in_memory' \in {active_in_memory, FALSE}
  PROVE  ConnInv'
  <1>1. InMemory' = InMemory
    BY DEF InMemory
  <1>2. \A j \in Conns : ~sqTx'[j] => Idle(j)'
    BY EndTypes DEF ConnInv, Idle
  <1>3. IF InMemory' THEN \A c \in Clients : ~sqTx'[c] ELSE ~sqTx'[Mem] /\ ~active_in_memory'
    <2>1. Mem \in Conns /\ \A c \in Clients : c \in Conns
      BY DEF Conns
    <2>2. \A j \in Conns : sqTx'[j] => sqTx[j]
      BY EndTypes
    <2>3. CASE InMemory
      BY <1>1, <2>1, <2>2, <2>3, Zenon DEF ConnInv
    <2>4. CASE ~InMemory
      <3>1. ~sqTx[Mem] /\ ~active_in_memory
        BY <2>4, Zenon DEF ConnInv
      <3>2. ~sqTx'[Mem]
        BY <2>1, <2>2, <3>1, Zenon
      <3>3. ~active_in_memory'
        BY <3>1, Zenon
      <3>4. QED
        BY <1>1, <2>4, <3>2, <3>3, Zenon
    <2>5. QED
      BY <2>3, <2>4
  <1>4. \A j \in Conns : lock'[j] = "none" <=> snap'[j] = NoSnapshot
    BY EndTypes DEF ConnInv
  <1>5. QED
    BY <1>2, <1>3, <1>4 DEF ConnInv, NoSnapshot

(* The end of a SQLite transaction gives up its locks and disturbs no       *)
(* other.                                                                   *)
LEMMA EndKeepsLocks ==
  ASSUME NEW k \in Conns, TypeOK, LockInv, Ends(k), UNCHANGED <<database, version>>
  PROVE  LockInv'
  <1>1. Wal' = Wal /\ version' = version
    BY DEF Wal
  <1>2. \A j \in Conns : dirty'[j] <=> lock'[j] \in {"reserved", "pending"}
    BY EndTypes DEF LockInv
  <1>3. \A j \in Conns : dirty'[j] => version < MaxVersion /\ snap'[j] = version
    BY EndTypes DEF LockInv
  <1>4. \A i, j \in Conns : dirty'[i] /\ dirty'[j] => i = j
    BY EndTypes DEF LockInv
  <1>5. \A j \in Conns : lock'[j] # "none" => snap'[j] <= version
    BY EndTypes DEF LockInv
  <1>6. ~Wal => \A j \in Conns : lock'[j] # "none" => snap'[j] = version
    BY EndTypes DEF LockInv
  <1>7. QED
    BY <1>1, <1>2, <1>3, <1>4, <1>5, <1>6 DEF LockInv

(* A client whose SQLite transaction ends, or that is on its way to end it, *)
(* while the other clients stay as they are.                                *)
Leaves(c) ==
    /\ phase[c] # "none" /\ phase'[c] \in {"invalid", "commit_failed", "closing", "none"}
    /\ \A d \in Clients \ {c} :
          phase'[d] = phase[d] /\ autocommit'[d] = autocommit[d] /\ ownScan'[d] = ownScan[d] /\ reads'[d] = reads[d]
    /\ IF phase'[c] = "none"
       THEN reads'[c] = {} /\ ~ownScan'[c] /\ (~InMemory => ~sqTx'[c])
       ELSE reads'[c] = reads[c] /\ ownScan'[c] = ownScan[c] /\ autocommit'[c] = autocommit[c]
    /\ phase'[c] = "closing" => ~sqTx'[Conn(c)]

(* It keeps what the phases say of the connections, and what was read.      *)
LEMMA LeavingKeeps ==
  ASSUME NEW c \in Clients, TxInv, UNCHANGED database, Ends(Conn(c)), Leaves(c),
         version' \in {version, version + 1},
         \/ active_in_memory' = active_in_memory
         \/ ~active_in_memory' /\ phase[c] = "closing" /\ phase'[c] = "none"
  PROVE  PhaseInv' /\ UserInv' /\ ReadInv'
  <1>1. /\ InMemory' = InMemory /\ Wal' = Wal /\ \A d \in Clients : Conn(d)' = Conn(d)
        /\ \A d \in Clients : Conn(d) \in Conns
    BY DEF InMemory, Wal, Conn, Conns
  <1>2. /\ \A j \in Conns : sqTx'[j] => sqTx[j]
        /\ \A j \in Conns \ {Conn(c)} : sqTx'[j] = sqTx[j] /\ lock'[j] = lock[j] /\ snap'[j] = snap[j]
    BY <1>1, EndTypes DEF TxInv
  <1>3. \A d \in Clients \ {c} : phase[d] # "none" => Conn(d) # Conn(c)
    BY ClientAssumption DEF Leaves, TxInv, UserInv, Conn
  <1>4. ASSUME NEW d \in Clients
        PROVE  /\ phase'[d] = "none" => reads'[d] = {} /\ ~ownScan'[d]
               /\ phase'[d] = "none" /\ ~InMemory' => ~sqTx'[d]
               /\ phase'[d] \in {"active", "committing"} => sqTx'[Conn(d)]
               /\ phase'[d] = "closing" => ~sqTx'[Conn(d)]
    <2>1. CASE d = c
      BY <1>1, <2>1 DEF Leaves
    <2>2. CASE d # c
      <3>1. d \in Conns /\ phase'[d] = phase[d] /\ reads'[d] = reads[d] /\ ownScan'[d] = ownScan[d]
        BY <2>2 DEF Leaves, Conns
      <3>2. phase[d] # "none" => sqTx'[Conn(d)] = sqTx[Conn(d)]
        BY <1>1, <1>2, <1>3, <2>2
      <3>3. QED
        BY <1>1, <1>2, <3>1, <3>2 DEF TxInv, PhaseInv
    <2>3. QED
      BY <2>1, <2>2
  <1>5. ASSUME NEW d \in Clients
        PROVE  /\ Wal' /\ ~autocommit'[d] => ~ownScan'[d]
               /\ (Wal' => ~autocommit'[d]) => \A x, y \in reads'[d] : x = y
               /\ phase'[d] \in {"active", "committing"} =>
                    /\ ownScan'[d] => lock'[Conn(d)] # "none"
                    /\ \A x \in reads'[d] :
                          lock'[Conn(d)] # "none" /\ snap'[Conn(d)] <= x /\ x <= version'
                    /\ Wal' /\ ~autocommit'[d] => \A x \in reads'[d] : x = snap'[Conn(d)]
    <2>1. CASE d = c
      BY <1>1, <2>1 DEF Leaves, TxInv, ReadInv
    <2>2. CASE d # c
      <3>1. /\ phase'[d] = phase[d] /\ autocommit'[d] = autocommit[d]
            /\ reads'[d] = reads[d] /\ ownScan'[d] = ownScan[d]
        BY <2>2 DEF Leaves
      <3>2. phase[d] # "none" => lock'[Conn(d)] = lock[Conn(d)] /\ snap'[Conn(d)] = snap[Conn(d)]
        BY <1>1, <1>2, <1>3, <2>2
      <3>3. version \in Nat /\ \A x \in reads[d] : x \in Nat /\ (x <= version => x <= version')
        BY VersionAssumption DEF TxInv, TypeOK
      <3>4. QED
        BY <1>1, <3>1, <3>2, <3>3 DEF TxInv, ReadInv
    <2>3. QED
      BY <2>1, <2>2
  <1>6. ASSUME InMemory
        PROVE  /\ \A d \in Clients : phase'[d] # "none" => active_in_memory'
               /\ \A b, d \in Clients : phase'[b] # "none" /\ phase'[d] # "none" => b = d
               /\ ~active_in_memory' => ~sqTx'[Mem]
    <2>1. /\ Mem \in Conns /\ Conn(c) = Mem
          /\ \A d \in Clients : phase[d] # "none" => d = c
          /\ \A d \in Clients : phase'[d] # "none" => d = c
      BY <1>6 DEF Conns, Conn, Leaves, TxInv, UserInv
    <2>2. ~active_in_memory' => ~sqTx'[Mem]
      BY <1>2, <1>6, <2>1 DEF TxInv, UserInv, PhaseInv
    <2>3. phase'[c] # "none" => active_in_memory'
      BY <1>6 DEF Leaves, TxInv, UserInv
    <2>4. QED
      BY <2>1, <2>2, <2>3
  <1>7. UserInv'
    BY <1>1, <1>6 DEF UserInv
  <1>8. QED
    BY <1>1, <1>4, <1>5, <1>7 DEF PhaseInv, ReadInv

(* BEGIN opens a transaction that holds no lock yet, on a connection that   *)
(* was idle.                                                                *)
LEMMA StartTransactionKeeps ==
  ASSUME NEW c \in Clients, TxInv, UNCHANGED database, StartTransaction(c)
  PROVE  TxInv'
  <1> USE ClientAssumption, VersionAssumption, DatabaseAssumption
      DEF TxInv, TypeOK, Conns, NoSnapshot, Conn, InMemory, Wal, connVars, StartTransaction, SetPhase, Start
  <1>1. TypeOK'
    BY DEF Phases, Locks, LockInv
  <1>2. ConnInv'
    BY DEF ConnInv, Idle, PhaseInv, UserInv
  <1>3. LockInv'
    BY DEF ConnInv, Idle, LockInv
  <1>4. PhaseInv'
    BY DEF ConnInv, PhaseInv, UserInv
  <1>5. UserInv'
    BY DEF PhaseInv, UserInv
  <1>6. ReadInv'
    BY DEF ConnInv, LockInv, PhaseInv, UserInv, ReadInv
  <1>7. QED
    BY <1>1, <1>2, <1>3, <1>4, <1>5, <1>6

(* The first read of a transaction takes its lock and fixes its snapshot.   *)
LEMMA BindKeeps ==
  ASSUME NEW c \in Clients, TxInv, UNCHANGED database, Bind(c)
  PROVE  TxInv'
  <1> USE ClientAssumption, VersionAssumption, DatabaseAssumption
      DEF TxInv, TypeOK, Conns, NoSnapshot, Conn, InMemory, Wal, connVars, Bind, ReadThroughTransaction, AcquireRead, UseGlobalDB
  <1>1. TypeOK'
    <2>1. lock' \in [Conns -> Locks]
      BY DEF Locks
    <2>2. snap' \in [Conns -> 0..NoSnapshot]
      OBVIOUS
    <2>3. ownScan' \in [Clients -> BOOLEAN]
      OBVIOUS
    <2>4. reads' \in [Clients -> SUBSET (0..MaxVersion)]
      OBVIOUS
    <2>5. QED
      BY <2>1, <2>2, <2>3, <2>4, Zenon
  <1>2. ConnInv'
    BY DEF ConnInv, Idle, PhaseInv, UserInv
  <1>3. LockInv'
    BY DEF ConnInv, Idle, LockInv
  <1>4. PhaseInv'
    BY DEF ConnInv, PhaseInv, UserInv
  <1>5. UserInv'
    BY DEF PhaseInv, UserInv
  <1>6. ReadInv'
    BY DEF ConnInv, LockInv, PhaseInv, UserInv, ReadInv
  <1>7. QED
    BY <1>1, <1>2, <1>3, <1>4, <1>5, <1>6

(* A statement that finds the database locked leaves the connection as it   *)
(* was.                                                                     *)
LEMMA BindFailsKeeps ==
  ASSUME NEW c \in Clients, TxInv, UNCHANGED database, BindFails(c)
  PROVE  TxInv'
  <1> USE ClientAssumption, VersionAssumption, DatabaseAssumption
      DEF TxInv, TypeOK, Conns, NoSnapshot, Conn, InMemory, Wal, connVars, BindFails, SetPhase
  <1>1. TypeOK'
    BY DEF Phases, Locks, LockInv
  <1>2. ConnInv'
    BY DEF ConnInv, Idle, PhaseInv, UserInv
  <1>3. LockInv'
    BY DEF ConnInv, Idle, LockInv
  <1>4. PhaseInv'
    BY DEF ConnInv, PhaseInv, UserInv
  <1>5. UserInv'
    BY DEF PhaseInv, UserInv
  <1>6. ReadInv'
    BY DEF ConnInv, LockInv, PhaseInv, UserInv, ReadInv
  <1>7. QED
    BY <1>1, <1>2, <1>3, <1>4, <1>5, <1>6

(* A slice reads through the connection of the transaction or through one   *)
(* of its own.                                                              *)
LEMMA ScanSliceKeeps ==
  ASSUME NEW c \in Clients, TxInv, UNCHANGED database, ScanSlice(c)
  PROVE  TxInv'
  <1> USE ClientAssumption, VersionAssumption, DatabaseAssumption
      DEF TxInv, TypeOK, Conns, NoSnapshot, Conn, InMemory, Wal, connVars, ScanSlice
  <1>1. TypeOK'
    BY DEF Phases, Locks, LockInv
  <1>2. ConnInv'
    BY DEF ConnInv, Idle, PhaseInv, UserInv
  <1>3. LockInv'
    BY DEF ConnInv, Idle, LockInv
  <1>4. PhaseInv'
    BY DEF ConnInv, PhaseInv, UserInv
  <1>5. UserInv'
    BY DEF PhaseInv, UserInv
  <1>6. ReadInv'
    BY DEF ConnInv, LockInv, PhaseInv, UserInv, ReadInv
  <1>7. QED
    BY <1>1, <1>2, <1>3, <1>4, <1>5, <1>6

(* A slice that fails invalidates the transaction; its own connection is as *)
(* it was.                                                                  *)
LEMMA ScanSliceFailsKeeps ==
  ASSUME NEW c \in Clients, TxInv, UNCHANGED database, ScanSliceFails(c)
  PROVE  TxInv'
  <1> USE ClientAssumption, VersionAssumption, DatabaseAssumption
      DEF TxInv, TypeOK, Conns, NoSnapshot, Conn, InMemory, Wal, connVars, ScanSliceFails, SetPhase
  <1>1. TypeOK'
    BY DEF Phases, Locks, LockInv
  <1>2. ConnInv'
    BY DEF ConnInv, Idle, PhaseInv, UserInv
  <1>3. LockInv'
    BY DEF ConnInv, Idle, LockInv
  <1>4. PhaseInv'
    BY DEF ConnInv, PhaseInv, UserInv
  <1>5. UserInv'
    BY DEF PhaseInv, UserInv
  <1>6. ReadInv'
    BY DEF ConnInv, LockInv, PhaseInv, UserInv, ReadInv
  <1>7. QED
    BY <1>1, <1>2, <1>3, <1>4, <1>5, <1>6

(* A write takes the one writer's lock on the version that was read.        *)
LEMMA WriteKeeps ==
  ASSUME NEW c \in Clients, TxInv, UNCHANGED database, Write(c)
  PROVE  TxInv'
  <1> USE ClientAssumption, VersionAssumption, DatabaseAssumption
      DEF TxInv, TypeOK, Conns, NoSnapshot, Conn, InMemory, Wal, connVars, Write, MayWrite
  <1>1. TypeOK'
    BY DEF Phases, Locks, LockInv
  <1>2. ConnInv'
    BY DEF ConnInv, Idle, PhaseInv, UserInv
  <1>3. LockInv'
    BY DEF ConnInv, Idle, LockInv
  <1>4. PhaseInv'
    BY DEF ConnInv, PhaseInv, UserInv
  <1>5. UserInv'
    BY DEF PhaseInv, UserInv
  <1>6. ReadInv'
    BY DEF ConnInv, LockInv, PhaseInv, UserInv, ReadInv
  <1>7. QED
    BY <1>1, <1>2, <1>3, <1>4, <1>5, <1>6

(* A write that fails invalidates the transaction and may end it in SQLite. *)
LEMMA WriteFailsKeeps ==
  ASSUME NEW c \in Clients, TxInv, UNCHANGED database, WriteFails(c)
  PROVE  TxInv'
  <1>0. Conn(c) \in Conns /\ Ends(Conn(c))
    BY DEF WriteFails, Ends, Conn, Conns
  <1>1. TypeOK'
    <2>1. /\ phase' \in [Clients -> Phases]
          /\ autocommit' \in [Clients -> BOOLEAN] /\ modifies' \in [Clients -> BOOLEAN]
          /\ ownScan' \in [Clients -> BOOLEAN] /\ reads' \in [Clients -> SUBSET (0..MaxVersion)]
      BY DEF TxInv, TypeOK, WriteFails, SetPhase, Phases
    <2>2. database' \in Databases /\ version' \in 0..MaxVersion /\ active_in_memory' \in BOOLEAN /\ orphaned' \in BOOLEAN
      BY DEF TxInv, TypeOK, LockInv, WriteFails
    <2>3. QED
      BY <1>0, <2>1, <2>2, EndTypes DEF TxInv, TypeOK, NoSnapshot
  <1>2. ConnInv'
    BY <1>0, EndKeepsConns DEF TxInv, WriteFails
  <1>3. LockInv'
    BY <1>0, EndKeepsLocks DEF TxInv, WriteFails
  <1>4. Leaves(c)
    BY <1>0, ClientAssumption DEF Leaves, TxInv, TypeOK, ConnInv, WriteFails, SetPhase, EndSQLiteTransaction, Conn, Conns, InMemory, connVars
  <1>5. PhaseInv' /\ UserInv' /\ ReadInv'
    BY <1>0, <1>4, LeavingKeeps DEF WriteFails
  <1>6. QED
    BY <1>1, <1>2, <1>3, <1>5 DEF TxInv

(* COMMIT waits for the readers of a rollback journal and keeps new ones    *)
(* out.                                                                     *)
LEMMA CommitKeeps ==
  ASSUME NEW c \in Clients, TxInv, UNCHANGED database, Commit(c)
  PROVE  TxInv'
  <1> USE ClientAssumption, VersionAssumption, DatabaseAssumption
      DEF TxInv, TypeOK, Conns, NoSnapshot, Conn, InMemory, Wal, connVars, Commit, SetPhase
  <1>1. TypeOK'
    BY DEF Phases, Locks, LockInv
  <1>2. ConnInv'
    BY DEF ConnInv, Idle, LockInv, PhaseInv, UserInv
  <1>3. LockInv'
    BY DEF ConnInv, Idle, LockInv
  <1>4. PhaseInv'
    BY DEF ConnInv, PhaseInv, UserInv
  <1>5. UserInv'
    BY DEF PhaseInv, UserInv
  <1>6. ReadInv'
    BY DEF ConnInv, LockInv, PhaseInv, UserInv, ReadInv
  <1>7. QED
    BY <1>1, <1>2, <1>3, <1>4, <1>5, <1>6

(* A rollback ends the SQLite transaction wherever it stands.               *)
LEMMA RollbackTransactionKeeps ==
  ASSUME NEW c \in Clients, TxInv, UNCHANGED database, RollbackTransaction(c)
  PROVE  TxInv'
  <1>0. Conn(c) \in Conns /\ Ends(Conn(c))
    BY DEF RollbackTransaction, Ends, Conn, Conns
  <1>1. TypeOK'
    <2>1. /\ phase' \in [Clients -> Phases]
          /\ autocommit' \in [Clients -> BOOLEAN] /\ modifies' \in [Clients -> BOOLEAN]
          /\ ownScan' \in [Clients -> BOOLEAN] /\ reads' \in [Clients -> SUBSET (0..MaxVersion)]
      BY DEF TxInv, TypeOK, RollbackTransaction, SetPhase, EndTransaction, Phases
    <2>2. database' \in Databases /\ version' \in 0..MaxVersion /\ active_in_memory' \in BOOLEAN /\ orphaned' \in BOOLEAN
      BY DEF TxInv, TypeOK, LockInv, RollbackTransaction
    <2>3. QED
      BY <1>0, <2>1, <2>2, EndTypes DEF TxInv, TypeOK, NoSnapshot
  <1>2. ConnInv'
    BY <1>0, EndKeepsConns DEF TxInv, RollbackTransaction
  <1>3. LockInv'
    BY <1>0, EndKeepsLocks DEF TxInv, RollbackTransaction
  <1>4. Leaves(c)
    BY <1>0, ClientAssumption DEF Leaves, TxInv, TypeOK, ConnInv, RollbackTransaction, SetPhase, EndTransaction, EndSQLiteTransaction, Conn, Conns, InMemory, connVars
  <1>5. PhaseInv' /\ UserInv' /\ ReadInv'
    BY <1>0, <1>4, LeavingKeeps DEF RollbackTransaction
  <1>6. QED
    BY <1>1, <1>2, <1>3, <1>5 DEF TxInv

(* The one writer makes the next version, and no other reader pins the old  *)
(* one in a rollback journal.                                               *)
LEMMA CommitSucceedsKeeps ==
  ASSUME NEW c \in Clients, TxInv, UNCHANGED database, CommitSucceeds(c)
  PROVE  TxInv'
  <1>0. Conn(c) \in Conns /\ Ends(Conn(c))
    BY DEF CommitSucceeds, Ends, Conn, Conns
  <1>1. TypeOK'
    <2>1. /\ phase' \in [Clients -> Phases]
          /\ autocommit' \in [Clients -> BOOLEAN] /\ modifies' \in [Clients -> BOOLEAN]
          /\ ownScan' \in [Clients -> BOOLEAN] /\ reads' \in [Clients -> SUBSET (0..MaxVersion)]
      BY DEF TxInv, TypeOK, CommitSucceeds, SetPhase, Phases
    <2>2. database' \in Databases /\ version' \in 0..MaxVersion /\ active_in_memory' \in BOOLEAN /\ orphaned' \in BOOLEAN
      BY <1>0, VersionAssumption DEF TxInv, TypeOK, LockInv, CommitSucceeds
    <2>3. QED
      BY <1>0, <2>1, <2>2, EndTypes DEF TxInv, TypeOK, NoSnapshot
  <1>2. ConnInv'
    BY <1>0, EndKeepsConns DEF TxInv, CommitSucceeds
  <1>3. LockInv'
    BY ClientAssumption, VersionAssumption
       DEF TxInv, TypeOK, Conns, NoSnapshot, Conn, InMemory, Wal, CommitSucceeds, MayCommit,
           EndSQLiteTransaction, ConnInv, Idle, LockInv
  <1>4. Leaves(c)
    BY <1>0, ClientAssumption DEF Leaves, TxInv, TypeOK, ConnInv, CommitSucceeds, SetPhase, EndSQLiteTransaction, Conn, Conns, InMemory, connVars
  <1>5. PhaseInv' /\ UserInv' /\ ReadInv'
    BY <1>0, <1>4, LeavingKeeps DEF CommitSucceeds
  <1>6. QED
    BY <1>1, <1>2, <1>3, <1>5 DEF TxInv

(* A COMMIT that fails leaves the SQLite transaction open, or SQLite has    *)
(* ended it.                                                                *)
LEMMA CommitFailsKeeps ==
  ASSUME NEW c \in Clients, TxInv, UNCHANGED database, CommitFails(c)
  PROVE  TxInv'
  <1>0. Conn(c) \in Conns /\ Ends(Conn(c))
    BY DEF CommitFails, Ends, Conn, Conns
  <1>1. TypeOK'
    <2>1. /\ phase' \in [Clients -> Phases]
          /\ autocommit' \in [Clients -> BOOLEAN] /\ modifies' \in [Clients -> BOOLEAN]
          /\ ownScan' \in [Clients -> BOOLEAN] /\ reads' \in [Clients -> SUBSET (0..MaxVersion)]
      BY DEF TxInv, TypeOK, CommitFails, SetPhase, Phases
    <2>2. database' \in Databases /\ version' \in 0..MaxVersion /\ active_in_memory' \in BOOLEAN /\ orphaned' \in BOOLEAN
      BY DEF TxInv, TypeOK, LockInv, CommitFails
    <2>3. QED
      BY <1>0, <2>1, <2>2, EndTypes DEF TxInv, TypeOK, NoSnapshot
  <1>2. ConnInv'
    BY <1>0, EndKeepsConns DEF TxInv, CommitFails
  <1>3. LockInv'
    BY <1>0, EndKeepsLocks DEF TxInv, CommitFails
  <1>4. Leaves(c)
    BY <1>0, ClientAssumption DEF Leaves, TxInv, TypeOK, ConnInv, CommitFails, SetPhase, EndSQLiteTransaction, Conn, Conns, InMemory, connVars
  <1>5. PhaseInv' /\ UserInv' /\ ReadInv'
    BY <1>0, <1>4, LeavingKeeps DEF CommitFails
  <1>6. QED
    BY <1>1, <1>2, <1>3, <1>5 DEF TxInv

(* The rollback after a failed COMMIT gives the locks up.                   *)
LEMMA RollbackFailedCommitKeeps ==
  ASSUME NEW c \in Clients, TxInv, UNCHANGED database, RollbackFailedCommit(c)
  PROVE  TxInv'
  <1>0. Conn(c) \in Conns /\ Ends(Conn(c))
    BY DEF RollbackFailedCommit, Ends, Conn, Conns
  <1>1. TypeOK'
    <2>1. /\ phase' \in [Clients -> Phases]
          /\ autocommit' \in [Clients -> BOOLEAN] /\ modifies' \in [Clients -> BOOLEAN]
          /\ ownScan' \in [Clients -> BOOLEAN] /\ reads' \in [Clients -> SUBSET (0..MaxVersion)]
      BY DEF TxInv, TypeOK, RollbackFailedCommit, SetPhase, Phases
    <2>2. database' \in Databases /\ version' \in 0..MaxVersion /\ active_in_memory' \in BOOLEAN /\ orphaned' \in BOOLEAN
      BY DEF TxInv, TypeOK, LockInv, RollbackFailedCommit
    <2>3. QED
      BY <1>0, <2>1, <2>2, EndTypes DEF TxInv, TypeOK, NoSnapshot
  <1>2. ConnInv'
    BY <1>0, EndKeepsConns DEF TxInv, RollbackFailedCommit
  <1>3. LockInv'
    BY <1>0, EndKeepsLocks DEF TxInv, RollbackFailedCommit
  <1>4. Leaves(c)
    BY <1>0, ClientAssumption DEF Leaves, TxInv, TypeOK, ConnInv, RollbackFailedCommit, SetPhase, EndSQLiteTransaction, Conn, Conns, InMemory, connVars
  <1>5. PhaseInv' /\ UserInv' /\ ReadInv'
    BY <1>0, <1>4, LeavingKeeps DEF RollbackFailedCommit
  <1>6. QED
    BY <1>1, <1>2, <1>3, <1>5 DEF TxInv

(* The connection is closed, or goes back to the in-memory database.        *)
LEMMA ExtractAndCloseKeeps ==
  ASSUME NEW c \in Clients, TxInv, UNCHANGED database, ExtractAndClose(c)
  PROVE  TxInv'
  <1>0. Conn(c) \in Conns /\ Ends(Conn(c))
    BY DEF ExtractAndClose, Ends, Conn, Conns
  <1>1. TypeOK'
    <2>1. /\ phase' \in [Clients -> Phases]
          /\ autocommit' \in [Clients -> BOOLEAN] /\ modifies' \in [Clients -> BOOLEAN]
          /\ ownScan' \in [Clients -> BOOLEAN] /\ reads' \in [Clients -> SUBSET (0..MaxVersion)]
      BY DEF TxInv, TypeOK, ExtractAndClose, SetPhase, EndTransaction, Phases
    <2>2. database' \in Databases /\ version' \in 0..MaxVersion /\ active_in_memory' \in BOOLEAN /\ orphaned' \in BOOLEAN
      BY DEF TxInv, TypeOK, LockInv, ExtractAndClose
    <2>3. QED
      BY <1>0, <2>1, <2>2, EndTypes DEF TxInv, TypeOK, NoSnapshot
  <1>2. ConnInv'
    BY <1>0, EndKeepsConns DEF TxInv, ExtractAndClose
  <1>3. LockInv'
    BY <1>0, EndKeepsLocks DEF TxInv, ExtractAndClose
  <1>4. Leaves(c)
    BY <1>0, ClientAssumption DEF Leaves, TxInv, TypeOK, ConnInv, ExtractAndClose, SetPhase, EndTransaction, EndSQLiteTransaction, Conn, Conns, InMemory, connVars
  <1>5. PhaseInv' /\ UserInv' /\ ReadInv'
    BY <1>0, <1>4, LeavingKeeps DEF ExtractAndClose, EndTransaction, SetPhase, TxInv, TypeOK
  <1>6. QED
    BY <1>1, <1>2, <1>3, <1>5 DEF TxInv

(* Every step of every client keeps the invariant.                          *)
LEMMA TxInductive == TxInv /\ [Next]_vars => TxInv'
  <1>1. ASSUME TxInv, UNCHANGED vars
        PROVE  TxInv'
    <2> USE <1>1 DEF vars, duckVars, connVars, TxInv, Conn, InMemory, Wal
    <2>1. TypeOK'
      BY DEF TypeOK
    <2>2. ConnInv'
      BY DEF ConnInv, Idle
    <2>3. LockInv'
      BY DEF LockInv
    <2>4. PhaseInv'
      BY DEF PhaseInv
    <2>5. UserInv'
      BY DEF UserInv
    <2>6. ReadInv'
      BY DEF ReadInv
    <2>7. QED
      BY <2>1, <2>2, <2>3, <2>4, <2>5, <2>6
  <1>2. ASSUME TxInv, UNCHANGED database, NEW c \in Clients, ClientStep(c)
        PROVE  TxInv'
    BY <1>2, StartTransactionKeeps, BindKeeps, BindFailsKeeps, ScanSliceKeeps, ScanSliceFailsKeeps,
       WriteKeeps, WriteFailsKeeps, CommitKeeps, RollbackTransactionKeeps, CommitSucceedsKeeps,
       CommitFailsKeeps, RollbackFailedCommitKeeps, ExtractAndCloseKeeps
       DEF ClientStep, EndStep
  <1>3. QED
    BY <1>1, <1>2 DEF Next

(* It holds in every state of every behaviour.                              *)
LEMMA TxInvariant == Spec => []TxInv
  BY TxStart, TxInductive, PTL DEF Spec

(* Whatever ends a transaction, a COMMIT that fails or an error that made   *)
(* SQLite roll back included, nothing stays open or locked behind it, for   *)
(* any number of clients, commits and kinds of database.                    *)
THEOREM NothingHeldAfterEnd == Spec => []EndedTransactionsHoldNothing
  <1>1. TxInv => EndedTransactionsHoldNothing
    BY ClientAssumption DEF TxInv, TypeOK, ConnInv, Idle, PhaseInv, UserInv, EndedTransactionsHoldNothing,
                            Conns, Conn, InMemory
  <1>2. QED
    BY <1>1, TxInvariant, PTL

(* Every transaction with a rollback journal, and every explicit one in WAL *)
(* mode, reads a single version through all its connections.                *)
THEOREM OneVersionRead == Spec => []ReadsOneVersion
  <1>1. ASSUME TxInv, NEW c \in Clients, Wal => ~autocommit[c]
        PROVE  Cardinality(reads[c]) <= 1
    <2>1. \A x, y \in reads[c] : x = y
      BY <1>1 DEF TxInv, ReadInv
    <2>2. CASE reads[c] = {}
      BY <2>2, FS_EmptySet
    <2>3. CASE reads[c] # {}
      <3>1. PICK x \in reads[c] : TRUE
        BY <2>3
      <3>2. reads[c] = {x}
        BY <2>1, <3>1
      <3>3. Cardinality({x}) = 1
        BY FS_Singleton, Zenon
      <3>4. QED
        BY <3>2, <3>3
    <2>4. QED
      BY <2>2, <2>3
  <1>2. TxInv => ReadsOneVersion
    BY <1>1 DEF ReadsOneVersion
  <1>3. QED
    BY <1>2, TxInvariant, PTL

(* A COMMIT that changes the database applies its changes to the version    *)
(* that all the reads of its transaction have seen.                         *)
THEOREM CommitsWhatWasRead == Spec => NoLostUpdate
  <1> DEFINE Lossless ==
        \A c \in Clients :
          (phase[c] = "committing" /\ dirty[Conn(c)] /\ version' # version /\ phase'[c] = "closing")
              => reads[c] \subseteq {version}
  <1>1. ASSUME TxInv, NEW c \in Clients, phase[c] = "committing", dirty[Conn(c)], NEW x \in reads[c]
        PROVE  x = version
    <2>1. Conn(c) \in Conns
      BY DEF Conn, Conns
    <2>2. snap[Conn(c)] = version /\ snap[Conn(c)] <= x /\ x <= version
      BY <1>1, <2>1 DEF TxInv, LockInv, ReadInv
    <2>3. x \in Nat /\ version \in Nat
      BY <1>1, VersionAssumption DEF TxInv, TypeOK
    <2>4. QED
      BY <2>2, <2>3
  <1>2. TxInv => Lossless
    BY <1>1
  <1>3. TxInv /\ [Next]_vars => [Lossless]_vars
    BY <1>2
  <1>4. QED
    BY <1>3, TxInvariant, PTL DEF Spec, NoLostUpdate

-----------------------------------------------------------------------------
(* The in-memory database, when no statement makes SQLite roll back by      *)
(* itself: an invalid transaction is then still open in SQLite, so that its *)
(* ROLLBACK succeeds and gives the database back.                           *)
NoAutoRollback == \A d \in Databases : d.in_memory => ~d.auto_rollback

MemInv ==
    InMemory =>
        /\ \A c \in Clients : phase[c] = "invalid" => sqTx[Mem]
        /\ active_in_memory => \E c \in Clients : phase[c] # "none"

(* Every step keeps the in-memory database with its one user, where SQLite  *)
(* does not roll back by itself.                                            *)
LEMMA MemInductive ==
  ASSUME NoAutoRollback, TxInv, MemInv, [Next]_vars
  PROVE  MemInv'
  <1> USE ClientAssumption DEF MemInv, InMemory
  <1>1. CASE UNCHANGED vars
    BY <1>1 DEF vars, duckVars, connVars
  <1>2. ASSUME UNCHANGED database, NEW c \in Clients, ClientStep(c), InMemory
        PROVE  MemInv'
    <2> USE <1>2 DEF Conn, SetPhase, EndTransaction, connVars
    <2>0. /\ phase \in [Clients -> Phases] /\ sqTx \in [Conns -> BOOLEAN] /\ Mem \in Conns
          /\ ~AutoRollback /\ \A d \in Clients : phase[d] # "none" => active_in_memory
          /\ \A b, d \in Clients : phase[b] # "none" /\ phase[d] # "none" => b = d
          /\ phase[c] \in {"active", "committing"} => sqTx[Mem]
      BY DEF NoAutoRollback, AutoRollback, TxInv, TypeOK, UserInv, PhaseInv, Conns
    <2>1. CASE StartTransaction(c)
      BY <2>0, <2>1 DEF StartTransaction, Start
    <2>2. CASE Bind(c) \/ ScanSlice(c) \/ Write(c)
      BY <2>0, <2>2 DEF Bind, ScanSlice, Write
    <2>3. CASE BindFails(c) \/ ScanSliceFails(c)
      BY <2>0, <2>3 DEF BindFails, ScanSliceFails
    <2>4. CASE WriteFails(c)
      BY <2>0, <2>4 DEF WriteFails
    <2>5. CASE Commit(c)
      BY <2>0, <2>5 DEF Commit
    <2>6. CASE RollbackTransaction(c)
      BY <2>0, <2>6 DEF RollbackTransaction
    <2>7. CASE CommitSucceeds(c) \/ CommitFails(c) \/ RollbackFailedCommit(c)
      BY <2>0, <2>7 DEF CommitSucceeds, CommitFails, RollbackFailedCommit
    <2>8. CASE ExtractAndClose(c)
      BY <2>0, <2>8 DEF ExtractAndClose
    <2>9. QED
      BY <2>1, <2>2, <2>3, <2>4, <2>5, <2>6, <2>7, <2>8 DEF ClientStep, EndStep
  <1>3. QED
    BY <1>1, <1>2 DEF Next

(* One transaction at a time has the connection of an in-memory database,   *)
(* and the flag is set exactly while there is one, as long as no statement  *)
(* can make SQLite roll back by itself (a run shows that the flag stays set *)
(* where one can).                                                          *)
THEOREM OneInMemoryTransaction ==
  ASSUME NoAutoRollback
  PROVE  Spec => []InMemoryExclusive
  <1>1. Init => MemInv
    BY DEF Init, MemInv
  <1>2. TxInv /\ MemInv /\ [Next]_vars => MemInv'
    BY MemInductive
  <1>3. TxInv /\ MemInv => InMemoryExclusive
    BY DEF TxInv, TypeOK, UserInv, MemInv, InMemoryExclusive
  <1>4. QED
    BY <1>1, <1>2, <1>3, TxInvariant, PTL DEF Spec
=============================================================================
