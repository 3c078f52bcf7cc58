---------------------------- MODULE VFSRegistry -----------------------------
(***************************************************************************)
(* The lifetime of the per-connection VFS of sqlite_duckdb_vfs_cache.cpp.  *)
(*                                                                         *)
(* A DuckDB connection (ClientContext) that opens a remote database        *)
(* registers one VFS wrapper, which all the SQLite connections its         *)
(* parallel scans open share.  Every step taken under registry_mutex is    *)
(* one action; what sqlite3_open_v2 does between two of them is not        *)
(* protected, so the steps of different threads interleave there.          *)
(***************************************************************************)
EXTENDS Naturals, FiniteSets

CONSTANTS
    Contexts,   \* addresses of ClientContexts
    Openers,    \* the threads that open a SQLite connection
    CtxOf,      \* the context each of them works for
    Wrappers,   \* DuckDBVFSWrapper objects
    None        \* nullptr

ASSUME OpenersAssumption == IsFiniteSet(Openers)
ASSUME CtxAssumption == CtxOf \in [Openers -> Contexts]
ASSUME NoneAssumption == None \notin Wrappers /\ None \notin Openers

VARIABLES
    ctxOpen,              \* the contexts that are open
    registry,             \* VFSRegistryData::registry
    retired,              \* VFSRegistryData::retired
    heap,                 \* the wrappers whose memory is allocated
    vfsList,              \* the wrappers in SQLite's table of VFS names
    open_file_count,
    pending_unregister,
    last_error,           \* whose failure last_error_message describes
    pc,                   \* how far each thread is
    wrapper,              \* the wrapper each thread or its sqlite3_file points to
    reported              \* whose failure the error of the open was reported with

registryVars == <<registry, retired, heap, vfsList>>
countVars == <<open_file_count, pending_unregister>>
vars == <<ctxOpen, registryVars, countVars, last_error, pc, wrapper, reported>>

-----------------------------------------------------------------------------
\* The places at which a thread's sqlite3_file holds a reference count ...
Holding == {"reserved", "probing", "failing", "connected", "closing"}

\* ... or at which its next step reads the wrapper.
Pointing == Holding \cup {"resolved"}

\* The places between the start of OpenWithVFS and its return.
Opening == {"registered", "cleared", "named", "resolved", "reserved", "probing", "failing", "failed"}

Handles(w) == {o \in Openers : wrapper[o] = w /\ pc[o] \in Holding}

Init ==
    /\ ctxOpen = Contexts
    /\ registry = [c \in Contexts |-> None]
    /\ retired = {}
    /\ heap = {}
    /\ vfsList = {}
    /\ open_file_count = [w \in Wrappers |-> 0]
    /\ pending_unregister = [w \in Wrappers |-> FALSE]
    /\ last_error = [w \in Wrappers |-> None]
    /\ pc = [o \in Openers |-> "idle"]
    /\ wrapper = [o \in Openers |-> None]
    /\ reported = [o \in Openers |-> None]

Goto(o, place) == pc' = [pc EXCEPT ![o] = place]

-----------------------------------------------------------------------------
\* Faulty variant: nothing is reaped when connections come and go.
ReapNothing == {}

\* ReapIdleRetiredWrappers: the wrappers it frees.
Reapable == {w \in retired : open_file_count[w] = 0}

(***************************************************************************)
(* Register: reap, and create the wrapper of the context unless it has     *)
(* one.  A new wrapper is one that nothing points to.                      *)
(***************************************************************************)
Register(o) ==
    /\ pc[o] = "idle"
    /\ CtxOf[o] \in ctxOpen
    /\ Goto(o, "registered")
    /\ retired' = retired \ Reapable
    /\ \/ /\ registry[CtxOf[o]] # None
          /\ heap' = heap \ Reapable
          /\ UNCHANGED <<registry, vfsList, countVars, last_error>>
       \/ /\ registry[CtxOf[o]] = None
          /\ \E w \in Wrappers \ heap :
               /\ \A p \in Openers : wrapper[p] # w
               /\ heap' = (heap \ Reapable) \cup {w}
               /\ registry' = [registry EXCEPT ![CtxOf[o]] = w]
               /\ vfsList' = vfsList \cup {w}
               /\ open_file_count' = [open_file_count EXCEPT ![w] = 0]
               /\ pending_unregister' = [pending_unregister EXCEPT ![w] = FALSE]
               /\ last_error' = [last_error EXCEPT ![w] = None]
    /\ reported' = [reported EXCEPT ![o] = None]
    /\ UNCHANGED <<ctxOpen, wrapper>>

\* Register: the name cannot be allocated or sqlite3_vfs_register fails, and the
\* new wrapper is destroyed again.
RegisterFails(o) ==
    /\ pc[o] = "idle"
    /\ CtxOf[o] \in ctxOpen
    /\ registry[CtxOf[o]] = None
    /\ retired' = retired \ Reapable
    /\ heap' = heap \ Reapable
    /\ UNCHANGED <<ctxOpen, registry, vfsList, countVars, last_error, pc, wrapper, reported>>

\* ClearLastErrorForContext
ClearLastErrorForContext(o) ==
    /\ pc[o] = "registered"
    /\ Goto(o, "cleared")
    /\ last_error' = [last_error EXCEPT ![registry[CtxOf[o]]] = None]
    /\ UNCHANGED <<ctxOpen, registryVars, countVars, wrapper, reported>>

\* GetVFSNameForContext: the copied name stands for the wrapper it belongs to.
GetVFSNameForContext(o) ==
    /\ pc[o] = "cleared"
    /\ registry[CtxOf[o]] # None
    /\ Goto(o, "named")
    /\ wrapper' = [wrapper EXCEPT ![o] = registry[CtxOf[o]]]
    /\ UNCHANGED <<ctxOpen, registryVars, countVars, last_error, reported>>

\* sqlite3_open_v2 finds the sqlite3_vfs of the name.
ResolveVFS(o) ==
    /\ pc[o] = "named"
    /\ wrapper[o] \in vfsList
    /\ Goto(o, "resolved")
    /\ UNCHANGED <<ctxOpen, registryVars, countVars, last_error, wrapper, reported>>

-----------------------------------------------------------------------------
\* Open: the reference count is taken before io_methods is published.
OpenReserve(o) ==
    /\ pc[o] = "resolved"
    /\ Goto(o, "reserved")
    /\ open_file_count' = [open_file_count EXCEPT ![wrapper[o]] = @ + 1]
    /\ UNCHANGED <<ctxOpen, registryVars, pending_unregister, last_error, wrapper, reported>>

\* Open: the sqlite3_file is published, SQLite goes on to read the file header.
OpenPublish(o) ==
    /\ pc[o] = "reserved"
    /\ Goto(o, "probing")
    /\ UNCHANGED <<ctxOpen, registryVars, countVars, last_error, wrapper, reported>>

\* Faulty variant: the last handle leaves a retired wrapper to the next reap.
ReleaseWithoutReap(w) ==
    /\ open_file_count' = [open_file_count EXCEPT ![w] = @ - 1]
    /\ UNCHANGED <<retired, heap>>

\* Faulty variant: the count stays when the handle is gone.
ReleaseNothing(w) == UNCHANGED <<open_file_count, retired, heap>>

\* ReleaseWrapperHandle: the last handle of a retired wrapper frees it.
ReleaseWrapperHandle(w) ==
    /\ open_file_count' = [open_file_count EXCEPT ![w] = @ - 1]
    /\ IF open_file_count[w] = 1 /\ pending_unregister[w]
       THEN /\ retired' = retired \ {w}
            /\ heap' = heap \ {w}
       ELSE UNCHANGED <<retired, heap>>

DropHandle(o, place) ==
    /\ Goto(o, place)
    /\ ReleaseWrapperHandle(wrapper[o])
    /\ wrapper' = [wrapper EXCEPT ![o] = None]
    /\ UNCHANGED <<ctxOpen, registry, vfsList, pending_unregister, last_error, reported>>

\* Open: the DuckDBCachedFile cannot be constructed.
OpenConstructFails(o) ==
    /\ pc[o] = "reserved"
    /\ DropHandle(o, "failed")

\* The first read of the file succeeds and sqlite3_open_v2 returns.
OpenSucceeds(o) ==
    /\ pc[o] = "probing"
    /\ Goto(o, "connected")
    /\ UNCHANGED <<ctxOpen, registryVars, countVars, last_error, wrapper, reported>>

\* Faulty variant: one message for all wrappers.
RecordErrorGlobally(o) == last_error' = [w \in Wrappers |-> o]

\* Read through SafeVFSCall: the exception is recorded in the wrapper.
RecordError(o) == last_error' = [last_error EXCEPT ![wrapper[o]] = o]

\* The first read of the file fails: sqlite3_open_v2 closes the file and fails.
OpenReadFails(o) ==
    /\ pc[o] = "probing"
    /\ Goto(o, "failing")
    /\ RecordError(o)
    /\ UNCHANGED <<ctxOpen, registryVars, countVars, wrapper, reported>>

CloseAfterFailure(o) ==
    /\ pc[o] = "failing"
    /\ DropHandle(o, "failed")

\* HandleOpenError: the message of the context's wrapper is added to the error.
HandleOpenError(o) ==
    /\ pc[o] = "failed"
    /\ Goto(o, "idle")
    /\ reported' = [reported EXCEPT ![o] = last_error[registry[CtxOf[o]]]]
    /\ UNCHANGED <<ctxOpen, registryVars, countVars, last_error, wrapper>>

-----------------------------------------------------------------------------
\* A read of an open connection fails.
ReadFails(o) ==
    /\ pc[o] = "connected"
    /\ RecordError(o)
    /\ UNCHANGED <<ctxOpen, registryVars, countVars, pc, wrapper, reported>>

\* Close: SQLite calls io_methods->xClose, which deletes the DuckDBCachedFile ...
CloseFile(o) ==
    /\ pc[o] = "connected"
    /\ Goto(o, "closing")
    /\ UNCHANGED <<ctxOpen, registryVars, countVars, last_error, wrapper, reported>>

\* ... and releases the handle.
CloseRelease(o) ==
    /\ pc[o] = "closing"
    /\ DropHandle(o, "idle")

-----------------------------------------------------------------------------
\* Faulty variant: a wrapper is freed with its connection.
UnregisterFrees(c) ==
    /\ retired' = retired \ Reapable
    /\ heap' = (heap \ Reapable) \ {registry[c]}
    /\ vfsList' = vfsList \ {registry[c]}
    /\ registry' = [registry EXCEPT ![c] = None]
    /\ UNCHANGED pending_unregister

\* Faulty variant: the name stays known to SQLite.
UnregisterKeepsName(c) ==
    /\ heap' = heap \ Reapable
    /\ retired' = (retired \ Reapable) \cup ({registry[c]} \ {None})
    /\ pending_unregister' =
           [w \in Wrappers |-> pending_unregister[w] \/ w = registry[c]]
    /\ registry' = [registry EXCEPT ![c] = None]
    /\ UNCHANGED vfsList

\* Unregister: reap the wrappers of earlier teardowns, and retire this one.
Unregister(c) ==
    /\ heap' = heap \ Reapable
    /\ retired' = (retired \ Reapable) \cup ({registry[c]} \ {None})
    /\ vfsList' = vfsList \ {registry[c]}
    /\ pending_unregister' =
           [w \in Wrappers |-> pending_unregister[w] \/ w = registry[c]]
    /\ registry' = [registry EXCEPT ![c] = None]

(***************************************************************************)
(* SQLiteVFSCleanupCallback::OnConnectionClosed.  DuckDB calls it when the *)
(* context is quiescent: none of its opens is in flight, though a          *)
(* connection it opened may still be closed later.                         *)
(***************************************************************************)
OnConnectionClosed(c) ==
    /\ c \in ctxOpen
    /\ \A o \in Openers : CtxOf[o] = c => pc[o] \notin Opening
    /\ ctxOpen' = ctxOpen \ {c}
    /\ Unregister(c)
    /\ UNCHANGED <<open_file_count, last_error, pc, wrapper, reported>>

\* A new context at an address no SQLite connection refers to any more.
NewContext(c) ==
    /\ c \notin ctxOpen
    /\ \A o \in Openers : CtxOf[o] = c => pc[o] = "idle"
    /\ ctxOpen' = ctxOpen \cup {c}
    /\ UNCHANGED <<registryVars, countVars, last_error, pc, wrapper, reported>>

OpenerStep(o) ==
    \/ Register(o) \/ RegisterFails(o)
    \/ ClearLastErrorForContext(o) \/ GetVFSNameForContext(o) \/ ResolveVFS(o)
    \/ OpenReserve(o) \/ OpenPublish(o) \/ OpenConstructFails(o)
    \/ OpenSucceeds(o) \/ OpenReadFails(o) \/ CloseAfterFailure(o) \/ HandleOpenError(o)
    \/ ReadFails(o) \/ CloseFile(o) \/ CloseRelease(o)

Next ==
    \/ \E o \in Openers : OpenerStep(o)
    \/ \E c \in Contexts : OnConnectionClosed(c) \/ NewContext(c)

Spec == Init /\ [][Next]_vars

\* Whoever holds a connection closes it some day: a scan ends, a transaction
\* commits or rolls back, and a context that is destroyed does both.
Fairness == \A o \in Openers : WF_vars(CloseFile(o)) /\ WF_vars(CloseRelease(o))

-----------------------------------------------------------------------------
\* The types of the registry, the wrappers and the connections; counts never go below zero.
TypeOK ==
    /\ ctxOpen \in SUBSET Contexts
    /\ registry \in [Contexts -> Wrappers \cup {None}]
    /\ retired \in SUBSET Wrappers
    /\ heap \in SUBSET Wrappers
    /\ vfsList \in SUBSET Wrappers
    /\ open_file_count \in [Wrappers -> Nat]
    /\ pending_unregister \in [Wrappers -> BOOLEAN]
    /\ last_error \in [Wrappers -> Openers \cup {None}]
    /\ pc \in [Openers -> {"idle"} \cup Opening \cup Holding]
    /\ wrapper \in [Openers -> Wrappers \cup {None}]
    /\ reported \in [Openers -> Openers \cup {None}]

(***************************************************************************)
(* A thread inside xOpen, xRead or xClose never uses the memory of a       *)
(* wrapper that Unregister, ReapIdleRetiredWrappers or another handle's    *)
(* Close has freed: "A closing handle therefore never dereferences freed   *)
(* io_methods" (Concurrency Design).                                       *)
(***************************************************************************)
NoUseAfterFree ==
    \A o \in Openers : pc[o] \in Pointing => wrapper[o] \in heap

(***************************************************************************)
(* open_file_count is the number of sqlite3_files that use the wrapper,    *)
(* on every path through Open, a failed Open and Close: the D_ASSERT of    *)
(* ReleaseWrapperHandle holds, and no count is leaked.  (And the types.)   *)
(***************************************************************************)
CountMatchesHandles ==
    /\ TypeOK
    /\ \A w \in heap : open_file_count[w] = Cardinality(Handles(w))

(***************************************************************************)
(* SQLite's table of VFS names holds exactly the wrappers of open          *)
(* contexts, each at its own context, and all other allocated wrappers are *)
(* retired: no name leads to freed memory and no wrapper is lost.          *)
(* Connections that come and go do not pile up wrappers: at most one       *)
(* retired wrapper waits, without handles, for the next reap.              *)
(***************************************************************************)
NameTableValid ==
    /\ vfsList = {registry[c] : c \in Contexts} \ {None}
    /\ vfsList \cup retired = heap
    /\ vfsList \cap retired = {}
    /\ \A c \in Contexts : registry[c] # None => c \in ctxOpen
    /\ \A c, d \in Contexts : registry[c] = registry[d] => c = d \/ registry[c] = None
    /\ \A v, w \in retired : open_file_count[v] = 0 /\ open_file_count[w] = 0 => v = w

(***************************************************************************)
(* A wrapper that is retired while connections still use it is freed by    *)
(* the last of their Close calls, without waiting for another connection   *)
(* to open or close.                                                       *)
(***************************************************************************)
RetiredIsReleased ==
    \A w \in Wrappers : (w \in retired /\ open_file_count[w] > 0) ~> w \notin retired

(***************************************************************************)
(* The error of a failed open is that of a read of the same connection,    *)
(* never one of another connection, whose wrapper may have been at the     *)
(* same address.  (It can be that of another thread's read.)               *)
(***************************************************************************)
ErrorOfConnection ==
    \A o \in Openers : reported[o] # None => CtxOf[reported[o]] = CtxOf[o]
=============================================================================
