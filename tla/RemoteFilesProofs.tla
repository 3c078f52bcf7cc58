------------------------- MODULE RemoteFilesProofs --------------------------
(***************************************************************************)
(* Proofs about the remote VFS, for any number of connections, threads and *)
(* wrappers (VFSRegistry) and any size of file and number of transactions  *)
(* of its writer (RemoteFile).                                             *)
(***************************************************************************)
EXTENDS VFSRegistry, RemoteFile, FiniteSetTheorems, TLAPS

-----------------------------------------------------------------------------
(* VFSRegistry.                                                            *)

(* A wrapper is retired exactly by the teardown that sets its flag.         *)
Flags ==
    /\ \A w \in retired : pending_unregister[w]
    /\ \A w \in vfsList : ~pending_unregister[w]

Counts == \A w \in heap : open_file_count[w] = Cardinality(Handles(w))

(* An open in flight keeps its context, hence its wrapper, registered; a    *)
(* thread points to a wrapper of its own context.                           *)
Places ==
    \A o \in Openers :
        /\ pc[o] \in {"idle", "registered", "cleared", "failed"} => wrapper[o] = None
        /\ pc[o] \in Opening => CtxOf[o] \in ctxOpen /\ registry[CtxOf[o]] # None
        /\ pc[o] \in Opening /\ wrapper[o] # None => wrapper[o] = registry[CtxOf[o]]
        /\ pc[o] \in Pointing \cup {"named"} => wrapper[o] \in heap
        /\ \A c \in Contexts : registry[c] # None /\ wrapper[o] = registry[c] => c = CtxOf[o]

(* The message of a registered wrapper is about its context.                *)
Messages ==
    \A c \in Contexts :
        registry[c] # None /\ last_error[registry[c]] # None => CtxOf[last_error[registry[c]]] = c

RegistryInv ==
    TypeOK /\ NameTableValid /\ Flags /\ Counts /\ Places /\ Messages /\ ErrorOfConnection

(* The invariant holds before the first file is opened.                     *)
LEMMA RegistryStart == Init => RegistryInv
  <1> SUFFICES ASSUME Init
               PROVE  RegistryInv
    OBVIOUS
  <1> USE NoneAssumption, CtxAssumption DEF Init
  <1>0. 0 \in Nat
    OBVIOUS
  <1>1. TypeOK
    BY <1>0, Zenon DEF TypeOK
  <1>2. NameTableValid
    BY DEF NameTableValid
  <1>3. Flags /\ Counts
    BY DEF Flags, Counts
  <1>4. Places /\ Messages /\ ErrorOfConnection
    BY DEF Places, Messages, ErrorOfConnection, Opening, Pointing, Holding
  <1>5. QED
    BY <1>1, <1>2, <1>3, <1>4 DEF RegistryInv

\* The handles of a wrapper can be counted; a count of zero means that there are none.
LEMMA HandlesFinite == \A w : IsFiniteSet(Handles(w)) /\ Cardinality(Handles(w)) \in Nat
  <1> SUFFICES ASSUME NEW w
               PROVE  IsFiniteSet(Handles(w)) /\ Cardinality(Handles(w)) \in Nat
    OBVIOUS
  <1>1. Handles(w) \subseteq Openers
    BY DEF Handles
  <1>2. IsFiniteSet(Handles(w))
    BY <1>1, OpenersAssumption, FS_Subset
  <1>3. QED
    BY <1>2, FS_CardinalityType

(* An opener that has a handle is counted in its wrapper.                   *)
LEMMA HandleCounts ==
  ASSUME RegistryInv, NEW o \in Openers, pc[o] \in Holding
  PROVE  open_file_count[wrapper[o]] \in Nat \ {0}
  <1>1. o \in Handles(wrapper[o])
    BY DEF Handles
  <1>2. Cardinality(Handles(wrapper[o])) # 0
    BY <1>1, HandlesFinite, FS_EmptySet
  <1>3. wrapper[o] \in heap
    BY DEF RegistryInv, Places, Pointing
  <1>4. QED
    BY <1>2, <1>3, HandlesFinite DEF RegistryInv, Counts

\* No thread points to a wrapper that would be reaped.
LEMMA PointedIsKept ==
  ASSUME RegistryInv, NEW o \in Openers, pc[o] \in Pointing \cup {"named"}
  PROVE  wrapper[o] \in heap \ Reapable
  <1>1. wrapper[o] \in heap
    BY DEF RegistryInv, Places
  <1>2. CASE pc[o] \in Holding
    BY <1>1, <1>2, HandleCounts DEF Reapable
  <1>3. CASE pc[o] \in {"named", "resolved"}
    <2>1. wrapper[o] = registry[CtxOf[o]] /\ wrapper[o] # None /\ CtxOf[o] \in Contexts
      BY <1>1, <1>3, CtxAssumption, NoneAssumption DEF RegistryInv, TypeOK, Places, Opening
    <2>2. wrapper[o] \in vfsList
      BY <2>1 DEF RegistryInv, NameTableValid
    <2>3. QED
      BY <1>1, <2>2 DEF RegistryInv, NameTableValid, Reapable
  <1>4. QED
    BY <1>2, <1>3 DEF Pointing

-----------------------------------------------------------------------------
\* Steps that neither open nor close a file, nor change the registry.
Quiet(o) ==
    \/ ClearLastErrorForContext(o) \/ GetVFSNameForContext(o) \/ ResolveVFS(o)
    \/ OpenPublish(o) \/ OpenSucceeds(o) \/ OpenReadFails(o) \/ HandleOpenError(o)
    \/ ReadFails(o) \/ CloseFile(o)

(* A step of one opener that touches neither the list nor a count keeps the *)
(* invariant.                                                               *)
LEMMA QuietKeeps ==
  ASSUME RegistryInv, NEW o \in Openers, Quiet(o)
  PROVE  RegistryInv'
  <1> USE NoneAssumption, CtxAssumption
      DEF Quiet, ClearLastErrorForContext, GetVFSNameForContext, ResolveVFS, OpenPublish, OpenSucceeds,
          OpenReadFails, HandleOpenError, ReadFails, CloseFile, Goto, RecordError, registryVars, countVars
  <1>0. /\ UNCHANGED <<ctxOpen, registry, retired, heap, vfsList, open_file_count, pending_unregister>>
        /\ CtxOf[o] \in Contexts /\ None \notin heap /\ None \notin Openers
        /\ pc[o] \in Holding => wrapper[o] \in Wrappers
        /\ pc[o] \in {"registered", "failed"} => registry[CtxOf[o]] \in Wrappers
    BY DEF RegistryInv, TypeOK, Places, Opening, Holding, Pointing
  <1>1. TypeOK'
    BY <1>0 DEF RegistryInv, TypeOK, Opening, Holding
  <1>2. NameTableValid' /\ Flags'
    BY <1>0 DEF RegistryInv, NameTableValid, Flags
  <1>3. Counts'
    <2>1. \A w \in heap : Handles(w)' = Handles(w)
      BY <1>0 DEF RegistryInv, TypeOK, Places, Handles, Holding
    <2>2. QED
      BY <1>0, <2>1 DEF RegistryInv, Counts
  <1>4. Places'
    BY <1>0 DEF RegistryInv, TypeOK, NameTableValid, Places, Opening, Pointing, Holding
  <1>5. Messages'
    BY <1>0 DEF RegistryInv, TypeOK, NameTableValid, Places, Messages, Opening, Holding
  <1>6. ErrorOfConnection'
    BY <1>0 DEF RegistryInv, TypeOK, Messages, ErrorOfConnection
  <1>7. QED
    BY <1>1, <1>2, <1>3, <1>4, <1>5, <1>6 DEF RegistryInv

(* An open adds its handle and its count in one step.                       *)
LEMMA OpenReserveKeeps ==
  ASSUME RegistryInv, NEW o \in Openers, OpenReserve(o)
  PROVE  RegistryInv'
  <1> USE NoneAssumption, CtxAssumption DEF OpenReserve, Goto, registryVars
  <1> DEFINE w == wrapper[o]
  <1>0. /\ w \in heap /\ w \in Wrappers /\ w = registry[CtxOf[o]] /\ w \in vfsList /\ w \notin retired
        /\ open_file_count[w] \in Nat /\ CtxOf[o] \in Contexts
    BY DEF RegistryInv, TypeOK, NameTableValid, Places, Opening, Pointing
  <1>1. TypeOK'
    <2>1. open_file_count' \in [Wrappers -> Nat]
      BY <1>0 DEF RegistryInv, TypeOK
    <2>2. QED
      BY <2>1 DEF RegistryInv, TypeOK, Opening, Holding
  <1>2. NameTableValid' /\ Flags'
    BY <1>0 DEF RegistryInv, TypeOK, NameTableValid, Flags
  <1>3. Counts'
    <2>1. Handles(w)' = Handles(w) \cup {o} /\ o \notin Handles(w)
      BY DEF RegistryInv, TypeOK, Handles, Holding
    <2>2. Cardinality(Handles(w)') = Cardinality(Handles(w)) + 1
      BY <2>1, HandlesFinite, FS_AddElement
    <2>3. \A v \in heap \ {w} : Handles(v)' = Handles(v)
      BY DEF RegistryInv, TypeOK, Handles, Holding
    <2>4. QED
      BY <1>0, <2>2, <2>3 DEF RegistryInv, TypeOK, Counts
  <1>4. Places'
    BY <1>0 DEF RegistryInv, TypeOK, Places, Opening, Pointing, Holding
  <1>5. Messages' /\ ErrorOfConnection'
    BY DEF RegistryInv, Messages, ErrorOfConnection
  <1>7. QED
    BY <1>1, <1>2, <1>3, <1>4, <1>5 DEF RegistryInv

\* The end of a handle: a failed Open or a Close.
LEMMA DropHandleKeeps ==
  ASSUME RegistryInv, NEW o \in Openers, pc[o] \in Holding, NEW place \in {"idle", "failed"},
         place = "failed" => pc[o] \in Opening,
         DropHandle(o, place)
  PROVE  RegistryInv'
  <1> USE NoneAssumption, CtxAssumption DEF DropHandle, Goto, ReleaseWrapperHandle
  <1> PICK w : w = wrapper[o]
    OBVIOUS
  <1> DEFINE Freed == open_file_count[w] = 1 /\ pending_unregister[w]
  <1>0. /\ w \in heap /\ w \in Wrappers /\ open_file_count[w] \in Nat \ {0} /\ CtxOf[o] \in Contexts
        /\ w \in vfsList => ~Freed
        /\ w \in retired /\ open_file_count[w] = 1 => Freed
        /\ heap' = (IF Freed THEN heap \ {w} ELSE heap)
        /\ retired' = (IF Freed THEN retired \ {w} ELSE retired)
    BY HandleCounts DEF RegistryInv, TypeOK, Flags, Places, Pointing
  <1>1. TypeOK'
    <2>1. open_file_count' \in [Wrappers -> Nat]
      BY <1>0 DEF RegistryInv, TypeOK
    <2>2. heap' \in SUBSET Wrappers /\ retired' \in SUBSET Wrappers
      BY <1>0 DEF RegistryInv, TypeOK
    <2>3. QED
      BY <2>1, <2>2 DEF RegistryInv, TypeOK, Opening, Holding
  <1>2. NameTableValid'
    <2>1. (vfsList \cup retired = heap)' /\ (vfsList \cap retired = {})'
      BY <1>0 DEF RegistryInv, NameTableValid
    <2>2. \A v \in retired' : v # w => open_file_count'[v] = open_file_count[v] /\ v \in retired
      BY <1>0 DEF RegistryInv, TypeOK
    <2>3. w \in retired' => open_file_count'[w] # 0
      BY <1>0 DEF RegistryInv, TypeOK
    <2>4. QED
      BY <2>1, <2>2, <2>3 DEF RegistryInv, NameTableValid
  <1>3. Flags'
    BY <1>0 DEF RegistryInv, Flags
  <1>4. Handles(w)' = Handles(w) \ {o} /\ o \in Handles(w)
    BY <1>0 DEF RegistryInv, TypeOK, Handles, Holding
  <1>5. Cardinality(Handles(w)') = Cardinality(Handles(w)) - 1
    <2>1. Cardinality(Handles(w) \ {o}) = Cardinality(Handles(w)) - 1
      BY <1>4, HandlesFinite, FS_RemoveElement
    <2>2. QED
      BY <1>4, <2>1
  <1>6. Counts'
    <2>1. \A v \in heap \ {w} : Handles(v)' = Handles(v)
      BY <1>0 DEF RegistryInv, TypeOK, Handles, Holding
    <2>2. QED
      BY <1>0, <1>5, <2>1 DEF RegistryInv, TypeOK, Counts
  <1>7. Places'
    <2>1. ASSUME Freed, NEW p \in Openers \ {o}, pc[p] \in Pointing \cup {"named"}
          PROVE  wrapper[p] # w
      <3>1. Cardinality(Handles(w) \ {o}) = 0
        BY <1>0, <1>4, <1>5, <2>1 DEF RegistryInv, Counts
      <3>2. Handles(w) \ {o} = {}
        BY <1>4, <3>1, HandlesFinite, FS_EmptySet, FS_RemoveElement
      <3>3. CASE pc[p] \in Holding
        BY <2>1, <3>2, <3>3 DEF Handles
      <3>4. CASE pc[p] \in {"named", "resolved"}
        BY <1>0, <2>1, <3>4 DEF RegistryInv, TypeOK, NameTableValid, Flags, Places, Opening
      <3>5. QED
        BY <2>1, <3>3, <3>4 DEF Pointing
    <2>2. QED
      BY <1>0, <2>1 DEF RegistryInv, TypeOK, Places, Opening, Pointing, Holding
  <1>8. Messages' /\ ErrorOfConnection'
    BY DEF RegistryInv, Messages, ErrorOfConnection
  <1>9. QED
    BY <1>1, <1>2, <1>3, <1>6, <1>7, <1>8 DEF RegistryInv

-----------------------------------------------------------------------------
\* Reaping alone, as a failed Register does it.
LEMMA RegisterFailsKeeps ==
  ASSUME RegistryInv, NEW o \in Openers, RegisterFails(o)
  PROVE  RegistryInv'
  <1> USE DEF RegisterFails, countVars
  <1>1. TypeOK' /\ Flags'
    BY DEF RegistryInv, TypeOK, Flags
  <1>2. NameTableValid'
    BY DEF RegistryInv, NameTableValid, Reapable
  <1>3. Counts'
    BY DEF RegistryInv, Counts, Handles
  <1>4. Places'
    BY PointedIsKept DEF RegistryInv, Places
  <1>5. Messages' /\ ErrorOfConnection'
    BY DEF RegistryInv, Messages, ErrorOfConnection
  <1>6. QED
    BY <1>1, <1>2, <1>3, <1>4, <1>5 DEF RegistryInv

(* Register frees only wrappers without handles, and a new one takes no     *)
(* address that is pointed to.                                              *)
LEMMA RegisterKeeps ==
  ASSUME RegistryInv, NEW o \in Openers, Register(o)
  PROVE  RegistryInv'
  <1> USE NoneAssumption, CtxAssumption
  <1>0. /\ CtxOf[o] \in Contexts /\ wrapper[o] = None /\ pc' = [pc EXCEPT ![o] = "registered"]
        /\ retired' = retired \ Reapable /\ reported' = [reported EXCEPT ![o] = None]
        /\ CtxOf[o] \in ctxOpen /\ UNCHANGED <<ctxOpen, wrapper>>
        /\ \A w : Handles(w)' = Handles(w)
    BY DEF Register, Goto, RegistryInv, TypeOK, Places, Handles, Holding
  <1>1. CASE registry[CtxOf[o]] # None
    <2> USE <1>0, <1>1
    <2>0. heap' = heap \ Reapable /\ UNCHANGED <<registry, vfsList, countVars, last_error>>
      BY DEF Register
    <2> USE <2>0 DEF countVars
    <2>1. TypeOK' /\ Flags'
      BY DEF RegistryInv, TypeOK, Flags, Opening
    <2>2. NameTableValid'
      BY DEF RegistryInv, NameTableValid, Reapable
    <2>3. Counts'
      BY DEF RegistryInv, Counts
    <2>4. Places'
      BY PointedIsKept DEF RegistryInv, TypeOK, Places, Opening, Pointing, Holding
    <2>5. Messages' /\ ErrorOfConnection'
      BY DEF RegistryInv, TypeOK, Messages, ErrorOfConnection
    <2>6. QED
      BY <2>1, <2>2, <2>3, <2>4, <2>5 DEF RegistryInv
  <1>2. ASSUME NEW w \in Wrappers \ heap,
               registry[CtxOf[o]] = None,
               \A p \in Openers : wrapper[p] # w,
               heap' = (heap \ Reapable) \cup {w},
               registry' = [registry EXCEPT ![CtxOf[o]] = w],
               vfsList' = vfsList \cup {w},
               open_file_count' = [open_file_count EXCEPT ![w] = 0],
               pending_unregister' = [pending_unregister EXCEPT ![w] = FALSE],
               last_error' = [last_error EXCEPT ![w] = None]
        PROVE  RegistryInv'
    <2> USE <1>0, <1>2
    <2>0. w # None /\ w \notin retired /\ w \notin vfsList /\ \A c \in Contexts : registry[c] # w
      BY DEF RegistryInv, TypeOK, NameTableValid
    <2>1. TypeOK'
      <3>1. open_file_count' \in [Wrappers -> Nat]
        BY DEF RegistryInv, TypeOK
      <3>2. heap' \in SUBSET Wrappers /\ retired' \in SUBSET Wrappers /\ vfsList' \in SUBSET Wrappers
        BY DEF RegistryInv, TypeOK
      <3>3. QED
        BY <3>1, <3>2 DEF RegistryInv, TypeOK, Opening
    <2>2. NameTableValid'
      <3>1. (vfsList = {registry[c] : c \in Contexts} \ {None})'
        BY <2>0 DEF RegistryInv, TypeOK, NameTableValid
      <3>2. (vfsList \cup retired = heap)' /\ (vfsList \cap retired = {})'
        BY <2>0 DEF RegistryInv, NameTableValid, Reapable
      <3>3. \A v \in retired' : open_file_count'[v] # 0
        BY <2>0 DEF RegistryInv, TypeOK, Reapable
      <3>4. QED
        BY <2>0, <3>1, <3>2, <3>3 DEF RegistryInv, TypeOK, NameTableValid
    <2>3. Flags'
      BY <2>0 DEF RegistryInv, TypeOK, Flags
    <2>4. Counts'
      <3>1. Handles(w) = {}
        BY DEF Handles
      <3>2. Cardinality(Handles(w)) = 0
        BY <3>1, FS_EmptySet
      <3>3. \A v \in heap \ {w} : open_file_count'[v] = open_file_count[v]
        BY DEF RegistryInv, TypeOK
      <3>4. open_file_count'[w] = 0
        BY DEF RegistryInv, TypeOK
      <3>5. QED
        BY <3>2, <3>3, <3>4 DEF RegistryInv, Counts
    <2>5. Places'
      BY <2>0, PointedIsKept DEF RegistryInv, TypeOK, Places, Opening, Pointing, Holding
    <2>6. Messages' /\ ErrorOfConnection'
      BY <2>0 DEF RegistryInv, TypeOK, Messages, ErrorOfConnection
    <2>7. QED
      BY <2>1, <2>2, <2>3, <2>4, <2>5, <2>6 DEF RegistryInv
  <1>3. QED
    BY <1>1, <1>2 DEF Register

(* A connection that closes retires the wrappers of its context.            *)
LEMMA OnConnectionClosedKeeps ==
  ASSUME RegistryInv, NEW c \in Contexts, OnConnectionClosed(c)
  PROVE  RegistryInv'
  <1> USE NoneAssumption, CtxAssumption DEF OnConnectionClosed, Unregister
  <1>1. TypeOK'
    BY DEF RegistryInv, TypeOK
  <1>2. NameTableValid'
    <2>1. \A d \in Contexts : registry'[d] = IF d = c THEN None ELSE registry[d]
      BY DEF RegistryInv, TypeOK
    <2>2. (vfsList = {registry[d] : d \in Contexts} \ {None})'
      BY <2>1 DEF RegistryInv, NameTableValid
    <2>3. (vfsList \cup retired = heap)' /\ (vfsList \cap retired = {})'
      BY DEF RegistryInv, TypeOK, NameTableValid, Reapable
    <2>4. \A v \in retired' : open_file_count'[v] = 0 => v = registry[c]
      BY DEF RegistryInv, TypeOK, Reapable
    <2>5. QED
      BY <2>1, <2>2, <2>3, <2>4 DEF RegistryInv, NameTableValid
  <1>3. Flags'
    <2>1. \A w \in Wrappers : pending_unregister'[w] <=> (pending_unregister[w] \/ w = registry[c])
      BY Zenon
    <2>2. retired' \subseteq Wrappers /\ vfsList' \subseteq Wrappers
      BY <1>1 DEF TypeOK
    <2>3. QED
      BY <2>1, <2>2 DEF RegistryInv, Flags
  <1>4. Counts'
    BY DEF RegistryInv, Counts, Handles
  <1>5. Places'
    BY PointedIsKept DEF RegistryInv, TypeOK, Places
  <1>6. Messages' /\ ErrorOfConnection'
    BY DEF RegistryInv, TypeOK, Messages, ErrorOfConnection
  <1>7. QED
    BY <1>1, <1>2, <1>3, <1>4, <1>5, <1>6 DEF RegistryInv

(* A context at a reused address has no opener of the old one left.         *)
LEMMA NewContextKeeps ==
  ASSUME RegistryInv, NEW c \in Contexts, NewContext(c)
  PROVE  RegistryInv'
  <1> USE DEF NewContext, registryVars, countVars
  <1>1. TypeOK' /\ NameTableValid' /\ Flags'
    BY DEF RegistryInv, TypeOK, NameTableValid, Flags
  <1>2. Counts'
    BY DEF RegistryInv, Counts, Handles
  <1>3. Places' /\ Messages' /\ ErrorOfConnection'
    BY DEF RegistryInv, Places, Messages, ErrorOfConnection
  <1>4. QED
    BY <1>1, <1>2, <1>3 DEF RegistryInv

-----------------------------------------------------------------------------
(* Every step of every opener, connection and context keeps the invariant.  *)
LEMMA RegistryInductive == RegistryInv /\ [Next]_vars => RegistryInv'
  <1>1. ASSUME RegistryInv, UNCHANGED vars
        PROVE  RegistryInv'
    BY <1>1 DEF vars, registryVars, countVars, RegistryInv, TypeOK, NameTableValid, Flags, Counts, Handles,
                Places, Messages, ErrorOfConnection
  <1>2. ASSUME RegistryInv, NEW o \in Openers, OpenerStep(o)
        PROVE  RegistryInv'
    <2>1. CASE Quiet(o)
      BY <1>2, <2>1, QuietKeeps
    <2>2. CASE Register(o) \/ RegisterFails(o) \/ OpenReserve(o)
      BY <1>2, <2>2, RegisterKeeps, RegisterFailsKeeps, OpenReserveKeeps
    <2>3. CASE OpenConstructFails(o) \/ CloseAfterFailure(o)
      <3>1. pc[o] \in Holding /\ pc[o] \in Opening /\ DropHandle(o, "failed")
        BY <2>3 DEF OpenConstructFails, CloseAfterFailure, Holding, Opening
      <3>2. QED
        BY <1>2, <3>1, DropHandleKeeps
    <2>4. CASE CloseRelease(o)
      <3>1. pc[o] \in Holding /\ DropHandle(o, "idle")
        BY <2>4 DEF CloseRelease, Holding
      <3>2. QED
        BY <1>2, <3>1, DropHandleKeeps
    <2>5. QED
      BY <1>2, <2>1, <2>2, <2>3, <2>4 DEF OpenerStep, Quiet
  <1>3. QED
    BY <1>1, <1>2, OnConnectionClosedKeeps, NewContextKeeps DEF Next

(* It holds in every state of every behaviour.                              *)
LEMMA RegistryInvariant == Spec => []RegistryInv
  BY RegistryStart, RegistryInductive, PTL DEF Spec

(* No interleaving of opens, closes, reaps and teardowns lets a thread use  *)
(* a wrapper that has been freed.                                           *)
THEOREM WrapperOutlivesUse == Spec => []NoUseAfterFree
  <1>1. RegistryInv => NoUseAfterFree
    BY DEF RegistryInv, Places, NoUseAfterFree
  <1>2. QED
    BY <1>1, RegistryInvariant, PTL

(* The reference count of every allocated wrapper is the number of files    *)
(* that are open on it, on every path.                                      *)
THEOREM CountIsExact == Spec => []CountMatchesHandles
  <1>1. RegistryInv => CountMatchesHandles
    BY DEF RegistryInv, Counts, CountMatchesHandles
  <1>2. QED
    BY <1>1, RegistryInvariant, PTL

(* SQLite's names are the wrappers of open contexts, and no wrapper is lost *)
(* or piles up.                                                             *)
THEOREM NamesAreRegistered == Spec => []NameTableValid
  <1>1. RegistryInv => NameTableValid
    BY DEF RegistryInv
  <1>2. QED
    BY <1>1, RegistryInvariant, PTL

(* A failed open is never explained with the error of another connection,   *)
(* although wrappers and their addresses are reused.                        *)
THEOREM OwnErrorReported == Spec => []ErrorOfConnection
  <1>1. RegistryInv => ErrorOfConnection
    BY DEF RegistryInv
  <1>2. QED
    BY <1>1, RegistryInvariant, PTL

-----------------------------------------------------------------------------
(* RemoteFile.                                                             *)

(* An element of a sequence is in the set that it is a sequence over.        *)
LEMMA ElementIn ==
  ASSUME NEW S, NEW s \in Seq(S), NEW n \in 1..Len(s)
  PROVE  s[n] \in S
  OBVIOUS

(* Sequences put together: their elements, and their lengths.                *)
LEMMA ConcatFacts ==
  ASSUME NEW S, NEW s \in Seq(S), NEW t \in Seq(S)
  PROVE  /\ s \o t \in Seq(S) /\ Len(s \o t) = Len(s) + Len(t)
         /\ \A i \in 1..(Len(s) + Len(t)) : (s \o t)[i] = IF i <= Len(s) THEN s[i] ELSE t[i - Len(s)]
  OBVIOUS

(* The part of a sequence from one index to another.                         *)
LEMMA SubSeqFacts ==
  ASSUME NEW S, NEW s \in Seq(S), NEW m \in Int, NEW n \in Int, \A i \in m..n : s[i] \in S
  PROVE  /\ SubSeq(s, m, n) \in Seq(S)
         /\ Len(SubSeq(s, m, n)) = IF m <= n THEN n - m + 1 ELSE 0
         /\ \A i \in 1..(n - m + 1) : SubSeq(s, m, n)[i] = s[m + i - 1]
  OBVIOUS

Dirty == IF walMode THEN wal = "frames" ELSE journal = "hot"

(* What the writer leaves behind wherever it is cut off: the main file is   *)
(* the committed state unless the sidecar is live, and it has a page if the *)
(* committed state has one.                                                 *)
WriterInv ==
    /\ main \in Seq(0..MaxVersion) /\ Len(main) <= NumPages
    /\ committed \in Seq(1..MaxVersion) /\ Len(committed) \in {0, NumPages}
    /\ target \in Seq(1..MaxVersion) /\ Len(target) \in {0, NumPages}
    /\ ~Dirty => main = committed
    /\ committed # <<>> => main # <<>> /\ target # <<>>
    /\ IF walMode THEN journal = "absent" /\ Len(main) = NumPages /\ target # <<>> ELSE wal = "absent"

(* What the reader keeps is the size of a main file that passed the probes. *)
ReaderInv ==
    /\ ~published => ~initialized /\ ~init_failed /\ result = Failed("none")
    /\ ~initialized /\ ~init_failed => opens = 0
    /\ ~(initialized /\ init_failed)
    /\ initialized => cached_file_size = Len(main) /\ (IsSqlite => main = committed)
    /\ init_failed => netError \/ Dirty

(* What it has handed out are pages of the main file, or zeros.             *)
ResultInv ==
    result.rc \in {"SQLITE_OK", "SQLITE_IOERR_SHORT_READ"} =>
        /\ initialized /\ result.offset \in Nat /\ result.amount \in Nat
        /\ Len(result.data) = result.amount /\ DOMAIN result.data = 1..result.amount
        /\ \A i \in 1..result.amount :
              result.data[i] = IF result.offset + i <= Len(main) THEN main[result.offset + i] ELSE 0

FileInv == FileTypeOK /\ WriterInv /\ ReaderInv /\ ResultInv

(* The invariant holds before the writer starts and the reader opens the    *)
(* file.                                                                    *)
LEMMA FileStart == FileInit => FileInv
  <1> SUFFICES ASSUME FileInit
               PROVE  FileInv
    OBVIOUS
  <1> USE PagesAssumption DEF FileInit, Failed
  <1>1. /\ main \in Seq(1..MaxVersion) /\ Len(main) \in {0, NumPages}
        /\ main \in Seq(0..MaxVersion) /\ (walMode => Len(main) = NumPages)
    <2>1. CASE main = <<>>
      BY <2>1
    <2>2. CASE main = [p \in Pages |-> 1]
      BY <2>2 DEF Pages
    <2>3. QED
      BY <2>1, <2>2
  <1>2. WriterInv
    BY <1>1 DEF WriterInv, Dirty
  <1>3. FileTypeOK
    <2>1. version \in 1..MaxVersion /\ cached_file_size \in 0..NumPages /\ opens \in 0..2
      OBVIOUS
    <2>2. QED
      BY <1>1, <2>1 DEF FileTypeOK
  <1>4. ReaderInv /\ ResultInv
    BY DEF ReaderInv, ResultInv
  <1>5. QED
    BY <1>2, <1>3, <1>4 DEF FileInv

-----------------------------------------------------------------------------
\* The state a transaction makes has all the pages.
LEMMA ChangedType ==
  ASSUME WriterInv, version \in 1..MaxVersion, version < MaxVersion, NEW touched
  PROVE  Changed(touched) \in Seq(1..MaxVersion) /\ Len(Changed(touched)) = NumPages
  <1> USE PagesAssumption DEF Pages
  <1>1. committed = <<>> \/ Len(committed) = NumPages
    BY DEF WriterInv
  <1>2. \A p \in 1..NumPages : committed # <<>> => committed[p] \in 1..MaxVersion
    <2>1. \A p \in 1..Len(committed) : committed[p] \in 1..MaxVersion
      BY ElementIn DEF WriterInv
    <2>2. QED
      BY <1>1, <2>1
  <1>3. \A p \in 1..NumPages :
          (IF committed = <<>> \/ p \in touched THEN version + 1 ELSE committed[p]) \in 1..MaxVersion
    BY <1>2
  <1>4. QED
    BY <1>3 DEF Changed

\* A page written in place or at the end of the file.
LEMMA WriteMainType ==
  ASSUME WriterInv, NEW p \in 1..Len(target), WriteMain(p)
  PROVE  /\ main' \in Seq(0..MaxVersion) /\ main' # <<>>
         /\ Len(main') = IF p > Len(main) THEN p ELSE Len(main)
  <1> USE PagesAssumption
  <1> DEFINE n == IF p > Len(main) THEN p ELSE Len(main)
             page(q) == IF q = p THEN target[p] ELSE IF q \in 1..Len(main) THEN main[q] ELSE 0
  <1>1. n \in Nat \ {0}
    BY DEF WriterInv
  <1>2. \A q \in 1..n : page(q) \in 0..MaxVersion
    <2>1. target[p] \in 0..MaxVersion
      <3>1. target[p] \in 1..MaxVersion
        BY ElementIn DEF WriterInv
      <3>2. QED
        BY <3>1
    <2>2. \A q \in 1..Len(main) : main[q] \in 0..MaxVersion
      BY ElementIn DEF WriterInv
    <2>3. QED
      BY <2>1, <2>2
  <1>3. main' = [q \in 1..n |-> page(q)]
    BY DEF WriteMain
  <1> HIDE DEF n, page
  <1>4. main' \in [1..n -> 0..MaxVersion]
    BY <1>2, <1>3
  <1>5. main' \in Seq(0..MaxVersion) /\ Len(main') = n
    BY <1>1, <1>4
  <1>6. QED
    BY <1>1, <1>5 DEF n

(* Every step of the writer, and its crash, keeps the invariant.            *)
LEMMA WriterStepKeeps ==
  ASSUME FileInv, WriterStep
  PROVE  FileInv'
  <1> USE PagesAssumption DEF FileInv, WriterStep
  <1>1. CASE JournalCreate \/ WalCreate \/ WalAppend \/ WalReset
    <2>1. UNCHANGED <<main, committed, target, version>>
      BY <1>1 DEF JournalCreate, WalCreate, WalAppend, WalReset
    <2>2. WriterInv'
      BY <1>1, <2>1 DEF WriterInv, Dirty, JournalCreate, WalCreate, WalAppend, WalReset
    <2>3. (version \in 1..MaxVersion)' /\ (journal \in {"absent", "empty", "zeroed", "hot"})'
          /\ (wal \in {"absent", "empty", "header", "frames"})'
      BY <1>1, <2>1 DEF FileTypeOK, JournalCreate, WalCreate, WalAppend, WalReset
    <2>4. QED
      BY <2>1, <2>2, <2>3 DEF FileTypeOK, WriterInv, ReaderInv, ResultInv, readerVars, Failed
  <1>2. CASE JournalWrite
    <2>1. WriterInv' /\ (version \in 1..MaxVersion)'
      BY <1>2, ChangedType DEF WriterInv, Dirty, JournalWrite, FileTypeOK
    <2>2. QED
      BY <1>2, <2>1 DEF JournalWrite, FileTypeOK, WriterInv, ReaderInv, ResultInv, readerVars, Failed
  <1>3. CASE MainWrite
    <2>1. WriterInv'
      <3>1. CASE \E p \in 1..Len(target) : WriteMain(p)
        <4>1. PICK p \in 1..Len(target) : WriteMain(p)
          BY <3>1
        <4>2. /\ main' \in Seq(0..MaxVersion) /\ main' # <<>>
              /\ Len(main') = IF p > Len(main) THEN p ELSE Len(main)
          BY <4>1, WriteMainType
        <4>3. p \in Nat /\ p <= NumPages
          BY DEF WriterInv
        <4>4. Len(main') <= NumPages
          BY <4>2, <4>3 DEF WriterInv
        <4>5. QED
          BY <1>3, <4>2, <4>4 DEF WriterInv, Dirty, MainWrite
      <3>2. CASE target = <<>> /\ main' = <<>>
        BY <1>3, <3>2 DEF WriterInv, Dirty, MainWrite
      <3>3. QED
        BY <1>3, <3>1, <3>2 DEF MainWrite
    <2>2. QED
      BY <1>3, <2>1 DEF MainWrite, FileTypeOK, WriterInv, ReaderInv, ResultInv, readerVars, Failed
  <1>4. CASE JournalRollback \/ JournalFinalize
    <2>1. WriterInv'
      BY <1>4 DEF WriterInv, Dirty, JournalRollback, JournalFinalize
    <2>2. QED
      BY <1>4, <2>1 DEF JournalRollback, JournalFinalize, FileTypeOK, WriterInv, ReaderInv, ResultInv,
                        readerVars, Failed
  <1>5. CASE WalCommit
    <2>1. WriterInv' /\ (version \in 1..MaxVersion)'
      BY <1>5, ChangedType DEF WriterInv, Dirty, WalCommit, FileTypeOK
    <2>2. QED
      BY <1>5, <2>1 DEF WalCommit, FileTypeOK, WriterInv, ReaderInv, ResultInv, readerVars, Failed
  <1>6. CASE Checkpoint
    <2>1. WriterInv'
      <3>1. PICK p \in Pages : WriteMain(p)
        BY <1>6 DEF Checkpoint
      <3>2. p \in 1..Len(target) /\ Len(main) = NumPages /\ p <= NumPages
        BY <1>6, <3>1, PagesAssumption DEF WriterInv, Checkpoint, Pages
      <3>3. main' \in Seq(0..MaxVersion) /\ main' # <<>> /\ Len(main') = NumPages
        BY <3>1, <3>2, WriteMainType
      <3>4. Dirty' /\ UNCHANGED <<walMode, committed, target, journal, wal>>
        BY <1>6 DEF Checkpoint, Dirty
      <3>5. QED
        BY <1>6, <3>3, <3>4, PagesAssumption DEF WriterInv, Checkpoint
    <2>2. QED
      BY <1>6, <2>1 DEF Checkpoint, FileTypeOK, WriterInv, ReaderInv, ResultInv, readerVars, Failed
  <1>7. QED
    BY <1>1, <1>2, <1>3, <1>4, <1>5, <1>6

-----------------------------------------------------------------------------
\* Probes that let the file be served have seen that the sidecar is not live.
LEMMA ProbesAreSound ==
  ASSUME FileInv, NEW e \in Outcomes(SidecarExists), SidecarPasses(e), IsSqlite
  PROVE  main = committed
  <1> USE DEF Outcomes, OtherErrors, AbsentErrors, Errors, Ok, SidecarConfirmedAbsent, SidecarPasses,
              SidecarExists
  <1>1. ~Dirty
    <2>1. CASE walMode
      BY <2>1 DEF FileInv, FileTypeOK, Dirty, WalProbePasses, WalSize
    <2>2. CASE ~walMode
      BY <2>2 DEF FileInv, FileTypeOK, Dirty, JournalProbePasses
    <2>3. QED
      BY <2>1, <2>2
  <1>2. QED
    BY <1>1 DEF FileInv, WriterInv

\* Probes that refuse the file have met an error or a live sidecar.
LEMMA ProbesAreComplete ==
  ASSUME FileInv, NEW e \in Outcomes(SidecarExists), ~SidecarPasses(e)
  PROVE  IsSqlite /\ (e \in OtherErrors \/ Dirty)
  <1> USE DEF Outcomes, AbsentErrors, Ok, SidecarConfirmedAbsent, SidecarPasses, SidecarExists
  <1>1. CASE walMode
    BY <1>1 DEF FileInv, FileTypeOK, Dirty, WalProbePasses, WalSize
  <1>2. CASE ~walMode
    BY <1>2 DEF FileInv, FileTypeOK, Dirty, JournalProbePasses
  <1>3. QED
    BY <1>1, <1>2

ReaderTypes ==
    /\ initialized \in BOOLEAN /\ init_failed \in BOOLEAN /\ netError \in BOOLEAN
    /\ cached_file_size \in 0..NumPages /\ opens \in 0..2
    /\ init_error \in {"none", "SQLITE_IOERR_READ", "SQLITE_BUSY", "SQLITE_CANTOPEN"}

\* The first use of the file decides whether it is served; later uses repeat it.
LEMMA EnsureInitializedKeeps ==
  ASSUME FileInv, published, EnsureInitialized, UNCHANGED writerVars
  PROVE  /\ ReaderTypes' /\ (initialized \/ init_failed)' /\ ~(initialized /\ init_failed)'
         /\ (initialized => cached_file_size = Len(main) /\ (IsSqlite => main = committed))'
         /\ (init_failed => netError \/ Dirty)'
         /\ initialized => UNCHANGED <<initialized, cached_file_size>>
  <1> USE PagesAssumption DEF writerVars
  <1>0. Dirty' = Dirty /\ IsSqlite' = IsSqlite /\ Len(main) \in 0..NumPages
    BY DEF Dirty, IsSqlite, HasHeader, FileInv, WriterInv
  <1>1. CASE initialized \/ init_failed
    BY <1>0, <1>1 DEF EnsureInitialized, initVars, FileInv, FileTypeOK, ReaderInv, ReaderTypes
  <1>2. CASE ~initialized /\ ~init_failed
    <2>1. PICK mainError \in Outcomes(TRUE), sideError \in Outcomes(SidecarExists) :
            /\ opens' = opens + (IF mainError = Ok /\ IsSqlite THEN 2 ELSE 1)
            /\ netError' = (mainError # Ok \/ (IsSqlite /\ sideError \in OtherErrors))
            /\ IF mainError = Ok /\ SidecarPasses(sideError)
               THEN /\ initialized' = TRUE
                    /\ cached_file_size' = Len(main)
                    /\ UNCHANGED <<init_failed, init_error>>
               ELSE /\ init_failed' = TRUE
                    /\ init_error' = SqliteError(IF mainError # Ok THEN mainError ELSE sideError)
                    /\ UNCHANGED <<initialized, cached_file_size>>
      BY <1>2 DEF EnsureInitialized, InitializeFromRemote
    <2>2. opens' \in 0..2
      BY <1>2, <2>1 DEF FileInv, ReaderInv
    <2>3. CASE mainError = Ok /\ SidecarPasses(sideError)
      BY <1>0, <1>2, <2>1, <2>2, <2>3, ProbesAreSound DEF FileInv, FileTypeOK, ReaderTypes
    <2>4. CASE ~(mainError = Ok /\ SidecarPasses(sideError))
      <3>1. netError' \/ Dirty
        BY <2>1, <2>4, ProbesAreComplete
      <3>2. init_error' \in {"SQLITE_IOERR_READ", "SQLITE_BUSY", "SQLITE_CANTOPEN"}
        BY <2>1, <2>4 DEF SqliteError
      <3>3. QED
        BY <1>0, <1>2, <2>1, <2>2, <2>4, <3>1, <3>2 DEF FileInv, FileTypeOK, ReaderTypes
    <2>5. QED
      BY <2>3, <2>4
  <1>3. QED
    BY <1>1, <1>2

\* A read returns the pages of the file, filled up with zeros.
LEMMA ReadPagesReturns ==
  ASSUME NEW offset \in Nat, NEW amount \in Nat, main \in Seq(0..MaxVersion), cached_file_size' = Len(main)
  PROVE  \E data :
         /\ \E rc \in {"SQLITE_OK", "SQLITE_IOERR_SHORT_READ"} :
               ReadPages(offset, amount) = [rc |-> rc, offset |-> offset, amount |-> amount, data |-> data]
         /\ Len(data) = amount /\ DOMAIN data = 1..amount
         /\ \A i \in 1..amount : data[i] = IF offset + i <= Len(main) THEN main[offset + i] ELSE 0
  <1> DEFINE available == IF offset >= Len(main) THEN 0 ELSE Len(main) - offset
             toRead == IF available < amount THEN available ELSE amount
             pages == SubSeq(main, offset + 1, offset + toRead)
             zeros == [i \in 1..(amount - toRead) |-> 0]
  <1>1. Len(main) \in Nat
    OBVIOUS
  <1>2. toRead \in Nat /\ toRead <= amount /\ (toRead > 0 => offset + toRead <= Len(main))
        /\ (toRead < amount => Len(main) <= offset + toRead)
    BY <1>1
  <1>3. ReadPages(offset, amount) =
          [rc |-> IF toRead < amount THEN "SQLITE_IOERR_SHORT_READ" ELSE "SQLITE_OK",
           offset |-> offset, amount |-> amount, data |-> pages \o zeros]
    BY DEF ReadPages
  <1> HIDE DEF available, toRead
  <1>4. /\ pages \in Seq(0..MaxVersion) /\ Len(pages) = toRead
        /\ \A i \in 1..toRead : pages[i] = main[offset + i]
    <2>1. \A i \in (offset + 1)..(offset + toRead) : main[i] \in 0..MaxVersion
      <3> SUFFICES ASSUME NEW i \in (offset + 1)..(offset + toRead)
                   PROVE  main[i] \in 0..MaxVersion
        OBVIOUS
      <3>1. i \in 1..Len(main)
        BY <1>1, <1>2
      <3>2. QED
        BY <3>1, ElementIn
    <2>2. offset + 1 \in Int /\ offset + toRead \in Int
      BY <1>2
    <2>3. /\ pages \in Seq(0..MaxVersion)
          /\ Len(pages) = IF offset + 1 <= offset + toRead THEN (offset + toRead) - (offset + 1) + 1 ELSE 0
          /\ \A i \in 1..((offset + toRead) - (offset + 1) + 1) : pages[i] = main[(offset + 1) + i - 1]
      <3> DEFINE m == offset + 1
                 n == offset + toRead
      <3>1. m \in Int /\ n \in Int /\ \A i \in m..n : main[i] \in 0..MaxVersion
        BY <2>1, <2>2
      <3> HIDE DEF m, n
      <3>2. /\ SubSeq(main, m, n) \in Seq(0..MaxVersion)
            /\ Len(SubSeq(main, m, n)) = IF m <= n THEN n - m + 1 ELSE 0
            /\ \A i \in 1..(n - m + 1) : SubSeq(main, m, n)[i] = main[m + i - 1]
        BY <3>1, SubSeqFacts
      <3>3. QED
        BY <3>2, Zenon DEF m, n
    <2> HIDE DEF pages
    <2>4. Len(pages) = toRead
      BY <1>2, <2>3
    <2>5. (offset + toRead) - (offset + 1) + 1 = toRead
      BY <1>2
    <2>6. ASSUME NEW i \in 1..toRead
          PROVE  pages[i] = main[offset + i]
      <3>1. (offset + 1) + i - 1 = offset + i
        BY <1>2
      <3>2. QED
        BY <2>3, <2>5, <3>1
    <2>7. QED
      BY <2>3, <2>4, <2>6
  <1>5. zeros \in Seq(0..MaxVersion) /\ Len(zeros) = amount - toRead /\ \A i \in 1..(amount - toRead) : zeros[i] = 0
    BY <1>2, PagesAssumption
  <1> HIDE DEF pages, zeros
  <1>7. /\ pages \o zeros \in Seq(0..MaxVersion)
        /\ Len(pages \o zeros) = Len(pages) + Len(zeros)
        /\ \A i \in 1..(Len(pages) + Len(zeros)) :
              (pages \o zeros)[i] = IF i <= Len(pages) THEN pages[i] ELSE zeros[i - Len(pages)]
    BY <1>4, <1>5, ConcatFacts
  <1>8. Len(pages \o zeros) = amount /\ DOMAIN (pages \o zeros) = 1..amount
    BY <1>2, <1>4, <1>5, <1>7
  <1>9. \A i \in 1..amount :
          (pages \o zeros)[i] = IF offset + i <= Len(main) THEN main[offset + i] ELSE 0
    <2> SUFFICES ASSUME NEW i \in 1..amount
                 PROVE  (pages \o zeros)[i] = IF offset + i <= Len(main) THEN main[offset + i] ELSE 0
      OBVIOUS
    <2>1. CASE i <= toRead
      <3>1. (pages \o zeros)[i] = pages[i] /\ i \in 1..toRead /\ offset + i <= Len(main)
        BY <1>1, <1>2, <1>4, <1>5, <1>7, <2>1
      <3>2. QED
        BY <1>4, <3>1
    <2>2. CASE ~(i <= toRead)
      <3>1. /\ (pages \o zeros)[i] = zeros[i - toRead] /\ i - toRead \in 1..(amount - toRead)
            /\ ~(offset + i <= Len(main))
        BY <1>1, <1>2, <1>4, <1>5, <1>7, <2>2
      <3>2. QED
        BY <1>5, <3>1
    <2>3. QED
      BY <2>1, <2>2
  <1>10. QED
    BY <1>3, <1>8, <1>9

-----------------------------------------------------------------------------
(* Publishing leaves the file as the writer was cut off.                    *)
LEMMA PublishKeeps ==
  ASSUME FileInv, Publish
  PROVE  FileInv'
  BY DEF Publish, readerVars, FileInv, FileTypeOK, WriterInv, Dirty, ReaderInv, IsSqlite, HasHeader,
         ResultInv, Failed

\* What is left to show of a call of the reader is what it returns.
LEMMA ReaderKeeps ==
  ASSUME FileInv, published, EnsureInitialized, UNCHANGED writerVars, ResultInv',
         result'.rc \in {"none", "SQLITE_OK", "SQLITE_IOERR_SHORT_READ", "SQLITE_IOERR",
                         "SQLITE_IOERR_READ", "SQLITE_BUSY", "SQLITE_CANTOPEN"}
  PROVE  FileInv'
  <1>1. WriterInv'
    BY DEF writerVars, FileInv, WriterInv, Dirty
  <1>2. FileTypeOK'
    BY EnsureInitializedKeeps DEF writerVars, FileInv, FileTypeOK, ReaderTypes
  <1>3. ReaderInv'
    BY EnsureInitializedKeeps DEF writerVars, FileInv, ReaderInv
  <1>4. QED
    BY <1>1, <1>2, <1>3 DEF FileInv

(* A read returns pages of a file that was clean when it was probed.        *)
LEMMA XReadKeeps ==
  ASSUME FileInv, NEW offset \in 0..MaxOffset, NEW amount \in 1..MaxOffset, XRead(offset, amount)
  PROVE  FileInv'
  <1> USE PagesAssumption DEF XRead
  <1>1. ASSUME NEW rc \in {"none", "SQLITE_IOERR_READ", "SQLITE_BUSY", "SQLITE_CANTOPEN"},
               result' = Failed(rc)
        PROVE  FileInv'
    BY <1>1, ReaderKeeps DEF Failed, ResultInv
  <1>2. CASE init_failed' /\ \E rc \in {init_error', "SQLITE_IOERR_READ"} : result' = Failed(rc)
    BY <1>1, <1>2, EnsureInitializedKeeps DEF ReaderTypes
  <1>3. CASE \E e \in OtherErrors : result' = Failed(SqliteError(e))
    BY <1>1, <1>3 DEF SqliteError
  <1>4. CASE initialized' /\ result' = ReadPages(offset, amount)
    <2>1. offset \in Nat /\ amount \in Nat /\ main \in Seq(0..MaxVersion) /\ main' = main
      BY DEF writerVars, FileInv, WriterInv
    <2>2. cached_file_size' = Len(main)
      BY <1>4, <2>1, EnsureInitializedKeeps
    <2>3. PICK data :
          /\ \E rc \in {"SQLITE_OK", "SQLITE_IOERR_SHORT_READ"} :
                ReadPages(offset, amount) = [rc |-> rc, offset |-> offset, amount |-> amount, data |-> data]
          /\ Len(data) = amount /\ DOMAIN data = 1..amount
          /\ \A i \in 1..amount : data[i] = IF offset + i <= Len(main) THEN main[offset + i] ELSE 0
      BY <2>1, <2>2, ReadPagesReturns, Zenon
    <2>4. ResultInv'
      BY <1>4, <2>1, <2>3 DEF ResultInv
    <2>5. result'.rc \in {"SQLITE_OK", "SQLITE_IOERR_SHORT_READ"}
      BY <1>4, <2>3
    <2>6. QED
      BY <2>4, <2>5, ReaderKeeps
  <1>5. QED
    BY <1>2, <1>3, <1>4

(* Asking for the size initializes the file and hands out no page.          *)
LEMMA XFileSizeKeeps ==
  ASSUME FileInv, XFileSize
  PROVE  FileInv'
  BY ReaderKeeps DEF XFileSize, Failed, ResultInv

(* Every step of the writer and of the reader keeps the invariant.          *)
LEMMA FileInductive == FileInv /\ [FileNext]_fileVars => FileInv'
  <1>1. ASSUME FileInv, UNCHANGED fileVars
        PROVE  FileInv'
    BY <1>1 DEF fileVars, writerVars, readerVars, FileInv, FileTypeOK, WriterInv, Dirty, ReaderInv,
                IsSqlite, HasHeader, ResultInv
  <1>2. QED
    BY <1>1, WriterStepKeeps, PublishKeeps, XReadKeeps, XFileSizeKeeps DEF FileNext

(* It holds in every state of every behaviour.                              *)
LEMMA FileInvariant == FileSpec => []FileInv
  BY FileStart, FileInductive, PTL DEF FileSpec

(* Wherever the writer was cut off and whichever errors the probes met,     *)
(* every page that was handed to SQLite is one of the last committed state. *)
THEOREM DirtyNeverServed == FileSpec => []ServedIsCommitted
  <1>1. ASSUME FileInv, result.rc \in {"SQLITE_OK", "SQLITE_IOERR_SHORT_READ"}, HasHeader => IsSqlite
        PROVE  /\ Len(result.data) = result.amount
               /\ \A i \in DOMAIN result.data :
                     result.data[i] = IF result.offset + i <= Len(committed)
                                      THEN committed[result.offset + i] ELSE 0
    <2>1. main = committed
      <3>1. CASE HasHeader
        BY <1>1, <3>1 DEF FileInv, ReaderInv, ResultInv
      <3>2. CASE ~HasHeader
        <4>1. main = <<>>
          BY <3>2, <1>1 DEF HasHeader, FileInv, WriterInv
        <4>2. QED
          BY <1>1, <4>1 DEF FileInv, WriterInv
      <3>3. QED
        BY <3>1, <3>2
    <2>2. QED
      BY <1>1, <2>1 DEF FileInv, ResultInv
  <1>2. FileInv => ServedIsCommitted
    BY <1>1 DEF ServedIsCommitted, FileInv
  <1>3. QED
    BY <1>2, FileInvariant, PTL

(* A database is refused only for an error of a remote operation or for a   *)
(* sidecar with something in it.                                            *)
THEOREM RefusalHasCause == FileSpec => []CleanIsServed
  <1>1. FileInv => CleanIsServed
    BY DEF FileInv, ReaderInv, Dirty, CleanIsServed
  <1>2. QED
    BY <1>1, FileInvariant, PTL
=============================================================================
