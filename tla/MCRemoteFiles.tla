---------------------------- MODULE MCRemoteFiles ---------------------------
(***************************************************************************)
(* The two halves of the remote VFS.  A behaviour is about the lifetime of *)
(* the VFS wrappers (VFSRegistry) or about the contents of one file        *)
(* (RemoteFile); the variables of the other component stay as they are     *)
(* initially.                                                              *)
(***************************************************************************)
EXTENDS VFSRegistry, RemoteFile, TLC

CONSTANTS c1, c2, o1, o2, o3, w1, w2, w3

VARIABLE registering   \* the behaviour is about the wrappers

\* Two connections, one of which scans with two threads.
MCContexts == {c1, c2}
MCOpeners == {o1, o2, o3}
MCCtxOf == o1 :> c1 @@ o2 :> c1 @@ o3 :> c2
MCWrappers == {w1, w2, w3}

MCInit ==
    /\ registering \in BOOLEAN
    /\ Init
    /\ FileInit
    /\ registering => ~walMode /\ main = <<>>

MCNext ==
    /\ UNCHANGED registering
    /\ \/ registering /\ Next /\ UNCHANGED fileVars
       \/ ~registering /\ FileNext /\ UNCHANGED vars

MCSpec == MCInit /\ [][MCNext]_<<registering, vars, fileVars>> /\ Fairness
=============================================================================
