--------------------------- MODULE MCRemoteQuery ---------------------------
(* An instance of RemoteQuery for TLC: transactions of two statements. *)
EXTENDS RemoteQuery
=============================================================================
