---------------------------- MODULE MCStatements ----------------------------
(***************************************************************************)
(* How a statement is executed.  A behaviour is about one statement that   *)
(* DuckDB executes row by row (TableWrites), about the way statements get  *)
(* to SQLite (RemoteQuery), or about the DDL of one transaction and its    *)
(* catalog entries (CatalogCache); the variables of the other components   *)
(* stay as they are initially.                                             *)
(***************************************************************************)
EXTENDS MCTableWrites, RemoteQuery, CatalogCache, TLC

CONSTANTS t, u, i

VARIABLE about   \* "rows", "statements" or "catalog"

\* Three names, which may be exchanged, and the names a row id has.
MCNames == {t, u, i}
MCColumns == {"rowid", "_rowid_", "oid"}
MCSymmetry == Permutations(MCNames)

-----------------------------------------------------------------------------
MCInit ==
    /\ about \in {"rows", "statements", "catalog"}
    /\ Init
    /\ QueryInit
    /\ CatalogInit
    /\ about # "statements" => ~(readOnlyAttach \/ readOnlyTx \/ utf8 \/ collation)
    /\ about # "rows" => op = "delete" /\ ~shared /\ order = "rowid" /\ limit = 9 /\ repeat = 1 /\ source = Empty

MCNext ==
    /\ UNCHANGED about
    /\ \/ about = "rows" /\ Next /\ UNCHANGED <<queryVars, catalogVars>>
       \/ about = "statements" /\ QueryNext /\ UNCHANGED <<vars, catalogVars>>
       \/ about = "catalog" /\ CatalogNext /\ UNCHANGED <<vars, queryVars>>

MCSpec == MCInit /\ [][MCNext]_<<about, vars, queryVars, catalogVars>>
=============================================================================
