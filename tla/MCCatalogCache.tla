--------------------------- MODULE MCCatalogCache ---------------------------
(* An instance of CatalogCache for TLC. *)
EXTENDS CatalogCache, TLC

CONSTANTS t, u, i

MCNames == {t, u, i}
MCColumns == {"rowid", "_rowid_", "oid"}
MCSymmetry == Permutations(MCNames)
=============================================================================
