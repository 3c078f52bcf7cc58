--------------------------- MODULE MCTableWrites ---------------------------
(* Instances of TableWrites for TLC. *)
EXTENDS TableWrites

\* Up to three rows, with gaps in the row ids and equal values: with chunks of two rows, a
\* scan ends in its first chunk, at its border, or in the second chunk.
MCTables == UNION {[D -> {1, 2}] : D \in {{}, {1}, {1, 2}, {1, 3}, {1, 2, 3}, {2, 3, 4}}}
=============================================================================
