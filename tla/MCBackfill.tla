------------------------------ MODULE MCBackfill ------------------------------
(* Rows in batches of two; a model upgrade while documents are ingested.   *)
EXTENDS Backfill, TLC

CONSTANTS c1, c2, c3, c4, c5

Alike == Permutations(Rows)
=============================================================================
