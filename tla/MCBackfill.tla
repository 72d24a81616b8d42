---------------------------- MODULE MCBackfill ----------------------------
(***************************************************************************)
(* Two tables, one of them empty at the source.                            *)
(***************************************************************************)
EXTENDS Backfill

CONSTANTS t1, t2, k1

MCInitial == [t \in Tables |-> IF t = t1 THEN {k1} ELSE {}]
=============================================================================
