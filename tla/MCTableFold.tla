---------------------------- MODULE MCTableFold ----------------------------
(* Two keys and two values: a key can be freed and taken again, two rows    *)
(* can trade keys under a deferred constraint, and two rows can be equal.   *)
EXTENDS TableFold

CONSTANTS k1, k2, a, b

Table(keys, delete, toast, truncate) ==
    [keys |-> keys, delete |-> delete, toast |-> toast, truncate |-> truncate]

\* A deferrable key whose deletes leave tombstones.
MCTombstone == {Table("deferred", "soft", FALSE, FALSE)}
=============================================================================
