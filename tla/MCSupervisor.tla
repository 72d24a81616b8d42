---------------------------- MODULE MCSupervisor ----------------------------
(* The supervised process on a small instance: a finite run has room for a  *)
(* row and its marker, a service for one row.                               *)
EXTENDS Supervisor

LsnBound(m) == IF m = "finite" THEN 2 ELSE 1
=============================================================================
