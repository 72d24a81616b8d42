---------------------------- MODULE MCRecovery ----------------------------
\* Model checking of Recovery; the runs choose tables, faults and flags.
EXTENDS Recovery
=============================================================================
