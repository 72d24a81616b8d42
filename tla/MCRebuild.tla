----------------------------- MODULE MCRebuild -----------------------------
(***************************************************************************)
(* How a replica is rebuilt, in one model: the re-snapshot of single       *)
(* tables; and recovery from a source that is no longer the one that was   *)
(* replicated, or from the loss of the control schema.  They share no      *)
(* variable here, so a behaviour picks one and the other rests where it    *)
(* started.                                                                *)
(***************************************************************************)
EXTENDS Resnapshot

CONSTANTS t1, t2, e1

VARIABLES
    pick,
    src, slot, file, row, journal, prev, life, mark, content, run, used, lost

resnapshots == vars
recoveries  == <<src, slot, file, row, journal, prev, life, mark, content, run, used,
                 lost>>
everything  == <<pick, resnapshots, recoveries>>

\* A healthy start may see two source transactions and two changes of shape, a
\* start with every table owed one of each.
StartBound(start) == IF start = "complete" THEN 2 ELSE 1

Recovers == INSTANCE Recovery WITH
    Tables <- {t1, e1}, EmptyTables <- {e1}, Modes <- {"initial", "no_data"},
    Flags <- {"none", "reset_state", "accept_orphan"},
    Faults <- {"fork", "failover", "clone", "rewind", "lose_control", "request"},
    MaxTxns <- 2, MaxFaults <- 1, MaxCrashes <- 1

ASSUME RecoverySetting == Recovers!RecoveryAssumption

-----------------------------------------------------------------------------
MCInit ==
    /\ Init
    /\ Recovers!Init
    /\ \/ pick = "owed"
       \/ pick = "recovery" /\ trail.start = "complete" /\ source.policy = "log"

MCNext ==
    /\ pick' = pick
    /\ \/ pick = "owed" /\ Next /\ UNCHANGED recoveries
       \/ pick = "recovery" /\ Recovers!Next /\ UNCHANGED resnapshots

\* The fairness of Resnapshot and of Recovery: a run that has started keeps
\* going, and something starts the next one.
MCFairness ==
    /\ WF_resnapshots(pick = "owed" /\ Run)
    /\ WF_recoveries(pick = "recovery" /\ Recovers!Acquire)
    /\ WF_recoveries(pick = "recovery" /\ Recovers!Rebuild)
    /\ WF_recoveries(pick = "recovery" /\ Recovers!FinishRun)
    /\ WF_recoveries(pick = "recovery" /\ Recovers!CompleteIfReady)

MCSpec == MCInit /\ [][MCNext]_everything /\ MCFairness

-----------------------------------------------------------------------------
\* A streaming run has every complete table at a prefix of the source's history
\* that reaches its cursor, whatever became of the source or of the control
\* schema (acquire_source, recovery.resume).
SoundStream == Recovers!SoundStream

\* A recovery that was started is finished, however often it is interrupted
\* (recovery.complete_if_ready).
RecoveryFinishes == Recovers!RecoveryFinishes
=============================================================================
