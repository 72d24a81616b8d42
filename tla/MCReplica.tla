----------------------------- MODULE MCReplica -----------------------------
(***************************************************************************)
(* What decides the contents of the replica, in one model: the fold of a   *)
(* group, the SCD2 history, the proof that a snapshot is complete, and the *)
(* catalog watcher.  They share no variable here, so a behaviour picks one *)
(* of them.                                                                *)
(***************************************************************************)
EXTENDS TableFold

CONSTANTS k1, k2, a, b

VARIABLES
    pick,
    relation, watched, scdGroup, versions,
    connector, applier, landed,
    deployment, schema, replica, watcher, fencing, view, proc, trail

folds     == vars
histories == <<relation, watched, scdGroup, versions>>
snapshots == <<connector, applier, landed>>
catalogs  == <<deployment, schema, replica, watcher, fencing, view, proc, trail>>

everything == <<pick, folds, histories, snapshots, catalogs>>

-----------------------------------------------------------------------------
(* The instances.                                                           *)

Table(keys, delete, toast, truncate) ==
    [keys |-> keys, delete |-> delete, toast |-> toast, truncate |-> truncate]

\* The tables for which the fold and the write agree with the source.
MCKinds == {Table("immediate", "hard", TRUE, TRUE),
            Table("deferred", "hard", FALSE, TRUE),
            Table("none", "hard", FALSE, FALSE),
            Table("immediate", "soft", FALSE, TRUE)}

\* The encoded generations sort as they were made, or the third falls between
\* the first two, or each sorts before the ones it replaced.
Orders == {<<1, 2, 3>>, <<1, 3, 2>>, <<3, 2, 1>>}

Scd2 == INSTANCE History WITH
    source <- relation, watcher <- watched, group <- scdGroup, dest <- versions,
    Keys <- {"id"}, Images <- {1, 2}, MaxEvents <- 3, MaxGens <- 3,
    MaxRestarts <- 1, Ranks <- Orders

Captured == <<"customers", "orders">>

Snapshot == INSTANCE SnapshotCompletion WITH
    dest <- landed, Scan <- Captured, MaxRows <- 2, MaxBeats <- 2, MaxFaults <- 1,
    BeatsInterleave <- FALSE

\* The default mass-drop limit, a limit that refuses every drop, and
\* auto-discovery, which has the publication as one more source of change.
DeploymentSet ==
    {[auto |-> FALSE, limit |-> 1], [auto |-> FALSE, limit |-> 0], [auto |-> TRUE, limit |-> 1]}

LogBound(d) == IF d.auto \/ d.limit = 0 THEN 1 ELSE 2

DdlBound(d) == IF d.auto \/ d.limit = 0 THEN 2 ELSE 3

Watch == INSTANCE Catalog WITH
    source <- schema, dest <- replica, Names <- {"n1"}, Registered <- {"n1"},
    Deployments <- DeploymentSet, Pollers <- {"thread"},
    Drops <- {"replicate", "log", "ignore"}, ConfirmPolls <- 2,
    MaxLog <- LogBound, MaxDdl <- DdlBound, MaxFaults <- 1

-----------------------------------------------------------------------------
\* A component that is not picked has no state.
NoFold == /\ table = 0 /\ src = 0 /\ inTxn = 0 /\ dest = 0 /\ live = 0
          /\ deletedKeys = 0 /\ softDeletes = 0 /\ truncated = 0 /\ ops = 0
          /\ marks = 0 /\ gone = 0 /\ audit = 0 /\ group = 0 /\ events = 0
          /\ refused = 0

NoHistory == relation = 0 /\ watched = 0 /\ scdGroup = 0 /\ versions = 0

NoSnapshot == connector = 0 /\ applier = 0 /\ landed = 0

NoCatalog == /\ deployment = 0 /\ schema = 0 /\ replica = 0 /\ watcher = 0
             /\ fencing = 0 /\ view = 0 /\ proc = 0 /\ trail = 0

MCInit ==
    \/ pick = "fold" /\ Init /\ NoHistory /\ NoSnapshot /\ NoCatalog
    \/ pick = "scd2" /\ Scd2!Init /\ NoFold /\ NoSnapshot /\ NoCatalog
    \/ pick = "snapshot" /\ Snapshot!Init /\ NoFold /\ NoHistory /\ NoCatalog
    \/ pick = "catalog" /\ Watch!Init /\ NoFold /\ NoHistory /\ NoSnapshot

\* The source of a fold is bounded, so it may come to rest.
MCNext ==
    /\ pick' = pick
    /\ \/ /\ pick = "fold" /\ (Next \/ UNCHANGED folds)
          /\ UNCHANGED <<histories, snapshots, catalogs>>
       \/ /\ pick = "scd2" /\ Scd2!Next
          /\ UNCHANGED <<folds, snapshots, catalogs>>
       \/ /\ pick = "snapshot" /\ Snapshot!Next
          /\ UNCHANGED <<folds, histories, catalogs>>
       \/ /\ pick = "catalog" /\ Watch!Next
          /\ UNCHANGED <<folds, histories, snapshots>>

MCSpec == MCInit /\ [][MCNext]_everything

-----------------------------------------------------------------------------
(* The components' properties, of the component that is picked.             *)

\* The merged group leaves each table as the source has it after the same
\* transactions: live rows equal, no well-formed event refused, one row under a
\* key, and TRUNCATE markers that count what was there (GroupPlan's fold,
\* merge_events and the DELETE/INSERT write).
FoldIsExact ==
    pick = "fold" => TypeOK /\ LiveImage /\ NeverRefused /\ KeyedUnique /\ TruncateAudit

\* A soft delete never removes a row: the key keeps a live row or a tombstone
\* until the table is truncated (delete_keys, soft_deletes).
KeepsTombstones == [][pick = "fold" => TombstonesKept]_everything

\* The SCD2 table is the source's history: versions tile, each committed event
\* is there once however often it was redelivered, and where the generations
\* sort as they were made the current view is the source (scd2.apply_event).
HistoryIsTheSource ==
    pick = "scd2" =>
       Scd2!VersionsTile /\ Scd2!EveryEventOnce /\ Scd2!OrderedViewIsLive

\* Neither the resume point, the completion verdict nor the acknowledgement
\* runs ahead of the snapshot's rows, whatever callback is lost, repeated or
\* miscounted (SnapshotCompletion.commit_ready, will_complete_after).
SnapshotIsCovered ==
    pick = "snapshot" => /\ Snapshot!BoundaryCoversImage
                         /\ Snapshot!CompletedIsDurable
                         /\ Snapshot!AckedAfterImage

\* With discovery off, a registry that names the very relation the source has
\* vouches for an image without rows of an older one, unless its rebuild is
\* owed (flush_learned_relations).
AgreementAsConfigured == pick = "catalog" => Watch!AgreementAsConfigured

\* No row of a relation whose drop was applied is delivered after the drop
\* (the fence of CatalogWatcher.due).
NoZombies == pick = "catalog" => Watch!NoZombies

\* Between runs a valid baseline owes nothing, and knows the source identity
\* of every table that holds rows (baseline resolution).
BaselineHonest == pick = "catalog" => Watch!BaselineHonest
=============================================================================
