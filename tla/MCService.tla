----------------------------- MODULE MCService -----------------------------
(***************************************************************************)
(* The process around the pipeline, in one model: the lease, the service   *)
(* process that takes it, the run-phase heartbeat it writes, and its       *)
(* recovery from damage to the slot or to the state directory.  They share *)
(* no variable here, so a behaviour picks one of them.                     *)
(***************************************************************************)
EXTENDS Lease, TLC

CONSTANTS t1, e1

VARIABLES
    pick,
    kind, lease, held, table, proc, spent,
    beat, window, worker, sink, phaseRow,
    src, slot, file, lsnRow, journal, prev, life, mark, content, run, used, lost

leases    == vars
processes == <<kind, lease, held, table, proc, spent>>
beats     == <<beat, window, worker, sink, phaseRow>>
rebuilds  == <<src, slot, file, lsnRow, journal, prev, life, mark, content, run,
               used, lost>>

everything == <<pick, leases, processes, beats, rebuilds>>

Symmetry == Permutations(Service) \cup Permutations(Batch)

-----------------------------------------------------------------------------
\* A Flight and an operator for each history mode.
Requests == [o \in {"to_scd2", "to_none"} |-> IF o = "to_scd2" THEN "scd2" ELSE "none"]

Process == INSTANCE ServiceProcess WITH
    Flights <- {"flight"}, Operators <- {"to_scd2", "to_none"},
    Requested <- Requests,
    MaxTxns <- 1, MaxFaults <- 1

Beat == INSTANCE Heartbeat WITH row <- phaseRow, MaxMoves <- 5, MaxCommits <- 2

\* What may happen to the slot, and to the files and rows that stand for it.
Slot == INSTANCE Recovery WITH
    row <- lsnRow, Tables <- {t1, e1}, EmptyTables <- {e1},
    Modes <- {"initial", "no_data"}, Flags <- {"none", "resnapshot_off"},
    Faults <- {"drop", "recreate", "invalidate", "unclean", "lose_file", "dark"},
    MaxTxns <- 2, MaxFaults <- 2, MaxCrashes <- 1

-----------------------------------------------------------------------------
\* A component that is not picked has no state.
NoLease == /\ clock = 0 /\ row = 0 /\ pc = 0 /\ now = 0 /\ seen = 0 /\ dead = 0
           /\ epoch = 0 /\ tx = 0 /\ owners = 0 /\ commits = 0

NoProcess == kind = 0 /\ lease = 0 /\ held = 0 /\ table = 0 /\ proc = 0 /\ spent = 0

NoBeat == beat = 0 /\ window = 0 /\ worker = 0 /\ sink = 0 /\ phaseRow = 0

NoRebuild == /\ src = 0 /\ slot = 0 /\ file = 0 /\ lsnRow = 0 /\ journal = 0
             /\ prev = 0 /\ life = 0 /\ mark = 0 /\ content = 0 /\ run = 0
             /\ used = 0 /\ lost = 0

MCInit ==
    \/ pick = "lease" /\ Init /\ NoProcess /\ NoBeat /\ NoRebuild
    \/ pick = "process" /\ Process!Init /\ NoLease /\ NoBeat /\ NoRebuild
    \/ pick = "beat" /\ Beat!Init /\ NoLease /\ NoProcess /\ NoRebuild
    \/ pick = "slot" /\ Slot!Init /\ NoLease /\ NoProcess /\ NoBeat

\* The lease's clock is bounded, so its Flights may come to rest.
MCNext ==
    /\ pick' = pick
    /\ \/ /\ pick = "lease" /\ (Next \/ UNCHANGED leases)
          /\ UNCHANGED <<processes, beats, rebuilds>>
       \/ /\ pick = "process" /\ Process!Next
          /\ UNCHANGED <<leases, beats, rebuilds>>
       \/ /\ pick = "beat" /\ Beat!Next
          /\ UNCHANGED <<leases, processes, rebuilds>>
       \/ /\ pick = "slot" /\ Slot!Next
          /\ UNCHANGED <<leases, processes, beats>>

MCSpec == MCInit /\ [][MCNext]_everything

-----------------------------------------------------------------------------
\* An epoch of the lease fences: data commits belong to the Flight written into
\* the row last, and two holders share an epoch only when a finite run held the
\* row between them (Lease.acquire, Lease.fence).
EpochFences == pick = "lease" => TypeOK /\ NoCommitAfterTakeover /\ EpochHasOneOwner

\* The row of a live holder is taken over only after the destination's clock
\* passed its expiry (Lease.acquire).
ProtectedUntilExpiry == [][pick = "lease" => TakenOverExpired]_everything

\* A table under scd2 has no current-only image, and a mode that
\* set-history-mode reported stays until the source relation is dropped: the
\* policy a transaction read holds until its COMMIT (admit_history_mode,
\* GroupPlan._history_mode_for).
HistoryModeHolds ==
    pick = "process" => Process!HistoryIsWhole /\ Process!PromisedModeHolds

\* A process that ended in order holds nothing another one waits for
\* (_release_if_needed, StateDirectoryLease.release).
EndedHoldsNothing == pick = "process" => Process!EndedHoldsNothing

\* No statement of the heartbeat runs in the commit->ack window, and its cursor
\* is closed by one owner (_CommitAckWindow, RunPhaseWriter.close).
WindowExcludesWrites ==
    pick = "beat" => Beat!WindowExcludesWrites /\ Beat!SinkHasOneOwner

\* A run that terminalised left a row that says so, or recorded that the write
\* was abandoned (RunPhaseWriter.finish).
TerminalRecorded == pick = "beat" => Beat!TerminalRecorded

\* A streaming run has every complete table at a prefix of the source's
\* history that reaches its cursor, and no recovery leaves a file that the next
\* run takes for a foreign one (acquire_source, recovery.resume).
SoundStream == pick = "slot" => Slot!TypeOK /\ Slot!SoundStream /\ Slot!OnlyForeignOrphans

\* The journal is cleared over rebuilt tables only, and not without a record of
\* the hand-over (recovery.complete_if_ready).
RecoveryIsRecorded ==
    [][pick = "slot" => Slot!ClearsRebuilt /\ Slot!RecordsHandover]_everything
=============================================================================
