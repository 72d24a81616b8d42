------------------------------ MODULE Recovery ------------------------------
(***************************************************************************)
(* Acquisition: what a run does between taking the lease and streaming.    *)
(* The slot check compares the replication slot with the durable resume    *)
(* point and the last observation; a mismatch starts the journalled        *)
(* recovery, which marks every captured table owed, then removes the       *)
(* offsets file, removes the resume point and establishes the main slot's  *)
(* retirement state, each step recorded after its effect.  The owed tables *)
(* are rebuilt by a throwaway re-snapshot (main slot retained) or by the   *)
(* main engine's own snapshot (main slot absent), and the journal is       *)
(* cleared only by complete_if_ready.  The process may die between any two *)
(* durable effects.                                                        *)
(*                                                                         *)
(* The source's history is a sequence of transaction ids; a position is an *)
(* index into it, so a fork of the timeline reuses positions for other     *)
(* transactions.  A table's content is the set of transactions it holds.   *)
(***************************************************************************)
EXTENDS Integers, Sequences, FiniteSets

CONSTANTS
  Tables,          \* the captured relations
  EmptyTables,     \* those with no rows at the source
  Modes,           \* the snapshot.mode a run may be configured with
  Flags,           \* the operator flags a run may be started with
  Faults,          \* what may happen to the source or the destination
  MaxTxns,         \* bound: source transactions
  MaxFaults,       \* bound: faults
  MaxCrashes       \* bound: process deaths

\* What the constants are.
RecoveryAssumption ==
  /\ EmptyTables \subseteq Tables
  /\ Modes \subseteq {"initial", "no_data"}
  /\ Flags \subseteq {"none", "reset_state", "accept_orphan", "resnapshot_off"}
  /\ {MaxTxns, MaxFaults, MaxCrashes} \subseteq Nat

VARIABLES
  src,      \* the source cluster: system identifier, timeline, history
  slot,     \* the main replication slot
  file,     \* whether offsets.dat exists
  row,      \* debezium_offsets.last_lsn, or NoLsn
  journal,  \* recovery_state.phase, or "absent"
  prev,     \* slot_state: the last recorded observation and its verdict
  life,     \* table_state.snapshot_state
  mark,     \* table_state.snapshot_lsn
  content,  \* the transactions each destination table holds
  run,      \* the memory of the running process
  used,     \* faults and crashes so far
  lost      \* history: the destination lost its control schema

vars == <<src, slot, file, row, journal, prev, life, mark, content, run, used,
          lost>>

dest == <<row, journal, prev, life, mark, content>>

NoLsn == -1

MaxOf(a, b) == IF a > b THEN a ELSE b

Wal == Len(src.log)

Prefix(k) == {src.log[i] : i \in 1..k}

NoSlot == [exists |-> FALSE, confirmed |-> NoLsn, restart |-> NoLsn,
           lost |-> FALSE]

SlotAt(k) == [exists |-> TRUE, confirmed |-> k, restart |-> k, lost |-> FALSE]

NoPrev == [verdict |-> "none", id |-> 0, tl |-> 0, confirmed |-> NoLsn,
           restart |-> NoLsn]

Down == [pc |-> "down", flag |-> "none", mode |-> "initial", decision |-> "none", back |-> "none",
         retained |-> FALSE, dark |-> FALSE,
         main |-> FALSE, at |-> 0, cursor |-> 0, todo |-> {}, emptied |-> {}]

Phases == <<"requested", "offsets_file_deleted", "resume_point_deleted",
            "armed">>

\* SNAPSHOT_MODES_WITH_DATA and the override a journal puts on snapshot.mode:
\* a retained slot is streamed without a second snapshot, any other recovery
\* forces a mode that reads table data.
ReadsData ==
  ~run.retained /\ (journal # "absent" \/ run.mode = "initial")

WillSnapshotEverything == ReadsData /\ row = NoLsn

Awaiting == {t \in Tables : life[t] = "awaiting_snapshot"}

\* A source that may stop answering is looked at with either outcome.
Visible == IF "dark" \in Faults THEN BOOLEAN ELSE {TRUE}

-----------------------------------------------------------------------------
(* The slot check, as a function of what it is given.  The cause is         *)
(* reported before the symptom.                                             *)

\* check_slot, without a durable resume point.
VerdictWithoutRow ==
  IF slot.confirmed = NoLsn THEN "fresh_start"
  ELSE IF \A t \in Tables : content[t] = {} THEN "no_durable_destination_row"
  ELSE "refused"

\* Mutant: the timeline is not compared.
VerdictNoTimeline ==
  CASE prev.id # 0 /\ prev.id # src.id -> "source_identity_changed"
    [] prev.id \in {0, src.id} ->
         IF slot.lost THEN "slot_invalidated"
         ELSE IF Wal < row THEN "source_lsn_regressed"
         ELSE IF ~slot.exists THEN "slot_missing"
         ELSE IF slot.confirmed > row THEN "slot_ahead_of_destination"
         ELSE "ok"

\* check_slot, with one.
VerdictWithRow ==
  CASE prev.id # 0 /\ prev.id # src.id -> "source_identity_changed"
    [] prev.id = src.id /\ prev.tl # src.tl -> "source_timeline_changed"
    [] prev.id \in {0, src.id} /\ prev.tl \in {0, src.tl} ->
         IF slot.lost THEN "slot_invalidated"
         ELSE IF Wal < row THEN "source_lsn_regressed"
         ELSE IF ~slot.exists THEN "slot_missing"
         ELSE IF /\ prev.restart # NoLsn
                 /\ slot.restart < prev.restart
                 /\ \/ prev.confirmed = NoLsn
                    \/ slot.confirmed < prev.confirmed
              THEN "slot_recreated"
         ELSE IF slot.confirmed > row THEN "slot_ahead_of_destination"
         ELSE "ok"

\* check_the_slot: a positioned slot over a destination without a resume
\* point is this pipeline's own hand-over when a journal owns it, or when the
\* last run recorded it as retained and it has not moved since.
RetainedHandoff ==
  /\ slot.exists /\ slot.confirmed # NoLsn /\ ~slot.lost
  /\ row = NoLsn
  /\ \/ journal # "absent"
     \/ /\ prev.verdict = "recovery_retained"
        /\ prev.id = src.id /\ prev.tl = src.tl
        /\ prev.confirmed = slot.confirmed
        /\ prev.restart = NoLsn \/ slot.restart >= prev.restart

\* The orphan file is deferred to reconciliation instead of rebuilding.
Verdict ==
  IF RetainedHandoff THEN "recovery_retained"
  ELSE IF row # NoLsn THEN VerdictWithRow
  ELSE IF VerdictWithoutRow = "no_durable_destination_row" /\ file
       THEN "refused"
  ELSE VerdictWithoutRow

ResnapshotDecisions ==
  {"slot_ahead_of_destination", "slot_missing", "slot_invalidated",
   "slot_recreated", "source_identity_changed", "source_timeline_changed",
   "source_lsn_regressed", "no_durable_destination_row"}

\* write_slot_state: the observation and the verdict computed from it.
SlotState(verdict) ==
  [verdict |-> verdict, id |-> src.id, tl |-> src.tl,
   confirmed |-> slot.confirmed, restart |-> slot.restart]

-----------------------------------------------------------------------------
Init ==
  /\ src = [id |-> 1, tl |-> 1, log |-> <<1>>, next |-> 2]
  /\ slot = NoSlot
  /\ file = FALSE
  /\ row = NoLsn
  /\ journal = "absent"
  /\ prev = NoPrev
  /\ life = [t \in Tables |-> "absent"]
  /\ mark = [t \in Tables |-> 0]
  /\ content = [t \in Tables |-> {}]
  /\ run = Down
  /\ used = [faults |-> 0, crashes |-> 0]
  /\ lost = FALSE

-----------------------------------------------------------------------------
(* Acquisition.                                                             *)

Goto(pc) == [run EXCEPT !.pc = pc]

Boot ==
  /\ run.pc = "down"
  /\ \E flag \in Flags, mode \in Modes :
       run' = [Down EXCEPT !.flag = flag, !.mode = mode,
                 !.pc = IF flag = "reset_state" THEN "reset" ELSE "resume"]
  /\ UNCHANGED <<src, slot, file, dest, used, lost>>

\* journal_the_reset: a receipt first, then the ordinary journal.
JournalTheReset ==
  /\ run.pc = "reset"
  /\ prev' = [prev EXCEPT !.verdict = "fresh_start"]
  /\ run' = [run EXCEPT !.pc = "begin", !.decision = "operator_reset",
                        !.back = "resume"]
  /\ UNCHANGED <<src, slot, file, row, journal, life, mark, content, used, lost>>

\* recovery.begin: intent and to-do list in one transaction.
Begin ==
  /\ run.pc = "begin"
  /\ journal' = "requested"
  /\ life' = [t \in Tables |-> "awaiting_snapshot"]
  /\ mark' = IF run.decision = "operator_reset" THEN [t \in Tables |-> 0]
             ELSE mark
  /\ run' = Goto("ladder")
  /\ UNCHANGED <<src, slot, file, row, prev, content, used, lost>>

\* Mutant: the row goes before the file.
DeleteRowFirst ==
  /\ run.pc = "ladder" /\ journal = "requested"
  /\ row' = NoLsn
  /\ run' = Goto("record")
  /\ UNCHANGED <<src, slot, file, journal, prev, life, mark, content, used, lost>>

\* recovery.resume, phase requested: the file goes before the row.
DeleteOffsetsFile ==
  /\ run.pc = "ladder" /\ journal = "requested"
  /\ file' = FALSE
  /\ run' = Goto("record")
  /\ UNCHANGED <<src, slot, dest, used, lost>>

\* recovery.resume, phase offsets_file_deleted.
DeleteResumePoint ==
  /\ run.pc = "ladder" /\ journal = "offsets_file_deleted"
  /\ row' = NoLsn
  /\ run' = Goto("record")
  /\ UNCHANGED <<src, slot, file, journal, prev, life, mark, content, used, lost>>

\* _retire_the_slot_or_fail: the main slot is observed, never dropped.
RetireSlot ==
  /\ run.pc = "ladder" /\ journal = "resume_point_deleted"
  /\ \E seen \in Visible :
       run' = IF seen THEN [run EXCEPT !.pc = "record", !.retained = slot.exists]
              ELSE Down
  /\ UNCHANGED <<src, slot, file, dest, used, lost>>

\* _write_phase, after the effect.
WritePhase ==
  /\ run.pc = "record"
  /\ \E i \in 1..3 :
       /\ journal = Phases[i]
       /\ journal' = Phases[i + 1]
       /\ run' = Goto(IF i = 3 THEN run.back ELSE "ladder")
  /\ UNCHANGED <<src, slot, file, row, prev, life, mark, content, used, lost>>

\* resume_any_journalled_recovery, before the slot check looks at anything.
ResumeJournal ==
  /\ run.pc = "resume"
  /\ \/ /\ journal = "absent"
        /\ run' = Goto("check")
     \/ /\ journal = "armed"
        /\ \E seen \in Visible :
             run' = IF seen THEN [run EXCEPT !.pc = "check",
                                             !.retained = slot.exists]
                    ELSE Down
     \/ /\ journal \notin {"absent", "armed"}
        /\ run' = [run EXCEPT !.pc = "ladder", !.back = "check"]
  /\ UNCHANGED <<src, slot, file, dest, used, lost>>

\* check_the_slot, up to the committed observation.  A source it cannot see is
\* passed over: the engine will fail on its own.
CheckTheSlot ==
  /\ run.pc = "check"
  /\ \/ /\ FALSE \in Visible
        /\ run' = [run EXCEPT !.pc = "reconcile", !.dark = TRUE]
        /\ UNCHANGED prev
     \/ /\ prev' = SlotState(Verdict)
        /\ run' = [run EXCEPT
             !.decision = Verdict,
             !.retained = @ \/ Verdict = "recovery_retained",
             !.pc = IF Verdict \notin ResnapshotDecisions THEN "reconcile"
                    ELSE IF run.flag = "resnapshot_off" THEN "disabled"
                    ELSE "begin",
             !.back = "receipt"]
  /\ UNCHANGED <<src, slot, file, row, journal, life, mark, content, used, lost>>

\* check_the_slot under CDC_RESNAPSHOT=0: an alert and a failed run, after the
\* observation was committed.
RebuildDisabled ==
  /\ run.pc = "disabled"
  /\ run' = Down
  /\ UNCHANGED <<src, slot, file, dest, used, lost>>

\* check_the_slot, after the recovery is armed: a retained slot keeps its
\* positions in the receipt, a missing one leaves none to compare with.
RecordRetirement ==
  /\ run.pc = "receipt"
  /\ prev' = IF run.retained THEN [prev EXCEPT !.verdict = "recovery_retained"]
             ELSE [prev EXCEPT !.confirmed = NoLsn, !.restart = NoLsn]
  /\ run' = Goto("reconcile")
  /\ UNCHANGED <<src, slot, file, row, journal, life, mark, content, used, lost>>

\* reconcile, and the journalled acceptance of an orphan file.
Reconcile ==
  /\ run.pc = "reconcile"
  /\ \/ /\ row # NoLsn
        /\ file' = TRUE
        /\ run' = Goto("guard")
        /\ UNCHANGED prev
     \/ /\ row = NoLsn /\ ~file
        /\ run' = Goto("guard")
        /\ UNCHANGED <<file, prev>>
     \/ /\ row = NoLsn /\ file /\ run.flag = "accept_orphan"
        /\ prev' = [prev EXCEPT !.verdict = "no_durable_destination_row"]
        /\ run' = [run EXCEPT !.pc = "begin", !.back = "guard",
                              !.decision = "orphan_offsets_accepted"]
        /\ UNCHANGED file
     \/ /\ row = NoLsn /\ file /\ run.flag # "accept_orphan"
        /\ run' = Down
        /\ UNCHANGED <<file, prev>>
  /\ UNCHANGED <<src, slot, row, journal, life, mark, content, used, lost>>

\* check_invariant_o at start-up.
InvariantOHolds ==
  IF row = NoLsn
  THEN slot.confirmed # NoLsn => run.retained \/ ReadsData
  ELSE slot.confirmed <= row

CheckInvariantO ==
  /\ run.pc = "guard"
  /\ run' = IF run.dark \/ InvariantOHolds THEN Goto("discharge") ELSE Down
  /\ UNCHANGED <<src, slot, file, dest, used, lost>>

\* Mutant: the resume point alone is taken for the rebuild.
ReadyWithResumePoint(emptied) ==
  row # NoLsn \/ Tables \subseteq emptied \/ run.retained

\* complete_if_ready's predicate: positive evidence for every captured table
\* and a hand-over to a stream.
Ready(emptied) ==
  /\ \A t \in Tables : life[t] = "complete"
  /\ row # NoLsn \/ Tables \subseteq emptied \/ run.retained

\* A recovery finished by a run that died is discharged before the engine.
DischargeBeforeEngine ==
  /\ run.pc = "discharge"
  /\ journal' = IF journal = "armed" /\ Ready({}) THEN "absent" ELSE journal
  /\ run' = Goto("owed")
  /\ UNCHANGED <<src, slot, file, row, prev, life, mark, content, used, lost>>

\* Mutant: interrupted snapshots are not put back in the queue.
NotPromoted == life

\* promote_interrupted_snapshots, then the owed queue decides what runs next.
Promoted == [t \in Tables |-> IF life[t] = "in_progress"
                              THEN "awaiting_snapshot" ELSE life[t]]

ReadOwedQueue ==
  /\ run.pc = "owed"
  /\ life' = Promoted
  /\ LET owed == {t \in Tables : Promoted[t] = "awaiting_snapshot"}
     IN run' = IF owed = {} \/ WillSnapshotEverything THEN Goto("engine")
               ELSE IF row = NoLsn /\ ~run.retained THEN Down
               ELSE IF run.flag = "resnapshot_off" \/ run.dark THEN Down
               ELSE [run EXCEPT !.pc = "images", !.main = FALSE, !.at = Wal,
                                !.todo = owed]
  /\ UNCHANGED <<src, slot, file, row, journal, prev, mark, content, used, lost>>

-----------------------------------------------------------------------------
(* Rebuilding tables and streaming.                                         *)

\* The main engine: a snapshot pairs with an exact position only if the
\* engine creates the slot; otherwise it streams from the confirmed one.
StartEngine ==
  /\ run.pc = "engine"
  /\ IF slot.lost \/ run.dark THEN run' = Down /\ UNCHANGED slot
     ELSE /\ slot' = IF slot.exists THEN slot ELSE SlotAt(Wal)
          /\ run' = IF WillSnapshotEverything
                    THEN [run EXCEPT !.pc = "images", !.main = TRUE, !.at = Wal,
                                     !.todo = Tables \ EmptyTables]
                    ELSE [run EXCEPT !.pc = "stream",
                                     !.cursor = slot'.confirmed]
  /\ UNCHANGED <<src, file, dest, used, lost>>

\* A commit group of the main engine carries the resume point with it.
SnapshotPoint == IF run.main THEN MaxOf(row, run.at) ELSE row

\* SnapshotCoordinator.state_for: the first record of a table opens a shadow.
OpenShadow(t) ==
  /\ run.pc = "images"
  /\ t \in run.todo \ EmptyTables
  /\ life[t] # "in_progress"
  /\ life' = [life EXCEPT ![t] = "in_progress"]
  /\ row' = SnapshotPoint
  /\ UNCHANGED <<src, slot, file, journal, prev, mark, content, run, used, lost>>

\* snapshot.swap: image, watermark and lifecycle in one transaction.
Swap(t) ==
  /\ run.pc = "images"
  /\ t \in run.todo
  /\ life[t] = "in_progress"
  /\ life' = [life EXCEPT ![t] = "complete"]
  /\ mark' = [mark EXCEPT ![t] = run.at]
  /\ content' = [content EXCEPT ![t] = Prefix(run.at)]
  /\ row' = SnapshotPoint
  /\ run' = [run EXCEPT !.todo = @ \ {t}]
  /\ UNCHANGED <<src, slot, file, journal, prev, used, lost>>

\* finish_verified_empty_tables: tables proven empty, in one transaction.
Emptied(owed) ==
  /\ life' = [t \in Tables |-> IF t \in owed THEN "complete" ELSE life[t]]
  /\ mark' = [t \in Tables |-> IF t \in owed THEN Wal ELSE mark[t]]
  /\ content' = [t \in Tables |-> IF t \in owed THEN {} ELSE content[t]]

\* The end of the throwaway re-snapshot, or of the main engine's snapshot.
ImagesDone ==
  /\ run.pc = "images"
  /\ run.todo \subseteq EmptyTables
  /\ IF run.main
     THEN /\ run' = [run EXCEPT !.pc = "stream", !.cursor = slot.confirmed]
          /\ UNCHANGED <<life, mark, content>>
     ELSE /\ run' = Goto("engine")
          /\ Emptied(run.todo)
  /\ UNCHANGED <<src, slot, file, row, journal, prev, used, lost>>

\* A re-snapshot that fails re-asserts what it owes (reassert_owed).
ResnapshotFails ==
  /\ run.pc = "images" /\ ~run.main
  /\ used.faults < MaxFaults
  /\ life' = [t \in Tables |-> IF t \in run.todo THEN "awaiting_snapshot"
                               ELSE life[t]]
  /\ run' = Down
  /\ used' = [used EXCEPT !.faults = @ + 1]
  /\ UNCHANGED <<src, slot, file, row, journal, prev, mark, content, lost>>

\* One source transaction: fenced by the resume point and, per table, by the
\* watermark.  A table that owes an image is replaced later, not followed.
ApplyTransaction ==
  /\ run.pc = "stream"
  /\ run.cursor < Wal
  /\ LET p == run.cursor + 1
     IN /\ content' = [t \in Tables |->
             IF /\ life[t] = "complete" /\ t \notin EmptyTables
                /\ p > mark[t] /\ p > row
             THEN content[t] \cup {src.log[p]} ELSE content[t]]
        /\ row' = MaxOf(row, p)
        /\ run' = [run EXCEPT !.cursor = p]
  /\ UNCHANGED <<src, slot, file, journal, prev, life, mark, used, lost>>

\* The acknowledgement follows the commit, and the slot follows it.
Acknowledge ==
  /\ run.pc = "stream" \/ (run.pc = "images" /\ run.main)
  /\ row # NoLsn
  /\ file' = TRUE
  /\ slot' = [slot EXCEPT !.confirmed = MaxOf(@, row),
                          !.restart = MaxOf(@, row)]
  /\ <<file', slot'>> # <<file, slot>>
  /\ UNCHANGED <<src, dest, run, used, lost>>

\* A table-scoped refusal or an operator asks for a new image of one table.
RequestSnapshot(t) ==
  /\ run.pc = "stream"
  /\ "request" \in Faults /\ used.faults < MaxFaults
  /\ life[t] = "complete"
  /\ life' = [life EXCEPT ![t] = "awaiting_snapshot"]
  /\ used' = [used EXCEPT !.faults = @ + 1]
  /\ UNCHANGED <<src, slot, file, row, journal, prev, mark, content, run, lost>>

\* _discharge_recovery: empty tables first, then the journal.
FinishRun ==
  /\ run.pc = "stream"
  /\ LET owed == Awaiting \cap EmptyTables
     IN IF journal = "absent" \/ ~run.main
        THEN /\ run' = IF journal = "absent" THEN Down ELSE Goto("clear")
             /\ UNCHANGED <<life, mark, content>>
        ELSE /\ run' = [run EXCEPT !.pc = "clear", !.emptied = owed]
             /\ Emptied(owed)
  /\ UNCHANGED <<src, slot, file, row, journal, prev, used, lost>>

CompleteIfReady ==
  /\ run.pc = "clear"
  /\ journal' = IF journal = "armed" /\ Ready(run.emptied) THEN "absent"
                ELSE journal
  /\ run' = Down
  /\ UNCHANGED <<src, slot, file, row, prev, life, mark, content, used, lost>>

-----------------------------------------------------------------------------
(* Everything the run does not control.                                     *)

\* A death between the committed observation and the journal is a fault kind
\* of its own.
Crash ==
  /\ run.pc # "down"
  /\ run.pc = "begin" => "unjournalled" \in Faults
  /\ used.crashes < MaxCrashes
  /\ run' = Down
  /\ used' = [used EXCEPT !.crashes = @ + 1]
  /\ UNCHANGED <<src, slot, file, dest, lost>>

\* A source rewound without a fork is looked at before it is written again.
SourceCommit ==
  /\ src.next <= MaxTxns
  /\ row <= Wal \/ prev.tl # src.tl \/ prev.id # src.id
  /\ src' = [src EXCEPT !.log = Append(@, src.next), !.next = @ + 1]
  /\ UNCHANGED <<slot, file, dest, run, used, lost>>

Fault(kind) ==
  /\ run.pc = "down"
  /\ kind \in Faults
  /\ used.faults < MaxFaults
  /\ used' = [used EXCEPT !.faults = @ + 1]
  /\ UNCHANGED run

\* The hand-over window: tables are rebuilt and no resume point fences the
\* stream yet.  What moves the slot inside it is a fault kind of its own.
OutsideWindow ==
  "window" \in Faults \/ row # NoLsn \/ \A t \in Tables : life[t] # "complete"

\* Somebody drops the slot, recreates it, consumes it, or it is invalidated;
\* an unclean restart of the source moves restart_lsn back.
SlotFault ==
  /\ \/ /\ Fault("drop") /\ OutsideWindow /\ slot.exists
        /\ slot' = NoSlot
     \/ /\ Fault("recreate") /\ OutsideWindow
        /\ \E k \in 0..Wal : slot' = SlotAt(k)
     \/ /\ Fault("invalidate") /\ slot.exists
        /\ slot' = [slot EXCEPT !.lost = TRUE]
     \/ /\ Fault("unclean") /\ slot.restart > 0
        /\ slot' = [slot EXCEPT !.restart = 0]
  /\ UNCHANGED <<src, file, dest, lost>>

\* A restore or a promotion forks the timeline; a clone is another cluster; a
\* storage-level rewind keeps the timeline.  A failover slot may survive.
SourceFault ==
  /\ \E k \in 0..Wal :
       \/ /\ Fault("fork") /\ OutsideWindow
          /\ src' = [src EXCEPT !.tl = @ + 1, !.log = SubSeq(@, 1, k)]
          /\ slot' = NoSlot
       \/ /\ Fault("failover") /\ OutsideWindow
          /\ slot.exists /\ slot.confirmed <= k
          /\ src' = [src EXCEPT !.tl = @ + 1, !.log = SubSeq(@, 1, k)]
          /\ UNCHANGED slot
       \/ /\ Fault("clone") /\ OutsideWindow /\ k = 0
          /\ src' = [src EXCEPT !.id = @ + 1, !.log = <<>>]
          /\ slot' = NoSlot
       \/ /\ Fault("rewind") /\ k < row
          /\ src' = [src EXCEPT !.log = SubSeq(@, 1, k)]
          /\ slot' = IF slot.exists THEN SlotAt(k) ELSE slot
  /\ UNCHANGED <<file, dest, lost>>

\* The destination is restored without its control schema, or the state
\* directory is lost with its offsets file.
DestinationFault ==
  /\ \/ /\ Fault("lose_control")
        /\ row' = NoLsn /\ journal' = "absent" /\ prev' = NoPrev
        /\ life' = [t \in Tables |-> "absent"]
        /\ mark' = [t \in Tables |-> 0]
        /\ lost' = TRUE
        /\ UNCHANGED file
     \/ /\ Fault("lose_file") /\ file
        /\ file' = FALSE
        /\ UNCHANGED <<row, journal, prev, life, mark, lost>>
  /\ UNCHANGED <<src, slot, content>>

-----------------------------------------------------------------------------
Acquire ==
  \/ Boot \/ JournalTheReset \/ Begin
  \/ DeleteOffsetsFile \/ DeleteResumePoint \/ RetireSlot \/ WritePhase
  \/ ResumeJournal \/ CheckTheSlot \/ RebuildDisabled
  \/ RecordRetirement \/ Reconcile
  \/ CheckInvariantO \/ DischargeBeforeEngine \/ ReadOwedQueue

Rebuild ==
  \/ StartEngine \/ ImagesDone
  \/ \E t \in Tables : OpenShadow(t) \/ Swap(t)

Stream == ApplyTransaction \/ Acknowledge \/ FinishRun \/ CompleteIfReady

Environment ==
  \/ Crash \/ SourceCommit \/ SlotFault \/ SourceFault \/ DestinationFault
  \/ ResnapshotFails
  \/ \E t \in Tables : RequestSnapshot(t)

Next == Acquire \/ Rebuild \/ Stream \/ Environment

Spec == Init /\ [][Next]_vars

\* A run that has started keeps going, and something starts the next one.
Fairness == WF_vars(Acquire) /\ WF_vars(Rebuild) /\ WF_vars(FinishRun)
            /\ WF_vars(CompleteIfReady)

FairSpec == Spec /\ Fairness

-----------------------------------------------------------------------------
(* Properties.                                                              *)

Lsn == NoLsn..MaxTxns

\* Type correctness of the durable state and of the process memory.
TypeOK ==
  /\ src.log \in Seq(1..MaxTxns) /\ src.next \in 2..(MaxTxns + 1)
  /\ slot \in [exists : BOOLEAN, confirmed : Lsn, restart : Lsn, lost : BOOLEAN]
  /\ slot.exists <=> slot.confirmed # NoLsn
  /\ file \in BOOLEAN
  /\ row \in Lsn
  /\ journal \in {"absent"} \cup {Phases[i] : i \in 1..4}
  /\ life \in [Tables -> {"absent", "in_progress", "complete",
                          "awaiting_snapshot"}]
  /\ mark \in [Tables -> 0..MaxTxns]
  /\ content \in [Tables -> SUBSET (1..MaxTxns)]
  /\ run.todo \subseteq Tables
  /\ run.cursor \in 0..MaxTxns

\* While the main engine streams, every table called complete holds exactly
\* a prefix of the history of the source it is streaming from, at least up to
\* the stream's cursor: no transaction is missing between the image and the
\* stream, and none of another history is left in it.
SoundStream ==
  run.pc = "stream" =>
    \A t \in Tables \ EmptyTables : life[t] = "complete" =>
      \E k \in run.cursor..Wal : content[t] = Prefix(k)

\* A Flight never reads its own half-finished recovery as an orphan offsets
\* file: a file without a resume point only exists where the destination lost
\* its control schema.
OnlyForeignOrphans == row = NoLsn /\ file => lost

\* Clearing the journal is the last thing a recovery does: when it goes, every
\* captured table holds an image of the present source.
ClearsRebuilt ==
  run.pc # "down" /\ journal # "absent" /\ journal' = "absent" =>
    \A t \in Tables : /\ life[t] = "complete"
                      /\ \E k \in 0..Wal :
                           content[t] = IF t \in EmptyTables THEN {}
                                        ELSE Prefix(k)

\* A journal that is cleared before there is a resume point leaves the next
\* run a record of the hand-over: slot_state says the slot was retained, so the
\* next run does not take its own rebuilt tables for somebody else's.
RecordsHandover ==
  run.pc # "down" /\ journal # "absent" /\ journal' = "absent" /\ row' = NoLsn
    /\ EmptyTables # Tables /\ ~slot.lost
  => prev'.verdict = "recovery_retained"

\* A recovery that was started is finished, however often it is interrupted.
RecoveryFinishes == journal # "absent" ~> journal = "absent"
=============================================================================
