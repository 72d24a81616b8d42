--------------------------- MODULE CommitProtocol ---------------------------
(***************************************************************************)
(* The transactional applier of cdc_flight together with the two parties   *)
(* whose progress it controls: the embedded Debezium engine, whose offset  *)
(* file and replication slot may only move after the destination COMMIT,   *)
(* and the start-up reconciliation that decides from where a new process   *)
(* reads again.                                                            *)
(*                                                                         *)
(* The write-ahead log is the constant Wal; a log position (LSN) is an     *)
(* index into it and `head' is how much of it the source has committed.    *)
(* Logical decoding streams whole transactions in commit order, each as    *)
(* BEGIN, its row events and END, so one transaction is one interval of    *)
(* positions.  A non-transactional logical message is one position.        *)
(***************************************************************************)
EXTENDS Integers, Sequences, FiniteSets

CONSTANTS
  Wal,            \* sequence of [kind, tab] records, in commit order
  Tables,         \* the captured tables
  FailingTables,  \* tables whose destination write may fail
  MaxBatch,       \* max.batch.size of the engine
  MaxEvents,      \* commit_max_events: the soft size trigger of a group
  SpillEvents,    \* spill_events: in-memory events at which a unit is staged
  MaxStops        \* bound: crashes, stops, failed applies and lost files

N == Len(Wal)
LSN == 1..N

Kinds == {"begin", "data", "end", "message"}

\* A position after which no transaction is half-delivered.
Boundary(l) == l = 0 \/ (l \in LSN /\ Wal[l].kind \in {"end", "message"})

ASSUME WalAssumption ==
  /\ Wal \in Seq([kind : Kinds, tab : Tables])
  /\ Boundary(N)
  /\ \A l \in LSN : IF Wal[l].kind \in {"begin", "message"}
                      THEN Boundary(l - 1)
                      ELSE l > 1 /\ Wal[l - 1].kind \in {"begin", "data"}

ASSUME BoundsAssumption ==
  /\ FailingTables \subseteq Tables
  /\ MaxBatch \in Nat \ {0}
  /\ MaxEvents \in Nat \ {0}
  /\ SpillEvents \in Nat \ {0}
  /\ MaxStops \in Nat

Missing == -1   \* no offsets file, or an empty one
Corrupt == -2   \* an offsets file cut short while it was being written
NoUnit  == [first |-> 0, mem |-> 0, spillTo |-> 0]

VARIABLES
  head, slot,                       \* source: WAL committed, confirmed_flush_lsn
  file, rfile, marker,              \* state dir: offsets.dat, replay file, replay intent
  replaying, fed, batchEnd, full, marked,           \* engine
  pc, open, group, acked, resume, close,            \* applier, in memory
  rows, row, staged, blocked,       \* destination; `staged' inside the open txn
  stops

source  == <<head, slot>>
disk    == <<file, rfile, marker>>
engine  == <<replaying, fed, batchEnd, full, marked>>
applier == <<pc, open, group, acked, resume, close>>
dest    == <<rows, row, staged, blocked>>
vars    == <<source, disk, engine, applier, dest, stops>>

MaxOf(a, b) == IF a >= b THEN a ELSE b

Running == pc \notin {"down", "mark_installing", "install", "clear_intent"}

NoIntent == [phase |-> "none", fp |-> 0]

-----------------------------------------------------------------------------
(* Commit group contents.  A unit is the interval first..last of positions  *)
(* it delivers; rows at or below spillTo were staged in spill_events and    *)
(* are no longer in memory.  A control unit (heartbeat) is an empty         *)
(* interval whose `last' is the position its record carries.                *)

EventsIn(u) == {l \in u.first..u.last : Wal[l].kind \in {"data", "message"}}

GroupEvents == UNION {EventsIn(group[i]) : i \in DOMAIN group}

\* Mutant: the staged prefix of a unit is not read back.
DeliversTail(u, l) ==
  /\ ~u.fenced /\ l \in EventsIn(u) /\ l > u.spillTo
  /\ IF Wal[l].kind = "message" THEN rows[l] = 0 ELSE Wal[l].tab \notin blocked

\* Mutant: a quarantined table holds back every unit it appears in.
DeliversHealthyUnits(u, l) ==
  /\ ~u.fenced /\ l \in EventsIn(u)
  /\ \A m \in EventsIn(u) : Wal[m].tab \notin blocked
  /\ Wal[l].kind = "message" => rows[l] = 0

\* apply_units + GroupPlan.add_unit/_collect: a fenced unit is skipped, a
\* quarantined table's rows are skipped, a staged prefix is whatever
\* spill.load finds, and a logical message is claimed in its ledger once.
Delivers(u, l) ==
  /\ ~u.fenced
  /\ l \in EventsIn(u)
  /\ l <= u.spillTo => l \in staged
  /\ IF Wal[l].kind = "message" THEN rows[l] = 0 ELSE Wal[l].tab \notin blocked

Applied ==
  [l \in LSN |-> rows[l] + Cardinality({i \in DOMAIN group : Delivers(group[i], l)})]

\* Mutant: the offset map of the group's first unit.
PointForFirst == [lsn |-> MaxOf(resume.lsn, group[Len(group)].last),
                  off |-> group[1].last]

\* offsets.point_for: the LSN never goes back, the offset map is always the
\* last unit's - on a replay it may therefore be older than the LSN.
PointFor == [lsn |-> MaxOf(resume.lsn, group[Len(group)].last),
             off |-> group[Len(group)].last]

\* open_unit_has_spilled
OpenUnitHasSpilled == open # NoUnit /\ open.spillTo >= open.first

Init ==
  /\ head = 0 /\ slot = 0
  /\ file = 0 /\ rfile = Missing /\ marker = NoIntent
  /\ replaying = FALSE /\ fed = 0 /\ batchEnd = 0 /\ full = FALSE /\ marked = 0
  /\ pc = "down" /\ open = NoUnit /\ group = <<>> /\ acked = 0
  /\ resume = [lsn |-> 0, off |-> 0] /\ close = FALSE
  /\ rows = [l \in LSN |-> 0] /\ row = [lsn |-> 0, off |-> 0]
  /\ staged = {} /\ blocked = {}
  /\ stops = 0

-----------------------------------------------------------------------------
(* Source and engine.                                                       *)

\* A source transaction, or a logical message, commits.
SourceCommit ==
  /\ \E b \in head+1..N : /\ Boundary(b)
                          /\ \A m \in head+1..b-1 : ~Boundary(m)
                          /\ head' = b
  /\ UNCHANGED <<slot, disk, engine, applier, dest, stops>>

\* Mutant: only full batches are handed over.
HandleFullBatch ==
  /\ pc = "idle" /\ fed + MaxBatch <= head
  /\ batchEnd' = fed + MaxBatch
  /\ full' = TRUE
  /\ pc' = "feed"
  /\ UNCHANGED <<source, disk, replaying, fed, marked, open, group, acked,
                 resume, close, dest, stops>>

\* The engine's poll hands the next records to handle_batch.
HandleBatch ==
  /\ pc = "idle"
  /\ \E e \in fed+1..head : /\ e - fed <= MaxBatch
                            /\ batchEnd' = e
                            /\ full' = (e - fed = MaxBatch)
  /\ pc' = "feed"
  /\ UNCHANGED <<source, disk, replaying, fed, marked, open, group, acked,
                 resume, close, dest, stops>>

\* Mutant: a replayed transaction is not fenced.
AddUnitUnfenced(first, last, spillTo, isTxn) ==
  group' = Append(group, [first |-> first, last |-> last, spillTo |-> spillTo,
                          fenced |-> FALSE])

\* append_unit: replayed transactions are fenced against the durable LSN.
AddUnit(first, last, spillTo, isTxn) ==
  group' = Append(group, [first |-> first, last |-> last, spillTo |-> spillTo,
                          fenced |-> isTxn /\ last <= resume.lsn])

\* Assembler.feed for BEGIN: opens a unit.
FeedBegin ==
  /\ Wal[fed + 1].kind = "begin"
  /\ open' = [first |-> fed + 1, mem |-> 0, spillTo |-> fed]
  /\ UNCHANGED <<group, staged>>

\* Assembler._feed_data and _maybe_spill_txn: the in-memory tail is staged
\* in the destination transaction once it reaches the threshold.
FeedData ==
  /\ Wal[fed + 1].kind = "data"
  /\ IF open.mem + 1 >= SpillEvents
       THEN /\ open' = [open EXCEPT !.mem = 0, !.spillTo = fed + 1]
            /\ staged' = staged \cup {l \in open.spillTo+1..fed+1 : Wal[l].kind = "data"}
       ELSE /\ open' = [open EXCEPT !.mem = @ + 1]
            /\ UNCHANGED staged
  /\ UNCHANGED group

\* Assembler._feed_end: the unit is whole.
FeedEnd ==
  /\ Wal[fed + 1].kind = "end"
  /\ AddUnit(open.first, fed + 1, open.spillTo, TRUE)
  /\ open' = NoUnit
  /\ UNCHANGED staged

\* Assembler._message_unit: a non-transactional message is its own unit and
\* is not fenced; its ledger claim makes it idempotent.
FeedMessage ==
  /\ Wal[fed + 1].kind = "message"
  /\ AddUnit(fed + 1, fed + 1, fed, FALSE)
  /\ UNCHANGED <<open, staged>>

Feed ==
  /\ pc = "feed" /\ fed < batchEnd
  /\ FeedBegin \/ FeedData \/ FeedEnd \/ FeedMessage
  /\ fed' = fed + 1
  /\ UNCHANGED <<source, disk, replaying, batchEnd, full, marked, pc, acked,
                 resume, close, rows, row, blocked, stops>>

\* Mutant: a heartbeat is a control unit even inside an open transaction.
HandleHeartbeatInTxn ==
  /\ pc = "idle"
  /\ AddUnit(fed + 1, fed, fed, FALSE)
  /\ full' = (MaxBatch = 1)
  /\ batchEnd' = fed
  /\ pc' = "feed"
  /\ UNCHANGED <<source, disk, replaying, fed, marked, open, acked, resume,
                 close, dest, stops>>

\* A heartbeat is a batch of one record.  Inside an open transaction it is
\* retained by it, otherwise it is a control unit of its own.
HandleHeartbeat ==
  /\ pc = "idle"
  /\ IF open = NoUnit
       THEN AddUnit(fed + 1, fed, fed, FALSE)
       ELSE UNCHANGED group
  /\ full' = (MaxBatch = 1)
  /\ batchEnd' = fed
  /\ pc' = "feed"
  /\ UNCHANGED <<source, disk, replaying, fed, marked, open, acked, resume,
                 close, dest, stops>>

\* The end of Applier._handle: commit, or keep buffering.  A batch that is
\* not full says the engine's queue is drained.
EndOfBatch ==
  /\ pc = "feed" /\ fed = batchEnd
  /\ pc' = IF /\ group # <<>>
              /\ ~OpenUnitHasSpilled
              /\ close \/ ~full \/ Cardinality(GroupEvents) >= MaxEvents
             THEN "commit" ELSE "idle"
  /\ UNCHANGED <<source, disk, engine, open, group, acked, resume, close,
                 dest, stops>>

\* The age timer (and a drain request) only asks.  Its thread reads the
\* group twice, so the flag may also land on a group that was just reset.
AgeTimer ==
  /\ Running /\ ~close
  /\ close' = TRUE
  /\ UNCHANGED <<source, disk, engine, pc, open, group, acked, resume, dest,
                 stops>>

-----------------------------------------------------------------------------
(* commit_group.                                                            *)

\* BEGIN (unless a spill opened it), rows, commit log, resume point, alert
\* armed, window entered; nothing is visible until COMMIT.
ApplyGroup ==
  /\ pc = "commit"
  /\ pc' = "window"
  /\ UNCHANGED <<source, disk, engine, open, group, acked, resume, close,
                 dest, stops>>

\* A destination write of one table fails: the transaction is rolled back,
\* the refusal is recorded durably by an independent connection and the
\* same units are committed again without that table.
ContainDestinationFailure ==
  /\ pc = "commit"
  /\ \E t \in FailingTables \ blocked :
       /\ \E i \in DOMAIN group, l \in LSN :
            Delivers(group[i], l) /\ Wal[l].kind = "data" /\ Wal[l].tab = t
       /\ blocked' = blocked \cup {t}
  /\ staged' = {}
  /\ UNCHANGED <<source, disk, engine, applier, rows, row, stops>>

\* COMMIT succeeds: rows and resume point become visible together, and the
\* staged rows of the group are gone.
Commit ==
  /\ pc = "window"
  /\ rows' = Applied
  /\ row' = PointFor
  /\ staged' = {}
  /\ pc' = "ack"
  /\ acked' = 0
  /\ UNCHANGED <<source, disk, engine, open, group, resume, close, blocked,
                 stops>>

\* Mutant: units are acknowledged while the destination commits.
MarkProcessedEarly ==
  /\ pc \in {"window", "ack"} /\ acked < Len(group)
  /\ acked' = acked + 1
  /\ marked' = group[acked + 1].last
  /\ UNCHANGED <<source, disk, replaying, fed, batchEnd, full, pc, open, group,
                 resume, close, dest, stops>>

\* markProcessed for the next unit of the group.
MarkProcessed ==
  /\ pc = "ack" /\ acked < Len(group)
  /\ acked' = acked + 1
  /\ marked' = group[acked + 1].last
  /\ UNCHANGED <<source, disk, replaying, fed, batchEnd, full, pc, open, group,
                 resume, close, dest, stops>>

\* The offset store the running engine uses.
InUse == IF replaying THEN rfile ELSE file

SaveInUse(p) ==
  /\ file' = IF replaying THEN file ELSE p
  /\ rfile' = IF replaying THEN p ELSE rfile

\* markBatchFinished: the offsets are flushed to the file.
MarkBatchFinished ==
  /\ pc = "ack" /\ acked = Len(group)
  /\ SaveInUse(marked)
  /\ pc' = "settle"
  /\ UNCHANGED <<source, marker, engine, open, group, acked, resume, close,
                 dest, stops>>

\* After the window: the in-memory resume point becomes the committed one,
\* capture_offset_file verifies the file is not ahead, the group is reset.
Settle ==
  /\ pc = "settle"
  /\ InUse <= row.lsn
  /\ resume' = row
  /\ group' = <<>> /\ acked' = 0 /\ close' = FALSE
  /\ pc' = "idle"
  /\ UNCHANGED <<source, disk, engine, open, dest, stops>>

\* Mutant: whatever the offset store holds is confirmed.
EngineConfirmAny ==
  /\ Running
  /\ InUse # slot
  /\ slot' = InUse
  /\ UNCHANGED <<head, disk, engine, applier, dest, stops>>

\* Mutant: a replay run confirms nothing.
EngineConfirmNoReplay ==
  /\ Running /\ ~replaying
  /\ InUse > slot
  /\ slot' = InUse
  /\ UNCHANGED <<head, disk, engine, applier, dest, stops>>

\* The connector confirms the flushed offset to the slot; confirmed_flush_lsn
\* never moves back.
EngineConfirm ==
  /\ Running
  /\ InUse > slot
  /\ slot' = InUse
  /\ UNCHANGED <<head, disk, engine, applier, dest, stops>>

-----------------------------------------------------------------------------
(* Ends of a process.                                                       *)

ForgetMemory ==
  /\ open' = NoUnit /\ group' = <<>> /\ acked' = 0 /\ close' = FALSE
  /\ staged' = {}
  /\ batchEnd' = fed /\ full' = FALSE

\* The process dies at any point: a kill, the commit watchdog, an exception
\* that stops the engine.  A death inside the flush may leave a torn file;
\* a closing engine may still flush what was marked.
Crash ==
  /\ pc # "down" /\ stops < MaxStops
  /\ \/ UNCHANGED <<file, rfile>>
     \/ pc = "ack" /\ acked > 0 /\ \E p \in {marked, Corrupt} : SaveInUse(p)
  /\ ForgetMemory
  /\ pc' = "down" /\ stops' = stops + 1
  /\ UNCHANGED <<source, marker, replaying, fed, marked, resume, rows, row,
                 blocked>>

\* COMMIT fails ambiguously: the destination may have committed, the client
\* does not know, nothing is acknowledged and the run ends.
CommitAmbiguous ==
  /\ pc = "window" /\ stops < MaxStops
  /\ rows' = Applied /\ row' = PointFor
  /\ ForgetMemory
  /\ pc' = "down" /\ stops' = stops + 1
  /\ UNCHANGED <<source, disk, replaying, fed, marked, resume, blocked>>

\* drain_on_shutdown: the applier is sealed, buffered units, the open unit
\* and the open destination transaction are dropped, the engine closes.  A
\* run that replayed then installs its offset file if it has one.
DrainOnShutdown ==
  /\ pc = "idle" /\ stops < MaxStops
  /\ ForgetMemory
  /\ stops' = stops + 1
  /\ pc' = IF replaying /\ rfile >= 0 THEN "mark_installing" ELSE "down"
  /\ UNCHANGED <<source, disk, replaying, fed, marked, resume, rows, row,
                 blocked>>

\* mark_replay_installing: the fingerprint of the file about to be installed
\* is durable before the file is touched.
MarkReplayInstalling ==
  /\ pc = "mark_installing"
  /\ IF rfile <= row.off
       THEN marker' = [phase |-> "installing", fp |-> rfile] /\ pc' = "install"
       ELSE pc' = "down" /\ UNCHANGED marker
  /\ UNCHANGED <<source, file, rfile, engine, open, group, acked, resume,
                 close, dest, stops>>

InstallReplayOffset ==
  /\ pc = "install"
  /\ file' = rfile
  /\ pc' = "clear_intent"
  /\ UNCHANGED <<source, rfile, marker, engine, open, group, acked, resume,
                 close, dest, stops>>

ClearReplayIntent ==
  /\ pc = "clear_intent"
  /\ marker' = NoIntent /\ rfile' = Missing
  /\ pc' = "down"
  /\ UNCHANGED <<source, file, engine, open, group, acked, resume,
                 close, dest, stops>>

\* The state directory is lost between two runs.
LoseFile ==
  /\ pc = "down" /\ stops < MaxStops /\ file # Missing
  /\ file' = Missing
  /\ stops' = stops + 1
  /\ UNCHANGED <<source, rfile, marker, engine, applier, dest>>

-----------------------------------------------------------------------------
(* Start-up: the replay intent, then offsets.reconcile.                     *)

\* replay_install_is_durable: the crash came after the file was installed.
InstallIsDurable ==
  marker.phase = "installing" /\ file = marker.fp /\ file <= row.off

IntentAtStart == IF InstallIsDurable THEN NoIntent ELSE marker

\* reconcile's "resume": the file's position and its whole map are the row's.
FileAgrees == file = row.lsn /\ file = row.off

ArmedIntent == [phase |-> "pending", fp |-> 0]

\* A file that is missing, corrupt, behind, ahead or different is rebuilt
\* from the row under a durable intent, and while an intent stands the run
\* reads again from the slot into a disposable offset file.
Start ==
  /\ pc = "down"
  /\ slot <= row.lsn                                     \* check_slot: ok
  /\ IF IntentAtStart = NoIntent /\ FileAgrees
       THEN /\ marker' = NoIntent /\ UNCHANGED <<file, rfile>>
            /\ replaying' = FALSE /\ fed' = file
       ELSE /\ marker' = IF IntentAtStart = NoIntent THEN ArmedIntent ELSE IntentAtStart
            /\ file' = IF IntentAtStart = NoIntent THEN row.off ELSE file
            /\ rfile' = Missing
            /\ replaying' = TRUE /\ fed' = slot
  /\ batchEnd' = fed' /\ full' = FALSE /\ marked' = fed'
  /\ resume' = row
  /\ pc' = "idle"
  /\ UNCHANGED <<source, open, group, acked, close, dest, stops>>

\* The process dies after the intent is armed, before the file is rebuilt.
CrashBeforeRepair ==
  /\ pc = "down" /\ stops < MaxStops
  /\ slot <= row.lsn
  /\ IntentAtStart = NoIntent /\ ~FileAgrees
  /\ marker' = ArmedIntent
  /\ stops' = stops + 1
  /\ UNCHANGED <<source, file, rfile, engine, applier, dest>>

Next ==
  \/ SourceCommit \/ HandleBatch \/ Feed \/ HandleHeartbeat \/ EndOfBatch
  \/ AgeTimer \/ ApplyGroup \/ ContainDestinationFailure \/ Commit
  \/ MarkProcessed \/ MarkBatchFinished \/ Settle \/ EngineConfirm
  \/ Crash \/ CommitAmbiguous \/ DrainOnShutdown \/ MarkReplayInstalling
  \/ InstallReplayOffset \/ ClearReplayIntent \/ LoseFile \/ Start
  \/ CrashBeforeRepair

Spec == Init /\ [][Next]_vars

\* Fairness: the engine's poll loop and the callback thread are ordinary
\* running threads, the heartbeat is a timer of the connector and a service
\* restarts its process.  The engine's queue is FIFO, so heartbeats cannot
\* keep a queued record back for ever: strong fairness for HandleBatch.
Fairness ==
  /\ WF_vars(Start) /\ SF_vars(HandleBatch) /\ WF_vars(HandleHeartbeat)
  /\ WF_vars(Feed) /\ WF_vars(EndOfBatch) /\ WF_vars(ApplyGroup)
  /\ WF_vars(Commit) /\ WF_vars(MarkProcessed) /\ WF_vars(MarkBatchFinished)
  /\ WF_vars(Settle) /\ WF_vars(EngineConfirm)
  /\ WF_vars(MarkReplayInstalling) /\ WF_vars(InstallReplayOffset)
  /\ WF_vars(ClearReplayIntent)

FairSpec == Spec /\ Fairness

-----------------------------------------------------------------------------
Unit == [first : 1..N+1, last : 0..N, spillTo : 0..N, fenced : BOOLEAN]

\* Every variable keeps its type.
TypeOK ==
  /\ head \in 0..N /\ slot \in 0..N
  /\ file \in Corrupt..N /\ rfile \in Corrupt..N
  /\ marker \in [phase : {"none", "pending", "installing"}, fp : 0..N]
  /\ replaying \in BOOLEAN /\ full \in BOOLEAN
  /\ fed \in 0..N /\ batchEnd \in 0..N /\ marked \in 0..N
  /\ pc \in {"down", "idle", "feed", "commit", "window", "ack", "settle",
             "mark_installing", "install", "clear_intent"}
  /\ open \in [first : 0..N, mem : Nat, spillTo : 0..N]
  /\ group \in Seq(Unit) /\ acked \in 0..Len(group)
  /\ resume \in [lsn : 0..N, off : 0..N] /\ row \in [lsn : 0..N, off : 0..N]
  /\ close \in BOOLEAN
  /\ rows \in [LSN -> Nat]
  /\ staged \subseteq LSN /\ blocked \subseteq FailingTables
  /\ stops \in 0..MaxStops

\* Invariant O (applier.py, commit_protocol.py): nothing the engine has
\* marked, flushed to an offset file or confirmed to the slot is ahead of
\* the resume point the destination committed.
InvariantO ==
  /\ slot <= row.lsn /\ marked <= row.lsn
  /\ file <= row.lsn /\ rfile <= row.lsn

\* The position a restart may have to read from is still in the source: the
\* slot never passes the durable offset map, even after a replay that was
\* cut short wrote a map older than the durable LSN.
ReplayStaysReadable ==
  /\ slot <= row.off
  /\ Running => slot <= fed

\* Exactly once: every row event up to the durable resume point is in the
\* destination once and none beyond it is there, whatever was replayed.  A
\* quarantined table is only promised at most once.
ExactlyOnce ==
  \A l \in LSN :
    /\ rows[l] <= 1
    /\ row.lsn < l => rows[l] = 0
    /\ (/\ Wal[l].kind \in {"data", "message"}
        /\ Wal[l].kind = "data" => Wal[l].tab \notin blocked
        /\ l <= row.lsn) => rows[l] = 1

\* Invariant B: the durable resume point, and every position a process can
\* restart from, lies between two whole source transactions.
WholeTransactions ==
  /\ Boundary(row.lsn) /\ Boundary(row.off) /\ Boundary(slot)
  /\ file >= 0 => Boundary(file)

EventLSNs == {l \in LSN : Wal[l].kind \in {"data", "message"}}

\* The refinement mapping: an event is accounted for when it is in the
\* destination, or held out because its table is quarantined.
Accounted ==
  {l \in EventLSNs : \/ rows[l] > 0
                     \/ Wal[l].kind = "data" /\ Wal[l].tab \in blocked
                        /\ l <= row.lsn}

Promise == INSTANCE Delivery WITH Events <- EventLSNs, delivered <- Accounted

\* The applier implements Delivery: a destination COMMIT makes a prefix of
\* whole source transactions visible and every other step is invisible.
DeliversInOrder == Promise!SafeSpec

\* The same with its liveness: whatever the source commits is delivered.
DeliversEventually == Promise!Spec

\* Retained WAL is released: every position the source commits is confirmed
\* to the slot in the end, replays and restarts included.
SlotAdvances == \A l \in LSN : (head >= l) ~> (slot >= l)
=============================================================================
