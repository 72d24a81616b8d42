----------------------------- MODULE Resnapshot -----------------------------
(***************************************************************************)
(* The blocking re-snapshot of the tables a pipeline owes an image, and    *)
(* the two durable queues that feed it: the table lifecycle                *)
(* (`table_lifecycle`) and the schema refusals (`destination_refusals`).   *)
(*                                                                         *)
(* A run discharges the interruption marker of its predecessor, promotes   *)
(* half-built images to owed work, decides which quarantined tables may be *)
(* retried, and rebuilds the owed tables batch by batch through a          *)
(* throwaway slot whose consistent point becomes the table's fence.  Only  *)
(* then does the main stream start; it skips the transactions of a table   *)
(* that lie before the table's fence.  The source moves at any time, any   *)
(* process may die between two durable writes, and a callback that does    *)
(* not quiesce may still commit after its run has given up.                *)
(*                                                                         *)
(* A source transaction is one position of `source.wal`: an insert of one  *)
(* row (the row is named by its position) or a delete of every row.  An    *)
(* image counts each row, so that a duplicate is visible.                  *)
(***************************************************************************)
EXTENDS Integers, Sequences, FiniteSets, Functions

CONSTANTS
    Tables,      \* the captured relations
    Fragile,     \* those of them whose source relation may be altered or dropped
    DropModes,   \* the configured drop policies a run may have
    Starts,      \* the lifecycle state all tables are in at first
    MaxWal(_),   \* bound, for a start: source transactions
    MaxAlters(_),\* bound, for a start: changes of one relation's shape
    MaxFaults    \* bound: crashes, engine failures and failed source reads

ASSUME ResnapshotAssumption ==
    /\ \A some \in SUBSET Tables : Cardinality(some) \in Nat
    /\ Starts \subseteq {"complete", "awaiting_snapshot"}
    /\ \A start \in Starts : MaxWal(start) \in Nat

VARIABLES
    source,      \* wal, exists, shape (number and flaw), drop policy
    control,     \* the destination's control schema: lifecycle, fence, refusal, resume point
    image,       \* the destination tables: how often each row is present
    recovery,    \* the interruption marker on disk and the throwaway slot
    proc,        \* the running process: where it is, and its locals
    trail        \* history: the start, faults spent, retries at the current shape, blind refusals

vars == <<source, control, image, recovery, proc, trail>>

-----------------------------------------------------------------------------
(***************************************************************************)
(* The source and what a reader of it sees.                                *)
(***************************************************************************)
Length == Len(source.wal)

Positions == 1 .. MaxWal(trail.start)

Event(t, i, kind) == source.wal[i] = <<t, kind>>

\* The rows of t once the first n transactions are in.
Rows(t, n) ==
    {i \in 1 .. n : /\ Event(t, i, "insert")
                    /\ \A j \in i + 1 .. n : ~Event(t, j, "delete")}

Image(rows) == [i \in Positions |-> IF i \in rows THEN 1 ELSE 0]

NoImage == Image({})

\* Whether a relation's shape is refused, and how early: its type descriptors cannot
\* be resolved, or they can and a row cannot be materialised.
Flaws == {"none", "descriptor", "row"}

Bad(t) == source.shape[t].flaw # "none"

-----------------------------------------------------------------------------
(***************************************************************************)
(* The durable state machines.                                             *)
(***************************************************************************)
Owing == {"awaiting_snapshot", "in_progress"}

TABLE_LIFECYCLE ==
    {<<"absent", "none">>, <<"absent", "in_progress">>, <<"absent", "awaiting_snapshot">>,
     <<"none", "in_progress">>, <<"complete", "in_progress">>,
     <<"awaiting_snapshot", "in_progress">>, <<"in_progress", "complete">>,
     <<"awaiting_snapshot", "complete">>, <<"none", "awaiting_snapshot">>,
     <<"complete", "awaiting_snapshot">>, <<"in_progress", "awaiting_snapshot">>,
     <<"awaiting_snapshot", "awaiting_snapshot">>, <<"complete", "complete">>,
     <<"none", "none">>, <<"awaiting_snapshot", "gone">>, <<"gone", "awaiting_snapshot">>,
     <<"complete", "none">>, <<"in_progress", "none">>, <<"awaiting_snapshot", "none">>,
     <<"none", "absent">>, <<"complete", "absent">>, <<"in_progress", "absent">>,
     <<"awaiting_snapshot", "absent">>}

\* table_lifecycle.transition: only a declared edge is written.
Transition(c, ts, to) ==
    [c EXCEPT !.state = [t \in Tables |->
        IF t \in ts /\ <<c.state[t], to>> \in TABLE_LIFECYCLE THEN to ELSE c.state[t]]]

RequestSnapshot(c, ts) == Transition(c, ts, "awaiting_snapshot")

\* Inputs and fingerprints are numbers: a row refusal is identified by the shape
\* it met, every other origin by the table alone, an unread fingerprint is NULL.
NULL == -1

TableIdentity == 0

NoRefusal == [state |-> "absent", input |-> NULL, fingerprint |-> NULL]

InState(c, st) == {t \in Tables : c.refusal[t].state = st}

Quarantined(c) == InState(c, "quarantined")

Pending(c) == InState(c, "pending")

Held(c) ==
    IF source.policy = "log" THEN {t \in Tables : c.state[t] \in Owing} ELSE {}

Blocked(c) == Quarantined(c) \union {t \in Tables : c.state[t] = "gone"}

\* destination_refusals.record_schema_refusal: the first refusal of an input is
\* pending, the second in a row quarantines the table and keeps the fingerprint
\* already known when this one could not be read.
RecordRefusal(c, t, input, fingerprint) ==
    LET before == c.refusal[t]
        repeated == before.state = "pending" /\ before.input = input
        kept == IF fingerprint = NULL /\ repeated THEN before.fingerprint ELSE fingerprint
        now == IF before.state = "quarantined" THEN before
               ELSE [state |-> IF repeated THEN "quarantined" ELSE "pending",
                     input |-> input, fingerprint |-> kept]
    IN  RequestSnapshot([c EXCEPT !.refusal[t] = now], {t})

\* destination_refusals.resolve_schema_refusal, in the completing transaction.
Resolve(c, ts) ==
    [c EXCEPT !.refusal = [t \in Tables |->
        IF t \in ts /\ c.refusal[t].state # "absent" /\ c.state[t] \in {"complete", "gone"}
        THEN [c.refusal[t] EXCEPT !.state = "resolved"] ELSE c.refusal[t]]]

\* resnapshot_projection.project_snapshot_completion: fence and discharge together.
Complete(c, ts, at) ==
    Resolve([Transition(c, ts, "complete") EXCEPT !.fence =
                [t \in Tables |-> IF t \in ts THEN at ELSE c.fence[t]]], ts)

-----------------------------------------------------------------------------
Idle == [pc |-> "down", owed |-> {}, gate |-> {}, todo |-> <<>>, batch |-> {},
         point |-> 0, scanned |-> {}, swapped |-> {}, finished |-> {}, sampled |-> 0,
         missing |-> {}, empty |-> {}, refused |-> {}, goes |-> FALSE,
         blocked |-> {}]

Goto(pc) == proc' = [proc EXCEPT !.pc = pc]

At(pc) == proc.pc = pc

Faulty == trail.faults < MaxFaults

Fault == Faulty /\ trail' = [trail EXCEPT !.faults = @ + 1]

Unfaulted == UNCHANGED trail

\* Every table is complete, or every one is owed by a recovery of the slot.
Init ==
    /\ source \in {[wal |-> <<>>, exists |-> [t \in Tables |-> TRUE],
                    shape |-> [t \in Tables |-> [n |-> 0, flaw |-> "none"]], policy |-> p] :
                   p \in DropModes}
    /\ trail \in {[start |-> st, faults |-> 0, again |-> [t \in Tables |-> 0],
                   blind |-> [t \in Tables |-> 0]] : st \in Starts}
    /\ control = [state |-> [t \in Tables |-> trail.start], fence |-> [t \in Tables |-> 1],
                  refusal |-> [t \in Tables |-> NoRefusal], resume |-> 0]
    /\ image = [t \in Tables |-> NoImage]
    /\ recovery = [marker |-> "absent", tables |-> {}, slot |-> FALSE]
    /\ proc = Idle

-----------------------------------------------------------------------------
(***************************************************************************)
(* The source.                                                             *)
(***************************************************************************)
SourceCommits(t, kind) ==
    /\ source.exists[t]
    /\ Length < MaxWal(trail.start)
    /\ source' = [source EXCEPT !.wal = Append(@, <<t, kind>>)]
    /\ UNCHANGED <<control, image, recovery, proc, trail>>

SourceDrops(t) ==
    /\ t \in Fragile /\ source.exists[t]
    /\ source' = [source EXCEPT !.exists[t] = FALSE]
    /\ UNCHANGED <<control, image, recovery, proc, trail>>

SourceAlters(t, flaw) ==
    /\ t \in Fragile /\ source.exists[t]
    /\ source.shape[t].n < MaxAlters(trail.start)
    /\ source' = [source EXCEPT !.shape[t] = [n |-> @.n + 1, flaw |-> flaw]]
    /\ trail' = [trail EXCEPT !.again[t] = 0, !.blind[t] = 0]
    /\ UNCHANGED <<control, image, recovery, proc>>

\* catalog_descriptors.source_relation_fingerprint, which answers nothing when
\* the catalog cannot be read.
Fingerprint(t) == source.shape[t].n

\* A refusal of t in the transaction that turns `c` into the control state;
\* `seen` says whether the fingerprint could be read.
Refuses(c, t, input, seen) ==
    /\ control' = RecordRefusal(c, t, input, IF seen THEN Fingerprint(t) ELSE NULL)
    /\ seen \/ Faulty
    /\ trail' = IF seen THEN trail
                ELSE [trail EXCEPT !.faults = @ + 1, !.blind[t] = @ + 1]

-----------------------------------------------------------------------------
(***************************************************************************)
(* Start of a run: the predecessor's marker, then the owed queue.          *)
(***************************************************************************)
Start ==
    /\ At("down")
    /\ Goto("requeue")
    /\ UNCHANGED <<source, control, image, recovery, trail>>

\* resnapshot_recovery.requeue_interrupted, up to the consumed marker.
Requeue ==
    /\ At("requeue")
    /\ IF recovery.marker = "armed"
       THEN control' = RequestSnapshot(control, recovery.tables)
       ELSE UNCHANGED control
    /\ Goto("promote")
    /\ UNCHANGED <<source, image, recovery, trail>>

\* The marker is consumed and discarded; what a dead process left in progress is
\* owed again; the owed queue is read once.
Promote ==
    /\ At("promote")
    /\ recovery' = [recovery EXCEPT !.marker = "absent", !.tables = {}]
    /\ control' = Transition(control,
                      {t \in Tables : control.state[t] = "in_progress"}, "awaiting_snapshot")
    /\ LET owed == {t \in Tables : control'.state[t] = "awaiting_snapshot"}
       IN  proc' = [proc EXCEPT !.pc = "gate", !.owed = owed,
                                !.gate = owed \intersect Quarantined(control)]
    /\ UNCHANGED <<source, image, trail>>

-----------------------------------------------------------------------------
(***************************************************************************)
(* resnapshot_batches.run_owed: which quarantined tables may be retried,   *)
(* and in which batches the rest is rebuilt.                               *)
(***************************************************************************)
\* Mutant: any fingerprint on record lets the table be retried.
RetriesEveryRun(t, seen) ==
    /\ seen
    /\ control.refusal[t].fingerprint # NULL

\* destination_refusals.quarantine_retry_allowed for a relation that exists.
RetryAllowed(t, seen) ==
    /\ seen
    /\ control.refusal[t].fingerprint \notin {NULL, Fingerprint(t)}

Adopted(t, seen) ==
    IF seen /\ control.refusal[t].fingerprint = NULL
    THEN [control EXCEPT !.refusal[t].fingerprint = Fingerprint(t)]
    ELSE control

\* discharge_quarantined_source_missing: the stale image goes with the obligation.
Discharge(t) ==
    /\ At("gate") /\ t \in proc.gate
    /\ ~source.exists[t]
    /\ control' = Resolve([Transition(control, {t}, "gone")
                              EXCEPT !.fence[t] = Length + 1], {t})
    /\ image' = [image EXCEPT ![t] = NoImage]
    /\ proc' = [proc EXCEPT !.gate = @ \ {t}, !.owed = @ \ {t}]
    /\ UNCHANGED <<source, recovery, trail>>

Gate(t, seen) ==
    /\ At("gate") /\ t \in proc.gate
    /\ source.exists[t]
    /\ seen \/ Faulty
    /\ IF RetryAllowed(t, seen)
       THEN /\ control' = RequestSnapshot([control EXCEPT !.refusal[t].state = "pending"], {t})
            /\ trail' = [trail EXCEPT !.again[t] = @ + 1]
       ELSE /\ control' = Adopted(t, seen)
            /\ trail' = IF seen THEN trail ELSE [trail EXCEPT !.faults = @ + 1]
    /\ proc' = [proc EXCEPT !.gate = @ \ {t}]
    /\ UNCHANGED <<source, image, recovery>>

\* Mutant: a pending refusal is left out like a quarantined table.
PlanSkipsPending ==
    /\ At("gate") /\ proc.gate = {}
    /\ LET rest == proc.owed \ (Pending(control) \union Quarantined(control))
       IN  proc' = [Idle EXCEPT !.pc = "next", !.todo = IF rest = {} THEN <<>> ELSE <<rest>>]
    /\ UNCHANGED <<source, control, image, recovery, trail>>

\* A pending refusal is retried alone, in the order the owed queue is read; the
\* healthy rest is rebuilt together.
Plan ==
    /\ At("gate") /\ proc.gate = {}
    /\ LET alone == proc.owed \intersect Pending(control)
           rest  == proc.owed \ (alone \union Quarantined(control))
       IN  \E each \in Bijection(1 .. Cardinality(alone), alone) :
              proc' = [Idle EXCEPT !.pc = "next",
                  !.todo = [i \in 1 .. Cardinality(alone) |-> {each[i]}]
                           \o (IF rest = {} THEN <<>> ELSE <<rest>>)]
    /\ UNCHANGED <<source, control, image, recovery, trail>>

\* resnapshot.run opens with InterruptionRecovery.prepare: the marker names the
\* batch before anything can start.
Prepare ==
    /\ At("next") /\ proc.todo # <<>>
    /\ recovery' = [recovery EXCEPT !.marker = "armed", !.tables = Head(proc.todo)]
    /\ proc' = [Idle EXCEPT !.pc = "setup", !.batch = Head(proc.todo),
                            !.todo = Tail(proc.todo), !.blocked = proc.blocked]
    /\ UNCHANGED <<source, control, image, trail>>

\* Every batch is done: the watermarks are read and the main stream starts.
StartStream ==
    /\ At("next") /\ proc.todo = <<>>
    /\ proc' = [Idle EXCEPT !.pc = "stream", !.blocked = Blocked(control)]
    /\ UNCHANGED <<source, control, image, recovery, trail>>

-----------------------------------------------------------------------------
(***************************************************************************)
(* resnapshot.run: one batch through the throwaway slot.                   *)
(***************************************************************************)
\* The stale slot is dropped first; when that fails nothing has been caught yet
\* and the marker stays armed.
SlotDropFails ==
    /\ At("setup") /\ Fault
    /\ proc' = Idle
    /\ UNCHANGED <<source, control, image, recovery>>

\* A relation whose descriptors cannot be resolved refuses the whole batch.
SetupRefused(t, seen) ==
    /\ At("setup") /\ t \in proc.batch
    /\ source.exists[t] /\ source.shape[t].flaw = "descriptor"
    /\ Refuses(control, t, TableIdentity, seen)
    /\ proc' = [proc EXCEPT !.pc = "except", !.refused = {t}, !.goes = TRUE]
    /\ recovery' = [recovery EXCEPT !.slot = FALSE]
    /\ UNCHANGED <<source, image>>

\* The engine creates the slot: its consistent point is the image's fence.
StartEngine ==
    /\ At("setup")
    /\ \A t \in proc.batch : source.exists[t] /\ source.shape[t].flaw # "descriptor"
    /\ recovery' = [recovery EXCEPT !.slot = TRUE]
    /\ proc' = [proc EXCEPT !.pc = "engine", !.point = Length + 1]
    /\ UNCHANGED <<source, control, image, trail>>

\* A batch with a missing relation never gets its per-table callbacks.
EngineMisses ==
    /\ At("setup")
    /\ \E t \in proc.batch : ~source.exists[t]
    /\ \A t \in proc.batch : source.exists[t] => source.shape[t].flaw # "descriptor"
    /\ recovery' = [recovery EXCEPT !.slot = TRUE]
    /\ Goto("except")
    /\ UNCHANGED <<source, control, image, trail>>

Snapshot(t) == Rows(t, proc.point - 1)

Scanning(t) ==
    /\ proc.pc \in {"engine", "abandoned"}
    /\ t \in proc.batch /\ t \notin proc.swapped \union proc.refused
    /\ Snapshot(t) # {}

\* The first committed chunk opens the table's shadow ...
OpenShadow(t) ==
    /\ Scanning(t) /\ t \notin proc.scanned
    /\ ~Bad(t)
    /\ control' = Transition(control, {t}, "in_progress")
    /\ proc' = [proc EXCEPT !.scanned = @ \union {t}]
    /\ UNCHANGED <<source, image, recovery, trail>>

\* ... a row that cannot be materialised is contained in its group ...
RowRefused(t, seen) ==
    /\ Scanning(t) /\ Bad(t)
    /\ Refuses(control, t, source.shape[t].n, seen)
    /\ proc' = [proc EXCEPT !.refused = @ \union {t}, !.scanned = @ \union {t}]
    /\ UNCHANGED <<source, image, recovery>>

\* ... and the last chunk swaps the whole image in, with its fence.
SwapIn(t) ==
    /\ Scanning(t) /\ t \in proc.scanned
    /\ control' = Complete(control, {t}, proc.point)
    /\ image' = [image EXCEPT ![t] = Image(Snapshot(t))]
    /\ proc' = [proc EXCEPT !.swapped = @ \union {t}]
    /\ UNCHANGED <<source, recovery, trail>>

\* The completion callbacks end the phase once every populated table is in.
EngineEnds ==
    /\ At("engine")
    /\ \A t \in proc.batch : Snapshot(t) = {} \/ t \in proc.swapped \union proc.refused
    /\ proc' = [proc EXCEPT !.pc = IF proc.refused = {} THEN "sample" ELSE "except",
                            !.finished = IF proc.refused = {} THEN proc.swapped ELSE {}]
    /\ UNCHANGED <<source, control, image, recovery, trail>>

\* The engine dies, stalls, or the two readings of the consistent point disagree.
EngineFails ==
    /\ At("engine") /\ Fault
    /\ Goto("except")
    /\ UNCHANGED <<source, control, image, recovery>>

\* A callback does not quiesce: nothing is repaired, the marker stays armed, and
\* the callback may go on committing until the process is gone.
Abandon ==
    /\ At("engine") /\ Fault
    /\ Goto("abandoned")
    /\ UNCHANGED <<source, control, image, recovery>>

AbandonedExits ==
    /\ At("abandoned")
    /\ proc' = Idle
    /\ UNCHANGED <<source, control, image, recovery, trail>>

-----------------------------------------------------------------------------
(***************************************************************************)
(* What produced no image: proven empty, proven absent, or still owed.     *)
(***************************************************************************)
Unresolved == proc.batch \ proc.finished

\* gather_emptiness_evidence: the WAL position first ...
SampleWal ==
    /\ At("sample") /\ Unresolved # {}
    /\ proc' = [proc EXCEPT !.pc = "count", !.sampled = Length + 1]
    /\ UNCHANGED <<source, control, image, recovery, trail>>

\* ... then existence and row counts in one repeatable read.
CountRows ==
    /\ At("count")
    /\ proc' = [proc EXCEPT !.pc = "missing",
           !.missing = {t \in Unresolved : ~source.exists[t]},
           !.empty = {t \in Unresolved : source.exists[t] /\ Rows(t, Length) = {}}]
    /\ UNCHANGED <<source, control, image, recovery, trail>>

\* The source cannot be asked: nothing is classified.
EvidenceFails ==
    /\ proc.pc \in {"sample", "count"} /\ Unresolved # {} /\ Fault
    /\ Goto("assert")
    /\ UNCHANGED <<source, control, image, recovery>>

\* finish_source_missing_tables: `ignore` and `log` keep the image as a logged
\* drop, `replicate` removes it and forgets the table.
FinishMissing ==
    /\ At("missing")
    /\ LET done == Complete(RequestSnapshot(control, proc.missing), proc.missing, proc.sampled)
       IN  IF source.policy = "replicate"
           THEN /\ control' = Transition(done, proc.missing, "absent")
                /\ image' = [t \in Tables |-> IF t \in proc.missing THEN NoImage ELSE image[t]]
           ELSE control' = done /\ UNCHANGED image
    /\ proc' = [proc EXCEPT !.pc = "empty", !.finished = @ \union proc.missing, !.missing = {}]
    /\ UNCHANGED <<source, recovery, trail>>

\* Mutant: the fence of an emptied table is the WAL position at the DELETE.
EmptiesAtNow ==
    /\ At("empty")
    /\ control' = Complete(control, proc.empty, Length + 1)
    /\ image' = [t \in Tables |-> IF t \in proc.empty THEN NoImage ELSE image[t]]
    /\ proc' = [proc EXCEPT !.pc = "assert", !.finished = @ \union proc.empty, !.empty = {}]
    /\ UNCHANGED <<source, recovery, trail>>

\* finish_verified_empty_tables, fenced where the emptiness was sampled.
FinishEmpty ==
    /\ At("empty")
    /\ control' = Complete(control, proc.empty, proc.sampled)
    /\ image' = [t \in Tables |-> IF t \in proc.empty THEN NoImage ELSE image[t]]
    /\ proc' = [proc EXCEPT !.pc = "assert", !.finished = @ \union proc.empty, !.empty = {}]
    /\ UNCHANGED <<source, recovery, trail>>

\* assert_every_requested_table_completed.
AssertComplete ==
    /\ At("assert") \/ (At("sample") /\ Unresolved = {})
    /\ proc' = IF Unresolved = {}
                THEN [Idle EXCEPT !.pc = "consume", !.goes = TRUE, !.todo = proc.todo]
                ELSE [proc EXCEPT !.pc = "except"]
    /\ UNCHANGED <<source, control, image, recovery, trail>>

\* The exception path on a connection this thread owns: reassert_owed, then a
\* durable quarantine of the refused table ends the batch in good order, unless
\* one of its other tables is still owed: then the marker is left armed.
Repair ==
    /\ At("except")
    /\ LET owed == Unresolved \ Quarantined(control)
           quarantine == proc.refused # {} /\ proc.batch \intersect Quarantined(control) # {}
       IN  /\ control' = RequestSnapshot(control, owed)
           /\ proc' = IF quarantine /\ owed # {} THEN Idle
                      ELSE [Idle EXCEPT !.pc = "consume", !.goes = quarantine \/ proc.goes,
                                       !.todo = proc.todo]
    /\ UNCHANGED <<source, image, recovery, trail>>

Consume ==
    /\ At("consume")
    /\ recovery' = [recovery EXCEPT !.marker = "consumed"]
    /\ Goto("retire")
    /\ UNCHANGED <<source, control, image, trail>>

\* retire_terminal_resources: the slot when the source answers, then the marker.
Retire(dropped) ==
    /\ At("retire")
    /\ recovery' = [marker |-> "absent", tables |-> {}, slot |-> recovery.slot /\ ~dropped]
    /\ IF dropped THEN Unfaulted ELSE Fault
    /\ proc' = IF proc.goes THEN [Idle EXCEPT !.pc = "next", !.todo = proc.todo] ELSE Idle
    /\ UNCHANGED <<source, control, image>>

-----------------------------------------------------------------------------
(***************************************************************************)
(* The main stream and the end of a process.                               *)
(***************************************************************************)
Arriving(t) ==
    /\ At("stream") /\ control.resume < Length
    /\ source.wal[control.resume + 1][1] = t

Skipped(t) ==
    \/ t \in proc.blocked \union Held(control)
    \/ control.state[t] = "complete" /\ control.resume + 1 < control.fence[t]

Applied(t) ==
    LET i == control.resume + 1
    IN  IF Event(t, i, "delete") THEN NoImage ELSE [image[t] EXCEPT ![i] = @ + 1]

StreamCommits(t) ==
    /\ Arriving(t)
    /\ Skipped(t) \/ ~Bad(t)
    /\ image' = IF Skipped(t) THEN image ELSE [image EXCEPT ![t] = Applied(t)]
    /\ control' = [control EXCEPT !.resume = @ + 1]
    /\ UNCHANGED <<source, recovery, proc, trail>>

\* failure_containment.contain_table_failure: the group commits without t.
StreamContains(t, seen) ==
    /\ Arriving(t) /\ ~Skipped(t) /\ Bad(t)
    /\ Refuses([control EXCEPT !.resume = @ + 1], t, source.shape[t].n, seen)
    /\ proc' = [proc EXCEPT !.blocked = @ \union {t}]
    /\ UNCHANGED <<source, image, recovery>>

\* AmbiguousDelete: the group rolls back, the rebuild request survives it.
StreamRequests(t) ==
    /\ Arriving(t) /\ ~Skipped(t) /\ Fault
    /\ control' = RequestSnapshot(control, {t})
    /\ proc' = Idle
    /\ UNCHANGED <<source, image, recovery>>

StreamEnds ==
    /\ At("stream")
    /\ control.resume = Length
    /\ proc' = Idle
    /\ UNCHANGED <<source, control, image, recovery, trail>>

Crash ==
    /\ ~At("down") /\ Fault
    /\ proc' = Idle
    /\ UNCHANGED <<source, control, image, recovery>>

-----------------------------------------------------------------------------
Run ==
    \/ Start \/ Requeue \/ Promote \/ Plan \/ Prepare \/ StartStream
    \/ StartEngine \/ EngineMisses \/ EngineEnds \/ AbandonedExits
    \/ SampleWal \/ CountRows \/ FinishMissing \/ FinishEmpty \/ AssertComplete
    \/ Repair \/ Consume \/ Retire(TRUE) \/ StreamEnds
    \/ \E t \in Tables :
          \/ Discharge(t) \/ Gate(t, TRUE) \/ SetupRefused(t, TRUE) \/ OpenShadow(t)
          \/ RowRefused(t, TRUE) \/ SwapIn(t) \/ StreamCommits(t) \/ StreamContains(t, TRUE)

Breakdown ==
    \/ SlotDropFails \/ EngineFails \/ Abandon \/ EvidenceFails \/ Retire(FALSE) \/ Crash
    \/ \E t \in Tables :
          \/ Gate(t, FALSE) \/ SetupRefused(t, FALSE) \/ RowRefused(t, FALSE)
          \/ StreamContains(t, FALSE) \/ StreamRequests(t)

Source ==
    \E t \in Tables :
        \/ \E kind \in {"insert", "delete"} : SourceCommits(t, kind)
        \/ SourceDrops(t)
        \/ \E flaw \in Flaws : SourceAlters(t, flaw)

Next == Run \/ Breakdown \/ Source

Spec == Init /\ [][Next]_vars /\ WF_vars(Run)

-----------------------------------------------------------------------------
(***************************************************************************)
(* Properties.                                                             *)
(***************************************************************************)
\* What the image of t becomes once the stream has replayed what is left of the
\* source's log behind the table's fence.
Replayed(t) ==
    LET left == {j \in control.resume + 1 .. Length : j >= control.fence[t]}
    IN  [i \in Positions |->
            IF \E j \in left : j > i /\ Event(t, j, "delete") THEN 0
            ELSE image[t][i] + (IF i \in left /\ Event(t, i, "insert") THEN 1 ELSE 0)]

\* A table the lifecycle calls complete holds, together with the transactions
\* the main stream has yet to deliver behind its fence, every row of the source
\* exactly once: a swap, a verified-empty completion, a refusal, a crash or an
\* abandoned callback never publishes a table as complete whose hand-over to the
\* stream loses or repeats a row (resnapshot.run, the per-table watermark).
HandOver ==
    \A t \in Tables :
        (control.state[t] = "complete" /\ source.exists[t])
            => Replayed(t) = Image(Rows(t, Length))

\* A quarantined table is retried at most once for one shape of its source
\* relation, and once more only for each refusal whose fingerprint could not be
\* read (destination_refusals.quarantine_retry_allowed).
QuarantineHolds ==
    \A t \in Tables : trail.again[t] <= 1 + trail.blind[t]

\* Whatever dies in between, an owed table is in the end rebuilt, discharged with
\* its source, or quarantined, as long as no captured relation has lost its source
\* (resnapshot_batches.run_owed, with runs that keep being started).
OwedIsServed ==
    \A t \in Tables :
        (control.state[t] \in Owing) ~>
            \/ control.state[t] \notin Owing
            \/ control.refusal[t].state = "quarantined"
            \/ \E u \in Tables : ~source.exists[u]
=============================================================================
