-------------------------- MODULE SnapshotCompletion --------------------------
(***************************************************************************)
(* The initial snapshot of one run: Debezium's ordered row and             *)
(* notification callbacks, the assembler's open chunk, the applier's open  *)
(* group, and the completion proof (snapshot_completion.py) that decides   *)
(* when the terminal offset may commit, when notifications may be          *)
(* acknowledged, and when the stream may begin.                            *)
(*                                                                         *)
(* Notifications and rows arrive in one order.  A row reaches the          *)
(* destination late: it waits in the chunk, then in the group, while the   *)
(* notifications about it are observed at once.  The durable part is what  *)
(* a crash in any state leaves, so invariants over it speak of crashes.    *)
(***************************************************************************)
EXTENDS Integers, Sequences, SequencesExt, FiniteSetsExt

CONSTANTS
    Scan,          \* the captured tables, in the order Debezium scans them
    MaxRows,       \* bound on a table's rows
    MaxBeats,      \* bound on the idle heartbeats that arrive
    MaxFaults,     \* bound on the faults of the connector
    BeatsInterleave \* may a heartbeat arrive between two rows of the snapshot?

VARIABLES
    connector,   \* the source's rows, what it still has to deliver, its faults
    applier,     \* the completion machine, the chunk, the group, notifications
    dest         \* what has been committed

vars == <<connector, applier, dest>>

Tables == ToSet(Scan)

NULL == -1

Zero == [t \in Tables |-> 0]

-----------------------------------------------------------------------------
(* The connector (external): one ordered sequence of callbacks.             *)

Item(kind, table, n) == [kind |-> kind, table |-> table, n |-> n]

Notice(kind) == Item(kind, "", 0)

\* Debezium holds one row back to mark it, so the last row of a table may come
\* before or after the notification that its scan completed.  The last row of
\* a table is marked, and the very last one marked for the whole snapshot.
TableItems(i, rows, late) ==
    LET t == Scan[i]
        last == Item(IF i = Len(Scan) THEN "row_last" ELSE "row_table_last", t, 0)
        scan == Item("TABLE_SCAN_COMPLETED", t, rows[t])
        body == [j \in 1 .. rows[t] - 1 |-> Item("row", t, 0)]
    IN  IF rows[t] = 0 THEN <<Item("IN_PROGRESS", t, 0), scan>>
        ELSE <<Item("IN_PROGRESS", t, 0)>> \o body
               \o (IF late THEN <<scan, last>> ELSE <<last, scan>>)

SnapshotScript(rows, late) ==
    <<Notice("STARTED")>>
       \o FlattenSeq([i \in DOMAIN Scan |-> TableItems(i, rows, late)])
       \o <<Notice("COMPLETED")>>

StreamScript == <<Notice("begin"), Notice("end")>>

InitialScript(required, rows, late) ==
    (IF required THEN SnapshotScript(rows, late) ELSE <<Notice("SKIPPED")>>)
       \o StreamScript

RowKinds == {"row", "row_table_last", "row_last"}

RowItem(item) == item.kind \in RowKinds

StreamItem(item) == item.kind \in {"begin", "end"}

-----------------------------------------------------------------------------
(* The applier's memory.                                                    *)

NoChunk == [table |-> "", rows |-> 0, saw_last |-> FALSE]

\* OpenGroup: the rows of its chunks per table, the tables whose shadow it
\* swaps, whether it swaps them all, and whether it holds the boundary.
NoGroup == [phase |-> "none", rows |-> Zero, swaps |-> {}, swap_all |-> FALSE,
            boundary |-> FALSE, txns |-> 0]

\* SnapshotCompletion.full_snapshot and streaming_only.
Completion(required) ==
    [state |-> IF required THEN "awaiting_callbacks" ELSE "not_required",
     required |-> required,
     callback |-> {}, declared |-> [t \in Tables |-> NULL], committed |-> Zero]

Init ==
    /\ \E required, late \in BOOLEAN, rows \in [Tables -> 0 .. MaxRows] :
         /\ connector = [rows |-> rows, faults |-> 0, beats |-> 0,
                         script |-> InitialScript(required, rows, late)]
         /\ applier = [completion |-> Completion(required), chunk |-> NoChunk,
                       group |-> NoGroup, txn |-> FALSE, pending |-> 0,
                       open |-> {}, failed |-> FALSE]
    /\ dest = [shadow |-> Zero, live |-> Zero, past |-> FALSE, acked |-> 0, txns |-> 0]

\* What a callback works on: the applier's memory and what it has committed.
Both == [mem |-> applier, db |-> dest]

-----------------------------------------------------------------------------
(* The completion proof.                                                    *)

\* SNAPSHOT_COMPLETION.is_terminal.
Ended(c) == c.state \in {"callbacks_complete", "not_required", "streaming"}

CountsMatch(c, rows) ==
    \A t \in Tables : c.declared[t] # NULL /\ rows[t] = c.declared[t]

Projected(c, group) == [t \in Tables |-> c.committed[t] + group.rows[t]]

HasRows(group) == \E t \in Tables : group.rows[t] > 0

\* _validate_snapshot_units: rows are legal between STARTED and the end, and
\* never more of them than the connector declared.
RowsLegal(c, group) ==
    HasRows(group) =>
       /\ c.state \in {"callbacks_started", "completion_notified"}
       /\ \A t \in Tables : group.rows[t] > 0 /\ c.declared[t] # NULL
                              => Projected(c, group)[t] <= c.declared[t]

\* Mutant: the terminal notification alone lets the boundary commit.
NotifiedIsEnough(c, group) ==
    Ended(c) \/ (c.state = "completion_notified" /\ group.boundary)

\* _will_complete_after: does committing this group end the snapshot?
WillCompleteAfter(c, group) ==
    Ended(c) \/ (/\ c.state = "completion_notified"
                 /\ CountsMatch(c, Projected(c, group)))

\* commit_ready, as the verdict on the group: a boundary waits for its rows.
CommitReady(c, group) ==
    IF \/ ~RowsLegal(c, group)
       \/ group.boundary /\ ~Ended(c) /\ c.state # "completion_notified"
    THEN "raised"
    ELSE IF group.boundary /\ ~WillCompleteAfter(c, group) THEN "blocked" ELSE "ready"

\* observe_committed_group, after COMMIT.
ObserveCommitted(c, group) ==
    LET counted == [c EXCEPT !.committed = Projected(c, group)]
    IN  IF /\ HasRows(group) /\ c.state = "completion_notified"
           /\ CountsMatch(c, counted.committed)
        THEN [counted EXCEPT !.state = "callbacks_complete"]
        ELSE counted

\* observe_notification, on an observation that is legal.
Observe(c, item) ==
    CASE item.kind = "STARTED" -> [c EXCEPT !.state = "callbacks_started"]
      [] item.kind = "TABLE_SCAN_COMPLETED" ->
            [c EXCEPT !.callback = @ \union {item.table}, !.declared[item.table] = item.n]
      [] item.kind = "COMPLETED" ->
            [c EXCEPT !.state = IF CountsMatch(c, c.committed) THEN "callbacks_complete"
                                                               ELSE "completion_notified"]
      [] OTHER -> c

\* The observations observe_notification accepts in each state.
Legal(c, item) ==
    CASE c.state = "not_required" -> item.kind = "SKIPPED"
      [] item.kind = "STARTED" -> c.state = "awaiting_callbacks"
      [] item.kind = "IN_PROGRESS" -> c.state = "callbacks_started"
      [] item.kind = "TABLE_SCAN_COMPLETED" ->
            /\ c.state = "callbacks_started" /\ item.table \notin c.callback
            /\ c.committed[item.table] <= item.n
      [] item.kind = "COMPLETED" -> c.state = "callbacks_started" /\ c.callback = Tables
      [] OTHER -> FALSE

\* check_streaming_admission.
StreamAdmitted(c) == Ended(c)

-----------------------------------------------------------------------------
(* The commit of the open group, and the admission of a unit.  A refusal    *)
(* that raises fails the run; the group it leaves is rolled back.           *)

Fail(s) == [s EXCEPT !.mem.failed = TRUE]

\* The shadows a group writes: a table whose shadow is not open starts empty.
Shadows(s) ==
    [t \in Tables |-> IF s.mem.group.rows[t] = 0 THEN s.db.shadow[t]
                      ELSE (IF t \in s.mem.open THEN s.db.shadow[t] ELSE 0)
                             + s.mem.group.rows[t]]

OpenShadows(s) == s.mem.open \union {t \in Tables : s.mem.group.rows[t] > 0}

Swapped(s) ==
    OpenShadows(s) \intersect (IF s.mem.group.swap_all THEN Tables ELSE s.mem.group.swaps)

\* The notifications marked processed: only with the group that ends the snapshot.
Acked(s) ==
    s.db.acked + (IF WillCompleteAfter(s.mem.completion, s.mem.group) THEN s.mem.pending ELSE 0)

\* commit_group: validate, write and swap, COMMIT, acknowledge, observe.
\* A boundary that waits leaves everything as it was.
CommitGroup(s) ==
    LET g == s.mem.group
        c == s.mem.completion
    IN  CASE g = NoGroup \/ CommitReady(c, g) = "blocked" -> s
          [] CommitReady(c, g) = "raised" -> Fail(s)
          [] OTHER ->
               [mem |-> [s.mem EXCEPT
                           !.group = NoGroup,
                           !.open = OpenShadows(s) \ Swapped(s),
                           !.pending = IF WillCompleteAfter(c, g) THEN 0 ELSE @,
                           !.completion = ObserveCommitted(c, g)],
                db |-> [shadow |-> Shadows(s),
                        live |-> [t \in Tables |-> IF t \in Swapped(s) THEN Shadows(s)[t]
                                                                       ELSE s.db.live[t]],
                        past |-> s.db.past \/ g.boundary \/ g.txns > 0,
                        acked |-> Acked(s),
                        txns |-> s.db.txns + g.txns]]

\* A commit the unit behind it depends on: anything but "committed" raises.
MustCommit(s) ==
    IF s.mem.group # NoGroup /\ CommitGroup(s).mem.group # NoGroup
    THEN Fail(s) ELSE CommitGroup(s)

\* _admit_unit for a unit of the stream: a boundary that is open commits
\* first; otherwise the phase must allow it, an idle heartbeat excepted.
AdmitStream(s, beat) ==
    LET g == s.mem.group
        settled == IF g.phase = "snapshot" THEN MustCommit(s) ELSE s
        refused == \/ ~g.boundary /\ ~beat /\ ~StreamAdmitted(s.mem.completion)
                   \/ ~beat /\ ~StreamAdmitted(settled.mem.completion)
    IN  IF settled.mem.failed \/ refused THEN Fail(IF refused /\ ~g.boundary THEN s ELSE settled)
        ELSE [settled EXCEPT
                !.mem.group.phase = "stream",
                !.mem.group.txns = @ + (IF beat THEN 0 ELSE 1),
                !.mem.completion.state = IF beat THEN @ ELSE "streaming"]

\* _admit_unit for a snapshot unit: a group of the stream commits first.
AdmitSnapshot(s) ==
    LET settled == IF s.mem.group.phase = "stream" THEN MustCommit(s) ELSE s
    IN  IF settled.mem.failed THEN settled
        ELSE [settled EXCEPT !.mem.group.phase = "snapshot"]

\* _close_chunk: the chunk becomes a unit of the group.
CloseChunk(s, last_for_table) ==
    LET chunk == s.mem.chunk
        admitted == AdmitSnapshot([s EXCEPT !.mem.chunk = NoChunk])
    IN  IF chunk = NoChunk THEN s
        ELSE IF admitted.mem.failed THEN admitted
        ELSE [admitted EXCEPT
                !.mem.group.rows[chunk.table] = @ + chunk.rows,
                !.mem.group.swaps = IF last_for_table THEN @ \union {chunk.table} ELSE @,
                !.mem.group.swap_all = @ \/ chunk.saw_last]

-----------------------------------------------------------------------------
(* One callback record at a time.                                           *)

\* _feed_snapshot: a change of table closes the chunk, the table's last row
\* closes it behind itself, and so may the chunk's size limit.
FeedRow(s, item, full) ==
    LET fresh == IF s.mem.chunk.table # item.table THEN CloseChunk(s, TRUE) ELSE s
        taken == [fresh EXCEPT !.mem.chunk =
                    [table |-> item.table, rows |-> @.rows + 1,
                     saw_last |-> @.saw_last \/ item.kind = "row_last"]]
    IN  IF fresh.mem.failed THEN fresh
        ELSE IF item.kind # "row" THEN CloseChunk(taken, TRUE)
        ELSE IF full THEN CloseChunk(taken, FALSE) ELSE taken

\* A notification: refused inside a source transaction, observed before it is
\* kept; the terminal one closes the chunk and joins the group behind it.
FeedNotice(s, item) ==
    LET seen == [s EXCEPT !.mem.completion = Observe(@, item), !.mem.pending = @ + 1]
        closed == AdmitSnapshot(CloseChunk(seen, TRUE))
    IN  IF s.mem.txn \/ ~Legal(s.mem.completion, item) THEN Fail(s)
        ELSE IF item.kind # "COMPLETED" THEN seen
        ELSE IF closed.mem.failed THEN closed
        ELSE [closed EXCEPT !.mem.group.boundary = TRUE]

\* A record of the stream closes the chunk; a transaction is admitted whole.
FeedStream(s, item) ==
    LET closed == CloseChunk(s, TRUE)
    IN  IF closed.mem.failed THEN closed
        ELSE IF item.kind = "begin" THEN [closed EXCEPT !.mem.txn = TRUE]
        ELSE AdmitStream([closed EXCEPT !.mem.txn = FALSE], FALSE)

\* An idle heartbeat outside a transaction is a control unit of its own.
FeedBeat(s) ==
    LET closed == CloseChunk(s, TRUE)
    IN  IF closed.mem.failed THEN closed ELSE AdmitStream(closed, TRUE)

Becomes(s) == applier' = s.mem /\ dest' = s.db

Running == ~applier.failed

\* Applier._handle on the next record of the connector.
Feed(item, full) ==
    Becomes(CASE RowItem(item) -> FeedRow(Both, item, full)
              [] StreamItem(item) -> FeedStream(Both, item)
              [] OTHER -> FeedNotice(Both, item))

Deliver ==
    /\ Running /\ connector.script # <<>>
    /\ \E full \in BOOLEAN :
         /\ full => Head(connector.script).kind = "row"
         /\ Feed(Head(connector.script), full)
    /\ connector' = [connector EXCEPT !.script = Tail(@)]

\* A heartbeat of the source: with a snapshot under way, once its rows are out.
RowsAhead == \E i \in DOMAIN connector.script : RowItem(connector.script[i])

Beat ==
    /\ Running /\ ~applier.txn /\ connector.beats < MaxBeats
    /\ BeatsInterleave \/ ~RowsAhead
    /\ applier.completion.state # "awaiting_callbacks"
    /\ Becomes(FeedBeat(Both))
    /\ connector' = [connector EXCEPT !.beats = @ + 1]

\* The end of a callback batch: the queue drained, a soft trigger was hit, or
\* the group stays open for the next batch.
BatchEnd ==
    /\ Running /\ applier.group # NoGroup
    /\ Becomes(CommitGroup(Both))
    /\ UNCHANGED connector

\* The connector at fault: a callback lost, repeated, or with another count.
Broken(script) ==
    LET item == Head(script)
    IN  {Tail(script), <<item>> \o script}
          \union (IF item.kind = "TABLE_SCAN_COMPLETED"
                  THEN {<<[item EXCEPT !.n = @ + d]>> \o Tail(script) : d \in {-1, 1}}
                  ELSE {})
          \union {<<Notice("ABORTED")>> \o Tail(script)}

ConnectorFaults ==
    /\ Running /\ connector.faults < MaxFaults
    /\ connector.script # <<>> /\ ~StreamItem(Head(connector.script))
    /\ \E script \in Broken(connector.script) :
         connector' = [connector EXCEPT !.script = script, !.faults = @ + 1]
    /\ UNCHANGED <<applier, dest>>

\* The run failed, or everything was delivered and committed.
Over ==
    /\ applier.failed \/ (connector.script = <<>> /\ CommitGroup(Both) = Both)
    /\ UNCHANGED vars

Next == Deliver \/ Beat \/ BatchEnd \/ ConnectorFaults \/ Over

Spec == Init /\ [][Next]_vars

-----------------------------------------------------------------------------
(* Properties.                                                              *)

WholeImage == \A t \in Tables : dest.live[t] = connector.rows[t]

\* The durable resume point passes the snapshot only when the live tables hold
\* every row of it, whatever callback the connector lost, repeated or
\* miscounted (commit_ready: the boundary waits for its rows).
BoundaryCoversImage == applier.completion.required /\ dest.past => WholeImage

\* A run that calls its snapshot completed has committed every row of it, or
\* holds rows beyond what was declared and is about to be refused for them: the
\* stream and the supervisor never rely on rows that are only notified.
CompletedIsDurable ==
    applier.completion.required /\ Ended(applier.completion)
       => \/ applier.completion.committed = connector.rows
          \/ CommitReady(applier.completion, applier.group) = "raised"

\* The connector is told that its snapshot ended only when every row of it is
\* live: a handle stays pending until its commit proves the callbacks terminal.
AckedAfterImage == applier.completion.required /\ dest.acked > 0 => WholeImage
=============================================================================
