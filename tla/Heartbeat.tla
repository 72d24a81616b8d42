------------------------------- MODULE Heartbeat -------------------------------
(***************************************************************************)
(* The run-phase heartbeat of run_state.py: one destination row moved      *)
(* through RUN_PHASE by bounded writes on an owned worker thread, and the  *)
(* commit->ack window in which no independent statement may run.           *)
(*                                                                         *)
(* Threads: the main thread (phase moves, operator logs, teardown), the    *)
(* write worker it starts, and the applier's callback entering and leaving *)
(* the window.  A statement may never return.                              *)
(***************************************************************************)
EXTENDS Integers

CONSTANTS
    MaxMoves,    \* bound on the phase transitions of a run
    MaxCommits   \* bound on the groups the applier commits

VARIABLES
    beat,      \* the main thread: stage, phase, transitions made, write asked
    window,    \* _CommitAckWindow: active flag, gate holder; the applier's stage
    worker,    \* the worker: stage and what it writes
    sink,      \* the cursor: who owns it, and whether it was released
    row        \* the heartbeat row: transition it shows, and what was lost

vars == <<beat, window, worker, sink, row>>

-----------------------------------------------------------------------------
Terminal == {"stopped", "failed"}

Live == {"starting", "reconciling", "recovering", "snapshotting", "streaming",
         "draining", "stopping"}

\* machines.RUN_PHASE.
RUN_PHASE ==
    {<<"starting", "recovering">>, <<"starting", "reconciling">>,
     <<"reconciling", "recovering">>, <<"recovering", "reconciling">>,
     <<"reconciling", "snapshotting">>, <<"reconciling", "streaming">>,
     <<"streaming", "snapshotting">>, <<"snapshotting", "streaming">>,
     <<"streaming", "draining">>, <<"draining", "stopping">>,
     <<"stopping", "stopped">>}
    \union (Live \X {"failed"}) \union ((Live \ {"stopping"}) \X {"stopping"})

Idle == [at |-> "none", job |-> 0, terminal |-> FALSE]

Init ==
    /\ beat = [at |-> "launch", phase |-> "starting", moves |-> 1, job |-> 1]
    /\ window = [active |-> FALSE, gate |-> "free", applier |-> "idle",
                 commits |-> 0]
    /\ worker = Idle
    /\ sink = [owner |-> "writer", released |-> FALSE]
    /\ row = [shows |-> 0, failed |-> FALSE, abandoned |-> FALSE,
              retirement |-> "never_opened"]

-----------------------------------------------------------------------------
(* The applier: prepare_commit enters the window before COMMIT.             *)

\* enter() waits for the gate inside the commit watchdog.
Enter ==
    /\ window.applier = "idle" /\ beat.phase \in {"streaming", "snapshotting"}
    /\ window.commits < MaxCommits
    /\ window' = [window EXCEPT !.applier = "entering",
                                 !.commits = window.commits + 1]
    /\ UNCHANGED <<beat, worker, sink, row>>

Open ==
    /\ window.applier = "entering" /\ window.gate = "free"
    /\ window' = [window EXCEPT !.applier = "open", !.active = TRUE]
    /\ UNCHANGED <<beat, worker, sink, row>>

\* leave() after the acknowledgement, or after it raised.
Leave ==
    /\ window.applier = "open"
    /\ window' = [window EXCEPT !.applier = "idle", !.active = FALSE]
    /\ UNCHANGED <<beat, worker, sink, row>>

\* The commit watchdog: a wait for the gate, or a COMMIT, past its bound.
CommitWatchdogKills ==
    /\ window.applier \in {"entering", "open"} /\ beat.at # "over"
    /\ beat' = [beat EXCEPT !.at = "over"]
    /\ UNCHANGED <<window, worker, sink, row>>

\* The ordered shutdown has proved the callbacks quiescent.
Retire ==
    /\ window.applier = "idle" /\ beat.at = "run"
    /\ window' = [window EXCEPT !.applier = "retired"]
    /\ UNCHANGED <<beat, worker, sink, row>>

-----------------------------------------------------------------------------
(* The main thread.                                                         *)

\* RunPhaseWriter.to: the edge is checked, the phase moves, the row is to be
\* written.  Teardown writes its phases once the applier is retired.
Move(phase) ==
    /\ beat.at = "run" /\ <<beat.phase, phase>> \in RUN_PHASE
    /\ beat.moves < MaxMoves \/ phase \in Terminal \union {"stopping"}
    /\ phase \in {"stopping", "stopped", "failed"} => window.applier = "retired"
    /\ phase = "failed" => beat.phase = "stopping"
    /\ beat' = [at |-> "launch", phase |-> phase, moves |-> beat.moves + 1,
                job |-> beat.moves + 1]
    /\ UNCHANGED <<window, worker, sink, row>>

\* record_log: an operator log through the same bounded writer.
RecordLog ==
    /\ beat.at = "run" /\ beat.phase = "streaming"
    /\ beat' = [beat EXCEPT !.at = "launch", !.job = 0]
    /\ UNCHANGED <<window, worker, sink, row>>

TerminalJob == beat.phase \in Terminal

WorkerBusy == worker.at \in {"gate", "statement"}

AfterWrite == IF TerminalJob THEN "close" ELSE "run"

\* Mutant: a terminal write that finds the sink owned is dropped silently.
LaunchUnrecorded ==
    /\ beat.at = "launch"
    /\ IF WorkerBusy
       THEN /\ beat' = [beat EXCEPT !.at = AfterWrite]
            /\ UNCHANGED <<worker, row>>
       ELSE /\ worker' = [at |-> "gate", job |-> beat.job, terminal |-> TerminalJob]
            /\ beat' = [beat EXCEPT !.at = "waiting"]
            /\ UNCHANGED row
    /\ UNCHANGED <<window, sink>>

\* _execute_bounded: one owner at a time; a write that finds an earlier one
\* still running is dropped, and recorded when it was the terminal one.
Launch ==
    /\ beat.at = "launch"
    /\ IF WorkerBusy
       THEN /\ row' = [row EXCEPT !.abandoned = @ \/ TerminalJob]
            /\ beat' = [beat EXCEPT !.at = AfterWrite]
            /\ UNCHANGED worker
       ELSE /\ worker' = [at |-> "gate", job |-> beat.job, terminal |-> TerminalJob]
            /\ beat' = [beat EXCEPT !.at = "waiting"]
            /\ UNCHANGED row
    /\ UNCHANGED <<window, sink>>

\* done.wait(timeout): the worker is through, or the run stops waiting.
StopWaiting ==
    /\ beat.at = "waiting"
    /\ row' = [row EXCEPT !.abandoned = @ \/ (WorkerBusy /\ TerminalJob)]
    /\ beat' = [beat EXCEPT !.at = AfterWrite]
    /\ UNCHANGED <<window, worker, sink>>

\* close(), after its bounded join: a sink still owned by the worker is
\* released, an idle one goes to the close worker.
Close ==
    /\ beat.at = "close" /\ sink.owner = "writer"
    /\ IF WorkerBusy
       THEN /\ sink' = [sink EXCEPT !.released = TRUE]
            /\ row' = [row EXCEPT !.retirement = "abandoned"]
            /\ beat' = [beat EXCEPT !.at = "over"]
       ELSE /\ sink' = [sink EXCEPT !.owner = "closer"]
            /\ beat' = [beat EXCEPT !.at = "retiring"]
            /\ UNCHANGED row
    /\ UNCHANGED <<window, worker>>

\* retire_handle: the close returns, raises or outlasts its bound.
Retirement ==
    /\ beat.at = "retiring"
    /\ \E state \in {"closed", "failed", "abandoned"} :
          /\ row' = [row EXCEPT !.retirement = state]
          /\ sink' = [sink EXCEPT !.owner = IF state = "abandoned" THEN @ ELSE "none"]
    /\ beat' = [beat EXCEPT !.at = "over"]
    /\ UNCHANGED <<window, worker>>

\* A callback keeps the destination: heartbeat and connection are abandoned.
AbandonAll ==
    /\ beat.at = "run" /\ window.applier \in {"entering", "open"}
    /\ row' = [row EXCEPT !.retirement = "abandoned"]
    /\ beat' = [beat EXCEPT !.at = "over"]
    /\ UNCHANGED <<window, worker, sink>>

-----------------------------------------------------------------------------
(* The write worker.                                                        *)

\* Mutant: the flag is read before the gate is held, not under it.
CheckThenAct ==
    /\ worker.at = "gate" /\ ~window.active
    /\ worker' = [worker EXCEPT !.at = "statement"]
    /\ UNCHANGED <<beat, window, sink, row>>

\* The worker's release decision, under the sink lock: has the run given the
\* cursor up, so that closing it is now this thread's job?
Inherits == IF sink.released THEN [sink EXCEPT !.owner = "worker"] ELSE sink

\* excluded(): the gate is held for the check and the write together.  A
\* non-terminal write that finds the window open is dropped.  The terminal
\* write's escape without the gate needs a second holder, and there is none.
TakeGate ==
    /\ worker.at = "gate" /\ window.gate = "free"
    /\ IF window.active /\ ~worker.terminal
       THEN /\ worker' = [worker EXCEPT !.at = "done"]
            /\ sink' = Inherits
            /\ UNCHANGED window
       ELSE /\ window' = [window EXCEPT !.gate = "worker"]
            /\ worker' = [worker EXCEPT !.at = "statement"]
            /\ UNCHANGED sink
    /\ UNCHANGED <<beat, row>>

\* _execute or _execute_log returns, or raises and is swallowed; an update
\* without the inserted row writes nothing.
StatementReturns ==
    /\ worker.at = "statement"
    /\ \E raised \in BOOLEAN :
         LET written == /\ ~raised /\ worker.job > 0
                        /\ worker.job = 1 \/ row.shows > 0
         IN  row' = [row EXCEPT !.shows = IF written THEN worker.job ELSE @,
                                !.failed = @ \/ (worker.job > 0 /\ ~written)]
    /\ window' = [window EXCEPT !.gate = "free"]
    /\ worker' = [worker EXCEPT !.at = "done"]
    /\ sink' = Inherits
    /\ UNCHANGED beat

\* The worker that inherited the cursor closes it; a worker that did not ends.
WorkerEnds ==
    /\ worker.at = "done"
    /\ worker' = Idle
    /\ sink' = [sink EXCEPT !.owner = IF @ = "worker" THEN "none" ELSE @]
    /\ UNCHANGED <<beat, window, row>>

MainThread ==
    \/ \E phase \in Live \union Terminal : Move(phase)
    \/ Launch \/ StopWaiting \/ Close \/ Retirement

Over == beat.at = "over" /\ UNCHANGED vars

Next ==
    \/ Enter \/ Open \/ Leave \/ CommitWatchdogKills \/ Retire
    \/ MainThread \/ RecordLog \/ AbandonAll
    \/ TakeGate \/ StatementReturns \/ WorkerEnds
    \/ Over

Spec == Init /\ [][Next]_vars

-----------------------------------------------------------------------------
(* Properties.                                                              *)

\* Between entering the commit->ack window and leaving it no statement of the
\* heartbeat runs (_CommitAckWindow: check and write together under the gate).
WindowExcludesWrites == worker.at = "statement" => ~window.active

\* The cursor is given up to one owner and never under a running statement:
\* whoever closes it is alone with it (the sink has ONE owner).
SinkHasOneOwner ==
    sink.owner \in {"closer", "worker", "none"} => worker.at # "statement"

\* A run that terminalised left a row that says so, or recorded that the write
\* was abandoned, unless the database refused a statement; and the row never
\* shows a phase the run has not reached (finish, terminal_write_abandoned).
TerminalRecorded ==
    /\ row.shows <= beat.moves
    /\ beat.at = "over" /\ beat.phase \in Terminal /\ ~row.failed
          => row.shows = beat.moves \/ row.abandoned
=============================================================================
