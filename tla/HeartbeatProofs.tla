---------------------------- MODULE HeartbeatProofs ----------------------------
(***************************************************************************)
(* Proofs about Heartbeat, for any number of phase moves and commits: the  *)
(* commit->ack window, the ownership of the cursor, and the terminal row.  *)
(***************************************************************************)
EXTENDS Heartbeat, TLAPS

\* The records the threads share.
Beats == [at : {"launch", "waiting", "run", "close", "retiring", "over"},
          phase : Live \union Terminal, moves : Nat, job : Nat]

Windows == [active : BOOLEAN, gate : {"free", "worker"},
            applier : {"idle", "entering", "open", "retired"}, commits : Nat]

Workers == [at : {"none", "gate", "statement", "done"}, job : Nat, terminal : BOOLEAN]

Sinks == [owner : {"writer", "closer", "worker", "none"}, released : BOOLEAN]

Rows == [shows : Nat, failed : BOOLEAN, abandoned : BOOLEAN,
         retirement : {"never_opened", "closed", "failed", "abandoned"}]

Shape == /\ beat \in Beats /\ window \in Windows /\ worker \in Workers
         /\ sink \in Sinks /\ row \in Rows

\* A statement runs with the gate held and the window shut; the window is open
\* only for the applier, and a terminal write begins after it has retired.
GateInv ==
    /\ worker.at = "statement" => window.gate = "worker" /\ ~window.active
    /\ window.active => window.applier = "open"
    /\ worker.terminal \/ beat.phase \in Terminal => window.applier = "retired"

\* The cursor changes hands only at the end of a run, away from an idle worker.
SinkInv ==
    /\ sink.released => beat.at = "over"
    /\ beat.at = "retiring" => sink.owner = "closer"
    /\ sink.owner # "writer" => beat.at \in {"retiring", "over"} /\ ~WorkerBusy

\* A write of a phase the run has reached; and a terminal phase past its launch
\* is in the row, in the hands of the worker that is waited for, or given up.
RowInv ==
    /\ row.shows <= beat.moves /\ worker.job <= beat.moves /\ beat.moves > 0
    /\ beat.at = "launch" => beat.job <= beat.moves
    /\ beat.at = "run" => beat.phase \notin Terminal
    /\ beat.phase \in Terminal /\ beat.at = "launch" => beat.job = beat.moves
    /\ beat.phase \in Terminal /\ beat.at # "launch" =>
          \/ row.abandoned \/ row.failed
          \/ row.shows = beat.moves /\ ~WorkerBusy
          \/ beat.at = "waiting" /\ WorkerBusy /\ worker.job = beat.moves

IInv == Shape /\ GateInv /\ SinkInv /\ RowInv

\* A run begins idle, its first phase not yet written.
LEMMA InitHolds == Init => IInv
  BY DEF Init, IInv, Shape, Beats, Windows, Workers, Sinks, Rows, GateInv, SinkInv,
     RowInv, Idle, Live, Terminal, WorkerBusy

\* The terminal phases have no way out.
LEMMA TerminalIsLast ==
  ASSUME NEW p, NEW q, <<p, q>> \in RUN_PHASE
  PROVE  p \notin Terminal /\ q \in Live \union Terminal
  BY DEF RUN_PHASE, Live, Terminal

\* Each step keeps the records' shape.
LEMMA ShapeStep == IInv /\ [Next]_vars => Shape'
  <1> SUFFICES ASSUME IInv, [Next]_vars PROVE Shape'
    OBVIOUS
  <1> USE DEF IInv, Shape
  <1>1. CASE Enter
    <2>1. window.commits + 1 \in Nat BY DEF Windows
    <2> QED BY <1>1, <2>1, Zenon DEF Enter, Windows
  <1>2. CASE Open BY <1>2, Zenon DEF Open, Windows
  <1>3. CASE Leave BY <1>3, Zenon DEF Leave, Windows
  <1>4. CASE CommitWatchdogKills BY <1>4 DEF CommitWatchdogKills, Beats
  <1>5. CASE Retire BY <1>5 DEF Retire, Windows
  <1>6. ASSUME NEW phase \in Live \union Terminal, Move(phase) PROVE Shape'
    BY <1>6 DEF Move, Beats
  <1>7. CASE Launch
    <2>1. beat' \in Beats BY <1>7 DEF Launch, AfterWrite, Beats
    <2>0. TerminalJob \in BOOLEAN BY SMT DEF TerminalJob
    <2>2. worker' \in Workers BY <1>7, <2>0 DEF Launch, Workers, Beats
    <2>3. (row.abandoned \/ TerminalJob) \in BOOLEAN BY Zenon
    <2>4. row' \in Rows BY <1>7, <2>3, Zenon DEF Launch, Rows
    <2> QED BY <1>7, <2>1, <2>2, <2>4 DEF Launch
  <1>8. CASE StopWaiting
    <2>1. beat' \in Beats BY <1>8 DEF StopWaiting, AfterWrite, Beats
    <2>2. row' \in Rows BY <1>8, Zenon DEF StopWaiting, TerminalJob, Rows
    <2> QED BY <1>8, <2>1, <2>2 DEF StopWaiting
  <1>9. CASE Close
    <2>1. beat' \in Beats BY <1>9 DEF Close, Beats
    <2>2. row' \in Rows BY <1>9 DEF Close, Rows
    <2>3. sink' \in Sinks BY <1>9, Zenon DEF Close, Sinks
    <2> QED BY <1>9, <2>1, <2>2, <2>3 DEF Close
  <1>10. CASE Retirement
    <2>1. beat' \in Beats BY <1>10 DEF Retirement, Beats
    <2>2. row' \in Rows BY <1>10 DEF Retirement, Rows
    <2>3. sink' \in Sinks BY <1>10 DEF Retirement, Sinks
    <2> QED BY <1>10, <2>1, <2>2, <2>3 DEF Retirement
  <1>11. CASE RecordLog BY <1>11, Zenon DEF RecordLog, Beats
  <1>12. CASE AbandonAll
    <2>1. beat' \in Beats BY <1>12 DEF AbandonAll, Beats
    <2>2. row' \in Rows BY <1>12 DEF AbandonAll, Rows
    <2> QED BY <1>12, <2>1, <2>2 DEF AbandonAll
  <1>13. CASE TakeGate
    <2>1. worker' \in Workers BY <1>13 DEF TakeGate, Workers
    <2>2. window' \in Windows BY <1>13 DEF TakeGate, Windows
    <2>3. sink' \in Sinks BY <1>13 DEF TakeGate, Inherits, Sinks
    <2> QED BY <1>13, <2>1, <2>2, <2>3 DEF TakeGate
  <1>14. CASE StatementReturns
    <2>1. worker' \in Workers BY <1>14 DEF StatementReturns, Workers
    <2>2. window' \in Windows BY <1>14 DEF StatementReturns, Windows
    <2>3. sink' \in Sinks BY <1>14 DEF StatementReturns, Inherits, Sinks
    <2>4. row' \in Rows BY <1>14, Zenon DEF StatementReturns, Workers, Rows
    <2> QED BY <1>14, <2>1, <2>2, <2>3, <2>4 DEF StatementReturns
  <1>15. CASE WorkerEnds
    <2>1. worker' \in Workers BY <1>15 DEF WorkerEnds, Idle, Workers
    <2>2. sink' \in Sinks BY <1>15 DEF WorkerEnds, Sinks
    <2> QED BY <1>15, <2>1, <2>2 DEF WorkerEnds
  <1>16. CASE UNCHANGED vars BY <1>16 DEF vars
  <1> QED
    BY <1>1, <1>2, <1>3, <1>4, <1>5, <1>6, <1>7, <1>8, <1>9, <1>10, <1>11, <1>12,
       <1>13, <1>14, <1>15, <1>16 DEF Next, MainThread, Over

\* Each step keeps the window exclusive.
LEMMA GateStep == IInv /\ [Next]_vars => GateInv'
  <1> SUFFICES ASSUME IInv, [Next]_vars PROVE GateInv'
    OBVIOUS
  <1> USE DEF IInv, Shape, Beats, Windows, Workers, Sinks, Rows, GateInv, SinkInv, RowInv, WorkerBusy
  <1>1. CASE Enter BY <1>1 DEF Enter
  <1>2. CASE Open BY <1>2 DEF Open
  <1>3. CASE Leave BY <1>3 DEF Leave
  <1>4. CASE CommitWatchdogKills BY <1>4 DEF CommitWatchdogKills
  <1>5. CASE Retire BY <1>5 DEF Retire
  <1>6. ASSUME NEW phase \in Live \union Terminal, Move(phase) PROVE GateInv'
    BY <1>6, TerminalIsLast DEF Move, Terminal, Live
  <1>7. CASE Launch BY <1>7 DEF Launch, TerminalJob
  <1>8. CASE StopWaiting BY <1>8 DEF StopWaiting
  <1>9. CASE Close BY <1>9 DEF Close
  <1>10. CASE Retirement BY <1>10 DEF Retirement
  <1>11. CASE RecordLog BY <1>11 DEF RecordLog
  <1>12. CASE AbandonAll BY <1>12 DEF AbandonAll
  <1>13. CASE TakeGate BY <1>13 DEF TakeGate
  <1>14. CASE StatementReturns BY <1>14 DEF StatementReturns
  <1>15. CASE WorkerEnds BY <1>15 DEF WorkerEnds, Idle
  <1>16. CASE UNCHANGED vars BY <1>16 DEF vars
  <1> QED
    BY <1>1, <1>2, <1>3, <1>4, <1>5, <1>6, <1>7, <1>8, <1>9, <1>10, <1>11, <1>12,
       <1>13, <1>14, <1>15, <1>16 DEF Next, MainThread, Over

\* Each step keeps the cursor with one owner.
LEMMA SinkStep == IInv /\ [Next]_vars => SinkInv'
  <1> SUFFICES ASSUME IInv, [Next]_vars PROVE SinkInv'
    OBVIOUS
  <1> USE DEF IInv, Shape, Beats, Windows, Workers, Sinks, Rows, GateInv, SinkInv, RowInv, WorkerBusy
  <1>1. CASE Enter BY <1>1 DEF Enter
  <1>2. CASE Open BY <1>2 DEF Open
  <1>3. CASE Leave BY <1>3 DEF Leave
  <1>4. CASE CommitWatchdogKills BY <1>4 DEF CommitWatchdogKills
  <1>5. CASE Retire BY <1>5 DEF Retire
  <1>6. ASSUME NEW phase \in Live \union Terminal, Move(phase) PROVE SinkInv'
    BY <1>6, TerminalIsLast DEF Move, Terminal, Live
  <1>7. CASE Launch BY <1>7 DEF Launch, AfterWrite
  <1>8. CASE StopWaiting BY <1>8 DEF StopWaiting, AfterWrite
  <1>9. CASE Close BY <1>9 DEF Close
  <1>10. CASE Retirement
    <2>1. beat.at = "retiring" /\ beat' = [beat EXCEPT !.at = "over"]
      BY <1>10 DEF Retirement
    <2>2. sink.owner = "closer" /\ UNCHANGED worker
      BY <1>10 DEF Retirement
    <2> QED BY <2>1, <2>2
  <1>11. CASE RecordLog BY <1>11 DEF RecordLog
  <1>12. CASE AbandonAll BY <1>12 DEF AbandonAll
  <1>13. CASE TakeGate BY <1>13 DEF TakeGate, Inherits
  <1>14. CASE StatementReturns BY <1>14 DEF StatementReturns, Inherits
  <1>15. CASE WorkerEnds BY <1>15 DEF WorkerEnds, Idle
  <1>16. CASE UNCHANGED vars BY <1>16, SMTT(30) DEF vars
  <1> QED
    BY <1>1, <1>2, <1>3, <1>4, <1>5, <1>6, <1>7, <1>8, <1>9, <1>10, <1>11, <1>12,
       <1>13, <1>14, <1>15, <1>16 DEF Next, MainThread, Over

\* Each step keeps the terminal write accounted for.
LEMMA RowStep == IInv /\ [Next]_vars => RowInv'
  <1> SUFFICES ASSUME IInv, [Next]_vars PROVE RowInv'
    OBVIOUS
  <1> USE DEF IInv, Shape, Beats, Windows, Workers, Sinks, Rows, GateInv, SinkInv, RowInv, WorkerBusy
  <1>1. CASE Enter BY <1>1 DEF Enter
  <1>2. CASE Open BY <1>2 DEF Open
  <1>3. CASE Leave BY <1>3 DEF Leave
  <1>4. CASE CommitWatchdogKills BY <1>4 DEF CommitWatchdogKills
  <1>5. CASE Retire BY <1>5 DEF Retire
  <1>6. ASSUME NEW phase \in Live \union Terminal, Move(phase) PROVE RowInv'
    BY <1>6, TerminalIsLast DEF Move, Terminal, Live
  <1>7. CASE Launch
    <2>1. CASE WorkerBusy
      <3>1. /\ beat'.moves = beat.moves /\ beat'.phase = beat.phase
            /\ beat'.at = AfterWrite /\ UNCHANGED worker
        BY <1>7, <2>1 DEF Launch
      <3>2. row'.shows = row.shows /\ (TerminalJob => row'.abandoned)
        BY <1>7, <2>1, Zenon DEF Launch
      <3> QED BY <3>1, <3>2 DEF AfterWrite, TerminalJob
    <2>2. CASE ~WorkerBusy
      <3>1. /\ beat'.moves = beat.moves /\ beat'.phase = beat.phase
            /\ beat'.at = "waiting" /\ UNCHANGED row
        BY <1>7, <2>2 DEF Launch
      <3>2. worker'.at = "gate" /\ worker'.job = beat.job
        BY <1>7, <2>2 DEF Launch
      <3> QED BY <1>7, <3>1, <3>2 DEF Launch
    <2> QED BY <2>1, <2>2
  <1>8. CASE StopWaiting
    <2>1. /\ beat'.moves = beat.moves /\ beat'.phase = beat.phase
          /\ beat'.at = AfterWrite /\ UNCHANGED worker
      BY <1>8 DEF StopWaiting
    <2>2. /\ row'.shows = row.shows /\ row'.failed = row.failed
          /\ row.abandoned \/ (WorkerBusy /\ TerminalJob) => row'.abandoned
      BY <1>8, Zenon DEF StopWaiting
    <2> QED BY <1>8, <2>1, <2>2 DEF StopWaiting, AfterWrite, TerminalJob
  <1>9. CASE Close BY <1>9 DEF Close
  <1>10. CASE Retirement BY <1>10 DEF Retirement
  <1>11. CASE RecordLog BY <1>11 DEF RecordLog
  <1>12. CASE AbandonAll BY <1>12 DEF AbandonAll
  <1>13. CASE TakeGate BY <1>13 DEF TakeGate
  <1>14. CASE StatementReturns
    <2> PICK raised \in BOOLEAN :
          LET written == /\ ~raised /\ worker.job > 0
                         /\ worker.job = 1 \/ row.shows > 0
          IN  row' = [row EXCEPT !.shows = IF written THEN worker.job ELSE @,
                                 !.failed = @ \/ (worker.job > 0 /\ ~written)]
      BY <1>14, Zenon DEF StatementReturns
    <2>1. row'.shows \in {row.shows, worker.job} /\ row'.abandoned = row.abandoned
      OBVIOUS
    <2>2. worker.job > 0 => row'.failed \/ row'.shows = worker.job
      BY Zenon
    <2>3. row.failed => row'.failed
      OBVIOUS
    <2> QED BY <1>14, <2>1, <2>2, <2>3 DEF StatementReturns
  <1>15. CASE WorkerEnds BY <1>15 DEF WorkerEnds, Idle
  <1>16. CASE UNCHANGED vars BY <1>16 DEF vars
  <1> QED
    BY <1>1, <1>2, <1>3, <1>4, <1>5, <1>6, <1>7, <1>8, <1>9, <1>10, <1>11, <1>12,
       <1>13, <1>14, <1>15, <1>16 DEF Next, MainThread, Over

\* The invariant is inductive.
LEMMA StepKeeps == IInv /\ [Next]_vars => IInv'
  BY ShapeStep, GateStep, SinkStep, RowStep DEF IInv

\* What follows from the invariant.
LEMMA Promises ==
  IInv => WindowExcludesWrites /\ SinkHasOneOwner /\ TerminalRecorded
  BY DEF IInv, GateInv, SinkInv, RowInv, Shape, Rows, WorkerBusy,
         WindowExcludesWrites, SinkHasOneOwner, TerminalRecorded

\* No heartbeat statement runs between the applier's entry into the commit->ack
\* window and its exit (_CommitAckWindow.enter, excluded).
THEOREM WindowIsExclusive == Spec => []WindowExcludesWrites
  BY InitHolds, StepKeeps, Promises, PTL DEF Spec

\* Whoever closes the heartbeat's cursor is alone with it (_execute_bounded, close).
THEOREM CursorHasOneOwner == Spec => []SinkHasOneOwner
  BY InitHolds, StepKeeps, Promises, PTL DEF Spec

\* The row of a run that terminalised says so, unless the write was recorded as
\* abandoned or the database refused a statement; it never shows a phase the run
\* has not reached (RunPhaseWriter.finish).
THEOREM TerminalIsRecorded == Spec => []TerminalRecorded
  BY InitHolds, StepKeeps, Promises, PTL DEF Spec
=============================================================================
