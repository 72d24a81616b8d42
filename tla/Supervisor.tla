------------------------------ MODULE Supervisor ------------------------------
(***************************************************************************)
(* One process lifetime around the embedded Debezium engine: the           *)
(* supervision loop and ordered shutdown of supervisor.py, the completion  *)
(* watermark that ends a finite run, the destination ownership token, the  *)
(* service watchdog, the live-discovery loop of discovery_coordinator.py,  *)
(* the post-engine proof of completion_stage.py and the teardown of        *)
(* pipeline.py.                                                            *)
(*                                                                         *)
(* Threads: the main thread (one action per bounded stage, selected by     *)
(* run.at), the Debezium callback, the engine thread, the slot sampler,    *)
(* the catalog poller and the service watchdog.  Elapsed time is a         *)
(* nondeterministic choice wherever the code compares a clock: a bounded   *)
(* wait may always give up, and a callback or close may never return.      *)
(* Positions are small integers: source.wal is the last committed source   *)
(* position, applier.durable the destination's resume point.               *)
(***************************************************************************)
EXTENDS Integers, Sequences, FiniteSets

CONSTANTS
    MaxLsn(_),  \* bound on the source positions written in a mode, markers included
    Modes,      \* the runs explored: a subset of {"service", "finite"}
    MaxFaults   \* bound on what goes wrong around one process

ASSUME SupervisorAssumption ==
    /\ MaxFaults \in Nat
    /\ \A m \in Modes : MaxLsn(m) \in Nat \ {0}
    /\ Modes \subseteq {"service", "finite"} /\ Modes # {}

VARIABLES
    mode,         \* service_context is None or not
    source,       \* the primary: positions, reachability, slot, write route
    health,       \* what the sampler has published
    engine,       \* the Debezium engine thread and its completion report
    applier,      \* callback boundary, open group, durable position
    service,      \* ServiceContext: drain intent, barriers, watchdog
    catalog,      \* the watcher thread and what it has queued
    snapshot,     \* SnapshotCompletion: required, completed
    watermark,    \* CompletionWatermark: state and target position
    run,          \* the main thread: stage, outcome, verdict evidence
    destination,  \* ownership token, lease, connection, who touched it
    process,      \* "running" or how the process ended
    faults        \* how much has gone wrong so far

vars == <<mode, source, health, engine, applier, service, catalog, snapshot,
          watermark, run, destination, process, faults>>

-----------------------------------------------------------------------------
(* Declared orders.                                                         *)

\* machines.OUTCOME_ORDER: later is more severe; failures start at "hung".
OUTCOME_ORDER == <<"max_seconds", "idle", "work_done", "engine_finished",
                   "hung", "catalog_unresolved", "recovery_uncleared",
                   "source_dark", "engine_error", "error">>

Rank(o) == CHOOSE i \in DOMAIN OUTCOME_ORDER : OUTCOME_ORDER[i] = o

\* Mutant: the latest observation replaces the cause.
RecordLatest(old, new) == new

\* RunOutcome.record keeps the most severe value it has been given.
Record(old, new) == IF Rank(new) > Rank(old) THEN new ELSE old

OutcomeFailed(o) == Rank(o) >= Rank("hung")

\* machines.SHUTDOWN_SEQUENCE: the edges a shutdown may take.
SHUTDOWN_SEQUENCE ==
    {<<"open", "ack_not_required">>, <<"open", "ack_complete">>,
     <<"open", "ack_pending">>, <<"ack_pending", "ack_complete">>,
     <<"ack_pending", "ack_failed">>,
     <<"ack_not_required", "admission_sealed">>,
     <<"ack_complete", "admission_sealed">>,
     <<"ack_failed", "admission_sealed">>,
     <<"admission_sealed", "callbacks_quiescent">>,
     <<"admission_sealed", "callback_owned">>,
     <<"callbacks_quiescent", "own_executors_stopped">>,
     <<"callbacks_quiescent", "hung">>,
     <<"own_executors_stopped", "engine_closing">>,
     <<"engine_closing", "engine_closed">>, <<"engine_closing", "hung">>,
     <<"engine_closed", "engine_thread_stopped">>,
     <<"engine_closed", "hung">>}

\* The first reason of an early-return chain whose condition holds.
FirstOf(chain) ==
    LET held == {i \in DOMAIN chain : chain[i][1]}
    IN  IF held = {} THEN "none"
        ELSE chain[CHOOSE i \in held : \A j \in held : i <= j][2]

Running == process = "running"

\* The stages in which a change around the process can still be noticed by the
\* stage named; elsewhere it would be read by nobody until that stage.
Noticed(stage) == Running /\ run.at \in {"loop", "locked", stage}

\* A step that goes wrong: a partition, a lost slot, a failed engine or
\* callback, a destructive DDL, a thread that will not stop.  The bounded waits
\* of the shutdown may expire without one.
Fault == faults < MaxFaults /\ faults' = faults + 1

-----------------------------------------------------------------------------
\* The locals of run_engine_bounded.
Locals == [at |-> "loop", outcome |-> "max_seconds", verdict |-> "none",
           sequence |-> "open", finalPoll |-> FALSE, unresolved |-> FALSE,
           evidence |-> {}, quiesced |-> TRUE, poller |-> TRUE,
           handoff |-> FALSE, initial |-> 0, asked |-> 0]

\* A sampler that has not been answered yet, or has been stopped.
NoSamples == [sampled |-> FALSE, fresh |-> FALSE, dark |-> FALSE,
              slotFailed |-> FALSE]

Init ==
    /\ mode \in Modes
    /\ \E writable \in {TRUE, mode = "service"} :
          source = [wal |-> 1, confirmed |-> 0, up |-> TRUE, slot |-> TRUE,
                    writable |-> writable]
    /\ health = NoSamples
    /\ engine = [alive |-> TRUE, failure |-> FALSE, closed |-> FALSE]
    /\ applier = [callback |-> "none", received |-> 0, durable |-> 0,
                  error |-> FALSE, sealed |-> FALSE]
    /\ service = [drain |-> FALSE, stalled |-> FALSE, lost |-> FALSE,
                  quiet |-> FALSE, teardown |-> FALSE, exiting |-> FALSE]
    /\ catalog = [alive |-> TRUE, polls |-> "never", pending |-> FALSE,
                  new |-> FALSE]
    /\ \E required \in BOOLEAN :
          snapshot = [required |-> required, completed |-> FALSE]
    /\ watermark = [state |-> "unarmed", target |-> 0]
    /\ run = Locals
    /\ destination = [token |-> "active", lease |-> "held", con |-> "open"]
    /\ process = "running"
    /\ faults = 0

-----------------------------------------------------------------------------
(* The source, the sampler, the engine thread and the catalog poller.       *)

SourceCommits ==
    /\ Noticed("ack") /\ source.up /\ source.wal < MaxLsn(mode)
    /\ source' = [source EXCEPT !.wal = @ + 1]
    /\ UNCHANGED <<mode, health, engine, applier, service, catalog, snapshot,
                   watermark, run, destination, process, faults>>

\* The network partitions, or a standby loses its logical slot.
SourceChanges ==
    /\ Noticed("ack") /\ Fault
    /\ \/ source' = [source EXCEPT !.up = FALSE] /\ source.up
       \/ source' = [source EXCEPT !.slot = FALSE] /\ source.slot
    /\ UNCHANGED <<mode, health, engine, applier, service, catalog, snapshot,
                   watermark, run, destination, process>>

\* SourceHealth.sample_once and _ingest: an answered sample refreshes the view
\* of the slot and latches a lost slot; silence ages into a dark source only
\* when the source had answered before.
Sample ==
    /\ Noticed("loop")
    /\ \/ /\ source.up
          /\ health' = [health EXCEPT !.sampled = TRUE,
                           !.fresh = (mode = "service"),
                           !.dark = FALSE,
                           !.slotFailed = health.slotFailed
                                          \/ (health.sampled /\ ~source.slot)]
       \/ /\ ~source.up /\ health.sampled /\ ~health.dark
          /\ health' = [health EXCEPT !.dark = TRUE]
    /\ health' # health
    /\ UNCHANGED <<mode, source, engine, applier, service, catalog, snapshot,
                   watermark, run, destination, process, faults>>

\* markBatchFinished reaches the slot through Debezium's offset flush.
SlotConfirms ==
    /\ Noticed("ack") /\ engine.alive /\ source.up /\ source.slot
    /\ applier.callback # "committed" /\ source.confirmed < applier.durable
    /\ source' = [source EXCEPT !.confirmed = applier.durable]
    /\ UNCHANGED <<mode, health, engine, applier, service, catalog, snapshot,
                   watermark, run, destination, process, faults>>

\* The completion callback reports a connector failure; the thread ends by
\* itself, after a failure, or once close() has been called.
EngineReports ==
    /\ Noticed("close") /\ engine.alive /\ ~engine.failure /\ Fault
    /\ engine' = [engine EXCEPT !.failure = TRUE]
    /\ UNCHANGED <<mode, source, health, applier, service, catalog, snapshot,
                   watermark, run, destination, process>>

EngineEnds ==
    /\ Noticed("join") /\ engine.alive
    /\ IF engine.closed \/ engine.failure THEN UNCHANGED faults ELSE Fault
    /\ engine' = [engine EXCEPT !.alive = FALSE]
    /\ UNCHANGED <<mode, source, health, applier, service, catalog, snapshot,
                   watermark, run, destination, process>>

\* One catalog poll: it may queue a fenced destructive change, admit a new
\* relation, or take a transition the declared machine refuses.
CatalogPoll ==
    /\ Noticed("catalog") /\ catalog.alive /\ source.up
    /\ \/ /\ catalog.polls = "never" /\ UNCHANGED faults
          /\ catalog' = [catalog EXCEPT !.polls = "ok"]
       \/ /\ Fault
          /\ catalog' \in {[catalog EXCEPT !.polls = "undeclared"],
                          [catalog EXCEPT !.polls = "ok", !.pending = TRUE],
                          [catalog EXCEPT !.polls = "ok",
                                          !.new = (mode = "finite")]}
          /\ catalog' # catalog
    /\ UNCHANGED <<mode, source, health, engine, applier, service, snapshot,
                   watermark, run, destination, process>>

-----------------------------------------------------------------------------
(* The Debezium callback: Applier.handle_batch.                             *)

Busy == applier.callback # "none"

SnapshotEnded == snapshot.completed \/ ~snapshot.required

\* Admission: a batch that arrives after the seal is a recorded no-op.
HandleBatch ==
    /\ Running /\ engine.alive /\ source.up /\ source.slot
    /\ ~applier.sealed /\ ~Busy
    /\ applier.received < source.wal
    /\ applier' = [applier EXCEPT !.callback = "group",
                                  !.received = applier.received + 1]
    /\ UNCHANGED <<mode, source, health, engine, service, catalog, snapshot,
                   watermark, run, destination, process, faults>>

\* COMMIT of the open group: the durable position moves, a fenced catalog
\* change behind it is applied, and the last snapshot row may be among them.
\* A service write is refused once the lease is lost or progress has stalled.
CommitGroup ==
    /\ Running /\ applier.callback = "group"
    /\ ~(service.lost \/ service.stalled)
    /\ applier' = [applier EXCEPT !.callback = "committed",
                                  !.durable = applier.received]
    /\ catalog' = [catalog EXCEPT !.pending = FALSE]
    /\ \E done \in {snapshot.completed, snapshot.required} :
          snapshot' = [snapshot EXCEPT !.completed = done]
    /\ UNCHANGED <<mode, source, health, engine, service, watermark, run,
                   destination, process, faults>>

\* The batch is acknowledged and the callback leaves.
AcknowledgeBatch ==
    /\ Running /\ applier.callback = "committed"
    /\ applier' = [applier EXCEPT !.callback = "none"]
    /\ UNCHANGED <<mode, source, health, engine, service, catalog, snapshot,
                   watermark, run, destination, process, faults>>

\* The callback leaves with an incomplete unit still buffered.
LeaveTailOpen ==
    /\ Running /\ applier.callback = "group"
    /\ applier' = [applier EXCEPT !.callback = "none"]
    /\ UNCHANGED <<mode, source, health, engine, service, catalog, snapshot,
                   watermark, run, destination, process, faults>>

\* The callback raises: the error is kept and pydbzengine interrupts the engine.
CallbackRaises ==
    /\ Running /\ Busy
    /\ IF service.lost \/ service.stalled THEN UNCHANGED faults ELSE Fault
    /\ applier' = [applier EXCEPT !.callback = "none", !.error = TRUE]
    /\ engine' = [engine EXCEPT !.failure = TRUE]
    /\ UNCHANGED <<mode, source, health, service, catalog, snapshot, watermark,
                   run, destination, process>>

-----------------------------------------------------------------------------
(* ServiceContext: signals and the independent watchdog.                    *)

\* SIGTERM: request_drain.
DrainSignal ==
    /\ Noticed("loop") /\ mode = "service" /\ ~service.drain
    /\ service' = [service EXCEPT !.drain = TRUE]
    /\ UNCHANGED <<mode, source, health, engine, applier, catalog, snapshot,
                   watermark, run, destination, process, faults>>

\* The watchdog stands back for a diagnosed dark source, a validated quiet
\* route and a teardown the supervisor owns.
WatchdogMayAct ==
    /\ Running /\ mode = "service"
    /\ ~(service.quiet \/ service.teardown \/ run.outcome = "source_dark")

\* A callback that outlives the operation budget, or a route without progress.
WatchdogStalls ==
    /\ WatchdogMayAct /\ ~service.stalled
    /\ IF Busy THEN UNCHANGED faults ELSE Fault
    /\ service' = [service EXCEPT !.stalled = TRUE, !.drain = TRUE]
    /\ UNCHANGED <<mode, source, health, engine, applier, catalog, snapshot,
                   watermark, run, destination, process>>

\* The grace period is over: the decision is taken from flags read earlier ...
WatchdogDecides ==
    /\ WatchdogMayAct /\ service.stalled /\ ~service.exiting
    /\ service' = [service EXCEPT !.exiting = TRUE]
    /\ UNCHANGED <<mode, source, health, engine, applier, catalog, snapshot,
                   watermark, run, destination, process, faults>>

\* ... and os._exit runs whenever the thread gets there.
WatchdogExits ==
    /\ Running /\ service.exiting
    /\ process' = "killed"
    /\ UNCHANGED <<mode, source, health, engine, applier, service, catalog,
                   snapshot, watermark, run, destination, faults>>

-----------------------------------------------------------------------------
(* CompletionWatermark: may a finite run stop?                              *)

MayStop == ~Busy /\ SnapshotEnded

\* unarmed: without a write route there is no position to take; otherwise one
\* marker is written, once the source is observed streaming and quiet.
ArmWatermark ==
    /\ Running /\ mode = "finite" /\ run.at = "loop" /\ engine.alive
    /\ MayStop /\ watermark.state = "unarmed"
    /\ \/ /\ ~source.writable
          /\ watermark' = [watermark EXCEPT !.state = "unavailable"]
          /\ UNCHANGED source
       \/ /\ source.writable /\ source.up /\ health.sampled
          /\ source.wal < MaxLsn(mode)
          /\ source' = [source EXCEPT !.wal = @ + 1]
          /\ watermark' = [state |-> "armed", target |-> source.wal + 1]
    /\ UNCHANGED <<mode, health, engine, applier, service, catalog, snapshot,
                   run, destination, process, faults>>

\* Mutant: the position received, not the durable one, is compared with the marker.
ReceivedPassesMarker ==
    \/ watermark.state = "reached"
    \/ /\ MayStop
       /\ \/ /\ watermark.state = "armed"
             /\ applier.received >= watermark.target
          \/ /\ watermark.state = "unavailable"
             /\ source.up /\ health.sampled

\* reached(): the durable position passed the marker, or (no position could
\* be taken) the source corroborated the quiet window.
WatermarkReached ==
    \/ watermark.state = "reached"
    \/ /\ MayStop
       /\ \/ /\ watermark.state = "armed"
             /\ applier.durable >= watermark.target
          \/ /\ watermark.state = "unavailable"
             /\ source.up /\ health.sampled

-----------------------------------------------------------------------------
(* The supervision loop of run_engine_bounded.                              *)

\* Why this tick of a service stops; timeUp is the comparison of a clock.
ServiceStop(timeUp) == FirstOf(<<
    <<health.slotFailed, "local_slot">>,
    <<health.dark, "dark">>,
    <<~health.sampled /\ timeUp, "unobservable">>,
    <<service.lost \/ service.stalled, "barrier">>,
    <<service.drain /\ ~Busy, "drained">>,
    <<service.drain /\ timeUp, "drain_timeout">>,
    <<service.drain, "none">>,
    <<engine.failure, "failure">> >>)

\* Why this tick of a finite run stops, before the watermark is asked: late is
\* the --max-seconds ceiling.
FiniteStop(late, timeUp) == FirstOf(<<
    <<late, "ceiling">>,
    <<health.slotFailed, "local_slot">>,
    <<engine.failure, "failure">>,
    <<health.dark, "dark">>,
    <<~health.sampled /\ timeUp, "unobservable">>,
    <<catalog.new /\ SnapshotEnded /\ ~Busy, "handoff">> >>)

\* The outcomes a reason may record: an engine already dead when the failure is
\* classified is attributed to the source in a service.
OutcomesFor(reason) ==
    CASE reason \in {"local_slot", "unobservable", "barrier"} -> {"engine_error"}
      [] reason = "dark" -> {"source_dark"}
      [] reason = "ceiling" -> {"max_seconds"}
      [] reason \in {"drained", "handoff"} -> {"work_done"}
      [] reason = "drain_timeout" -> {"hung"}
      [] reason = "failure" -> {"engine_error"} \union
             (IF mode = "service" THEN {"source_dark"} ELSE {})

\* A break of the loop.
LoopStops ==
    /\ Running /\ run.at = "loop" /\ engine.alive
    /\ \E late, timeUp \in BOOLEAN :
       LET reason == IF mode = "service" THEN ServiceStop(timeUp)
                                         ELSE FiniteStop(late, timeUp)
       IN  /\ reason # "none"
           /\ \E outcome \in OutcomesFor(reason) :
                run' = [run EXCEPT !.at = "stop",
                          !.outcome = Record(run.outcome, outcome),
                          !.evidence = run.evidence \union
                              ({reason} \intersect {"local_slot", "unobservable"}),
                          !.handoff = (reason = "handoff")]
    /\ UNCHANGED <<mode, source, health, engine, applier, service, catalog,
                   snapshot, watermark, destination, process, faults>>

\* The queue probe or a raised BaseException leaves the loop: the first is kept
\* in error_box, the second skips the verdict and resumes after the finally.
LoopRaises ==
    /\ Running /\ run.at = "loop" /\ engine.alive /\ Fault
    /\ \E kind \in {"error_box", "interrupt"} :
          run' = [run EXCEPT !.at = "stop", !.evidence = run.evidence \union {kind},
                    !.outcome = IF kind = "error_box"
                                THEN Record(run.outcome, "engine_error")
                                ELSE run.outcome]
    /\ UNCHANGED <<mode, source, health, engine, applier, service, catalog,
                   snapshot, watermark, destination, process>>

\* The stop decision of a finite run.  The first time it performs the
\* synchronous final catalog poll; then it waits, for a bounded time, for a
\* fenced destructive change to be applied.
WatermarkStops ==
    /\ Running /\ mode = "finite" /\ run.at = "loop" /\ engine.alive
    /\ FiniteStop(FALSE, FALSE) = "none" /\ WatermarkReached
    /\ watermark' = [watermark EXCEPT
                        !.state = IF @ = "armed" THEN "reached" ELSE @]
    /\ \/ /\ ~run.finalPoll
          /\ run' = [run EXCEPT !.finalPoll = TRUE]
          /\ \E pending \in {catalog.pending, source.up} :
                catalog' = [catalog EXCEPT !.pending = pending,
                              !.polls = IF source.up /\ catalog.polls = "never"
                                        THEN "ok" ELSE catalog.polls]
       \/ /\ run.finalPoll
          /\ run' = [run EXCEPT !.at = "stop", !.outcome = Record(run.outcome, "idle"),
                                !.unresolved = catalog.pending]
          /\ UNCHANGED catalog
    /\ UNCHANGED <<mode, source, health, engine, applier, service, snapshot,
                   destination, process, faults>>

\* The service tick folds a newer sample into ServiceContext.
ServiceObserves ==
    /\ Running /\ mode = "service" /\ run.at = "loop" /\ engine.alive
    /\ health.fresh /\ ServiceStop(FALSE) = "none"
    /\ health' = [health EXCEPT !.fresh = FALSE]
    /\ service' = [service EXCEPT !.quiet =
                      SnapshotEnded /\ applier.received <= source.confirmed]
    /\ UNCHANGED <<mode, source, engine, applier, catalog, snapshot, watermark,
                   run, destination, process, faults>>

\* The periodic recheck (before the drain branch) and the lease renewal (after
\* it) take the applier's destination operation lock, which a callback holds
\* from admission to return.
ServiceLocks ==
    /\ Running /\ mode = "service" /\ run.at = "loop" /\ engine.alive
    /\ ServiceStop(FALSE) \in {"none", "drained", "failure"}
    /\ run' = [run EXCEPT !.at = "locked"]
    /\ UNCHANGED <<mode, source, health, engine, applier, service, catalog,
                   snapshot, watermark, destination, process, faults>>

\* With the lock: the check passes, finds the slot gone, or the renewal fails
\* and the lease is lost.
ServiceHoldsLock ==
    /\ Running /\ run.at = "locked" /\ ~Busy
    /\ \/ run' = [run EXCEPT !.at = "loop"] /\ UNCHANGED <<service, faults>>
       \/ /\ Fault
          /\ run' = [run EXCEPT !.at = "stop", !.evidence = run.evidence \union
                                                {"error_box"},
                                !.outcome = Record(run.outcome, "engine_error")]
          /\ \E lost \in {FALSE, ~service.drain} :
                service' = [service EXCEPT !.lost = lost, !.drain = service.drain \/ lost]
    /\ UNCHANGED <<mode, source, health, engine, applier, catalog, snapshot,
                   watermark, destination, process>>

\* while-else: the engine thread has ended by itself, perhaps before its queue
\* was ever inspected.
EngineGone ==
    /\ Running /\ run.at = "loop" /\ ~engine.alive
    /\ \E outcome \in
          CASE mode = "finite" -> {"engine_finished"}
            [] health.slotFailed \/ service.drain -> {"engine_error"}
            [] OTHER -> {"source_dark", "engine_error"} :
       \E probe \in {{}, {"error_box"}} :
          run' = [run EXCEPT !.at = "stop", !.outcome = Record(run.outcome, outcome),
                    !.evidence = run.evidence \union probe \union
                        (IF mode = "service" /\ health.slotFailed
                         THEN {"local_slot"} ELSE {})]
    /\ UNCHANGED <<mode, source, health, engine, applier, service, catalog,
                   snapshot, watermark, destination, process, faults>>

-----------------------------------------------------------------------------
(* The ordered shutdown: the finally of run_engine_bounded.                 *)

\* ShutdownSequence.to refuses an edge the machine does not declare.
Advance(next) == <<run.sequence, next>> \in SHUTDOWN_SEQUENCE

Stage(at) == Running /\ run.at = at

\* Teardown is announced to the watchdog, drain intent set, and the durable
\* position read to decide whether the slot still owes a confirmation: the
\* sample it is compared with may be stale.  The loop's samples, its locals and
\* the quiet route are not read again.
BeginShutdown ==
    /\ Stage("stop")
    /\ service' = [service EXCEPT !.teardown = (mode = "service"),
                                  !.drain = (mode = "service"), !.quiet = FALSE]
    /\ health' = NoSamples
    /\ \E stale \in BOOLEAN :
       LET barrier  == service.lost \/ service.stalled
           outcome  == IF barrier THEN Record(run.outcome, "engine_error")
                                  ELSE run.outcome
           required == /\ applier.durable > run.initial
                       /\ health.sampled
                       /\ outcome \notin {"source_dark", "hung", "engine_error"}
           pending  == required /\ (stale \/ source.confirmed < applier.durable)
           marked   == pending /\ source.writable /\ source.up
                               /\ source.wal < MaxLsn(mode)
           next     == IF pending THEN "ack_pending"
                       ELSE IF required THEN "ack_complete"
                       ELSE "ack_not_required"
       IN  /\ Advance(next)
           /\ source' = IF marked THEN [source EXCEPT !.wal = @ + 1] ELSE source
           /\ run' = [run EXCEPT !.outcome = outcome, !.sequence = next,
                        !.at = IF pending THEN "ack" ELSE "seal",
                        !.finalPoll = FALSE, !.initial = 0,
                        !.asked = IF ~required THEN 0
                                  ELSE IF marked THEN source.wal + 1
                                  ELSE applier.durable]
    /\ UNCHANGED <<mode, engine, applier, catalog, snapshot, watermark,
                   destination, process, faults>>

\* wait_for_confirmed: the slot confirms what was asked, or the wait expires.
AwaitAcknowledgement ==
    /\ Stage("ack")
    /\ \/ /\ source.up /\ source.slot /\ source.confirmed >= run.asked
          /\ Advance("ack_complete")
          /\ run' = [run EXCEPT !.at = "seal", !.sequence = "ack_complete"]
       \/ /\ Advance("ack_failed")
          /\ run' = [run EXCEPT !.at = "seal", !.sequence = "ack_failed",
                       !.asked = 0,
                       !.outcome = Record(run.outcome, "engine_error"),
                       !.evidence = run.evidence \union {"ack_timeout"}]
    /\ UNCHANGED <<mode, source, health, engine, applier, service, catalog,
                   snapshot, watermark, destination, process, faults>>

\* handler.shutdown(): admission is sealed before anything is waited for.
SealAdmission ==
    /\ Stage("seal") /\ Advance("admission_sealed")
    /\ applier' = [applier EXCEPT !.sealed = TRUE]
    /\ run' = [run EXCEPT !.at = "quiesce", !.sequence = "admission_sealed"]
    /\ UNCHANGED <<mode, source, health, engine, service, catalog, snapshot,
                   watermark, destination, process, faults>>

\* Mutant: the result of the bounded wait is ignored.
AssumesQuiescence ==
    /\ Stage("quiesce") /\ Advance("callbacks_quiescent")
    /\ run' = [run EXCEPT !.at = "executors", !.sequence = "callbacks_quiescent"]
    /\ UNCHANGED <<mode, source, health, engine, applier, service, catalog,
                   snapshot, watermark, destination, process, faults>>

\* Mutant: the wait for callbacks has no bound.
WaitsForQuiescence ==
    /\ Stage("quiesce") /\ ~Busy /\ Advance("callbacks_quiescent")
    /\ run' = [run EXCEPT !.at = "executors", !.sequence = "callbacks_quiescent"]
    /\ UNCHANGED <<mode, source, health, engine, applier, service, catalog,
                   snapshot, watermark, destination, process, faults>>

\* wait_for_quiescence, and the proof published to the ownership token: a
\* callback still inside keeps the destination for good.
ProveQuiescence ==
    /\ Stage("quiesce")
    /\ \/ /\ ~Busy /\ Advance("callbacks_quiescent")
          /\ run' = [run EXCEPT !.at = "executors",
                       !.sequence = "callbacks_quiescent"]
          /\ UNCHANGED destination
       \/ /\ Busy /\ Advance("callback_owned")
          /\ run' = [run EXCEPT !.at = "catalog", !.sequence = "callback_owned",
                       !.quiesced = FALSE, !.outcome = Record(run.outcome, "hung")]
          /\ destination' = [destination EXCEPT !.token = "callback_owned"]
    /\ UNCHANGED <<mode, source, health, engine, applier, service, catalog,
                   snapshot, watermark, process, faults>>

\* A bounded stage either proves its step or ends the sequence as hung.
Proves(next, at) ==
    /\ Advance(next)
    /\ run' = [run EXCEPT !.at = at, !.sequence = next]

Hangs ==
    /\ Advance("hung")
    /\ run' = [run EXCEPT !.at = "catalog", !.sequence = "hung",
                 !.outcome = Record(run.outcome, "hung")]

\* Joining the applier's age timer.
StopExecutors ==
    /\ Stage("executors")
    /\ \/ Proves("own_executors_stopped", "close") /\ UNCHANGED faults
       \/ Hangs /\ Fault
    /\ UNCHANGED <<mode, source, health, engine, applier, service, catalog,
                   snapshot, watermark, destination, process>>

\* engine.close() on a thread of its own ...
CloseEngine ==
    /\ Stage("close") /\ Advance("engine_closing")
    /\ engine' = [engine EXCEPT !.closed = TRUE]
    /\ run' = [run EXCEPT !.at = "closing", !.sequence = "engine_closing"]
    /\ UNCHANGED <<mode, source, health, applier, service, catalog, snapshot,
                   watermark, destination, process, faults>>

\* ... which returns or does not ...
EngineClosed ==
    /\ Stage("closing")
    /\ \/ Proves("engine_closed", "join") /\ UNCHANGED faults
       \/ Hangs /\ Fault
    /\ UNCHANGED <<mode, source, health, engine, applier, service, catalog,
                   snapshot, watermark, destination, process>>

\* ... and the join of the engine thread.
JoinEngine ==
    /\ Stage("join")
    /\ \/ ~engine.alive /\ Proves("engine_thread_stopped", "catalog")
       \/ engine.alive /\ Hangs
    /\ UNCHANGED <<mode, source, health, engine, applier, service, catalog,
                   snapshot, watermark, destination, process, faults>>

\* catalog.stop() proves the poller dead or reports that it is not; an
\* intermediate hand-off leaves it running.  Then a quiescent applier discards
\* its un-ENDed tail and verifies the last offset flush.
StopCatalog ==
    /\ Stage("catalog")
    /\ \E stopped, verified \in BOOLEAN :
          /\ IF stopped /\ verified THEN UNCHANGED faults ELSE Fault
          /\ run.handoff => stopped
          /\ catalog' = [catalog EXCEPT !.alive = @ /\ (run.handoff \/ ~stopped)]
          /\ run' = [run EXCEPT !.at = "verdict", !.poller = stopped]
          /\ applier' = IF run.quiesced
                        THEN [applier EXCEPT !.received = applier.durable,
                                             !.error = applier.error \/ ~verified]
                        ELSE applier
    /\ UNCHANGED <<mode, source, health, engine, service, snapshot, watermark,
                   destination, process>>

-----------------------------------------------------------------------------
(* The verdict, the coordinator, the completion stage and the teardown.     *)

\* The first check of the verdict that refuses success; dark is the
\* connector-health rule of a run that never had a position, owing the durable
\* table-lifecycle work read from the destination.
VerdictReason(dark, owing) == FirstOf(<<
    <<"interrupt" \in run.evidence, "interrupt">>,
    <<"ack_timeout" \in run.evidence, "ack_timeout">>,
    <<"unobservable" \in run.evidence, "unobservable">>,
    <<"local_slot" \in run.evidence, "local_slot">>,
    <<~run.quiesced, "callback_owned">>,
    <<"error_box" \in run.evidence \/ applier.error \/ engine.failure, "failure">>,
    <<run.outcome \in {"hung", "source_dark", "engine_error"}, "outcome">>,
    <<~SnapshotEnded, "snapshot">>,
    <<run.outcome = "engine_finished", "engine_died">>,
    <<mode = "finite" /\ run.outcome = "max_seconds"
        /\ (watermark.state \in {"armed", "unarmed"} \/ dark), "ceiling">>,
    <<~run.poller, "poller">>,
    <<catalog.polls # "ok", "poller">>,
    <<~run.handoff /\ (catalog.pending \/ run.unresolved), "catalog">>,
    <<~run.handoff /\ ~snapshot.required /\ owing, "catalog">> >>)

VerdictOutcome(reason) ==
    CASE reason = "failure" /\ run.outcome = "source_dark" -> "source_dark"
      [] reason \in {"failure", "poller"} -> Record(run.outcome, "engine_error")
      [] reason = "catalog" -> Record(run.outcome, "catalog_unresolved")
      [] OTHER -> run.outcome

\* A refusal raises EngineFailure.
Verdict ==
    /\ Stage("verdict")
    /\ \E dark, owing \in BOOLEAN :
       LET reason  == VerdictReason(dark, owing)
           outcome == VerdictOutcome(reason)
       IN  IF reason = "none"
           THEN /\ run' = [run EXCEPT !.verdict = "ok", !.at = "coordinate"]
                /\ UNCHANGED watermark
           ELSE /\ run' = [Locals EXCEPT !.at = "unwind", !.outcome = outcome,
                                         !.verdict = "failed"]
                /\ watermark' = [state |-> "unarmed", target |-> 0]
    /\ UNCHANGED <<mode, source, health, engine, applier, service, catalog,
                   snapshot, destination, process, faults>>

\* DestinationOwnership.retire_if_quiescent: the token after the decision.
Retired(token) ==
    IF token = "active"
    THEN IF applier.sealed /\ ~Busy THEN "available" ELSE "callback_owned"
    ELSE token

\* Nothing was discovered: the completion stage re-reads the durable state and
\* refuses a run whose recovery, lifecycle, baseline or refusals are open.
FinishRun ==
    /\ Stage("coordinate") /\ ~(mode = "finite" /\ catalog.new)
    /\ \E refusal \in {"none", "recovery_uncleared", "catalog_unresolved",
                        "engine_error"} :
          run' = IF refusal = "none" THEN [run EXCEPT !.at = "teardown"]
                 ELSE [Locals EXCEPT !.at = "unwind", !.verdict = "failed",
                                     !.outcome = Record(run.outcome, refusal)]
    /\ UNCHANGED <<mode, source, health, engine, applier, service, catalog,
                   snapshot, watermark, destination, process, faults>>

\* The live discovery hand-off: the watcher and the ownership token are both
\* proved quiet, the new relation is re-snapshotted through the destination,
\* and a fresh engine is attached to the same slot.
DiscoveryHandoff ==
    /\ Stage("coordinate") /\ mode = "finite" /\ catalog.new
    /\ \/ /\ Retired(destination.token) = "available"
          /\ engine' = [alive |-> TRUE, failure |-> FALSE, closed |-> FALSE]
          /\ applier' = [applier EXCEPT !.sealed = FALSE]
          /\ catalog' = [catalog EXCEPT !.new = FALSE, !.alive = TRUE]
          /\ snapshot' = [required |-> FALSE, completed |-> FALSE]
          /\ watermark' = [state |-> "unarmed", target |-> 0]
          /\ run' = [Locals EXCEPT !.initial = applier.durable]
          /\ UNCHANGED destination
       \/ \* the watcher or the re-snapshot failed, or the deadline has passed
          /\ run' = [Locals EXCEPT !.at = "unwind", !.verdict = "failed",
                       !.outcome = Record(run.outcome, "engine_error")]
          /\ destination' = [destination EXCEPT !.token = Retired(@)]
          /\ UNCHANGED <<engine, applier, catalog, snapshot, watermark>>
    /\ UNCHANGED <<mode, source, health, service, process, faults>>

\* The coordinator's except and finally: a lost local slot is journalled
\* through the destination, admission is sealed, the watcher stopped, its
\* refusals persisted, and the token asked to retire.
CoordinatorUnwinds ==
    /\ Stage("unwind")
    /\ \E stopped \in {TRUE, ~catalog.alive} :
       /\ catalog' = [catalog EXCEPT !.alive = @ /\ ~stopped]
       /\ destination' = [destination EXCEPT
                             !.token = IF stopped THEN Retired(@) ELSE @]
    /\ applier' = [applier EXCEPT !.sealed = TRUE]
    /\ run' = [run EXCEPT !.at = "report"]
    /\ UNCHANGED <<mode, source, health, engine, service, snapshot, watermark, process,
                   faults>>

\* _record_run_failure_alert: the alert is written, whoever still owns the
\* destination, and the run is a failure from here on.
ReportFailure ==
    /\ Stage("report")
    /\ run' = [run EXCEPT !.at = "teardown",
                 !.outcome = IF OutcomeFailed(run.outcome) THEN run.outcome
                             ELSE Record(run.outcome, "error")]
    /\ UNCHANGED <<mode, source, health, engine, applier, service, catalog,
                   snapshot, watermark, destination, process, faults>>

\* _teardown_destination: a retired destination releases lease, heartbeat and
\* connection; a callback-owned one is abandoned to a hard exit.
Teardown ==
    /\ Stage("teardown")
    /\ LET token == Retired(destination.token)
       IN  destination' =
              IF token = "available"
              THEN [destination EXCEPT !.token = token, !.lease = "released",
                                       !.con = "closed"]
              ELSE [destination EXCEPT !.token = token]
    /\ run' = [run EXCEPT !.at = "exit"]
    /\ UNCHANGED <<mode, source, health, engine, applier, service, catalog,
                   snapshot, watermark, process, faults>>

\* The summary is written and shutdown_and_exit ends the process.
Exit ==
    /\ Stage("exit")
    /\ process' = IF run.verdict = "ok" THEN "ok" ELSE "failed"
    /\ UNCHANGED <<mode, source, health, engine, applier, service, catalog,
                   snapshot, watermark, run, destination, faults>>

-----------------------------------------------------------------------------
MainThread ==
    \/ LoopStops \/ WatermarkStops \/ EngineGone \/ ServiceHoldsLock
    \/ BeginShutdown \/ AwaitAcknowledgement \/ SealAdmission \/ ProveQuiescence
    \/ StopExecutors \/ CloseEngine \/ EngineClosed \/ JoinEngine \/ StopCatalog
    \/ Verdict \/ FinishRun \/ DiscoveryHandoff \/ CoordinatorUnwinds
    \/ ReportFailure \/ Teardown \/ Exit

Watchdog == WatchdogStalls \/ WatchdogDecides \/ WatchdogExits

\* The process is over.
Ended == ~Running /\ UNCHANGED vars

Next ==
    \/ SourceCommits \/ SourceChanges \/ Sample \/ SlotConfirms
    \/ EngineReports \/ EngineEnds \/ CatalogPoll
    \/ HandleBatch \/ CommitGroup \/ AcknowledgeBatch \/ LeaveTailOpen
    \/ CallbackRaises
    \/ DrainSignal \/ Watchdog
    \/ ArmWatermark \/ LoopRaises \/ ServiceObserves \/ ServiceLocks
    \/ MainThread
    \/ Ended

\* The main thread and the watchdog are scheduled; every wait of the main
\* thread is bounded, so its stages are always enabled.  A tick compares the
\* clock with the --max-seconds ceiling or the drain deadline between any two
\* lock acquisitions, so a loop that may stop in every tick does stop.  Nothing
\* is assumed of the source, the engine or a callback, which may hang.
Fairness ==
    /\ WF_vars(MainThread) /\ SF_vars(LoopStops)
    /\ WF_vars(WatchdogStalls /\ Busy) /\ WF_vars(WatchdogDecides)
    /\ WF_vars(WatchdogExits)

Spec == Init /\ [][Next]_vars /\ Fairness

-----------------------------------------------------------------------------
(* Properties.                                                              *)

\* No handle is given up around a callback: once stock close() has been called,
\* the lease released or the connection closed, admission is sealed and no
\* callback is inside (ordered finally of run_engine_bounded, A66; retirement
\* in ownership.py; _teardown_destination).
QuiescentRetirement ==
    (engine.closed \/ destination.lease = "released" \/ destination.con = "closed")
        => applier.sealed /\ ~Busy

\* A success is a completed delivery nobody can still change: the destination
\* is durably past the marker the run took, the slot has confirmed what the
\* shutdown asked of it, the snapshot ended, nothing failed, no destructive
\* catalog change is left unapplied, and the poller and engine are stopped.
CompleteOnSuccess ==
    process = "ok" =>
        /\ watermark.state = "reached" => applier.durable >= watermark.target
        /\ source.confirmed >= run.asked
        /\ SnapshotEnded
        /\ ~applier.error /\ ~engine.failure /\ ~engine.alive
        /\ ~catalog.pending /\ (catalog.new => mode = "service")
        /\ ~catalog.alive /\ catalog.polls = "ok"
        /\ destination.lease = "released" /\ destination.con = "closed"

\* A cause is never overwritten by its symptom: within one engine the recorded
\* outcome only becomes more severe, through shutdown, verdict and report
\* (RunOutcome.record; a dark source that makes close() hang stays dark).
CauseOutlivesSymptom ==
    [][Rank(run.outcome') >= Rank(run.outcome) \/ run'.at = "loop"]_vars

\* A finite run ends, and a drained or stalled service ends, whatever the
\* source, engine or callback do, unless the main thread waits for good for the
\* destination operation lock of a callback the watchdog has been told to leave
\* alone.
RunEnds ==
    (mode = "finite" \/ service.drain)
        ~> (~Running \/ [](run.at = "locked" /\ Busy /\ service.quiet))
=============================================================================
