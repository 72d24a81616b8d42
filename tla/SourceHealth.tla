----------------------------- MODULE SourceHealth -----------------------------
(***************************************************************************)
(* The source-health sampler (source_health.py), the service witness it    *)
(* feeds (witness_contract.py, service_runtime.py) and the quiet-window    *)
(* verdict of a bounded run (completion_watermark.py), in discrete time:   *)
(* one tick is one sampler interval.                                       *)
(*                                                                         *)
(* Actors: the source with its slot and walsenders, the connector's        *)
(* callbacks, the sampler thread (a read, later stamped and folded), and   *)
(* the supervisor's loop (evaluate, later published).  Every timestamp is  *)
(* kept as its age; NONE is an unset one.                                  *)
(***************************************************************************)
EXTENDS Integers

CONSTANTS
    Modes,         \* run modes checked: "service", "bounded"
    MaxWal,        \* bound on the captured rows the source writes
    MaxGens,       \* bound on the backends that attach to the slot
    MaxFaults,     \* bound on kills, thefts, dead engines, failed reads, flips
    HangTicks,     \* connect_timeout + query_timeout_ms: one read at its longest
    Backoff(_),    \* by mode: the connector's restart wait after a lost walsender
    Prompt,        \* an attached walsender delivers a row within this
    SampleStale,   \* three intervals
    ProgressStale, \* source_health_stale_seconds
    DarkAfter,     \* CDC_SOURCE_DARK_SECONDS
    Stable,        \* ten intervals of streaming end a retry
    IdleTicks      \* --idle-seconds

\* A bounded run's restart wait outlasts the longest gap between two reads of the
\* slot, and its silence what a sample and a delivery may be late.
ASSUME HealthAssumption ==
    /\ Modes \subseteq {"service", "bounded"}
    /\ {HangTicks, Prompt, SampleStale, ProgressStale} \subseteq Nat
    /\ {DarkAfter, Stable, IdleTicks, Backoff("bounded")} \subseteq Nat
    /\ Backoff("bounded") > HangTicks + 1
    /\ IdleTicks > Prompt + SampleStale

VARIABLES
    mode,    \* the run's mode
    slot,    \* the source: slot, holder, its backend and label, WAL positions
    proc,    \* this process: engine, received, durable and acked positions
    sampler, \* the sampler thread: its stage and the row it read
    health,  \* SourceHealth: samples, derived clocks, service verdict, binding
    ctx,     \* ServiceContext: the published witness
    run,     \* the supervisor's loop: stage, verdict, idle candidate, stop reason
    hist     \* history: how long our walsender is gone, how long a row is owed

vars == <<mode, slot, proc, sampler, health, ctx, run, hist>>

-----------------------------------------------------------------------------
NONE == -1

\* A tick later.  An age saturates where no comparison tells it apart any more.
Older(age, cap) == IF age = NONE \/ age >= cap THEN age ELSE age + 1

Service == mode = "service"

NoSample == [age |-> NONE, known |-> FALSE, exists |-> FALSE, active |-> FALSE,
             gen |-> 0, confirmed |-> NONE, lag |-> NONE, route |-> FALSE]

NoHealth == [last |-> NoSample, prev |-> NoSample,
             not_streaming |-> NONE, unknown |-> NONE, streaming |-> NONE,
             retrying |-> NONE, lag_stable |-> NONE, prev_lag |-> NONE,
             interrupted |-> NONE, recovered |-> FALSE,
             ever_sampled |-> FALSE, ever_streamed |-> FALSE,
             stalled |-> NONE, mismatch |-> FALSE, bound |-> 0]

Init ==
    /\ mode \in Modes
    /\ slot = [exists |-> TRUE, holder |-> "none", gen |-> 0, wal |-> 0,
               confirmed |-> 0, route |-> TRUE, faults |-> 0]
    /\ \E completed \in IF mode = "service" THEN BOOLEAN ELSE {FALSE} :
         proc = [engine |-> TRUE, received |-> 0, durable |-> 0,
                 acked |-> NONE, completed |-> completed, ignored |-> FALSE,
                 progress |-> NONE, ack |-> NONE, cert |-> "none", batch |-> 0]
    /\ sampler = [at |-> "due", row |-> NoSample, busy |-> 0]
    /\ health = NoHealth
    /\ ctx = [observed |-> NONE, connected |-> FALSE, quiet |-> FALSE,
              engine |-> TRUE]
    /\ run = [at |-> "due", status |-> "unset", quiet |-> FALSE,
              candidate |-> NONE, newer |-> FALSE, stop |-> "none"]
    /\ hist = [lost |-> 0, held |-> NONE, owed |-> NONE, reroute |-> FALSE]

Running == run.stop = "none"

Fault == slot.faults < MaxFaults

-----------------------------------------------------------------------------
(* The source and its walsenders.                                           *)

\* A captured row is committed.
SourceWrites ==
    /\ Running /\ slot.wal < MaxWal
    /\ slot' = [slot EXCEPT !.wal = @ + 1]
    /\ hist' = [hist EXCEPT !.owed = IF @ = NONE /\ ~Service THEN 0 ELSE @]
    /\ UNCHANGED <<mode, proc, sampler, health, ctx, run>>

\* Our connector takes the free slot, after its backoff.
Attaches ==
    /\ Running /\ slot.exists /\ slot.holder = "none" /\ slot.gen < MaxGens
    /\ proc.engine /\ (slot.gen = 0 \/ hist.lost >= Backoff(mode))
    /\ slot' = [slot EXCEPT !.holder = "ours", !.gen = @ + 1]
    /\ hist' = [hist EXCEPT !.held = IF Service THEN NONE ELSE 0, !.lost = 0]
    /\ UNCHANGED <<mode, proc, sampler, health, ctx, run>>

\* The walsender is terminated, and with it, perhaps, the engine; or a replica
\* slot is dropped under it.
Detaches ==
    /\ Running /\ slot.holder = "ours" /\ Fault
    /\ \E exists, dies \in BOOLEAN :
         /\ exists \/ Service
         /\ slot' = [slot EXCEPT !.holder = "none", !.faults = @ + 1,
                                 !.exists = exists]
         /\ proc' = [proc EXCEPT !.engine = ~dies]
    /\ hist' = [hist EXCEPT !.held = NONE]
    /\ UNCHANGED <<mode, sampler, health, ctx, run>>

\* Another client takes the slot, free or from our terminated walsender, under
\* the stock application name (one without it is told apart at once); or it
\* leaves.
Trespasses ==
    /\ Running /\ Service
    /\ \/ /\ slot.holder # "foreign" /\ slot.exists /\ Fault /\ slot.gen < MaxGens
          /\ slot' = [slot EXCEPT !.holder = "foreign", !.gen = @ + 1,
                                  !.faults = @ + 1]
       \/ /\ slot.holder = "foreign"
          /\ slot' = [slot EXCEPT !.holder = "none"]
    /\ UNCHANGED <<mode, proc, sampler, health, ctx, run, hist>>

\* The publication loses, or regains, every configured table.
RouteFlips ==
    /\ Running /\ Service /\ Fault
    /\ slot' = [slot EXCEPT !.route = ~@, !.faults = @ + 1]
    /\ hist' = [hist EXCEPT !.reroute = TRUE]
    /\ UNCHANGED <<mode, proc, sampler, health, ctx, run>>

\* The other client consumes what the slot holds.
Consumes ==
    /\ Running /\ slot.holder = "foreign" /\ slot.confirmed < slot.wal
    /\ slot' = [slot EXCEPT !.confirmed = slot.wal]
    /\ UNCHANGED <<mode, proc, sampler, health, ctx, run, hist>>

\* The connector publishes the acknowledged offset to the slot.
Confirms ==
    /\ Running /\ slot.holder = "ours" /\ slot.confirmed < proc.durable
    /\ slot' = [slot EXCEPT !.confirmed = proc.durable]
    /\ UNCHANGED <<mode, proc, sampler, health, ctx, run, hist>>

-----------------------------------------------------------------------------
(* The connector's callbacks.                                               *)

\* The clocks only a service reads are kept in a service.  proc.cert places
\* the identity clock among the samples: after the last one, or between the
\* last two; "none" is a clock too old to bind a backend, or used for that.

\* handle_batch over data: received moves; a group that commits and is
\* acknowledged moves durable and the own-ack clock; the callback's return is
\* progress and certifies the backend.
DataCallback(commits) ==
    /\ Running /\ slot.holder = "ours" /\ slot.route /\ proc.received < slot.wal
    /\ LET callback == [proc EXCEPT !.received = slot.wal, !.batch = 0,
                          !.durable = IF commits THEN slot.wal ELSE @]
       IN  proc' = IF ~Service THEN callback
                   ELSE [callback EXCEPT
                           !.acked = IF commits THEN slot.wal ELSE @,
                           !.ack = IF commits THEN 0 ELSE @,
                           !.progress = 0, !.ignored = FALSE, !.cert = "after"]
    /\ hist' = [hist EXCEPT !.owed = NONE]
    /\ UNCHANGED <<mode, slot, sampler, health, ctx, run>>

\* handle_batch over the end of a transaction, heartbeats or the rows of the
\* signal table: whatever was received is committed, only the identity clock
\* moves, and a signal row suspends quiet admission.
ControlCallback(signal) ==
    /\ Running /\ Service /\ slot.holder = "ours"
    /\ signal => Fault
    /\ slot' = [slot EXCEPT !.faults = IF signal THEN @ + 1 ELSE @]
    /\ proc' = [proc EXCEPT !.durable = proc.received, !.cert = "after",
                            !.ignored = @ \/ signal]
    /\ UNCHANGED <<mode, sampler, health, ctx, run, hist>>

-----------------------------------------------------------------------------
(* The sampler thread.                                                      *)

Streaming(sample) == sample.exists /\ sample.active

\* sample_once, up to the row: what the catalog says now.
Row == [age |-> 0, known |-> TRUE, exists |-> slot.exists,
        active |-> slot.holder # "none",
        gen |-> IF slot.holder = "none" THEN 0 ELSE slot.gen,
        confirmed |-> IF slot.exists THEN slot.confirmed ELSE NONE,
        lag |-> IF slot.exists THEN slot.wal - slot.confirmed ELSE NONE,
        route |-> slot.route]

Reads ==
    /\ Running /\ sampler.at = "due"
    /\ sampler' = [at |-> "read", row |-> Row, busy |-> 0]
    /\ UNCHANGED <<mode, slot, proc, health, ctx, run, hist>>

\* A connection or a statement that outlasts its bound: an unknown sample,
\* stamped when the attempt began.
Fails ==
    /\ Running /\ sampler.at = "due" /\ Fault
    /\ slot' = [slot EXCEPT !.faults = @ + 1]
    /\ sampler' = [at |-> "hung", row |-> [NoSample EXCEPT !.age = 0], busy |-> 0]
    /\ UNCHANGED <<mode, proc, health, ctx, run, hist>>

\* A slow attempt: the row is read only now.
Resumes ==
    /\ Running /\ sampler.at = "hung"
    /\ sampler' = [sampler EXCEPT !.at = "read", !.row = Row]
    /\ UNCHANGED <<mode, slot, proc, health, ctx, run, hist>>

\* What no decision of the run's mode can read is left unset: in a service
\* the streaming clock ends a retry, and the previous sample brackets a
\* certification made since.
Tracked(h) ==
    IF Service
    THEN [h EXCEPT !.lag_stable = NONE, !.prev_lag = NONE,
                   !.streaming = IF h.retrying = NONE THEN NONE ELSE @,
                   !.prev = IF proc.cert = "after" THEN @ ELSE NoSample]
    ELSE [h EXCEPT !.not_streaming = NONE, !.retrying = NONE, !.prev = NoSample]

Since(age, holds, at) == IF holds THEN (IF age = NONE THEN at ELSE age) ELSE NONE

\* _ingest: the derived clocks of one sample.  Of the previous one the
\* identity it showed is kept.
Ingest(s) ==
    LET h       == health
        streams == Streaming(s)
        breaks  == Streaming(h.last) /\ ~streams /\ h.last.confirmed # NONE
        recovers == /\ ~breaks /\ h.interrupted # NONE /\ streams
                    /\ s.confirmed > h.interrupted
        settled == streams /\ h.streaming # NONE /\ h.streaming - s.age >= Stable
    IN  [h EXCEPT
           !.interrupted = IF breaks THEN h.last.confirmed ELSE @,
           !.recovered = IF breaks THEN FALSE ELSE @ \/ recovers,
           !.retrying = IF breaks THEN (IF @ = NONE THEN s.age ELSE @)
                        ELSE IF recovers \/ settled THEN NONE ELSE @,
           !.prev = [NoSample EXCEPT !.gen = h.last.gen],
           !.last = s,
           !.ever_sampled = @ \/ s.known,
           !.ever_streamed = @ \/ streams,
           !.not_streaming = Since(@, ~streams, s.age),
           !.unknown = Since(@, ~s.known, s.age),
           !.streaming = Since(@, streams, s.age),
           !.lag_stable = IF s.lag = NONE \/ s.lag = h.prev_lag THEN @ ELSE s.age,
           !.prev_lag = IF s.lag = NONE THEN @ ELSE s.lag]

\* The row is stamped and folded; a failed attempt keeps its start.
Folds ==
    /\ Running /\ sampler.at \in {"read", "hung"}
    /\ health' = Tracked(Ingest(sampler.row))
    /\ sampler' = [at |-> "done", row |-> NoSample, busy |-> 0]
    /\ proc' = [proc EXCEPT !.cert = IF @ = "after" THEN "between" ELSE "none"]
    /\ run' = [run EXCEPT !.newer = ~Service]
    /\ UNCHANGED <<mode, slot, ctx, hist>>

-----------------------------------------------------------------------------
(* The service witness.                                                     *)

Last == health.last

QuietAdmitted == proc.completed /\ ~proc.ignored

\* quiet_ready: the route is configured and all we received is confirmed.
QuietReady ==
    /\ QuietAdmitted /\ Last.route
    /\ Last.confirmed # NONE /\ proc.received <= Last.confirmed

\* Mutant: any newer acknowledgement certifies whoever holds the slot.
PostAckBinds ==
    Last.gen # 0 /\ (Last.gen = health.bound \/ proc.cert = "between")

\* _walsender_is_ours: the bound backend, or one that two adjacent stock
\* samples show around a newer certification of this process.
WalsenderIsOurs ==
    /\ Last.gen # 0
    /\ \/ Last.gen = health.bound
       \/ proc.cert = "between" /\ health.prev.gen = Last.gen

StalledOrUnproven == IF Last.lag > 0 THEN "stalled" ELSE "unproven"

\* The first failing guard names the status.
FirstFailure(guards) ==
    LET failing == {i \in DOMAIN guards : ~guards[i][1]}
    IN  IF failing = {} THEN "connected_quiet"
        ELSE guards[CHOOSE i \in failing : \A j \in failing : i <= j][2]

Pending == health.interrupted # NONE /\ ~health.recovered

Fresh(age, bound) == age = NONE \/ age <= bound

\* The identity guard of the witness.
Identity == WalsenderIsOurs

\* The guards on this process' own evidence; a quiet route stands in for it.
Progressed == proc.progress # NONE \/ QuietReady

Acknowledged == proc.ack # NONE /\ proc.acked # NONE

SampleFresh == Last.known /\ Last.age <= SampleStale

\* evaluate_service_witness over the registry, in its order.
ServiceWitness ==
    FirstFailure(
      <<<<Last.age # NONE, "unobserved">>,
        <<Last.exists, "disconnected">>,
        <<Last.active, "disconnected">>,
        <<Last.route, StalledOrUnproven>>,
        <<Progressed, StalledOrUnproven>>,
        <<SampleFresh, IF Last.known THEN "stale" ELSE "unknown">>,
        <<proc.engine, "engine_thread_dead">>,
        <<~Pending \/ Last.lag <= 0, StalledOrUnproven>>,
        <<Acknowledged \/ QuietReady, StalledOrUnproven>>,
        <<Last.confirmed <= proc.durable, "stalled">>,
        <<proc.acked <= proc.durable, "stalled">>,
        <<QuietReady \/ /\ Fresh(proc.progress, ProgressStale)
                        /\ Fresh(proc.ack, ProgressStale), StalledOrUnproven>>,
        <<Identity, "foreign_walsender">>,
        <<proc.received <= Last.confirmed, "connected_busy">>>>)

Connected == {"connected_quiet", "connected_busy"}

\* The publication was read, and holds none of the configured tables.
RouteMismatch == Last.known /\ Last.exists /\ ~Last.route

\* _publish_service_status: the aging clock of a stream not proved ours.
StalledSince(status) ==
    LET h == health
    IN  CASE status \in Connected -> NONE
          [] status \notin Connected /\ RouteMismatch ->
                IF h.stalled = NONE \/ ~h.mismatch THEN Last.age ELSE h.stalled
          [] status \notin Connected /\ ~RouteMismatch /\ h.mismatch -> 0
          [] OTHER ->
                IF /\ h.stalled = NONE
                   /\ status \in {"stalled", "unproven", "foreign_walsender",
                                  "engine_thread_dead"}
                THEN 0 ELSE h.stalled

\* service_status, as the supervisor's loop calls it: the binding is made
\* while the evidence is collected, whatever the verdict.
Evaluates ==
    /\ Running /\ Service /\ run.at = "due"
    /\ LET status == ServiceWitness
           binds  == WalsenderIsOurs /\ Last.gen # health.bound
       IN  /\ health' = [health EXCEPT
                            !.stalled = StalledSince(status),
                            !.mismatch = RouteMismatch,
                            !.bound = IF binds THEN Last.gen ELSE @]
           /\ proc' = [proc EXCEPT !.cert = IF binds THEN "none" ELSE @]
           /\ run' = [run EXCEPT
                         !.at = "evaluated", !.status = status,
                         !.quiet = status = "connected_quiet" /\ QuietReady]
    /\ ctx' = [ctx EXCEPT !.engine = proc.engine]
    /\ UNCHANGED <<mode, slot, sampler, hist>>

MaxOf(S) == CHOOSE x \in S : \A y \in S : y <= x

\* Mutant: only a slot nobody holds, or nobody can read, is dark.
DarkUnattached == MaxOf({0, health.not_streaming, health.unknown})

\* dark_for.
DarkFor == MaxOf({0, health.not_streaming, health.unknown, health.retrying,
                  health.stalled})

\* local_slot_failure: the slot is gone after this run has streamed from it.
LocalSlotFailure == health.ever_streamed /\ Last.known /\ ~Last.exists

\* observe_source_health: a verdict is stamped with the sample the loop reads
\* after it, and a sample is published once.
Observed ==
    IF Last.age # NONE /\ (ctx.observed = NONE \/ Last.age < ctx.observed)
    THEN [ctx EXCEPT !.observed = Last.age, !.connected = run.status \in Connected,
                     !.quiet = run.quiet, !.engine = proc.engine]
    ELSE ctx

\* The rest of the iteration: publish, then the reasons to stop, in order.
ServiceDecides ==
    /\ run.at = "evaluated"
    /\ ctx' = Observed
    /\ run' = [run EXCEPT
                 !.at = "done", !.status = "unset", !.quiet = FALSE,
                 !.stop = CASE LocalSlotFailure -> "engine_error"
                            [] ~LocalSlotFailure /\ ~proc.engine ->
                                 IF run.status = "engine_thread_dead"
                                 THEN "source_dark" ELSE "engine_error"
                            [] ~LocalSlotFailure /\ proc.engine
                               /\ health.ever_sampled /\ DarkFor >= DarkAfter ->
                                 "source_dark"
                            [] OTHER -> "none"]
    /\ UNCHANGED <<mode, slot, proc, sampler, health, hist>>

\* This process' own progress and acknowledgement, read when renewal is asked.
OwnProgressFresh ==
    /\ proc.progress # NONE /\ proc.progress <= ProgressStale
    /\ Acknowledged /\ proc.ack <= ProgressStale

\* source_health_allows_renewal, over the published witness.
RenewalAllowed ==
    /\ ctx.connected /\ ctx.engine
    /\ ctx.observed # NONE /\ ctx.observed <= ProgressStale
    /\ ctx.quiet \/ OwnProgressFresh

-----------------------------------------------------------------------------
(* The quiet window of a bounded run.                                       *)

\* outstanding_bytes: delivered to this run and not confirmed.
Outstanding == IF Last.lag = NONE THEN NONE
               ELSE MaxOf({0, proc.received - Last.confirmed})

Age(clock) == IF clock = NONE THEN 0 ELSE clock

\* Mutant: the last sample says a walsender is attached, whenever that was.
AgreesAtAnInstant == Last.known /\ Streaming(Last)

\* may_declare_idle.  The bounded run does not ask for the identity join.
MayDeclareIdle ==
    IF Last.age = NONE THEN FALSE
    ELSE IF ~Last.known THEN ~health.ever_sampled
    ELSE /\ Last.age <= SampleStale
         /\ Age(health.streaming) >= IdleTicks
         /\ \/ Outstanding <= 0
            \/ ~Pending /\ Age(health.lag_stable) >= IdleTicks

\* _quiet_window: silence the source corroborates, twice, two intervals and a
\* newer sample apart.
QuietWindow ==
    LET quiet == proc.batch >= IdleTicks
    IN  IF ~quiet \/ ~MayDeclareIdle
        THEN [run EXCEPT !.candidate = NONE, !.newer = FALSE, !.at = "done"]
        ELSE IF run.candidate = NONE
        THEN [run EXCEPT !.candidate = 0, !.newer = FALSE, !.at = "done"]
        ELSE IF run.candidate < 2 \/ ~run.newer
        THEN [run EXCEPT !.at = "done"]
        ELSE [run EXCEPT !.stop = "idle", !.at = "done"]

\* One iteration of the bounded loop.
BoundedDecides ==
    /\ Running /\ mode = "bounded" /\ run.at = "due"
    /\ run' = CASE ~proc.engine -> [run EXCEPT !.stop = "engine_error"]
                [] proc.engine /\ health.ever_sampled
                   /\ Age(health.unknown) >= DarkAfter ->
                     [run EXCEPT !.stop = "source_dark"]
                [] OTHER -> QuietWindow
    /\ UNCHANGED <<mode, slot, proc, sampler, health, ctx, hist>>

-----------------------------------------------------------------------------
(* Time.                                                                    *)

\* In a bounded run an attached walsender has delivered what it held for
\* Prompt; a service's may hold WAL.
Delivered ==
    \/ Service
    \/ hist.held >= Prompt => hist.owed < Prompt

\* Ages past which nothing differs: a sample's, the walsender's absence, an
\* owed row's.
Stalest == MaxOf({SampleStale, ProgressStale, HangTicks}) + 1

\* The longest absence of our walsender under which the lease is renewed, or a
\* run goes on after one fault.
RenewalLag == ProgressStale + SampleStale + HangTicks

DarkLag == DarkAfter + 2 * HangTicks + 2

LongLost ==
    MaxOf((IF Service THEN {RenewalLag, DarkLag} ELSE {}) \union {Backoff(mode)}) + 1

LongOwed == Prompt + SampleStale + 2

\* Where a read may wait: for its row, and a service's for the publication.
Slow == IF Service THEN {"hung", "read"} ELSE {"hung"}

AgedSample(s) == [s EXCEPT !.age = Older(@, Stalest)]

\* One sampler interval: the sampler has sampled or is inside its bound, and
\* the loop has run.
Tick ==
    /\ Running /\ Delivered /\ run.at = "done"
    /\ \/ sampler.at = "done"
       \/ sampler.at \in Slow /\ sampler.busy < HangTicks
    /\ proc' = [proc EXCEPT !.progress = Older(@, ProgressStale + 1),
                            !.ack = Older(@, ProgressStale + 1),
                            !.batch = IF Service THEN 0 ELSE Older(@, IdleTicks)]
    /\ sampler' = IF sampler.at = "done" THEN [sampler EXCEPT !.at = "due"]
                  ELSE [sampler EXCEPT !.busy = @ + 1,
                          !.row = IF sampler.at = "hung" THEN AgedSample(@) ELSE @]
    /\ health' = [health EXCEPT !.last = AgedSample(@),
                    !.not_streaming = Older(@, DarkAfter),
                    !.unknown = Older(@, DarkAfter),
                    !.streaming = Older(@, IF Service THEN Stable + HangTicks
                                           ELSE IdleTicks),
                    !.retrying = Older(@, DarkAfter),
                    !.lag_stable = Older(@, IdleTicks),
                    !.stalled = Older(@, DarkAfter)]
    /\ ctx' = [ctx EXCEPT !.observed = Older(@, Stalest)]
    /\ run' = [run EXCEPT !.at = "due", !.candidate = Older(@, 2)]
    /\ hist' = [hist EXCEPT !.lost = IF slot.holder = "ours" THEN 0
                                     ELSE Older(@, LongLost),
                            !.held = Older(@, Prompt), !.owed = Older(@, LongOwed)]
    /\ UNCHANGED <<mode, slot>>

Stopped == ~Running /\ UNCHANGED vars

Next ==
    \/ SourceWrites \/ Attaches \/ Detaches \/ Trespasses \/ RouteFlips \/ Consumes \/ Confirms
    \/ (\E commits \in BOOLEAN : DataCallback(commits))
    \/ (\E signal \in BOOLEAN : ControlCallback(signal))
    \/ Reads \/ Fails \/ Resumes \/ Folds
    \/ Evaluates \/ ServiceDecides \/ BoundedDecides
    \/ Tick \/ Stopped

Spec == Init /\ [][Next]_vars

-----------------------------------------------------------------------------
(* Properties.                                                              *)

\* A lease is renewed only while this process' own walsender holds the slot,
\* or lost it no longer ago than the sample of the published verdict, the read
\* behind it and the publication may be old: no client that keeps the slot
\* active renews it for us (renewal_witness_allows,
\* _walsender_is_ours).
RenewalIsOurs ==
    Running /\ Service /\ RenewalAllowed
       => hist.lost <= RenewalLag

\* A stream this process lost ends the run within CDC_SOURCE_DARK_SECONDS of
\* the first sample that could show it, whoever holds the slot meanwhile or if
\* a read hangs (dark_for); a change of the publication restarts the clock.
\* After one fault: a second one, a client that takes the slot we lost, hands
\* the aging from one clock to another, which starts anew.
DarkIsReported ==
    Service /\ Running /\ ~hist.reroute /\ health.ever_sampled
       => hist.lost <= DarkLag

\* A bounded run calls its stream idle only when every row the source held
\* for longer than the silence it waited for was received (may_declare_idle
\* and the confirmation window of _quiet_window).
IdleIsHonest ==
    run.stop = "idle" /\ health.ever_sampled => hist.owed <= Prompt + SampleStale
=============================================================================
