------------------------------ MODULE Backfill ------------------------------
(***************************************************************************)
(* Refreshing tables while the stream runs.                                *)
(*                                                                         *)
(* A refresh request becomes a durable run per table, correlated with one  *)
(* signal; the signal's durable intent is published by an INSERT into the  *)
(* source's signal table, outside any destination transaction.  The        *)
(* connector then scans the tables of the signal and delivers, interleaved *)
(* with the stream, a STARTED notice, the READ rows and a terminal notice  *)
(* for each.  Rows go to a shadow that replaces the live table once the    *)
(* terminal notice and the rows it declares have both arrived.             *)
(*                                                                         *)
(* A step that the code performs in one destination transaction is one     *)
(* action.  Between two of them the process may stop; what it holds in     *)
(* memory (the route of each table) and the connector's scan are then lost.*)
(***************************************************************************)
EXTENDS Naturals, FiniteSets

CONSTANTS
    Tables,        \* the captured tables
    Keys,          \* primary keys
    Initial,       \* [Tables -> SUBSET Keys]: the rows at the source at the start
    MaxSignals,    \* bound: signals ever created
    MaxRuns,       \* bound: generations of runs per table
    MaxRequests,   \* bound: refresh requests
    MaxStops,      \* bound: process stops
    MayFail        \* may a stock scan fail?

ASSUME BackfillAssumption ==
    /\ Initial \in [Tables -> SUBSET Keys] /\ IsFiniteSet(Keys)
    /\ {MaxSignals, MaxRuns, MaxRequests, MaxStops} \subseteq Nat
    /\ MayFail \in BOOLEAN

VARIABLES
    run,       \* backfill_runs: the latest run of each table
    claim,     \* shadow_claims: the generation that owns the table's shadow, or 0
    intent,    \* backfill_signal_intents
    queue,     \* backfill_signal_queue: table sets waiting for a signal
    life,      \* table_state.snapshot_state
    live,      \* rows of the live table
    shadow,    \* the shadow table, if it exists
    inserted,  \* rows of the source's signal table
    picked,    \* signals the connector has consumed
    scan,      \* the connector's scan of each table
    source,    \* rows of the source table that have been streamed
    pc,        \* where the destination owner is
    route,     \* SnapshotCoordinator._tables, in memory
    requests, stops,
    stray      \* history: tables sent records that no active incremental run
               \* asked for

vars == <<run, claim, intent, queue, life, live, shadow, inserted, picked,
          scan, source, pc, route, requests, stops, stray>>

Signals == 1 .. MaxSignals
NoSignal == 0
Modes == {"incremental", "full"}
RunStates == {"none", "requested", "loading", "ready_to_swap", "blocked",
              "complete"}
Route == [open : BOOLEAN, incremental : BOOLEAN, seen : Nat,
          terminal : BOOLEAN, declared : Nat]
NoRoute == [open |-> FALSE, incremental |-> FALSE, seen |-> 0,
            terminal |-> FALSE, declared |-> 0]
NoTable == [exists |-> FALSE, rows |-> {}]
NoScan == [signal |-> NoSignal, started |-> FALSE, ended |-> FALSE,
           left |-> {}, size |-> 0]
NoIntent == [state |-> "none", tables |-> {}, kind |-> "admission"]
NoRun == [gen |-> 0, state |-> "none", mode |-> "incremental",
          signal |-> NoSignal, cursor |-> FALSE]

Init ==
    /\ run = [t \in Tables |-> NoRun]
    /\ claim = [t \in Tables |-> 0]
    /\ intent = [s \in Signals |-> NoIntent]
    /\ queue = {}
    /\ life = [t \in Tables |-> "complete"]
    /\ live = Initial
    /\ shadow = [t \in Tables |-> NoTable]
    /\ inserted = {} /\ picked = {}
    /\ scan = [t \in Tables |-> NoScan]
    /\ source = Initial
    /\ pc = "idle"
    /\ route = [t \in Tables |-> NoRoute]
    /\ requests = 0 /\ stops = 0
    /\ stray = {}

-----------------------------------------------------------------------------
(* Runs and signals in the destination's control tables.                   *)

ActiveRun(r) == r.state \notin {"none", "complete"}

ActiveTables == {t \in Tables : ActiveRun(run[t])}

\* What active_all() without include_blocked finds.
UnblockedTables == {t \in ActiveTables : run[t].state # "blocked"}

PendingSignals == {s \in Signals : intent[s].state = "pending"}

UnusedSignals == {s \in Signals : intent[s].state = "none"}

NextSignal == CHOOSE s \in UnusedSignals : \A o \in UnusedSignals : s <= o

\* repository.request: an active run is kept, and only one that has not
\* started loading is promoted to a full refresh.
Requested(r, mode) ==
    IF ActiveRun(r)
    THEN IF mode = "full" /\ r.state = "requested"
         THEN [r EXCEPT !.mode = "full"]
         ELSE r
    ELSE [NoRun EXCEPT !.gen = r.gen + 1, !.state = "requested", !.mode = mode]

RunsLeft(S) == \A t \in S : ActiveRun(run[t]) \/ run[t].gen < MaxRuns

\* request each table of S incrementally, correlate it with s, record the intent
Correlated(S, s) ==
    [t \in Tables |-> IF t \in S
                      THEN [Requested(run[t], "incremental") EXCEPT !.signal = s]
                      ELSE run[t]]

Recorded(s, S, kind) ==
    [intent EXCEPT ![s] = [state |-> "pending", tables |-> S, kind |-> kind]]

ActiveSignals == {run[t].signal : t \in ActiveTables} \ {NoSignal}

FullTables == {t \in ActiveTables : run[t].mode = "full"}

\* A request of S must wait for the signal s that is already active.
NeedsQueue(S, s) ==
    \/ s # NoSignal /\ ~(S \subseteq {t \in ActiveTables : run[t].signal = s})
    \/ S \cap FullTables # {}

\* The request raises: more than one signal is active, or the active signal's
\* intent was recorded for other tables or by a queued dispatch.
Refuses(S) ==
    \/ Cardinality(ActiveSignals) > 1
    \/ \E s \in ActiveSignals :
          /\ ~NeedsQueue(S, s)
          /\ intent[s].tables # S \/ intent[s].kind # "admission"

\* What a death of the process takes with it: the routes, and the scan.  A
\* signal none of whose notices was delivered is read again from the log.
Die ==
    /\ pc' = "down"
    /\ route' = [t \in Tables |-> NoRoute]
    /\ scan' = [t \in Tables |-> NoScan]
    /\ picked' = picked \ {s \in picked : /\ \E t \in Tables : scan[t].signal = s
                                          /\ \A t \in Tables : scan[t].signal = s
                                                => ~scan[t].started}

durableTables == <<claim, life, live, shadow>>
connector == <<inserted, picked, scan, source>>

\* BackfillCoordinator.request_tables, from the owner's policy poll.
RequestIncremental(S) ==
    /\ pc = "idle" /\ requests < MaxRequests
    /\ requests' = requests + 1
    /\ UNCHANGED <<durableTables, inserted, source, stops, stray>>
    /\ \/ /\ Refuses(S)
          /\ Die
          /\ UNCHANGED <<run, intent, queue>>
       \/ \E s \in IF ActiveSignals = {} THEN {NoSignal} ELSE ActiveSignals :
             /\ ~Refuses(S)
             /\ NeedsQueue(S, s)
             /\ queue' = queue \cup {S}
             /\ pc' = "publish"
             /\ UNCHANGED <<run, intent, picked, scan, route>>
       \/ /\ ~Refuses(S)
          /\ ActiveSignals = {} /\ ~NeedsQueue(S, NoSignal)
          /\ UnusedSignals # {} /\ RunsLeft(S)
          /\ run' = Correlated(S, NextSignal)
          /\ intent' = Recorded(NextSignal, S, "admission")
          /\ pc' = "publish"
          /\ UNCHANGED <<queue, picked, scan, route>>
       \/ \E s \in ActiveSignals :              \* coalesced with the active signal
             /\ ~Refuses(S) /\ ~NeedsQueue(S, s)
             /\ pc' = "publish"
             /\ UNCHANGED <<run, intent, queue, picked, scan, route>>

\* RefreshScheduler.request_tables with mode "full".
RequestFull(t) ==
    /\ pc = "idle" /\ requests < MaxRequests /\ RunsLeft({t})
    /\ requests' = requests + 1
    /\ run' = [run EXCEPT ![t] = Requested(run[t], "full")]
    /\ UNCHANGED <<durableTables, connector, intent, queue, pc, route, stops, stray>>

\* StockSignalWriter's INSERT ... ON CONFLICT DO NOTHING at the source.
InsertSignal(s) ==
    /\ pc \in {"publish", "dispatch"}
    /\ s \in PendingSignals /\ \A o \in PendingSignals : s <= o
    /\ s \notin inserted
    /\ inserted' = inserted \cup {s}
    /\ UNCHANGED <<run, durableTables, intent, queue, picked, scan, source, pc,
                   route, requests, stops, stray>>

\* mark_signal_published, in a destination transaction of its own.
MarkPublished(s) ==
    /\ pc \in {"publish", "dispatch"}
    /\ s \in PendingSignals \cap inserted
    /\ intent' = [intent EXCEPT ![s].state = "published"]
    /\ UNCHANGED <<run, durableTables, connector, queue, pc, route, requests,
                   stops, stray>>

\* Mutant: queued work is dispatched whatever is active.
DispatchAnytime == queue # {}

DispatchReady == UnblockedTables = {} /\ queue # {}

\* dispatch_queued: every queued request in one successor signal.
DispatchQueued ==
    /\ pc = "dispatch" /\ PendingSignals = {} /\ DispatchReady
    /\ UnusedSignals # {} /\ RunsLeft(UNION queue)
    /\ run' = Correlated(UNION queue, NextSignal)
    /\ intent' = Recorded(NextSignal, UNION queue, "queued_dispatch")
    /\ queue' = {}
    /\ UNCHANGED <<durableTables, connector, pc, route, requests, stops, stray>>

\* The end of reconcile_signal_effects.
Reconciled ==
    /\ pc \in {"publish", "dispatch"} /\ PendingSignals = {}
    /\ pc = "dispatch" /\ DispatchReady
          => UnusedSignals = {} \/ ~RunsLeft(UNION queue)
    /\ pc' = "idle"
    /\ UNCHANGED <<run, durableTables, intent, queue, connector, route, requests,
                   stops, stray>>

-----------------------------------------------------------------------------
(* The connector, and what its records do in the group that commits them.  *)

ScanOver(c) == c.signal = NoSignal \/ (c.ended /\ c.left = {})

\* The stock connector reads the next signal row and opens its scan.
PickUp(s) ==
    /\ pc = "idle"
    /\ s \in inserted \ picked /\ \A o \in inserted \ picked : s <= o
    /\ \A t \in Tables : ScanOver(scan[t])
    /\ picked' = picked \cup {s}
    /\ scan' = [t \in Tables |->
                  IF t \in intent[s].tables
                  THEN [NoScan EXCEPT !.signal = s] ELSE NoScan]
    /\ UNCHANGED <<run, durableTables, intent, queue, inserted, source, pc, route,
                   requests, stops, stray>>

\* Everything one table's records change, as a record: the handlers below are
\* functions of it.
Held(t) == [run |-> run[t], claim |-> claim[t], life |-> life[t],
            live |-> live[t], shadow |-> shadow[t], route |-> route[t]]

Commit(t, h) ==
    /\ run' = [run EXCEPT ![t] = h.run]
    /\ claim' = [claim EXCEPT ![t] = h.claim]
    /\ life' = [life EXCEPT ![t] = h.life]
    /\ live' = [live EXCEPT ![t] = h.live]
    /\ shadow' = [shadow EXCEPT ![t] = h.shadow]
    /\ route' = [route EXCEPT ![t] = h.route]

\* observe_notification's ensure_loading: claim the shadow, start loading.
EnsureLoading(h) ==
    IF h.run.state \in {"requested", "blocked"}
    THEN [h EXCEPT !.run.state = "loading", !.claim = h.run.gen]
    ELSE h

\* SnapshotCoordinator.state_for(retain_existing=True): open the route if there
\* is none, over a fresh shadow that is created only for an incremental route.
StateFor(h, incremental) ==
    IF h.route.open THEN h
    ELSE [h EXCEPT !.route = [NoRoute EXCEPT !.open = TRUE,
                                             !.incremental = incremental],
                   !.life = "in_progress",
                   !.shadow = [exists |-> incremental, rows |-> {}]]

\* _ensure_backfill_route after the notification was observed.
EnsureRoute(h) ==
    IF ActiveRun(h.run) THEN StateFor(h, h.run.mode = "incremental") ELSE h

\* SnapshotCoordinator.swap with complete_swap as its callback.
Swap(h) ==
    LET published == IF h.shadow.exists
                     THEN [h EXCEPT !.live = h.shadow.rows, !.shadow = NoTable]
                     ELSE h
        closed == IF h.shadow.exists /\ h.run.state \in {"loading", "ready_to_swap"}
                  THEN [published EXCEPT !.run.state = "complete", !.claim = 0]
                  ELSE published
    IN [closed EXCEPT !.life = "complete", !.route = NoRoute]

\* Mutant: the terminal notice alone permits the swap.
SwapOnTerminal(r) == r.open /\ r.incremental /\ r.terminal

SwapReady(r) ==
    /\ r.open /\ r.incremental /\ r.terminal
    /\ r.declared = 0 \/ (r.seen > 0 /\ r.seen >= r.declared)

SwapIfReady(h) == IF SwapReady(h.route) THEN Swap(h) ELSE h

\* A STARTED notice: a control unit.
OnStarted(h) ==
    IF ~ActiveRun(h.run) THEN h
    ELSE EnsureRoute(IF h.run.state = "ready_to_swap" THEN h ELSE EnsureLoading(h))

\* A READ row: shadow row, cursor and count in one unit.
OnRead(h, k) ==
    LET opened == StateFor(h, TRUE)
        row == [opened EXCEPT
                  !.shadow = [exists |-> TRUE, rows |-> @.rows \cup {k}],
                  !.route.seen = IF opened.route.incremental THEN @ + 1 ELSE @,
                  !.run.cursor = TRUE]
    IN SwapIfReady(row)

\* TABLE_SCAN_COMPLETED with a success status, declaring n rows.
OnScanCompleted(h, n) ==
    LET loading == EnsureLoading(h)
        noticed == IF ActiveRun(h.run)
                   THEN EnsureRoute([loading EXCEPT !.run.state =
                           IF @ = "loading" THEN "ready_to_swap" ELSE @])
                   ELSE h
        opened == StateFor(noticed, TRUE)
    IN IF opened.route.incremental
       THEN SwapIfReady([opened EXCEPT !.route.terminal = TRUE,
                                       !.route.declared = n])
       ELSE Swap(opened)

\* TABLE_SCAN_COMPLETED with a failure status.
OnScanFailed(h) ==
    LET loading == EnsureLoading(h)
        blocked == IF loading.run.state = "loading"
                   THEN [loading EXCEPT !.run.state = "blocked", !.run.mode = "full",
                                        !.claim = 0]
                   ELSE loading
    IN StateFor(IF ActiveRun(h.run) THEN EnsureRoute(blocked) ELSE h, TRUE)

\* A change streamed before the notice was committed before the scan read the
\* table; one streamed after it is delivered as a change.
Started(t) ==
    /\ pc = "idle" /\ scan[t].signal # NoSignal /\ ~scan[t].started
    /\ scan' = [scan EXCEPT ![t] = [@ EXCEPT !.started = TRUE, !.left = source[t],
                                             !.size = Cardinality(source[t])]]
    /\ Commit(t, OnStarted(Held(t)))
    /\ UNCHANGED <<intent, queue, inserted, picked, source, pc, requests, stops>>

\* A READ of a run that is already complete is acknowledged as a heartbeat.
Read(t, k) ==
    /\ pc = "idle" /\ scan[t].started /\ k \in scan[t].left
    /\ scan' = [scan EXCEPT ![t].left = @ \ {k}]
    /\ UNCHANGED <<intent, queue, inserted, picked, source, requests, stops>>
    /\ \/ /\ run[t].state = "complete"
          /\ UNCHANGED <<run, durableTables, route, pc>>
       \/ /\ run[t].state # "complete"
          /\ Commit(t, OnRead(Held(t), k))
          /\ pc' = "dispatch"

ScanCompleted(t) ==
    /\ pc = "idle" /\ scan[t].started /\ ~scan[t].ended
    /\ scan' = [scan EXCEPT ![t].ended = TRUE]
    /\ Commit(t, OnScanCompleted(Held(t), scan[t].size))
    /\ pc' = "dispatch"
    /\ UNCHANGED <<intent, queue, inserted, picked, source, requests, stops>>

ScanFailed(t) ==
    /\ MayFail
    /\ pc = "idle" /\ scan[t].started /\ ~scan[t].ended
    /\ scan' = [scan EXCEPT ![t] = [@ EXCEPT !.ended = TRUE, !.left = {}]]
    /\ Commit(t, OnScanFailed(Held(t)))
    /\ pc' = "dispatch"
    /\ UNCHANGED <<intent, queue, inserted, picked, source, requests, stops>>

\* A streamed insert: target_table sends it to the shadow while a route is open.
Change(t, k) ==
    /\ pc = "idle" /\ k \notin source[t]
    /\ source' = [source EXCEPT ![t] = @ \cup {k}]
    /\ IF route[t].open
       THEN /\ shadow' = [shadow EXCEPT ![t] = [exists |-> TRUE,
                                                rows |-> @.rows \cup {k}]]
            /\ UNCHANGED live
       ELSE /\ live' = [live EXCEPT ![t] = @ \cup {k}]
            /\ UNCHANGED shadow
    /\ UNCHANGED <<run, claim, intent, queue, life, inserted, picked, scan, pc,
                   route, requests, stops, stray>>

-----------------------------------------------------------------------------
(* Stop and start.                                                         *)

Stop ==
    /\ pc # "down" /\ stops < MaxStops
    /\ stops' = stops + 1
    /\ Die
    /\ UNCHANGED <<run, durableTables, intent, queue, inserted, source, requests, stray>>

\* Incremental runs that keep their shadow and cursor across a restart.
Preserved ==
    {t \in ActiveTables : /\ run[t].mode = "incremental"
                          /\ run[t].state \in {"loading", "ready_to_swap", "blocked"}}

\* promote_interrupted_snapshots.
Start ==
    /\ pc = "down"
    /\ pc' = "owed"
    /\ life' = [t \in Tables |-> IF life[t] = "in_progress" THEN "awaiting" ELSE life[t]]
    /\ UNCHANGED <<run, claim, live, shadow, intent, queue, connector, route,
                   requests, stops, stray>>

Owed == {t \in Tables : life[t] # "complete"} \ Preserved

\* A blocking resnapshot of table t: its first chunk opens a new shadow ...
OpenBlocking(t) ==
    /\ life' = [life EXCEPT ![t] = "in_progress"]
    /\ shadow' = [shadow EXCEPT ![t] = [exists |-> TRUE, rows |-> {}]]
    /\ UNCHANGED <<run, claim, live, intent, queue, connector, pc, route, requests,
                   stops, stray>>

\* ... and its last one swaps in the whole image.
SwapBlocking(t) ==
    /\ live' = [live EXCEPT ![t] = source[t]]
    /\ shadow' = [shadow EXCEPT ![t] = NoTable]
    /\ life' = [life EXCEPT ![t] = "complete"]
    /\ UNCHANGED <<intent, queue, connector, pc, route, requests, stops, stray>>

\* The owed tables are resnapshotted before anything else; no run is closed.
OpenOwed(t) == pc = "owed" /\ t \in Owed /\ life[t] = "awaiting" /\ OpenBlocking(t)

SwapOwed(t) ==
    /\ pc = "owed" /\ t \in Owed /\ life[t] = "in_progress"
    /\ SwapBlocking(t)
    /\ UNCHANGED <<run, claim>>

ScheduledFull ==
    {t \in FullTables : run[t].state \in {"requested", "loading"}}

\* prepare every scheduled full run in one transaction.
PrepareFull ==
    /\ pc = "owed" /\ Owed = {}
    /\ pc' = "full"
    /\ run' = [t \in Tables |-> IF t \in ScheduledFull
                                THEN [run[t] EXCEPT !.state = "loading"] ELSE run[t]]
    /\ claim' = [t \in Tables |-> IF t \in ScheduledFull
                                  THEN run[t].gen ELSE claim[t]]
    /\ UNCHANGED <<life, live, shadow, intent, queue, connector, route, requests,
                   stops, stray>>

OpenFull(t) ==
    pc = "full" /\ t \in ScheduledFull /\ life[t] # "in_progress" /\ OpenBlocking(t)

\* The swap's callback complete_full_swap closes the run in the same commit.
SwapFull(t) ==
    /\ pc = "full" /\ t \in ScheduledFull /\ life[t] = "in_progress"
    /\ SwapBlocking(t)
    /\ run' = [run EXCEPT ![t].state = "complete"]
    /\ claim' = [claim EXCEPT ![t] = 0]

\* Mutant: only a scan whose signal is still unpublished is reopened.
InterruptedUnpublished ==
    {s \in PendingSignals : \E t \in ActiveTables : run[t].signal = s /\ run[t].cursor}

\* Signals rearm_active_incremental_signals replaces by a new one.
Interrupted ==
    {s \in Signals : /\ intent[s].state = "published"
                     /\ \E t \in ActiveTables : /\ run[t].signal = s
                                                /\ run[t].mode = "incremental"
                                                /\ run[t].state = "loading"
                                                /\ run[t].cursor}

Members(s) == {t \in ActiveTables : run[t].signal = s /\ run[t].mode = "incremental"}

\* Runs whose shadow the applier routes to from the start.
Reattached == Preserved

\* Mutant: the applier is ready before the pending intents are reconciled.
AttachIdle ==
    /\ pc = "full" /\ ScheduledFull = {}
    /\ pc' = "idle"
    /\ route' = [t \in Tables |-> IF t \in Reattached
                                  THEN [NoRoute EXCEPT !.open = TRUE, !.incremental = TRUE]
                                  ELSE NoRoute]
    /\ UNCHANGED <<run, intent, durableTables, queue, connector, requests, stops, stray>>

\* The applier's construction: reattach preserved runs, rearm a lost scan.
Attach ==
    /\ pc = "full" /\ ScheduledFull = {}
    /\ pc' = "dispatch"
    /\ route' = [t \in Tables |-> IF t \in Reattached
                                  THEN [NoRoute EXCEPT !.open = TRUE, !.incremental = TRUE]
                                  ELSE NoRoute]
    /\ IF Interrupted = {}
       THEN UNCHANGED <<run, intent>>
       ELSE /\ UnusedSignals # {}
            /\ \E s \in Interrupted :
                  /\ run' = [t \in Tables |-> IF t \in Members(s)
                                              THEN [run[t] EXCEPT !.signal = NextSignal]
                                              ELSE run[t]]
                  /\ intent' = Recorded(NextSignal, Members(s), "admission")
    /\ UNCHANGED <<durableTables, queue, connector, requests, stops, stray>>

Expected(t) ==
    ActiveRun(run[t]) /\ run[t].mode = "incremental" /\ run[t].signal = scan[t].signal

Deliver(t) ==
    /\ stray' = IF Expected(t) THEN stray ELSE stray \cup {t}
    /\ \/ Started(t)
       \/ \E k \in Keys : Read(t, k)
       \/ ScanCompleted(t)
       \/ ScanFailed(t)

Publish == \/ \E s \in Signals : InsertSignal(s) \/ MarkPublished(s)
           \/ DispatchQueued
           \/ Reconciled

Startup == \/ Start \/ PrepareFull \/ Attach
           \/ \E t \in Tables : OpenOwed(t) \/ SwapOwed(t) \/ OpenFull(t) \/ SwapFull(t)

Next ==
    \/ \E S \in (SUBSET Tables) \ {{}} : RequestIncremental(S)
    \/ \E t \in Tables : RequestFull(t)
    \/ Publish
    \/ \E s \in Signals : PickUp(s)
    \/ \E t \in Tables : Deliver(t)
    \/ \E t \in Tables, k \in Keys : Change(t, k)
    \/ Stop
    \/ Startup

Spec == Init /\ [][Next]_vars

\* The owner's own work goes on, and so does the connector's delivery.
FairSpec ==
    /\ Spec
    /\ WF_vars(Publish) /\ WF_vars(Startup)
    /\ \A s \in Signals : WF_vars(PickUp(s))
    /\ \A t \in Tables : WF_vars(Deliver(t))

-----------------------------------------------------------------------------
(* Properties.                                                             *)

\* Every variable has its type.
TypeOK ==
    /\ run \in [Tables -> [gen : 0 .. MaxRuns, state : RunStates, mode : Modes,
                           signal : Signals \cup {NoSignal}, cursor : BOOLEAN]]
    /\ claim \in [Tables -> 0 .. MaxRuns]
    /\ intent \in [Signals -> [state : {"none", "pending", "published"},
                               tables : SUBSET Tables,
                               kind : {"admission", "queued_dispatch"}]]
    /\ queue \subseteq SUBSET Tables
    /\ life \in [Tables -> {"complete", "in_progress", "awaiting"}]
    /\ live \in [Tables -> SUBSET Keys]
    /\ shadow \in [Tables -> [exists : BOOLEAN, rows : SUBSET Keys]]
    /\ inserted \subseteq Signals /\ picked \subseteq inserted
    /\ scan \in [Tables -> [signal : Signals \cup {NoSignal}, started : BOOLEAN,
                            ended : BOOLEAN, left : SUBSET Keys, size : Nat]]
    /\ source \in [Tables -> SUBSET Keys]
    /\ pc \in {"idle", "publish", "dispatch", "down", "owed", "full"}
    /\ route \in [Tables -> Route]
    /\ requests \in 0 .. MaxRequests /\ stops \in 0 .. MaxStops
    /\ stray \subseteq Tables

\* A shadow is claimed exactly while its run is loading or ready to swap, and by
\* that run: no exit from a run (swap, failure, full handoff) leaks or drops it.
ClaimFollowsRun ==
    \A t \in Tables :
       claim[t] = IF run[t].state \in {"loading", "ready_to_swap"} THEN run[t].gen ELSE 0

\* A signal row reaches the source only for a recorded intent, and an intent is
\* marked published only once its row is there, wherever the process stopped.
PublishedHasSource ==
    \A s \in Signals : /\ intent[s].state = "published" => s \in inserted
                       /\ s \in inserted => intent[s].state # "none"

\* The incremental runs that are not blocked share one signal: the notices of the
\* stock connector carry no correlation but the table.
OneLiveSignal ==
    Cardinality({run[t].signal : t \in UnblockedTables \ FullTables} \ {NoSignal}) <= 1

\* A table whose lifecycle is complete holds exactly the rows streamed from the
\* source, whatever was swapped, diverted or resnapshotted, unless a stray record
\* reached it.
IncrementalImage ==
    \A t \in Tables \ stray : life[t] = "complete" => live[t] = source[t]

\* While the stream runs, a table that is not complete has a run and an open
\* route to its shadow, unless a stray record reached it.
OwedHasRun ==
    pc \in {"idle", "publish", "dispatch"} =>
       \A t \in Tables \ stray :
          life[t] # "complete" => route[t].open /\ ActiveRun(run[t])

\* Once the owner is idle no request is left queued behind nothing, as long as
\* the bounds leave a signal and runs for it.
QueueDrained ==
    pc = "idle" /\ ActiveTables = {} /\ UnusedSignals # {} /\ RunsLeft(UNION queue)
       => queue = {}

\* The durable books agree at every point the process can stop at: runs, shadow
\* claims, intents, signal rows and queue (transition, acquire and release,
\* record and mark_published, enqueue and mark_dispatched).
BooksBalance ==
    TypeOK /\ ClaimFollowsRun /\ PublishedHasSource /\ OneLiveSignal /\ OwedHasRun /\ QueueDrained

\* A recorded intent reaches the source.
IntentPublished ==
    \A s \in Signals : intent[s].state = "pending" ~> intent[s].state = "published"

\* An interrupted scan that had committed a row is reopened and ends.
ScanReopens ==
    \A t \in Tables :
       run[t].state = "loading" /\ run[t].cursor /\ run[t].mode = "incremental"
          ~> run[t].state \in {"ready_to_swap", "blocked", "complete"}

\* A run that began loading ends, across every restart: a durable run whose scan
\* died with the process is reopened.
RefreshFinishes ==
    \A t \in Tables :
       run[t].state \in {"loading", "ready_to_swap"}
          ~> run[t].state \in {"blocked", "complete"}
=============================================================================
