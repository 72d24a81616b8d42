----------------------------- MODULE BackfillProofs -----------------------------
(***************************************************************************)
(* Proofs about Backfill, for any tables, keys and bounds: the durable     *)
(* books balance, and a table whose lifecycle is complete holds the rows   *)
(* streamed from the source.                                               *)
(***************************************************************************)
EXTENDS Backfill, TLAPS

Runs == [gen : 0 .. MaxRuns, state : RunStates, mode : Modes,
         signal : Signals \cup {NoSignal}, cursor : BOOLEAN]

Lives == {"complete", "in_progress", "awaiting"}

Shadows == [exists : BOOLEAN, rows : SUBSET Keys]

Scans == [signal : Signals \cup {NoSignal}, started : BOOLEAN, ended : BOOLEAN,
          left : SUBSET Keys, size : Nat]

\* What Held(t) is of.
Helds == [run : Runs, claim : 0 .. MaxRuns, life : Lives, live : SUBSET Keys,
          shadow : Shadows, route : Route]

Streams == {"idle", "publish", "dispatch"}

-----------------------------------------------------------------------------
(* The inductive invariant: of one table, what it holds, its scan, the rows *)
(* of its source, where the owner is and the signals consumed.              *)

\* An incremental run that fills its shadow.
Loads(r) == r.mode = "incremental" /\ r.state \in {"loading", "ready_to_swap"}

\* The claim on the table's shadow that goes with a run.
Claim(r) == IF r.state \in {"loading", "ready_to_swap"} THEN r.gen ELSE 0

\* The scan that began for the table is the one its run waits for.
Attended(r, c) ==
    ActiveRun(r) /\ r.mode = "incremental" /\ c.started /\ r.signal = c.signal

\* The scan goes on, and what it has yet to deliver is all the shadow lacks.
Fills(h, c, src) ==
    /\ Attended(h.run, c) /\ ~(c.ended /\ c.left = {})
    /\ h.route.seen + Cardinality(c.left) = c.size
    /\ (h.route.terminal <=> c.ended)
    /\ h.route.terminal => h.route.declared = c.size
    /\ src \subseteq h.shadow.rows \cup c.left

\* No record of a scan has reached the route.
Waits(h, c) == ~Attended(h.run, c) /\ h.route.seen = 0 /\ ~h.route.terminal

\* The run's signal is used up: a scan that was rearmed after its end failed.
Spent(h, c, pk) ==
    /\ h.run.signal \in pk
    /\ h.run.signal = c.signal => c.started /\ c.ended /\ c.left = {}

\* Every table: claims, blocked runs, and rows that are the source's.
Sound(h, c, src, p, pk) ==
    /\ h.claim = Claim(h.run)
    /\ h.run.state = "blocked" => h.run.mode = "full"
    /\ h.shadow.rows \subseteq src /\ c.left \subseteq src
    /\ c.signal # NoSignal => c.signal \in pk
    /\ c.ended => c.started
    /\ c.started => c.signal # NoSignal
    /\ p \notin Streams => c = NoScan /\ ~h.route.open

\* A table no stray record reached.
Clean(h, c, src, p, pk) ==
    /\ h.life = "complete" => h.live = src /\ ~h.route.open
    /\ Loads(h.run) => h.life # "complete" /\ h.shadow.exists
    /\ h.route.open => h.run.state = "blocked" \/ Loads(h.run)
    /\ Attended(h.run, c) => h.route.open
    /\ Loads(h.run) /\ h.route.open =>
          /\ h.route.incremental
          /\ Fills(h, c, src) \/ Waits(h, c) \/ Spent(h, c, pk)
    /\ p \in Streams /\ h.life # "complete" => h.route.open
    /\ p = "full" /\ h.life # "complete" =>
          \/ Loads(h.run)
          \/ h.run.mode = "full" /\ h.run.state \in {"requested", "loading"}

TableInv ==
    \A t \in Tables :
       /\ Sound(Held(t), scan[t], source[t], pc, picked)
       /\ t \notin stray => Clean(Held(t), scan[t], source[t], pc, picked)

\* A run that a signal's notices may reach.
Listens(r) ==
    /\ ActiveRun(r) /\ r.state # "blocked" /\ r.mode = "incremental"
    /\ r.signal # NoSignal

SignalInv ==
    /\ PublishedHasSource
    /\ \A t, u \in Tables : Listens(run[t]) /\ Listens(run[u])
                               => run[t].signal = run[u].signal

OwnerInv ==
    /\ pc = "publish" => ActiveTables # {}
    /\ QueueDrained

IInv == TypeOK /\ TableInv /\ SignalInv /\ OwnerInv

\* What the steps use of numbers and of the size of a set of rows: proved of every
\* Keys at the end, where the library is instantiated (CountingHolds).
Counting ==
    /\ \A T \in SUBSET Nat : T # {} => \E i \in T : \A j \in T : i <= j
    /\ \A S \in SUBSET Keys :
          /\ Cardinality(S) \in Nat /\ (Cardinality(S) = 0 <=> S = {})
          /\ \A k \in S : Cardinality(S \ {k}) = Cardinality(S) - 1


-----------------------------------------------------------------------------
(* What the helpers return.                                                 *)

\* Writing back what a function has.
LEMMA SameExcept ==
  ASSUME NEW S, NEW T, NEW f \in [S -> T], NEW x \in S
  PROVE  [f EXCEPT ![x] = f[x]] = f
  OBVIOUS

LEMMA SameWritten ==
  ASSUME TypeOK, NEW t \in Tables
  PROVE  /\ run = [run EXCEPT ![t] = run[t]] /\ claim = [claim EXCEPT ![t] = claim[t]]
         /\ life = [life EXCEPT ![t] = life[t]] /\ live = [live EXCEPT ![t] = live[t]]
         /\ shadow = [shadow EXCEPT ![t] = shadow[t]]
         /\ route = [route EXCEPT ![t] = route[t]]
<1>1. /\ run \in [Tables -> Runs] /\ claim \in [Tables -> 0 .. MaxRuns]
      /\ life \in [Tables -> Lives] /\ live \in [Tables -> SUBSET Keys]
      /\ shadow \in [Tables -> Shadows] /\ route \in [Tables -> Route]
  BY Zenon DEF TypeOK, Runs, Lives, Shadows
<1> QED BY <1>1, SameExcept, Zenon

\* The next signal is one that has no intent.
LEMMA FreshSignal ==
  ASSUME Counting, UnusedSignals # {}
  PROVE  NextSignal \in Signals /\ intent[NextSignal].state = "none" /\ NextSignal # NoSignal
<1>1. Signals \subseteq Nat /\ NoSignal \notin Signals
  BY BackfillAssumption DEF Signals, NoSignal
<1>2. UnusedSignals \in SUBSET Nat BY <1>1, Zenon DEF UnusedSignals
<1>3. \E i \in UnusedSignals : \A j \in UnusedSignals : i <= j
  BY <1>2, Zenon DEF Counting
<1>4. NextSignal \in UnusedSignals BY <1>3, Zenon DEF NextSignal
<1> QED BY <1>1, <1>4, Zenon DEF UnusedSignals

\* Of the rows left, one is delivered.
LEMMA LeftFacts ==
  ASSUME Counting, NEW S \in SUBSET Keys
  PROVE  /\ Cardinality(S) \in Nat /\ (Cardinality(S) = 0 <=> S = {})
         /\ \A k \in S : Cardinality(S \ {k}) = Cardinality(S) - 1
  BY Zenon DEF Counting

\* The state of one table.
LEMMA HeldFacts ==
  ASSUME TypeOK, NEW t \in Tables
  PROVE  /\ Held(t) \in Helds /\ scan[t] \in Scans /\ source[t] \in SUBSET Keys
         /\ Held(t).run = run[t] /\ Held(t).claim = claim[t] /\ Held(t).life = life[t]
         /\ Held(t).live = live[t] /\ Held(t).shadow = shadow[t]
         /\ Held(t).route = route[t]
<1>1. /\ run[t] \in Runs /\ claim[t] \in 0 .. MaxRuns /\ life[t] \in Lives
      /\ live[t] \in SUBSET Keys /\ shadow[t] \in Shadows /\ route[t] \in Route
  BY Zenon DEF TypeOK, Runs, Lives, Shadows
<1>2. scan[t] \in Scans /\ source[t] \in SUBSET Keys BY Zenon DEF TypeOK, Scans
<1> QED BY <1>1, <1>2, Zenon DEF Held, Helds

\* A commit of one table's records leaves the others alone.
LEMMA CommitFacts ==
  ASSUME TypeOK, NEW t \in Tables, NEW h \in Helds, Commit(t, h)
  PROVE  /\ Held(t)' = h /\ \A u \in Tables \ {t} : Held(u)' = Held(u)
         /\ run'[t] = h.run /\ \A u \in Tables \ {t} : run'[u] = run[u]
         /\ run' \in [Tables -> Runs] /\ claim' \in [Tables -> 0 .. MaxRuns]
         /\ life' \in [Tables -> Lives] /\ live' \in [Tables -> SUBSET Keys]
         /\ shadow' \in [Tables -> Shadows] /\ route' \in [Tables -> Route]
<1>1. /\ run \in [Tables -> Runs] /\ claim \in [Tables -> 0 .. MaxRuns]
      /\ life \in [Tables -> Lives] /\ live \in [Tables -> SUBSET Keys]
      /\ shadow \in [Tables -> Shadows] /\ route \in [Tables -> Route]
  BY Zenon DEF TypeOK, Runs, Lives, Shadows
<1>2. /\ h.run \in Runs /\ h.claim \in 0 .. MaxRuns /\ h.life \in Lives
      /\ h.live \in SUBSET Keys /\ h.shadow \in Shadows /\ h.route \in Route
  BY Zenon DEF Helds
<1>3. /\ run' \in [Tables -> Runs] /\ run'[t] = h.run
      /\ \A u \in Tables \ {t} : run'[u] = run[u]
  BY <1>1, <1>2, Zenon DEF Commit
<1>4. /\ claim' \in [Tables -> 0 .. MaxRuns] /\ claim'[t] = h.claim
      /\ \A u \in Tables \ {t} : claim'[u] = claim[u]
  BY <1>1, <1>2, Zenon DEF Commit
<1>5. /\ life' \in [Tables -> Lives] /\ life'[t] = h.life
      /\ \A u \in Tables \ {t} : life'[u] = life[u]
  BY <1>1, <1>2, Zenon DEF Commit
<1>6. /\ live' \in [Tables -> SUBSET Keys] /\ live'[t] = h.live
      /\ \A u \in Tables \ {t} : live'[u] = live[u]
  BY <1>1, <1>2, Zenon DEF Commit
<1>7. /\ shadow' \in [Tables -> Shadows] /\ shadow'[t] = h.shadow
      /\ \A u \in Tables \ {t} : shadow'[u] = shadow[u]
  BY <1>1, <1>2, Zenon DEF Commit
<1>8. /\ route' \in [Tables -> Route] /\ route'[t] = h.route
      /\ \A u \in Tables \ {t} : route'[u] = route[u]
  BY <1>1, <1>2, Zenon DEF Commit
<1>9. h = [run |-> h.run, claim |-> h.claim, life |-> h.life, live |-> h.live,
           shadow |-> h.shadow, route |-> h.route]
  BY DEF Helds
<1>10. Held(t)' = h
  BY <1>3, <1>4, <1>5, <1>6, <1>7, <1>8, <1>9, Zenon DEF Held
<1>11. \A u \in Tables \ {t} : Held(u)' = Held(u)
  BY <1>3, <1>4, <1>5, <1>6, <1>7, <1>8, Zenon DEF Held
<1> QED BY <1>3, <1>4, <1>5, <1>6, <1>7, <1>8, <1>10, <1>11, Zenon

-----------------------------------------------------------------------------
(* The steps the handlers are made of.                                      *)

\* What every one of them keeps of a table ...
Fit(h, src) ==
    /\ h \in Helds
    /\ h.claim = Claim(h.run)
    /\ h.run.state = "blocked" => h.run.mode = "full"
    /\ h.shadow.rows \subseteq src

\* ... and of its run.
RunKept(r, q) ==
    /\ q.gen = r.gen /\ q.signal = r.signal
    /\ ActiveRun(q) => ActiveRun(r)
    /\ Listens(q) => Listens(r)

LEMMA NoRouteType == NoRoute \in Route
  BY DEF NoRoute, Route

LEMMA StateForFacts ==
  ASSUME NEW h, NEW src, Fit(h, src), NEW inc \in BOOLEAN
  PROVE  LET g == StateFor(h, inc)
         IN  /\ Fit(g, src) /\ g.run = h.run /\ g.live = h.live /\ g.route.open
             /\ h.route.open => g = h
             /\ ~h.route.open =>
                   /\ g.route.incremental = inc /\ g.route.seen = 0
                   /\ g.route.terminal = FALSE
                   /\ g.life = "in_progress" /\ g.shadow.exists = inc
<1>1. CASE h.route.open BY <1>1, Zenon DEF StateFor
<1>2. CASE ~h.route.open
  <2> DEFINE r == [NoRoute EXCEPT !.open = TRUE, !.incremental = inc]
             s == [exists |-> inc, rows |-> {}]
  <2>1. /\ r \in Route /\ r.open /\ r.incremental = inc /\ r.seen = 0
        /\ r.terminal = FALSE
    <3>1. 0 \in Nat OBVIOUS
    <3> QED BY <3>1, Zenon DEF NoRoute, Route
  <2>2. s \in Shadows /\ s.exists = inc /\ s.rows = {} BY Zenon DEF Shadows
  <2>3. StateFor(h, inc) = [h EXCEPT !.route = r, !.life = "in_progress", !.shadow = s]
    BY <1>2, Zenon DEF StateFor
  <2> HIDE DEF r, s
  <2>4. h \in Helds BY Zenon DEF Fit
  <2> DEFINE g == StateFor(h, inc)
  <2>5. /\ g \in Helds /\ g.run = h.run /\ g.claim = h.claim /\ g.live = h.live
        /\ g.route = r /\ g.life = "in_progress" /\ g.shadow = s
    BY <2>1, <2>2, <2>3, <2>4, Zenon DEF Helds, Lives
  <2> HIDE DEF g
  <2>6. Fit(g, src) BY <2>2, <2>5, Zenon DEF Fit
  <2> QED BY <1>2, <2>1, <2>2, <2>5, <2>6, Zenon DEF g
<1> QED BY <1>1, <1>2, Zenon

LEMMA StateForTrue ==
  ASSUME NEW h, NEW src, Fit(h, src)
  PROVE  LET g == StateFor(h, TRUE)
         IN  /\ Fit(g, src) /\ g.run = h.run /\ g.live = h.live /\ g.route.open
             /\ h.route.open => g = h
             /\ ~h.route.open =>
                   /\ g.route.incremental /\ g.route.seen = 0 /\ ~g.route.terminal
                   /\ g.life = "in_progress" /\ g.shadow.exists
  BY StateForFacts, Zenon

LEMMA StateForFalse ==
  ASSUME NEW h, NEW src, Fit(h, src)
  PROVE  LET g == StateFor(h, FALSE)
         IN  /\ Fit(g, src) /\ g.run = h.run /\ g.live = h.live
             /\ h.route.open => g = h
  BY StateForFacts, Zenon

\* A run's claim is one of its table.
LEMMA ClaimType ==
  ASSUME NEW r \in Runs
  PROVE  Claim(r) \in 0 .. MaxRuns
<1>1. 0 \in 0 .. MaxRuns BY BackfillAssumption
<1> QED BY <1>1, Zenon DEF Runs, Claim

LEMMA LoadFacts ==
  ASSUME NEW h, NEW src, Fit(h, src)
  PROVE  LET g == EnsureLoading(h)
         IN  /\ Fit(g, src) /\ RunKept(h.run, g.run) /\ g.life = h.life /\ g.live = h.live
             /\ g.shadow = h.shadow /\ g.route = h.route /\ g.run.mode = h.run.mode
             /\ (ActiveRun(h.run) => ActiveRun(g.run))
             /\ IF h.run.state \in {"requested", "blocked"}
                THEN g.run.state = "loading" ELSE g = h
<1>1. CASE h.run.state \notin {"requested", "blocked"}
  BY <1>1, Zenon DEF EnsureLoading, RunKept
<1>2. CASE h.run.state \in {"requested", "blocked"}
  <2> DEFINE q == [h.run EXCEPT !.state = "loading"]
             g == EnsureLoading(h)
  <2>1. h \in Helds /\ h.run \in Runs BY Zenon DEF Fit, Helds
  <2>2. /\ q \in Runs /\ q.state = "loading" /\ q.gen = h.run.gen /\ q.mode = h.run.mode
        /\ q.signal = h.run.signal
    BY <2>1, Zenon DEF Runs, RunStates
  <2>3. g = [h EXCEPT !.run = q, !.claim = q.gen]
    BY <1>2, <2>1, <2>2 DEF EnsureLoading, Helds
  <2> HIDE DEF q, g
  <2>4. /\ Fit(g, src) /\ g.run = q /\ g.life = h.life /\ g.live = h.live
        /\ g.shadow = h.shadow /\ g.route = h.route
    <3>1. q.gen = Claim(q) /\ q.gen \in 0 .. MaxRuns
      BY <2>2, ClaimType, Zenon DEF Claim
    <3>2. q.state = "blocked" => q.mode = "full" BY <2>2
    <3>3. /\ g \in Helds /\ g.run = q /\ g.claim = q.gen /\ g.life = h.life
          /\ g.live = h.live /\ g.shadow = h.shadow /\ g.route = h.route
      BY <2>1, <2>2, <2>3, <3>1, Zenon DEF Helds
    <3> QED BY <3>1, <3>2, <3>3, Zenon DEF Fit
  <2>5. RunKept(h.run, q) /\ ActiveRun(q)
    <3>1. ActiveRun(h.run) /\ ActiveRun(q) BY <1>2, <2>2, Zenon DEF ActiveRun
    <3>2. h.run.state = "blocked" => h.run.mode = "full" BY Zenon DEF Fit
    <3>3. Listens(q) => Listens(h.run) BY <1>2, <2>2, <3>1, <3>2 DEF Listens
    <3> QED BY <2>2, <3>1, <3>3, Zenon DEF RunKept
  <2> QED BY <1>2, <2>2, <2>4, <2>5, Zenon DEF g
<1> QED BY <1>1, <1>2

LEMMA RouteFacts ==
  ASSUME NEW h, NEW src, Fit(h, src)
  PROVE  LET g == EnsureRoute(h)
         IN  /\ Fit(g, src) /\ g.run = h.run /\ g.live = h.live
             /\ h.route.open => g = h
             /\ ActiveRun(h.run) /\ h.run.mode = "incremental" => g = StateFor(h, TRUE)
<1>1. CASE ActiveRun(h.run) /\ h.run.mode = "incremental"
  <2>1. EnsureRoute(h) = StateFor(h, TRUE) BY <1>1, Zenon DEF EnsureRoute
  <2> DEFINE o == StateFor(h, TRUE)
  <2>2. Fit(o, src) /\ o.run = h.run /\ o.live = h.live /\ (h.route.open => o = h)
    BY StateForTrue, Zenon
  <2> HIDE DEF o
  <2>3. EnsureRoute(h) = o BY <2>1, Zenon DEF o
  <2> QED BY <2>2, <2>3, Zenon DEF o
<1>2. CASE ActiveRun(h.run) /\ h.run.mode # "incremental"
  <2>1. EnsureRoute(h) = StateFor(h, FALSE) BY <1>2, Zenon DEF EnsureRoute
  <2> QED BY <1>2, <2>1, StateForFalse, Zenon
<1>3. CASE ~ActiveRun(h.run) BY <1>3, Zenon DEF EnsureRoute
<1> QED BY <1>1, <1>2, <1>3, Zenon

LEMMA SwapFacts ==
  ASSUME NEW h, NEW src, Fit(h, src)
  PROVE  LET g == Swap(h)
         IN  /\ Fit(g, src) /\ RunKept(h.run, g.run) /\ g.life = "complete"
             /\ g.route = NoRoute
             /\ h.shadow.exists => g.live = h.shadow.rows
             /\ h.shadow.exists /\ h.run.state \in {"loading", "ready_to_swap"}
                   => g.run.state = "complete" /\ ~ActiveRun(g.run)
<1> DEFINE published == IF h.shadow.exists
                        THEN [h EXCEPT !.live = h.shadow.rows, !.shadow = NoTable]
                        ELSE h
           q == [h.run EXCEPT !.state = "complete"]
           ends == h.shadow.exists /\ h.run.state \in {"loading", "ready_to_swap"}
           closed == IF ends THEN [published EXCEPT !.run = q, !.claim = 0] ELSE published
           g == Swap(h)
<1>0. h \in Helds /\ h.run \in Runs /\ h.shadow \in Shadows /\ h.shadow.rows \in SUBSET Keys
  BY Zenon DEF Fit, Helds, Shadows
<1>1. NoTable \in Shadows /\ NoTable.rows = {} BY Zenon DEF NoTable, Shadows
<1>2. /\ published \in Helds /\ published.run = h.run /\ published.claim = h.claim
      /\ published.life = h.life /\ published.route = h.route
      /\ published.shadow.rows \subseteq h.shadow.rows
      /\ h.shadow.exists => published.live = h.shadow.rows
  BY <1>0, <1>1, Zenon DEF Helds
<1>3. /\ q \in Runs /\ q.state = "complete" /\ q.gen = h.run.gen /\ q.signal = h.run.signal
      /\ q.mode = h.run.mode
  BY <1>0, Zenon DEF Runs, RunStates
<1>4. g = [closed EXCEPT !.life = "complete", !.route = NoRoute]
  <2>1. [published EXCEPT !.run.state = "complete", !.claim = 0]
          = [published EXCEPT !.run = q, !.claim = 0]
    <3> HIDE DEF published
    <3> QED BY <1>2 DEF Helds
  <2> QED BY <2>1, Zenon DEF Swap
<1> HIDE DEF published, q, g
<1>5. Fit(published, src) BY <1>2, Zenon DEF Fit
<1>6. /\ Fit(closed, src) /\ closed.run = (IF ends THEN q ELSE h.run)
      /\ closed.live = published.live
  <2>1. CASE ends
    <3>1. 0 = Claim(q) BY <1>3 DEF Claim
    <3>2. q.state = "blocked" => q.mode = "full" BY <1>3
    <3>3. closed = [published EXCEPT !.run = q, !.claim = 0] BY <2>1, Zenon
    <3> HIDE DEF closed
    <3>4. 0 \in 0 .. MaxRuns BY <1>3, <3>1, ClaimType, Zenon
    <3>5. /\ closed \in Helds /\ closed.run = q /\ closed.claim = 0
          /\ closed.live = published.live /\ closed.shadow = published.shadow
      BY <1>2, <1>3, <3>3, <3>4, Zenon DEF Helds
    <3>6. Fit(closed, src) BY <1>5, <3>1, <3>2, <3>5, Zenon DEF Fit
    <3> QED BY <2>1, <3>5, <3>6, Zenon
  <2>2. CASE ~ends BY <2>2, <1>2, <1>5, Zenon
  <2> QED BY <2>1, <2>2
<1> HIDE DEF closed
<1>7. /\ g \in Helds /\ g.run = closed.run /\ g.claim = closed.claim /\ g.live = closed.live
      /\ g.shadow = closed.shadow /\ g.life = "complete" /\ g.route = NoRoute
  <2>1. closed \in Helds BY <1>6, Zenon DEF Fit
  <2> QED BY <1>4, <2>1, NoRouteType, Zenon DEF Helds, Lives
<1>8. Fit(g, src) BY <1>6, <1>7, Zenon DEF Fit
<1>9. RunKept(h.run, g.run) /\ (ends => ~ActiveRun(g.run) /\ g.run.state = "complete")
  <2>1. CASE ends
    <3>1. ~ActiveRun(q) BY <1>3, Zenon DEF ActiveRun
    <3> QED BY <1>3, <1>6, <1>7, <2>1, <3>1, Zenon DEF RunKept, Listens
  <2>2. CASE ~ends BY <1>6, <1>7, <2>2, Zenon DEF RunKept
  <2> QED BY <2>1, <2>2
<1> QED BY <1>2, <1>6, <1>7, <1>8, <1>9, Zenon DEF g

\* The terminal notice marks a loading run.
LEMMA ReadyFacts ==
  ASSUME NEW h, NEW src, Fit(h, src)
  PROVE  LET g == [h EXCEPT !.run.state = IF @ = "loading" THEN "ready_to_swap" ELSE @]
         IN  /\ Fit(g, src) /\ RunKept(h.run, g.run) /\ g.life = h.life /\ g.live = h.live
             /\ g.shadow = h.shadow /\ g.route = h.route /\ g.run.mode = h.run.mode
             /\ (ActiveRun(h.run) => ActiveRun(g.run))
             /\ h.run.state \in {"loading", "ready_to_swap"} => g.run.state = "ready_to_swap"
<1> DEFINE state == IF h.run.state = "loading" THEN "ready_to_swap" ELSE h.run.state
           q == [h.run EXCEPT !.state = state]
           g == [h EXCEPT !.run.state = IF @ = "loading" THEN "ready_to_swap" ELSE @]
<1>1. h \in Helds /\ h.run \in Runs BY Zenon DEF Fit, Helds
<1>2. state \in RunStates BY <1>1, Zenon DEF Runs, RunStates
<1>3. /\ q \in Runs /\ q.state = state /\ q.gen = h.run.gen /\ q.mode = h.run.mode
      /\ q.signal = h.run.signal
  BY <1>1, <1>2, Zenon DEF Runs
<1>4. g = [h EXCEPT !.run = q, !.claim = h.claim]
  BY <1>1, Zenon DEF Helds
<1> HIDE DEF q, g
<1>5. /\ h.claim = Claim(q)
      /\ q.state = "blocked" => q.mode = "full"
  BY <1>3 DEF Fit, Claim
<1>6. /\ Fit(g, src) /\ g.run = q /\ g.life = h.life /\ g.live = h.live
      /\ g.shadow = h.shadow /\ g.route = h.route
  <2>1. h.claim \in 0 .. MaxRuns BY <1>1, Zenon DEF Helds
  <2>2. /\ g \in Helds /\ g.run = q /\ g.claim = h.claim /\ g.life = h.life
        /\ g.live = h.live /\ g.shadow = h.shadow /\ g.route = h.route
    BY <1>1, <1>3, <1>4, <2>1, Zenon DEF Helds
  <2> QED BY <1>5, <2>2, Zenon DEF Fit
<1>7. (ActiveRun(q) <=> ActiveRun(h.run)) /\ (Listens(q) => Listens(h.run))
  <2>1. ActiveRun(q) <=> ActiveRun(h.run) BY <1>3 DEF ActiveRun
  <2>2. q.state # "blocked" => h.run.state # "blocked" BY <1>3
  <2> QED BY <1>3, <2>1, <2>2, Zenon DEF Listens
<1>8. h.run.state \in {"loading", "ready_to_swap"} => q.state = "ready_to_swap"
  BY <1>3
<1> QED BY <1>3, <1>6, <1>7, <1>8, Zenon DEF RunKept, g

\* A failed scan blocks a loading run.
LEMMA BlockFacts ==
  ASSUME NEW h, NEW src, Fit(h, src), h.run.state = "loading"
  PROVE  LET g == [h EXCEPT !.run.state = "blocked", !.run.mode = "full", !.claim = 0]
         IN  /\ Fit(g, src) /\ RunKept(h.run, g.run) /\ g.life = h.life /\ g.live = h.live
             /\ g.shadow = h.shadow /\ g.route = h.route
             /\ g.run.state = "blocked" /\ g.run.mode = "full" /\ ActiveRun(g.run)
<1> DEFINE q == [h.run EXCEPT !.state = "blocked", !.mode = "full"]
           g == [h EXCEPT !.run.state = "blocked", !.run.mode = "full", !.claim = 0]
<1>1. h \in Helds /\ h.run \in Runs BY Zenon DEF Fit, Helds
<1>2. /\ q \in Runs /\ q.state = "blocked" /\ q.gen = h.run.gen /\ q.mode = "full"
      /\ q.signal = h.run.signal
  BY <1>1, Zenon DEF Runs, RunStates, Modes
<1>3. g = [h EXCEPT !.run = q, !.claim = 0]
  BY <1>1, Zenon DEF Helds, Runs
<1> HIDE DEF q, g
<1>4. /\ 0 = Claim(q)
      /\ q.state = "blocked" => q.mode = "full"
  BY <1>2 DEF Claim
<1>5. /\ Fit(g, src) /\ g.run = q /\ g.life = h.life /\ g.live = h.live
      /\ g.shadow = h.shadow /\ g.route = h.route
  <2>1. 0 \in 0 .. MaxRuns BY <1>2, <1>4, ClaimType, Zenon
  <2>2. /\ g \in Helds /\ g.run = q /\ g.claim = 0 /\ g.life = h.life
        /\ g.live = h.live /\ g.shadow = h.shadow /\ g.route = h.route
    BY <1>1, <1>2, <1>3, <2>1, Zenon DEF Helds
  <2> QED BY <1>4, <2>2, Zenon DEF Fit
<1>6. ActiveRun(q) /\ ActiveRun(h.run) /\ ~Listens(q)
  BY <1>2 DEF ActiveRun, Listens
<1> QED BY <1>2, <1>5, <1>6, Zenon DEF RunKept, g

\* A READ row in the shadow of an open route.
ReadRow(h, k) ==
    [h EXCEPT !.shadow = [exists |-> TRUE, rows |-> @.rows \cup {k}],
              !.route.seen = IF h.route.incremental THEN @ + 1 ELSE @,
              !.run.cursor = TRUE]

LEMMA ReadFacts ==
  ASSUME NEW h, NEW src, Fit(h, src), NEW k \in src, src \in SUBSET Keys, NEW g, g = ReadRow(h, k)
  PROVE  /\ Fit(g, src) /\ RunKept(h.run, g.run) /\ g.life = h.life /\ g.live = h.live
         /\ g.shadow.exists /\ g.shadow.rows = h.shadow.rows \cup {k}
         /\ g.run.state = h.run.state /\ g.run.mode = h.run.mode
         /\ (g.route.open <=> h.route.open)
         /\ (g.route.incremental <=> h.route.incremental)
         /\ (g.route.terminal <=> h.route.terminal) /\ g.route.declared = h.route.declared
         /\ h.route.incremental => g.route.seen = h.route.seen + 1
<1> DEFINE q == [h.run EXCEPT !.cursor = TRUE]
           seen == IF h.route.incremental THEN h.route.seen + 1 ELSE h.route.seen
           r == [h.route EXCEPT !.seen = seen]
           s == [exists |-> TRUE, rows |-> h.shadow.rows \cup {k}]
<1>1. h \in Helds /\ h.run \in Runs /\ h.route \in Route /\ h.shadow \in Shadows
  BY Zenon DEF Fit, Helds
<1>2. /\ q \in Runs /\ q.state = h.run.state /\ q.gen = h.run.gen /\ q.mode = h.run.mode
      /\ q.signal = h.run.signal
  BY <1>1, Zenon DEF Runs
<1>3. seen \in Nat
  <2>1. h.route.seen \in Nat BY <1>1, Zenon DEF Route
  <2> QED BY <2>1
<1>4. /\ r \in Route /\ r.open = h.route.open /\ r.incremental = h.route.incremental
      /\ r.terminal = h.route.terminal /\ r.declared = h.route.declared /\ r.seen = seen
  <2> HIDE DEF seen
  <2> QED BY <1>1, <1>3, Zenon DEF Route
<1>5. s \in Shadows /\ s.exists /\ s.rows = h.shadow.rows \cup {k}
  <2>1. h.shadow.rows \cup {k} \in SUBSET Keys BY <1>1, Zenon DEF Shadows
  <2> QED BY <2>1, Zenon DEF Shadows
<1>6. g = [h EXCEPT !.shadow = s, !.route = r, !.run = q]
  BY <1>1 DEF ReadRow, Helds
<1> HIDE DEF q, r, s
<1>7. /\ g \in Helds /\ g.run = q /\ g.claim = h.claim /\ g.life = h.life /\ g.live = h.live
      /\ g.shadow = s /\ g.route = r
  BY <1>1, <1>2, <1>4, <1>5, <1>6, Zenon DEF Helds
<1>8. Fit(g, src)
  <2>1. Claim(q) = Claim(h.run) BY <1>2, Zenon DEF Claim
  <2> QED BY <1>2, <1>5, <1>7, <2>1, Zenon DEF Fit
<1>9. RunKept(h.run, q) BY <1>2, Zenon DEF RunKept, ActiveRun, Listens
<1> HIDE DEF seen
<1>10. /\ (r.open <=> h.route.open) /\ (r.incremental <=> h.route.incremental)
       /\ (r.terminal <=> h.route.terminal)
  BY <1>4
<1>11. h.route.incremental => r.seen = h.route.seen + 1 BY <1>4, Zenon DEF seen
<1> QED BY <1>2, <1>4, <1>5, <1>7, <1>8, <1>9, <1>10, <1>11, Zenon

-----------------------------------------------------------------------------
(* The handlers: what each keeps of any table.                              *)

LEMMA KeptChain ==
  ASSUME NEW p, NEW q, NEW r, RunKept(p, q), RunKept(q, r)
  PROVE  RunKept(p, r)
  BY Zenon DEF RunKept

LEMMA KeptSame == \A r : RunKept(r, r)
  BY Zenon DEF RunKept

LEMMA StartedFit ==
  ASSUME NEW h, NEW src, Fit(h, src)
  PROVE  LET g == OnStarted(h)
         IN  /\ Fit(g, src) /\ RunKept(h.run, g.run)
             /\ ActiveRun(h.run) => ActiveRun(g.run)
             /\ ~ActiveRun(h.run) => g = h
<1>1. CASE ~ActiveRun(h.run) BY <1>1, KeptSame, Zenon DEF OnStarted
<1>2. CASE ActiveRun(h.run)
  <2> DEFINE l == IF h.run.state = "ready_to_swap" THEN h ELSE EnsureLoading(h)
  <2>1. Fit(l, src) /\ RunKept(h.run, l.run) /\ ActiveRun(l.run)
    BY <1>2, LoadFacts, KeptSame, Zenon
  <2>2. OnStarted(h) = EnsureRoute(l) BY <1>2, Zenon DEF OnStarted
  <2> HIDE DEF l
  <2> QED BY <1>2, <2>1, <2>2, RouteFacts, Zenon
<1> QED BY <1>1, <1>2

LEMMA SwapIfReadyFit ==
  ASSUME NEW h, NEW src, Fit(h, src)
  PROVE  Fit(SwapIfReady(h), src) /\ RunKept(h.run, SwapIfReady(h).run)
  BY SwapFacts, KeptSame, Zenon DEF SwapIfReady

LEMMA ReadForm ==
  \A h, k : OnRead(h, k) = SwapIfReady(ReadRow(StateFor(h, TRUE), k))
  BY Zenon DEF OnRead, ReadRow

LEMMA ReadFit ==
  ASSUME NEW h, NEW src \in SUBSET Keys, Fit(h, src), NEW k \in src
  PROVE  Fit(OnRead(h, k), src) /\ RunKept(h.run, OnRead(h, k).run)
<1> DEFINE o == StateFor(h, TRUE)
           r == ReadRow(o, k)
<1>1. Fit(o, src) /\ o.run = h.run BY StateForTrue, Zenon
<1> HIDE DEF o
<1>2. Fit(r, src) /\ RunKept(o.run, r.run) BY <1>1, ReadFacts
<1>3. OnRead(h, k) = SwapIfReady(r) BY ReadForm, Zenon DEF o
<1> HIDE DEF r
<1> QED BY <1>1, <1>2, <1>3, SwapIfReadyFit, KeptChain, Zenon

\* The terminal notice at the route.
Ends(h, n) == [h EXCEPT !.route.terminal = TRUE, !.route.declared = n]

LEMMA EndsFacts ==
  ASSUME NEW h, NEW src, Fit(h, src), NEW n \in Nat, NEW g, g = Ends(h, n)
  PROVE  /\ Fit(g, src) /\ g.run = h.run /\ g.life = h.life /\ g.live = h.live
         /\ g.shadow = h.shadow /\ (g.route.open <=> h.route.open)
         /\ (g.route.incremental <=> h.route.incremental)
         /\ g.route.seen = h.route.seen /\ g.route.terminal /\ g.route.declared = n
<1> DEFINE r == [h.route EXCEPT !.terminal = TRUE, !.declared = n]
<1>1. h \in Helds /\ h.route \in Route BY Zenon DEF Fit, Helds
<1>2. /\ r \in Route /\ r.open = h.route.open /\ r.incremental = h.route.incremental
      /\ r.seen = h.route.seen /\ r.terminal /\ r.declared = n
  BY <1>1, Zenon DEF Route
<1>3. g = [h EXCEPT !.route = r] BY <1>1, Zenon DEF Ends, Helds, Route
<1> HIDE DEF r
<1>4. /\ g \in Helds /\ g.run = h.run /\ g.claim = h.claim /\ g.life = h.life
      /\ g.live = h.live /\ g.shadow = h.shadow /\ g.route = r
  BY <1>1, <1>2, <1>3, Zenon DEF Helds
<1>5. Fit(g, src) BY <1>4, Zenon DEF Fit
<1>6. (r.open <=> h.route.open) /\ (r.incremental <=> h.route.incremental) BY <1>2
<1> QED BY <1>2, <1>4, <1>5, <1>6, Zenon

\* What the terminal notice finds: the run marked, the route open.
Noticed(h) ==
    IF ActiveRun(h.run)
    THEN EnsureRoute([EnsureLoading(h) EXCEPT !.run.state =
                        IF @ = "loading" THEN "ready_to_swap" ELSE @])
    ELSE h

LEMMA CompletedForm ==
  ASSUME NEW h, NEW n
  PROVE  LET o == StateFor(Noticed(h), TRUE)
         IN  OnScanCompleted(h, n)
               = IF o.route.incremental THEN SwapIfReady(Ends(o, n)) ELSE Swap(o)
  BY Zenon DEF OnScanCompleted, Noticed, Ends

LEMMA NoticedFit ==
  ASSUME NEW h, NEW src, Fit(h, src)
  PROVE  Fit(Noticed(h), src) /\ RunKept(h.run, Noticed(h).run)
<1>1. CASE ~ActiveRun(h.run) BY <1>1, KeptSame, Zenon DEF Noticed
<1>2. CASE ActiveRun(h.run)
  <2> DEFINE l == EnsureLoading(h)
             m == [l EXCEPT !.run.state = IF @ = "loading" THEN "ready_to_swap" ELSE @]
  <2>1. Fit(l, src) /\ RunKept(h.run, l.run) BY LoadFacts, Zenon
  <2> HIDE DEF l
  <2>2. Fit(m, src) /\ RunKept(l.run, m.run) BY <2>1, ReadyFacts, Zenon
  <2>3. Noticed(h) = EnsureRoute(m) BY <1>2, Zenon DEF Noticed, l
  <2> HIDE DEF m
  <2>4. Fit(EnsureRoute(m), src) /\ EnsureRoute(m).run = m.run BY <2>2, RouteFacts, Zenon
  <2> QED BY <2>1, <2>2, <2>3, <2>4, KeptChain, Zenon
<1> QED BY <1>1, <1>2

LEMMA CompletedFit ==
  ASSUME NEW h, NEW src, Fit(h, src), NEW n \in Nat
  PROVE  Fit(OnScanCompleted(h, n), src) /\ RunKept(h.run, OnScanCompleted(h, n).run)
<1> DEFINE o == StateFor(Noticed(h), TRUE)
           e == Ends(o, n)
<1>1. Fit(o, src) /\ RunKept(h.run, o.run)
  <2> DEFINE m == Noticed(h)
  <2>1. Fit(m, src) /\ RunKept(h.run, m.run) BY NoticedFit, Zenon
  <2> HIDE DEF m
  <2>2. Fit(StateFor(m, TRUE), src) /\ StateFor(m, TRUE).run = m.run
    BY <2>1, StateForTrue, Zenon
  <2> QED BY <2>1, <2>2, Zenon DEF m
<1>2. OnScanCompleted(h, n) = IF o.route.incremental THEN SwapIfReady(e) ELSE Swap(o)
  BY CompletedForm, Zenon
<1> HIDE DEF o
<1>3. Fit(e, src) /\ e.run = o.run
  <2>1. e = Ends(o, n) BY Zenon
  <2> HIDE DEF e
  <2> QED BY <1>1, <2>1, EndsFacts
<1> HIDE DEF e
<1>4. Fit(SwapIfReady(e), src) /\ RunKept(h.run, SwapIfReady(e).run)
  BY <1>1, <1>3, SwapIfReadyFit, KeptChain, Zenon
<1>5. Fit(Swap(o), src) /\ RunKept(h.run, Swap(o).run)
  BY <1>1, SwapFacts, KeptChain, Zenon
<1> QED BY <1>2, <1>4, <1>5, Zenon

\* A failure blocks a run that loads.
Blocked(h) ==
    IF h.run.state = "loading"
    THEN [h EXCEPT !.run.state = "blocked", !.run.mode = "full", !.claim = 0]
    ELSE h

LEMMA FailedForm ==
  \A h : OnScanFailed(h) = StateFor(IF ActiveRun(h.run)
                                    THEN EnsureRoute(Blocked(EnsureLoading(h))) ELSE h, TRUE)
  BY Zenon DEF OnScanFailed, Blocked

LEMMA FailedFit ==
  ASSUME NEW h, NEW src, Fit(h, src)
  PROVE  Fit(OnScanFailed(h), src) /\ RunKept(h.run, OnScanFailed(h).run)
<1> DEFINE l == EnsureLoading(h)
           b == Blocked(l)
           f == IF ActiveRun(h.run) THEN EnsureRoute(b) ELSE h
<1>1. Fit(l, src) /\ RunKept(h.run, l.run) BY LoadFacts, Zenon
<1> HIDE DEF l
<1>2. Fit(b, src) /\ RunKept(l.run, b.run) BY <1>1, BlockFacts, KeptSame, Zenon DEF Blocked
<1> HIDE DEF b
<1>3. Fit(f, src) /\ RunKept(h.run, f.run)
  <2>1. Fit(EnsureRoute(b), src) /\ EnsureRoute(b).run = b.run BY <1>2, RouteFacts, Zenon
  <2> QED BY <1>1, <1>2, <2>1, KeptChain, KeptSame, Zenon
<1>4. OnScanFailed(h) = StateFor(f, TRUE) BY FailedForm, Zenon DEF b, l
<1> HIDE DEF f
<1>5. Fit(StateFor(f, TRUE), src) /\ StateFor(f, TRUE).run = f.run
  BY <1>3, StateForTrue, Zenon
<1> QED BY <1>3, <1>4, <1>5, Zenon

-----------------------------------------------------------------------------
(* The handlers, on a table no stray record reached and the scan it waits   *)
(* for.                                                                     *)

\* An expected record finds a run that has not failed.
LEMMA ExpectedRun ==
  ASSUME NEW h, NEW src, Fit(h, src), ActiveRun(h.run), h.run.mode = "incremental"
  PROVE  h.run.state \in {"requested", "loading", "ready_to_swap"}
<1>1. h.run.state \in RunStates /\ h.run.state # "blocked"
  BY Zenon DEF Fit, Helds, Runs
<1> QED BY <1>1, Zenon DEF RunStates, ActiveRun

\* While its scan goes on, a route is open and fills or is spent.
LEMMA AttendedFacts ==
  ASSUME NEW h, NEW src, NEW c, NEW p, NEW pk, Fit(h, src), Clean(h, c, src, p, pk),
         Attended(h.run, c), ~(c.ended /\ c.left = {})
  PROVE  /\ h.route.open /\ Loads(h.run) /\ h.life # "complete" /\ h.shadow.exists
         /\ h.route.incremental /\ Fills(h, c, src)
<1>1. h.route.open /\ h.run.mode = "incremental" BY Zenon DEF Clean, Attended
<1>2. h.run.state # "blocked" BY <1>1 DEF Fit
<1>3. Loads(h.run) BY <1>1, <1>2, Zenon DEF Clean
<1>4. ~Waits(h, c) BY Zenon DEF Waits
<1>5. ~Spent(h, c, pk) BY Zenon DEF Spent, Attended
<1> QED BY <1>1, <1>3, <1>4, <1>5, Zenon DEF Clean

\* A swap of a shadow that lacks nothing completes the table.
LEMMA SwapClean ==
  ASSUME NEW h, NEW src, NEW c, NEW p \in Streams, NEW pk, Fit(h, src),
         h.shadow.exists, Loads(h.run), src \subseteq h.shadow.rows
  PROVE  Clean(Swap(h), c, src, p, pk)
<1> DEFINE g == Swap(h)
<1>1. /\ g.life = "complete" /\ g.route = NoRoute /\ g.live = h.shadow.rows
      /\ g.run.state = "complete" /\ ~ActiveRun(g.run)
  BY SwapFacts, Zenon DEF Loads
<1>2. h.shadow.rows = src BY Zenon DEF Fit
<1> HIDE DEF g
<1>3. ~g.route.open /\ ~Loads(g.run) BY <1>1 DEF NoRoute, Loads
<1>4. ~Attended(g.run, c) BY <1>1, Zenon DEF Attended
<1>5. p # "full" BY DEF Streams
<1>6. Clean(g, c, src, p, pk) BY <1>1, <1>2, <1>3, <1>4, <1>5, Zenon DEF Clean
<1> QED BY <1>6, Zenon DEF g

\* A table whose shadow is being filled.
LEMMA FillsClean ==
  ASSUME NEW h, NEW src, NEW c, NEW p \in Streams, NEW pk, h.route.open, Loads(h.run),
         h.life # "complete", h.shadow.exists, h.route.incremental,
         Fills(h, c, src) \/ Waits(h, c) \/ Spent(h, c, pk)
  PROVE  Clean(h, c, src, p, pk)
<1>1. p # "full" BY DEF Streams
<1> QED BY <1>1, Zenon DEF Clean

LEMMA StartedClean ==
  ASSUME Counting, NEW h, NEW src \in SUBSET Keys, NEW c \in Scans, NEW pk, Fit(h, src),
         Sound(h, c, src, "idle", pk), Clean(h, c, src, "idle", pk),
         ActiveRun(h.run), h.run.mode = "incremental", h.run.signal = c.signal, ~c.started
  PROVE  Clean(OnStarted(h), [c EXCEPT !.started = TRUE, !.left = src,
                                       !.size = Cardinality(src)], src, "idle", pk)
<1> DEFINE d == [c EXCEPT !.started = TRUE, !.left = src, !.size = Cardinality(src)]
<1>0. "idle" \in Streams BY Zenon DEF Streams
<1>1. /\ d.started /\ d.left = src /\ d.size = Cardinality(src) /\ ~d.ended
      /\ d.signal = c.signal /\ Cardinality(src) \in Nat
  <2>1. ~c.ended /\ c.ended \in BOOLEAN BY Zenon DEF Sound, Scans
  <2>2. Cardinality(src) \in Nat BY LeftFacts, Zenon
  <2> QED BY <2>1, <2>2, Zenon DEF Scans
<1> HIDE DEF d
<1>2. h.run.state \in {"requested", "loading", "ready_to_swap"} BY ExpectedRun, Zenon
<1>3. CASE h.route.open
  <2>1. Loads(h.run) BY <1>2, <1>3 DEF Clean
  <2>2. OnStarted(h) = h
    <3>1. EnsureLoading(h) = h BY <2>1 DEF EnsureLoading, Loads
    <3>2. EnsureRoute(h) = h BY <1>3, RouteFacts, Zenon
    <3> QED BY <3>1, <3>2, Zenon DEF OnStarted
  <2>3. h.route.seen = 0 /\ ~h.route.terminal
    <3>1. ~Fills(h, c, src) BY Zenon DEF Fills, Attended
    <3>2. ~Spent(h, c, pk) BY Zenon DEF Spent
    <3> QED BY <1>3, <2>1, <3>1, <3>2, Zenon DEF Clean, Waits
  <2>4. Fills(h, d, src)
    <3>1. Attended(h.run, d) BY <1>1, Zenon DEF Attended
    <3>3. h.route.seen + Cardinality(d.left) = d.size BY <1>1, <2>3
    <3> QED BY <1>1, <2>3, <3>1, <3>3, Zenon DEF Fills
  <2>5. h.life # "complete" /\ h.shadow.exists /\ h.route.incremental
    BY <1>3, <2>1, Zenon DEF Clean
  <2> QED BY <1>0, <1>3, <2>1, <2>2, <2>4, <2>5, FillsClean, Zenon DEF d
<1>4. CASE ~h.route.open
  <2>1. h.run.state = "requested"
    <3>1. h.life = "complete" BY <1>0, <1>4, Zenon DEF Clean
    <3>2. ~Loads(h.run) BY <3>1, Zenon DEF Clean
    <3> QED BY <1>2, <3>2, Zenon DEF Loads
  <2> DEFINE l == EnsureLoading(h)
             g == OnStarted(h)
  <2>2. /\ Fit(l, src) /\ l.run.state = "loading" /\ l.run.mode = "incremental"
        /\ l.run.signal = h.run.signal /\ l.route = h.route /\ ActiveRun(l.run)
    BY <2>1, LoadFacts, Zenon DEF RunKept
  <2>3. g = EnsureRoute(l) BY <2>1, Zenon DEF OnStarted
  <2> HIDE DEF l, g
  <2>4. g = StateFor(l, TRUE)
    BY <2>2, <2>3, RouteFacts, Zenon
  <2>5. /\ g.run = l.run /\ g.route.open /\ g.route.incremental /\ g.route.seen = 0
        /\ ~g.route.terminal /\ g.life = "in_progress" /\ g.shadow.exists
    <3>1. ~l.route.open BY <1>4, <2>2, Zenon
    <3> QED BY <2>2, <2>4, <3>1, StateForTrue, Zenon
  <2>6. Loads(g.run) /\ Attended(g.run, d)
    BY <1>1, <2>2, <2>5, Zenon DEF Loads, Attended
  <2>7. Fills(g, d, src)
    <3>1. g.route.seen + Cardinality(d.left) = d.size BY <1>1, <2>5
    <3> QED BY <1>1, <2>5, <2>6, <3>1, Zenon DEF Fills
  <2>8. Clean(g, d, src, "idle", pk)
    BY <1>0, <2>5, <2>6, <2>7, FillsClean, Zenon
  <2> QED BY <2>8, Zenon DEF g, d
<1> QED BY <1>3, <1>4

LEMMA ReadClean ==
  ASSUME Counting, NEW h, NEW src \in SUBSET Keys, NEW c \in Scans, NEW p \in Streams, NEW pk,
         Fit(h, src), Sound(h, c, src, "idle", pk), Clean(h, c, src, "idle", pk),
         Attended(h.run, c), NEW k \in c.left
  PROVE  Clean(OnRead(h, k), [c EXCEPT !.left = @ \ {k}], src, p, pk)
<1> DEFINE d == [c EXCEPT !.left = @ \ {k}]
           g == ReadRow(h, k)
<1>1. /\ d.started = c.started /\ d.left = c.left \ {k} /\ d.size = c.size
      /\ (d.ended <=> c.ended) /\ d.signal = c.signal
  BY Zenon DEF Scans
<1>2. /\ h.route.open /\ Loads(h.run) /\ h.life # "complete" /\ h.shadow.exists
      /\ h.route.incremental /\ Fills(h, c, src)
  BY AttendedFacts, Zenon
<1>3. k \in src BY Zenon DEF Sound
<1>4. OnRead(h, k) = SwapIfReady(g)
  <2>1. StateFor(h, TRUE) = h BY <1>2, Zenon DEF StateFor
  <2> QED BY <2>1, ReadForm, Zenon
<1>5. /\ Fit(g, src) /\ g.life = h.life /\ g.shadow.exists
      /\ g.shadow.rows = h.shadow.rows \cup {k} /\ g.run.state = h.run.state
      /\ g.run.mode = h.run.mode /\ g.run.signal = h.run.signal
      /\ (g.route.open <=> h.route.open) /\ (g.route.incremental <=> h.route.incremental)
      /\ (g.route.terminal <=> h.route.terminal) /\ g.route.declared = h.route.declared
      /\ g.route.seen = h.route.seen + 1
  <2>1. g = ReadRow(h, k) BY Zenon
  <2> HIDE DEF g
  <2>2. RunKept(h.run, g.run) BY <1>3, <2>1, ReadFacts
  <2>3. g.run.signal = h.run.signal BY <2>2, Zenon DEF RunKept
  <2>4. /\ Fit(g, src) /\ g.life = h.life /\ g.shadow.exists
        /\ g.shadow.rows = h.shadow.rows \cup {k} /\ g.run.state = h.run.state
        /\ g.run.mode = h.run.mode
    BY <1>3, <2>1, ReadFacts
  <2>5. /\ (g.route.open <=> h.route.open) /\ (g.route.incremental <=> h.route.incremental)
        /\ (g.route.terminal <=> h.route.terminal)
    BY <1>3, <2>1, ReadFacts
  <2>6. g.route.declared = h.route.declared /\ g.route.seen = h.route.seen + 1
    BY <1>2, <1>3, <2>1, ReadFacts
  <2> QED BY <2>3, <2>4, <2>5, <2>6, Zenon
<1> HIDE DEF d, g
<1>6. /\ c.left \in SUBSET Keys /\ d.left \in SUBSET Keys /\ c.size \in Nat
      /\ h.route.seen \in Nat /\ h.route.terminal \in BOOLEAN
  BY <1>1, Zenon DEF Scans, Fit, Helds, Route
<1>7. /\ Cardinality(d.left) \in Nat /\ Cardinality(d.left) = Cardinality(c.left) - 1
      /\ Cardinality(c.left) \in Nat /\ (Cardinality(d.left) = 0 <=> d.left = {})
  BY <1>1, <1>6, LeftFacts, Zenon
<1>8. /\ h.route.seen + Cardinality(c.left) = c.size /\ (h.route.terminal <=> c.ended)
      /\ h.route.terminal => h.route.declared = c.size
      /\ src \subseteq h.shadow.rows \cup c.left
  BY <1>2, Zenon DEF Fills
<1>9. g.route.seen + Cardinality(d.left) = c.size /\ g.route.seen \in Nat /\ g.route.seen > 0
  BY <1>5, <1>6, <1>7, <1>8
<1>10. src \subseteq g.shadow.rows \cup d.left BY <1>1, <1>5, <1>8, Zenon
<1>11. Loads(g.run) BY <1>2, <1>5, Zenon DEF Loads
<1>12. CASE d.ended /\ d.left = {}
  <2>1. g.route.declared = c.size /\ g.route.terminal BY <1>1, <1>5, <1>8, <1>12, Zenon
  <2>2. g.route.seen >= g.route.declared BY <1>7, <1>9, <1>12, <2>1
  <2>3. SwapReady(g.route) BY <1>2, <1>5, <1>9, <2>1, <2>2, Zenon DEF SwapReady
  <2>4. src \subseteq g.shadow.rows BY <1>10, <1>12, Zenon
  <2>5. Clean(Swap(g), d, src, p, pk) BY <1>5, <1>11, <2>4, SwapClean, Zenon
  <2> QED BY <1>4, <2>3, <2>5, Zenon DEF SwapIfReady, d
<1>13. CASE ~(d.ended /\ d.left = {})
  <2>1. ~SwapReady(g.route)
    <3>1. CASE ~d.ended BY <1>1, <1>5, <1>8, <3>1, Zenon DEF SwapReady
    <3>2. CASE d.ended
      <4>1. g.route.declared = c.size BY <1>1, <1>5, <1>8, <3>2, Zenon
      <4>2. Cardinality(d.left) > 0 BY <1>7, <1>13, <3>2
      <4>3. g.route.seen < c.size /\ c.size # 0 BY <1>6, <1>7, <1>9, <4>2
      <4> QED BY <1>6, <1>9, <4>1, <4>3 DEF SwapReady
    <3> QED BY <3>1, <3>2
  <2>2. Attended(g.run, d) BY <1>1, <1>5, Zenon DEF Attended, ActiveRun
  <2>3. Fills(g, d, src)
    BY <1>1, <1>5, <1>8, <1>9, <1>10, <1>13, <2>2, Zenon DEF Fills
  <2>4. Clean(g, d, src, p, pk)
    BY <1>2, <1>5, <1>11, <2>3, FillsClean, Zenon
  <2> QED BY <1>4, <2>1, <2>4, Zenon DEF SwapIfReady, d
<1> QED BY <1>12, <1>13

LEMMA CompletedClean ==
  ASSUME Counting, NEW h, NEW src \in SUBSET Keys, NEW c \in Scans, NEW p \in Streams, NEW pk,
         Fit(h, src), Sound(h, c, src, "idle", pk), Clean(h, c, src, "idle", pk),
         Attended(h.run, c), ~c.ended
  PROVE  Clean(OnScanCompleted(h, c.size), [c EXCEPT !.ended = TRUE], src, p, pk)
<1> DEFINE d == [c EXCEPT !.ended = TRUE]
           m == [h EXCEPT !.run.state = IF @ = "loading" THEN "ready_to_swap" ELSE @]
           g == Ends(m, c.size)
<1>1. /\ d.started = c.started /\ d.left = c.left /\ d.size = c.size
      /\ d.ended /\ d.signal = c.signal
  BY Zenon DEF Scans
<1>2. /\ h.route.open /\ Loads(h.run) /\ h.life # "complete" /\ h.shadow.exists
      /\ h.route.incremental /\ Fills(h, c, src)
  BY AttendedFacts, Zenon
<1>3. /\ Fit(m, src) /\ m.life = h.life /\ m.shadow = h.shadow /\ m.route = h.route
      /\ m.run.mode = h.run.mode /\ m.run.state = "ready_to_swap"
      /\ m.run.signal = h.run.signal
  BY <1>2, ReadyFacts, Zenon DEF Loads, RunKept
<1>4. Noticed(h) = m /\ StateFor(m, TRUE) = m
  <2>1. EnsureLoading(h) = h BY <1>2 DEF EnsureLoading, Loads
  <2>2. ActiveRun(h.run) BY Zenon DEF Attended
  <2>3. Noticed(h) = EnsureRoute(m) BY <2>1, <2>2, Zenon DEF Noticed
  <2> HIDE DEF m
  <2>4. EnsureRoute(m) = m BY <1>2, <1>3, RouteFacts, Zenon
  <2>5. StateFor(m, TRUE) = m BY <1>2, <1>3, Zenon DEF StateFor
  <2> QED BY <2>3, <2>4, <2>5, Zenon
<1> HIDE DEF d, m
<1>5. OnScanCompleted(h, c.size) = SwapIfReady(g)
  BY <1>2, <1>3, <1>4, CompletedForm, Zenon
<1>6. /\ c.left \in SUBSET Keys /\ c.size \in Nat /\ h.route.seen \in Nat
  BY Zenon DEF Scans, Fit, Helds, Route
<1>7. /\ Fit(g, src) /\ g.run = m.run /\ g.life = m.life /\ g.shadow = m.shadow
      /\ (g.route.open <=> m.route.open) /\ (g.route.incremental <=> m.route.incremental)
      /\ g.route.seen = m.route.seen /\ g.route.terminal /\ g.route.declared = c.size
  <2>0. Fit(m, src) /\ c.size \in Nat BY <1>3, <1>6, Zenon
  <2>1. g = Ends(m, c.size) BY Zenon
  <2> HIDE DEF g
  <2>2. /\ Fit(g, src) /\ g.run = m.run /\ g.life = m.life /\ g.shadow = m.shadow
    BY <2>0, <2>1, EndsFacts
  <2>3. (g.route.open <=> m.route.open) /\ (g.route.incremental <=> m.route.incremental)
    BY <2>0, <2>1, EndsFacts
  <2>4. g.route.seen = m.route.seen /\ g.route.terminal /\ g.route.declared = c.size
    BY <2>0, <2>1, EndsFacts
  <2> QED BY <2>2, <2>3, <2>4, Zenon
<1> HIDE DEF g
<1>8. Cardinality(c.left) \in Nat /\ (Cardinality(c.left) = 0 <=> c.left = {})
  BY <1>6, LeftFacts
<1>9. /\ h.route.seen + Cardinality(c.left) = c.size
      /\ src \subseteq h.shadow.rows \cup c.left
  BY <1>2, Zenon DEF Fills
<1>10. Loads(g.run) BY <1>2, <1>3, <1>7, Zenon DEF Loads
<1>11. CASE c.left = {}
  <2>1. g.route.seen = c.size BY <1>3, <1>6, <1>7, <1>8, <1>9, <1>11
  <2>2. SwapReady(g.route)
    <3>1. c.size = 0 \/ (c.size > 0 /\ c.size >= c.size) BY <1>6
    <3> QED BY <1>2, <1>3, <1>7, <2>1, <3>1, Zenon DEF SwapReady
  <2>3. src \subseteq g.shadow.rows BY <1>3, <1>7, <1>9, <1>11, Zenon
  <2>4. Clean(Swap(g), d, src, p, pk)
    BY <1>2, <1>3, <1>7, <1>10, <2>3, SwapClean, Zenon
  <2> QED BY <1>5, <2>2, <2>4, Zenon DEF SwapIfReady, d
<1>12. CASE c.left # {}
  <2>1. ~SwapReady(g.route)
    <3>1. g.route.seen < c.size /\ c.size # 0 /\ g.route.seen \in Nat
      BY <1>3, <1>6, <1>7, <1>8, <1>9, <1>12
    <3> QED BY <1>6, <1>7, <3>1 DEF SwapReady
  <2>2. Attended(g.run, d)
    <3>1. ActiveRun(g.run) BY <1>3, <1>7 DEF ActiveRun
    <3> QED BY <1>1, <1>2, <1>3, <1>7, <3>1, Zenon DEF Attended, Loads
  <2>3. Fills(g, d, src)
    BY <1>1, <1>3, <1>7, <1>9, <1>12, <2>2, Zenon DEF Fills
  <2>4. Clean(g, d, src, p, pk)
    BY <1>2, <1>3, <1>7, <1>10, <2>3, FillsClean, Zenon
  <2> QED BY <1>5, <2>1, <2>4, Zenon DEF SwapIfReady, d
<1> QED BY <1>11, <1>12

LEMMA FailedClean ==
  ASSUME NEW h, NEW src \in SUBSET Keys, NEW c \in Scans, NEW p \in Streams, NEW pk,
         Fit(h, src), Sound(h, c, src, "idle", pk), Clean(h, c, src, "idle", pk),
         Attended(h.run, c), ~c.ended
  PROVE  Clean(OnScanFailed(h), [c EXCEPT !.ended = TRUE, !.left = {}], src, p, pk)
<1> DEFINE d == [c EXCEPT !.ended = TRUE, !.left = {}]
<1>1. d.started = c.started /\ d.left = {} /\ d.ended /\ d.signal = c.signal
  BY Zenon DEF Scans
<1> HIDE DEF d
<1>2. /\ h.route.open /\ Loads(h.run) /\ h.life # "complete" /\ h.shadow.exists
      /\ h.route.incremental
  BY AttendedFacts, Zenon
<1>3. ActiveRun(h.run) /\ h.run.signal = c.signal /\ c.started BY Zenon DEF Attended
<1>4. EnsureLoading(h) = h BY <1>2 DEF EnsureLoading, Loads
<1>5. CASE h.run.state = "loading"
  <2> DEFINE b == Blocked(h)
  <2>1. /\ Fit(b, src) /\ b.life = h.life /\ b.route = h.route /\ b.run.state = "blocked"
        /\ b.run.mode = "full"
    BY <1>5, BlockFacts, Zenon DEF Blocked
  <2>2. OnScanFailed(h) = StateFor(EnsureRoute(b), TRUE)
    BY <1>3, <1>4, FailedForm, Zenon
  <2> HIDE DEF b
  <2>3. OnScanFailed(h) = b
    BY <1>2, <2>1, <2>2, RouteFacts, Zenon DEF StateFor
  <2>4. ~Loads(b.run) /\ ~Attended(b.run, d) BY <2>1 DEF Loads, Attended
  <2>5. p # "full" BY DEF Streams
  <2>6. Clean(b, d, src, p, pk) BY <1>2, <2>1, <2>4, <2>5, Zenon DEF Clean
  <2> QED BY <2>3, <2>6, Zenon DEF d
<1>6. CASE h.run.state # "loading"
  <2>1. Blocked(h) = h BY <1>6, Zenon DEF Blocked
  <2>2. OnScanFailed(h) = h
    BY <1>2, <1>3, <1>4, <2>1, FailedForm, RouteFacts, Zenon DEF StateFor
  <2>3. Spent(h, d, pk)
    <3>1. c.signal \in pk BY <1>3, Zenon DEF Sound
    <3> QED BY <1>1, <1>3, <3>1, Zenon DEF Spent
  <2>4. Clean(h, d, src, p, pk) BY <1>2, <2>3, FillsClean, Zenon
  <2> QED BY <2>2, <2>4, Zenon DEF d
<1> QED BY <1>5, <1>6

-----------------------------------------------------------------------------
(* How one table moves under the steps of the owner and the connector.      *)

LEMMA StreamMove ==
  ASSUME NEW h, NEW c, NEW src, NEW pk, NEW p \in Streams, NEW q \in Streams
  PROVE  /\ Sound(h, c, src, p, pk) => Sound(h, c, src, q, pk)
         /\ Clean(h, c, src, p, pk) => Clean(h, c, src, q, pk)
<1>1. q # "full" BY DEF Streams
<1>2. Sound(h, c, src, p, pk) => Sound(h, c, src, q, pk) BY Zenon DEF Sound
<1>3. Clean(h, c, src, p, pk) => Clean(h, c, src, q, pk) BY <1>1, Zenon DEF Clean
<1> QED BY <1>2, <1>3

\* Only the run of the table changes.
RunOnly(h, g) ==
    /\ g.claim = h.claim /\ g.life = h.life /\ g.live = h.live
    /\ g.shadow = h.shadow /\ g.route = h.route

\* A run opens, is promoted to a full one, or is correlated with a signal the
\* connector has not read.
Requests(r, q, pk) ==
    \/ q = r
    \/ ~ActiveRun(r) /\ q.state = "requested" /\ q.signal \notin pk
    \/ r.state = "requested" /\ q.state = "requested" /\ q.mode = "full"
    \/ /\ q.gen = r.gen /\ q.state = r.state /\ q.mode = r.mode /\ q.signal \notin pk
       /\ r.mode = "incremental" => r.signal = NoSignal

LEMMA RequestMove ==
  ASSUME NEW h, NEW g, NEW c, NEW src, NEW pk, NEW p \in Streams, NEW q \in Streams,
         RunOnly(h, g), Requests(h.run, g.run, pk), NoSignal \notin pk,
         Sound(h, c, src, p, pk)
  PROVE  /\ Sound(g, c, src, q, pk)
         /\ Clean(h, c, src, p, pk) => Clean(g, c, src, q, pk)
<1>1. /\ g.claim = h.claim /\ g.life = h.life /\ g.live = h.live
      /\ g.shadow = h.shadow /\ g.route = h.route /\ p # "full" /\ q # "full"
  BY DEF RunOnly, Streams
<1>2. c.started => c.signal \in pk /\ c.signal # NoSignal BY Zenon DEF Sound
<1>3. ASSUME /\ g.run.state = "blocked" => g.run.mode = "full"
             /\ h.claim = Claim(g.run)
      PROVE  Sound(g, c, src, q, pk)
  BY <1>1, <1>3, Zenon DEF Sound
<1>4. CASE g.run = h.run
  <2>1. Sound(g, c, src, q, pk) BY <1>3, <1>4, Zenon DEF Sound
  <2>2. ASSUME Clean(h, c, src, p, pk) PROVE Clean(g, c, src, q, pk)
    BY <1>1, <1>4, <2>2, Zenon DEF Clean, Fills, Waits, Spent
  <2> QED BY <2>1, <2>2
<1>5. CASE /\ ~ActiveRun(h.run) \/ h.run.state = "requested"
           /\ g.run.state = "requested"
           /\ g.run.signal \notin pk \/ g.run.mode = "full"
  <2>0. h.run.state \notin {"loading", "ready_to_swap", "blocked"}
    BY <1>5 DEF ActiveRun
  <2>1. Sound(g, c, src, q, pk)
    <3>1. h.claim = 0 BY <2>0, Zenon DEF Sound, Claim
    <3>2. g.run.state \notin {"loading", "ready_to_swap", "blocked"} BY <1>5
    <3>3. h.claim = Claim(g.run) BY <3>1, <3>2, Zenon DEF Claim
    <3> QED BY <1>3, <3>2, <3>3, Zenon
  <2>2. ASSUME Clean(h, c, src, p, pk) PROVE Clean(g, c, src, q, pk)
    <3>1. ~Loads(h.run) /\ ~Loads(g.run) BY <1>5, <2>0 DEF Loads
    <3>2. ~h.route.open BY <2>0, <2>2, <3>1, Zenon DEF Clean
    <3>3. ~Attended(g.run, c)
      <4>1. g.run.signal \notin pk \/ g.run.mode # "incremental" BY <1>5
      <4> QED BY <1>2, <4>1, Zenon DEF Attended
    <3> QED BY <1>1, <2>2, <3>1, <3>2, <3>3, Zenon DEF Clean
  <2> QED BY <2>1, <2>2
<1>6. CASE /\ g.run.gen = h.run.gen /\ g.run.state = h.run.state /\ g.run.mode = h.run.mode
           /\ g.run.signal \notin pk
           /\ h.run.mode = "incremental" => h.run.signal = NoSignal
  <2>1. Sound(g, c, src, q, pk)
    <3>1. Claim(g.run) = Claim(h.run) BY <1>6, Zenon DEF Claim
    <3> QED BY <1>3, <1>6, <3>1, Zenon DEF Sound
  <2>2. ASSUME Clean(h, c, src, p, pk) PROVE Clean(g, c, src, q, pk)
    <3>1. Loads(g.run) <=> Loads(h.run) BY <1>6, Zenon DEF Loads
    <3>2. ~Attended(g.run, c) /\ ~Attended(h.run, c)
      BY <1>2, <1>6, Zenon DEF Attended
    <3>3. ASSUME Loads(h.run), h.route.open
          PROVE  h.route.incremental /\ Waits(g, c)
      <4>1. ~Spent(h, c, pk) BY <1>6, <3>3, Zenon DEF Spent, Loads
      <4>2. ~Fills(h, c, src) BY <3>2, Zenon DEF Fills
      <4> QED BY <1>1, <2>2, <3>2, <3>3, <4>1, <4>2, Zenon DEF Clean, Waits
    <3> QED BY <1>1, <1>6, <2>2, <3>1, <3>2, <3>3, Zenon DEF Clean
  <2> QED BY <2>1, <2>2
<1> QED BY <1>4, <1>5, <1>6 DEF Requests

\* The process dies: the route and the scan are gone.
LEMMA DieMove ==
  ASSUME NEW h, NEW g, NEW c, NEW src, NEW pk, NEW qk, NEW p,
         g.run = h.run, g.claim = h.claim, g.life = h.life, g.live = h.live,
         g.shadow = h.shadow, g.route = NoRoute, Sound(h, c, src, p, pk)
  PROVE  /\ Sound(g, NoScan, src, "down", qk)
         /\ Clean(h, c, src, p, pk) => Clean(g, NoScan, src, "down", qk)
<1>1. /\ ~g.route.open /\ ~NoScan.started /\ ~NoScan.ended /\ NoScan.left = {}
      /\ NoScan.signal = NoSignal /\ "down" \notin Streams /\ "down" # "full"
  BY DEF NoRoute, NoScan, Streams
<1>2. Sound(g, NoScan, src, "down", qk) BY <1>1, Zenon DEF Sound
<1>3. ~Attended(g.run, NoScan) BY <1>1, Zenon DEF Attended
<1>4. ASSUME Clean(h, c, src, p, pk) PROVE Clean(g, NoScan, src, "down", qk)
  BY <1>1, <1>3, <1>4, Zenon DEF Clean
<1> QED BY <1>2, <1>4

\* The connector opens the scans of a signal it had not read.
LEMMA PickUpMove ==
  ASSUME NEW h, NEW c, NEW d, NEW src, NEW pk, NEW s, s \notin pk, NoSignal \notin pk,
         ScanOver(c), d.signal \in {s, NoSignal}, ~d.started, ~d.ended, d.left = {},
         Sound(h, c, src, "idle", pk)
  PROVE  /\ Sound(h, d, src, "idle", pk \cup {s})
         /\ Clean(h, c, src, "idle", pk) => Clean(h, d, src, "idle", pk \cup {s})
<1>1. "idle" \in Streams /\ "idle" # "full" BY DEF Streams
<1>2. Sound(h, d, src, "idle", pk \cup {s}) BY <1>1, Zenon DEF Sound
<1>3. ~Attended(h.run, d) BY Zenon DEF Attended
<1>4. ~Fills(h, c, src)
  <2>1. c.started => c.signal # NoSignal BY Zenon DEF Sound
  <2> QED BY <2>1, Zenon DEF Fills, Attended, ScanOver
<1>5. Waits(h, c) => Waits(h, d) BY <1>3, Zenon DEF Waits
<1>6. Spent(h, c, pk) => Spent(h, d, pk \cup {s})
  <2>1. h.run.signal \in pk => h.run.signal # d.signal BY Zenon
  <2> QED BY <2>1, Zenon DEF Spent
<1>7. ASSUME Clean(h, c, src, "idle", pk) PROVE Clean(h, d, src, "idle", pk \cup {s})
  BY <1>1, <1>3, <1>4, <1>5, <1>6, <1>7, Zenon DEF Clean
<1> QED BY <1>2, <1>7

\* A row is streamed, to the shadow while a route is open.
LEMMA ChangeMove ==
  ASSUME NEW h, NEW g, NEW c, NEW src, NEW pk, NEW k,
         g.run = h.run, g.claim = h.claim, g.life = h.life, g.route = h.route,
         IF h.route.open
         THEN /\ g.shadow = [exists |-> TRUE, rows |-> h.shadow.rows \cup {k}]
              /\ g.live = h.live
         ELSE g.live = h.live \cup {k} /\ g.shadow = h.shadow,
         Sound(h, c, src, "idle", pk)
  PROVE  /\ Sound(g, c, src \cup {k}, "idle", pk)
         /\ Clean(h, c, src, "idle", pk) => Clean(g, c, src \cup {k}, "idle", pk)
<1>1. "idle" \in Streams /\ "idle" # "full" BY DEF Streams
<1>2. /\ g.shadow.rows \subseteq src \cup {k} /\ (h.shadow.exists => g.shadow.exists)
      /\ h.route.open => g.shadow.rows = h.shadow.rows \cup {k}
      /\ ~h.route.open => g.live = h.live \cup {k}
  <2>1. h.shadow.rows \subseteq src BY Zenon DEF Sound
  <2>2. CASE h.route.open
    <3>1. g.shadow.exists /\ g.shadow.rows = h.shadow.rows \cup {k} BY <2>2
    <3> QED BY <2>1, <2>2, <3>1, Zenon
  <2>3. CASE ~h.route.open BY <2>1, <2>3, Zenon
  <2> QED BY <2>2, <2>3
<1>3. Sound(g, c, src \cup {k}, "idle", pk)
  <2>1. c.left \subseteq src \cup {k} BY Zenon DEF Sound
  <2> QED BY <1>1, <1>2, <2>1, Zenon DEF Sound
<1>4. ASSUME Clean(h, c, src, "idle", pk) PROVE Clean(g, c, src \cup {k}, "idle", pk)
  <2>1. h.route.open /\ Fills(h, c, src) => Fills(g, c, src \cup {k})
    BY <1>2, Zenon DEF Fills
  <2>2. Waits(h, c) => Waits(g, c) BY Zenon DEF Waits
  <2>3. Spent(h, c, pk) => Spent(g, c, pk) BY Zenon DEF Spent
  <2>4. h.life = "complete" => h.live = src /\ ~h.route.open BY <1>4, Zenon DEF Clean
  <2>5. g.life = "complete" => g.live = src \cup {k} /\ ~g.route.open
    BY <1>2, <2>4, Zenon
  <2> QED BY <1>1, <1>2, <1>4, <2>1, <2>2, <2>3, <2>5, Zenon DEF Clean
<1> QED BY <1>3, <1>4

\* While the process starts there is no route and no scan.
LEMMA StartupFacts ==
  ASSUME NEW h, NEW c, NEW src, NEW pk, NEW p \in {"down", "owed", "full"},
         Sound(h, c, src, p, pk)
  PROVE  /\ c = NoScan /\ ~h.route.open /\ p \notin Streams /\ ~Attended(h.run, c)
         /\ ~c.started /\ ~c.ended /\ c.left = {} /\ c.signal = NoSignal
<1>1. p \notin Streams BY DEF Streams
<1>2. c = NoScan /\ ~h.route.open BY <1>1, Zenon DEF Sound
<1>3. ~c.started /\ ~c.ended /\ c.left = {} /\ c.signal = NoSignal BY <1>2, Zenon DEF NoScan
<1> QED BY <1>1, <1>2, <1>3, Zenon DEF Attended

\* What a step of startup owes of a table for its books, and for its rows.
Restarts(h, g, src) ==
    /\ g.route = h.route /\ g.shadow.rows \subseteq src /\ g.claim = Claim(g.run)
    /\ g.run.state = "blocked" => g.run.mode = "full"

Settled(g, src, q) ==
    /\ g.life = "complete" => g.live = src
    /\ Loads(g.run) => g.life # "complete" /\ g.shadow.exists
    /\ q = "full" /\ g.life # "complete" =>
          \/ Loads(g.run)
          \/ g.run.mode = "full" /\ g.run.state \in {"requested", "loading"}

\* A step of startup on one table: the claim follows the run, a complete table
\* holds the source's rows, and a run that loads keeps its shadow.
LEMMA StartupMove ==
  ASSUME NEW h, NEW g, NEW c, NEW src, NEW pk, NEW p \in {"down", "owed", "full"},
         NEW q \in {"owed", "full"}, Sound(h, c, src, p, pk), Restarts(h, g, src)
  PROVE  /\ Sound(g, c, src, q, pk)
         /\ Settled(g, src, q) => Clean(g, c, src, q, pk)
<1>1. /\ c = NoScan /\ ~h.route.open /\ ~c.started /\ ~c.ended /\ c.left = {}
      /\ c.signal = NoSignal
  BY StartupFacts
<1>2. q \notin Streams BY DEF Streams
<1>3. Sound(g, c, src, q, pk) BY <1>1, <1>2, Zenon DEF Sound, Restarts
<1>4. ~Attended(g.run, c) BY <1>1, Zenon DEF Attended
<1>5. ASSUME Settled(g, src, q) PROVE Clean(g, c, src, q, pk)
  BY <1>1, <1>2, <1>4, <1>5, Zenon DEF Clean, Settled, Restarts
<1> QED BY <1>3, <1>5

-----------------------------------------------------------------------------
(* The steps of the owner.                                                  *)

LEMMA HeldForm ==
  \A t : /\ Held(t).run = run[t] /\ Held(t).claim = claim[t] /\ Held(t).life = life[t]
         /\ Held(t).live = live[t] /\ Held(t).shadow = shadow[t]
         /\ Held(t).route = route[t]
         /\ Held(t)'.run = run'[t] /\ Held(t)'.claim = claim'[t]
         /\ Held(t)'.life = life'[t] /\ Held(t)'.live = live'[t]
         /\ Held(t)'.shadow = shadow'[t] /\ Held(t)'.route = route'[t]
  BY Zenon DEF Held

LEMMA HeldSame ==
  ASSUME UNCHANGED <<run, durableTables, route>>
  PROVE  \A t : Held(t)' = Held(t)
  BY Zenon DEF Held, durableTables

LEMMA NotPicked ==
  ASSUME Counting, TypeOK, PublishedHasSource
  PROVE  /\ NoSignal \notin picked
         /\ UnusedSignals # {} => NextSignal \notin picked /\ NextSignal \notin inserted
<1>1. NoSignal \notin Signals BY DEF NoSignal, Signals
<1>2. picked \subseteq inserted /\ inserted \subseteq Signals BY Zenon DEF TypeOK
<1>3. ASSUME UnusedSignals # {} PROVE NextSignal \notin inserted
  <2>1. NextSignal \in Signals /\ intent[NextSignal].state = "none"
    BY <1>3, FreshSignal, Zenon
  <2> QED BY <2>1, Zenon DEF PublishedHasSource
<1> QED BY <1>1, <1>2, <1>3, Zenon

\* The run that repository.request opens.
NewRun(r, mode) == [NoRun EXCEPT !.gen = r.gen + 1, !.state = "requested", !.mode = mode]

LEMMA NewRunFacts ==
  ASSUME NEW r \in Runs, r.gen < MaxRuns, NEW mode \in Modes
  PROVE  /\ NewRun(r, mode) \in Runs /\ NewRun(r, mode).state = "requested"
         /\ NewRun(r, mode).mode = mode /\ NewRun(r, mode).signal = NoSignal
<1> DEFINE e == r.gen + 1
<1>1. e \in 0 .. MaxRuns /\ 0 \in 0 .. MaxRuns
  <2>1. r.gen \in 0 .. MaxRuns BY Zenon DEF Runs
  <2> QED BY <2>1, BackfillAssumption
<1> HIDE DEF e
<1>2. NoRun \in Runs /\ NoRun.signal = NoSignal
  BY <1>1, Zenon DEF NoRun, Runs, RunStates, Modes
<1>3. "requested" \in RunStates BY Zenon DEF RunStates
<1>4. NewRun(r, mode) = [NoRun EXCEPT !.gen = e, !.state = "requested", !.mode = mode]
  BY Zenon DEF NewRun, e
<1> QED BY <1>1, <1>2, <1>3, <1>4, Zenon DEF Runs

\* Nothing of the tables changes while the stream runs.
LEMMA TablesRest ==
  ASSUME TableInv, pc \in Streams, pc' \in Streams,
         UNCHANGED <<run, durableTables, scan, source, picked, route, stray>>
  PROVE  TableInv'
<1> SUFFICES ASSUME NEW t \in Tables
             PROVE  /\ Sound(Held(t)', scan'[t], source'[t], pc', picked')
                    /\ t \notin stray' => Clean(Held(t)', scan'[t], source'[t], pc', picked')
  BY DEF TableInv
<1>1. Held(t)' = Held(t) BY HeldSame, Zenon
<1>2. /\ Sound(Held(t), scan[t], source[t], pc, picked)
      /\ t \notin stray => Clean(Held(t), scan[t], source[t], pc, picked)
  BY Zenon DEF TableInv
<1> QED BY <1>1, <1>2, StreamMove, Zenon

\* No run comes to listen, and none changes its signal.
LEMMA SignalsRest ==
  ASSUME SignalInv, UNCHANGED <<intent, inserted>>,
         \A t \in Tables : Listens(run'[t]) =>
                              Listens(run[t]) /\ run'[t].signal = run[t].signal
  PROVE  SignalInv'
<1>1. PublishedHasSource' BY Zenon DEF SignalInv, PublishedHasSource
<1>2. \A t, u \in Tables : Listens(run[t]) /\ Listens(run[u]) => run[t].signal = run[u].signal
  BY Zenon DEF SignalInv
<1>3. \A t, u \in Tables : Listens(run'[t]) /\ Listens(run'[u])
                             => run'[t].signal = run'[u].signal
  BY <1>2, Zenon
<1> QED BY <1>1, <1>3 DEF SignalInv

LEMMA OwnerRests ==
  ASSUME pc' \notin {"idle", "publish"}
  PROVE  OwnerInv'
  BY DEF OwnerInv, QueueDrained

\* The tables of S are correlated with a new signal, when no run listens to one.
LEMMA CorrelateKeeps ==
  ASSUME Counting, IInv, NEW S \in SUBSET Tables, NEW kind \in {"admission", "queued_dispatch"},
         UnusedSignals # {}, RunsLeft(S), pc \in Streams, pc' \in Streams,
         run' = Correlated(S, NextSignal), intent' = Recorded(NextSignal, S, kind),
         UNCHANGED <<durableTables, connector, route, stray>>,
         \A t \in Tables : ~Listens(run[t]),
         \A t \in S : ActiveRun(run[t]) /\ run[t].mode = "incremental"
                         => run[t].signal = NoSignal
  PROVE  /\ run' \in [Tables -> Runs] /\ TableInv' /\ SignalInv'
         /\ intent' \in [Signals -> [state : {"none", "pending", "published"},
                                     tables : SUBSET Tables,
                                     kind : {"admission", "queued_dispatch"}]]
         /\ \A t \in S : ActiveRun(run'[t])
<1> DEFINE n == NextSignal
<1>0. TypeOK /\ PublishedHasSource BY Zenon DEF IInv, SignalInv
<1>1. /\ n \in Signals /\ n # NoSignal /\ intent[n].state = "none"
      /\ n \notin picked /\ n \notin inserted /\ NoSignal \notin picked
  BY <1>0, FreshSignal, NotPicked, Zenon
<1> HIDE DEF n
<1>2. \A t \in Tables : run[t] \in Runs BY <1>0, Zenon DEF TypeOK, Runs
<1>3. ASSUME NEW t \in Tables
      PROVE  /\ run'[t] \in Runs
             /\ t \notin S => run'[t] = run[t]
             /\ t \in S => ActiveRun(run'[t]) /\ run'[t].signal = n
             /\ Requests(run[t], run'[t], picked)
  <2>1. CASE t \notin S BY <1>2, <2>1, Zenon DEF Correlated, Requests
  <2>2. CASE t \in S /\ ActiveRun(run[t])
    <3> DEFINE q == [run[t] EXCEPT !.signal = n]
    <3>1. run'[t] = q
      <4>1. Requested(run[t], "incremental") = run[t] BY <2>2 DEF Requested
      <4> QED BY <2>2, <4>1, Zenon DEF Correlated, n
    <3>2. /\ q \in Runs /\ q.signal = n /\ q.gen = run[t].gen /\ q.state = run[t].state
          /\ q.mode = run[t].mode
      BY <1>1, <1>2, Zenon DEF Runs
    <3> HIDE DEF q
    <3>3. ActiveRun(q) BY <2>2, <3>2, Zenon DEF ActiveRun
    <3> QED BY <1>1, <2>2, <3>1, <3>2, <3>3, Zenon DEF Requests
  <2>3. CASE t \in S /\ ~ActiveRun(run[t])
    <3> DEFINE w == NewRun(run[t], "incremental")
    <3>1. w \in Runs /\ w.state = "requested"
      <4>1. run[t].gen < MaxRuns BY <2>3, Zenon DEF RunsLeft
      <4>2. "incremental" \in Modes BY Zenon DEF Modes
      <4> QED BY <1>2, <4>1, <4>2, NewRunFacts, Zenon
    <3>2. run'[t] = [w EXCEPT !.signal = n]
      <4>1. Requested(run[t], "incremental") = w BY <2>3, Zenon DEF Requested, NewRun
      <4> HIDE DEF w
      <4> QED BY <2>3, <4>1, Zenon DEF Correlated, n
    <3> HIDE DEF w
    <3>3. run'[t] \in Runs /\ run'[t].signal = n /\ run'[t].state = "requested"
      BY <1>1, <3>1, <3>2, Zenon DEF Runs
    <3>4. ActiveRun(run'[t]) BY <3>3 DEF ActiveRun
    <3> QED BY <1>1, <2>3, <3>3, <3>4, Zenon DEF Requests
  <2> QED BY <2>1, <2>2, <2>3
<1>4. run' \in [Tables -> Runs]
  <2>1. run' = [t \in Tables |-> run'[t]] BY Zenon DEF Correlated
  <2> QED BY <1>3, <2>1, Zenon
<1>5. TableInv'
  <2> SUFFICES ASSUME NEW t \in Tables
               PROVE  /\ Sound(Held(t)', scan'[t], source'[t], pc', picked')
                      /\ t \notin stray'
                            => Clean(Held(t)', scan'[t], source'[t], pc', picked')
    BY DEF TableInv
  <2>1. /\ Sound(Held(t), scan[t], source[t], pc, picked)
        /\ t \notin stray => Clean(Held(t), scan[t], source[t], pc, picked)
    BY Zenon DEF IInv, TableInv
  <2>2. RunOnly(Held(t), Held(t)') BY HeldForm DEF RunOnly, durableTables
  <2>3. Requests(Held(t).run, Held(t)'.run, picked) BY <1>3, HeldForm
  <2>4. scan' = scan /\ source' = source /\ picked' = picked /\ stray' = stray
    BY Zenon DEF connector
  <2> QED BY <1>1, <2>1, <2>2, <2>3, <2>4, RequestMove, Zenon
<1>6. /\ intent' \in [Signals -> [state : {"none", "pending", "published"},
                                  tables : SUBSET Tables,
                                  kind : {"admission", "queued_dispatch"}]]
      /\ intent'[n].state = "pending" /\ \A s \in Signals \ {n} : intent'[s] = intent[s]
  <2> DEFINE i == [state |-> "pending", tables |-> S, kind |-> kind]
             Intents == [state : {"none", "pending", "published"},
                         tables : SUBSET Tables, kind : {"admission", "queued_dispatch"}]
  <2>1. intent' = [intent EXCEPT ![n] = i] BY Zenon DEF Recorded, n
  <2>2. i \in Intents /\ i.state = "pending" BY Zenon
  <2>3. intent \in [Signals -> Intents] BY <1>0, Zenon DEF TypeOK
  <2> HIDE DEF i, Intents
  <2>4. /\ intent' \in [Signals -> Intents] /\ intent'[n] = i
        /\ \A s \in Signals \ {n} : intent'[s] = intent[s]
    BY <1>1, <2>1, <2>2, <2>3, Zenon
  <2> QED BY <2>2, <2>4, Zenon DEF Intents
<1>7. SignalInv'
  <2>1. PublishedHasSource'
    <3> SUFFICES ASSUME NEW s \in Signals
                 PROVE  /\ intent'[s].state = "published" => s \in inserted'
                        /\ s \in inserted' => intent'[s].state # "none"
      BY DEF PublishedHasSource
    <3>1. inserted' = inserted BY Zenon DEF connector
    <3>2. CASE s = n BY <1>1, <1>6, <3>1, <3>2
    <3>3. CASE s # n BY <1>0, <1>6, <3>1, <3>3, Zenon DEF PublishedHasSource
    <3> QED BY <3>2, <3>3
  <2>2. \A t \in Tables : Listens(run'[t]) => run'[t].signal = n
    BY <1>3, Zenon
  <2>3. \A t, u \in Tables : Listens(run'[t]) /\ Listens(run'[u])
                               => run'[t].signal = run'[u].signal
    BY <2>2, Zenon
  <2> QED BY <2>1, <2>3 DEF SignalInv
<1>8. \A t \in S : ActiveRun(run'[t]) BY <1>3, Zenon
<1> QED BY <1>4, <1>5, <1>6, <1>7, <1>8, Zenon

LEMMA DieKeeps ==
  ASSUME IInv, Die, UNCHANGED <<run, durableTables, intent, inserted, source, stray>>
  PROVE  /\ TableInv' /\ SignalInv' /\ OwnerInv' /\ picked' \subseteq inserted'
         /\ route' \in [Tables -> Route] /\ scan' \in [Tables -> Scans] /\ pc' = "down"
<1>1. /\ pc' = "down" /\ route' = [t \in Tables |-> NoRoute]
      /\ scan' = [t \in Tables |-> NoScan] /\ picked' \subseteq picked
  BY Zenon DEF Die
<1>2. NoScan \in Scans
  <2>1. 0 \in Nat OBVIOUS
  <2> QED BY <2>1, Zenon DEF NoScan, Scans
<1>3. route' \in [Tables -> Route] /\ scan' \in [Tables -> Scans]
  BY <1>1, <1>2, NoRouteType, Zenon
<1>4. picked' \subseteq inserted' BY <1>1, Zenon DEF IInv, TypeOK
<1>5. TableInv'
  <2> SUFFICES ASSUME NEW t \in Tables
               PROVE  /\ Sound(Held(t)', scan'[t], source'[t], pc', picked')
                      /\ t \notin stray'
                            => Clean(Held(t)', scan'[t], source'[t], pc', picked')
    BY DEF TableInv
  <2>1. /\ Sound(Held(t), scan[t], source[t], pc, picked)
        /\ t \notin stray => Clean(Held(t), scan[t], source[t], pc, picked)
    BY Zenon DEF IInv, TableInv
  <2>2. /\ Held(t)'.run = Held(t).run /\ Held(t)'.claim = Held(t).claim
        /\ Held(t)'.life = Held(t).life /\ Held(t)'.live = Held(t).live
        /\ Held(t)'.shadow = Held(t).shadow /\ Held(t)'.route = NoRoute
    BY <1>1, HeldForm DEF durableTables
  <2>3. scan'[t] = NoScan BY <1>1, Zenon
  <2> QED BY <1>1, <2>1, <2>2, <2>3, DieMove, Zenon
<1>6. SignalInv' BY SignalsRest, Zenon DEF IInv
<1>7. OwnerInv'
  <2>1. pc' \notin {"idle", "publish"} BY <1>1
  <2> QED BY <2>1, OwnerRests
<1> QED BY <1>1, <1>3, <1>4, <1>5, <1>6, <1>7, Zenon

LEMMA RequestIncrementalKeeps ==
  ASSUME Counting, IInv, NEW S \in SUBSET Tables, S # {}, RequestIncremental(S)
  PROVE  IInv'
<1>0. TypeOK /\ TableInv /\ SignalInv BY Zenon DEF IInv
<1>1. /\ pc = "idle" /\ requests < MaxRequests /\ requests' = requests + 1
      /\ UNCHANGED <<durableTables, inserted, source, stops, stray>>
  BY Zenon DEF RequestIncremental
<1>2. pc \in Streams /\ "publish" \in Streams /\ "publish" # "idle"
  BY <1>1 DEF Streams
<1>3. requests' \in 0 .. MaxRequests
  <2>1. requests \in 0 .. MaxRequests BY <1>0, Zenon DEF TypeOK
  <2> QED BY <1>1, <2>1, BackfillAssumption
<1>4. CASE Refuses(S) /\ Die /\ UNCHANGED <<run, intent, queue>>
  <2>1. /\ TableInv' /\ SignalInv' /\ OwnerInv' /\ picked' \subseteq inserted'
        /\ route' \in [Tables -> Route] /\ scan' \in [Tables -> Scans] /\ pc' = "down"
    BY <1>1, <1>4, DieKeeps, Zenon
  <2>2. TypeOK'
    BY <1>0, <1>1, <1>3, <1>4, <2>1, Zenon DEF TypeOK, durableTables, Scans
  <2> QED BY <2>1, <2>2 DEF IInv
<1>5. ASSUME pc' = "publish", UNCHANGED <<run, intent, picked, scan, route>>,
             queue' \subseteq SUBSET Tables, ActiveTables # {}
      PROVE  IInv'
  <2>1. TableInv' BY <1>0, <1>1, <1>2, <1>5, TablesRest, Zenon
  <2>2. SignalInv' BY <1>0, <1>1, <1>5, SignalsRest, Zenon
  <2>3. ActiveTables' # {} BY <1>5, Zenon DEF ActiveTables
  <2>4. OwnerInv' BY <1>2, <1>5, <2>3, Zenon DEF OwnerInv, QueueDrained
  <2>5. TypeOK'
    BY <1>0, <1>1, <1>3, <1>5, Zenon DEF TypeOK, durableTables
  <2> QED BY <2>1, <2>2, <2>4, <2>5 DEF IInv
<1>6. CASE \E s \in IF ActiveSignals = {} THEN {NoSignal} ELSE ActiveSignals :
             /\ ~Refuses(S)
             /\ NeedsQueue(S, s)
             /\ queue' = queue \cup {S}
             /\ pc' = "publish"
             /\ UNCHANGED <<run, intent, picked, scan, route>>
  <2>1. PICK s \in IF ActiveSignals = {} THEN {NoSignal} ELSE ActiveSignals :
             /\ NeedsQueue(S, s)
             /\ queue' = queue \cup {S}
             /\ pc' = "publish"
             /\ UNCHANGED <<run, intent, picked, scan, route>>
    BY <1>6, Zenon
  <2>2. ActiveTables # {}
    <3>1. CASE s # NoSignal
      <4>1. s \in ActiveSignals BY <2>1, <3>1, Zenon
      <4> QED BY <4>1, Zenon DEF ActiveSignals
    <3>2. CASE s = NoSignal
      <4>1. S \cap FullTables # {} BY <2>1, <3>2, Zenon DEF NeedsQueue
      <4> QED BY <4>1, Zenon DEF FullTables
    <3> QED BY <3>1, <3>2
  <2>3. queue' \subseteq SUBSET Tables BY <1>0, <2>1, Zenon DEF TypeOK
  <2> QED BY <1>5, <2>1, <2>2, <2>3, Zenon
<1>7. CASE /\ ActiveSignals = {} /\ ~NeedsQueue(S, NoSignal)
           /\ UnusedSignals # {} /\ RunsLeft(S)
           /\ run' = Correlated(S, NextSignal)
           /\ intent' = Recorded(NextSignal, S, "admission")
           /\ pc' = "publish"
           /\ UNCHANGED <<queue, picked, scan, route>>
  <2>1. \A t \in Tables : ~Listens(run[t])
    BY <1>7, Zenon DEF Listens, ActiveSignals, ActiveTables
  <2>2. \A t \in S : ActiveRun(run[t]) /\ run[t].mode = "incremental"
                        => run[t].signal = NoSignal
    BY <1>7, Zenon DEF ActiveSignals, ActiveTables
  <2>3. UNCHANGED <<durableTables, connector, route, stray>>
    BY <1>1, <1>7, Zenon DEF connector
  <2>4. /\ run' \in [Tables -> Runs] /\ TableInv' /\ SignalInv'
        /\ intent' \in [Signals -> [state : {"none", "pending", "published"},
                                    tables : SUBSET Tables,
                                    kind : {"admission", "queued_dispatch"}]]
        /\ \A t \in S : ActiveRun(run'[t])
    <3>1. "admission" \in {"admission", "queued_dispatch"} BY Zenon
    <3>2. pc' \in Streams BY <1>2, <1>7, Zenon
    <3> QED BY <1>2, <1>7, <2>1, <2>2, <2>3, <3>1, <3>2, CorrelateKeeps, Zenon
  <2>5. ActiveTables' # {} BY <2>4, Zenon DEF ActiveTables
  <2>6. OwnerInv' BY <1>2, <1>7, <2>5, Zenon DEF OwnerInv, QueueDrained
  <2>7. TypeOK'
    BY <1>0, <1>1, <1>3, <1>7, <2>4, Zenon DEF TypeOK, durableTables, Runs
  <2> QED BY <2>4, <2>6, <2>7 DEF IInv
<1>8. CASE \E s \in ActiveSignals :
             /\ ~Refuses(S) /\ ~NeedsQueue(S, s)
             /\ pc' = "publish"
             /\ UNCHANGED <<run, intent, queue, picked, scan, route>>
  <2>1. ActiveTables # {} BY <1>8, Zenon DEF ActiveSignals
  <2>2. queue' \subseteq SUBSET Tables BY <1>0, <1>8, Zenon DEF TypeOK
  <2> QED BY <1>5, <1>8, <2>1, <2>2, Zenon
<1> QED BY <1>4, <1>6, <1>7, <1>8, Zenon DEF RequestIncremental

LEMMA RequestFullKeeps ==
  ASSUME Counting, IInv, NEW t \in Tables, RequestFull(t)
  PROVE  IInv'
<1>0. TypeOK /\ TableInv /\ SignalInv /\ PublishedHasSource BY Zenon DEF IInv, SignalInv
<1>1. /\ pc = "idle" /\ requests < MaxRequests /\ RunsLeft({t})
      /\ requests' = requests + 1
      /\ run' = [run EXCEPT ![t] = Requested(run[t], "full")]
      /\ UNCHANGED <<durableTables, connector, intent, queue, pc, route, stops, stray>>
  BY Zenon DEF RequestFull
<1>2. requests' \in 0 .. MaxRequests
  <2>1. requests \in 0 .. MaxRequests BY <1>0, Zenon DEF TypeOK
  <2> QED BY <1>1, <2>1, BackfillAssumption
<1>3. run \in [Tables -> Runs] /\ run[t] \in Runs BY <1>0, Zenon DEF TypeOK, Runs
<1> DEFINE q == Requested(run[t], "full")
<1>4. NoSignal \notin picked BY <1>0, NotPicked, Zenon
<1>5. /\ q \in Runs /\ ActiveRun(q) /\ Requests(run[t], q, picked)
      /\ Listens(q) => q = run[t]
  <2>1. CASE ActiveRun(run[t]) /\ run[t].state # "requested"
    <3>1. q = run[t] BY <2>1, Zenon DEF Requested
    <3> QED BY <1>3, <2>1, <3>1, Zenon DEF Requests
  <2>2. CASE ActiveRun(run[t]) /\ run[t].state = "requested"
    <3>1. q = [run[t] EXCEPT !.mode = "full"] BY <2>2, Zenon DEF Requested
    <3>2. q \in Runs /\ q.state = "requested" /\ q.mode = "full"
      BY <1>3, <2>2, <3>1, Zenon DEF Runs, Modes
    <3>3. ActiveRun(q) /\ ~Listens(q) BY <3>2 DEF ActiveRun, Listens
    <3> QED BY <2>2, <3>2, <3>3, Zenon DEF Requests
  <2>3. CASE ~ActiveRun(run[t])
    <3>1. q = NewRun(run[t], "full") BY <2>3, Zenon DEF Requested, NewRun
    <3>2. run[t].gen < MaxRuns /\ "full" \in Modes
      BY <1>1, <2>3, Zenon DEF RunsLeft, Modes
    <3> HIDE DEF q
    <3>3. q \in Runs /\ q.state = "requested" /\ q.mode = "full" /\ q.signal = NoSignal
      BY <1>3, <3>1, <3>2, NewRunFacts, Zenon
    <3>4. ActiveRun(q) /\ ~Listens(q) BY <3>3 DEF ActiveRun, Listens
    <3> QED BY <1>4, <2>3, <3>3, <3>4, Zenon DEF Requests
  <2> QED BY <2>1, <2>2, <2>3
<1>6. /\ run' \in [Tables -> Runs] /\ run'[t] = q
      /\ \A u \in Tables \ {t} : run'[u] = run[u]
  BY <1>1, <1>3, <1>5, Zenon
<1> HIDE DEF q
<1>7. TableInv'
  <2> SUFFICES ASSUME NEW u \in Tables
               PROVE  /\ Sound(Held(u)', scan'[u], source'[u], pc', picked')
                      /\ u \notin stray'
                            => Clean(Held(u)', scan'[u], source'[u], pc', picked')
    BY DEF TableInv
  <2>1. /\ Sound(Held(u), scan[u], source[u], pc, picked)
        /\ u \notin stray => Clean(Held(u), scan[u], source[u], pc, picked)
    BY <1>0, Zenon DEF TableInv
  <2>2. RunOnly(Held(u), Held(u)') BY <1>1, HeldForm DEF RunOnly, durableTables
  <2>3. Requests(Held(u).run, Held(u)'.run, picked)
    <3>1. CASE u = t BY <1>5, <1>6, <3>1, HeldForm
    <3>2. CASE u # t
      <4>1. run'[u] = run[u] BY <1>6, <3>2, Zenon
      <4>2. Held(u)'.run = Held(u).run BY <4>1, HeldForm, Zenon
      <4> QED BY <4>2, Zenon DEF Requests
    <3> QED BY <3>1, <3>2
  <2>4. scan' = scan /\ source' = source /\ picked' = picked /\ stray' = stray /\ pc' = pc
    BY <1>1, Zenon DEF connector
  <2>5. pc \in Streams BY <1>1 DEF Streams
  <2> QED BY <1>4, <2>1, <2>2, <2>3, <2>4, <2>5, RequestMove, Zenon
<1>8. SignalInv'
  <2>1. UNCHANGED <<intent, inserted>> BY <1>1, Zenon DEF connector
  <2>2. \A u \in Tables : Listens(run'[u]) => Listens(run[u]) /\ run'[u].signal = run[u].signal
    BY <1>5, <1>6, Zenon
  <2> QED BY <1>0, <2>1, <2>2, SignalsRest, Zenon
<1>9. OwnerInv'
  <2>1. ActiveTables' # {} BY <1>5, <1>6, Zenon DEF ActiveTables
  <2>2. pc' # "publish" BY <1>1
  <2> QED BY <2>1, <2>2, Zenon DEF OwnerInv, QueueDrained
<1>10. TypeOK'
  BY <1>0, <1>1, <1>2, <1>6, Zenon DEF TypeOK, durableTables, connector, Runs
<1> QED BY <1>7, <1>8, <1>9, <1>10 DEF IInv

\* What a step that only touches intents and signal rows leaves of the owner.
LEMMA OwnerSame ==
  ASSUME OwnerInv, UNCHANGED <<run, queue, pc>>, UnusedSignals' \subseteq UnusedSignals
  PROVE  OwnerInv'
<1>1. ActiveTables' = ActiveTables BY Zenon DEF ActiveTables
<1>2. RunsLeft(UNION queue)' => RunsLeft(UNION queue) BY Zenon DEF RunsLeft
<1>3. QueueDrained' BY <1>1, <1>2, Zenon DEF OwnerInv, QueueDrained
<1> QED BY <1>1, <1>3, Zenon DEF OwnerInv

LEMMA PublishKeeps ==
  ASSUME IInv, NEW s \in Signals, InsertSignal(s) \/ MarkPublished(s)
  PROVE  IInv'
<1>0. TypeOK /\ TableInv /\ SignalInv /\ OwnerInv /\ PublishedHasSource
  BY Zenon DEF IInv, SignalInv
<1>1. CASE InsertSignal(s)
  <2>1. /\ pc \in {"publish", "dispatch"} /\ intent[s].state = "pending"
        /\ inserted' = inserted \cup {s}
        /\ UNCHANGED <<run, durableTables, intent, queue, picked, scan, source, pc,
                       route, requests, stops, stray>>
    BY <1>1, Zenon DEF InsertSignal, PendingSignals
  <2>2. pc \in Streams /\ pc' \in Streams BY <2>1 DEF Streams
  <2>3. TableInv' BY <1>0, <2>1, <2>2, TablesRest, Zenon
  <2>4. PublishedHasSource'
    <3>1. intent[s].state # "none" BY <2>1
    <3> QED BY <1>0, <2>1, <3>1, Zenon DEF PublishedHasSource
  <2>5. SignalInv' BY <1>0, <2>1, <2>4, Zenon DEF SignalInv
  <2>6. OwnerInv'
    <3>1. UnusedSignals' = UnusedSignals BY <2>1, Zenon DEF UnusedSignals
    <3> QED BY <1>0, <2>1, <3>1, OwnerSame, Zenon
  <2>7. TypeOK' BY <1>0, <2>1, Zenon DEF TypeOK, durableTables
  <2> QED BY <2>3, <2>5, <2>6, <2>7 DEF IInv
<1>2. CASE MarkPublished(s)
  <2>1. /\ pc \in {"publish", "dispatch"} /\ s \in inserted
        /\ intent' = [intent EXCEPT ![s].state = "published"]
        /\ UNCHANGED <<run, durableTables, connector, queue, pc, route, requests,
                       stops, stray>>
    BY <1>2, Zenon DEF MarkPublished
  <2>2. pc \in Streams /\ pc' \in Streams BY <2>1 DEF Streams
  <2>3. TableInv' BY <1>0, <2>1, <2>2, TablesRest, Zenon DEF connector
  <2> DEFINE Intents == [state : {"none", "pending", "published"},
                         tables : SUBSET Tables, kind : {"admission", "queued_dispatch"}]
             i == [intent[s] EXCEPT !.state = "published"]
  <2>4. intent \in [Signals -> Intents] /\ intent[s] \in Intents BY <1>0, Zenon DEF TypeOK
  <2>5. i \in Intents /\ i.state = "published" BY <2>4, Zenon
  <2>6. intent' = [intent EXCEPT ![s] = i] BY <2>1, <2>4
  <2> HIDE DEF i, Intents
  <2>7. /\ intent' \in [Signals -> Intents] /\ intent'[s] = i
        /\ \A o \in Signals \ {s} : intent'[o] = intent[o]
    BY <2>4, <2>5, <2>6, Zenon
  <2>8. PublishedHasSource'
    <3> SUFFICES ASSUME NEW o \in Signals
                 PROVE  /\ intent'[o].state = "published" => o \in inserted'
                        /\ o \in inserted' => intent'[o].state # "none"
      BY DEF PublishedHasSource
    <3>1. inserted' = inserted BY <2>1, Zenon DEF connector
    <3>2. CASE o = s
      <4>1. intent'[o].state # "none" BY <2>5, <2>7, <3>2
      <4> QED BY <2>1, <3>1, <3>2, <4>1, Zenon
    <3>3. CASE o # s BY <1>0, <2>7, <3>1, <3>3, Zenon DEF PublishedHasSource
    <3> QED BY <3>2, <3>3
  <2>9. SignalInv' BY <1>0, <2>1, <2>8, Zenon DEF SignalInv
  <2>10. OwnerInv'
    <3>1. intent'[s].state # "none" BY <2>5, <2>7
    <3>2. UnusedSignals' \subseteq UnusedSignals BY <2>7, <3>1, Zenon DEF UnusedSignals
    <3> QED BY <1>0, <2>1, <3>2, OwnerSame, Zenon
  <2>11. TypeOK'
    BY <1>0, <2>1, <2>7, Zenon DEF TypeOK, durableTables, connector, Intents
  <2> QED BY <2>3, <2>9, <2>10, <2>11 DEF IInv
<1> QED BY <1>1, <1>2

LEMMA DispatchKeeps ==
  ASSUME Counting, IInv, DispatchQueued
  PROVE  IInv'
<1>0. TypeOK /\ TableInv /\ SignalInv BY Zenon DEF IInv
<1> DEFINE S == UNION queue
<1>1. /\ pc = "dispatch" /\ UnblockedTables = {} /\ UnusedSignals # {} /\ RunsLeft(S)
      /\ run' = Correlated(S, NextSignal)
      /\ intent' = Recorded(NextSignal, S, "queued_dispatch")
      /\ queue' = {}
      /\ UNCHANGED <<durableTables, connector, pc, route, requests, stops, stray>>
  BY Zenon DEF DispatchQueued, DispatchReady
<1>2. S \in SUBSET Tables BY <1>0, Zenon DEF TypeOK
<1> HIDE DEF S
<1>3. \A t \in Tables : ~Listens(run[t])
  BY <1>1, Zenon DEF Listens, UnblockedTables, ActiveTables
<1>4. ASSUME NEW t \in S, ActiveRun(run[t]), run[t].mode = "incremental"
      PROVE  run[t].signal = NoSignal
  <2>1. run[t].state = "blocked" /\ t \in Tables
    BY <1>1, <1>2, <1>4, Zenon DEF UnblockedTables, ActiveTables
  <2>2. run[t].mode = "full" BY <1>0, <2>1, HeldForm, Zenon DEF TableInv, Sound
  <2> QED BY <1>4, <2>2
<1>5. pc \in Streams /\ pc' \in Streams BY <1>1 DEF Streams
<1>6. /\ run' \in [Tables -> Runs] /\ TableInv' /\ SignalInv'
      /\ intent' \in [Signals -> [state : {"none", "pending", "published"},
                                  tables : SUBSET Tables,
                                  kind : {"admission", "queued_dispatch"}]]
  <2>1. "queued_dispatch" \in {"admission", "queued_dispatch"} BY Zenon
  <2>2. UNCHANGED <<durableTables, connector, route, stray>> BY <1>1, Zenon
  <2> QED BY <1>1, <1>2, <1>3, <1>4, <1>5, <2>1, <2>2, CorrelateKeeps, Zenon
<1>7. OwnerInv'
  <2>1. pc' \notin {"idle", "publish"} BY <1>1
  <2> QED BY <2>1, OwnerRests, Zenon
<1>8. TypeOK'
  BY <1>0, <1>1, <1>6, Zenon DEF TypeOK, durableTables, connector, Runs
<1> QED BY <1>6, <1>7, <1>8 DEF IInv

LEMMA ReconciledKeeps ==
  ASSUME IInv, Reconciled
  PROVE  IInv'
<1>0. TypeOK /\ TableInv /\ SignalInv /\ OwnerInv BY Zenon DEF IInv
<1>1. /\ pc \in {"publish", "dispatch"} /\ pc' = "idle"
      /\ pc = "dispatch" /\ DispatchReady => UnusedSignals = {} \/ ~RunsLeft(UNION queue)
      /\ UNCHANGED <<run, durableTables, intent, queue, connector, route, requests,
                     stops, stray>>
  BY Zenon DEF Reconciled
<1>2. pc \in Streams /\ pc' \in Streams /\ pc' # "publish" BY <1>1 DEF Streams
<1>3. TableInv' BY <1>0, <1>1, <1>2, TablesRest, Zenon DEF connector
<1>4. SignalInv' BY <1>0, <1>1, SignalsRest, Zenon DEF connector
<1>5. QueueDrained'
  <2> SUFFICES ASSUME ActiveTables' = {}, UnusedSignals' # {}, RunsLeft(UNION queue)',
                      queue' # {}
               PROVE  FALSE
    BY DEF QueueDrained
  <2>1. ActiveTables = {} /\ UnusedSignals # {} /\ RunsLeft(UNION queue) /\ queue # {}
    BY <1>1, Zenon DEF ActiveTables, UnusedSignals, RunsLeft
  <2>2. pc = "dispatch" BY <1>0, <1>1, <2>1, Zenon DEF OwnerInv
  <2>3. DispatchReady BY <2>1, Zenon DEF DispatchReady, UnblockedTables
  <2> QED BY <1>1, <2>1, <2>2, <2>3
<1>6. OwnerInv' BY <1>2, <1>5, Zenon DEF OwnerInv
<1>7. TypeOK' BY <1>0, <1>1, Zenon DEF TypeOK, durableTables, connector
<1> QED BY <1>3, <1>4, <1>6, <1>7 DEF IInv

-----------------------------------------------------------------------------
(* The steps of the connector.                                              *)

LEMMA PickUpKeeps ==
  ASSUME Counting, IInv, NEW s \in Signals, PickUp(s)
  PROVE  IInv'
<1>0. TypeOK /\ TableInv /\ SignalInv /\ OwnerInv /\ PublishedHasSource
  BY Zenon DEF IInv, SignalInv
<1> DEFINE opens == [NoScan EXCEPT !.signal = s]
<1>1. /\ pc = "idle" /\ s \in inserted /\ s \notin picked
      /\ \A t \in Tables : ScanOver(scan[t])
      /\ picked' = picked \cup {s}
      /\ UNCHANGED <<run, durableTables, intent, queue, inserted, source, pc, route,
                     requests, stops, stray>>
  BY Zenon DEF PickUp
<1>3. scan' = [t \in Tables |-> IF t \in intent[s].tables THEN opens ELSE NoScan]
  BY Zenon DEF PickUp
<1>4. /\ NoScan \in Scans /\ NoScan.signal = NoSignal /\ ~NoScan.started /\ ~NoScan.ended
      /\ NoScan.left = {}
  <2>1. 0 \in Nat OBVIOUS
  <2> QED BY <2>1, Zenon DEF NoScan, Scans
<1>5. /\ opens \in Scans /\ opens.signal = s /\ ~opens.started /\ ~opens.ended
      /\ opens.left = {}
  BY <1>4, Zenon DEF Scans
<1> HIDE DEF opens
<1>6. scan' \in [Tables -> Scans] BY <1>3, <1>4, <1>5, Zenon
<1>7. TableInv'
  <2> SUFFICES ASSUME NEW t \in Tables
               PROVE  /\ Sound(Held(t)', scan'[t], source'[t], pc', picked')
                      /\ t \notin stray'
                            => Clean(Held(t)', scan'[t], source'[t], pc', picked')
    BY DEF TableInv
  <2>1. /\ Sound(Held(t), scan[t], source[t], "idle", picked)
        /\ t \notin stray => Clean(Held(t), scan[t], source[t], "idle", picked)
    BY <1>0, <1>1, Zenon DEF TableInv
  <2> DEFINE d == scan'[t]
  <2>2. d.signal \in {s, NoSignal} /\ ~d.started /\ ~d.ended /\ d.left = {}
    BY <1>3, <1>4, <1>5, Zenon
  <2> HIDE DEF d
  <2>3. NoSignal \notin picked BY <1>0, NotPicked, Zenon
  <2>4. /\ Sound(Held(t), d, source[t], "idle", picked \cup {s})
        /\ t \notin stray => Clean(Held(t), d, source[t], "idle", picked \cup {s})
    BY <1>1, <2>1, <2>2, <2>3, PickUpMove, Zenon
  <2>5. Held(t)' = Held(t) BY <1>1, HeldSame, Zenon
  <2> QED BY <1>1, <2>4, <2>5, Zenon DEF d
<1>8. SignalInv' BY <1>0, <1>1, SignalsRest, Zenon
<1>9. OwnerInv'
  <2>1. UnusedSignals' = UnusedSignals BY <1>1, Zenon DEF UnusedSignals
  <2> QED BY <1>0, <1>1, <2>1, OwnerSame, Zenon
<1>10. TypeOK'
  <2>1. picked' \subseteq inserted' BY <1>0, <1>1, Zenon DEF TypeOK
  <2> QED BY <1>0, <1>1, <1>6, <2>1, Zenon DEF TypeOK, durableTables, Scans
<1> QED BY <1>7, <1>8, <1>9, <1>10 DEF IInv

\* A record of one table: what its handler must give.
LEMMA RecordKeeps ==
  ASSUME IInv, NEW t \in Tables, NEW h \in Helds, NEW d \in Scans,
         pc = "idle", pc' \in {"idle", "dispatch"}, Commit(t, h),
         scan' = [scan EXCEPT ![t] = d],
         stray' = IF Expected(t) THEN stray ELSE stray \cup {t},
         UNCHANGED <<intent, queue, inserted, picked, source, requests, stops>>,
         RunKept(run[t], h.run),
         Sound(h, d, source[t], pc', picked),
         Expected(t) /\ t \notin stray => Clean(h, d, source[t], pc', picked),
         pc' = "idle" => h.run = run[t] \/ ActiveRun(h.run)
  PROVE  IInv'
<1>0. TypeOK /\ TableInv /\ SignalInv /\ OwnerInv BY Zenon DEF IInv
<1>1. /\ Held(t)' = h /\ \A u \in Tables \ {t} : Held(u)' = Held(u)
      /\ run'[t] = h.run /\ \A u \in Tables \ {t} : run'[u] = run[u]
      /\ run' \in [Tables -> Runs] /\ claim' \in [Tables -> 0 .. MaxRuns]
      /\ life' \in [Tables -> Lives] /\ live' \in [Tables -> SUBSET Keys]
      /\ shadow' \in [Tables -> Shadows] /\ route' \in [Tables -> Route]
  BY <1>0, CommitFacts, Zenon
<1>2. /\ scan' \in [Tables -> Scans] /\ scan'[t] = d
      /\ \A u \in Tables \ {t} : scan'[u] = scan[u]
  <2>1. scan \in [Tables -> Scans] BY <1>0, Zenon DEF TypeOK, Scans
  <2> QED BY <2>1, Zenon
<1>3. pc \in Streams /\ pc' \in Streams /\ pc' # "publish" BY DEF Streams
<1>4. TableInv'
  <2> SUFFICES ASSUME NEW u \in Tables
               PROVE  /\ Sound(Held(u)', scan'[u], source'[u], pc', picked')
                      /\ u \notin stray'
                            => Clean(Held(u)', scan'[u], source'[u], pc', picked')
    BY Zenon DEF TableInv
  <2>1. CASE u = t BY <1>1, <1>2, <2>1, Zenon
  <2>2. CASE u # t
    <3>1. /\ Sound(Held(u), scan[u], source[u], pc, picked)
          /\ u \notin stray => Clean(Held(u), scan[u], source[u], pc, picked)
      BY <1>0, Zenon DEF TableInv
    <3>2. u \notin stray' => u \notin stray BY Zenon
    <3>3. Held(u)' = Held(u) /\ scan'[u] = scan[u] BY <1>1, <1>2, <2>2, Zenon
    <3>4. /\ Sound(Held(u), scan[u], source[u], pc', picked)
          /\ u \notin stray => Clean(Held(u), scan[u], source[u], pc', picked)
      BY <1>3, <3>1, StreamMove, Zenon
    <3> QED BY <3>2, <3>3, <3>4, Zenon
  <2> QED BY <2>1, <2>2, Zenon
<1>5. SignalInv'
  <2>1. \A u \in Tables : Listens(run'[u]) => Listens(run[u]) /\ run'[u].signal = run[u].signal
    BY <1>1, Zenon DEF RunKept
  <2> QED BY <1>0, <2>1, SignalsRest, Zenon
<1>6. OwnerInv'
  <2>1. CASE pc' = "dispatch"
    <3>1. pc' \notin {"idle", "publish"} BY <2>1, Zenon
    <3> QED BY <3>1, OwnerRests, Zenon
  <2>2. CASE pc' = "idle" /\ ActiveRun(h.run)
    <3>1. ActiveTables' # {} BY <1>1, <2>2, Zenon DEF ActiveTables
    <3> QED BY <1>3, <3>1, Zenon DEF OwnerInv, QueueDrained
  <2>3. CASE pc' = "idle" /\ h.run = run[t]
    <3>1. run' = run
      <4>1. run \in [Tables -> Runs] BY <1>0, Zenon DEF TypeOK, Runs
      <4>2. \A u \in Tables : run'[u] = run[u] BY <1>1, <2>3, Zenon
      <4> QED BY <1>1, <4>1, <4>2
    <3>2. UnusedSignals' = UnusedSignals BY Zenon DEF UnusedSignals
    <3>3. pc' = pc BY <2>3, Zenon
    <3> QED BY <1>0, <3>1, <3>2, <3>3, OwnerSame, Zenon
  <2> QED BY <2>1, <2>2, <2>3, Zenon
<1>7. TypeOK'
  <2>1. stray' \subseteq Tables BY <1>0, Zenon DEF TypeOK
  <2>2. pc' \in {"idle", "publish", "dispatch", "down", "owed", "full"} BY Zenon
  <2> QED BY <1>0, <1>1, <1>2, <2>1, <2>2, Zenon DEF TypeOK, Runs, Lives, Shadows, Scans
<1> QED BY <1>4, <1>5, <1>6, <1>7 DEF IInv

\* What a record finds.
LEMMA RecordFacts ==
  ASSUME IInv, NEW t \in Tables, pc = "idle"
  PROVE  /\ Held(t) \in Helds /\ scan[t] \in Scans /\ source[t] \in SUBSET Keys
         /\ Held(t).run = run[t] /\ Fit(Held(t), source[t])
         /\ Sound(Held(t), scan[t], source[t], "idle", picked)
         /\ t \notin stray => Clean(Held(t), scan[t], source[t], "idle", picked)
<1>1. /\ Held(t) \in Helds /\ scan[t] \in Scans /\ source[t] \in SUBSET Keys
      /\ Held(t).run = run[t]
  BY HeldFacts, Zenon DEF IInv
<1>2. /\ Sound(Held(t), scan[t], source[t], "idle", picked)
      /\ t \notin stray => Clean(Held(t), scan[t], source[t], "idle", picked)
  BY Zenon DEF IInv, TableInv
<1>3. Fit(Held(t), source[t]) BY <1>1, <1>2, Zenon DEF Fit, Sound
<1> QED BY <1>1, <1>2, <1>3, Zenon

\* A table that fits is sound with any scan that is.
LEMMA FitSound ==
  ASSUME NEW h, NEW src, NEW d, NEW pk, NEW p \in Streams, Fit(h, src),
         d.left \subseteq src, d.signal # NoSignal => d.signal \in pk,
         d.ended => d.started, d.started => d.signal # NoSignal
  PROVE  Sound(h, d, src, p, pk)
  BY Zenon DEF Sound, Fit

LEMMA StartedKeeps ==
  ASSUME Counting, IInv, NEW t \in Tables, Started(t),
         stray' = IF Expected(t) THEN stray ELSE stray \cup {t}
  PROVE  IInv'
<1> DEFINE h == Held(t)
           c == scan[t]
           src == source[t]
           d == [c EXCEPT !.started = TRUE, !.left = src, !.size = Cardinality(src)]
           g == OnStarted(h)
<1>1. /\ pc = "idle" /\ c.signal # NoSignal /\ ~c.started /\ scan' = [scan EXCEPT ![t] = d]
      /\ Commit(t, g)
      /\ UNCHANGED <<intent, queue, inserted, picked, source, pc, requests, stops>>
  BY Zenon DEF Started
<1>2. /\ h \in Helds /\ c \in Scans /\ src \in SUBSET Keys /\ h.run = run[t]
      /\ Fit(h, src) /\ Sound(h, c, src, "idle", picked)
      /\ t \notin stray => Clean(h, c, src, "idle", picked)
  BY <1>1, RecordFacts, Zenon
<1> HIDE DEF h, c, src
<1>3. Cardinality(src) \in Nat BY <1>2, LeftFacts, Zenon
<1>4. /\ d \in Scans /\ d.left = src /\ d.signal = c.signal /\ d.started = TRUE
      /\ d.ended = c.ended
  BY <1>2, <1>3, Zenon DEF Scans
<1>5. /\ Fit(g, src) /\ RunKept(h.run, g.run)
      /\ ActiveRun(h.run) => ActiveRun(g.run)
      /\ ~ActiveRun(h.run) => g = h
  BY <1>2, StartedFit, Zenon
<1>6. ASSUME Expected(t), t \notin stray PROVE Clean(g, d, src, "idle", picked)
  <2>1. ActiveRun(h.run) /\ h.run.mode = "incremental" /\ h.run.signal = c.signal
    BY <1>2, <1>6, Zenon DEF Expected, c
  <2> QED BY <1>1, <1>2, <1>6, <2>1, StartedClean, Zenon
<1>7. g \in Helds BY <1>5, Zenon DEF Fit
<1> HIDE DEF d, g
<1>8. Sound(g, d, src, "idle", picked)
  <2>1. "idle" \in Streams BY Zenon DEF Streams
  <2>2. d.signal # NoSignal => d.signal \in picked BY <1>2, <1>4, Zenon DEF Sound
  <2> QED BY <1>1, <1>4, <1>5, <2>1, <2>2, FitSound, Zenon
<1>9. pc' = "idle" /\ pc' \in {"idle", "dispatch"} BY <1>1
<1>10. g.run = run[t] \/ ActiveRun(g.run) BY <1>2, <1>5, Zenon
<1> QED BY <1>1, <1>2, <1>4, <1>5, <1>6, <1>7, <1>8, <1>9, <1>10, RecordKeeps, Zenon
        DEF src

LEMMA ReadKeeps ==
  ASSUME Counting, IInv, NEW t \in Tables, NEW k \in Keys, Read(t, k),
         stray' = IF Expected(t) THEN stray ELSE stray \cup {t}
  PROVE  IInv'
<1> DEFINE h == Held(t)
           c == scan[t]
           src == source[t]
           d == [c EXCEPT !.left = @ \ {k}]
           g == OnRead(h, k)
<1>1. /\ pc = "idle" /\ c.started /\ k \in c.left
      /\ UNCHANGED <<intent, queue, inserted, picked, source, requests, stops>>
  BY Zenon DEF Read
<1>2. /\ h \in Helds /\ c \in Scans /\ src \in SUBSET Keys /\ h.run = run[t]
      /\ Fit(h, src) /\ Sound(h, c, src, "idle", picked)
      /\ t \notin stray => Clean(h, c, src, "idle", picked)
  BY <1>1, RecordFacts, Zenon
<1>3. scan' = [scan EXCEPT ![t] = d]
  <2>1. scan' = [scan EXCEPT ![t].left = @ \ {k}] BY Zenon DEF Read
  <2> QED BY <2>1
<1> HIDE DEF h, c, src
<1>4. /\ d \in Scans /\ d.left = c.left \ {k} /\ d.signal = c.signal
      /\ d.started = c.started /\ d.ended = c.ended
  <2>1. c.left \ {k} \in SUBSET Keys BY <1>2, Zenon DEF Scans
  <2> QED BY <1>2, <2>1, Zenon DEF Scans
<1>5. /\ d.left \subseteq src /\ (d.signal # NoSignal => d.signal \in picked)
      /\ (d.ended => d.started) /\ (d.started => d.signal # NoSignal)
  BY <1>2, <1>4, Zenon DEF Sound
<1>6. k \in src BY <1>1, <1>2, Zenon DEF Sound
<1>7. "idle" \in Streams /\ "dispatch" \in Streams BY Zenon DEF Streams
<1>8. CASE run[t].state = "complete" /\ UNCHANGED <<run, durableTables, route, pc>>
  <2>1. Commit(t, h)
    <3>1. /\ h.run = run[t] /\ h.claim = claim[t] /\ h.life = life[t] /\ h.live = live[t]
          /\ h.shadow = shadow[t] /\ h.route = route[t]
      BY HeldForm DEF h
    <3>2. TypeOK BY Zenon DEF IInv
    <3> QED BY <1>8, <3>1, <3>2, SameWritten, Zenon DEF Commit, durableTables
  <2>2. ~Expected(t) BY <1>8, Zenon DEF Expected, ActiveRun
  <2>3. Sound(h, d, src, "idle", picked) BY <1>2, <1>5, <1>7, FitSound, Zenon
  <2>4. pc' = "idle" /\ pc' \in {"idle", "dispatch"} BY <1>1, <1>8
  <2> HIDE DEF d
  <2> QED BY <1>1, <1>2, <1>3, <1>4, <2>1, <2>2, <2>3, <2>4, KeptSame, RecordKeeps, Zenon
          DEF src
<1>9. CASE run[t].state # "complete" /\ Commit(t, g) /\ pc' = "dispatch"
  <2>1. Fit(g, src) /\ RunKept(h.run, g.run) BY <1>2, <1>6, ReadFit, Zenon
  <2>2. g \in Helds BY <2>1, Zenon DEF Fit
  <2>3. ASSUME Expected(t), t \notin stray PROVE Clean(g, d, src, "dispatch", picked)
    <3>1. Attended(h.run, c) BY <1>1, <1>2, <2>3, Zenon DEF Expected, Attended, c
    <3> QED BY <1>1, <1>2, <1>7, <2>3, <3>1, ReadClean, Zenon
  <2> HIDE DEF d, g
  <2>4. Sound(g, d, src, "dispatch", picked) BY <1>5, <1>7, <2>1, FitSound, Zenon
  <2>5. pc' # "idle" /\ pc' \in {"idle", "dispatch"} BY <1>9
  <2> QED BY <1>1, <1>2, <1>3, <1>4, <1>9, <2>1, <2>2, <2>3, <2>4, <2>5, RecordKeeps, Zenon
          DEF src
<1> QED BY <1>8, <1>9, Zenon DEF Read, h

LEMMA ScanEndKeeps ==
  ASSUME Counting, IInv, NEW t \in Tables, ScanCompleted(t) \/ ScanFailed(t),
         stray' = IF Expected(t) THEN stray ELSE stray \cup {t}
  PROVE  IInv'
<1> DEFINE h == Held(t)
           c == scan[t]
           src == source[t]
<1>1. /\ pc = "idle" /\ c.started /\ ~c.ended /\ pc' = "dispatch"
      /\ UNCHANGED <<intent, queue, inserted, picked, source, requests, stops>>
  BY Zenon DEF ScanCompleted, ScanFailed
<1>2. /\ h \in Helds /\ c \in Scans /\ src \in SUBSET Keys /\ h.run = run[t]
      /\ Fit(h, src) /\ Sound(h, c, src, "idle", picked)
      /\ t \notin stray => Clean(h, c, src, "idle", picked)
  BY <1>1, RecordFacts, Zenon
<1>3. c.size \in Nat /\ c.left \subseteq src /\ c.signal # NoSignal /\ c.signal \in picked
  BY <1>1, <1>2, Zenon DEF Scans, Sound
<1>4. ASSUME Expected(t) PROVE Attended(h.run, c)
  BY <1>1, <1>2, <1>4, Zenon DEF Expected, Attended
<1>5. "dispatch" \in Streams /\ pc' # "idle" /\ pc' \in {"idle", "dispatch"}
  BY <1>1 DEF Streams
<1>6. CASE ScanCompleted(t)
  <2> DEFINE d == [c EXCEPT !.ended = TRUE]
             g == OnScanCompleted(h, c.size)
  <2>1. scan' = [scan EXCEPT ![t] = d] /\ Commit(t, g)
    <3>1. scan' = [scan EXCEPT ![t].ended = TRUE] BY <1>6, Zenon DEF ScanCompleted
    <3>2. scan' = [scan EXCEPT ![t] = d] BY <3>1
    <3> QED BY <1>6, <3>2, Zenon DEF ScanCompleted
  <2> HIDE DEF h, c, src
  <2>2. /\ d \in Scans /\ d.left = c.left /\ d.signal = c.signal /\ d.started = c.started
    BY <1>2, Zenon DEF Scans
  <2>3. Fit(g, src) /\ RunKept(h.run, g.run) BY <1>2, <1>3, CompletedFit, Zenon
  <2>4. g \in Helds BY <2>3, Zenon DEF Fit
  <2>5. ASSUME Expected(t), t \notin stray PROVE Clean(g, d, src, "dispatch", picked)
    BY <1>1, <1>2, <1>4, <1>5, <2>5, CompletedClean, Zenon
  <2> HIDE DEF d, g
  <2>6. Sound(g, d, src, "dispatch", picked)
    BY <1>1, <1>3, <1>5, <2>2, <2>3, FitSound, Zenon
  <2> QED BY <1>1, <1>2, <1>5, <2>1, <2>2, <2>3, <2>4, <2>5, <2>6, RecordKeeps, Zenon
          DEF src
<1>7. CASE ScanFailed(t)
  <2> DEFINE d == [c EXCEPT !.ended = TRUE, !.left = {}]
             g == OnScanFailed(h)
  <2>1. scan' = [scan EXCEPT ![t] = d] /\ Commit(t, g)
    BY <1>7, Zenon DEF ScanFailed
  <2> HIDE DEF h, c, src
  <2>2. /\ d \in Scans /\ d.left = {} /\ d.signal = c.signal /\ d.started = c.started
    BY <1>2, Zenon DEF Scans
  <2>3. Fit(g, src) /\ RunKept(h.run, g.run) BY <1>2, FailedFit, Zenon
  <2>4. g \in Helds BY <2>3, Zenon DEF Fit
  <2>5. ASSUME Expected(t), t \notin stray PROVE Clean(g, d, src, "dispatch", picked)
    BY <1>1, <1>2, <1>4, <1>5, <2>5, FailedClean, Zenon
  <2> HIDE DEF d, g
  <2>6. Sound(g, d, src, "dispatch", picked)
    <3>1. d.left \subseteq src BY <2>2, Zenon
    <3> QED BY <1>1, <1>3, <1>5, <2>2, <2>3, <3>1, FitSound, Zenon
  <2> QED BY <1>1, <1>2, <1>5, <2>1, <2>2, <2>3, <2>4, <2>5, <2>6, RecordKeeps, Zenon
          DEF src
<1> QED BY <1>6, <1>7

LEMMA ChangeKeeps ==
  ASSUME IInv, NEW t \in Tables, NEW k \in Keys, Change(t, k)
  PROVE  IInv'
<1>0. TypeOK /\ TableInv /\ SignalInv /\ OwnerInv BY Zenon DEF IInv
<1>1. /\ pc = "idle" /\ source' = [source EXCEPT ![t] = source[t] \cup {k}]
      /\ UNCHANGED <<run, claim, intent, queue, life, inserted, picked, scan, pc,
                     route, requests, stops, stray>>
  BY Zenon DEF Change
<1> DEFINE s == [exists |-> TRUE, rows |-> shadow[t].rows \cup {k}]
<1>2. IF route[t].open
      THEN shadow' = [shadow EXCEPT ![t] = s] /\ live' = live
      ELSE live' = [live EXCEPT ![t] = live[t] \cup {k}] /\ shadow' = shadow
  BY Zenon DEF Change
<1>3. /\ shadow \in [Tables -> Shadows] /\ live \in [Tables -> SUBSET Keys]
      /\ source \in [Tables -> SUBSET Keys] /\ shadow[t].rows \in SUBSET Keys
  BY <1>0, Zenon DEF TypeOK, Shadows
<1>4. s \in Shadows
  <2>1. shadow[t].rows \cup {k} \in SUBSET Keys BY <1>3, Zenon
  <2> QED BY <2>1, Zenon DEF Shadows
<1> HIDE DEF s
<1>5. /\ shadow' \in [Tables -> Shadows]
      /\ shadow'[t] = (IF route[t].open THEN s ELSE shadow[t])
      /\ \A u \in Tables \ {t} : shadow'[u] = shadow[u]
  BY <1>2, <1>3, <1>4, Zenon
<1>6. /\ live' \in [Tables -> SUBSET Keys]
      /\ live'[t] = (IF route[t].open THEN live[t] ELSE live[t] \cup {k})
      /\ \A u \in Tables \ {t} : live'[u] = live[u]
  <2>1. live[t] \cup {k} \in SUBSET Keys BY <1>3, Zenon
  <2> QED BY <1>2, <1>3, <2>1, Zenon
<1>7. /\ source' \in [Tables -> SUBSET Keys] /\ source'[t] = source[t] \cup {k}
      /\ \A u \in Tables \ {t} : source'[u] = source[u]
  <2>1. source[t] \cup {k} \in SUBSET Keys BY <1>3, Zenon
  <2> QED BY <1>1, <1>3, <2>1, Zenon
<1>8. TableInv'
  <2> SUFFICES ASSUME NEW u \in Tables
               PROVE  /\ Sound(Held(u)', scan'[u], source'[u], pc', picked')
                      /\ u \notin stray'
                            => Clean(Held(u)', scan'[u], source'[u], pc', picked')
    BY DEF TableInv
  <2>1. /\ Sound(Held(u), scan[u], source[u], "idle", picked)
        /\ u \notin stray => Clean(Held(u), scan[u], source[u], "idle", picked)
    BY <1>0, <1>1, Zenon DEF TableInv
  <2>2. CASE u = t
    <3> DEFINE h == Held(t)
               g == Held(t)'
    <3>1. g.run = h.run /\ g.claim = h.claim /\ g.life = h.life /\ g.route = h.route
      BY <1>1, HeldForm
    <3>2. IF h.route.open
          THEN /\ g.shadow = [exists |-> TRUE, rows |-> h.shadow.rows \cup {k}]
               /\ g.live = h.live
          ELSE g.live = h.live \cup {k} /\ g.shadow = h.shadow
      <4>1. CASE route[t].open BY <1>5, <1>6, <4>1, HeldForm, Zenon DEF s
      <4>2. CASE ~route[t].open BY <1>5, <1>6, <4>2, HeldForm, Zenon
      <4> QED BY <4>1, <4>2, HeldForm, Zenon
    <3> HIDE DEF g
    <3>3. /\ Sound(g, scan[t], source[t] \cup {k}, "idle", picked)
          /\ t \notin stray => Clean(g, scan[t], source[t] \cup {k}, "idle", picked)
      BY <2>1, <2>2, <3>1, <3>2, ChangeMove, Zenon
    <3> QED BY <1>1, <1>7, <2>2, <3>3, Zenon DEF g
  <2>3. CASE u # t
    <3>1. Held(u)' = Held(u) BY <1>1, <1>5, <1>6, <2>3, Zenon DEF Held
    <3>2. source'[u] = source[u] BY <1>7, <2>3, Zenon
    <3> QED BY <1>1, <2>1, <3>1, <3>2, Zenon
  <2> QED BY <2>2, <2>3, Zenon
<1>9. SignalInv' BY <1>0, <1>1, SignalsRest, Zenon
<1>10. OwnerInv'
  <2>1. UnusedSignals' = UnusedSignals BY <1>1, Zenon DEF UnusedSignals
  <2> QED BY <1>0, <1>1, <2>1, OwnerSame, Zenon
<1>11. TypeOK' BY <1>0, <1>1, <1>5, <1>6, <1>7, Zenon DEF TypeOK, Shadows
<1> QED BY <1>8, <1>9, <1>10, <1>11 DEF IInv

-----------------------------------------------------------------------------
(* Stop and start.                                                          *)

LEMMA StopKeeps ==
  ASSUME IInv, Stop
  PROVE  IInv'
<1>1. /\ stops < MaxStops /\ stops' = stops + 1 /\ Die
      /\ UNCHANGED <<run, durableTables, intent, queue, inserted, source, requests, stray>>
  BY Zenon DEF Stop
<1>2. /\ TableInv' /\ SignalInv' /\ OwnerInv' /\ picked' \subseteq inserted'
      /\ route' \in [Tables -> Route] /\ scan' \in [Tables -> Scans] /\ pc' = "down"
  BY <1>1, DieKeeps, Zenon
<1>3. stops' \in 0 .. MaxStops
  <2>1. stops \in 0 .. MaxStops BY Zenon DEF IInv, TypeOK
  <2> QED BY <1>1, <2>1, BackfillAssumption
<1>4. TypeOK' BY <1>1, <1>2, <1>3, Zenon DEF IInv, TypeOK, durableTables, Scans
<1> QED BY <1>2, <1>4 DEF IInv

\* A step of startup: one table at a time is sound, and clean unless stray.
LEMMA StartupKeeps ==
  ASSUME IInv, pc' \in {"owed", "full"},
         run' \in [Tables -> Runs], claim' \in [Tables -> 0 .. MaxRuns],
         life' \in [Tables -> Lives], live' \in [Tables -> SUBSET Keys],
         shadow' \in [Tables -> Shadows],
         UNCHANGED <<intent, queue, connector, route, requests, stops, stray>>,
         \A t \in Tables : Listens(run'[t]) =>
                              Listens(run[t]) /\ run'[t].signal = run[t].signal,
         \A t \in Tables : /\ Sound(Held(t)', scan[t], source[t], pc', picked)
                           /\ t \notin stray
                                 => Clean(Held(t)', scan[t], source[t], pc', picked)
  PROVE  IInv'
<1>1. /\ intent' = intent /\ queue' = queue /\ inserted' = inserted /\ picked' = picked
      /\ scan' = scan /\ source' = source /\ route' = route /\ requests' = requests
      /\ stops' = stops /\ stray' = stray
  BY Zenon DEF connector
<1>2. TableInv' BY <1>1, Zenon DEF TableInv
<1>3. SignalInv' BY <1>1, SignalsRest, Zenon DEF IInv
<1>4. OwnerInv'
  <2>1. pc' \notin {"idle", "publish"} OBVIOUS
  <2> QED BY <2>1, OwnerRests, Zenon
<1>5. TypeOK'
  <2>1. pc' \in {"idle", "publish", "dispatch", "down", "owed", "full"} BY Zenon
  <2> QED BY <1>1, <2>1, Zenon DEF IInv, TypeOK, Runs, Lives, Shadows
<1> QED BY <1>2, <1>3, <1>4, <1>5, Zenon DEF IInv

\* What startup finds of a table.
LEMMA TableFacts ==
  ASSUME IInv, NEW t \in Tables
  PROVE  /\ Sound(Held(t), scan[t], source[t], pc, picked)
         /\ t \notin stray => Clean(Held(t), scan[t], source[t], pc, picked)
         /\ claim[t] = Claim(run[t])
         /\ run[t].state = "blocked" => run[t].mode = "full"
         /\ shadow[t].rows \subseteq source[t]
<1>1. /\ Sound(Held(t), scan[t], source[t], pc, picked)
      /\ t \notin stray => Clean(Held(t), scan[t], source[t], pc, picked)
  BY Zenon DEF IInv, TableInv
<1>2. /\ Held(t).run = run[t] /\ Held(t).claim = claim[t] /\ Held(t).shadow = shadow[t]
  BY HeldForm
<1> QED BY <1>1, <1>2, Zenon DEF Sound

LEMMA StartKeeps ==
  ASSUME IInv, Start
  PROVE  IInv'
<1>0. TypeOK BY Zenon DEF IInv
<1>1. /\ pc = "down" /\ pc' = "owed"
      /\ life' = [t \in Tables |-> IF life[t] = "in_progress" THEN "awaiting" ELSE life[t]]
      /\ UNCHANGED <<run, claim, live, shadow, intent, queue, connector, route,
                     requests, stops, stray>>
  BY Zenon DEF Start
<1>2. life' \in [Tables -> Lives] BY <1>0, <1>1, Zenon DEF TypeOK, Lives
<1>3. ASSUME NEW t \in Tables
      PROVE  /\ Sound(Held(t)', scan[t], source[t], pc', picked)
             /\ t \notin stray => Clean(Held(t)', scan[t], source[t], pc', picked)
  <2> DEFINE h == Held(t)
             g == Held(t)'
  <2>1. /\ Sound(h, scan[t], source[t], pc, picked)
        /\ t \notin stray => Clean(h, scan[t], source[t], pc, picked)
        /\ claim[t] = Claim(run[t])
        /\ run[t].state = "blocked" => run[t].mode = "full"
        /\ shadow[t].rows \subseteq source[t]
    BY TableFacts, Zenon
  <2>2. /\ g.run = run[t] /\ g.claim = claim[t] /\ g.live = h.live /\ g.shadow = h.shadow
        /\ g.shadow = shadow[t] /\ g.route = h.route /\ h.run = run[t]
        /\ g.life = "complete" <=> h.life = "complete"
    <3>1. life'[t] = "complete" <=> life[t] = "complete" BY <1>1
    <3>2. /\ h.run = run[t] /\ h.claim = claim[t] /\ h.life = life[t]
          /\ h.live = live[t] /\ h.shadow = shadow[t] /\ h.route = route[t]
      BY HeldForm
    <3>3. /\ g.run = run'[t] /\ g.claim = claim'[t] /\ g.life = life'[t]
          /\ g.live = live'[t] /\ g.shadow = shadow'[t] /\ g.route = route'[t]
      BY HeldForm
    <3> HIDE DEF h, g
    <3> QED BY <1>1, <3>1, <3>2, <3>3, Zenon
  <2>3. pc \in {"down", "owed", "full"} /\ pc' \in {"owed", "full"} /\ pc' # "full" BY <1>1
  <2> HIDE DEF h, g
  <2>4. t \notin stray => Settled(g, source[t], pc')
    BY <2>1, <2>2, <2>3, Zenon DEF Clean, Settled
  <2>5. Restarts(h, g, source[t]) BY <2>1, <2>2, Zenon DEF Restarts
  <2>6. /\ Sound(g, scan[t], source[t], pc', picked)
        /\ t \notin stray => Clean(g, scan[t], source[t], pc', picked)
    BY <2>1, <2>3, <2>4, <2>5, StartupMove, Zenon
  <2> QED BY <2>6, Zenon DEF g
<1>4. /\ run \in [Tables -> Runs] /\ claim \in [Tables -> 0 .. MaxRuns]
      /\ live \in [Tables -> SUBSET Keys] /\ shadow \in [Tables -> Shadows]
  BY <1>0, Zenon DEF TypeOK, Runs, Shadows
<1>5. pc' \in {"owed", "full"} BY <1>1
<1> QED BY <1>1, <1>2, <1>3, <1>4, <1>5, StartupKeeps, Zenon

\* A step of startup on one table.
LEMMA TableKeeps ==
  ASSUME IInv, NEW t \in Tables, NEW h \in Helds, pc \in {"owed", "full"}, pc' = pc,
         Commit(t, h), h.route = route[t],
         UNCHANGED <<intent, queue, connector, requests, stops, stray>>,
         Listens(h.run) => Listens(run[t]) /\ h.run.signal = run[t].signal,
         Restarts(Held(t), h, source[t]), t \notin stray => Settled(h, source[t], pc)
  PROVE  IInv'
<1>0. TypeOK BY Zenon DEF IInv
<1>1. /\ Held(t)' = h /\ \A u \in Tables \ {t} : Held(u)' = Held(u)
      /\ run'[t] = h.run /\ \A u \in Tables \ {t} : run'[u] = run[u]
      /\ run' \in [Tables -> Runs] /\ claim' \in [Tables -> 0 .. MaxRuns]
      /\ life' \in [Tables -> Lives] /\ live' \in [Tables -> SUBSET Keys]
      /\ shadow' \in [Tables -> Shadows]
  BY <1>0, CommitFacts, Zenon
<1>2. route' = route
  <2>1. route' = [route EXCEPT ![t] = route[t]] BY Zenon DEF Commit
  <2> QED BY <1>0, <2>1, SameWritten, Zenon
<1>3. \A u \in Tables : Listens(run'[u]) => Listens(run[u]) /\ run'[u].signal = run[u].signal
  BY <1>1, Zenon
<1>4. ASSUME NEW u \in Tables
      PROVE  /\ Sound(Held(u)', scan[u], source[u], pc', picked)
             /\ u \notin stray => Clean(Held(u)', scan[u], source[u], pc', picked)
  <2>1. /\ Sound(Held(u), scan[u], source[u], pc, picked)
        /\ u \notin stray => Clean(Held(u), scan[u], source[u], pc, picked)
    BY TableFacts, Zenon
  <2>2. CASE u # t BY <1>1, <2>1, <2>2, Zenon
  <2>3. CASE u = t
    <3>1. pc \in {"down", "owed", "full"} BY Zenon
    <3>3. Sound(Held(t), scan[t], source[t], pc, picked) BY <2>1, <2>3, Zenon
    <3>4. /\ Sound(h, scan[t], source[t], pc, picked)
          /\ t \notin stray => Clean(h, scan[t], source[t], pc, picked)
      BY <3>1, <3>3, StartupMove, Zenon
    <3> QED BY <1>1, <2>3, <3>4, Zenon
  <2> QED BY <2>2, <2>3, Zenon
<1>5. UNCHANGED <<intent, queue, connector, route, requests, stops, stray>> BY <1>2, Zenon
<1>6. pc' \in {"owed", "full"} BY Zenon
<1> QED BY <1>1, <1>3, <1>4, <1>5, <1>6, StartupKeeps, Zenon

\* A blocking resnapshot opens its shadow.
LEMMA OpenKeeps ==
  ASSUME IInv, NEW t \in Tables, pc \in {"owed", "full"}, OpenBlocking(t),
         pc = "full" => run[t].mode = "full" /\ run[t].state \in {"requested", "loading"}
  PROVE  IInv'
<1>0. TypeOK BY Zenon DEF IInv
<1> DEFINE s == [exists |-> TRUE, rows |-> {}]
           h == [run |-> run[t], claim |-> claim[t], life |-> "in_progress",
                 live |-> live[t], shadow |-> s, route |-> route[t]]
<1>1. /\ life' = [life EXCEPT ![t] = "in_progress"] /\ shadow' = [shadow EXCEPT ![t] = s]
      /\ UNCHANGED <<run, claim, live, intent, queue, connector, pc, route, requests,
                     stops, stray>>
  BY Zenon DEF OpenBlocking
<1>2. s \in Shadows /\ s.exists /\ s.rows = {} BY Zenon DEF Shadows
<1> HIDE DEF s
<1>3. /\ h \in Helds /\ h.run = run[t] /\ h.claim = claim[t] /\ h.life = "in_progress"
      /\ h.live = live[t] /\ h.shadow = s /\ h.route = route[t]
  <2>1. /\ run[t] \in Runs /\ claim[t] \in 0 .. MaxRuns /\ live[t] \in SUBSET Keys
        /\ route[t] \in Route
    BY <1>0, Zenon DEF TypeOK, Runs
  <2> QED BY <1>2, <2>1, Zenon DEF Helds, Lives
<1> HIDE DEF h
<1>4. Commit(t, h) BY <1>0, <1>1, <1>3, SameWritten, Zenon DEF Commit
<1>5. /\ claim[t] = Claim(run[t])
      /\ run[t].state = "blocked" => run[t].mode = "full"
  BY TableFacts, Zenon
<1>6. h.life # "complete" BY <1>3
<1>7. UNCHANGED <<intent, queue, connector, requests, stops, stray>> /\ pc' = pc
  BY <1>1, Zenon
<1>8. Restarts(Held(t), h, source[t]) /\ Settled(h, source[t], pc)
  <2>1. Held(t).route = route[t] BY HeldForm
  <2> QED BY <1>2, <1>3, <1>5, <1>6, <2>1, Zenon DEF Restarts, Settled
<1> QED BY <1>3, <1>4, <1>7, <1>8, TableKeeps, Zenon

\* A blocking resnapshot swaps in its image, with the run q and the claim n.
LEMMA SwapKeeps ==
  ASSUME IInv, NEW t \in Tables, pc \in {"owed", "full"}, SwapBlocking(t),
         NEW q \in Runs, NEW n \in 0 .. MaxRuns, run' = [run EXCEPT ![t] = q],
         claim' = [claim EXCEPT ![t] = n], ~Loads(q),
         n = Claim(q),
         q.state = "blocked" => q.mode = "full",
         Listens(q) => Listens(run[t]) /\ q.signal = run[t].signal
  PROVE  IInv'
<1>0. TypeOK BY Zenon DEF IInv
<1> DEFINE h == [run |-> q, claim |-> n, life |-> "complete", live |-> source[t],
                 shadow |-> NoTable, route |-> route[t]]
<1>1. /\ live' = [live EXCEPT ![t] = source[t]] /\ shadow' = [shadow EXCEPT ![t] = NoTable]
      /\ life' = [life EXCEPT ![t] = "complete"]
      /\ UNCHANGED <<intent, queue, connector, pc, route, requests, stops, stray>>
  BY Zenon DEF SwapBlocking
<1>2. NoTable \in Shadows /\ NoTable.rows = {} BY Zenon DEF NoTable, Shadows
<1>3. /\ h \in Helds /\ h.run = q /\ h.claim = n /\ h.life = "complete"
      /\ h.live = source[t] /\ h.shadow = NoTable /\ h.route = route[t]
  <2>1. source[t] \in SUBSET Keys /\ route[t] \in Route BY <1>0, Zenon DEF TypeOK
  <2> QED BY <1>2, <2>1, Zenon DEF Helds, Lives
<1> HIDE DEF h
<1>4. Commit(t, h) BY <1>0, <1>1, <1>3, SameWritten, Zenon DEF Commit
<1>5. Restarts(Held(t), h, source[t]) /\ Settled(h, source[t], pc)
  <2>1. Held(t).route = route[t] BY HeldForm
  <2> QED BY <1>2, <1>3, <2>1, Zenon DEF Restarts, Settled
<1>6. UNCHANGED <<intent, queue, connector, requests, stops, stray>> /\ pc' = pc
  BY <1>1, Zenon
<1> QED BY <1>3, <1>4, <1>5, <1>6, TableKeeps, Zenon

LEMMA BlockingKeeps ==
  ASSUME IInv, NEW t \in Tables,
         OpenOwed(t) \/ SwapOwed(t) \/ OpenFull(t) \/ SwapFull(t)
  PROVE  IInv'
<1>0. TypeOK BY Zenon DEF IInv
<1>1. CASE OpenOwed(t)
  <2>1. pc = "owed" /\ OpenBlocking(t) BY <1>1, Zenon DEF OpenOwed
  <2>2. pc \in {"owed", "full"} /\ pc # "full" BY <2>1
  <2> QED BY <2>1, <2>2, OpenKeeps, Zenon
<1>2. CASE OpenFull(t)
  <2>1. pc = "full" /\ t \in ScheduledFull /\ OpenBlocking(t) BY <1>2, Zenon DEF OpenFull
  <2>2. run[t].mode = "full" /\ run[t].state \in {"requested", "loading"}
    BY <2>1, Zenon DEF ScheduledFull, FullTables
  <2>3. pc \in {"owed", "full"} BY <2>1
  <2> QED BY <2>1, <2>2, <2>3, OpenKeeps, Zenon
<1>3. CASE SwapOwed(t)
  <2>1. /\ pc = "owed" /\ t \in Owed /\ SwapBlocking(t) /\ run' = run /\ claim' = claim
    BY <1>3, Zenon DEF SwapOwed
  <2>2. ~Loads(run[t])
    <3>1. t \notin Preserved BY <2>1, Zenon DEF Owed
    <3>2. Loads(run[t]) => ActiveRun(run[t]) BY DEF Loads, ActiveRun
    <3> QED BY <3>1, <3>2, Zenon DEF Preserved, ActiveTables, Loads
  <2>3. /\ run' = [run EXCEPT ![t] = run[t]] /\ claim' = [claim EXCEPT ![t] = claim[t]]
    BY <1>0, <2>1, SameWritten, Zenon
  <2>4. run[t] \in Runs /\ claim[t] \in 0 .. MaxRuns BY <1>0, Zenon DEF TypeOK, Runs
  <2>5. /\ claim[t] = Claim(run[t])
        /\ run[t].state = "blocked" => run[t].mode = "full"
    BY TableFacts, Zenon
  <2>6. pc \in {"owed", "full"} BY <2>1
  <2> QED BY <2>1, <2>2, <2>3, <2>4, <2>5, <2>6, SwapKeeps, Zenon
<1>4. CASE SwapFull(t)
  <2> DEFINE q == [run[t] EXCEPT !.state = "complete"]
  <2>1. /\ pc = "full" /\ SwapBlocking(t)
        /\ run' = [run EXCEPT ![t].state = "complete"] /\ claim' = [claim EXCEPT ![t] = 0]
    BY <1>4, Zenon DEF SwapFull
  <2>2. run[t] \in Runs BY <1>0, Zenon DEF TypeOK, Runs
  <2>3. q \in Runs /\ q.state = "complete" BY <2>2, Zenon DEF Runs, RunStates
  <2>4. run' = [run EXCEPT ![t] = q] BY <2>1
  <2> HIDE DEF q
  <2>5. /\ ~Loads(q) /\ ~Listens(q) /\ q.state # "blocked"
        /\ 0 = Claim(q)
    BY <2>3 DEF Claim, Loads, Listens, ActiveRun
  <2>6. 0 \in 0 .. MaxRuns /\ pc \in {"owed", "full"} BY <2>1, BackfillAssumption
  <2> QED BY <2>1, <2>3, <2>4, <2>5, <2>6, SwapKeeps, Zenon
<1> QED BY <1>1, <1>2, <1>3, <1>4

LEMMA PrepareKeeps ==
  ASSUME IInv, PrepareFull
  PROVE  IInv'
<1>0. TypeOK BY Zenon DEF IInv
<1>1. /\ pc = "owed" /\ Owed = {} /\ pc' = "full"
      /\ run' = [t \in Tables |-> IF t \in ScheduledFull
                                  THEN [run[t] EXCEPT !.state = "loading"] ELSE run[t]]
      /\ claim' = [t \in Tables |-> IF t \in ScheduledFull THEN run[t].gen ELSE claim[t]]
      /\ UNCHANGED <<life, live, shadow, intent, queue, connector, route, requests,
                     stops, stray>>
  BY Zenon DEF PrepareFull
<1>2. ASSUME NEW t \in Tables
      PROVE  /\ run'[t] \in Runs /\ claim'[t] \in 0 .. MaxRuns
             /\ Listens(run'[t]) => run'[t] = run[t]
             /\ Loads(run'[t]) => run'[t] = run[t]
             /\ Loads(run[t]) => run'[t] = run[t]
             /\ claim'[t] = Claim(run'[t])
             /\ run'[t].state = "blocked" => run'[t].mode = "full"
  <2>1. run[t] \in Runs /\ claim[t] \in 0 .. MaxRuns BY <1>0, Zenon DEF TypeOK, Runs
  <2>2. CASE t \notin ScheduledFull
    <3>1. run'[t] = run[t] /\ claim'[t] = claim[t] BY <1>1, <2>2, Zenon
    <3> QED BY <2>1, <3>1, TableFacts, Zenon
  <2>3. CASE t \in ScheduledFull
    <3> DEFINE q == [run[t] EXCEPT !.state = "loading"]
    <3>1. run'[t] = q /\ claim'[t] = run[t].gen BY <1>1, <2>3, Zenon
    <3>2. run[t].mode = "full" BY <2>3, Zenon DEF ScheduledFull, FullTables
    <3>3. q \in Runs /\ q.state = "loading" /\ q.mode = "full" /\ q.gen = run[t].gen
      BY <2>1, <3>2, Zenon DEF Runs, RunStates
    <3> HIDE DEF q
    <3>4. ~Loads(q) /\ ~Listens(q) /\ q.state # "blocked" /\ ~Loads(run[t])
      BY <3>2, <3>3 DEF Loads, Listens
    <3>5. run[t].gen \in 0 .. MaxRuns BY <2>1, Zenon DEF Runs
    <3>6. run[t].gen = Claim(q) BY <3>3, Zenon DEF Claim
    <3> QED BY <3>1, <3>3, <3>4, <3>5, <3>6, Zenon
  <2> QED BY <2>2, <2>3, Zenon
<1>3. run' \in [Tables -> Runs] /\ claim' \in [Tables -> 0 .. MaxRuns]
  <2>1. run' = [t \in Tables |-> run'[t]] /\ claim' = [t \in Tables |-> claim'[t]]
    BY <1>1, Zenon
  <2> QED BY <1>2, <2>1, Zenon
<1>4. ASSUME NEW t \in Tables
      PROVE  /\ Sound(Held(t)', scan[t], source[t], pc', picked)
             /\ t \notin stray => Clean(Held(t)', scan[t], source[t], pc', picked)
  <2> DEFINE h == Held(t)
             g == Held(t)'
  <2>1. /\ Sound(h, scan[t], source[t], pc, picked)
        /\ t \notin stray => Clean(h, scan[t], source[t], pc, picked)
        /\ run[t].state = "blocked" => run[t].mode = "full"
        /\ shadow[t].rows \subseteq source[t]
    BY TableFacts, Zenon
  <2>2. /\ g.run = run'[t] /\ g.claim = claim'[t] /\ g.live = h.live /\ g.shadow = h.shadow
        /\ g.shadow = shadow[t] /\ g.route = h.route /\ h.run = run[t] /\ g.life = h.life
        /\ h.life = life[t]
    <3>1. /\ h.run = run[t] /\ h.claim = claim[t] /\ h.life = life[t]
          /\ h.live = live[t] /\ h.shadow = shadow[t] /\ h.route = route[t]
      BY HeldForm
    <3>2. /\ g.run = run'[t] /\ g.claim = claim'[t] /\ g.life = life'[t]
          /\ g.live = live'[t] /\ g.shadow = shadow'[t] /\ g.route = route'[t]
      BY HeldForm
    <3> HIDE DEF h, g
    <3> QED BY <1>1, <3>1, <3>2, Zenon
  <2>3. pc \in {"down", "owed", "full"} /\ pc' \in {"owed", "full"} BY <1>1
  <2>4. life[t] # "complete" => Loads(run[t])
    <3>1. life[t] # "complete" => t \in Preserved BY <1>1, Zenon DEF Owed
    <3>2. t \in Preserved => Loads(run[t])
      BY <2>1 DEF Preserved, Loads
    <3> QED BY <3>1, <3>2
  <2> HIDE DEF h, g
  <2>5. g.life # "complete" => Loads(g.run) BY <1>2, <2>2, <2>4, Zenon
  <2>6. t \notin stray => Settled(g, source[t], pc')
    BY <1>2, <2>1, <2>2, <2>5, Zenon DEF Clean, Settled
  <2>7. Restarts(h, g, source[t]) BY <1>2, <2>1, <2>2, Zenon DEF Restarts
  <2>8. /\ Sound(g, scan[t], source[t], pc', picked)
        /\ t \notin stray => Clean(g, scan[t], source[t], pc', picked)
    BY <2>1, <2>3, <2>6, <2>7, StartupMove, Zenon
  <2> QED BY <2>8, Zenon DEF g
<1>5. /\ life' \in [Tables -> Lives] /\ live' \in [Tables -> SUBSET Keys]
      /\ shadow' \in [Tables -> Shadows]
  BY <1>0, <1>1, Zenon DEF TypeOK, Lives, Shadows
<1>6. pc' \in {"owed", "full"} BY <1>1
<1>7. \A t \in Tables : Listens(run'[t]) => Listens(run[t]) /\ run'[t].signal = run[t].signal
  BY <1>2, Zenon
<1>8. UNCHANGED <<intent, queue, connector, route, requests, stops, stray>> BY <1>1, Zenon
<1> QED BY <1>3, <1>4, <1>5, <1>6, <1>7, <1>8, StartupKeeps, Zenon

LEMMA AttachKeeps ==
  ASSUME Counting, IInv, Attach
  PROVE  IInv'
<1>0. TypeOK /\ SignalInv /\ PublishedHasSource BY Zenon DEF IInv, SignalInv
<1> DEFINE opens == [NoRoute EXCEPT !.open = TRUE, !.incremental = TRUE]
           Intents == [state : {"none", "pending", "published"},
                       tables : SUBSET Tables, kind : {"admission", "queued_dispatch"}]
<1>1. /\ pc = "full" /\ ScheduledFull = {} /\ pc' = "dispatch"
      /\ route' = [t \in Tables |-> IF t \in Preserved THEN opens ELSE NoRoute]
      /\ UNCHANGED <<durableTables, queue, connector, requests, stops, stray>>
  BY Zenon DEF Attach, Reattached
<1>2. /\ opens \in Route /\ opens.open /\ opens.incremental /\ opens.seen = 0
      /\ opens.terminal = FALSE
  <2>1. 0 \in Nat OBVIOUS
  <2> QED BY <2>1, Zenon DEF NoRoute, Route
<1> HIDE DEF opens, Intents
<1>3. route' \in [Tables -> Route] BY <1>1, <1>2, NoRouteType, Zenon
<1>4. run \in [Tables -> Runs] /\ intent \in [Signals -> Intents]
  BY <1>0, Zenon DEF TypeOK, Runs, Intents
<1>5. /\ run' \in [Tables -> Runs] /\ intent' \in [Signals -> Intents] /\ SignalInv'
      /\ \A t \in Tables : /\ run'[t].gen = run[t].gen /\ run'[t].state = run[t].state
                           /\ run'[t].mode = run[t].mode
  <2>1. CASE Interrupted = {}
    <3>1. run' = run /\ intent' = intent BY <2>1, Zenon DEF Attach
    <3>2. SignalInv' BY <1>0, <1>1, <3>1, SignalsRest, Zenon DEF connector
    <3> QED BY <1>4, <3>1, <3>2, Zenon
  <2>2. CASE Interrupted # {}
    <3> DEFINE n == NextSignal
    <3>1. PICK s \in Interrupted :
             /\ run' = [t \in Tables |-> IF t \in Members(s)
                                         THEN [run[t] EXCEPT !.signal = n] ELSE run[t]]
             /\ intent' = Recorded(n, Members(s), "admission")
      BY <2>2, Zenon DEF Attach
    <3>2. UnusedSignals # {} BY <2>2, Zenon DEF Attach
    <3>3. /\ n \in Signals /\ n # NoSignal /\ intent[n].state = "none" /\ n \notin inserted
      BY <1>0, <3>2, FreshSignal, NotPicked, Zenon
    <3> HIDE DEF n
    <3>4. ASSUME NEW t \in Tables
          PROVE  /\ run'[t] \in Runs /\ run'[t].gen = run[t].gen
                 /\ run'[t].state = run[t].state /\ run'[t].mode = run[t].mode
                 /\ t \in Members(s) => run'[t].signal = n
                 /\ t \notin Members(s) => run'[t] = run[t]
      <4>1. run[t] \in Runs BY <1>4, Zenon
      <4>2. CASE t \in Members(s)
        <5> DEFINE q == [run[t] EXCEPT !.signal = n]
        <5>1. run'[t] = q BY <3>1, <4>2, Zenon
        <5>2. /\ q \in Runs /\ q.gen = run[t].gen /\ q.state = run[t].state
              /\ q.mode = run[t].mode /\ q.signal = n
          BY <3>3, <4>1, Zenon DEF Runs
        <5> QED BY <4>2, <5>1, <5>2, Zenon
      <4>3. CASE t \notin Members(s)
        <5>1. run'[t] = run[t] BY <3>1, <4>3, Zenon
        <5> QED BY <4>1, <4>3, <5>1, Zenon
      <4> QED BY <4>2, <4>3
    <3>5. run' \in [Tables -> Runs]
      <4>1. run' = [t \in Tables |-> run'[t]] BY <3>1, Zenon
      <4> QED BY <3>4, <4>1, Zenon
    <3>6. /\ intent' \in [Signals -> Intents] /\ intent'[n].state = "pending"
          /\ \A o \in Signals \ {n} : intent'[o] = intent[o]
      <4> DEFINE i == [state |-> "pending", tables |-> Members(s), kind |-> "admission"]
      <4>1. Members(s) \in SUBSET Tables BY Zenon DEF Members, ActiveTables
      <4>2. i \in Intents /\ i.state = "pending" BY <4>1, Zenon DEF Intents
      <4>3. intent' = [intent EXCEPT ![n] = i] BY <3>1, Zenon DEF Recorded
      <4> HIDE DEF i
      <4> QED BY <1>4, <3>3, <4>2, <4>3, Zenon
    <3>7. PublishedHasSource'
      <4> SUFFICES ASSUME NEW o \in Signals
                   PROVE  /\ intent'[o].state = "published" => o \in inserted'
                          /\ o \in inserted' => intent'[o].state # "none"
        BY DEF PublishedHasSource
      <4>1. inserted' = inserted BY <1>1, Zenon DEF connector
      <4>2. CASE o = n BY <3>3, <3>6, <4>1, <4>2
      <4>3. CASE o # n BY <1>0, <3>6, <4>1, <4>3, Zenon DEF PublishedHasSource
      <4> QED BY <4>2, <4>3
    <3>8. PICK w \in ActiveTables : /\ run[w].signal = s /\ run[w].mode = "incremental"
                                    /\ run[w].state = "loading"
      BY Zenon DEF Interrupted
    <3>9. w \in Tables /\ Listens(run[w])
      <4>1. s \in Signals BY Zenon DEF Interrupted
      <4>2. s # NoSignal BY <4>1 DEF Signals, NoSignal
      <4>3. w \in Tables /\ ActiveRun(run[w]) BY Zenon DEF ActiveTables
      <4>4. run[w].state # "blocked" BY <3>8
      <4> QED BY <3>8, <4>2, <4>3, <4>4, Zenon DEF Listens
    <3>10. ASSUME NEW t \in Tables, Listens(run'[t]) PROVE run'[t].signal = n
      <4>1. CASE t \in Members(s) BY <3>4, <4>1, Zenon
      <4>2. CASE t \notin Members(s)
        <5>1. Listens(run[t]) BY <3>4, <3>10, <4>2, Zenon
        <5>2. run[t].signal = s BY <1>0, <3>8, <3>9, <5>1, Zenon DEF SignalInv
        <5> QED BY <4>2, <5>1, <5>2, Zenon DEF Members, ActiveTables, Listens
      <4> QED BY <4>1, <4>2
    <3>11. \A t, u \in Tables : Listens(run'[t]) /\ Listens(run'[u])
                                 => run'[t].signal = run'[u].signal
      BY <3>10, Zenon
    <3>12. SignalInv' BY <3>7, <3>11 DEF SignalInv
    <3> QED BY <3>4, <3>5, <3>6, <3>12, Zenon
  <2> QED BY <2>1, <2>2
<1>6. TableInv'
  <2> SUFFICES ASSUME NEW t \in Tables
               PROVE  /\ Sound(Held(t)', scan'[t], source'[t], pc', picked')
                      /\ t \notin stray'
                            => Clean(Held(t)', scan'[t], source'[t], pc', picked')
    BY DEF TableInv
  <2> DEFINE h == Held(t)
             g == Held(t)'
             c == scan[t]
  <2>1. /\ Sound(h, c, source[t], pc, picked)
        /\ t \notin stray => Clean(h, c, source[t], pc, picked)
        /\ claim[t] = Claim(run[t])
        /\ run[t].state = "blocked" => run[t].mode = "full"
        /\ shadow[t].rows \subseteq source[t]
    BY TableFacts, Zenon
  <2>2. /\ g.run.gen = h.run.gen /\ g.run.state = h.run.state /\ g.run.mode = h.run.mode
        /\ g.claim = h.claim /\ g.life = h.life /\ g.live = h.live /\ g.shadow = h.shadow
        /\ g.route = (IF t \in Preserved THEN opens ELSE NoRoute) /\ h.run = run[t]
    <3>1. /\ h.run = run[t] /\ h.claim = claim[t] /\ h.life = life[t]
          /\ h.live = live[t] /\ h.shadow = shadow[t] /\ h.route = route[t]
      BY HeldForm
    <3>2. /\ g.run = run'[t] /\ g.claim = claim'[t] /\ g.life = life'[t]
          /\ g.live = live'[t] /\ g.shadow = shadow'[t] /\ g.route = route'[t]
      BY HeldForm
    <3> HIDE DEF h, g
    <3> QED BY <1>1, <1>5, <3>1, <3>2, Zenon DEF durableTables
  <2>3. scan' = scan /\ source' = source /\ picked' = picked /\ stray' = stray
    BY <1>1, Zenon DEF connector
  <2>4. /\ pc \in {"down", "owed", "full"} /\ pc' \in Streams /\ pc' # "full"
    BY <1>1 DEF Streams
  <2>5. t \in Preserved <=> Loads(run[t])
    <3>1. ASSUME Loads(run[t]) PROVE t \in Preserved
      <4>1. ActiveRun(run[t]) /\ run[t].mode = "incremental"
            /\ run[t].state \in {"loading", "ready_to_swap", "blocked"}
        BY <3>1 DEF Loads, ActiveRun
      <4> QED BY <4>1, Zenon DEF Preserved, ActiveTables
    <3>2. ASSUME t \in Preserved PROVE Loads(run[t])
      <4>1. /\ run[t].mode = "incremental"
            /\ run[t].state \in {"loading", "ready_to_swap", "blocked"}
        BY <3>2, Zenon DEF Preserved
      <4> QED BY <2>1, <4>1 DEF Loads
    <3> QED BY <3>1, <3>2
  <2>6. Loads(g.run) <=> t \in Preserved BY <2>2, <2>5, Zenon DEF Loads
  <2>7. ~(h.run.mode = "full" /\ h.run.state \in {"requested", "loading"})
    <3>1. ASSUME h.run.mode = "full", h.run.state \in {"requested", "loading"}
          PROVE  FALSE
      <4>1. ActiveRun(run[t]) BY <2>2, <3>1 DEF ActiveRun
      <4> QED BY <1>1, <2>2, <3>1, <4>1, Zenon DEF ScheduledFull, FullTables, ActiveTables
    <3> QED BY <3>1
  <2> HIDE DEF h, g, c
  <2>8. ~c.started /\ ~c.ended /\ c.left = {} /\ c.signal = NoSignal
    BY <2>1, <2>4, StartupFacts
  <2>9. Sound(g, c, source[t], pc', picked)
    <3>1. Claim(g.run) = Claim(h.run) BY <2>2, Zenon DEF Claim
    <3> QED BY <2>1, <2>2, <2>4, <2>8, <3>1, Zenon DEF Sound
  <2>10. ~Attended(g.run, c) BY <2>8, Zenon DEF Attended
  <2>11. g.route.open <=> Loads(g.run)
    <3>1. ~NoRoute.open BY DEF NoRoute
    <3> QED BY <1>2, <2>2, <2>6, <3>1, Zenon
  <2>12. Loads(g.run) => g.route.incremental /\ Waits(g, c)
    <3>1. Loads(g.run) => g.route = opens BY <2>2, <2>6, Zenon
    <3> QED BY <1>2, <2>10, <3>1, Zenon DEF Waits
  <2>13. ASSUME t \notin stray PROVE Clean(g, c, source[t], pc', picked)
    <3>1. g.life = "complete" => g.live = source[t] /\ ~Loads(h.run)
      BY <2>1, <2>2, <2>13, Zenon DEF Clean
    <3>2. Loads(h.run) => g.shadow.exists BY <2>1, <2>2, <2>13, Zenon DEF Clean
    <3>3. g.life # "complete" => Loads(h.run) BY <1>1, <2>1, <2>2, <2>7, <2>13, Zenon DEF Clean
    <3>4. Loads(g.run) <=> Loads(h.run) BY <2>2, <2>5, <2>6, Zenon
    <3> QED BY <2>4, <2>10, <2>11, <2>12, <3>1, <3>2, <3>3, <3>4, Zenon DEF Clean
  <2> QED BY <2>3, <2>9, <2>13, Zenon DEF g, c
<1>7. OwnerInv'
  <2>1. pc' \notin {"idle", "publish"} BY <1>1
  <2> QED BY <2>1, OwnerRests, Zenon
<1>8. TypeOK'
  BY <1>0, <1>1, <1>3, <1>5, Zenon DEF TypeOK, durableTables, connector, Runs, Intents
<1> QED BY <1>5, <1>6, <1>7, <1>8 DEF IInv

-----------------------------------------------------------------------------
(* The theorems.                                                            *)

LEMMA InitHolds == Init => IInv
<1> SUFFICES ASSUME Init PROVE IInv OBVIOUS
<1>1. /\ run = [t \in Tables |-> NoRun] /\ claim = [t \in Tables |-> 0]
      /\ intent = [s \in Signals |-> NoIntent] /\ queue = {}
      /\ life = [t \in Tables |-> "complete"] /\ live = Initial
      /\ shadow = [t \in Tables |-> NoTable] /\ inserted = {} /\ picked = {}
      /\ scan = [t \in Tables |-> NoScan] /\ source = Initial /\ pc = "idle"
      /\ route = [t \in Tables |-> NoRoute] /\ requests = 0 /\ stops = 0 /\ stray = {}
  BY Zenon DEF Init
<1>2. /\ NoRun \in Runs /\ ~ActiveRun(NoRun) /\ ~Loads(NoRun)
      /\ NoRun.state \notin {"loading", "ready_to_swap", "blocked"}
  <2>1. 0 \in 0 .. MaxRuns BY BackfillAssumption
  <2>2. NoRun \in Runs /\ NoRun.state = "none"
    BY <2>1, Zenon DEF NoRun, Runs, RunStates, Modes
  <2> QED BY <2>2 DEF ActiveRun, Loads
<1>3. /\ NoScan \in Scans /\ ~NoScan.started /\ ~NoScan.ended /\ NoScan.left = {}
      /\ NoScan.signal = NoSignal
  <2>1. 0 \in Nat OBVIOUS
  <2> QED BY <2>1, Zenon DEF NoScan, Scans
<1>4. NoTable \in Shadows /\ NoTable.rows = {} BY Zenon DEF NoTable, Shadows
<1>5. /\ NoIntent \in [state : {"none", "pending", "published"}, tables : SUBSET Tables,
                       kind : {"admission", "queued_dispatch"}]
      /\ NoIntent.state = "none" /\ ~NoRoute.open
  BY Zenon DEF NoIntent, NoRoute
<1>6. TypeOK
  <2>1. 0 \in 0 .. MaxRuns /\ 0 \in 0 .. MaxRequests /\ 0 \in 0 .. MaxStops
    BY BackfillAssumption
  <2>2. Initial \in [Tables -> SUBSET Keys] BY BackfillAssumption
  <2> QED BY <1>1, <1>2, <1>3, <1>4, <1>5, <2>1, <2>2, NoRouteType, Zenon
          DEF TypeOK, Runs, Scans, Shadows
<1>7. TableInv
  <2> SUFFICES ASSUME NEW t \in Tables
               PROVE  /\ Sound(Held(t), scan[t], source[t], pc, picked)
                      /\ Clean(Held(t), scan[t], source[t], pc, picked)
    BY DEF TableInv
  <2> DEFINE h == Held(t)
  <2>1. /\ h.run = NoRun /\ h.claim = 0 /\ h.life = "complete" /\ h.live = source[t]
        /\ h.shadow = NoTable /\ h.route = NoRoute /\ scan[t] = NoScan
    <3>1. /\ h.run = run[t] /\ h.claim = claim[t] /\ h.life = life[t]
          /\ h.live = live[t] /\ h.shadow = shadow[t] /\ h.route = route[t]
      BY HeldForm
    <3> HIDE DEF h
    <3> QED BY <1>1, <3>1, Zenon
  <2> HIDE DEF h
  <2>2. pc \in Streams /\ pc # "full" BY <1>1 DEF Streams
  <2>3. ~Loads(h.run) /\ ~Attended(h.run, scan[t])
    BY <1>2, <1>3, <2>1, Zenon DEF Attended
  <2>4. h.run.state \notin {"loading", "ready_to_swap", "blocked"} BY <1>2, <2>1, Zenon
  <2>5. Sound(h, scan[t], source[t], pc, picked)
    <3>1. Claim(h.run) = 0 BY <2>4, Zenon DEF Claim
    <3>2. h.run.state # "blocked" BY <2>4, Zenon
    <3> QED BY <1>3, <1>4, <2>1, <2>2, <3>1, <3>2, Zenon DEF Sound
  <2>6. Clean(h, scan[t], source[t], pc, picked)
    BY <1>5, <2>1, <2>2, <2>3, Zenon DEF Clean
  <2> QED BY <2>5, <2>6, Zenon DEF h
<1>8. SignalInv
  <2>1. \A s \in Signals : intent[s].state # "published"
    <3>1. NoIntent.state # "published" BY <1>5
    <3> QED BY <1>1, <3>1, Zenon
  <2>2. \A t \in Tables : ~Listens(run[t]) BY <1>1, <1>2, Zenon DEF Listens
  <2> QED BY <1>1, <2>1, <2>2, Zenon DEF SignalInv, PublishedHasSource
<1>9. OwnerInv
  <2>1. pc # "publish" BY <1>1
  <2> QED BY <1>1, <2>1, Zenon DEF OwnerInv, QueueDrained
<1> QED BY <1>6, <1>7, <1>8, <1>9 DEF IInv

LEMMA NextKeeps == Counting /\ IInv /\ [Next]_vars => IInv'
<1> SUFFICES ASSUME Counting, IInv, [Next]_vars PROVE IInv' OBVIOUS
<1>1. ASSUME NEW S \in (SUBSET Tables) \ {{}}, RequestIncremental(S) PROVE IInv'
  <2>1. S \in SUBSET Tables /\ S # {} BY Zenon
  <2> QED BY <1>1, <2>1, RequestIncrementalKeeps, Zenon
<1>2. ASSUME NEW t \in Tables, RequestFull(t) PROVE IInv'
  BY <1>2, RequestFullKeeps, Zenon
<1>3. CASE Publish BY <1>3, PublishKeeps, DispatchKeeps, ReconciledKeeps, Zenon DEF Publish
<1>4. ASSUME NEW s \in Signals, PickUp(s) PROVE IInv' BY <1>4, PickUpKeeps, Zenon
<1>5. ASSUME NEW t \in Tables, Deliver(t) PROVE IInv'
  BY <1>5, StartedKeeps, ReadKeeps, ScanEndKeeps, Zenon DEF Deliver
<1>6. ASSUME NEW t \in Tables, NEW k \in Keys, Change(t, k) PROVE IInv'
  BY <1>6, ChangeKeeps, Zenon
<1>7. CASE Stop BY <1>7, StopKeeps, Zenon
<1>8. CASE Startup
  BY <1>8, StartKeeps, PrepareKeeps, AttachKeeps, BlockingKeeps, Zenon DEF Startup
<1>9. CASE UNCHANGED vars
  <2>1. /\ UNCHANGED <<run, durableTables, connector, intent, queue, pc, route, requests,
                       stops, stray>>
    BY <1>9, Zenon DEF vars, durableTables, connector
  <2>2. TypeOK' BY <2>1, Zenon DEF IInv, TypeOK, durableTables, connector
  <2>3. \A t : Held(t)' = Held(t) BY <2>1, HeldSame, Zenon
  <2>4. TableInv' BY <2>1, <2>3, Zenon DEF IInv, TableInv, connector
  <2>5. SignalInv' BY <2>1, SignalsRest, Zenon DEF IInv, connector
  <2>6. UnusedSignals' = UnusedSignals BY <2>1, Zenon DEF UnusedSignals
  <2>7. OwnerInv' BY <2>1, <2>6, OwnerSame, Zenon DEF IInv
  <2> QED BY <2>2, <2>4, <2>5, <2>7 DEF IInv
<1> QED BY <1>1, <1>2, <1>3, <1>4, <1>5, <1>6, <1>7, <1>8, <1>9, Zenon DEF Next

-----------------------------------------------------------------------------
(* What the library says of numbers and of finite sets.  It is instantiated *)
(* here, under a name, to keep its facts out of the steps above.            *)

Library == INSTANCE FiniteSetTheorems

\* A non-empty set of naturals has a least element.
LEMMA LeastOf ==
  ASSUME NEW T \in SUBSET Nat, T # {}
  PROVE  \E i \in T : \A j \in T : i <= j
<1>1. PICK x \in T : \A y \in T : ~(<<y, x>> \in Library!OpToRel(<, Nat))
  BY Library!NatLessThanWellFounded, Library!WFMin, Zenon
<1>2. ASSUME NEW y \in T PROVE x <= y
  <2>1. ~(<<y, x>> \in {ss \in Nat \X Nat : ss[1] < ss[2]})
    BY <1>1 DEF Library!OpToRel
  <2> QED BY <2>1
<1> QED BY <1>2

\* The library's sets and sizes are those of the model.
LEMMA SameSizes ==
  /\ \A S : IsFiniteSet(S) <=> Library!IsFiniteSet(S)
  /\ \A S : Cardinality(S) = Library!Cardinality(S)
<1>1. \A S : IsFiniteSet(S) <=> Library!IsFiniteSet(S)
  BY Zenon DEF IsFiniteSet, Library!IsFiniteSet
<1>2. \A S : Cardinality(S) = Library!Cardinality(S)
  BY Zenon DEF Cardinality, Library!Cardinality
<1> QED BY <1>1, <1>2, Zenon

\* The rows of a table are finitely many.
LEMMA CountingHolds == Counting
<1>1. ASSUME NEW S \in SUBSET Keys
      PROVE  /\ Cardinality(S) \in Nat /\ (Cardinality(S) = 0 <=> S = {})
             /\ \A k \in S : Cardinality(S \ {k}) = Cardinality(S) - 1
  <2>1. Library!IsFiniteSet(S)
    BY BackfillAssumption, SameSizes, Library!FS_Subset, Zenon
  <2> QED BY <2>1, SameSizes, Library!FS_CardinalityType, Library!FS_EmptySet,
             Library!FS_RemoveElement
<1> QED BY <1>1, LeastOf, Zenon DEF Counting

\* One signal at most is listened to.
LEMMA OneSignal ==
  ASSUME IInv
  PROVE  OneLiveSignal
<1> DEFINE T == {run[t].signal : t \in UnblockedTables \ FullTables} \ {NoSignal}
<1>1. ASSUME NEW i \in T PROVE \E t \in Tables : Listens(run[t]) /\ run[t].signal = i
  <2>1. PICK t \in UnblockedTables \ FullTables : i = run[t].signal BY Zenon
  <2>2. t \in Tables /\ ActiveRun(run[t]) /\ run[t].state # "blocked"
        /\ run[t].mode # "full"
    BY Zenon DEF UnblockedTables, ActiveTables, FullTables
  <2>3. run[t].mode \in Modes BY <2>2, Zenon DEF IInv, TypeOK
  <2>4. run[t].mode = "incremental" BY <2>2, <2>3, Zenon DEF Modes
  <2> QED BY <2>1, <2>2, <2>4, Zenon DEF Listens
<1> HIDE DEF T
<1>2. \A i, j \in T : i = j BY <1>1, Zenon DEF IInv, SignalInv
<1>3. Cardinality(T) <= 1
  <2>1. CASE T = {}
    <3>1. Cardinality(T) = 0 BY <2>1, SameSizes, Library!FS_EmptySet, Zenon
    <3> QED BY <3>1
  <2>2. CASE T # {}
    <3>1. PICK i \in T : TRUE BY <2>2, Zenon
    <3>2. T = {i} BY <1>2, Zenon
    <3>3. Cardinality(T) = 1 BY <3>2, SameSizes, Library!FS_Singleton, Zenon
    <3> QED BY <3>3
  <2> QED BY <2>1, <2>2
<1> QED BY <1>3, Zenon DEF OneLiveSignal, T

LEMMA Balances == IInv => BooksBalance
<1> SUFFICES ASSUME IInv PROVE BooksBalance OBVIOUS
<1>1. ClaimFollowsRun BY TableFacts, Zenon DEF ClaimFollowsRun, Claim
<1>2. OwedHasRun
  <2> SUFFICES ASSUME pc \in Streams, NEW t \in Tables \ stray, life[t] # "complete"
               PROVE  route[t].open /\ ActiveRun(run[t])
    BY DEF OwedHasRun, Streams
  <2>1. Clean(Held(t), scan[t], source[t], pc, picked) BY TableFacts, Zenon
  <2>2. Held(t).run = run[t] /\ Held(t).route = route[t] /\ Held(t).life = life[t]
    BY HeldForm, Zenon
  <2>3. route[t].open BY <2>1, <2>2, Zenon DEF Clean
  <2>4. run[t].state = "blocked" \/ Loads(run[t]) BY <2>1, <2>2, <2>3, Zenon DEF Clean
  <2>5. ActiveRun(run[t]) BY <2>4 DEF Loads, ActiveRun
  <2> QED BY <2>3, <2>5
<1> QED BY <1>1, <1>2, OneSignal, Zenon DEF IInv, SignalInv, OwnerInv, BooksBalance

LEMMA Mirrors == IInv => IncrementalImage
<1> SUFFICES ASSUME IInv, NEW t \in Tables \ stray, life[t] = "complete"
             PROVE  live[t] = source[t]
  BY DEF IncrementalImage
<1>1. Clean(Held(t), scan[t], source[t], pc, picked) BY TableFacts, Zenon
<1> QED BY <1>1, HeldForm, Zenon DEF Clean

\* Wherever the process stops, the durable books of the refresh agree: a shadow is
\* claimed exactly by the run that loads it, a signal row has its intent, one signal
\* is listened to, an incomplete table has its run and its route, and no request
\* waits behind nothing (BackfillCoordinator, SnapshotCoordinator, the repository).
THEOREM BooksAlwaysBalance == Spec => []BooksBalance
<1>1. Init => IInv BY InitHolds
<1>2. IInv /\ [Next]_vars => IInv' BY NextKeeps, CountingHolds
<1>3. IInv => BooksBalance BY Balances
<1> QED BY <1>1, <1>2, <1>3, PTL DEF Spec

\* However scans, streamed changes, failures, stops and blocking resnapshots
\* interleave, a complete table holds the rows of its source, unless it was sent
\* records that no active incremental run asked for (SnapshotCoordinator.swap).
THEOREM RefreshMirrorsSource == Spec => []IncrementalImage
<1>1. Init => IInv BY InitHolds
<1>2. IInv /\ [Next]_vars => IInv' BY NextKeeps, CountingHolds
<1>3. IInv => IncrementalImage BY Mirrors
<1> QED BY <1>1, <1>2, <1>3, PTL DEF Spec
=============================================================================
