--------------------------- MODULE SourceHealthProofs ---------------------------
(***************************************************************************)
(* Proofs about SourceHealth, for any staleness, hang and idle bounds and  *)
(* any number of rows, backends and faults: no walsender but our own       *)
(* renews the lease, and a bounded run is idle only when nothing is owed.  *)
(***************************************************************************)
EXTENDS SourceHealth, WellFoundedInduction, TLAPS

Holders == {"none", "ours", "foreign"}

Statuses == {"unset", "connected_quiet", "connected_busy", "unobserved", "disconnected",
             "stalled", "unproven", "stale", "unknown", "engine_thread_dead",
             "foreign_walsender"}

Samples == [age : Int, known : BOOLEAN, exists : BOOLEAN, active : BOOLEAN, gen : Nat,
            confirmed : Int, lag : Int, route : BOOLEAN]

Slots == [exists : BOOLEAN, holder : Holders, gen : Nat, wal : Nat, confirmed : Nat,
          route : BOOLEAN, faults : Nat]

Procs == [engine : BOOLEAN, received : Nat, durable : Nat, acked : Int,
          completed : BOOLEAN, ignored : BOOLEAN, progress : Int, ack : Int,
          cert : {"none", "after", "between"}, batch : Int]

Samplers == [at : {"due", "read", "hung", "done"}, row : Samples, busy : Nat]

Healths == [last : Samples, prev : Samples, not_streaming : Int, unknown : Int,
            streaming : Int, retrying : Int, lag_stable : Int, prev_lag : Int,
            interrupted : Int, recovered : BOOLEAN, ever_sampled : BOOLEAN,
            ever_streamed : BOOLEAN, stalled : Int, mismatch : BOOLEAN, bound : Nat]

Contexts == [observed : Int, connected : BOOLEAN, quiet : BOOLEAN, engine : BOOLEAN]

Runs == [at : {"due", "evaluated", "done"}, status : Statuses, quiet : BOOLEAN,
         candidate : Int, newer : BOOLEAN,
         stop : {"none", "idle", "engine_error", "source_dark"}]

Hists == [lost : Nat, held : Int, owed : Int, reroute : BOOLEAN]

Shape ==
    /\ mode \in {"service", "bounded"} /\ slot \in Slots /\ proc \in Procs
    /\ sampler \in Samplers /\ health \in Healths /\ ctx \in Contexts
    /\ run \in Runs /\ hist \in Hists

-----------------------------------------------------------------------------
(* The inductive invariant.                                                 *)

\* The backend a certification of this process speaks for.
Proved(g) ==
    /\ g # 0
    /\ \/ g = health.bound
       \/ proc.cert = "after" /\ g = health.last.gen
       \/ proc.cert = "between" /\ g = health.prev.gen

\* A backend's number is not used again, and a row waits no longer than a read.
RowInv ==
    /\ health.last.gen <= slot.gen /\ health.prev.gen <= slot.gen
    /\ health.bound <= slot.gen /\ sampler.row.gen <= slot.gen
    /\ sampler.busy <= HangTicks
    /\ sampler.at \in {"due", "done"} => sampler.row.gen = 0
    /\ sampler.row.age >= NONE /\ (sampler.row.gen # 0 => sampler.row.age >= 0)
    /\ health.last.age >= NONE /\ (health.last.gen # 0 => health.last.age >= 0)
    /\ slot.holder = "ours" => hist.lost = 0
    /\ slot.holder # "none" => slot.gen # 0

\* What this process certified was its own walsender: nobody else's backend has
\* the number, and a row that shows it is as old as the loss at least.
IdentityInv ==
    /\ Proved(slot.gen) => slot.holder # "foreign"
    /\ Proved(sampler.row.gen) => hist.lost <= sampler.busy
    /\ Proved(health.last.gen) /\ health.last.age < Stalest
          => hist.lost <= health.last.age + HangTicks

\* So is the verdict reached, and the one published.
VerdictInv ==
    /\ run.at = "evaluated" /\ run.status \in Connected
          => hist.lost <= SampleStale + HangTicks
    /\ ctx.connected => ctx.observed >= 0
    /\ ctx.connected /\ ctx.observed < Stalest
          => hist.lost <= ctx.observed + SampleStale + HangTicks

\* How old the last sample may be in a bounded run, where a row is folded when
\* it is read.
LastAge == CASE sampler.at = "done" -> 0
             [] sampler.at = "due" -> 1
             [] OTHER -> sampler.busy + 1

\* In a bounded run, samples that show the slot active without a break are of one
\* walsender, and what it held for longer than it takes was delivered.
SteadyInv ==
    /\ slot.holder # "foreign" /\ hist.owed >= NONE
    /\ slot.holder = "ours" => hist.held >= 0
    /\ health.streaming >= NONE /\ (health.streaming # NONE <=> Streaming(Last))
    /\ sampler.at = "read" => sampler.row.age = 0
    /\ sampler.at # "read" => ~Streaming(sampler.row)
    /\ Streaming(sampler.row) => hist.lost = 0 /\ slot.gen # 0
    /\ Streaming(Last) =>
          /\ slot.gen # 0 /\ 0 <= Last.age /\ Last.age <= LastAge
          /\ slot.holder = "none" =>
                /\ hist.lost <= Last.age
                /\ health.streaming - hist.lost > Prompt => hist.owed <= Prompt + hist.lost
          /\ slot.holder = "ours" =>
                /\ hist.held >= Prompt \/ hist.held >= health.streaming
                /\ health.streaming > Prompt => hist.owed <= Prompt

IInv ==
    /\ Shape /\ RowInv /\ IdentityInv /\ VerdictInv
    /\ ~Service => SteadyInv
    /\ IdleIsHonest

-----------------------------------------------------------------------------
(* What the helpers compute.                                                *)

LEMMA Bounds ==
  /\ HangTicks \in Nat /\ Prompt \in Nat /\ SampleStale \in Nat /\ ProgressStale \in Nat
  /\ IdleTicks \in Nat /\ Backoff("bounded") \in Nat
  /\ Backoff("bounded") > HangTicks + 1 /\ IdleTicks > Prompt + SampleStale
  /\ Stalest \in Nat /\ Stalest > SampleStale /\ Stalest > ProgressStale
  /\ Stalest > HangTicks
<1>1. /\ HangTicks \in Nat /\ Prompt \in Nat /\ SampleStale \in Nat /\ ProgressStale \in Nat
      /\ IdleTicks \in Nat /\ Backoff("bounded") \in Nat
      /\ Backoff("bounded") > HangTicks + 1 /\ IdleTicks > Prompt + SampleStale
  BY HealthAssumption
<1>2. \E x \in {SampleStale, ProgressStale, HangTicks} :
         \A y \in {SampleStale, ProgressStale, HangTicks} : y <= x
  <2>1. CASE ProgressStale <= SampleStale /\ HangTicks <= SampleStale
    BY <1>1, <2>1
  <2>2. CASE SampleStale <= ProgressStale /\ HangTicks <= ProgressStale
    BY <1>1, <2>2
  <2>3. CASE SampleStale <= HangTicks /\ ProgressStale <= HangTicks
    BY <1>1, <2>3
  <2> QED BY <1>1, <2>1, <2>2, <2>3
<1> DEFINE m == MaxOf({SampleStale, ProgressStale, HangTicks})
<1>3. /\ m \in {SampleStale, ProgressStale, HangTicks}
      /\ \A y \in {SampleStale, ProgressStale, HangTicks} : y <= m
  BY <1>2, Zenon DEF MaxOf
<1> HIDE DEF m
<1>4. m \in Nat /\ SampleStale <= m /\ ProgressStale <= m /\ HangTicks <= m
  BY <1>1, <1>3, Zenon
<1>5. Stalest = m + 1 BY Zenon DEF Stalest, m
<1> QED BY <1>1, <1>4, <1>5

\* A clock that runs gains a tick, or stays where it saturates.
LEMMA OlderFacts ==
  ASSUME NEW age \in Int, NEW cap
  PROVE  /\ Older(age, cap) \in Int
         /\ Older(age, cap) = age \/ Older(age, cap) = age + 1
         /\ age = NONE => Older(age, cap) = NONE
         /\ age >= NONE => Older(age, cap) >= NONE
         /\ age >= 0 => Older(age, cap) >= 0
         /\ cap \in Int /\ age # NONE /\ age < cap => Older(age, cap) = age + 1
  BY DEF Older, NONE

LEMMA EmptySample == NoSample \in Samples /\ NoSample.gen = 0 /\ NoSample.age = NONE
                     /\ ~Streaming(NoSample)
  BY DEF NoSample, Samples, NONE, Streaming

LEMMA AgedFacts ==
  ASSUME NEW s \in Samples
  PROVE  /\ AgedSample(s) \in Samples /\ AgedSample(s).gen = s.gen
         /\ Streaming(AgedSample(s)) = Streaming(s)
         /\ AgedSample(s).age = Older(s.age, Stalest)
<1>1. s.age \in Int BY Zenon DEF Samples
<1>2. Older(s.age, Stalest) \in Int BY <1>1, OlderFacts, Zenon
<1> QED BY <1>2, Zenon DEF AgedSample, Samples, Streaming

\* A non-empty set of naturals has a least element.
LEMMA LeastOf ==
  ASSUME NEW T \in SUBSET Nat, T # {}
  PROVE  \E i \in T : \A j \in T : i <= j
  <1>1. PICK x \in T : \A y \in T : ~(<<y, x>> \in OpToRel(<, Nat))
    BY NatLessThanWellFounded, WFMin, Zenon
  <1>2. ASSUME NEW y \in T PROVE x <= y
    <2>1. ~(<<y, x>> \in {ss \in Nat \X Nat : ss[1] < ss[2]})
      BY <1>1 DEF OpToRel
    <2> QED BY <2>1
  <1> QED BY <1>2

\* The status of a witness, and what a connected one has passed.
LEMMA WitnessFacts ==
  /\ ServiceWitness \in Statuses
  /\ ServiceWitness \in Connected => SampleFresh /\ Identity
<1> DEFINE guards ==
    <<<<Last.age # NONE, "unobserved">>,
      <<Last.exists, "disconnected">>,
      <<Last.active, "disconnected">>,
      <<Last.route, StalledOrUnproven>>,
      <<Progressed, StalledOrUnproven>>,
      <<SampleFresh, IF Last.known THEN "stale" ELSE "unknown">>,
      <<proc.engine, "engine_thread_dead">>,
      <<~Pending \/ Last.lag <= 0, StalledOrUnproven>>,
      <<Acknowledged \/ QuietReady, StalledOrUnproven>>,
      <<Last.confirmed <= proc.durable, "stalled">>,
      <<proc.acked <= proc.durable, "stalled">>,
      <<QuietReady \/ /\ Fresh(proc.progress, ProgressStale)
                      /\ Fresh(proc.ack, ProgressStale), StalledOrUnproven>>,
      <<Identity, "foreign_walsender">>,
      <<proc.received <= Last.confirmed, "connected_busy">>>>
    failing == {i \in DOMAIN guards : ~guards[i][1]}
    least == CHOOSE i \in failing : \A j \in failing : i <= j
<1>1. ServiceWitness = IF failing = {} THEN "connected_quiet" ELSE guards[least][2]
  BY Zenon DEF ServiceWitness, FirstFailure
<1>2. DOMAIN guards = 1..14
  OBVIOUS
<1>3. guards[6][1] = SampleFresh /\ guards[13][1] = Identity
  OBVIOUS
<1>4. StalledOrUnproven \in {"stalled", "unproven"}
  BY Zenon DEF StalledOrUnproven
<1>5. \A i \in 1..14 : guards[i][2] \in Statuses
  BY <1>4 DEF Statuses
<1>6. \A i \in 1..13 : guards[i][2] \notin Connected
  BY <1>4 DEF Connected
<1> HIDE DEF guards
<1>7. failing \subseteq 1..14 /\ (failing # {} => least \in failing /\ \A j \in failing : least <= j)
  <2>1. failing \subseteq Nat BY <1>2
  <2>2. failing # {} => \E i \in failing : \A j \in failing : i <= j
    BY <2>1, LeastOf, Zenon
  <2> QED BY <1>2, <2>2, Zenon
<1> HIDE DEF failing, least
<1>8. CASE failing = {}
  <2>1. guards[6][1] /\ guards[13][1] BY <1>2, <1>8 DEF failing
  <2> QED BY <2>1, <1>1, <1>3, <1>8, Zenon DEF Statuses
<1>9. CASE failing # {}
  <2>1. ServiceWitness = guards[least][2] /\ least \in 1..14 BY <1>1, <1>7, <1>9, Zenon
  <2>2. CASE least = 14
    <3>1. 6 \notin failing /\ 13 \notin failing BY <1>7, <1>9, <2>2
    <3>2. guards[6][1] /\ guards[13][1] BY <1>2, <3>1 DEF failing
    <3> QED BY <2>1, <1>3, <1>5, <3>2, Zenon
  <2>3. CASE least # 14
    <3>1. least \in 1..13 BY <2>1, <2>3
    <3> QED BY <3>1, <2>1, <1>5, <1>6, Zenon
  <2> QED BY <2>2, <2>3
<1> QED BY <1>8, <1>9


-----------------------------------------------------------------------------
(* The source, its walsenders and the callbacks.                            *)

\* What a step leaves alone that moves neither slot, clocks nor verdicts.
LEMMA QuietKeeps ==
  ASSUME IInv, Shape', Running, mode' = mode, sampler' = sampler, health' = health,
         ctx' = ctx, run' = run, slot'.gen = slot.gen, slot'.holder = slot.holder,
         proc'.cert = proc.cert, hist'.lost = hist.lost, hist'.held = hist.held,
         hist'.owed = hist.owed \/ hist'.owed \in {NONE, 0}
  PROVE  IInv'
<1>1. RowInv' BY Zenon DEF IInv, RowInv
<1>2. \A g : Proved(g)' => Proved(g) BY Zenon DEF Proved
<1>3. IdentityInv'
  BY <1>2, Zenon DEF IInv, IdentityInv, Stalest
<1>4. VerdictInv' BY Zenon DEF IInv, VerdictInv, Stalest
<1>5. ASSUME ~Service PROVE SteadyInv'
  <2>1. SteadyInv BY <1>5, Zenon DEF IInv
  <2>2. Prompt \in Nat /\ hist.lost \in Nat BY Bounds, Zenon DEF IInv, Shape, Hists
  <2> QED BY <2>1, <2>2 DEF SteadyInv, Last, LastAge, Streaming, NONE
<1>6. IdleIsHonest' BY Zenon DEF Running, IdleIsHonest
<1> QED BY <1>1, <1>3, <1>4, <1>5, <1>6, Zenon DEF IInv, Service

LEMMA SourceKeeps ==
  ASSUME IInv, SourceWrites \/ RouteFlips \/ Consumes \/ Confirms
  PROVE  IInv'
<1> USE DEF IInv, Shape
<1>1. CASE SourceWrites
  <2>1. /\ slot' \in Slots /\ slot'.gen = slot.gen /\ slot'.holder = slot.holder
    <3>1. slot.wal + 1 \in Nat BY DEF Slots
    <3> QED BY <1>1, <3>1, Zenon DEF SourceWrites, Slots
  <2>2. /\ hist' \in Hists /\ hist'.lost = hist.lost /\ hist'.held = hist.held
        /\ hist'.owed = hist.owed \/ hist'.owed \in {NONE, 0}
    <3>1. 0 \in Int OBVIOUS
    <3> QED BY <1>1, <3>1, Zenon DEF SourceWrites, Hists
  <2>3. Running /\ UNCHANGED <<mode, proc, sampler, health, ctx, run>>
    BY <1>1, Zenon DEF SourceWrites
  <2> QED BY <2>1, <2>2, <2>3, QuietKeeps, Zenon
<1>2. CASE RouteFlips
  <2>1. /\ slot' \in Slots /\ slot'.gen = slot.gen /\ slot'.holder = slot.holder
    <3>1. slot.faults + 1 \in Nat BY DEF Slots
    <3> QED BY <1>2, <3>1, Zenon DEF RouteFlips, Slots
  <2>2. /\ hist' \in Hists /\ hist'.lost = hist.lost /\ hist'.held = hist.held
        /\ hist'.owed = hist.owed
    BY <1>2, Zenon DEF RouteFlips, Hists
  <2>3. Running /\ UNCHANGED <<mode, proc, sampler, health, ctx, run>>
    BY <1>2, Zenon DEF RouteFlips
  <2> QED BY <2>1, <2>2, <2>3, QuietKeeps, Zenon
<1>3. CASE Consumes \/ Confirms
  <2>1. /\ slot' \in Slots /\ slot'.gen = slot.gen /\ slot'.holder = slot.holder
    BY <1>3, Zenon DEF Consumes, Confirms, Slots, Procs
  <2>2. Running /\ UNCHANGED <<mode, proc, sampler, health, ctx, run, hist>>
    BY <1>3, Zenon DEF Consumes, Confirms
  <2> QED BY <2>1, <2>2, QuietKeeps, Zenon
<1> QED BY <1>1, <1>2, <1>3, Zenon

\* A callback certifies the walsender that delivered to it, which is ours.
LEMMA CallbackKeeps ==
  ASSUME IInv, Shape', Running, slot.holder = "ours", mode' = mode, sampler' = sampler,
         health' = health, ctx' = ctx, run' = run,
         slot'.gen = slot.gen, slot'.holder = slot.holder,
         hist'.lost = hist.lost, hist'.held = hist.held,
         hist'.owed = hist.owed \/ hist'.owed \in {NONE, 0},
         proc'.cert \in {proc.cert, "after"}
  PROVE  IInv'
<1>0. hist.lost = 0 /\ sampler.busy \in Nat /\ HangTicks \in Nat
  BY Bounds, Zenon DEF IInv, RowInv, Shape, Samplers
<1>1. RowInv' BY Zenon DEF IInv, RowInv
<1>3. IdentityInv'
  <2>1. slot'.holder # "foreign" /\ 0 <= sampler.busy BY <1>0
  <2>2. ASSUME Proved(health.last.gen)' PROVE 0 <= health.last.age + HangTicks
    <3>1. health.last.gen # 0 BY <2>2, Zenon DEF Proved
    <3>2. health.last.age >= 0 /\ health.last.age \in Int
      BY <3>1, Zenon DEF IInv, RowInv, Shape, Healths, Samples
    <3> QED BY <3>2, <1>0
  <2> QED BY <1>0, <2>1, <2>2, Zenon DEF IdentityInv
<1>4. VerdictInv' BY Zenon DEF IInv, VerdictInv, Stalest
<1>5. ASSUME ~Service PROVE SteadyInv'
  <2>1. SteadyInv BY <1>5, Zenon DEF IInv
  <2>2. Prompt \in Nat BY Bounds, Zenon
  <2> QED BY <2>1, <2>2, <1>0 DEF SteadyInv, Last, LastAge, Streaming, NONE
<1>6. IdleIsHonest' BY Zenon DEF Running, IdleIsHonest
<1> QED BY <1>1, <1>3, <1>4, <1>5, <1>6, Zenon DEF IInv, Service

LEMMA CallbacksKeep ==
  ASSUME IInv, NEW b \in BOOLEAN, DataCallback(b) \/ ControlCallback(b)
  PROVE  IInv'
<1> USE DEF IInv, Shape
<1>0. 0 \in Int /\ 0 \in Nat /\ slot.faults + 1 \in Nat /\ Nat \subseteq Int
  BY DEF Slots
<1>1. CASE DataCallback(b)
  <2>1. proc' \in Procs /\ proc'.cert \in {proc.cert, "after"}
    <3> DEFINE callback == [proc EXCEPT !.received = slot.wal, !.batch = 0,
                              !.durable = IF b THEN slot.wal ELSE @]
    <3>1. slot.wal \in Nat BY Zenon DEF Slots
    <3>2. callback \in Procs /\ callback.cert = proc.cert
      BY <3>1, <1>0, Zenon DEF Procs
    <3>3. proc' = callback \/ proc' = [callback EXCEPT
                           !.acked = IF b THEN slot.wal ELSE @,
                           !.ack = IF b THEN 0 ELSE @,
                           !.progress = 0, !.ignored = FALSE, !.cert = "after"]
      BY <1>1, Zenon DEF DataCallback
    <3> HIDE DEF callback
    <3> DEFINE acked == IF b THEN slot.wal ELSE callback.acked
               ack == IF b THEN 0 ELSE callback.ack
    <3>4. acked \in Int /\ ack \in Int
      BY <3>1, <3>2, <1>0, Zenon DEF Procs
    <3>5. proc' = callback
            \/ proc' = [callback EXCEPT !.acked = acked, !.ack = ack, !.progress = 0,
                                       !.ignored = FALSE, !.cert = "after"]
      BY <3>3, Zenon
    <3> HIDE DEF acked, ack
    <3> QED BY <3>2, <3>4, <3>5, <1>0, Zenon DEF Procs
  <2>2. /\ hist' \in Hists /\ hist'.lost = hist.lost /\ hist'.held = hist.held
        /\ hist'.owed = NONE
    <3>1. NONE \in Int BY DEF NONE
    <3> QED BY <1>1, <3>1, Zenon DEF DataCallback, Hists
  <2>3. Running /\ slot.holder = "ours" /\ UNCHANGED <<mode, slot, sampler, health, ctx, run>>
    BY <1>1, Zenon DEF DataCallback
  <2> QED BY <2>1, <2>2, <2>3, CallbackKeeps, Zenon
<1>2. CASE ControlCallback(b)
  <2>1. proc' \in Procs /\ proc'.cert = "after"
    BY <1>2, Zenon DEF ControlCallback, Procs
  <2>2. slot' \in Slots /\ slot'.gen = slot.gen /\ slot'.holder = slot.holder
    BY <1>2, <1>0, Zenon DEF ControlCallback, Slots
  <2>3. Running /\ slot.holder = "ours" /\ UNCHANGED <<mode, sampler, health, ctx, run, hist>>
    BY <1>2, Zenon DEF ControlCallback
  <2> QED BY <2>1, <2>2, <2>3, CallbackKeeps, Zenon
<1> QED BY <1>1, <1>2


\* A backend that attaches has a number no sample shows and nobody certified.
LEMMA NewBackend ==
  ASSUME IInv, slot' \in Slots, slot'.gen = slot.gen + 1, health' = health,
         proc'.cert = proc.cert
  PROVE  /\ ~Proved(slot.gen)' /\ slot'.gen # 0
         /\ health.last.gen <= slot'.gen /\ health.prev.gen <= slot'.gen
         /\ health.bound <= slot'.gen /\ sampler.row.gen <= slot'.gen
<1>1. /\ slot.gen \in Nat /\ health.last.gen \in Nat /\ health.prev.gen \in Nat
      /\ health.bound \in Nat /\ sampler.row.gen \in Nat
  BY Zenon DEF IInv, Shape, Slots, Healths, Samples, Samplers
<1>2. /\ health.last.gen <= slot.gen /\ health.prev.gen <= slot.gen
      /\ health.bound <= slot.gen /\ sampler.row.gen <= slot.gen
  BY Zenon DEF IInv, RowInv
<1> QED BY <1>1, <1>2 DEF Proved

LEMMA AttachesKeeps == ASSUME IInv, Attaches PROVE IInv'
<1>0. /\ slot.gen \in Nat /\ sampler.busy \in Nat /\ HangTicks \in Nat /\ SampleStale \in Nat
      /\ 0 \in Int /\ NONE \in Int /\ slot.gen + 1 \in Nat
  <2>1. slot.gen \in Nat /\ sampler.busy \in Nat
    BY Zenon DEF IInv, Shape, Slots, Samplers
  <2> QED BY <2>1, Bounds DEF NONE
<1>1. /\ slot' \in Slots /\ slot'.gen = slot.gen + 1 /\ slot'.holder = "ours"
  BY <1>0, Zenon DEF Attaches, IInv, Shape, Slots, Holders
<1>2. /\ hist' \in Hists /\ hist'.lost = 0 /\ hist'.owed = hist.owed
      /\ ~Service => hist'.held = 0
  BY <1>0, Zenon DEF Attaches, IInv, Shape, Hists
<1>3. /\ Running /\ slot.holder = "none" /\ (slot.gen = 0 \/ hist.lost >= Backoff(mode))
      /\ UNCHANGED <<mode, proc, sampler, health, ctx, run>>
  BY Zenon DEF Attaches
<1>4. RowInv'
  BY <1>1, <1>2, <1>3, NewBackend, Zenon DEF IInv, RowInv
<1>5. IdentityInv'
  <2>1. ASSUME Proved(health.last.gen)' PROVE 0 <= health.last.age + HangTicks
    <3>1. health.last.gen # 0 BY <2>1, <1>3, Zenon DEF Proved
    <3>2. health.last.age >= 0 /\ health.last.age \in Int
      BY <3>1, Zenon DEF IInv, RowInv, Shape, Healths, Samples
    <3> QED BY <3>2, <1>0
  <2>2. 0 <= sampler.busy BY <1>0
  <2> QED BY <1>1, <1>2, <1>3, <2>1, <2>2, NewBackend, Zenon DEF IdentityInv
<1>6. VerdictInv'
  <2>1. ASSUME ctx.connected PROVE 0 <= ctx.observed + SampleStale + HangTicks
    <3>1. ctx.observed >= 0 /\ ctx.observed \in Int
      BY <2>1, Zenon DEF IInv, VerdictInv, Shape, Contexts
    <3> QED BY <3>1, <1>0
  <2>2. 0 <= SampleStale + HangTicks BY <1>0
  <2> QED BY <1>2, <1>3, <2>1, <2>2, Zenon DEF IInv, VerdictInv
<1>7. ASSUME ~Service PROVE SteadyInv'
  <2>1. SteadyInv /\ mode = "bounded" BY <1>7, Zenon DEF IInv, Shape, Service
  <2>2. ~Streaming(Last)
    <3> SUFFICES ASSUME Streaming(Last) PROVE FALSE OBVIOUS
    <3>1. hist.lost <= Last.age /\ Last.age <= LastAge /\ slot.gen # 0
      BY <2>1, <1>3, Zenon DEF SteadyInv
    <3>2. LastAge <= HangTicks + 1 /\ LastAge \in Int
      BY <1>0 DEF LastAge, IInv, RowInv
    <3>3. hist.lost \in Int /\ Last.age \in Int
      BY <1>0 DEF IInv, Shape, Hists, Last, Healths, Samples
    <3>4. hist.lost >= Backoff("bounded") BY <3>1, <1>3, <2>1, Zenon
    <3> QED BY <3>1, <3>2, <3>3, <3>4, Bounds
  <2>3. slot'.gen # 0 BY <1>0, <1>1
  <2> QED BY <2>1, <2>2, <2>3, <1>1, <1>2, <1>3, <1>7
       DEF SteadyInv, Last, LastAge, Streaming
<1>8. IdleIsHonest' BY <1>3, Zenon DEF Running, IdleIsHonest
<1>9. Shape' BY <1>1, <1>2, <1>3, Zenon DEF IInv, Shape
<1> QED BY <1>3, <1>4, <1>5, <1>6, <1>7, <1>8, <1>9, Zenon DEF IInv, Service

LEMMA DetachesKeeps == ASSUME IInv, Detaches PROVE IInv'
<1>0. slot.faults + 1 \in Nat /\ NONE \in Int BY DEF NONE, IInv, Shape, Slots
<1>1. /\ slot' \in Slots /\ slot'.gen = slot.gen /\ slot'.holder = "none"
  BY <1>0, Zenon DEF Detaches, IInv, Shape, Slots, Holders
<1>2. proc' \in Procs /\ proc'.cert = proc.cert
  BY Zenon DEF Detaches, IInv, Shape, Procs
<1>3. /\ hist' \in Hists /\ hist'.lost = hist.lost /\ hist'.owed = hist.owed
  BY <1>0, Zenon DEF Detaches, IInv, Shape, Hists
<1>4. Running /\ slot.holder = "ours" /\ UNCHANGED <<mode, sampler, health, ctx, run>>
  BY Zenon DEF Detaches
<1>5. RowInv' BY <1>1, <1>3, <1>4, Zenon DEF IInv, RowInv
<1>6. IdentityInv'
  <2>1. \A g : Proved(g)' => Proved(g) BY <1>2, <1>4, Zenon DEF Proved
  <2> QED BY <1>1, <1>3, <1>4, <2>1, Zenon DEF IInv, IdentityInv, Stalest
<1>7. VerdictInv' BY <1>3, <1>4, Zenon DEF IInv, VerdictInv, Stalest
<1>8. ASSUME ~Service PROVE SteadyInv'
  <2>1. SteadyInv BY <1>8, Zenon DEF IInv
  <2>2. hist.lost = 0 /\ Prompt \in Nat BY <1>4, Bounds, Zenon DEF IInv, RowInv
  <2>3. health.streaming \in Int /\ hist.owed \in Int BY Zenon DEF IInv, Shape, Healths, Hists
  <2> QED BY <2>1, <2>2, <2>3, <1>1, <1>3, <1>4 DEF SteadyInv, Last, LastAge, Streaming
<1>9. IdleIsHonest' BY <1>4, Zenon DEF Running, IdleIsHonest
<1>10. Shape' BY <1>1, <1>2, <1>3, <1>4, Zenon DEF IInv, Shape
<1> QED BY <1>4, <1>5, <1>6, <1>7, <1>8, <1>9, <1>10, Zenon DEF IInv, Service

LEMMA TrespassesKeeps == ASSUME IInv, Trespasses PROVE IInv'
<1>0. /\ slot.gen + 1 \in Nat /\ slot.faults + 1 \in Nat BY DEF IInv, Shape, Slots
<1>1. \/ slot' \in Slots /\ slot'.gen = slot.gen + 1 /\ slot'.holder = "foreign"
      \/ slot' \in Slots /\ slot'.gen = slot.gen /\ slot'.holder = "none"
  BY <1>0, Zenon DEF Trespasses, IInv, Shape, Slots, Holders
<1>2. Running /\ Service /\ UNCHANGED <<mode, proc, sampler, health, ctx, run, hist>>
  BY Zenon DEF Trespasses
<1>3. RowInv'
  BY <1>1, <1>2, NewBackend, Zenon DEF IInv, RowInv
<1>4. IdentityInv'
  <2>1. \A g : Proved(g)' => Proved(g) BY <1>2, Zenon DEF Proved
  <2> QED BY <1>1, <1>2, <2>1, NewBackend, Zenon DEF IInv, IdentityInv, Stalest
<1>5. VerdictInv' BY <1>2, Zenon DEF IInv, VerdictInv, Stalest
<1>6. IdleIsHonest' BY <1>2, Zenon DEF Running, IdleIsHonest
<1>7. Shape' BY <1>1, <1>2, Zenon DEF IInv, Shape
<1> QED BY <1>2, <1>3, <1>4, <1>5, <1>6, <1>7, Zenon DEF IInv, Service


-----------------------------------------------------------------------------
(* The sampler.                                                             *)

\* A row shows a certified backend only while our walsender is attached.
LEMMA RowFacts ==
  ASSUME IInv
  PROVE  /\ Row \in Samples /\ Row.age = 0 /\ Row.gen <= slot.gen
         /\ Proved(Row.gen) => hist.lost = 0
         /\ ~Service /\ Streaming(Row) => hist.lost = 0 /\ slot.gen # 0
<1>1. slot \in Slots /\ slot.holder \in Holders BY Zenon DEF IInv, Shape, Slots
<1>2. slot.gen \in Nat /\ slot.wal - slot.confirmed \in Int /\ slot.confirmed \in Int
      /\ NONE \in Int /\ 0 \in Int /\ 0 \in Nat /\ 0 <= slot.gen /\ slot.gen <= slot.gen
  BY <1>1 DEF Slots, NONE
<1>3. Row \in Samples
  BY <1>1, <1>2, Zenon DEF Row, Samples, Slots
<1>4. /\ Row.age = 0 /\ Row.active = (slot.holder # "none")
      /\ Row.gen = IF slot.holder = "none" THEN 0 ELSE slot.gen
  BY Zenon DEF Row
<1>5. ASSUME Proved(Row.gen) PROVE hist.lost = 0
  <2>1. slot.holder # "none" /\ Row.gen = slot.gen BY <1>4, <1>5, Zenon DEF Proved
  <2>2. slot.holder # "foreign" BY <1>5, <2>1, Zenon DEF IInv, IdentityInv
  <2> QED BY <2>1, <2>2, <1>1, Zenon DEF Holders, IInv, RowInv
<1>6. ASSUME ~Service, Streaming(Row) PROVE hist.lost = 0 /\ slot.gen # 0
  <2>1. slot.holder # "none" BY <1>4, <1>6, Zenon DEF Streaming
  <2>2. slot.holder # "foreign" BY <1>6, Zenon DEF IInv, SteadyInv
  <2> QED BY <2>1, <2>2, <1>1, Zenon DEF Holders, IInv, RowInv
<1> QED BY <1>2, <1>3, <1>4, <1>5, <1>6, Zenon

\* An attempt begins, or its row arrives.
LEMMA SampleKeeps ==
  ASSUME IInv, Running, mode' = mode, proc' = proc, health' = health, ctx' = ctx,
         run' = run, hist' = hist, slot' \in Slots, slot'.gen = slot.gen,
         slot'.holder = slot.holder, sampler' \in Samplers,
         \/ sampler.at = "due" /\ sampler'.busy = 0
         \/ sampler.at = "hung" /\ sampler'.busy = sampler.busy,
         \/ sampler'.at = "read" /\ sampler'.row = Row
         \/ /\ sampler'.at = "hung" /\ sampler'.row.gen = 0 /\ sampler'.row.age = 0
            /\ ~Streaming(sampler'.row)
  PROVE  IInv'
<1>0. /\ sampler.busy \in Nat /\ HangTicks \in Nat /\ slot.gen \in Nat
      /\ 0 <= sampler'.busy /\ sampler'.busy <= HangTicks /\ sampler'.row.gen <= slot.gen
      /\ sampler'.row.age = 0 /\ 0 >= NONE
  <2>1. sampler.busy \in Nat /\ slot.gen \in Nat /\ sampler.busy <= HangTicks
    BY Zenon DEF IInv, Shape, Slots, Samplers, RowInv
  <2> QED BY <2>1, Bounds, RowFacts DEF NONE
<1>1. RowInv'
  <2>1. sampler'.at \notin {"due", "done"} /\ 0 >= 0 OBVIOUS
  <2> QED BY <1>0, <2>1, Zenon DEF IInv, RowInv
<1>2. IdentityInv'
  <2>1. \A g : Proved(g)' => Proved(g) BY Zenon DEF Proved
  <2>2. ASSUME Proved(sampler.row.gen)' PROVE hist.lost = 0
    <3>1. Proved(sampler'.row.gen) BY <2>2, Zenon DEF Proved
    <3>2. sampler'.row.gen # 0 BY <3>1, Zenon DEF Proved
    <3> QED BY <3>1, <3>2, RowFacts, Zenon
  <2> QED BY <1>0, <2>1, <2>2, Zenon DEF IInv, IdentityInv, Stalest
<1>3. VerdictInv' BY Zenon DEF IInv, VerdictInv, Stalest
<1>4. ASSUME ~Service PROVE SteadyInv'
  <2>1. SteadyInv BY <1>4, Zenon DEF IInv
  <2>2. Streaming(sampler'.row) => hist.lost = 0 /\ slot.gen # 0
    BY <1>4, RowFacts, Zenon
  <2>3. LastAge' = sampler'.busy + 1
    BY Zenon DEF LastAge
  <2>4. LastAge' = LastAge
    <3>1. CASE sampler.at = "due" /\ sampler'.busy = 0
      <4>1. LastAge = 1 BY <3>1, Zenon DEF LastAge
      <4> QED BY <2>3, <3>1, <4>1
    <3>2. CASE sampler.at = "hung" /\ sampler'.busy = sampler.busy
      <4>1. LastAge = sampler.busy + 1 BY <3>2, Zenon DEF LastAge
      <4> QED BY <2>3, <3>2, <4>1, Zenon
    <3> QED BY <3>1, <3>2
  <2> QED BY <2>1, <2>2, <2>4, <1>0, Zenon DEF SteadyInv, Last, Streaming
<1>5. IdleIsHonest' BY Zenon DEF Running, IdleIsHonest
<1>6. Shape' BY Zenon DEF IInv, Shape
<1> QED BY <1>1, <1>2, <1>3, <1>4, <1>5, <1>6, Zenon DEF IInv, Service

LEMMA SamplesKeep == ASSUME IInv, Reads \/ Fails \/ Resumes PROVE IInv'
<1>0. /\ slot \in Slots /\ sampler \in Samplers /\ Row \in Samples /\ 0 \in Nat /\ 0 \in Int
      /\ slot.faults + 1 \in Nat
  <2>1. slot \in Slots /\ sampler \in Samplers /\ Row \in Samples
    BY RowFacts, Zenon DEF IInv, Shape
  <2> QED BY <2>1 DEF Slots
<1>1. CASE Reads
  <2>1. /\ Running /\ sampler.at = "due" /\ UNCHANGED <<mode, slot, proc, health, ctx, run, hist>>
        /\ sampler' = [at |-> "read", row |-> Row, busy |-> 0]
    BY <1>1, Zenon DEF Reads
  <2>2. sampler' \in Samplers /\ sampler'.at = "read" /\ sampler'.row = Row /\ sampler'.busy = 0
    BY <1>0, <2>1, Zenon DEF Samplers
  <2> QED BY <1>0, <2>1, <2>2, SampleKeeps, Zenon
<1>2. CASE Fails
  <2> DEFINE row == [NoSample EXCEPT !.age = 0]
  <2>1. /\ Running /\ sampler.at = "due" /\ UNCHANGED <<mode, proc, health, ctx, run, hist>>
        /\ sampler' = [at |-> "hung", row |-> row, busy |-> 0]
    BY <1>2, Zenon DEF Fails
  <2>2. slot' \in Slots /\ slot'.gen = slot.gen /\ slot'.holder = slot.holder
    BY <1>0, <1>2, Zenon DEF Fails, Slots
  <2>3. row \in Samples /\ row.gen = 0 /\ row.age = 0 /\ ~Streaming(row)
    BY <1>0, EmptySample, Zenon DEF Samples, Streaming
  <2> HIDE DEF row
  <2>4. sampler' \in Samplers /\ sampler'.at = "hung" /\ sampler'.row = row /\ sampler'.busy = 0
    BY <1>0, <2>1, <2>3, Zenon DEF Samplers
  <2> QED BY <1>0, <2>1, <2>2, <2>3, <2>4, SampleKeeps, Zenon
<1>3. CASE Resumes
  <2>1. /\ Running /\ sampler.at = "hung" /\ UNCHANGED <<mode, slot, proc, health, ctx, run, hist>>
        /\ sampler' = [sampler EXCEPT !.at = "read", !.row = Row]
    BY <1>3, Zenon DEF Resumes
  <2>2. /\ sampler' \in Samplers /\ sampler'.at = "read" /\ sampler'.row = Row
        /\ sampler'.busy = sampler.busy
    BY <1>0, <2>1, Zenon DEF Samplers
  <2> QED BY <1>0, <2>1, <2>2, SampleKeeps, Zenon
<1> QED BY <1>1, <1>2, <1>3

\* What folding a row leaves of the books.
LEMMA IngestFacts ==
  ASSUME Shape
  PROVE  LET h == Tracked(Ingest(sampler.row))
         IN  /\ h \in Healths /\ h.last = sampler.row /\ h.bound = health.bound
             /\ h.prev.gen \in {0, health.last.gen} /\ h.prev \in Samples
             /\ ~Service => h.streaming =
                   Since(health.streaming, Streaming(sampler.row), sampler.row.age)
<1> DEFINE s == sampler.row
<1>0. /\ health \in Healths /\ s \in Samples /\ NONE \in Int /\ health.last \in Samples
  <2>1. NONE \in Int BY DEF NONE
  <2> QED BY <2>1, Zenon DEF Shape, Samplers, Healths
<1>1. /\ s.age \in Int /\ s.known \in BOOLEAN /\ s.lag \in Int /\ s.gen \in Nat
      /\ Streaming(s) \in BOOLEAN /\ health.last.gen \in Nat
      /\ health.last.confirmed \in Int
  BY <1>0, Zenon DEF Samples, Streaming
<1>2. [NoSample EXCEPT !.gen = health.last.gen] \in Samples
      /\ [NoSample EXCEPT !.gen = health.last.gen].gen = health.last.gen
  BY <1>1, EmptySample, Zenon DEF Samples
<1> DEFINE breaks == Streaming(health.last) /\ ~Streaming(s) /\ health.last.confirmed # NONE
           recovers == /\ ~breaks /\ health.interrupted # NONE /\ Streaming(s)
                       /\ s.confirmed > health.interrupted
           settled == Streaming(s) /\ health.streaming # NONE /\ health.streaming - s.age >= Stable
           prev == [NoSample EXCEPT !.gen = health.last.gen]
           i == Ingest(s)
<1> DEFINE interrupted == IF breaks THEN health.last.confirmed ELSE health.interrupted
           recovered == IF breaks THEN FALSE ELSE health.recovered \/ recovers
           retrying == IF breaks THEN (IF health.retrying = NONE THEN s.age ELSE health.retrying)
                       ELSE IF recovers \/ settled THEN NONE ELSE health.retrying
           sampled == health.ever_sampled \/ s.known
           streamed == health.ever_streamed \/ Streaming(s)
           not_streaming == Since(health.not_streaming, ~Streaming(s), s.age)
           unknown == Since(health.unknown, ~s.known, s.age)
           streaming == Since(health.streaming, Streaming(s), s.age)
           lag_stable == IF s.lag = NONE \/ s.lag = health.prev_lag THEN health.lag_stable
                         ELSE s.age
           prev_lag == IF s.lag = NONE THEN health.prev_lag ELSE s.lag
<1>3. /\ interrupted \in Int /\ recovered \in BOOLEAN /\ retrying \in Int
      /\ sampled \in BOOLEAN /\ streamed \in BOOLEAN /\ not_streaming \in Int
      /\ unknown \in Int /\ streaming \in Int /\ lag_stable \in Int /\ prev_lag \in Int
  <2>1. recovers \in BOOLEAN
    <3> HIDE DEF breaks
    <3> QED BY Zenon
  <2> HIDE DEF breaks, recovers, settled
  <2> QED BY <1>0, <1>1, <2>1, Zenon DEF Healths, Since
<1>4. i = [health EXCEPT
             !.interrupted = interrupted, !.recovered = recovered, !.retrying = retrying,
             !.prev = prev, !.last = s, !.ever_sampled = sampled,
             !.ever_streamed = streamed, !.not_streaming = not_streaming,
             !.unknown = unknown, !.streaming = streaming, !.lag_stable = lag_stable,
             !.prev_lag = prev_lag]
  BY Zenon DEF Ingest
<1> HIDE DEF interrupted, recovered, retrying, sampled, streamed, not_streaming, unknown,
             streaming, lag_stable, prev_lag, prev, i
<1>5. prev \in Samples /\ prev.gen = health.last.gen BY <1>2, Zenon DEF prev
<1>6. /\ i \in Healths /\ i.last = s /\ i.bound = health.bound /\ i.prev = prev
      /\ i.streaming = streaming
  <2> HIDE DEF breaks, recovers, settled, s
  <2> DEFINE j == [health EXCEPT
             !.interrupted = interrupted, !.recovered = recovered, !.retrying = retrying,
             !.prev = prev, !.last = s, !.ever_sampled = sampled]
  <2>1. j \in Healths /\ j.last = s /\ j.prev = prev /\ j.bound = health.bound
    BY <1>0, <1>3, <1>5, Zenon DEF Healths
  <2>2. i = [j EXCEPT
             !.ever_streamed = streamed, !.not_streaming = not_streaming,
             !.unknown = unknown, !.streaming = streaming, !.lag_stable = lag_stable,
             !.prev_lag = prev_lag]
    BY <1>4, <1>0, Zenon DEF Healths
  <2> HIDE DEF j
  <2> QED BY <1>3, <2>1, <2>2, Zenon DEF Healths
<1>7. CASE Service
  <2>1. Tracked(i) = [i EXCEPT !.lag_stable = NONE, !.prev_lag = NONE,
                   !.streaming = IF i.retrying = NONE THEN NONE ELSE @,
                   !.prev = IF proc.cert = "after" THEN @ ELSE NoSample]
    BY <1>7, Zenon DEF Tracked
  <2> QED BY <2>1, <1>0, <1>5, <1>6, <1>7, EmptySample, Zenon DEF Healths, i
<1>8. CASE ~Service
  <2>1. Tracked(i) = [i EXCEPT !.not_streaming = NONE, !.retrying = NONE, !.prev = NoSample]
    BY <1>8, Zenon DEF Tracked
  <2> QED BY <2>1, <1>0, <1>5, <1>6, <1>8, EmptySample, Zenon DEF Healths, i, streaming
<1> QED BY <1>7, <1>8


\* A fold moves a certification made since the last sample behind it.
LEMMA FoldsKeeps == ASSUME IInv, Folds PROVE IInv'
<1> DEFINE h == Tracked(Ingest(sampler.row))
<1>0. /\ h \in Healths /\ h.last = sampler.row /\ h.bound = health.bound
      /\ h.prev.gen \in {0, health.last.gen}
      /\ ~Service => h.streaming =
            Since(health.streaming, Streaming(sampler.row), sampler.row.age)
  BY IngestFacts, Zenon DEF IInv
<1>1. /\ Running /\ sampler.at \in {"read", "hung"} /\ health' = h
      /\ sampler' = [at |-> "done", row |-> NoSample, busy |-> 0]
      /\ proc' = [proc EXCEPT !.cert = IF @ = "after" THEN "between" ELSE "none"]
      /\ run' = [run EXCEPT !.newer = ~Service]
      /\ UNCHANGED <<mode, slot, ctx, hist>>
  BY Zenon DEF Folds
<1> HIDE DEF h
<1>2. /\ proc' \in Procs
      /\ proc'.cert = IF proc.cert = "after" THEN "between" ELSE "none"
  BY <1>1, Zenon DEF IInv, Shape, Procs
<1>3. /\ run' \in Runs /\ run'.at = run.at /\ run'.status = run.status /\ run'.stop = run.stop
  BY <1>1, Zenon DEF IInv, Shape, Runs, Service
<1>4. /\ sampler' \in Samplers /\ sampler'.at = "done" /\ sampler'.row = NoSample
      /\ sampler'.busy = 0
  <2>1. 0 \in Nat OBVIOUS
  <2> QED BY <1>1, <2>1, EmptySample, Zenon DEF Samplers
<1>5. \A g : Proved(g)' => Proved(g)
  <2>1. proc'.cert # "after" /\ (proc'.cert = "between" => proc.cert = "after")
    BY <1>2
  <2> QED BY <1>0, <1>1, <2>1, Zenon DEF Proved
<1>6. /\ HangTicks \in Nat /\ sampler.busy \in Nat /\ sampler.busy <= HangTicks
      /\ slot.gen \in Nat /\ health.last.gen \in Nat /\ 0 <= slot.gen /\ 0 <= HangTicks
      /\ hist.lost \in Nat
  <2>1. /\ sampler.busy \in Nat /\ slot.gen \in Nat /\ sampler.busy <= HangTicks
        /\ health.last.gen \in Nat /\ hist.lost \in Nat
    BY Zenon DEF IInv, Shape, Slots, Samplers, RowInv, Healths, Samples, Hists
  <2> QED BY <2>1, Bounds
<1>7. RowInv'
  <2>1. NONE >= NONE BY DEF NONE
  <2> QED BY <2>1, <1>0, <1>1, <1>4, <1>6, EmptySample, Zenon DEF IInv, RowInv
<1>8. IdentityInv'
  <2>1. ~Proved(sampler.row.gen)' BY <1>4, EmptySample, Zenon DEF Proved
  <2>2. ASSUME Proved(health.last.gen)' PROVE hist.lost <= health'.last.age + HangTicks
    <3>1. Proved(sampler.row.gen) BY <2>2, <1>5, <1>0, <1>1, Zenon
    <3>2. sampler.row.gen # 0 BY <3>1, Zenon DEF Proved
    <3>3. hist.lost <= sampler.busy /\ sampler.row.age >= 0 /\ sampler.row.age \in Int
      BY <3>1, <3>2, Zenon DEF IInv, IdentityInv, RowInv, Shape, Samplers, Samples
    <3>4. health'.last.age = sampler.row.age BY <1>0, <1>1, Zenon
    <3> QED BY <3>3, <3>4, <1>6
  <2>3. Proved(slot.gen)' => slot'.holder # "foreign"
    BY <1>1, <1>5, Zenon DEF IInv, IdentityInv
  <2> QED BY <1>1, <2>1, <2>2, <2>3, Zenon DEF IdentityInv
<1>9. VerdictInv' BY <1>1, <1>3, Zenon DEF IInv, VerdictInv, Stalest
<1>10. ASSUME ~Service PROVE SteadyInv'
  <2>1. SteadyInv BY <1>10, Zenon DEF IInv
  <2>2. health'.last = sampler.row /\ Last' = sampler.row /\ LastAge' = 0
    BY <1>0, <1>1, <1>4, Zenon DEF Last, LastAge
  <2>3. health'.streaming = Since(health.streaming, Streaming(sampler.row), sampler.row.age)
    BY <1>0, <1>1, <1>10, Zenon
  <2>4. ~Streaming(sampler'.row) BY <1>4, EmptySample, Zenon
  <2>5. Prompt \in Nat /\ hist.owed \in Int /\ health.streaming \in Int
        /\ hist.held \in Int
    BY Bounds, Zenon DEF IInv, Shape, Hists, Healths
  <2>6. CASE ~Streaming(sampler.row)
    <3>1. health'.streaming = NONE /\ ~Streaming(Last)' BY <2>2, <2>3, <2>6, Zenon DEF Since
    <3> QED BY <2>1, <2>4, <3>1, <1>1, <1>4 DEF SteadyInv, NONE
  <2>7. CASE Streaming(sampler.row)
    <3>1. sampler.at = "read" /\ sampler.row.age = 0 /\ hist.lost = 0 /\ slot.gen # 0
      BY <2>1, <2>7, Zenon DEF SteadyInv
    <3>2. health'.streaming = IF health.streaming = NONE THEN 0 ELSE health.streaming
      BY <2>3, <2>7, <3>1, Zenon DEF Since
    <3>3. Streaming(Last)' BY <2>2, <2>7, Zenon
    <3>4. health'.streaming >= 0 /\ health'.streaming >= NONE /\ health'.streaming # NONE
      BY <2>1, <2>5, <3>2 DEF SteadyInv, NONE
    <3>5. ASSUME slot.holder = "none", health'.streaming - hist.lost > Prompt
          PROVE  hist.owed <= Prompt + hist.lost
      BY <2>1, <2>5, <3>1, <3>2, <3>5 DEF SteadyInv
    <3>6. ASSUME slot.holder = "ours"
          PROVE  /\ hist.held >= Prompt \/ hist.held >= health'.streaming
                 /\ health'.streaming > Prompt => hist.owed <= Prompt
      BY <2>1, <2>5, <3>1, <3>2, <3>6 DEF SteadyInv
    <3>7. Last'.age = 0 /\ 0 <= 0 BY <2>2, <3>1
    <3>8. sampler'.at # "read" BY <1>4, Zenon
    <3> QED BY <2>1, <2>2, <2>4, <3>1, <3>3, <3>4, <3>5, <3>6, <3>7, <3>8, <1>1, Zenon
         DEF SteadyInv
  <2> QED BY <2>6, <2>7
<1>11. IdleIsHonest' BY <1>1, <1>3, Zenon DEF Running, IdleIsHonest
<1>12. Shape' BY <1>0, <1>1, <1>2, <1>3, <1>4, Zenon DEF IInv, Shape
<1> QED BY <1>1, <1>7, <1>8, <1>9, <1>10, <1>11, <1>12, Zenon DEF IInv, Service

-----------------------------------------------------------------------------
(* The supervisor's loop.                                                   *)

\* A binding repeats what the certification behind it proved.
LEMMA EvaluatesKeeps == ASSUME IInv, Evaluates PROVE IInv'
<1> DEFINE binds == WalsenderIsOurs /\ Last.gen # health.bound
           since == StalledSince(ServiceWitness)
<1>1. /\ Running /\ Service
      /\ health' = [health EXCEPT !.stalled = since, !.mismatch = RouteMismatch,
                                  !.bound = IF binds THEN Last.gen ELSE @]
      /\ proc' = [proc EXCEPT !.cert = IF binds THEN "none" ELSE @]
      /\ run' = [run EXCEPT !.at = "evaluated", !.status = ServiceWitness,
                            !.quiet = ServiceWitness = "connected_quiet" /\ QuietReady]
      /\ ctx' = [ctx EXCEPT !.engine = proc.engine]
      /\ UNCHANGED <<mode, slot, sampler, hist>>
  BY Zenon DEF Evaluates
<1>2. /\ Last \in Samples /\ Last.gen \in Nat /\ Last.age \in Int /\ proc.engine \in BOOLEAN
      /\ health.stalled \in Int /\ RouteMismatch \in BOOLEAN
  <2>1. Last \in Samples /\ proc.engine \in BOOLEAN /\ health.stalled \in Int
    BY Zenon DEF IInv, Shape, Healths, Last, Procs
  <2> QED BY <2>1, Zenon DEF Samples, RouteMismatch
<1>3. since \in Int
  <2>1. NONE \in Int /\ 0 \in Int BY DEF NONE
  <2> QED BY <1>2, <2>1, Zenon DEF StalledSince
<1> HIDE DEF since
<1>4. /\ health' \in Healths /\ health'.last = health.last /\ health'.prev = health.prev
      /\ health'.bound = IF binds THEN Last.gen ELSE health.bound
  <2> HIDE DEF binds
  <2> QED BY <1>1, <1>2, <1>3, Zenon DEF IInv, Shape, Healths
<1>5. proc' \in Procs /\ proc'.cert = IF binds THEN "none" ELSE proc.cert
  <2> HIDE DEF binds
  <2> QED BY <1>1, Zenon DEF IInv, Shape, Procs
<1>6. /\ run' \in Runs /\ run'.at = "evaluated" /\ run'.status = ServiceWitness
      /\ run'.stop = run.stop
  <2>1. (ServiceWitness = "connected_quiet" /\ QuietReady) \in BOOLEAN BY Zenon
  <2> QED BY <1>1, <2>1, WitnessFacts, Zenon DEF IInv, Shape, Runs
<1>7. /\ ctx' \in Contexts /\ ctx'.connected = ctx.connected /\ ctx'.observed = ctx.observed
  BY <1>1, <1>2, Zenon DEF IInv, Shape, Contexts
<1>8. binds => Proved(Last.gen)
  BY Zenon DEF WalsenderIsOurs, Proved, Last
<1>9. \A g : Proved(g)' => Proved(g)
  BY <1>4, <1>5, <1>8, Zenon DEF Proved, Last
<1>10. RowInv'
  BY <1>1, <1>4, Zenon DEF IInv, RowInv, Last
<1>11. IdentityInv'
  BY <1>1, <1>4, <1>9, Zenon DEF IInv, IdentityInv, Stalest
<1>12. VerdictInv'
  <2>1. ASSUME ServiceWitness \in Connected PROVE hist.lost <= SampleStale + HangTicks
    <3>1. Last.age <= SampleStale /\ WalsenderIsOurs
      BY <2>1, WitnessFacts, Zenon DEF SampleFresh, Identity
    <3>2. Proved(health.last.gen) BY <3>1, Zenon DEF WalsenderIsOurs, Proved, Last
    <3>3. Last.age < Stalest BY <3>1, <1>2, Bounds
    <3>4. hist.lost <= Last.age + HangTicks
      BY <3>2, <3>3, Zenon DEF IInv, IdentityInv, Last
    <3>5. hist.lost \in Nat BY Zenon DEF IInv, Shape, Hists
    <3> QED BY <3>1, <3>4, <3>5, <1>2, Bounds
  <2> QED BY <1>1, <1>6, <1>7, <2>1, Zenon DEF IInv, VerdictInv, Stalest
<1>13. IdleIsHonest' BY <1>1, <1>6, Zenon DEF Running, IdleIsHonest
<1>14. Shape' BY <1>1, <1>4, <1>5, <1>6, <1>7, Zenon DEF IInv, Shape
<1> QED BY <1>1, <1>10, <1>11, <1>12, <1>13, <1>14, Zenon DEF IInv, Service

\* A verdict is published with the age of a sample no older than its own.
LEMMA ServiceDecidesKeeps == ASSUME IInv, ServiceDecides PROVE IInv'
<1>1. /\ run.at = "evaluated" /\ ctx' = Observed
      /\ UNCHANGED <<mode, slot, proc, sampler, health, hist>>
  BY Zenon DEF ServiceDecides
<1>2. run' \in Runs /\ run'.at = "done" /\ run'.stop # "idle"
  BY Zenon DEF ServiceDecides, IInv, Shape, Runs, Statuses
<1>3. /\ ctx' \in Contexts
      /\ \/ ctx'.observed = ctx.observed /\ ctx'.connected = ctx.connected
         \/ /\ Last.age # NONE /\ ctx'.observed = Last.age
            /\ ctx'.connected = (run.status \in Connected)
  <2>1. Last.age \in Int /\ proc.engine \in BOOLEAN /\ run.quiet \in BOOLEAN
    BY Zenon DEF IInv, Shape, Healths, Last, Procs, Samples, Runs
  <2>2. (run.status \in Connected) \in BOOLEAN OBVIOUS
  <2> QED BY <1>1, <2>1, <2>2, Zenon DEF Observed, IInv, Shape, Contexts
<1>4. RowInv' /\ IdentityInv'
  <2>1. \A g : Proved(g)' => Proved(g) BY <1>1, Zenon DEF Proved
  <2> QED BY <1>1, <2>1, Zenon DEF IInv, RowInv, IdentityInv, Stalest
<1>5. VerdictInv'
  <2>1. Last.age \in Int /\ hist.lost \in Nat /\ Last.age >= NONE
    BY Zenon DEF IInv, Shape, Healths, Last, Samples, Hists, RowInv
  <2>2. CASE ctx'.observed = ctx.observed /\ ctx'.connected = ctx.connected
    BY <1>1, <1>2, <2>2, Zenon DEF IInv, VerdictInv, Stalest
  <2>3. CASE /\ Last.age # NONE /\ ctx'.observed = Last.age
             /\ ctx'.connected = (run.status \in Connected)
    <3>1. Last.age >= 0 BY <2>1, <2>3 DEF NONE
    <3>2. ctx'.connected => hist.lost <= SampleStale + HangTicks
      BY <1>1, <2>3, Zenon DEF IInv, VerdictInv
    <3>3. ctx'.connected => hist.lost <= Last.age + SampleStale + HangTicks
      BY <2>1, <3>1, <3>2, Bounds
    <3> QED BY <1>1, <1>2, <2>3, <3>1, <3>3, Zenon DEF VerdictInv
  <2> QED BY <1>3, <2>2, <2>3
<1>6. ASSUME ~Service PROVE SteadyInv'
  BY <1>1, <1>6, Zenon DEF IInv, SteadyInv, Last, LastAge, Streaming
<1>7. IdleIsHonest' BY <1>2, Zenon DEF IdleIsHonest
<1>8. Shape' BY <1>1, <1>2, <1>3, Zenon DEF IInv, Shape
<1> QED BY <1>1, <1>4, <1>5, <1>6, <1>7, <1>8, Zenon DEF IInv, Service


\* Silence is called idle after samples that show one walsender without a break.
LEMMA BoundedDecidesKeeps == ASSUME IInv, BoundedDecides PROVE IInv'
<1>1. /\ Running /\ mode = "bounded" /\ run.at = "due" /\ ~Service
      /\ UNCHANGED <<mode, slot, proc, sampler, health, ctx, hist>>
  BY Zenon DEF BoundedDecides, Service
<1>2. /\ run' \in Runs /\ run'.at # "evaluated"
      /\ run'.stop = "idle" => MayDeclareIdle
  <2>0. 0 \in Int /\ NONE \in Int BY DEF NONE
  <2>1. /\ QuietWindow \in Runs /\ QuietWindow.at = "done"
        /\ QuietWindow.stop = "idle" => MayDeclareIdle
    BY <1>1, <2>0, Zenon DEF QuietWindow, IInv, Shape, Runs, Running
  <2>2. \/ run' = [run EXCEPT !.stop = "engine_error"]
        \/ run' = [run EXCEPT !.stop = "source_dark"]
        \/ run' = QuietWindow
    BY Zenon DEF BoundedDecides
  <2>3. CASE run' = QuietWindow BY <2>1, <2>3, Zenon
  <2>4. CASE \/ run' = [run EXCEPT !.stop = "engine_error"]
             \/ run' = [run EXCEPT !.stop = "source_dark"]
    BY <1>1, <2>4, Zenon DEF IInv, Shape, Runs
  <2> QED BY <2>2, <2>3, <2>4
<1>3. RowInv' /\ IdentityInv'
  <2>1. \A g : Proved(g)' => Proved(g) BY <1>1, Zenon DEF Proved
  <2> QED BY <1>1, <2>1, Zenon DEF IInv, RowInv, IdentityInv, Stalest
<1>4. VerdictInv' BY <1>1, <1>2, Zenon DEF IInv, VerdictInv, Stalest
<1>5. SteadyInv'
  BY <1>1, Zenon DEF IInv, SteadyInv, Last, LastAge, Streaming
<1>6. IdleIsHonest'
  <2> SUFFICES ASSUME run'.stop = "idle", health.ever_sampled
               PROVE  hist.owed <= Prompt + SampleStale
    BY <1>1, Zenon DEF IdleIsHonest
  <2>1. Last.age <= SampleStale /\ Age(health.streaming) >= IdleTicks
    BY <1>2, Zenon DEF MayDeclareIdle
  <2>2. /\ SteadyInv /\ health.streaming \in Int /\ hist.lost \in Nat /\ hist.owed \in Int
        /\ slot.holder \in Holders /\ Last.age \in Int
    BY <1>1, Zenon DEF IInv, Shape, Healths, Hists, Slots, Last, Samples
  <2>3. health.streaming # NONE /\ health.streaming >= IdleTicks
    BY <2>1, <2>2, Bounds DEF Age
  <2>4. Streaming(Last) BY <2>2, <2>3, Zenon DEF SteadyInv
  <2>5. CASE slot.holder = "none"
    <3>1. /\ hist.lost <= Last.age
          /\ health.streaming - hist.lost > Prompt => hist.owed <= Prompt + hist.lost
      BY <2>2, <2>4, <2>5, Zenon DEF SteadyInv
    <3> QED BY <3>1, <2>1, <2>2, <2>3, Bounds
  <2>6. CASE slot.holder = "ours"
    <3>1. health.streaming > Prompt => hist.owed <= Prompt
      BY <2>2, <2>4, <2>6, Zenon DEF SteadyInv
    <3> QED BY <3>1, <2>2, <2>3, Bounds
  <2>7. slot.holder # "foreign" BY <2>2, Zenon DEF SteadyInv
  <2> QED BY <2>2, <2>5, <2>6, <2>7, Zenon DEF Holders
<1>7. Shape' BY <1>1, <1>2, Zenon DEF IInv, Shape
<1> QED BY <1>1, <1>3, <1>4, <1>5, <1>6, <1>7, Zenon DEF IInv, Service

-----------------------------------------------------------------------------
(* Time.                                                                    *)

\* What a tick does to the clocks.
LEMMA TickForm ==
  ASSUME IInv, Tick
  PROVE  /\ Running /\ mode' = mode /\ slot' = slot /\ Shape'
         /\ proc'.cert = proc.cert
         /\ health'.bound = health.bound /\ health'.prev = health.prev
         /\ health'.last.gen = health.last.gen
         /\ Streaming(health'.last) = Streaming(health.last)
         /\ health'.last.age = Older(health.last.age, Stalest)
         /\ ~Service => health'.streaming = Older(health.streaming, IdleTicks)
         /\ run'.at = "due" /\ run'.stop = run.stop
         /\ ctx'.connected = ctx.connected /\ ctx'.observed = Older(ctx.observed, Stalest)
         /\ hist'.lost = IF slot.holder = "ours" THEN 0 ELSE Older(hist.lost, LongLost)
         /\ hist'.held = Older(hist.held, Prompt)
         /\ hist'.owed = Older(hist.owed, LongOwed)
         /\ sampler'.row.gen = sampler.row.gen
         /\ Streaming(sampler'.row) = Streaming(sampler.row)
         /\ sampler'.row.age \in {sampler.row.age, Older(sampler.row.age, Stalest)}
         /\ \/ /\ sampler.at = "done" /\ sampler'.at = "due" /\ sampler'.busy = sampler.busy
            \/ /\ sampler.at \in Slow /\ sampler'.at = sampler.at
               /\ sampler.busy < HangTicks /\ sampler'.busy = sampler.busy + 1
<1>0. /\ proc \in Procs /\ sampler \in Samplers /\ health \in Healths /\ ctx \in Contexts
      /\ run \in Runs /\ hist \in Hists /\ sampler.row \in Samples
      /\ health.last \in Samples /\ slot \in Slots /\ sampler.busy + 1 \in Nat /\ 0 \in Nat
      /\ 0 \in Int
  <2>1. /\ proc \in Procs /\ sampler \in Samplers /\ health \in Healths /\ ctx \in Contexts
        /\ run \in Runs /\ hist \in Hists /\ sampler.row \in Samples
        /\ health.last \in Samples /\ slot \in Slots /\ sampler.busy \in Nat
    BY Zenon DEF IInv, Shape, Samplers, Healths
  <2> QED BY <2>1
<1> DEFINE older(clock, cap) == Older(clock, cap)
<1>1. \A clock \in Int : \A cap : Older(clock, cap) \in Int
  BY OlderFacts, Zenon
<1>2. Running /\ mode' = mode /\ slot' = slot /\ run' \in Runs /\ run'.at = "due"
      /\ run'.stop = run.stop
  BY <1>0, <1>1, Zenon DEF Tick, Runs
<1>3. proc' \in Procs /\ proc'.cert = proc.cert
  BY <1>0, <1>1, Zenon DEF Tick, Procs
<1>4. /\ ctx' \in Contexts /\ ctx'.connected = ctx.connected
      /\ ctx'.observed = Older(ctx.observed, Stalest)
  BY <1>0, <1>1, Zenon DEF Tick, Contexts
<1>5. /\ hist'.lost = IF slot.holder = "ours" THEN 0 ELSE Older(hist.lost, LongLost)
      /\ hist'.held = Older(hist.held, Prompt)
      /\ hist'.owed = Older(hist.owed, LongOwed) /\ hist' \in Hists
  <2>1. Older(hist.lost, LongLost) \in Nat
    <3>1. hist.lost \in Nat /\ hist.lost \in Int BY <1>0 DEF Hists
    <3> QED BY <3>1 DEF Older
  <2> HIDE DEF older
  <2> QED BY <1>0, <1>1, <2>1, Zenon DEF Tick, Hists
<1>6. /\ AgedSample(health.last) \in Samples /\ AgedSample(health.last).gen = health.last.gen
      /\ Streaming(AgedSample(health.last)) = Streaming(health.last)
      /\ AgedSample(health.last).age = Older(health.last.age, Stalest)
  BY <1>0, AgedFacts, Zenon
<1>7. /\ health' \in Healths /\ health'.bound = health.bound /\ health'.prev = health.prev
      /\ health'.last = AgedSample(health.last)
      /\ ~Service => health'.streaming = Older(health.streaming, IdleTicks)
  BY <1>0, <1>1, <1>6, Zenon DEF Tick, Healths
<1>8. CASE sampler.at = "done"
  <2>1. sampler' = [sampler EXCEPT !.at = "due"] BY <1>8, Zenon DEF Tick
  <2>2. /\ sampler' \in Samplers /\ sampler'.at = "due" /\ sampler'.busy = sampler.busy
        /\ sampler'.row = sampler.row
    BY <2>1, <1>0, Zenon DEF Samplers
  <2> QED BY <2>2, <1>0, <1>2, <1>3, <1>4, <1>5, <1>6, <1>7, <1>8, Zenon DEF IInv, Shape
<1>9. CASE sampler.at # "done"
  <2>1. /\ sampler.at \in Slow /\ sampler.busy < HangTicks
        /\ sampler' = [sampler EXCEPT !.busy = @ + 1,
                          !.row = IF sampler.at = "hung" THEN AgedSample(@) ELSE @]
    BY <1>9, Zenon DEF Tick
  <2>2. /\ AgedSample(sampler.row) \in Samples
        /\ AgedSample(sampler.row).gen = sampler.row.gen
        /\ Streaming(AgedSample(sampler.row)) = Streaming(sampler.row)
        /\ AgedSample(sampler.row).age = Older(sampler.row.age, Stalest)
    BY <1>0, AgedFacts, Zenon
  <2>3. /\ sampler' \in Samplers /\ sampler'.at = sampler.at
        /\ sampler'.busy = sampler.busy + 1
        /\ sampler'.row \in {sampler.row, AgedSample(sampler.row)}
    BY <2>1, <2>2, <1>0, Zenon DEF Samplers
  <2>4. /\ sampler'.row.gen = sampler.row.gen
        /\ Streaming(sampler'.row) = Streaming(sampler.row)
        /\ sampler'.row.age \in {sampler.row.age, Older(sampler.row.age, Stalest)}
    BY <2>2, <2>3, Zenon
  <2> QED BY <2>1, <2>3, <2>4, <1>0, <1>2, <1>3, <1>4, <1>5, <1>6, <1>7, Zenon
       DEF IInv, Shape
<1> QED BY <1>8, <1>9

LEMMA TickKeeps == ASSUME IInv, Tick PROVE IInv'
<1> USE TickForm
<1>0. /\ hist.lost \in Nat /\ hist'.lost \in Nat /\ sampler.busy \in Nat
      /\ hist'.lost <= hist.lost + 1
      /\ health.last.age \in Int /\ sampler.row.age \in Int /\ ctx.observed \in Int
      /\ HangTicks \in Nat /\ SampleStale \in Nat /\ Stalest \in Nat
  <2>1. /\ hist.lost \in Nat /\ hist'.lost \in Nat /\ sampler.busy \in Nat
        /\ health.last.age \in Int /\ sampler.row.age \in Int /\ ctx.observed \in Int
    BY Zenon DEF IInv, Shape, Hists, Samplers, Samples, Healths, Contexts
  <2>2. hist'.lost \in {0, hist.lost, hist.lost + 1}
    <3>1. hist.lost \in Int BY <2>1
    <3>2. Older(hist.lost, LongLost) \in {hist.lost, hist.lost + 1}
      BY <3>1, OlderFacts, Zenon
    <3> QED BY <3>2, Zenon
  <2> QED BY <2>1, <2>2, Bounds
<1>1. RowInv'
  <2>1. sampler'.busy <= HangTicks BY <1>0 DEF IInv, RowInv
  <2>2. sampler'.row.age >= NONE /\ (sampler.row.gen # 0 => sampler'.row.age >= 0)
    BY <1>0, OlderFacts, Zenon DEF IInv, RowInv
  <2>3. health'.last.age >= NONE /\ (health.last.gen # 0 => health'.last.age >= 0)
    BY <1>0, OlderFacts, Zenon DEF IInv, RowInv
  <2>4. sampler'.at \in {"due", "done"} => sampler.row.gen = 0
    BY Zenon DEF IInv, RowInv, Slow
  <2>5. slot'.holder = "ours" => hist'.lost = 0 BY Zenon
  <2> QED BY <2>1, <2>2, <2>3, <2>4, <2>5, Zenon DEF IInv, RowInv
<1>2. IdentityInv'
  <2>1. \A g : Proved(g)' => Proved(g) BY Zenon DEF Proved
  <2>2. ASSUME Proved(sampler.row.gen)' PROVE hist'.lost <= sampler'.busy
    <3>1. Proved(sampler.row.gen) BY <2>1, <2>2, Zenon
    <3>2. sampler.row.gen # 0 /\ hist.lost <= sampler.busy
      BY <3>1, Zenon DEF Proved, IInv, IdentityInv
    <3>3. sampler'.busy = sampler.busy + 1 BY <3>2, Zenon DEF IInv, RowInv
    <3> QED BY <3>2, <3>3, <1>0
  <2>3. ASSUME Proved(health.last.gen)', health'.last.age < Stalest
        PROVE  hist'.lost <= health'.last.age + HangTicks
    <3>1. Proved(health.last.gen) BY <2>1, <2>3, Zenon
    <3>2. health.last.age >= 0 BY <3>1, Zenon DEF Proved, IInv, RowInv
    <3>3. health.last.age # NONE BY <3>2 DEF NONE
    <3>4. health.last.age < Stalest /\ health'.last.age = health.last.age + 1
      BY <1>0, <2>3, <3>2 DEF Older, NONE
    <3>5. hist.lost <= health.last.age + HangTicks
      BY <3>1, <3>4, Zenon DEF IInv, IdentityInv
    <3> QED BY <3>4, <3>5, <1>0
  <2>4. Proved(slot.gen)' => slot'.holder # "foreign"
    BY <2>1, Zenon DEF IInv, IdentityInv
  <2> QED BY <2>2, <2>3, <2>4, Zenon DEF IdentityInv, Stalest
<1>3. VerdictInv'
  <2>1. ASSUME ctx'.connected
        PROVE  /\ ctx'.observed >= 0
               /\ ctx'.observed < Stalest
                     => hist'.lost <= ctx'.observed + SampleStale + HangTicks
    <3>1. ctx.observed >= 0 BY <2>1, Zenon DEF IInv, VerdictInv
    <3>2. ctx'.observed = Older(ctx.observed, Stalest) BY Zenon
    <3>3. CASE ctx.observed >= Stalest BY <1>0, <3>1, <3>2, <3>3 DEF Older
    <3>4. CASE ctx.observed < Stalest
      <4>1. hist.lost <= ctx.observed + SampleStale + HangTicks
        BY <2>1, <3>4, Zenon DEF IInv, VerdictInv
      <4>2. ctx'.observed = ctx.observed + 1 BY <1>0, <3>1, <3>2, <3>4 DEF Older, NONE
      <4> QED BY <4>1, <4>2, <3>1, <1>0
    <3> QED BY <3>3, <3>4, <1>0
  <2> QED BY <2>1, Zenon DEF VerdictInv, Stalest

<1>4. ASSUME ~Service PROVE SteadyInv'
  <2>1. SteadyInv /\ Last' = health'.last /\ Last = health.last
    BY <1>4, Zenon DEF IInv, Last
  <2>2. sampler.at # "read" /\ sampler'.at # "read" /\ ~Streaming(sampler'.row)
    BY <1>4, <2>1, Zenon DEF Slow, SteadyInv
  <2>3. /\ health.streaming \in Int /\ hist.held \in Int /\ hist.owed \in Int
        /\ health'.streaming \in Int /\ hist'.held \in Int /\ hist'.owed \in Int
        /\ Prompt \in Nat /\ IdleTicks \in Nat
    BY Bounds, Zenon DEF IInv, Shape, Healths, Hists
  <2>4. /\ health'.streaming = Older(health.streaming, IdleTicks)
        /\ hist'.held = Older(hist.held, Prompt) /\ hist'.owed = Older(hist.owed, LongOwed)
    BY <1>4, Zenon
  <2>5. /\ health'.streaming >= NONE /\ hist'.owed >= NONE
        /\ health'.streaming # NONE <=> health.streaming # NONE
        /\ hist.held >= 0 => hist'.held >= 0
        /\ health'.streaming <= health.streaming + 1 /\ hist'.owed <= hist.owed + 1
    <3>1. health.streaming >= NONE /\ hist.owed >= NONE BY <2>1, Zenon DEF SteadyInv
    <3> QED BY <3>1, <2>3, <2>4 DEF Older, NONE
  <2>6. ASSUME Streaming(Last)
        PROVE  /\ slot.gen # 0 /\ 0 <= Last'.age /\ Last'.age <= LastAge'
               /\ slot.holder = "none" =>
                     /\ hist'.lost <= Last'.age
                     /\ health'.streaming - hist'.lost > Prompt
                           => hist'.owed <= Prompt + hist'.lost
               /\ slot.holder = "ours" =>
                     /\ hist'.held >= Prompt \/ hist'.held >= health'.streaming
                     /\ health'.streaming > Prompt => hist'.owed <= Prompt
    <3>1. slot.gen # 0 /\ 0 <= Last.age /\ Last.age <= LastAge
      BY <2>1, <2>6, Zenon DEF SteadyInv
    <3>2. LastAge <= HangTicks /\ LastAge \in Nat /\ LastAge' = LastAge + 1
      BY <1>0, <1>4, <2>2 DEF LastAge, Slow
    <3>3. Last'.age = Last.age + 1
      <4>1. Last.age < Stalest /\ Last.age # NONE
        BY <3>1, <3>2, <1>0, <2>1, Bounds DEF NONE
      <4> QED BY <4>1, <2>1, <1>0, Bounds DEF Older
    <3>4. ASSUME slot.holder = "none"
          PROVE  /\ hist'.lost <= Last'.age
                 /\ health'.streaming - hist'.lost > Prompt
                       => hist'.owed <= Prompt + hist'.lost
      <4>1. /\ hist.lost <= Last.age
            /\ health.streaming - hist.lost > Prompt => hist.owed <= Prompt + hist.lost
        BY <2>1, <2>6, <3>4, Zenon DEF SteadyInv
      <4>2. hist'.lost = hist.lost + 1
        <5>1. hist.lost < LongLost /\ LongLost \in Int
          <6>1. LongLost = Backoff("bounded") + 1
            <7>1. mode = "bounded" BY <1>4, Zenon DEF IInv, Shape, Service
            <7>2. (IF Service THEN {RenewalLag, DarkLag} ELSE {}) \union {Backoff(mode)}
                     = {Backoff("bounded")}
              BY <1>4, <7>1, Zenon
            <7>3. MaxOf({Backoff("bounded")}) = Backoff("bounded")
              BY Bounds DEF MaxOf
            <7> QED BY <7>2, <7>3, Zenon DEF LongLost
          <6> QED BY <6>1, <4>1, <3>1, <3>2, <1>0, <2>1, Bounds
        <5>2. hist.lost # NONE /\ hist.lost \in Int BY <1>0 DEF NONE
        <5> QED BY <5>1, <5>2, <3>4, OlderFacts, Zenon
      <4> QED BY <4>1, <4>2, <3>3, <2>3, <2>5, <1>0, <2>1
    <3>5. ASSUME slot.holder = "ours"
          PROVE  /\ hist'.held >= Prompt \/ hist'.held >= health'.streaming
                 /\ health'.streaming > Prompt => hist'.owed <= Prompt
      <4>1. /\ hist.held >= Prompt \/ hist.held >= health.streaming
            /\ hist.held >= 0
        BY <2>1, <2>6, <3>5, Zenon DEF SteadyInv
      <4>2. hist'.held >= Prompt \/ hist'.held >= health'.streaming
        BY <4>1, <2>3, <2>4, <2>5 DEF Older, NONE
      <4>3. ASSUME health'.streaming > Prompt PROVE hist'.owed <= Prompt
        <5>1. hist.held >= Prompt BY <4>1, <4>3, <2>3, <2>5
        <5>2. hist.owed < Prompt BY <5>1, <1>4, Zenon DEF Tick, Delivered
        <5> QED BY <5>2, <2>3, <2>5
      <4> QED BY <4>2, <4>3
    <3> QED BY <3>1, <3>2, <3>3, <3>4, <3>5, <1>0, <2>1
  <2>7. Streaming(Last)' <=> Streaming(Last)
    BY <2>1, Zenon DEF Streaming
  <2> QED BY <2>1, <2>2, <2>5, <2>6, <2>7, Zenon DEF SteadyInv
<1>5. IdleIsHonest' BY Zenon DEF Running, IdleIsHonest
<1> QED BY <1>1, <1>2, <1>3, <1>4, <1>5, Zenon DEF IInv, Service


-----------------------------------------------------------------------------
(* The theorems.                                                            *)

LEMMA InitHolds == ASSUME Init PROVE IInv
<1>0. /\ 0 \in Nat /\ 0 \in Int /\ NONE \in Int /\ 0 <= 0 /\ NONE >= NONE /\ NONE < 0
  BY DEF NONE
<1>1. /\ mode \in {"service", "bounded"}
  BY HealthAssumption, Zenon DEF Init
<1>2. slot \in Slots /\ slot.holder = "none" /\ slot.gen = 0
  BY <1>0, Zenon DEF Init, Slots, Holders
<1>3. proc \in Procs /\ proc.cert = "none"
  <2>1. PICK completed \in BOOLEAN :
          proc = [engine |-> TRUE, received |-> 0, durable |-> 0,
                  acked |-> NONE, completed |-> completed, ignored |-> FALSE,
                  progress |-> NONE, ack |-> NONE, cert |-> "none", batch |-> 0]
    BY Zenon DEF Init
  <2> QED BY <1>0, <2>1, Zenon DEF Procs
<1>4. /\ sampler \in Samplers /\ sampler.row = NoSample /\ sampler.busy = 0
      /\ sampler.at = "due"
  BY <1>0, EmptySample, Zenon DEF Init, Samplers
<1>5. /\ health \in Healths /\ health.last = NoSample /\ health.prev = NoSample
      /\ health.bound = 0 /\ health.streaming = NONE
  BY <1>0, EmptySample, Zenon DEF Init, NoHealth, Healths
<1>6. ctx \in Contexts /\ ~ctx.connected
  BY <1>0, Zenon DEF Init, Contexts
<1>7. run \in Runs /\ run.at = "due" /\ run.stop = "none"
  BY <1>0, Zenon DEF Init, Runs, Statuses
<1>8. hist \in Hists /\ hist.lost = 0 /\ hist.held = NONE /\ hist.owed = NONE
  BY <1>0, Zenon DEF Init, Hists
<1>9. HangTicks \in Nat /\ 0 <= HangTicks BY Bounds
<1>10. RowInv
  BY <1>0, <1>2, <1>4, <1>5, <1>8, <1>9, EmptySample, Zenon DEF RowInv
<1>11. IdentityInv
  BY <1>2, <1>3, <1>4, <1>5, EmptySample, Zenon DEF IdentityInv, Proved
<1>12. VerdictInv BY <1>6, <1>7, Zenon DEF VerdictInv
<1>13. SteadyInv
  BY <1>0, <1>2, <1>4, <1>5, <1>8, EmptySample, Zenon DEF SteadyInv, Last
<1>14. IdleIsHonest BY <1>7, Zenon DEF IdleIsHonest
<1> QED BY <1>1, <1>2, <1>3, <1>4, <1>5, <1>6, <1>7, <1>8, <1>10, <1>11, <1>12, <1>13,
           <1>14, Zenon DEF IInv, Shape

LEMMA StutterKeeps == ASSUME IInv, UNCHANGED vars PROVE IInv'
<1>1. UNCHANGED <<mode, slot, proc, sampler, health, ctx, run, hist>>
  BY Zenon DEF vars
<1>2. Shape' /\ RowInv' BY <1>1, Zenon DEF IInv, Shape, RowInv
<1>3. IdentityInv' /\ VerdictInv'
  BY <1>1, Zenon DEF IInv, IdentityInv, VerdictInv, Proved, Stalest
<1>4. ~Service' => SteadyInv'
  BY <1>1, Zenon DEF IInv, SteadyInv, Last, LastAge, Streaming, Service
<1>5. IdleIsHonest' BY <1>1, Zenon DEF IInv, IdleIsHonest
<1> QED BY <1>2, <1>3, <1>4, <1>5, Zenon DEF IInv, Service

LEMMA StepKeeps == ASSUME IInv, [Next]_vars PROVE IInv'
<1>1. CASE \/ SourceWrites \/ Attaches \/ Detaches \/ Trespasses \/ RouteFlips \/ Consumes
           \/ Confirms
  BY <1>1, SourceKeeps, AttachesKeeps, DetachesKeeps, TrespassesKeeps, Zenon
<1>2. CASE \E b \in BOOLEAN : DataCallback(b) \/ ControlCallback(b)
  BY <1>2, CallbacksKeep, Zenon
<1>3. CASE Reads \/ Fails \/ Resumes \/ Folds
  BY <1>3, SamplesKeep, FoldsKeeps, Zenon
<1>4. CASE Evaluates \/ ServiceDecides \/ BoundedDecides \/ Tick
  BY <1>4, EvaluatesKeeps, ServiceDecidesKeeps, BoundedDecidesKeeps, TickKeeps, Zenon
<1>5. CASE Stopped \/ UNCHANGED vars
  BY <1>5, StutterKeeps, Zenon DEF Stopped
<1> QED BY <1>1, <1>2, <1>3, <1>4, <1>5, Zenon DEF Next

LEMMA Invariance == Spec => []IInv
<1>1. Init => IInv BY InitHolds, Zenon
<1>2. IInv /\ [Next]_vars => IInv' BY StepKeeps, Zenon
<1> QED BY <1>1, <1>2, PTL DEF Spec

\* A lease is renewed only while this process' own walsender holds the slot, or
\* lost it no longer ago than sample, read and publication may be old, whoever
\* else takes the slot and however often (renewal_witness_allows,
\* _walsender_is_ours).
THEOREM RenewalIsEarned == Spec => []RenewalIsOurs
<1>1. IInv => RenewalIsOurs
  <2> SUFFICES ASSUME IInv, RenewalAllowed PROVE hist.lost <= RenewalLag
    BY Zenon DEF RenewalIsOurs
  <2>1. ctx.connected /\ ctx.observed <= ProgressStale BY Zenon DEF RenewalAllowed
  <2>2. ctx.observed \in Int /\ hist.lost \in Nat BY Zenon DEF IInv, Shape, Contexts, Hists
  <2>3. ctx.observed < Stalest BY <2>1, <2>2, Bounds
  <2>4. hist.lost <= ctx.observed + SampleStale + HangTicks
    BY <2>1, <2>3, Zenon DEF IInv, VerdictInv
  <2> QED BY <2>1, <2>2, <2>4, Bounds DEF RenewalLag
<1> QED BY <1>1, Invariance, PTL

\* A bounded run that calls its stream idle received every row the source held
\* for longer than a delivery and a sample may take, whatever walsenders were
\* lost and reads failed before (may_declare_idle, _quiet_window).
THEOREM IdleIsEarned == Spec => []IdleIsHonest
<1>1. IInv => IdleIsHonest BY Zenon DEF IInv
<1> QED BY <1>1, Invariance, PTL
=============================================================================
