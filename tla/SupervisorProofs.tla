---------------------------- MODULE SupervisorProofs ----------------------------
(***************************************************************************)
(* Proofs about Supervisor, for any modes, source positions and number of  *)
(* faults: no handle is given up around a callback, a success is a         *)
(* completed delivery, and a cause outlives its symptoms.                  *)
(***************************************************************************)
EXTENDS Supervisor, WellFoundedInduction, TLAPS

-----------------------------------------------------------------------------
(* The shape of the state.                                                  *)

Outcomes == {"max_seconds", "idle", "work_done", "engine_finished", "hung",
             "catalog_unresolved", "recovery_uncleared", "source_dark",
             "engine_error", "error"}

\* What a verdict takes for a failure, and what the loop and the shutdown record.
Refused == {"hung", "source_dark", "engine_error"}

Recorded == {"max_seconds", "idle", "work_done", "engine_finished"} \union Refused

\* The stages before the verdict, and those after it.
BeforeVerdict == {"loop", "locked", "stop", "ack", "seal", "quiesce", "executors",
                  "close", "closing", "join", "catalog", "verdict"}

AfterVerdict == {"coordinate", "unwind", "report", "teardown", "exit"}

Stages == BeforeVerdict \union AfterVerdict

Sources == [wal : Nat, confirmed : Nat, up : BOOLEAN, slot : BOOLEAN,
            writable : BOOLEAN]

Samples == [sampled : BOOLEAN, fresh : BOOLEAN, dark : BOOLEAN, slotFailed : BOOLEAN]

Engines == [alive : BOOLEAN, failure : BOOLEAN, closed : BOOLEAN]

Appliers == [callback : {"none", "group", "committed"}, received : Nat, durable : Nat,
             error : BOOLEAN, sealed : BOOLEAN]

Services == [drain : BOOLEAN, stalled : BOOLEAN, lost : BOOLEAN, quiet : BOOLEAN,
             teardown : BOOLEAN, exiting : BOOLEAN]

Catalogs == [alive : BOOLEAN, polls : {"never", "ok", "undeclared"},
             pending : BOOLEAN, new : BOOLEAN]

Snapshots == [required : BOOLEAN, completed : BOOLEAN]

Watermarks == [state : {"unarmed", "unavailable", "armed", "reached"}, target : Nat]

\* Why a run may be refused, and the states of the shutdown sequence.
Evidence == {"local_slot", "unobservable", "error_box", "interrupt", "ack_timeout"}

ShutdownStates ==
  {"open", "ack_not_required", "ack_pending", "ack_complete", "ack_failed",
   "admission_sealed", "callbacks_quiescent", "callback_owned", "own_executors_stopped",
   "engine_closing", "engine_closed", "engine_thread_stopped", "hung"}

Runs == [at : Stages, outcome : Outcomes,
         verdict : {"none", "ok", "failed"}, sequence : ShutdownStates,
         finalPoll : BOOLEAN, unresolved : BOOLEAN, evidence : SUBSET Evidence,
         quiesced : BOOLEAN,
         poller : BOOLEAN, handoff : BOOLEAN, initial : Nat, asked : Nat]

Destinations == [token : {"active", "available", "callback_owned"},
                 lease : {"held", "released"}, con : {"open", "closed"}]

Shape ==
  /\ mode \in {"service", "finite"}
  /\ source \in Sources /\ health \in Samples /\ engine \in Engines
  /\ applier \in Appliers /\ service \in Services /\ catalog \in Catalogs
  /\ snapshot \in Snapshots /\ watermark \in Watermarks /\ run \in Runs
  /\ destination \in Destinations

-----------------------------------------------------------------------------
(* The inductive invariant.                                                 *)

\* No callback is inside and none will be admitted.
Quiet == applier.sealed /\ ~Busy

\* From the proof of quiescence on, whatever is closed, retired or released is
\* so under a quiet applier; only the end of the teardown releases anything.
QuietInv ==
  /\ run.at = "quiesce" => applier.sealed
  /\ run.at \in {"executors", "close", "closing", "join"} => Quiet
  /\ engine.closed => Quiet
  /\ destination.token = "available" =>
       Quiet /\ run.at \in {"unwind", "report", "teardown", "exit"}
  /\ destination.lease = "released" \/ destination.con = "closed" =>
       destination.token = "available" /\ run.at = "exit"

\* Positions: nothing is durable before it is received, a marker that was
\* reached stays passed, and outside the wait the slot confirmed what was asked.
PositionInv ==
  /\ applier.durable <= applier.received
  /\ watermark.state = "reached" => applier.durable >= watermark.target
  /\ run.at # "ack" => source.confirmed >= run.asked

\* Before the verdict: outcomes are the loop's and the shutdown's, the ownership
\* token is active unless a callback was found inside, and a shutdown that did
\* not prove the engine stopped says so in its outcome.
ShutdownInv ==
  /\ run.at \in BeforeVerdict => run.outcome \in Recorded /\ run.verdict = "none"
  /\ run.at \in BeforeVerdict /\ run.quiesced => destination.token = "active"
  /\ run.at \in {"catalog", "verdict"} /\ run.quiesced =>
       Quiet /\ (~engine.alive \/ run.outcome \in Refused)
  /\ run.at = "verdict" /\ run.poller /\ ~run.handoff => ~catalog.alive
  /\ run.handoff => mode = "finite" /\ catalog.new

\* A verdict of success, once given, stays true up to the exit.
SuccessInv ==
  run.verdict = "ok" =>
    /\ run.at \in {"coordinate", "teardown", "exit"}
    /\ Quiet /\ SnapshotEnded
    /\ ~applier.error /\ ~engine.failure /\ ~engine.alive
    /\ catalog.polls = "ok" /\ destination.token # "callback_owned"
    /\ ~run.handoff => ~catalog.pending /\ ~catalog.alive
    /\ run.at # "coordinate" => ~run.handoff /\ (catalog.new => mode = "service")
    /\ run.at = "exit" =>
         destination.lease = "released" /\ destination.con = "closed"

ExitInv == process = "ok" => run.at = "exit" /\ run.verdict = "ok"

IInv == /\ Shape /\ QuietInv /\ PositionInv /\ ShutdownInv /\ SuccessInv /\ ExitInv

-----------------------------------------------------------------------------
(* Early-return chains and outcomes.                                        *)

\* A non-empty set of naturals has a least element.
LEMMA LeastOf ==
  ASSUME NEW T \in SUBSET Nat, T # {}
  PROVE  \E i \in T : \A j \in T : i <= j
  <1>1. PICK x \in T : \A y \in T : ~(<<y, x>> \in OpToRel(<, Nat))
    BY NatLessThanWellFounded, WFMin, Zenon
  <1>2. ASSUME NEW y \in T PROVE x <= y
    <2>1. ~(<<y, x>> \in {ss \in Nat \X Nat : ss[1] < ss[2]})
      BY <1>1 DEF OpToRel
    <2> QED BY <2>1
  <1> QED BY <1>2

\* An early-return chain that returns a reason has a condition that holds.
LEMMA FirstOfIsHeld ==
  ASSUME NEW chain, DOMAIN chain \in SUBSET Nat,
         NEW x, FirstOf(chain) = x
  PROVE  \/ x = "none" /\ \A i \in DOMAIN chain : ~chain[i][1]
         \/ \E i \in DOMAIN chain : chain[i][1] /\ chain[i][2] = x
  <1> DEFINE held == {i \in DOMAIN chain : chain[i][1]}
  <1>1. CASE held = {}
    BY <1>1 DEF FirstOf
  <1>2. CASE held # {}
    <2>1. \E i \in held : \A j \in held : i <= j
      BY <1>2, LeastOf, Zenon
    <2> DEFINE k == CHOOSE i \in held : \A j \in held : i <= j
    <2>2. k \in held
      BY <2>1
    <2>3. x = chain[k][2]
      BY <1>2 DEF FirstOf
    <2> QED BY <2>2, <2>3, Zenon
  <1> QED BY <1>1, <1>2

\* The rank of an outcome is its place in the declared order.
LEMMA RankIs ==
  ASSUME NEW n \in 1..10
  PROVE  Rank(OUTCOME_ORDER[n]) = n
  <1>1. \A i, j \in DOMAIN OUTCOME_ORDER : OUTCOME_ORDER[i] = OUTCOME_ORDER[j] => i = j
    BY DEF OUTCOME_ORDER
  <1>2. DOMAIN OUTCOME_ORDER = 1..10
    BY DEF OUTCOME_ORDER
  <1> QED BY <1>1, <1>2 DEF Rank

\* The ranks of the declared outcomes.
LEMMA Ranks ==
  /\ Rank("max_seconds") = 1 /\ Rank("idle") = 2 /\ Rank("work_done") = 3
  /\ Rank("engine_finished") = 4 /\ Rank("hung") = 5
  /\ Rank("catalog_unresolved") = 6 /\ Rank("recovery_uncleared") = 7
  /\ Rank("source_dark") = 8 /\ Rank("engine_error") = 9 /\ Rank("error") = 10
  <1>1. /\ OUTCOME_ORDER[1] = "max_seconds" /\ OUTCOME_ORDER[2] = "idle"
        /\ OUTCOME_ORDER[3] = "work_done" /\ OUTCOME_ORDER[4] = "engine_finished"
        /\ OUTCOME_ORDER[5] = "hung" /\ OUTCOME_ORDER[6] = "catalog_unresolved"
        /\ OUTCOME_ORDER[7] = "recovery_uncleared" /\ OUTCOME_ORDER[8] = "source_dark"
        /\ OUTCOME_ORDER[9] = "engine_error" /\ OUTCOME_ORDER[10] = "error"
    BY DEF OUTCOME_ORDER
  <1> QED BY <1>1, RankIs

\* Recording keeps one of the two outcomes and is never less severe than either.
LEMMA RecordIs ==
  ASSUME NEW a \in Outcomes, NEW b \in Outcomes
  PROVE  /\ Record(a, b) \in {a, b}
         /\ Rank(Record(a, b)) >= Rank(a) /\ Rank(Record(a, b)) >= Rank(b)
         /\ Rank(a) \in 1..10
  BY Ranks DEF Record, Outcomes

\* What the shutdown records is refused by the verdict.
LEMMA RefusedStays ==
  ASSUME NEW a \in Recorded, NEW b \in Refused
  PROVE  Record(a, b) \in Refused
  BY Ranks DEF Record, Recorded, Refused

\* What the loop records stays an outcome of the loop or the shutdown.
LEMMA RecordedStays ==
  ASSUME NEW a \in Recorded, NEW b \in Recorded
  PROVE  Record(a, b) \in Recorded
  BY DEF Record

\* The reasons for which a service or a finite run leaves its loop.
LEMMA ServiceReasons ==
  ASSUME NEW t \in BOOLEAN
  PROVE  ServiceStop(t) \in {"none", "local_slot", "dark", "unobservable", "barrier",
                             "drained", "drain_timeout", "failure"}
  <1> DEFINE chain == <<
        <<health.slotFailed, "local_slot">>,
        <<health.dark, "dark">>,
        <<~health.sampled /\ t, "unobservable">>,
        <<service.lost \/ service.stalled, "barrier">>,
        <<service.drain /\ ~Busy, "drained">>,
        <<service.drain /\ t, "drain_timeout">>,
        <<service.drain, "none">>,
        <<engine.failure, "failure">> >>
  <1>1. DOMAIN chain = 1..8
    OBVIOUS
  <1>2. \A i \in 1..8 : chain[i][2] \in {"none", "local_slot", "dark", "unobservable",
                             "barrier", "drained", "drain_timeout", "failure"}
    OBVIOUS
  <1>3. ServiceStop(t) = FirstOf(chain)
    BY DEF ServiceStop
  <1> HIDE DEF chain
  <1> QED BY <1>1, <1>2, <1>3, FirstOfIsHeld

\* A finite run hands off only for a new relation.
LEMMA FiniteReasons ==
  ASSUME NEW l \in BOOLEAN, NEW t \in BOOLEAN
  PROVE  /\ FiniteStop(l, t) \in {"none", "ceiling", "local_slot", "failure", "dark",
                                  "unobservable", "handoff"}
         /\ FiniteStop(l, t) = "handoff" => catalog.new
  <1> DEFINE chain == <<
        <<l, "ceiling">>,
        <<health.slotFailed, "local_slot">>,
        <<engine.failure, "failure">>,
        <<health.dark, "dark">>,
        <<~health.sampled /\ t, "unobservable">>,
        <<catalog.new /\ SnapshotEnded /\ ~Busy, "handoff">> >>
  <1>1. DOMAIN chain = 1..6
    OBVIOUS
  <1>2. \A i \in 1..6 : chain[i][2] \in {"ceiling", "local_slot", "failure", "dark",
                                         "unobservable", "handoff"}
    OBVIOUS
  <1>3. \A i \in 1..6 : chain[i][2] = "handoff" => i = 6
    OBVIOUS
  <1>5. chain[6][1] => catalog.new
    BY Zenon
  <1>4. FiniteStop(l, t) = FirstOf(chain)
    BY DEF FiniteStop
  <1> HIDE DEF chain
  <1> QED BY <1>1, <1>2, <1>3, <1>4, <1>5, FirstOfIsHeld

\* A verdict without a reason has passed every check.
LEMMA NoReason ==
  ASSUME NEW d \in BOOLEAN, NEW o \in BOOLEAN, VerdictReason(d, o) = "none"
  PROVE  /\ run.quiesced /\ ~applier.error /\ ~engine.failure
         /\ run.outcome \notin Refused /\ SnapshotEnded
         /\ run.poller /\ catalog.polls = "ok"
         /\ ~run.handoff => ~catalog.pending
  <1> DEFINE chain == <<
        <<"interrupt" \in run.evidence, "interrupt">>,
        <<"ack_timeout" \in run.evidence, "ack_timeout">>,
        <<"unobservable" \in run.evidence, "unobservable">>,
        <<"local_slot" \in run.evidence, "local_slot">>,
        <<~run.quiesced, "callback_owned">>,
        <<"error_box" \in run.evidence \/ applier.error \/ engine.failure, "failure">>,
        <<run.outcome \in {"hung", "source_dark", "engine_error"}, "outcome">>,
        <<~SnapshotEnded, "snapshot">>,
        <<run.outcome = "engine_finished", "engine_died">>,
        <<mode = "finite" /\ run.outcome = "max_seconds"
            /\ (watermark.state \in {"armed", "unarmed"} \/ d), "ceiling">>,
        <<~run.poller, "poller">>,
        <<catalog.polls # "ok", "poller">>,
        <<~run.handoff /\ (catalog.pending \/ run.unresolved), "catalog">>,
        <<~run.handoff /\ ~snapshot.required /\ o, "catalog">> >>
  <1>1. DOMAIN chain = 1..14
    OBVIOUS
  <1>2. \A i \in 1..14 : chain[i][2] # "none"
    OBVIOUS
  <1>3. FirstOf(chain) = "none"
    BY DEF VerdictReason
  <1>4. \A i \in 1..14 : ~chain[i][1]
    <2> HIDE DEF chain
    <2> QED BY <1>1, <1>2, <1>3, FirstOfIsHeld
  <1>5. /\ ~chain[5][1] /\ ~chain[6][1] /\ ~chain[7][1] /\ ~chain[8][1]
        /\ ~chain[11][1] /\ ~chain[12][1] /\ ~chain[13][1]
    <2> HIDE DEF chain
    <2> QED BY <1>4, SMTT(30)
  <1> QED BY <1>5, Zenon DEF Refused

-----------------------------------------------------------------------------
(* The steps of the main thread that decide something, in the form the      *)
(* invariant needs.                                                         *)

\* A break of the loop records an outcome of the loop; only a finite run with a
\* new relation hands off.
LEMMA LoopForm ==
  ASSUME Shape, LoopStops
  PROVE  \E o \in Recorded, ev \in SUBSET Evidence, h \in BOOLEAN :
           /\ run' = [run EXCEPT !.at = "stop", !.outcome = Record(run.outcome, o),
                                 !.evidence = ev, !.handoff = h]
           /\ h => mode = "finite" /\ catalog.new
  <1>1. PICK late \in BOOLEAN, timeUp \in BOOLEAN :
          LET reason == IF mode = "service" THEN ServiceStop(timeUp)
                                            ELSE FiniteStop(late, timeUp)
          IN  /\ reason # "none"
              /\ \E outcome \in OutcomesFor(reason) :
                   run' = [run EXCEPT !.at = "stop",
                             !.outcome = Record(run.outcome, outcome),
                             !.evidence = run.evidence \union
                                 ({reason} \intersect {"local_slot", "unobservable"}),
                             !.handoff = (reason = "handoff")]
    BY Zenon DEF LoopStops
  <1> DEFINE reason == IF mode = "service" THEN ServiceStop(timeUp)
                                           ELSE FiniteStop(late, timeUp)
             ev == run.evidence \union
                     ({reason} \intersect {"local_slot", "unobservable"})
  <1>2. /\ reason \in {"local_slot", "dark", "unobservable", "barrier", "drained",
                       "drain_timeout", "failure", "ceiling", "handoff"}
        /\ reason = "handoff" => mode # "service" /\ catalog.new
    BY <1>1, ServiceReasons, FiniteReasons, SMTT(30)
  <1>3. PICK o \in OutcomesFor(reason) :
          run' = [run EXCEPT !.at = "stop", !.outcome = Record(run.outcome, o),
                             !.evidence = ev, !.handoff = (reason = "handoff")]
    BY <1>1, Zenon
  <1> HIDE DEF reason
  <1>4. o \in Recorded
    BY <1>2, <1>3 DEF OutcomesFor, Recorded, Refused
  <1>5. ev \in SUBSET Evidence
    BY DEF Shape, Runs, Evidence
  <1>6. mode # "service" => mode = "finite"
    BY DEF Shape
  <1>7. (reason = "handoff") \in BOOLEAN
    BY SMTT(30)
  <1> HIDE DEF ev
  <1> QED BY <1>2, <1>3, <1>4, <1>5, <1>6, <1>7, ZenonT(30)

\* The end of the engine thread does the same.
LEMMA GoneForm ==
  ASSUME Shape, EngineGone
  PROVE  \E o \in Recorded, ev \in SUBSET Evidence :
           run' = [run EXCEPT !.at = "stop", !.outcome = Record(run.outcome, o),
                              !.evidence = ev]
  <1>1. PICK o \in CASE mode = "finite" -> {"engine_finished"}
                     [] health.slotFailed \/ service.drain -> {"engine_error"}
                     [] OTHER -> {"source_dark", "engine_error"},
             probe \in {{}, {"error_box"}} :
          run' = [run EXCEPT !.at = "stop", !.outcome = Record(run.outcome, o),
                    !.evidence = run.evidence \union probe \union
                        (IF mode = "service" /\ health.slotFailed
                         THEN {"local_slot"} ELSE {})]
    BY Zenon DEF EngineGone
  <1>2. o \in Recorded
    BY DEF Recorded, Refused
  <1>3. run.evidence \union probe \union
            (IF mode = "service" /\ health.slotFailed THEN {"local_slot"} ELSE {})
          \in SUBSET Evidence
    <2>1. run.evidence \in SUBSET Evidence
      BY DEF Shape, Runs
    <2>2. probe \in SUBSET Evidence
      BY SMTT(30) DEF Evidence
    <2> QED BY <2>1, <2>2 DEF Evidence
  <1> QED BY <1>1, <1>2, <1>3, ZenonT(30)

\* The shutdown asks the slot for a position, unless it has confirmed it or
\* nothing is owed.
LEMMA ShutdownForm ==
  ASSUME Shape, BeginShutdown
  PROVE  \E o \in {run.outcome, Record(run.outcome, "engine_error")},
            s \in ShutdownStates, a \in {"ack", "seal"}, n \in Nat, w \in Nat :
           /\ run' = [run EXCEPT !.outcome = o, !.sequence = s, !.at = a,
                                 !.finalPoll = FALSE, !.initial = 0, !.asked = n]
           /\ source' = [source EXCEPT !.wal = w]
           /\ a = "seal" => source.confirmed >= n
  <1> DEFINE barrier == service.lost \/ service.stalled
             o == IF barrier THEN Record(run.outcome, "engine_error")
                             ELSE run.outcome
             required == /\ applier.durable > run.initial
                         /\ health.sampled
                         /\ o \notin {"source_dark", "hung", "engine_error"}
             pending(stale) == required /\ (stale \/ source.confirmed < applier.durable)
             marked(stale) == pending(stale) /\ source.writable /\ source.up
                                             /\ source.wal < MaxLsn(mode)
             s(stale) == IF pending(stale) THEN "ack_pending"
                         ELSE IF required THEN "ack_complete"
                         ELSE "ack_not_required"
             a(stale) == IF pending(stale) THEN "ack" ELSE "seal"
             n(stale) == IF ~required THEN 0
                         ELSE IF marked(stale) THEN source.wal + 1
                         ELSE applier.durable
  <1>1. PICK stale \in BOOLEAN :
          /\ source' = IF marked(stale) THEN [source EXCEPT !.wal = @ + 1] ELSE source
          /\ run' = [run EXCEPT !.outcome = o, !.sequence = s(stale), !.at = a(stale),
                                !.finalPoll = FALSE, !.initial = 0, !.asked = n(stale)]
    BY ZenonT(30) DEF BeginShutdown
  <1>2. source.wal \in Nat /\ source.confirmed \in Nat /\ applier.durable \in Nat
    BY DEF Shape, Sources, Appliers
  <1>3. n(stale) \in Nat
    BY <1>2
  <1>4. a(stale) = "seal" => source.confirmed >= n(stale)
    BY <1>2
  <1>5. \E w \in Nat : source' = [source EXCEPT !.wal = w]
    <2>1. CASE marked(stale)
      BY <1>1, <1>2, <2>1
    <2>2. CASE ~marked(stale)
      <3>1. source = [source EXCEPT !.wal = source.wal]
        BY DEF Shape, Sources
      <3> QED BY <1>1, <1>2, <2>2, <3>1
    <2> QED BY <2>1, <2>2
  <1>6. o \in {run.outcome, Record(run.outcome, "engine_error")}
    OBVIOUS
  <1>7. s(stale) \in ShutdownStates /\ a(stale) \in {"ack", "seal"}
    <2> HIDE DEF pending, required
    <2> QED BY DEF ShutdownStates
  <1> HIDE DEF o, s, a, n
  <1> QED BY <1>1, <1>3, <1>4, <1>5, <1>6, <1>7, ZenonT(30)

\* A verdict finds nothing against the run, or starts over as a failure whose
\* outcome is no less severe.
LEMMA VerdictForm ==
  ASSUME Shape, Verdict
  PROVE  \/ /\ run' = [run EXCEPT !.verdict = "ok", !.at = "coordinate"]
            /\ UNCHANGED watermark
            /\ run.quiesced /\ ~applier.error /\ ~engine.failure
            /\ run.outcome \notin Refused /\ SnapshotEnded
            /\ run.poller /\ catalog.polls = "ok"
            /\ ~run.handoff => ~catalog.pending
         \/ \E o \in Outcomes :
              /\ run' = [Locals EXCEPT !.at = "unwind", !.outcome = o,
                                       !.verdict = "failed"]
              /\ watermark' = [state |-> "unarmed", target |-> 0]
              /\ Rank(o) >= Rank(run.outcome)
  <1>1. PICK dark \in BOOLEAN, owing \in BOOLEAN :
          LET reason  == VerdictReason(dark, owing)
              outcome == VerdictOutcome(reason)
          IN  IF reason = "none"
              THEN /\ run' = [run EXCEPT !.verdict = "ok", !.at = "coordinate"]
                   /\ UNCHANGED watermark
              ELSE /\ run' = [Locals EXCEPT !.at = "unwind", !.outcome = outcome,
                                            !.verdict = "failed"]
                   /\ watermark' = [state |-> "unarmed", target |-> 0]
    BY ZenonT(30) DEF Verdict
  <1>2. CASE VerdictReason(dark, owing) = "none"
    BY <1>1, <1>2, NoReason, ZenonT(30)
  <1>3. CASE VerdictReason(dark, owing) # "none"
    <2> DEFINE o == VerdictOutcome(VerdictReason(dark, owing))
    <2>1. run.outcome \in Outcomes
      BY DEF Shape, Runs
    <2>2. o \in Outcomes /\ Rank(o) >= Rank(run.outcome)
      <3>1. \/ o = run.outcome
            \/ o = Record(run.outcome, "engine_error")
            \/ o = Record(run.outcome, "catalog_unresolved")
        BY DEF VerdictOutcome
      <3>2. "engine_error" \in Outcomes /\ "catalog_unresolved" \in Outcomes
        BY DEF Outcomes
      <3>3. Rank(run.outcome) \in 1..10
        BY <2>1, RecordIs
      <3> HIDE DEF o
      <3> QED BY <2>1, <3>1, <3>2, <3>3, RecordIs
    <2>3. /\ run' = [Locals EXCEPT !.at = "unwind", !.outcome = o, !.verdict = "failed"]
          /\ watermark' = [state |-> "unarmed", target |-> 0]
      BY <1>1, <1>3, SMTT(30)
    <2> HIDE DEF o
    <2> QED BY <2>2, <2>3, ZenonT(30)
  <1> QED BY <1>2, <1>3, ZenonT(30)

-----------------------------------------------------------------------------
(* Each step keeps the shape.                                               *)

\* Every step leaves records of the declared shape.
LEMMA ShapeStep ==
  ASSUME Shape, [Next]_vars
  PROVE  Shape'
  <1>0. /\ mode \in {"service", "finite"}
        /\ source \in Sources /\ health \in Samples /\ engine \in Engines
        /\ applier \in Appliers /\ service \in Services /\ catalog \in Catalogs
        /\ snapshot \in Snapshots /\ watermark \in Watermarks /\ run \in Runs
        /\ destination \in Destinations
    BY DEF Shape
  <1>c. /\ "loop" \in Stages /\ "locked" \in Stages /\ "stop" \in Stages
        /\ "ack" \in Stages /\ "seal" \in Stages /\ "quiesce" \in Stages
        /\ "executors" \in Stages /\ "close" \in Stages /\ "closing" \in Stages
        /\ "join" \in Stages /\ "catalog" \in Stages /\ "verdict" \in Stages
        /\ "coordinate" \in Stages /\ "unwind" \in Stages /\ "report" \in Stages
        /\ "teardown" \in Stages /\ "exit" \in Stages
        /\ "open" \in ShutdownStates /\ "ack_not_required" \in ShutdownStates
        /\ "ack_pending" \in ShutdownStates /\ "ack_complete" \in ShutdownStates
        /\ "ack_failed" \in ShutdownStates /\ "admission_sealed" \in ShutdownStates
        /\ "callbacks_quiescent" \in ShutdownStates
        /\ "callback_owned" \in ShutdownStates
        /\ "own_executors_stopped" \in ShutdownStates
        /\ "engine_closing" \in ShutdownStates
        /\ "engine_closed" \in ShutdownStates
        /\ "engine_thread_stopped" \in ShutdownStates /\ "hung" \in ShutdownStates
        /\ "local_slot" \in Evidence /\ "unobservable" \in Evidence
        /\ "error_box" \in Evidence /\ "interrupt" \in Evidence
        /\ "ack_timeout" \in Evidence
        /\ "max_seconds" \in Outcomes /\ "idle" \in Outcomes
        /\ "engine_error" \in Outcomes /\ "hung" \in Outcomes
        /\ "error" \in Outcomes /\ "catalog_unresolved" \in Outcomes
        /\ "recovery_uncleared" \in Outcomes
    BY DEF Stages, BeforeVerdict, AfterVerdict, ShutdownStates, Evidence, Outcomes
  <1>r. \A o \in Outcomes : Record(run.outcome, o) \in Outcomes
    <2>1. run.outcome \in Outcomes
      BY <1>0 DEF Runs
    <2> QED BY <2>1, RecordIs
  <1>l. Locals \in Runs
    BY <1>c DEF Locals, Runs
  <1>1. CASE SourceCommits
    <2>1. source' \in Sources
      BY <1>0, <1>1 DEF SourceCommits, Sources
    <2> QED BY <1>0, <1>1, <2>1 DEF SourceCommits, Shape
  <1>2. CASE SourceChanges
    <2>1. source' \in Sources
      BY <1>0, <1>2, Zenon DEF SourceChanges, Sources
    <2> QED BY <1>0, <1>2, <2>1 DEF SourceChanges, Shape
  <1>3. CASE Sample
    <2>1. health' \in Samples
      BY <1>0, <1>3, ZenonT(30) DEF Sample, Samples
    <2> QED BY <1>0, <1>3, <2>1 DEF Sample, Shape
  <1>4. CASE SlotConfirms
    <2>1. source' \in Sources
      BY <1>0, <1>4 DEF SlotConfirms, Sources, Appliers
    <2> QED BY <1>0, <1>4, <2>1 DEF SlotConfirms, Shape
  <1>5. CASE EngineReports
    <2>1. engine' \in Engines
      BY <1>0, <1>5, Zenon DEF EngineReports, Engines
    <2> QED BY <1>0, <1>5, <2>1 DEF EngineReports, Shape
  <1>6. CASE EngineEnds
    <2>1. engine' \in Engines
      BY <1>0, <1>6, Zenon DEF EngineEnds, Engines
    <2> QED BY <1>0, <1>6, <2>1 DEF EngineEnds, Shape
  <1>7. CASE CatalogPoll
    <2>1. catalog' \in Catalogs
      BY <1>0, <1>7, Zenon DEF CatalogPoll, Catalogs
    <2> QED BY <1>0, <1>7, <2>1 DEF CatalogPoll, Shape
  <1>8. CASE HandleBatch
    <2>1. applier' \in Appliers
      <3>1. applier.received + 1 \in Nat
        BY <1>0 DEF Appliers
      <3> QED BY <1>0, <1>c, <1>8, <3>1, Zenon DEF HandleBatch, Appliers
    <2> QED BY <1>0, <1>8, <2>1 DEF HandleBatch, Shape
  <1>9. CASE CommitGroup
    <2>1. applier' \in Appliers
      BY <1>0, <1>9, Zenon DEF CommitGroup, Appliers
    <2>2. catalog' \in Catalogs
      BY <1>0, <1>9, Zenon DEF CommitGroup, Catalogs
    <2>3. snapshot' \in Snapshots
      BY <1>0, <1>9 DEF CommitGroup, Snapshots
    <2> QED BY <1>0, <1>9, <2>1, <2>2, <2>3 DEF CommitGroup, Shape
  <1>10. CASE AcknowledgeBatch
    <2>1. applier' \in Appliers
      BY <1>0, <1>10 DEF AcknowledgeBatch, Appliers
    <2> QED BY <1>0, <1>10, <2>1 DEF AcknowledgeBatch, Shape
  <1>11. CASE LeaveTailOpen
    <2>1. applier' \in Appliers
      BY <1>0, <1>11 DEF LeaveTailOpen, Appliers
    <2> QED BY <1>0, <1>11, <2>1 DEF LeaveTailOpen, Shape
  <1>12. CASE CallbackRaises
    <2>1. applier' \in Appliers
      BY <1>0, <1>12, Zenon DEF CallbackRaises, Appliers
    <2>2. engine' \in Engines
      BY <1>0, <1>12, ZenonT(30) DEF CallbackRaises, Engines
    <2> QED BY <1>0, <1>12, <2>1, <2>2 DEF CallbackRaises, Shape
  <1>13. CASE DrainSignal
    <2>1. service' \in Services
      BY <1>0, <1>13, Zenon DEF DrainSignal, Services
    <2> QED BY <1>0, <1>13, <2>1 DEF DrainSignal, Shape
  <1>14. CASE WatchdogStalls
    <2>1. service' \in Services
      BY <1>0, <1>14, Zenon DEF WatchdogStalls, Services
    <2> QED BY <1>0, <1>14, <2>1 DEF WatchdogStalls, Shape
  <1>15. CASE WatchdogDecides
    <2>1. service' \in Services
      BY <1>0, <1>15, Zenon DEF WatchdogDecides, Services
    <2> QED BY <1>0, <1>15, <2>1 DEF WatchdogDecides, Shape
  <1>16. CASE WatchdogExits
    <2> QED BY <1>0, <1>16 DEF WatchdogExits, Shape
  <1>17. CASE ArmWatermark
    <2>1. source' \in Sources
      BY <1>0, <1>17 DEF ArmWatermark, Sources
    <2>2. watermark' \in Watermarks
      <3>1. source.wal + 1 \in Nat
        BY <1>0 DEF Sources
      <3> QED BY <1>0, <1>c, <1>17, <3>1 DEF ArmWatermark, Watermarks
    <2> QED BY <1>0, <1>17, <2>1, <2>2 DEF ArmWatermark, Shape
  <1>18. CASE LoopRaises
    <2>1. run' \in Runs
      <3>1. /\ Record(run.outcome, "engine_error") \in Outcomes /\ run.outcome \in Outcomes
            /\ \A e \in Evidence : run.evidence \union {e} \in SUBSET Evidence
        BY <1>0, <1>c, <1>r DEF Runs
      <3>2. PICK e \in {"error_box", "interrupt"} :
              run' = [run EXCEPT !.at = "stop", !.evidence = run.evidence \union {e},
                        !.outcome = IF e = "error_box"
                                    THEN Record(run.outcome, "engine_error")
                                    ELSE run.outcome]
        BY <1>18, ZenonT(30) DEF LoopRaises
      <3>3. run.evidence \union {e} \in SUBSET Evidence
        BY <1>c, <3>1
      <3> QED BY <1>0, <1>c, <3>1, <3>2, <3>3, Zenon DEF Runs
    <2> QED BY <1>0, <1>18, <2>1 DEF LoopRaises, Shape
  <1>19. CASE ServiceObserves
    <2>1. health' \in Samples
      BY <1>0, <1>19, Zenon DEF ServiceObserves, Samples
    <2>2. service' \in Services
      BY <1>0, <1>19, ZenonT(30) DEF ServiceObserves, Services
    <2> QED BY <1>0, <1>19, <2>1, <2>2 DEF ServiceObserves, Shape
  <1>20. CASE ServiceLocks
    <2>1. run' \in Runs
      BY <1>0, <1>r, <1>c, <1>20, SMTT(30) DEF ServiceLocks, Runs
    <2> QED BY <1>0, <1>20, <2>1 DEF ServiceLocks, Shape
  <1>21. CASE LoopStops
    <2>1. run' \in Runs
      <3>1. \A o \in Recorded : Record(run.outcome, o) \in Outcomes
        BY <1>r DEF Recorded, Refused, Outcomes
      <3>2. PICK o \in Recorded, ev \in SUBSET Evidence, h \in BOOLEAN :
              run' = [run EXCEPT !.at = "stop", !.outcome = Record(run.outcome, o),
                                 !.evidence = ev, !.handoff = h]
        BY <1>21, LoopForm, Zenon
      <3>3. Record(run.outcome, o) \in Outcomes
        BY <3>1
      <3> QED BY <1>0, <1>c, <3>2, <3>3, ZenonT(60) DEF Runs
    <2> QED BY <1>0, <1>21, <2>1, SMTT(30) DEF LoopStops, Shape
  <1>22. CASE WatermarkStops
    <2>1. watermark' \in Watermarks
      BY <1>0, <1>22 DEF WatermarkStops, Watermarks
    <2>2. run' \in Runs
      <3>1. catalog.pending \in BOOLEAN
        BY <1>0 DEF Catalogs
      <3>2. Record(run.outcome, "idle") \in Outcomes
        BY <1>r DEF Outcomes
      <3> QED BY <1>0, <1>c, <1>22, <3>1, <3>2, ZenonT(30)
              DEF WatermarkStops, Runs
    <2>3. catalog' \in Catalogs
      <3>1. source.up \in BOOLEAN /\ catalog.pending \in BOOLEAN
        BY <1>0 DEF Sources, Catalogs
      <3> QED BY <1>0, <1>c, <1>22, <3>1, Zenon DEF WatermarkStops, Catalogs
    <2> QED BY <1>0, <1>22, <2>1, <2>2, <2>3 DEF WatermarkStops, Shape
  <1>23. CASE EngineGone
    <2>1. run' \in Runs
      <3>1. \A o \in Recorded : Record(run.outcome, o) \in Outcomes
        BY <1>r DEF Recorded, Refused, Outcomes
      <3> QED BY <1>0, <1>c, <1>23, <3>1, GoneForm, ZenonT(30) DEF Runs
    <2> QED BY <1>0, <1>23, <2>1 DEF EngineGone, Shape
  <1>24. CASE ServiceHoldsLock
    <2>1. run' \in Runs
      <3>1. /\ Record(run.outcome, "engine_error") \in Outcomes
            /\ run.evidence \union {"error_box"} \in SUBSET Evidence
        BY <1>0, <1>c, <1>r DEF Runs
      <3>2. \/ run' = [run EXCEPT !.at = "loop"]
            \/ run' = [run EXCEPT !.at = "stop",
                                  !.evidence = run.evidence \union {"error_box"},
                                  !.outcome = Record(run.outcome, "engine_error")]
        BY <1>24 DEF ServiceHoldsLock
      <3> QED BY <1>0, <1>c, <3>1, <3>2, ZenonT(30) DEF Runs
    <2>2. service' \in Services
      BY <1>0, <1>24, ZenonT(30) DEF ServiceHoldsLock, Services
    <2> QED BY <1>0, <1>24, <2>1, <2>2 DEF ServiceHoldsLock, Shape
  <1>25. CASE BeginShutdown
    <2>1. service' \in Services
      BY <1>0, <1>25, Zenon DEF BeginShutdown, Services
    <2>2. health' \in Samples
      BY <1>0, <1>25 DEF BeginShutdown, NoSamples, Samples
    <2>3. source' \in Sources
      BY <1>0, <1>25, ShutdownForm, Zenon DEF Sources
    <2>4. run' \in Runs
      <3>1. Record(run.outcome, "engine_error") \in Outcomes /\ run.outcome \in Outcomes
        BY <1>0, <1>c, <1>r DEF Runs
      <3>2. PICK o \in {run.outcome, Record(run.outcome, "engine_error")},
                 s \in ShutdownStates, a \in {"ack", "seal"}, n \in Nat :
              run' = [run EXCEPT !.outcome = o, !.sequence = s, !.at = a,
                                 !.finalPoll = FALSE, !.initial = 0, !.asked = n]
        BY <1>25, ShutdownForm, ZenonT(30)
      <3>3. o \in Outcomes /\ a \in Stages
        BY <1>c, <3>1
      <3> QED BY <1>0, <3>2, <3>3, Zenon DEF Runs
    <2> QED BY <1>0, <1>25, <2>1, <2>2, <2>3, <2>4, SMTT(30)
               DEF BeginShutdown, Shape
  <1>26. CASE AwaitAcknowledgement
    <2>1. run' \in Runs
      <3>1. /\ Record(run.outcome, "engine_error") \in Outcomes
            /\ run.evidence \union {"ack_timeout"} \in SUBSET Evidence
        BY <1>0, <1>c, <1>r DEF Runs
      <3>2. \/ run' = [run EXCEPT !.at = "seal", !.sequence = "ack_complete"]
            \/ run' = [run EXCEPT !.at = "seal", !.sequence = "ack_failed",
                         !.asked = 0,
                         !.outcome = Record(run.outcome, "engine_error"),
                         !.evidence = run.evidence \union {"ack_timeout"}]
        BY <1>26 DEF AwaitAcknowledgement
      <3>3. CASE run' = [run EXCEPT !.at = "seal", !.sequence = "ack_complete"]
        BY <1>0, <1>c, <3>3, Zenon DEF Runs
      <3>4. CASE run' = [run EXCEPT !.at = "seal", !.sequence = "ack_failed",
                           !.asked = 0,
                           !.outcome = Record(run.outcome, "engine_error"),
                           !.evidence = run.evidence \union {"ack_timeout"}]
        <4>1. 0 \in Nat /\ "seal" \in Stages /\ "ack_failed" \in ShutdownStates
          BY <1>c
        <4> QED BY <1>0, <3>1, <3>4, <4>1, ZenonT(30) DEF Runs
      <3> QED BY <3>2, <3>3, <3>4, SMTT(30)
    <2> QED BY <1>0, <1>26, <2>1 DEF AwaitAcknowledgement, Shape
  <1>27. CASE SealAdmission
    <2>1. applier' \in Appliers
      BY <1>0, <1>27, Zenon DEF SealAdmission, Appliers
    <2>2. run' \in Runs
      BY <1>0, <1>r, <1>c, <1>27, Zenon DEF SealAdmission, Runs
    <2> QED BY <1>0, <1>27, <2>1, <2>2 DEF SealAdmission, Shape
  <1>28. CASE ProveQuiescence
    <2>1. run' \in Runs
      BY <1>0, <1>r, <1>c, <1>28, ZenonT(30) DEF ProveQuiescence, Runs
    <2>2. destination' \in Destinations
      BY <1>0, <1>28 DEF ProveQuiescence, Destinations
    <2> QED BY <1>0, <1>28, <2>1, <2>2, SMTT(30) DEF ProveQuiescence, Shape
  <1>29. CASE StopExecutors
    <2>1. run' \in Runs
      BY <1>0, <1>r, <1>c, <1>29, ZenonT(30) DEF StopExecutors, Proves, Hangs, Runs
    <2> QED BY <1>0, <1>29, <2>1 DEF StopExecutors, Shape
  <1>30. CASE CloseEngine
    <2>1. engine' \in Engines
      BY <1>0, <1>30, Zenon DEF CloseEngine, Engines
    <2>2. run' \in Runs
      BY <1>0, <1>r, <1>c, <1>30, ZenonT(30) DEF CloseEngine, Runs
    <2> QED BY <1>0, <1>30, <2>1, <2>2 DEF CloseEngine, Shape
  <1>31. CASE EngineClosed
    <2>1. run' \in Runs
      BY <1>0, <1>r, <1>c, <1>31, ZenonT(30) DEF EngineClosed, Proves, Hangs, Runs
    <2> QED BY <1>0, <1>31, <2>1, SMTT(30) DEF EngineClosed, Shape
  <1>32. CASE JoinEngine
    <2>1. run' \in Runs
      BY <1>0, <1>r, <1>c, <1>32, ZenonT(30) DEF JoinEngine, Proves, Hangs, Runs
    <2> QED BY <1>0, <1>32, <2>1 DEF JoinEngine, Shape
  <1>33. CASE StopCatalog
    <2>1. catalog' \in Catalogs
      BY <1>0, <1>33, Zenon DEF StopCatalog, Catalogs
    <2>2. run' \in Runs
      BY <1>0, <1>r, <1>c, <1>33, ZenonT(30) DEF StopCatalog, Runs
    <2>3. applier' \in Appliers
      BY <1>0, <1>33, Zenon DEF StopCatalog, Appliers
    <2> QED BY <1>0, <1>33, <2>1, <2>2, <2>3, SMTT(30) DEF StopCatalog, Shape
  <1>34. CASE Verdict
    <2>1. run' \in Runs
      <3>1. CASE run' = [run EXCEPT !.verdict = "ok", !.at = "coordinate"]
        BY <1>0, <1>c, <3>1, ZenonT(60) DEF Runs
      <3>2. CASE \E o \in Outcomes :
                   run' = [Locals EXCEPT !.at = "unwind", !.outcome = o,
                                         !.verdict = "failed"]
        BY <1>c, <1>l, <3>2, ZenonT(60) DEF Runs
      <3> QED BY <1>34, <3>1, <3>2, VerdictForm, Zenon
    <2>2. watermark' \in Watermarks
      <3>1. watermark' = watermark \/ watermark' = [state |-> "unarmed", target |-> 0]
        BY <1>34 DEF Verdict
      <3> QED BY <1>0, <3>1 DEF Watermarks
    <2> QED BY <1>0, <1>34, <2>1, <2>2 DEF Verdict, Shape
  <1>35. CASE FinishRun
    <2>1. run' \in Runs
      <3>1. PICK x \in {"none", "recovery_uncleared", "catalog_unresolved", "engine_error"} :
              run' = IF x = "none" THEN [run EXCEPT !.at = "teardown"]
                     ELSE [Locals EXCEPT !.at = "unwind", !.verdict = "failed",
                                         !.outcome = Record(run.outcome, x)]
        BY <1>35, Zenon DEF FinishRun
      <3>2. x # "none" => Record(run.outcome, x) \in Outcomes
        BY <1>c, <1>r
      <3> QED BY <1>0, <1>c, <1>l, <3>1, <3>2, ZenonT(30) DEF Runs
    <2> QED BY <1>0, <1>35, <2>1 DEF FinishRun, Shape
  <1>36. CASE DiscoveryHandoff
    <2> DEFINE B ==
          /\ run' = [Locals EXCEPT !.at = "unwind", !.verdict = "failed",
                       !.outcome = Record(run.outcome, "engine_error")]
          /\ destination' = [destination EXCEPT !.token = Retired(destination.token)]
          /\ UNCHANGED <<engine, applier, catalog, snapshot, watermark>>
    <2>1. CASE ~B
      <3>1. /\ engine' = [alive |-> TRUE, failure |-> FALSE, closed |-> FALSE]
            /\ applier' = [applier EXCEPT !.sealed = FALSE]
            /\ catalog' = [catalog EXCEPT !.new = FALSE, !.alive = TRUE]
            /\ snapshot' = [required |-> FALSE, completed |-> FALSE]
            /\ watermark' = [state |-> "unarmed", target |-> 0]
            /\ run' = [Locals EXCEPT !.initial = applier.durable]
            /\ UNCHANGED destination
        BY <1>36, <2>1 DEF DiscoveryHandoff
      <3>2. engine' \in Engines /\ snapshot' \in Snapshots /\ watermark' \in Watermarks
        BY <3>1 DEF Engines, Snapshots, Watermarks
      <3>3. applier' \in Appliers
        BY <1>0, <3>1, Zenon DEF Appliers
      <3>4. catalog' \in Catalogs
        BY <1>0, <3>1, Zenon DEF Catalogs
      <3>5. run' \in Runs
        <4>1. applier.durable \in Nat
          BY <1>0 DEF Appliers
        <4> QED BY <1>c, <1>l, <3>1, <4>1 DEF Runs
      <3> QED BY <1>0, <1>36, <3>1, <3>2, <3>3, <3>4, <3>5
                 DEF DiscoveryHandoff, Shape
    <2>2. CASE B
      <3>1. /\ run' = [Locals EXCEPT !.at = "unwind", !.verdict = "failed",
                         !.outcome = Record(run.outcome, "engine_error")]
            /\ destination' = [destination EXCEPT !.token = Retired(destination.token)]
            /\ UNCHANGED <<engine, applier, catalog, snapshot, watermark>>
        BY <2>2
      <3>2. destination' \in Destinations
        BY <1>0, <3>1 DEF Retired, Destinations
      <3>3. run' \in Runs
        <4>1. Record(run.outcome, "engine_error") \in Outcomes
          BY <1>r DEF Outcomes
        <4> QED BY <1>c, <1>l, <3>1, <4>1, Zenon DEF Runs
      <3> QED BY <1>0, <1>36, <3>1, <3>2, <3>3, SMTT(30) DEF DiscoveryHandoff, Shape
    <2> QED BY <2>1, <2>2
  <1>37. CASE CoordinatorUnwinds
    <2>1. catalog' \in Catalogs
      BY <1>0, <1>37, Zenon DEF CoordinatorUnwinds, Catalogs
    <2>2. destination' \in Destinations
      BY <1>0, <1>37 DEF CoordinatorUnwinds, Retired, Destinations
    <2>3. applier' \in Appliers
      BY <1>0, <1>37, Zenon DEF CoordinatorUnwinds, Appliers
    <2>4. run' \in Runs
      BY <1>0, <1>r, <1>c, <1>37, SMTT(30) DEF CoordinatorUnwinds, Runs
    <2> QED BY <1>0, <1>37, <2>1, <2>2, <2>3, <2>4, SMTT(30)
               DEF CoordinatorUnwinds, Shape
  <1>38. CASE ReportFailure
    <2>1. run' \in Runs
      BY <1>0, <1>r, <1>c, <1>38, Zenon DEF ReportFailure, Runs
    <2> QED BY <1>0, <1>38, <2>1 DEF ReportFailure, Shape
  <1>39. CASE Teardown
    <2>1. destination' \in Destinations
      BY <1>0, <1>39, ZenonT(30) DEF Teardown, Retired, Destinations
    <2>2. run' \in Runs
      BY <1>0, <1>r, <1>c, <1>39, SMTT(30) DEF Teardown, Runs
    <2> QED BY <1>0, <1>39, <2>1, <2>2 DEF Teardown, Shape
  <1>40. CASE Exit
    <2> QED BY <1>0, <1>40 DEF Exit, Shape
  <1>41. CASE UNCHANGED vars
    BY <1>0, <1>41 DEF vars, Shape
  <1> QED
    BY <1>1, <1>2, <1>3, <1>4, <1>5, <1>6, <1>7, <1>8, <1>9, <1>10, <1>11, <1>12,
       <1>13, <1>14, <1>15, <1>16, <1>17, <1>18, <1>19, <1>20, <1>21, <1>22, <1>23,
       <1>24, <1>25, <1>26, <1>27, <1>28, <1>29, <1>30, <1>31, <1>32, <1>33, <1>34,
       <1>35, <1>36, <1>37, <1>38, <1>39, <1>40, <1>41, SMTT(30)
       DEF Next, MainThread, Watchdog, Ended

-----------------------------------------------------------------------------
(* Each step keeps the applier quiet where it matters.                       *)

\* A hand-off starts a fresh engine behind a retired one, or unwinds.
LEMMA HandoffForm ==
  ASSUME Shape, DiscoveryHandoff
  PROVE  /\ run.at = "coordinate" /\ Running
         /\ UNCHANGED <<mode, source, process>>
         /\ run'.asked = 0 /\ ~run'.handoff
         /\ \/ /\ run'.at = "loop" /\ run'.verdict = "none" /\ run'.quiesced
               /\ run'.outcome = "max_seconds"
               /\ Retired(destination.token) = "available"
               /\ ~engine'.closed /\ applier' = [applier EXCEPT !.sealed = FALSE]
               /\ watermark'.state = "unarmed" /\ UNCHANGED destination
            \/ /\ run'.at = "unwind" /\ run'.verdict = "failed"
               /\ run'.outcome = Record(run.outcome, "engine_error")
               /\ destination' = [destination EXCEPT !.token = Retired(destination.token)]
               /\ UNCHANGED <<engine, applier, catalog, snapshot, watermark>>
  <1>1. /\ run.at = "coordinate" /\ Running /\ UNCHANGED <<mode, source, process>>
    BY DEF DiscoveryHandoff, Stage
  <1>2. CASE run' = [Locals EXCEPT !.at = "unwind", !.verdict = "failed",
                       !.outcome = Record(run.outcome, "engine_error")]
    <2>1. /\ run'.at = "unwind" /\ run'.verdict = "failed" /\ ~run'.handoff
          /\ run'.outcome = Record(run.outcome, "engine_error") /\ run'.asked = 0
      BY <1>2 DEF Locals
    <2>2. run' # [Locals EXCEPT !.initial = applier.durable]
      BY <2>1 DEF Locals
    <2> QED BY <1>1, <2>1, <2>2 DEF DiscoveryHandoff
  <1>3. CASE ~(run' = [Locals EXCEPT !.at = "unwind", !.verdict = "failed",
                         !.outcome = Record(run.outcome, "engine_error")])
    <2>1. /\ Retired(destination.token) = "available"
          /\ engine' = [alive |-> TRUE, failure |-> FALSE, closed |-> FALSE]
          /\ applier' = [applier EXCEPT !.sealed = FALSE]
          /\ watermark' = [state |-> "unarmed", target |-> 0]
          /\ run' = [Locals EXCEPT !.initial = applier.durable]
          /\ UNCHANGED destination
      BY <1>3 DEF DiscoveryHandoff
    <2>2. /\ run'.at = "loop" /\ run'.verdict = "none" /\ run'.quiesced
          /\ run'.outcome = "max_seconds" /\ run'.asked = 0 /\ ~run'.handoff
      BY <2>1 DEF Locals
    <2>3. ~engine'.closed /\ watermark'.state = "unarmed"
      BY <2>1, SMTT(30)
    <2> QED BY <1>1, <2>1, <2>2, <2>3
  <1> QED BY <1>2, <1>3

\* Whatever was given up, no callback is inside.
LEMMA QuietStep ==
  ASSUME Shape, QuietInv, [Next]_vars
  PROVE  QuietInv'
  <1>1. CASE UNCHANGED <<applier, engine, run, destination>>
    BY <1>1, SMTT(30) DEF QuietInv, Quiet, Busy
  <1>2. ASSUME \/ SourceCommits \/ SourceChanges \/ Sample \/ SlotConfirms
          \/ CatalogPoll \/ DrainSignal \/ WatchdogStalls \/ WatchdogDecides
          \/ WatchdogExits \/ ArmWatermark \/ ServiceObserves \/ Exit
        PROVE  UNCHANGED <<applier, engine, run, destination>>
    BY <1>2, ZenonT(30) DEF SourceCommits, SourceChanges, Sample, SlotConfirms,
       CatalogPoll, DrainSignal, WatchdogStalls, WatchdogDecides, WatchdogExits,
       ArmWatermark, ServiceObserves, Exit
  <1>3. CASE EngineReports
    BY <1>3 DEF Shape, EngineReports, Noticed, QuietInv, Quiet, Busy, Engines
  <1>4. CASE EngineEnds
    BY <1>4 DEF Shape, EngineEnds, Noticed, QuietInv, Quiet, Busy, Engines
  <1>5. CASE HandleBatch
    BY <1>5 DEF Shape, HandleBatch, Busy, QuietInv, Quiet, Appliers
  <1>6. CASE CommitGroup
    BY <1>6 DEF Shape, CommitGroup, QuietInv, Quiet, Busy, Appliers
  <1>7. CASE AcknowledgeBatch
    BY <1>7 DEF Shape, AcknowledgeBatch, QuietInv, Quiet, Busy, Appliers
  <1>8. CASE LeaveTailOpen
    BY <1>8 DEF Shape, LeaveTailOpen, QuietInv, Quiet, Busy, Appliers
  <1>9. CASE CallbackRaises
    BY <1>9 DEF Shape, CallbackRaises, Busy, QuietInv, Quiet, Engines, Appliers
  <1>10. CASE LoopRaises
    BY <1>10 DEF Shape, LoopRaises, QuietInv, Quiet, Busy, Runs
  <1>11. CASE ServiceLocks
    BY <1>11 DEF Shape, ServiceLocks, QuietInv, Quiet, Busy, Runs
  <1>12. CASE LoopStops
    <2>1. run'.at = "stop"
      BY <1>12, LoopForm, ZenonT(30) DEF Shape, Runs
    <2> QED BY <1>12, <2>1, SMTT(30) DEF LoopStops, QuietInv, Quiet, Busy
  <1>13. CASE WatermarkStops
    BY <1>13, ZenonT(30) DEF Shape, WatermarkStops, WatermarkReached, MayStop, Busy,
       SnapshotEnded, QuietInv, Quiet, Runs
  <1>14. CASE EngineGone
    <2>1. run'.at = "stop"
      BY <1>14, GoneForm, Zenon DEF Shape, Runs
    <2> QED BY <1>14, <2>1 DEF EngineGone, QuietInv, Quiet, Busy
  <1>15. CASE ServiceHoldsLock
    BY <1>15, ZenonT(30) DEF Shape, ServiceHoldsLock, Busy, QuietInv, Quiet, Runs
  <1>16. CASE BeginShutdown
    <2>1. run'.at \in {"ack", "seal"}
      BY <1>16, ShutdownForm, Zenon DEF Shape, Runs
    <2> QED BY <1>16, <2>1 DEF BeginShutdown, Stage, QuietInv, Quiet, Busy
  <1>17. CASE AwaitAcknowledgement
    BY <1>17, ZenonT(30) DEF Shape, AwaitAcknowledgement, Stage, QuietInv, Quiet,
       Busy, Runs
  <1>18. CASE SealAdmission
    BY <1>18 DEF Shape, SealAdmission, Stage, QuietInv, Quiet, Busy, Appliers, Runs
  <1>19. CASE ProveQuiescence
    BY <1>19, ZenonT(30) DEF Shape, ProveQuiescence, Stage, Busy, QuietInv, Quiet,
       Runs, Destinations
  <1>20. CASE StopExecutors
    BY <1>20 DEF Shape, StopExecutors, Stage, Proves, Hangs, QuietInv, Quiet, Busy,
       Runs
  <1>21. CASE CloseEngine
    BY <1>21 DEF Shape, CloseEngine, Stage, QuietInv, Quiet, Busy, Engines, Runs
  <1>22. CASE EngineClosed
    BY <1>22 DEF Shape, EngineClosed, Stage, Proves, Hangs, QuietInv, Quiet, Busy,
       Runs
  <1>23. CASE JoinEngine
    BY <1>23 DEF Shape, JoinEngine, Stage, Proves, Hangs, QuietInv, Quiet, Busy,
       Runs
  <1>24. CASE StopCatalog
    BY <1>24 DEF Shape, StopCatalog, Stage, QuietInv, Quiet, Busy, Appliers, Runs
  <1>25. CASE Verdict
    <2>1. run'.at \in {"coordinate", "unwind"}
      BY <1>25, VerdictForm, ZenonT(30) DEF Shape, Runs, Locals
    <2> QED BY <1>25, <2>1 DEF Verdict, Stage, QuietInv, Quiet, Busy
  <1>26. CASE FinishRun
    <2>1. run'.at \in {"teardown", "unwind"}
      BY <1>26 DEF FinishRun, Shape, Runs, Locals
    <2> QED BY <1>26, <2>1 DEF FinishRun, Stage, QuietInv, Quiet, Busy
  <1>27. CASE DiscoveryHandoff
    BY <1>27, HandoffForm, SMTT(30) DEF Shape, Destinations, Appliers, Retired,
       QuietInv, Quiet, Busy
  <1>28. CASE CoordinatorUnwinds
    BY <1>28 DEF Shape, CoordinatorUnwinds, Stage, Retired, QuietInv, Quiet, Busy,
       Appliers, Runs, Destinations
  <1>29. CASE ReportFailure
    BY <1>29 DEF Shape, ReportFailure, Stage, QuietInv, Quiet, Busy, Runs
  <1>30. CASE Teardown
    BY <1>30 DEF Shape, Teardown, Stage, Retired, QuietInv, Quiet, Busy, Runs,
       Destinations
  <1>31. CASE UNCHANGED vars
    BY <1>1, <1>31, SMTT(30) DEF vars
  <1> QED
    BY <1>1, <1>2, <1>3, <1>4, <1>5, <1>6, <1>7, <1>8, <1>9, <1>10, <1>11, <1>12,
       <1>13, <1>14, <1>15, <1>16, <1>17, <1>18, <1>19, <1>20, <1>21, <1>22, <1>23,
       <1>24, <1>25, <1>26, <1>27, <1>28, <1>29, <1>30, <1>31, SMTT(30)
       DEF Next, MainThread, Watchdog, Ended

-----------------------------------------------------------------------------
(* Each step keeps the positions in order.                                   *)

\* What is durable was received, and what was asked and not awaited is confirmed.
LEMMA PositionStep ==
  ASSUME Shape, PositionInv, [Next]_vars
  PROVE  PositionInv'
  <1>1. CASE UNCHANGED <<source, applier, watermark, run>>
    BY <1>1, SMTT(30) DEF PositionInv
  <1>2. ASSUME \/ Sample \/ EngineReports \/ EngineEnds \/ CatalogPoll \/ DrainSignal
          \/ WatchdogStalls \/ WatchdogDecides \/ WatchdogExits \/ ServiceObserves
          \/ Exit
        PROVE  UNCHANGED <<source, applier, watermark, run>>
    BY <1>2, Zenon DEF Sample, EngineReports, EngineEnds, CatalogPoll, DrainSignal,
       WatchdogStalls, WatchdogDecides, WatchdogExits, ServiceObserves, Exit
  <1>3. CASE SourceCommits
    BY <1>3 DEF Shape, SourceCommits, Noticed, PositionInv, Sources
  <1>4. CASE SourceChanges
    BY <1>4 DEF Shape, SourceChanges, Noticed, PositionInv, Sources
  <1>5. CASE SlotConfirms
    BY <1>5 DEF Shape, SlotConfirms, PositionInv, Sources, Appliers, Runs
  <1>6. CASE HandleBatch
    BY <1>6 DEF Shape, HandleBatch, Busy, PositionInv, Appliers
  <1>7. CASE CommitGroup
    BY <1>7 DEF Shape, CommitGroup, PositionInv, Appliers, Watermarks
  <1>8. CASE AcknowledgeBatch
    BY <1>8 DEF Shape, AcknowledgeBatch, PositionInv, Appliers
  <1>9. CASE LeaveTailOpen
    BY <1>9 DEF Shape, LeaveTailOpen, PositionInv, Appliers
  <1>10. CASE CallbackRaises
    BY <1>10 DEF Shape, CallbackRaises, Busy, PositionInv, Appliers
  <1>11. CASE ArmWatermark
    BY <1>11 DEF Shape, ArmWatermark, MayStop, PositionInv, Sources, Watermarks
  <1>12. CASE LoopRaises
    BY <1>12 DEF Shape, LoopRaises, PositionInv, Runs
  <1>13. CASE ServiceLocks
    BY <1>13 DEF Shape, ServiceLocks, PositionInv, Runs
  <1>14. CASE LoopStops
    <2>1. run'.at = "stop" /\ run'.asked = run.asked
      BY <1>14, LoopForm, ZenonT(30) DEF Shape, Runs
    <2> QED BY <1>14, <2>1, SMTT(30) DEF LoopStops, PositionInv
  <1>15. CASE WatermarkStops
    BY <1>15, ZenonT(30) DEF Shape, WatermarkStops, WatermarkReached, MayStop, Busy,
       SnapshotEnded, PositionInv, Watermarks, Runs
  <1>16. CASE EngineGone
    <2>1. run'.at = "stop" /\ run'.asked = run.asked
      BY <1>16, GoneForm, Zenon DEF Shape, Runs
    <2> QED BY <1>16, <2>1 DEF EngineGone, PositionInv
  <1>17. CASE ServiceHoldsLock
    BY <1>17, ZenonT(30) DEF Shape, ServiceHoldsLock, Busy, PositionInv, Runs
  <1>18. CASE BeginShutdown
    <2>1. /\ run'.at \in {"ack", "seal"} /\ source'.confirmed = source.confirmed
          /\ run'.at = "seal" => source.confirmed >= run'.asked
      BY <1>18, ShutdownForm, Zenon DEF Shape, Runs, Sources
    <2> QED BY <1>18, <2>1 DEF BeginShutdown, PositionInv
  <1>19. CASE AwaitAcknowledgement
    <2>1. \/ source.confirmed >= run.asked /\ run'.asked = run.asked
          \/ run'.asked = 0
      BY <1>19, Zenon DEF Shape, AwaitAcknowledgement, Runs
    <2> QED BY <1>19, <2>1 DEF Shape, AwaitAcknowledgement, PositionInv, Sources
  <1>20. CASE SealAdmission
    BY <1>20 DEF Shape, SealAdmission, Stage, PositionInv, Appliers, Runs
  <1>21. CASE ProveQuiescence
    BY <1>21, Zenon DEF Shape, ProveQuiescence, Stage, Busy, PositionInv, Runs
  <1>22. CASE StopExecutors
    BY <1>22, Zenon DEF Shape, StopExecutors, Stage, Proves, Hangs, PositionInv,
       Runs
  <1>23. CASE CloseEngine
    BY <1>23 DEF Shape, CloseEngine, Stage, PositionInv, Runs
  <1>24. CASE EngineClosed
    BY <1>24, Zenon DEF Shape, EngineClosed, Stage, Proves, Hangs, PositionInv, Runs
  <1>25. CASE JoinEngine
    BY <1>25, Zenon DEF Shape, JoinEngine, Stage, Proves, Hangs, PositionInv, Runs
  <1>26. CASE StopCatalog
    BY <1>26 DEF Shape, StopCatalog, Stage, PositionInv, Appliers, Runs
  <1>27. CASE Verdict
    <2>1. run.at = "verdict" /\ UNCHANGED <<source, applier>>
      BY <1>27 DEF Verdict, Stage
    <2>2. CASE run' = [run EXCEPT !.verdict = "ok", !.at = "coordinate"] /\ UNCHANGED watermark
      BY <2>1, <2>2 DEF Shape, Runs, PositionInv
    <2>3. CASE run'.asked = 0 /\ watermark'.state = "unarmed"
      BY <2>1, <2>3 DEF Shape, Sources, PositionInv
    <2>4. \A o : [Locals EXCEPT !.at = "unwind", !.outcome = o, !.verdict = "failed"].asked = 0
      BY DEF Locals
    <2>5. CASE \E o \in Outcomes :
               /\ run' = [Locals EXCEPT !.at = "unwind", !.outcome = o,
                                        !.verdict = "failed"]
               /\ watermark' = [state |-> "unarmed", target |-> 0]
      BY <2>3, <2>4, <2>5, SMTT(30)
    <2> QED BY <1>27, <2>2, <2>5, VerdictForm, Zenon
  <1>28. CASE FinishRun
    <2>1. run.at = "coordinate" /\ UNCHANGED <<source, applier, watermark>>
      BY <1>28 DEF FinishRun, Stage
    <2>2. run'.asked \in {0, run.asked}
      BY <1>28 DEF FinishRun, Shape, Runs, Locals
    <2> QED BY <2>1, <2>2 DEF Shape, Sources, PositionInv
  <1>29. CASE DiscoveryHandoff
    BY <1>29, HandoffForm DEF Shape, Sources, Appliers, PositionInv
  <1>30. CASE CoordinatorUnwinds
    BY <1>30 DEF Shape, CoordinatorUnwinds, Stage, Retired, PositionInv, Appliers,
       Runs
  <1>31. CASE ReportFailure
    BY <1>31 DEF Shape, ReportFailure, Stage, PositionInv, Runs
  <1>32. CASE Teardown
    BY <1>32, SMTT(30) DEF Shape, Teardown, Stage, Retired, PositionInv, Runs
  <1>33. CASE UNCHANGED vars
    BY <1>1, <1>33, SMTT(30) DEF vars
  <1> QED
    BY <1>1, <1>2, <1>3, <1>4, <1>5, <1>6, <1>7, <1>8, <1>9, <1>10, <1>11, <1>12,
       <1>13, <1>14, <1>15, <1>16, <1>17, <1>18, <1>19, <1>20, <1>21, <1>22, <1>23,
       <1>24, <1>25, <1>26, <1>27, <1>28, <1>29, <1>30, <1>31, <1>32, <1>33,
       SMTT(30) DEF Next, MainThread, Watchdog, Ended

-----------------------------------------------------------------------------
(* Each step of the shutdown says what it proved.                            *)

\* Up to the verdict, what was not proved is in the outcome.
LEMMA ShutdownStep ==
  ASSUME Shape, QuietInv, ShutdownInv, [Next]_vars
  PROVE  ShutdownInv'
  <1>o. /\ Refused \subseteq Recorded /\ "idle" \in Recorded
        /\ run.outcome \in Recorded =>
             /\ Record(run.outcome, "engine_error") \in Refused
             /\ Record(run.outcome, "hung") \in Refused
             /\ Record(run.outcome, "idle") \in Recorded
    <2>1. /\ "engine_error" \in Refused /\ "hung" \in Refused /\ "idle" \in Recorded
          /\ Refused \subseteq Recorded
      BY DEF Recorded, Refused
    <2> QED BY <2>1, RefusedStays, RecordedStays
  <1>1. CASE UNCHANGED <<mode, applier, engine, catalog, run, destination>>
    BY <1>1, SMTT(30) DEF ShutdownInv, Quiet, Busy
  <1>2. ASSUME \/ SourceCommits \/ SourceChanges \/ Sample \/ SlotConfirms
          \/ DrainSignal \/ WatchdogStalls \/ WatchdogDecides \/ WatchdogExits
          \/ ArmWatermark \/ ServiceObserves \/ Exit
        PROVE  UNCHANGED <<mode, applier, engine, catalog, run, destination>>
    BY <1>2, Zenon DEF SourceCommits, SourceChanges, Sample, SlotConfirms,
       DrainSignal, WatchdogStalls, WatchdogDecides, WatchdogExits, ArmWatermark,
       ServiceObserves, Exit
  <1>3. CASE EngineReports
    BY <1>3 DEF Shape, EngineReports, Noticed, ShutdownInv, Quiet, Busy, Engines
  <1>4. CASE EngineEnds
    BY <1>4 DEF Shape, EngineEnds, Noticed, ShutdownInv, Quiet, Busy, Engines
  <1>5. CASE CatalogPoll
    BY <1>5, Zenon DEF Shape, CatalogPoll, Noticed, ShutdownInv, Quiet, Busy,
       Catalogs
  <1>6. CASE HandleBatch
    BY <1>6 DEF Shape, HandleBatch, Busy, ShutdownInv, Quiet, Appliers
  <1>7. CASE CommitGroup
    BY <1>7 DEF Shape, CommitGroup, ShutdownInv, Quiet, Busy, Appliers, Catalogs
  <1>8. CASE AcknowledgeBatch
    BY <1>8 DEF Shape, AcknowledgeBatch, ShutdownInv, Quiet, Busy, Appliers
  <1>9. CASE LeaveTailOpen
    BY <1>9 DEF Shape, LeaveTailOpen, ShutdownInv, Quiet, Busy, Appliers
  <1>10. CASE CallbackRaises
    BY <1>10 DEF Shape, CallbackRaises, Busy, ShutdownInv, Quiet, Engines, Appliers
  <1>11. CASE LoopRaises
    <2>1. /\ run'.at = "stop" /\ run'.quiesced = run.quiesced
          /\ run'.verdict = run.verdict /\ run'.handoff = run.handoff
          /\ run'.outcome \in {run.outcome, Record(run.outcome, "engine_error")}
      BY <1>11 DEF LoopRaises, Shape, Runs
    <2>2. run.outcome \in Recorded
      BY <1>11 DEF LoopRaises, Stage, ShutdownInv, BeforeVerdict
    <2> QED BY <1>o, <1>11, <2>1, <2>2, SMTT(30)
               DEF LoopRaises, QuietInv, ShutdownInv, Quiet, Busy, BeforeVerdict
  <1>12. CASE ServiceLocks
    <2>1. /\ run'.at = "locked" /\ run'.quiesced = run.quiesced
          /\ run'.verdict = run.verdict /\ run'.handoff = run.handoff
          /\ run'.outcome = run.outcome
      BY <1>12 DEF ServiceLocks, Shape, Runs
    <2>2. run.outcome \in Recorded
      BY <1>12 DEF ServiceLocks, Stage, ShutdownInv, BeforeVerdict
    <2> QED BY <1>o, <1>12, <2>1, <2>2, SMTT(30)
               DEF ServiceLocks, QuietInv, ShutdownInv, Quiet, Busy, BeforeVerdict
  <1>13. CASE LoopStops
    <2>1. PICK o \in Recorded, ev \in SUBSET Evidence, h \in BOOLEAN :
            /\ run' = [run EXCEPT !.at = "stop", !.outcome = Record(run.outcome, o),
                                  !.evidence = ev, !.handoff = h]
            /\ h => mode = "finite" /\ catalog.new
      BY <1>13, LoopForm, Zenon
    <2>2. /\ run'.at = "stop" /\ run'.outcome = Record(run.outcome, o)
          /\ run'.verdict = run.verdict /\ run'.quiesced = run.quiesced /\ run'.handoff = h
      BY <2>1 DEF Shape, Runs
    <2>3. run.at = "loop" /\ UNCHANGED <<mode, catalog, destination>>
      BY <1>13 DEF LoopStops
    <2>4. run.outcome \in Recorded /\ run.verdict = "none"
      BY <2>3 DEF ShutdownInv, BeforeVerdict
    <2>5. run'.outcome \in Recorded
      BY <2>2, <2>4, RecordedStays, SMTT(30)
    <2> QED BY <2>1, <2>2, <2>3, <2>4, <2>5, SMTT(30) DEF ShutdownInv, BeforeVerdict
  <1>14. CASE WatermarkStops
    <2>1. /\ run'.at \in {"loop", "stop"} /\ run'.quiesced = run.quiesced
          /\ run'.verdict = run.verdict /\ run'.handoff = run.handoff
          /\ run'.outcome \in {run.outcome, Record(run.outcome, "idle")}
          /\ catalog'.new = catalog.new
      BY <1>14, ZenonT(30) DEF WatermarkStops, WatermarkReached, MayStop, Busy,
         SnapshotEnded, Shape, Runs, Catalogs
    <2>2. run.outcome \in Recorded
      BY <1>14 DEF WatermarkStops, Stage, ShutdownInv, BeforeVerdict
    <2> QED BY <1>o, <1>14, <2>1, <2>2, SMTT(30)
               DEF WatermarkStops, QuietInv, ShutdownInv, Quiet, Busy, BeforeVerdict
  <1>15. CASE EngineGone
    <2>1. PICK o \in Recorded, ev \in SUBSET Evidence :
            run' = [run EXCEPT !.at = "stop", !.outcome = Record(run.outcome, o),
                               !.evidence = ev]
      BY <1>15, GoneForm, Zenon
    <2>2. /\ run'.at = "stop" /\ run'.outcome = Record(run.outcome, o)
          /\ run'.verdict = run.verdict /\ run'.quiesced = run.quiesced
          /\ run'.handoff = run.handoff
      BY <2>1 DEF Shape, Runs
    <2>3. run.at = "loop" /\ UNCHANGED <<mode, catalog, destination>>
      BY <1>15 DEF EngineGone
    <2>4. run.outcome \in Recorded /\ run.verdict = "none"
      BY <2>3 DEF ShutdownInv, BeforeVerdict
    <2>5. run'.outcome \in Recorded
      BY <2>2, <2>4, RecordedStays
    <2> QED BY <2>2, <2>3, <2>4, <2>5 DEF ShutdownInv, BeforeVerdict
  <1>16. CASE ServiceHoldsLock
    <2>1. /\ run'.at \in {"loop", "stop"} /\ run'.quiesced = run.quiesced
          /\ run'.verdict = run.verdict /\ run'.handoff = run.handoff
          /\ run'.outcome \in {run.outcome, Record(run.outcome, "engine_error")}
      BY <1>16, ZenonT(30) DEF ServiceHoldsLock, Busy, Shape, Runs
    <2>2. run.outcome \in Recorded
      BY <1>16, SMTT(30) DEF ServiceHoldsLock, Stage, ShutdownInv, BeforeVerdict
    <2> QED BY <1>o, <1>16, <2>1, <2>2 DEF ServiceHoldsLock, QuietInv, ShutdownInv,
               Quiet, Busy, BeforeVerdict
  <1>17. CASE BeginShutdown
    <2>1. /\ run'.at \in {"ack", "seal"} /\ run'.quiesced = run.quiesced
          /\ run'.verdict = run.verdict /\ run'.handoff = run.handoff
          /\ run'.outcome \in {run.outcome, Record(run.outcome, "engine_error")}
      BY <1>17, ShutdownForm, ZenonT(30) DEF Shape, Runs
    <2>2. run.outcome \in Recorded
      BY <1>17 DEF BeginShutdown, Stage, ShutdownInv, BeforeVerdict
    <2> QED BY <1>o, <1>17, <2>1, <2>2 DEF BeginShutdown, Stage, ShutdownInv,
               BeforeVerdict
  <1>18. CASE AwaitAcknowledgement
    <2>1. /\ run'.at = "seal" /\ run'.quiesced = run.quiesced
          /\ run'.verdict = run.verdict /\ run'.handoff = run.handoff
          /\ run'.outcome \in {run.outcome, Record(run.outcome, "engine_error")}
      BY <1>18, Zenon DEF AwaitAcknowledgement, Stage, Shape, Runs
    <2>2. run.outcome \in Recorded
      BY <1>18 DEF AwaitAcknowledgement, Stage, ShutdownInv, BeforeVerdict
    <2> QED BY <1>o, <1>18, <2>1, <2>2 DEF AwaitAcknowledgement, Stage, QuietInv,
               ShutdownInv, Quiet, Busy, BeforeVerdict
  <1>19. CASE SealAdmission
    <2>1. /\ run'.at = "quiesce" /\ run'.quiesced = run.quiesced
          /\ run'.verdict = run.verdict /\ run'.handoff = run.handoff
          /\ run'.outcome = run.outcome
      BY <1>19 DEF SealAdmission, Stage, Shape, Runs
    <2>2. run.outcome \in Recorded
      BY <1>19 DEF SealAdmission, Stage, ShutdownInv, BeforeVerdict
    <2> QED BY <1>o, <1>19, <2>1, <2>2, SMTT(30)
               DEF SealAdmission, Stage, QuietInv, ShutdownInv, Quiet, Busy,
               BeforeVerdict
  <1>20. CASE ProveQuiescence
    <2>1. /\ run'.verdict = run.verdict /\ run'.handoff = run.handoff
          /\ \/ /\ run'.at = "executors" /\ run'.quiesced = run.quiesced
                /\ run'.outcome = run.outcome /\ UNCHANGED destination
             \/ /\ run'.at = "catalog" /\ ~run'.quiesced
                /\ run'.outcome = Record(run.outcome, "hung")
      BY <1>20, Zenon DEF ProveQuiescence, Stage, Busy, Shape, Runs
    <2>2. run.outcome \in Recorded
      BY <1>20 DEF ProveQuiescence, Stage, ShutdownInv, BeforeVerdict
    <2> QED BY <1>o, <1>20, <2>1, <2>2 DEF ProveQuiescence, Stage, QuietInv,
               ShutdownInv, Quiet, Busy, BeforeVerdict
  <1>21. CASE StopExecutors
    <2>1. /\ run'.verdict = run.verdict /\ run'.handoff = run.handoff
          /\ run'.quiesced = run.quiesced
          /\ \/ run'.at = "close" /\ run'.outcome = run.outcome
             \/ run'.at = "catalog" /\ run'.outcome = Record(run.outcome, "hung")
      BY <1>21, ZenonT(30) DEF StopExecutors, Stage, Proves, Hangs, Shape, Runs
    <2>2. run.outcome \in Recorded
      BY <1>21 DEF StopExecutors, Stage, ShutdownInv, BeforeVerdict
    <2> QED BY <1>o, <1>21, <2>1, <2>2 DEF StopExecutors, Stage, QuietInv,
               ShutdownInv, Quiet, Busy, BeforeVerdict
  <1>22. CASE CloseEngine
    <2>1. /\ run'.at = "closing" /\ run'.quiesced = run.quiesced
          /\ run'.verdict = run.verdict /\ run'.handoff = run.handoff
          /\ run'.outcome = run.outcome
      BY <1>22 DEF CloseEngine, Stage, Shape, Runs
    <2>2. run.outcome \in Recorded
      BY <1>22, SMTT(30) DEF CloseEngine, Stage, ShutdownInv, BeforeVerdict
    <2> QED BY <1>o, <1>22, <2>1, <2>2, SMTT(30)
               DEF CloseEngine, Stage, QuietInv, ShutdownInv, Quiet, Busy,
               BeforeVerdict
  <1>23. CASE EngineClosed
    <2>1. /\ run'.verdict = run.verdict /\ run'.handoff = run.handoff
          /\ run'.quiesced = run.quiesced
          /\ \/ run'.at = "join" /\ run'.outcome = run.outcome
             \/ run'.at = "catalog" /\ run'.outcome = Record(run.outcome, "hung")
      BY <1>23, Zenon DEF EngineClosed, Stage, Proves, Hangs, Shape, Runs
    <2>2. run.outcome \in Recorded
      BY <1>23, SMTT(30) DEF EngineClosed, Stage, ShutdownInv, BeforeVerdict
    <2> QED BY <1>o, <1>23, <2>1, <2>2 DEF EngineClosed, Stage, QuietInv,
               ShutdownInv, Quiet, Busy, BeforeVerdict
  <1>24. CASE JoinEngine
    <2>1. /\ run'.verdict = run.verdict /\ run'.handoff = run.handoff
          /\ run'.quiesced = run.quiesced
          /\ run'.at = "catalog"
          /\ \/ ~engine.alive /\ run'.outcome = run.outcome
             \/ run'.outcome = Record(run.outcome, "hung")
      BY <1>24, ZenonT(30) DEF JoinEngine, Stage, Proves, Hangs, Shape, Runs
    <2>2. run.outcome \in Recorded
      BY <1>24 DEF JoinEngine, Stage, ShutdownInv, BeforeVerdict
    <2> QED BY <1>o, <1>24, <2>1, <2>2 DEF JoinEngine, Stage, QuietInv, ShutdownInv,
               Quiet, Busy, BeforeVerdict
  <1>25. CASE StopCatalog
    <2>1. /\ run'.at = "verdict" /\ run'.quiesced = run.quiesced
          /\ run'.verdict = run.verdict /\ run'.handoff = run.handoff
          /\ run'.outcome = run.outcome
          /\ catalog'.new = catalog.new /\ applier'.sealed = applier.sealed
          /\ applier'.callback = applier.callback
          /\ run'.poller /\ ~run.handoff => ~catalog'.alive
      BY <1>25 DEF StopCatalog, Stage, Shape, Runs, Catalogs, Appliers
    <2>2. run.outcome \in Recorded
      BY <1>25 DEF StopCatalog, Stage, ShutdownInv, BeforeVerdict
    <2> QED BY <1>o, <1>25, <2>1, <2>2, SMTT(30)
               DEF StopCatalog, Stage, QuietInv, ShutdownInv, Quiet, Busy,
               BeforeVerdict
  <1>26. CASE Verdict
    <2>1. \/ /\ run'.at = "coordinate" /\ run'.handoff = run.handoff
          \/ run'.at = "unwind" /\ ~run'.handoff
      BY <1>26, VerdictForm, ZenonT(30) DEF Shape, Runs, Locals
    <2> QED BY <1>26, <2>1, SMTT(30) DEF Verdict, ShutdownInv, BeforeVerdict
  <1>27. CASE FinishRun
    <2>1. \/ run'.at = "teardown" /\ run'.handoff = run.handoff
          \/ run'.at = "unwind" /\ ~run'.handoff
      BY <1>27 DEF FinishRun, Shape, Runs, Locals
    <2> QED BY <1>27, <2>1 DEF FinishRun, ShutdownInv, BeforeVerdict
  <1>28. CASE DiscoveryHandoff
    <2>1. "max_seconds" \in Recorded
      BY DEF Recorded
    <2> QED BY <1>28, <2>1, HandoffForm DEF Shape, Destinations, Retired, QuietInv,
               ShutdownInv, BeforeVerdict
  <1>29. CASE CoordinatorUnwinds
    <2>1. run'.at = "report" /\ run'.handoff = run.handoff /\ catalog'.new = catalog.new
      BY <1>29 DEF CoordinatorUnwinds, Shape, Runs, Catalogs
    <2> QED BY <1>29, <2>1 DEF CoordinatorUnwinds, ShutdownInv, BeforeVerdict
  <1>30. CASE ReportFailure
    <2>1. run'.at = "teardown" /\ run'.handoff = run.handoff
      BY <1>30 DEF ReportFailure, Shape, Runs
    <2> QED BY <1>30, <2>1 DEF ReportFailure, ShutdownInv, BeforeVerdict
  <1>31. CASE Teardown
    <2>1. run'.at = "exit" /\ run'.handoff = run.handoff
      BY <1>31 DEF Teardown, Shape, Runs
    <2> QED BY <1>31, <2>1 DEF Teardown, ShutdownInv, BeforeVerdict
  <1>32. CASE UNCHANGED vars
    BY <1>1, <1>32, SMTT(30) DEF vars
  <1> QED
    BY <1>1, <1>2, <1>3, <1>4, <1>5, <1>6, <1>7, <1>8, <1>9, <1>10, <1>11, <1>12,
       <1>13, <1>14, <1>15, <1>16, <1>17, <1>18, <1>19, <1>20, <1>21, <1>22, <1>23,
       <1>24, <1>25, <1>26, <1>27, <1>28, <1>29, <1>30, <1>31, <1>32, SMTT(30)
       DEF Next, MainThread, Watchdog, Ended

-----------------------------------------------------------------------------
(* Each step keeps a success complete.                                       *)

\* What a successful verdict saw is still so at the exit.
LEMMA SuccessStep ==
  ASSUME Shape, QuietInv, ShutdownInv, SuccessInv, [Next]_vars
  PROVE  SuccessInv'
  <1>1. CASE UNCHANGED <<mode, engine, applier, catalog, snapshot, run, destination>>
    BY <1>1, SMTT(30) DEF SuccessInv, Quiet, Busy, SnapshotEnded
  <1>2. ASSUME \/ SourceCommits \/ SourceChanges \/ Sample \/ SlotConfirms
          \/ DrainSignal \/ WatchdogStalls \/ WatchdogDecides \/ WatchdogExits
          \/ ArmWatermark \/ ServiceObserves \/ Exit
        PROVE  UNCHANGED <<mode, engine, applier, catalog, snapshot, run, destination>>
    BY <1>2, Zenon DEF SourceCommits, SourceChanges, Sample, SlotConfirms,
       DrainSignal, WatchdogStalls, WatchdogDecides, WatchdogExits, ArmWatermark,
       ServiceObserves, Exit
  <1>3. CASE EngineReports
    <2>1. run.verdict # "ok"
      BY <1>3 DEF EngineReports, Noticed, SuccessInv, Quiet, Busy
    <2>2. run'.verdict = run.verdict
      BY <1>3 DEF EngineReports
    <2> QED BY <2>1, <2>2 DEF SuccessInv
  <1>4. CASE EngineEnds
    <2>1. run.verdict # "ok"
      BY <1>4 DEF EngineEnds, Noticed, SuccessInv, Quiet, Busy
    <2>2. run'.verdict = run.verdict
      BY <1>4 DEF EngineEnds
    <2> QED BY <2>1, <2>2 DEF SuccessInv
  <1>5. CASE CatalogPoll
    <2>1. run.verdict # "ok"
      BY <1>5 DEF CatalogPoll, Noticed, SuccessInv, Quiet, Busy
    <2>2. run'.verdict = run.verdict
      BY <1>5 DEF CatalogPoll
    <2> QED BY <2>1, <2>2 DEF SuccessInv
  <1>6. CASE HandleBatch
    <2>1. run.verdict # "ok"
      BY <1>6 DEF HandleBatch, Busy, SuccessInv, Quiet
    <2>2. run'.verdict = run.verdict
      BY <1>6 DEF HandleBatch
    <2> QED BY <2>1, <2>2 DEF SuccessInv
  <1>7. CASE CommitGroup
    <2>1. run.verdict # "ok"
      BY <1>7 DEF CommitGroup, SuccessInv, Quiet, Busy
    <2>2. run'.verdict = run.verdict
      BY <1>7 DEF CommitGroup
    <2> QED BY <2>1, <2>2 DEF SuccessInv
  <1>8. CASE AcknowledgeBatch
    <2>1. run.verdict # "ok"
      BY <1>8 DEF AcknowledgeBatch, SuccessInv, Quiet, Busy
    <2>2. run'.verdict = run.verdict
      BY <1>8 DEF AcknowledgeBatch
    <2> QED BY <2>1, <2>2 DEF SuccessInv
  <1>9. CASE LeaveTailOpen
    <2>1. run.verdict # "ok"
      BY <1>9 DEF LeaveTailOpen, SuccessInv, Quiet, Busy
    <2>2. run'.verdict = run.verdict
      BY <1>9 DEF LeaveTailOpen
    <2> QED BY <2>1, <2>2 DEF SuccessInv
  <1>10. CASE CallbackRaises
    <2>1. run.verdict # "ok"
      BY <1>10 DEF CallbackRaises, Busy, SuccessInv, Quiet
    <2>2. run'.verdict = run.verdict
      BY <1>10 DEF CallbackRaises
    <2> QED BY <2>1, <2>2 DEF SuccessInv
  <1>11. CASE LoopRaises
    <2>1. run.verdict # "ok"
      BY <1>11 DEF LoopRaises, SuccessInv, Quiet, Busy
    <2>2. run'.verdict = run.verdict
      BY <1>11 DEF LoopRaises, Shape, Runs
    <2> QED BY <2>1, <2>2 DEF SuccessInv
  <1>12. CASE ServiceLocks
    <2>1. run.verdict # "ok"
      BY <1>12 DEF ServiceLocks, SuccessInv, Quiet, Busy
    <2>2. run'.verdict = run.verdict
      BY <1>12 DEF ServiceLocks, Shape, Runs
    <2> QED BY <2>1, <2>2 DEF SuccessInv
  <1>13. CASE LoopStops
    <2>1. run.verdict # "ok"
      BY <1>13, SMTT(30) DEF LoopStops, SuccessInv, Quiet, Busy
    <2>2. run'.verdict = run.verdict
      BY <1>13, LoopForm, ZenonT(30) DEF Shape, Runs
    <2> QED BY <2>1, <2>2 DEF SuccessInv
  <1>14. CASE WatermarkStops
    <2>1. run.verdict # "ok"
      BY <1>14 DEF WatermarkStops, Busy, SuccessInv, Quiet
    <2>2. run'.verdict = run.verdict
      BY <1>14, ZenonT(30) DEF WatermarkStops, Shape, Runs
    <2> QED BY <2>1, <2>2 DEF SuccessInv
  <1>15. CASE EngineGone
    <2>1. run.verdict # "ok"
      BY <1>15 DEF EngineGone, SuccessInv, Quiet, Busy
    <2>2. run'.verdict = run.verdict
      BY <1>15, GoneForm, Zenon DEF Shape, Runs
    <2> QED BY <2>1, <2>2 DEF SuccessInv
  <1>16. CASE ServiceHoldsLock
    <2>1. run.verdict # "ok"
      BY <1>16 DEF ServiceHoldsLock, Busy, SuccessInv, Quiet
    <2>2. run'.verdict = run.verdict
      BY <1>16, Zenon DEF ServiceHoldsLock, Shape, Runs
    <2> QED BY <2>1, <2>2 DEF SuccessInv
  <1>17. CASE BeginShutdown
    <2>1. run.verdict # "ok"
      BY <1>17 DEF BeginShutdown, Stage, SuccessInv, Quiet, Busy
    <2>2. run'.verdict = run.verdict
      BY <1>17, ShutdownForm, ZenonT(30) DEF Shape, Runs
    <2> QED BY <2>1, <2>2 DEF SuccessInv
  <1>18. CASE AwaitAcknowledgement
    <2>1. run.verdict # "ok"
      BY <1>18 DEF AwaitAcknowledgement, Stage, SuccessInv, Quiet, Busy
    <2>2. run'.verdict = run.verdict
      BY <1>18, Zenon DEF AwaitAcknowledgement, Shape, Runs
    <2> QED BY <2>1, <2>2 DEF SuccessInv
  <1>19. CASE SealAdmission
    <2>1. run.verdict # "ok"
      BY <1>19 DEF SealAdmission, Stage, SuccessInv, Quiet, Busy
    <2>2. run'.verdict = run.verdict
      BY <1>19 DEF SealAdmission, Shape, Runs
    <2> QED BY <2>1, <2>2 DEF SuccessInv
  <1>20. CASE ProveQuiescence
    <2>1. run.verdict # "ok"
      BY <1>20 DEF ProveQuiescence, Stage, Busy, SuccessInv, Quiet
    <2>2. run'.verdict = run.verdict
      BY <1>20, Zenon DEF ProveQuiescence, Shape, Runs
    <2> QED BY <2>1, <2>2 DEF SuccessInv
  <1>21. CASE StopExecutors
    <2>1. run.verdict # "ok"
      BY <1>21 DEF StopExecutors, Stage, SuccessInv, Quiet, Busy
    <2>2. run'.verdict = run.verdict
      BY <1>21, Zenon DEF StopExecutors, Shape, Runs, Proves, Hangs
    <2> QED BY <2>1, <2>2 DEF SuccessInv
  <1>22. CASE CloseEngine
    <2>1. run.verdict # "ok"
      BY <1>22 DEF CloseEngine, Stage, SuccessInv, Quiet, Busy
    <2>2. run'.verdict = run.verdict
      BY <1>22, SMTT(30) DEF CloseEngine, Shape, Runs
    <2> QED BY <2>1, <2>2 DEF SuccessInv
  <1>23. CASE EngineClosed
    <2>1. run.verdict # "ok"
      BY <1>23 DEF EngineClosed, Stage, SuccessInv, Quiet, Busy
    <2>2. run'.verdict = run.verdict
      BY <1>23, Zenon DEF EngineClosed, Shape, Runs, Proves, Hangs
    <2> QED BY <2>1, <2>2 DEF SuccessInv
  <1>24. CASE JoinEngine
    <2>1. run.verdict # "ok"
      BY <1>24 DEF JoinEngine, Stage, SuccessInv, Quiet, Busy
    <2>2. run'.verdict = run.verdict
      BY <1>24, ZenonT(30) DEF JoinEngine, Shape, Runs, Proves, Hangs
    <2> QED BY <2>1, <2>2 DEF SuccessInv
  <1>25. CASE StopCatalog
    <2>1. run.verdict # "ok"
      BY <1>25 DEF StopCatalog, Stage, SuccessInv, Quiet, Busy
    <2>2. run'.verdict = run.verdict
      BY <1>25 DEF StopCatalog, Shape, Runs
    <2> QED BY <2>1, <2>2 DEF SuccessInv
  <1>26. CASE Verdict
    <2>1. run.at = "verdict" /\ UNCHANGED <<mode, engine, applier, catalog, snapshot, destination>>
      BY <1>26, SMTT(30) DEF Verdict, Stage
    <2>2. CASE run'.verdict = "failed"
      BY <2>2 DEF SuccessInv
    <2>3. CASE /\ run' = [run EXCEPT !.verdict = "ok", !.at = "coordinate"]
               /\ run.quiesced /\ ~applier.error /\ ~engine.failure
               /\ run.outcome \notin Refused /\ SnapshotEnded
               /\ run.poller /\ catalog.polls = "ok"
               /\ ~run.handoff => ~catalog.pending
      <3>1. run'.at = "coordinate" /\ run'.handoff = run.handoff
        BY <2>3 DEF Shape, Runs
      <3>2. /\ Quiet /\ ~engine.alive /\ destination.token = "active"
            /\ ~run.handoff => ~catalog.alive
        BY <2>1, <2>3 DEF ShutdownInv, BeforeVerdict
      <3> QED BY <2>1, <2>3, <3>1, <3>2, SMTT(30)
                 DEF SuccessInv, Quiet, Busy, SnapshotEnded
    <2>4. \A o : [Locals EXCEPT !.at = "unwind", !.outcome = o,
                              !.verdict = "failed"].verdict = "failed"
      BY SMTT(30) DEF Locals
    <2> QED BY <1>26, <2>2, <2>3, <2>4, VerdictForm, Zenon
  <1>27. CASE FinishRun
    <2>1. /\ run.at = "coordinate" /\ ~(mode = "finite" /\ catalog.new)
          /\ UNCHANGED <<mode, engine, applier, catalog, snapshot, destination>>
      BY <1>27 DEF FinishRun, Stage
    <2>2. \/ run'.verdict = "failed"
          \/ /\ run'.verdict = run.verdict /\ run'.at = "teardown"
             /\ run'.handoff = run.handoff
      BY <1>27, SMTT(30) DEF FinishRun, Shape, Runs, Locals
    <2>3. ~run.handoff /\ (catalog.new => mode = "service")
      BY <2>1 DEF ShutdownInv, Shape
    <2> QED BY <2>1, <2>2, <2>3 DEF SuccessInv, Quiet, Busy, SnapshotEnded
  <1>28. CASE DiscoveryHandoff
    BY <1>28, HandoffForm, SMTT(30) DEF SuccessInv
  <1>29. CASE CoordinatorUnwinds
    <2>1. run.verdict # "ok"
      BY <1>29 DEF CoordinatorUnwinds, Stage, SuccessInv, Quiet, Busy
    <2>2. run'.verdict = run.verdict
      BY <1>29 DEF CoordinatorUnwinds, Shape, Runs
    <2> QED BY <2>1, <2>2 DEF SuccessInv
  <1>30. CASE ReportFailure
    <2>1. run.verdict # "ok"
      BY <1>30 DEF ReportFailure, Stage, SuccessInv, Quiet, Busy
    <2>2. run'.verdict = run.verdict
      BY <1>30, SMTT(30) DEF ReportFailure, Shape, Runs
    <2> QED BY <2>1, <2>2 DEF SuccessInv
  <1>31. CASE Teardown
    <2>1. /\ run.at = "teardown"
          /\ UNCHANGED <<mode, engine, applier, catalog, snapshot>>
      BY <1>31 DEF Teardown, Stage
    <2>2. /\ run'.verdict = run.verdict /\ run'.at = "exit"
          /\ run'.handoff = run.handoff
      BY <1>31, SMTT(30) DEF Teardown, Shape, Runs
    <2>3. run.verdict = "ok" => Retired(destination.token) = "available"
      BY <2>1 DEF SuccessInv, Quiet, Retired, Shape, Destinations
    <2>4. Retired(destination.token) = "available" =>
            /\ destination'.token = "available" /\ destination'.lease = "released"
            /\ destination'.con = "closed"
      BY <1>31 DEF Teardown, Shape, Destinations
    <2> QED BY <2>1, <2>2, <2>3, <2>4, SMTT(30)
               DEF SuccessInv, Quiet, Busy, SnapshotEnded
  <1>32. CASE UNCHANGED vars
    BY <1>1, <1>32, SMTT(30) DEF vars
  <1> QED
    BY <1>1, <1>2, <1>3, <1>4, <1>5, <1>6, <1>7, <1>8, <1>9, <1>10, <1>11, <1>12,
       <1>13, <1>14, <1>15, <1>16, <1>17, <1>18, <1>19, <1>20, <1>21, <1>22, <1>23,
       <1>24, <1>25, <1>26, <1>27, <1>28, <1>29, <1>30, <1>31, <1>32, SMTT(30)
       DEF Next, MainThread, Watchdog, Ended

\* A process exits with success only at the end of a successful run.
LEMMA ExitStep ==
  ASSUME Shape, ExitInv, [Next]_vars
  PROVE  ExitInv'
  <1>1. CASE UNCHANGED <<run, process>>
    BY <1>1, SMTT(30) DEF ExitInv
  <1>2. ASSUME \/ SourceCommits \/ SourceChanges \/ Sample \/ SlotConfirms
          \/ EngineReports \/ EngineEnds \/ CatalogPoll \/ HandleBatch
          \/ CommitGroup \/ AcknowledgeBatch \/ LeaveTailOpen \/ CallbackRaises
          \/ DrainSignal \/ WatchdogStalls \/ WatchdogDecides \/ ArmWatermark
          \/ ServiceObserves
        PROVE  UNCHANGED <<run, process>>
    BY <1>2, Zenon DEF SourceCommits, SourceChanges, Sample, SlotConfirms,
       EngineReports, EngineEnds, CatalogPoll, HandleBatch, CommitGroup,
       AcknowledgeBatch, LeaveTailOpen, CallbackRaises, DrainSignal, WatchdogStalls,
       WatchdogDecides, ArmWatermark, ServiceObserves
  <1>3. CASE WatchdogExits
    BY <1>3 DEF WatchdogExits, Running, ExitInv
  <1>4. CASE LoopRaises
    BY <1>4 DEF LoopRaises, Running, ExitInv
  <1>5. CASE ServiceLocks
    BY <1>5 DEF ServiceLocks, Running, ExitInv
  <1>6. CASE LoopStops
    BY <1>6 DEF LoopStops, Running, ExitInv
  <1>7. CASE WatermarkStops
    BY <1>7 DEF WatermarkStops, Running, ExitInv
  <1>8. CASE EngineGone
    BY <1>8 DEF EngineGone, Running, ExitInv
  <1>9. CASE ServiceHoldsLock
    BY <1>9 DEF ServiceHoldsLock, Running, ExitInv
  <1>10. CASE BeginShutdown
    BY <1>10 DEF BeginShutdown, Stage, Running, ExitInv
  <1>11. CASE AwaitAcknowledgement
    BY <1>11 DEF AwaitAcknowledgement, Stage, Running, ExitInv
  <1>12. CASE SealAdmission
    BY <1>12 DEF SealAdmission, Stage, Running, ExitInv
  <1>13. CASE ProveQuiescence
    BY <1>13 DEF ProveQuiescence, Stage, Running, ExitInv
  <1>14. CASE StopExecutors
    BY <1>14 DEF StopExecutors, Stage, Running, ExitInv
  <1>15. CASE CloseEngine
    BY <1>15 DEF CloseEngine, Stage, Running, ExitInv
  <1>16. CASE EngineClosed
    BY <1>16 DEF EngineClosed, Stage, Running, ExitInv
  <1>17. CASE JoinEngine
    BY <1>17 DEF JoinEngine, Stage, Running, ExitInv
  <1>18. CASE StopCatalog
    BY <1>18 DEF StopCatalog, Stage, Running, ExitInv
  <1>19. CASE Verdict
    BY <1>19 DEF Verdict, Stage, Running, ExitInv
  <1>20. CASE FinishRun
    BY <1>20 DEF FinishRun, Stage, Running, ExitInv
  <1>21. CASE DiscoveryHandoff
    BY <1>21, HandoffForm DEF Running, ExitInv
  <1>22. CASE CoordinatorUnwinds
    BY <1>22 DEF CoordinatorUnwinds, Stage, Running, ExitInv
  <1>23. CASE ReportFailure
    BY <1>23 DEF ReportFailure, Stage, Running, ExitInv
  <1>24. CASE Teardown
    BY <1>24 DEF Teardown, Stage, Running, ExitInv
  <1>25. CASE Exit
    BY <1>25 DEF Exit, Stage, Running, ExitInv
  <1>26. CASE UNCHANGED vars
    BY <1>1, <1>26, SMTT(30) DEF vars
  <1> QED
    BY <1>1, <1>2, <1>3, <1>4, <1>5, <1>6, <1>7, <1>8, <1>9, <1>10, <1>11, <1>12,
       <1>13, <1>14, <1>15, <1>16, <1>17, <1>18, <1>19, <1>20, <1>21, <1>22, <1>23,
       <1>24, <1>25, <1>26, SMTT(30) DEF Next, MainThread, Watchdog, Ended

-----------------------------------------------------------------------------
(* Each step keeps the cause.                                                *)

\* Within one engine the recorded outcome only becomes more severe.
LEMMA OutcomeStep ==
  ASSUME Shape, [Next]_vars
  PROVE  Rank(run.outcome') >= Rank(run.outcome) \/ run'.at = "loop"
  <1>0. /\ Rank(run.outcome) \in 1..10
        /\ \A o \in Recorded \union {"recovery_uncleared", "catalog_unresolved", "error"} :
             Rank(Record(run.outcome, o)) >= Rank(run.outcome)
        /\ "hung" \in Recorded /\ "engine_error" \in Recorded /\ "idle" \in Recorded
    <2>1. run.outcome \in Outcomes
      BY DEF Shape, Runs
    <2>2. /\ Recorded \union {"recovery_uncleared", "catalog_unresolved", "error"}
               \subseteq Outcomes
          /\ "hung" \in Recorded /\ "engine_error" \in Recorded /\ "idle" \in Recorded
      BY DEF Outcomes, Recorded, Refused
    <2> QED BY <2>1, <2>2, RecordIs
  <1>1. CASE UNCHANGED <<run>>
    BY <1>0, <1>1, SMTT(30)
  <1>2. ASSUME \/ SourceCommits \/ SourceChanges \/ Sample \/ SlotConfirms
          \/ EngineReports \/ EngineEnds \/ CatalogPoll \/ HandleBatch
          \/ CommitGroup \/ AcknowledgeBatch \/ LeaveTailOpen \/ CallbackRaises
          \/ DrainSignal \/ WatchdogStalls \/ WatchdogDecides \/ WatchdogExits
          \/ ArmWatermark \/ ServiceObserves \/ Exit
        PROVE  UNCHANGED <<run>>
    BY <1>2, ZenonT(30) DEF SourceCommits, SourceChanges, Sample, SlotConfirms,
       EngineReports, EngineEnds, CatalogPoll, HandleBatch, CommitGroup,
       AcknowledgeBatch, LeaveTailOpen, CallbackRaises, DrainSignal, WatchdogStalls,
       WatchdogDecides, WatchdogExits, ArmWatermark, ServiceObserves, Exit
  <1>3. CASE LoopRaises
    <2>1. run'.outcome \in {run.outcome, Record(run.outcome, "engine_error")}
      BY <1>3 DEF LoopRaises, Shape, Runs
    <2> QED BY <1>0, <2>1
  <1>4. CASE ServiceLocks
    <2>1. run'.outcome = run.outcome
      BY <1>4 DEF ServiceLocks, Shape, Runs
    <2> QED BY <1>0, <2>1
  <1>5. CASE LoopStops
    <2>1. \E o \in Recorded : run'.outcome = Record(run.outcome, o)
      BY <1>5, LoopForm, Zenon DEF Shape, Runs
    <2> QED BY <1>0, <2>1
  <1>6. CASE WatermarkStops
    <2>1. run'.outcome \in {run.outcome, Record(run.outcome, "idle")}
      BY <1>6, ZenonT(30) DEF WatermarkStops, Shape, Runs
    <2> QED BY <1>0, <2>1
  <1>7. CASE EngineGone
    <2>1. \E o \in Recorded : run'.outcome = Record(run.outcome, o)
      BY <1>7, GoneForm, Zenon DEF Shape, Runs
    <2> QED BY <1>0, <2>1
  <1>8. CASE ServiceHoldsLock
    <2>1. run'.outcome \in {run.outcome, Record(run.outcome, "engine_error")}
      BY <1>8, Zenon DEF ServiceHoldsLock, Shape, Runs
    <2> QED BY <1>0, <2>1
  <1>9. CASE BeginShutdown
    <2>1. run'.outcome \in {run.outcome, Record(run.outcome, "engine_error")}
      BY <1>9, ShutdownForm, ZenonT(30) DEF Shape, Runs
    <2> QED BY <1>0, <2>1
  <1>10. CASE AwaitAcknowledgement
    <2>1. run'.outcome \in {run.outcome, Record(run.outcome, "engine_error")}
      BY <1>10, Zenon DEF AwaitAcknowledgement, Shape, Runs
    <2> QED BY <1>0, <2>1
  <1>11. CASE SealAdmission
    <2>1. run'.outcome = run.outcome
      BY <1>11 DEF SealAdmission, Shape, Runs
    <2> QED BY <1>0, <2>1
  <1>12. CASE ProveQuiescence
    <2>1. run'.outcome \in {run.outcome, Record(run.outcome, "hung")}
      BY <1>12, Zenon DEF ProveQuiescence, Shape, Runs
    <2> QED BY <1>0, <2>1
  <1>13. CASE StopExecutors
    <2>1. run'.outcome \in {run.outcome, Record(run.outcome, "hung")}
      BY <1>13, Zenon DEF StopExecutors, Proves, Hangs, Shape, Runs
    <2> QED BY <1>0, <2>1
  <1>14. CASE CloseEngine
    <2>1. run'.outcome = run.outcome
      BY <1>14 DEF CloseEngine, Shape, Runs
    <2> QED BY <1>0, <2>1
  <1>15. CASE EngineClosed
    <2>1. run'.outcome \in {run.outcome, Record(run.outcome, "hung")}
      BY <1>15, Zenon DEF EngineClosed, Proves, Hangs, Shape, Runs
    <2> QED BY <1>0, <2>1
  <1>16. CASE JoinEngine
    <2>1. run'.outcome \in {run.outcome, Record(run.outcome, "hung")}
      BY <1>16, ZenonT(30) DEF JoinEngine, Proves, Hangs, Shape, Runs
    <2> QED BY <1>0, <2>1
  <1>17. CASE StopCatalog
    <2>1. run'.outcome = run.outcome
      BY <1>17 DEF StopCatalog, Shape, Runs
    <2> QED BY <1>0, <2>1
  <1>18. CASE Verdict
    <2>1. \A o : [Locals EXCEPT !.at = "unwind", !.outcome = o,
                              !.verdict = "failed"].outcome = o
      BY DEF Locals
    <2>2. [run EXCEPT !.verdict = "ok", !.at = "coordinate"].outcome = run.outcome
      BY DEF Shape, Runs
    <2>3. CASE run' = [run EXCEPT !.verdict = "ok", !.at = "coordinate"]
      BY <1>0, <2>2, <2>3
    <2>4. CASE \E o \in Outcomes :
                 /\ run' = [Locals EXCEPT !.at = "unwind", !.outcome = o,
                                          !.verdict = "failed"]
                 /\ Rank(o) >= Rank(run.outcome)
      BY <2>1, <2>4, SMTT(30)
    <2> QED BY <1>18, <2>3, <2>4, VerdictForm, Zenon
  <1>19. CASE FinishRun
    <2>1. run'.outcome \in {run.outcome, Record(run.outcome, "recovery_uncleared"),
                               Record(run.outcome, "catalog_unresolved"),
                               Record(run.outcome, "engine_error")}
      BY <1>19 DEF FinishRun, Shape, Runs, Locals
    <2> QED BY <1>0, <2>1
  <1>20. CASE DiscoveryHandoff
    BY <1>0, <1>20, HandoffForm, SMTT(30)
  <1>21. CASE CoordinatorUnwinds
    <2>1. run'.outcome = run.outcome
      BY <1>21 DEF CoordinatorUnwinds, Shape, Runs
    <2> QED BY <1>0, <2>1
  <1>22. CASE ReportFailure
    <2>1. run'.outcome \in {run.outcome, Record(run.outcome, "error")}
      BY <1>22, SMTT(30) DEF ReportFailure, Shape, Runs
    <2> QED BY <1>0, <2>1
  <1>23. CASE Teardown
    <2>1. run'.outcome = run.outcome
      BY <1>23, SMTT(30) DEF Teardown, Shape, Runs
    <2> QED BY <1>0, <2>1
  <1>24. CASE UNCHANGED vars
    BY <1>1, <1>24 DEF vars
  <1> QED
    BY <1>1, <1>2, <1>3, <1>4, <1>5, <1>6, <1>7, <1>8, <1>9, <1>10, <1>11, <1>12,
       <1>13, <1>14, <1>15, <1>16, <1>17, <1>18, <1>19, <1>20, <1>21, <1>22, <1>23,
       <1>24, SMTT(30) DEF Next, MainThread, Watchdog, Ended

-----------------------------------------------------------------------------
(* The theorems.                                                            *)

\* The process starts with nothing asked, owed or given up.
LEMMA InitHolds == Init => IInv
  <1> SUFFICES ASSUME Init PROVE IInv
    OBVIOUS
  <1>1. Shape
    <2>1. mode \in {"service", "finite"}
      BY SupervisorAssumption DEF Init
    <2>2. /\ source \in Sources /\ health \in Samples /\ engine \in Engines
          /\ service \in Services /\ snapshot \in Snapshots
      <3>1. source \in Sources
        <4>1. PICK w \in {TRUE, mode = "service"} :
                source = [wal |-> 1, confirmed |-> 0, up |-> TRUE, slot |-> TRUE,
                          writable |-> w]
          BY ZenonT(30) DEF Init
        <4>2. w \in BOOLEAN
          BY Zenon
        <4>3. 0 \in Nat /\ 1 \in Nat
          BY SMTT(30)
        <4> QED BY <4>1, <4>2, <4>3, Zenon DEF Sources
      <3>2. snapshot \in Snapshots
        BY SMTT(30) DEF Init, Snapshots
      <3>3. health \in Samples /\ engine \in Engines
        BY ZenonT(30) DEF Init, NoSamples, Samples, Engines
      <3>4. service \in Services
        BY SMTT(30) DEF Init, Services
      <3> QED BY <3>1, <3>2, <3>3, <3>4
    <2>3. /\ applier \in Appliers /\ catalog \in Catalogs /\ watermark \in Watermarks
          /\ destination \in Destinations
      BY SMTT(30) DEF Init, Appliers, Catalogs, Watermarks, Destinations
    <2>4. run \in Runs
      <3>1. /\ "loop" \in Stages /\ "max_seconds" \in Outcomes /\ "open" \in ShutdownStates
        BY SMTT(30) DEF Stages, BeforeVerdict, Outcomes, ShutdownStates
      <3> QED BY <3>1, ZenonT(30) DEF Init, Locals, Runs
    <2> QED BY <2>1, <2>2, <2>3, <2>4, SMTT(30) DEF Shape
  <1>2. QuietInv /\ PositionInv
    <2>1. QuietInv
      BY SMTT(30) DEF Init, Locals, QuietInv
    <2>2. PositionInv
      BY SMTT(30) DEF Init, Locals, PositionInv
    <2> QED BY <2>1, <2>2
  <1>3. ShutdownInv
    <2>1. "max_seconds" \in Recorded
      BY SMTT(30) DEF Recorded
    <2> QED BY <2>1, ZenonT(30) DEF Init, Locals, ShutdownInv
  <1>4. SuccessInv /\ ExitInv
    BY ZenonT(30) DEF Init, Locals, SuccessInv, ExitInv
  <1> QED BY <1>1, <1>2, <1>3, <1>4 DEF IInv

\* The invariant is inductive.
LEMMA StepKeeps == IInv /\ [Next]_vars => IInv'
  BY ShapeStep, QuietStep, PositionStep, ShutdownStep, SuccessStep, ExitStep,
     SMTT(30) DEF IInv

\* The invariant holds in every state of a process.
LEMMA Invariance == Spec => []IInv
  BY InitHolds, StepKeeps, PTL DEF Spec

\* No handle is given up around a callback: once the engine's close() has been
\* called, the lease released or the connection closed, admission is sealed and
\* no callback is inside, whatever the source, the engine and the callback do
\* (the ordered finally of run_engine_bounded, ownership.py, _teardown_destination).
THEOREM RetirementIsQuiescent == Spec => []QuiescentRetirement
  <1>1. IInv => QuiescentRetirement
    BY SMTT(30) DEF IInv, QuietInv, Quiet, QuiescentRetirement
  <1> QED BY <1>1, Invariance, PTL

\* A success is a completed delivery: at a zero exit the destination is durably
\* past the marker, the slot confirmed what the shutdown asked, the snapshot
\* ended, nothing failed, no catalog change is left unapplied, and the poller
\* and the engine are stopped (verdict of run_engine_bounded, completion_stage.py).
THEOREM SuccessIsComplete == Spec => []CompleteOnSuccess
  <1>1. IInv => CompleteOnSuccess
    BY DEF IInv, PositionInv, SuccessInv, ExitInv, CompleteOnSuccess
  <1> QED BY <1>1, Invariance, PTL

\* A cause is never overwritten by its symptom: until a fresh engine starts, the
\* recorded outcome only becomes more severe (RunOutcome.record).
THEOREM CauseIsKept == Spec => CauseOutlivesSymptom
  <1>1. IInv /\ [Next]_vars =>
          [Rank(run.outcome') >= Rank(run.outcome) \/ run'.at = "loop"]_vars
    BY OutcomeStep DEF IInv
  <1> QED BY <1>1, Invariance, PTL DEF Spec, CauseOutlivesSymptom
=============================================================================
