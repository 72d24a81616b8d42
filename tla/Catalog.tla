------------------------------ MODULE Catalog ------------------------------
(***************************************************************************)
(* The source-catalog watcher and the DDL it makes the destination follow: *)
(* `CatalogWatcher` and its polls, the queue of catalog changes, the       *)
(* commit-time plan of `CatalogCoordinator`, publication admission, the    *)
(* discovery hand-off, the registry `source_relations` and the durable     *)
(* catalog baseline.                                                       *)
(*                                                                         *)
(* PostgreSQL does not stream DDL, so a DROP is learnt by polling, after   *)
(* the fact.  Two threads poll (the watcher's own, and the callback thread *)
(* before it admits a unit of unexpected shape); a poll reads the catalog  *)
(* first and the WAL position second, and compares under a lock later      *)
(* still.  A commit group plans from the queue, commits, and settles, with *)
(* polls in between.                                                       *)
(*                                                                         *)
(* `source.log` is the history of inserted rows; a row is named by its     *)
(* position, which is also its LSN.  A row written while the relation was  *)
(* outside the publication is never delivered.  Generations of a relation  *)
(* are numbered from 1; 0 means that there is no relation.                 *)
(***************************************************************************)
EXTENDS Integers, Sequences, FiniteSets, FiniteSetsExt

CONSTANTS
    Names,            \* the qualified names of the watched relations
    Registered,       \* those an earlier run has replicated and registered
    Deployments,      \* records: auto (CDC_AUTO_DISCOVERY, with a publication of listed
                      \* tables; otherwise FOR ALL TABLES), limit (CDC_DROP_MAX_PER_POLL)
    Pollers,          \* "thread"; with "callback" where units may arrive in a new shape
    Drops,            \* the values of CDC_DROP_MODE a run may have
    ConfirmPolls,     \* polls that must agree before a destructive change is queued
    MaxLog(_),        \* bound, of a deployment: inserted rows
    MaxDdl(_),        \* bound, of a deployment: source drops, creations and unpublishings
    MaxFaults         \* bound: crashes and failed polls

VARIABLES
    deployment,  \* how this pipeline is deployed
    source,      \* gen, made (generations so far), pub, log, ddl
    dest,        \* image, state, fence, registry, baseline, resume
    watcher,     \* per name: known, dirty, replicated, gone, changes, streak
    fencing,     \* the last marker's position, and whether a poll succeeded
    view,        \* per poller: the catalog it has read and not yet compared
    proc,        \* the run: pc, mode, the commit plan and other locals
    trail        \* history: faults spent, newest generation destroyed per name

vars == <<deployment, source, dest, watcher, fencing, view, proc, trail>>

-----------------------------------------------------------------------------
Absent == [g |-> 0, p |-> FALSE, a |-> "pending"]

auto == deployment.auto

Ready == {"admitted", "external"}

Owing == {"awaiting_snapshot", "in_progress"}

DESTRUCTIVE == {"dropped", "recreated"}

FENCED == DESTRUCTIVE

NoStreak == [kind |-> "none", g |-> 0, count |-> 0]

NoPlan == [hi |-> 0, acts |-> {}, relations |-> {}, rows |-> {}, advanced |-> FALSE,
           forget |-> {}]

Forgotten ==
    [known |-> Absent, dirty |-> Absent, replicated |-> FALSE, gone |-> FALSE,
     changes |-> {}, streak |-> NoStreak]

Down ==
    [pc |-> "down", mode |-> "ignore", was |-> "absent", owed |-> {}, found |-> {},
     todo |-> {}, exclude |-> {}, plan |-> NoPlan]

Lsn == Len(source.log)

RowsOf(n, g) == {i \in 1 .. Lsn : source.log[i].n = n /\ source.log[i].g = g}

At(pc) == proc.pc = pc

Goto(pc) == proc' = [proc EXCEPT !.pc = pc]

Fault == trail.faults < MaxFaults /\ trail' = [trail EXCEPT !.faults = @ + 1]

\* catalog_state.SourceRelation, as a poll observes it: the admission state of a
\* relation without history follows from its membership of the publication.
Observe(n) ==
    LET in == n \in source.pub
    IN  IF source.gen[n] = 0 THEN Absent
        ELSE [g |-> source.gen[n], p |-> in, a |-> IF in THEN "external" ELSE "pending"]

Init ==
    /\ deployment \in Deployments
    /\ source = [gen |-> [n \in Names |-> 1], made |-> [n \in Names |-> 1],
                 pub |-> Names, log |-> <<>>, ddl |-> 0]
    /\ dest = [image |-> [n \in Names |-> {}],
               state |-> [n \in Names |-> IF n \in Registered THEN "complete" ELSE "absent"],
               fence |-> [n \in Names |-> 0],
               registry |-> [n \in Names |->
                    IF n \in Registered THEN [g |-> 1, p |-> TRUE, a |-> "external"] ELSE Absent],
               baseline |-> IF Registered = {} THEN "absent" ELSE "valid",
               resume |-> 0]
    /\ watcher = [n \in Names |-> Forgotten]
    /\ fencing = [marker |-> -1, polled |-> FALSE]
    /\ view = [p \in Pollers |-> <<>>]
    /\ proc = Down
    /\ trail = [faults |-> 0, destroyed |-> [n \in Names |-> 0]]

-----------------------------------------------------------------------------
(***************************************************************************)
(* The source.  A drop leaves the publication, a new relation is outside.  *)
(***************************************************************************)
SourceInserts(n) ==
    /\ source.gen[n] # 0
    /\ Lsn < MaxLog(deployment)
    /\ source' = [source EXCEPT !.log =
            Append(@, [n |-> n, g |-> source.gen[n], p |-> n \in source.pub])]
    /\ UNCHANGED <<deployment, dest, watcher, fencing, view, proc, trail>>

Ddl(s) ==
    /\ source.ddl < MaxDdl(deployment)
    /\ source' = [s EXCEPT !.ddl = @ + 1]
    /\ UNCHANGED <<deployment, dest, watcher, fencing, view, proc, trail>>

SourceDrops(n) ==
    /\ source.gen[n] # 0
    /\ Ddl([source EXCEPT !.gen[n] = 0, !.pub = @ \ {n}])

SourceCreates(n, published) ==
    /\ source.gen[n] = 0
    /\ published \/ auto
    /\ LET g == source.made[n] + 1
       IN  Ddl([source EXCEPT !.gen[n] = g, !.made[n] = g,
                              !.pub = IF published THEN @ \union {n} ELSE @])

SourceUnpublishes(n) ==
    /\ auto /\ n \in source.pub
    /\ Ddl([source EXCEPT !.pub = @ \ {n}])

-----------------------------------------------------------------------------
(***************************************************************************)
(* The queue of one name.  A change is live while it is in `changes`; a    *)
(* superseded or applied one has left it.  `planned` marks the changes a   *)
(* commit plan holds, so that a later change of the same kind is not       *)
(* taken for them.                                                         *)
(***************************************************************************)
Change(kind, new, lsn) ==
    [kind |-> kind, state |-> "pending", lsn |-> lsn, new |-> new, planned |-> FALSE]

Add(m, kind, new, lsn) == [m EXCEPT !.changes = @ \union {Change(kind, new, lsn)}]

Learn(m, relation) == [m EXCEPT !.known = relation, !.dirty = relation]

Live(m, kinds) == {c \in m.changes : c.kind \in kinds}

Supersede(m, kind) ==
    [m EXCEPT !.changes = @ \ Live(m, {kind}),
              !.streak = IF @.kind = kind THEN NoStreak ELSE @]

\* catalog_change_queue.confirm: the streak restarts when the shape changes.
Streak(m, kind, new) ==
    [kind |-> kind, g |-> new.g,
     count |-> IF m.streak.kind = kind /\ m.streak.g = new.g THEN m.streak.count + 1 ELSE 1]

Confirm(m, kind, new, lsn) ==
    LET streak == Streak(m, kind, new)
    IN  IF streak.count < ConfirmPolls THEN [m EXCEPT !.streak = streak]
        ELSE LET queued == Add([m EXCEPT !.streak = NoStreak], kind, new, lsn)
             IN  IF kind = "recreated" THEN Learn(queued, new) ELSE queued

\* What a present relation does to the work already queued for its name.
Reconcile(m, current, lsn) ==
    LET recreates == Live(m, {"recreated"})
        same == {c \in recreates : c.new.g = current.g}
        kept == IF same # {}
                THEN Learn([m EXCEPT !.changes = (@ \ same) \union
                               {[c EXCEPT !.new = current, !.lsn = lsn] : c \in same}], current)
                ELSE IF recreates # {} THEN Supersede(m, "recreated") ELSE m
        present == Supersede(kept, "dropped")
    IN  IF m.known.g = current.g THEN [present EXCEPT !.streak = NoStreak] ELSE present

\* First sight: nothing is known of the relation in this process or its history.
FirstSight(m, current, lsn) ==
    LET known == Learn(m, current)
    IN  IF m.gone
        THEN Add([known EXCEPT !.gone = FALSE, !.replicated = TRUE], "recreated", current, lsn)
        ELSE IF m.replicated THEN known ELSE Add(known, "new", current, lsn)

\* A present relation whose identity is the known one.
Refresh(m, previous, current, lsn) ==
    LET flip == IF current.p THEN "republished" ELSE "unpublished"
        noted == IF current.p = previous.p THEN m ELSE Add(m, flip, current, lsn)
    IN  IF auto /\ ~m.replicated /\ current.a \notin Ready /\ Live(m, {"new"}) = {}
        THEN Add(m, "new", current, lsn)
        ELSE IF current # previous THEN Learn(noted, current) ELSE noted

\* CatalogLifecycleMixin._compare, for one name of a visible schema.
Compare(m, seen, lsn) ==
    LET present == seen.g # 0
        current == IF m.known.g # 0 THEN [seen EXCEPT !.a = m.known.a] ELSE seen
        now == IF present THEN Reconcile(m, current, lsn) ELSE m
        queued == Live(now, FENCED) # {}
    IN  CASE m.known.g = 0 /\ present -> FirstSight(now, current, lsn)
          [] m.known.g = 0 /\ ~present ->
                IF m.gone \/ ~m.replicated \/ queued THEN now
                ELSE Confirm(now, "dropped", Absent, lsn)
          [] m.known.g # 0 /\ ~present ->
                IF queued THEN now ELSE Confirm(now, "dropped", m.known, lsn)
          [] m.known.g # 0 /\ present /\ current.g # m.known.g ->
                IF queued THEN now ELSE Confirm(now, "recreated", current, lsn)
          [] OTHER -> Refresh(now, m.known, current, lsn)

\* catalog_admission.ensure_published: each live discovery is retried, against the
\* relation that now bears the name.
Admittable(m, seen) == auto /\ seen.g # 0 /\ Live(m, {"new", "unpublished"}) # {}

Admit(m, n, seen) ==
    LET was == IF m.known.g # 0 THEN m.known.a ELSE seen.a
        state == CASE seen.p -> (IF was \in Ready THEN was ELSE "external")
                   [] ~seen.p /\ source.gen[n] # 0 -> "admitted"
                   [] OTHER -> "error"
        relation == [seen EXCEPT !.a = state, !.p = @ \/ state = "admitted"]
    IN  IF ~Admittable(m, seen) THEN m
        ELSE Learn([m EXCEPT !.changes =
                {IF c.kind \in {"new", "unpublished"} THEN [c EXCEPT !.new = relation] ELSE c
                    : c \in @}], relation)

\* _emit_marker: only a change still waiting for its fence becomes `marked`.
Marked(m) ==
    [m EXCEPT !.changes = {[c EXCEPT !.state = IF @ = "due" THEN @ ELSE "marked"] : c \in @}]

-----------------------------------------------------------------------------
(***************************************************************************)
(* A poll.  The catalog is read now; the WAL position and the comparison   *)
(* come in a later step, by which time the source may have moved.          *)
(***************************************************************************)
Watching == proc.mode # "ignore" /\ proc.pc \in {"stream", "commit", "settle", "forget"}

PollReads(p) ==
    /\ Watching \/ (At("start") /\ p = "thread")
    /\ p = "callback" => At("stream")
    /\ view[p] = <<>>
    /\ view' = [view EXCEPT ![p] = [n \in Names |-> Observe(n)]]
    /\ UNCHANGED <<deployment, source, dest, watcher, fencing, proc, trail>>

\* poll_quietly: a failed or empty observation compares nothing.
PollFails(p) ==
    /\ view[p] # <<>>
    /\ Fault
    /\ view' = [view EXCEPT ![p] = <<>>]
    /\ Goto(IF At("start") THEN "discover" ELSE proc.pc)
    /\ UNCHANGED <<deployment, source, dest, watcher, fencing>>

PollCompares(p) ==
    /\ view[p] # <<>>
    /\ LET compared == [n \in Names |-> Compare(watcher[n], view[p][n], Lsn)]
           admitted == [n \in Names |-> Admit(compared[n], n, view[p][n])]
           altered == {n \in Names : /\ Admittable(compared[n], view[p][n])
                                     /\ ~view[p][n].p /\ source.gen[n] # 0}
           fenced == \E n \in Names : Live(admitted[n], FENCED) # {}
       IN  /\ source' = [source EXCEPT !.pub = @ \union altered]
           /\ watcher' = [n \in Names |-> IF fenced THEN Marked(admitted[n]) ELSE admitted[n]]
           /\ fencing' = [marker |-> IF fenced THEN Lsn ELSE fencing.marker, polled |-> TRUE]
    /\ view' = [view EXCEPT ![p] = <<>>]
    /\ proc' = [proc EXCEPT !.pc = IF At("start") THEN "discover" ELSE @,
                            !.plan.advanced = @ \/ proc.pc \in {"commit", "settle", "forget"}]
    /\ UNCHANGED <<deployment, dest, trail>>

-----------------------------------------------------------------------------
(***************************************************************************)
(* The start of a run, as `pipeline.run` orders it.                        *)
(***************************************************************************)
\* catalog_baseline.unrelatable_tables.
Unrelatable(d, includeOwed) ==
    {n \in Names : /\ d.state[n] # "absent"
                   /\ includeOwed \/ d.state[n] \notin Owing
                   /\ d.registry[n].g = 0
                   /\ d.image[n] # {}}

OwingNames(d) == {n \in Names : d.state[n] \in Owing}

Unrebuilt == Unrelatable(dest, TRUE) \intersect OwingNames(dest)

\* mark_unconfirmed, up to the crash cut between the journal and the action.
MarkBaseline(mode) ==
    /\ At("down")
    /\ LET owed == IF mode # "ignore" /\ dest.baseline # "valid" THEN Unrelatable(dest, FALSE)
                   ELSE {}
       IN  /\ dest' = [dest EXCEPT !.baseline = IF owed # {} THEN "invalidated" ELSE "stale"]
           /\ proc' = [Down EXCEPT !.pc = "mark", !.mode = mode, !.was = dest.baseline,
                                   !.owed = owed]
    /\ UNCHANGED <<deployment, source, watcher, fencing, view, trail>>

Request(d, ns) ==
    [d EXCEPT !.state = [n \in Names |-> IF n \in ns THEN "awaiting_snapshot" ELSE @[n]]]

\* ... and the rest of it; the watcher is built from durable state alone.
BuildWatcher ==
    /\ At("mark")
    /\ LET d == Request(dest, proc.owed)
       IN  /\ dest' = d
           /\ watcher' = [n \in Names |->
                IF proc.mode = "ignore" THEN Forgotten
                ELSE [Forgotten EXCEPT
                        !.known = d.registry[n],
                        !.replicated = d.state[n] \notin {"absent", "gone"},
                        !.gone = d.state[n] = "gone"]]
    /\ fencing' = [marker |-> -1, polled |-> FALSE]
    /\ proc' = [proc EXCEPT !.pc = IF proc.mode = "ignore" THEN "owed" ELSE "start", !.owed = {}]
    /\ UNCHANGED <<deployment, source, view, trail>>

\* CatalogWatcher.new_relations.
NewRelations ==
    {n \in Names : /\ \E c \in Live(watcher[n], {"new", "unpublished"}) :
                         c.state \notin {"deferred", "refused"}
                   /\ watcher[n].known.p
                   /\ watcher[n].known.a \in Ready}

\* The first poll is synchronous; what it discovers is owed before the stream.
Discover ==
    /\ At("discover")
    /\ dest' = Request(dest, NewRelations)
    /\ proc' = [proc EXCEPT !.pc = "owed", !.found = NewRelations]
    /\ UNCHANGED <<deployment, source, watcher, fencing, view, trail>>

ReadOwed ==
    /\ At("owed")
    /\ proc' = [proc EXCEPT !.pc = "rebuild", !.todo = OwingNames(dest)]
    /\ UNCHANGED <<deployment, source, dest, watcher, fencing, view, trail>>

\* The re-snapshot of one owed table (module Resnapshot): a present relation gets a
\* complete fenced image, an absent one the final source-missing policy.
Rebuild(n) ==
    /\ proc.pc \in {"rebuild", "handoff"} /\ n \in proc.todo
    /\ LET g == source.gen[n]
           absent == g = 0 /\ proc.mode # "log"
       IN  dest' = [dest EXCEPT
                !.image[n] = IF g # 0 THEN RowsOf(n, g) ELSE IF absent THEN {} ELSE @,
                !.state[n] = IF absent THEN "absent" ELSE "complete",
                !.registry[n] = IF absent THEN Absent ELSE @,
                !.fence[n] = Lsn]
    /\ proc' = [proc EXCEPT !.todo = @ \ {n}]
    /\ UNCHANGED <<deployment, source, watcher, fencing, view, trail>>

\* discharge_quarantined_source_missing, for a quarantined table without a source.
Discharge(n) ==
    /\ At("rebuild") /\ n \in proc.todo
    /\ source.gen[n] = 0
    /\ Fault
    /\ dest' = [dest EXCEPT !.image[n] = {}, !.state[n] = "gone", !.registry[n] = Absent]
    /\ proc' = [proc EXCEPT !.todo = @ \ {n}]
    /\ UNCHANGED <<deployment, source, watcher, fencing, view>>

\* run_owed contains a refused batch: its tables stay owed and the run goes on.
StaysOwed(n) ==
    /\ At("rebuild") /\ n \in proc.todo
    /\ Fault
    /\ proc' = [proc EXCEPT !.todo = @ \ {n}]
    /\ UNCHANGED <<deployment, source, dest, watcher, fencing, view>>

\* complete_discoveries, and the flush exclusion the stream's teardown will use.
StartStream ==
    /\ proc.pc \in {"rebuild", "handoff"} /\ proc.todo = {}
    /\ watcher' = [n \in Names |->
            IF n \in proc.found
            THEN [watcher[n] EXCEPT !.changes = IF Live(watcher[n], {"new"}) # {} THEN {} ELSE @,
                                    !.replicated = TRUE]
            ELSE watcher[n]]
    /\ proc' = [proc EXCEPT !.pc = "stream", !.found = {},
                            !.exclude = IF At("rebuild") THEN Unrebuilt ELSE @]
    /\ UNCHANGED <<deployment, source, dest, fencing, view, trail>>

\* The live discovery hand-off of a finite run, once the watcher is stopped.
HandOff ==
    /\ At("stream") /\ proc.mode # "ignore" /\ auto
    /\ \A p \in Pollers : view[p] = <<>>
    /\ NewRelations # {}
    /\ dest' = Request(dest, NewRelations)
    /\ proc' = [proc EXCEPT !.pc = "handoff", !.found = NewRelations, !.todo = NewRelations]
    /\ UNCHANGED <<deployment, source, watcher, fencing, view, trail>>

-----------------------------------------------------------------------------
(***************************************************************************)
(* A commit group: plan from the queue, commit, settle.                    *)
(***************************************************************************)
\* Mutant: a destructive change is due as soon as it is confirmed.
DueAtOnce(c, hi) == TRUE

\* CatalogLifecycleMixin.due: a fenced change waits until the group reaches it.
FenceOpen(c, hi) == c.kind \in FENCED => hi >= c.lsn

\* CatalogCoordinator.plan: what becomes of a due change of name n.
Disposition(n, c) ==
    CASE c.kind = "dropped" /\ dest.state[n] = "gone" -> "superseded"
      [] c.kind = "recreated" /\ dest.state[n] = "complete" /\ dest.fence[n] # 0
            /\ dest.registry[n].g = c.new.g -> "superseded"
      [] dest.state[n] = "gone" /\ c.kind # "recreated" -> "deferred"
      [] c.kind = "dropped" /\ dest.state[n] \in Owing -> "deferred"
      [] OTHER -> "eligible"

Destroys(c) == c.kind = "dropped" /\ proc.mode = "replicate"

\* The queue after due() and plan(), and the mass-drop breaker.
Planned(hi) ==
    LET verdict(n, c) == IF FenceOpen(c, hi) THEN Disposition(n, c) ELSE "deferred"
        doomed == {n \in Names : \E c \in watcher[n].changes :
                                    verdict(n, c) = "eligible" /\ Destroys(c)}
        refused == Cardinality(doomed) > deployment.limit
        after(n, c) ==
            CASE verdict(n, c) # "eligible" -> [c EXCEPT !.state = "deferred"]
              [] verdict(n, c) = "eligible" /\ refused /\ Destroys(c) ->
                    [c EXCEPT !.state = "refused"]
              [] OTHER -> [c EXCEPT !.state = "due", !.planned = TRUE]
    IN  [n \in Names |-> [watcher[n] EXCEPT !.changes =
            {after(n, c) : c \in {d \in @ : verdict(n, d) # "superseded"}}]]

Acts(w) == {[n |-> n, c |-> c] : n \in Names, c \in UNION {w[m].changes : m \in Names}}

Actions(w) == {a \in Acts(w) : a.c \in w[a.n].changes /\ a.c.planned}

\* Mutant: every learnt relation is written down, fenced work or not.
WritesAhead(w) == {[n |-> n, r |-> w[n].dirty] : n \in {m \in Names : w[m].dirty.g # 0}}

\* Persisted state may not run ahead of the action it implies: a relation with
\* fenced work left, or about to be destroyed, is not written down.
Relations(w) ==
    LET acts == Actions(w)
        remaining == {n \in Names : \E c \in Live(w[n], FENCED) : ~c.planned}
        destroyed == {a.n : a \in {b \in acts : Destroys(b.c)}}
        learnt == {n \in Names : w[n].dirty.g # 0} \ (remaining \union destroyed)
    IN  {[n |-> n, r |-> w[n].dirty] : n \in learnt} \union
        {[n |-> a.n, r |-> a.c.new] :
            a \in {b \in acts : b.n \notin learnt /\ ~Destroys(b.c) /\ b.c.new.g # 0}}

\* The rows of the group up to hi that reach their tables.  The planner admits no
\* row of a relation the watcher has no descriptors for.
Delivered(hi) == {i \in dest.resume + 1 .. hi : source.log[i].p}

Admitted(i) ==
    LET n == source.log[i].n
    IN  /\ i > dest.fence[n]
        /\ dest.state[n] # "gone"
        /\ ~(proc.mode = "log" /\ dest.state[n] \in Owing)
        /\ proc.mode = "ignore" \/ watcher[n].known.g # 0

Plan(hi) ==
    /\ At("stream")
    /\ \A p \in Pollers : p = "callback" => view[p] = <<>>
    /\ hi > dest.resume \/ (hi = dest.resume /\ hi = fencing.marker)
    /\ LET w == IF proc.mode = "ignore" THEN watcher ELSE Planned(hi)
       IN  /\ watcher' = w
           /\ proc' = [proc EXCEPT !.pc = "commit",
                !.plan = [NoPlan EXCEPT !.hi = hi, !.acts = Actions(w), !.relations = Relations(w),
                                        !.rows = Delivered(hi)]]
    /\ fencing' = [fencing EXCEPT !.marker = IF @ <= hi THEN -1 ELSE @]
    /\ UNCHANGED <<deployment, source, dest, view, trail>>

\* The rows first, then CatalogCoordinator.apply, in one transaction.  A row whose
\* relation is unknown becomes a refusal of its table.
Commit ==
    /\ At("commit")
    /\ LET plan == proc.plan
           of(n) == {i \in plan.rows : source.log[i].n = n}
           in(n) == {i \in of(n) : Admitted(i)}
           unknown(n) == proc.mode # "ignore" /\ watcher[n].known.g = 0
                         /\ \E i \in of(n) : i > dest.fence[n]
           acted(n, kind) == \E a \in plan.acts : a.n = n /\ a.c.kind = kind
           gone(n) == acted(n, "dropped") /\ proc.mode = "replicate"
           written(n) == {x.r : x \in {y \in plan.relations : y.n = n}}
       IN  /\ dest' = [dest EXCEPT
                !.image = [n \in Names |-> IF gone(n) THEN {} ELSE @[n] \union in(n)],
                !.state = [n \in Names |->
                    CASE gone(n) -> "absent"
                      [] ~gone(n) /\ (acted(n, "recreated") \/ (unknown(n) /\ @[n] # "gone")) ->
                            "awaiting_snapshot"
                      [] ~gone(n) /\ @[n] = "absent" /\ in(n) # {} -> "none"
                      [] OTHER -> @[n]],
                !.fence = [n \in Names |->
                    IF gone(n) \/ acted(n, "recreated") THEN 0 ELSE @[n]],
                !.registry = [n \in Names |->
                    CASE gone(n) -> Absent
                      [] ~gone(n) /\ written(n) # {} -> CHOOSE r \in written(n) : TRUE
                      [] OTHER -> @[n]],
                !.resume = plan.hi]
           /\ trail' = [trail EXCEPT !.destroyed = [n \in Names |->
                IF gone(n) /\ dest.registry[n].g > @[n] THEN dest.registry[n].g ELSE @[n]]]
    /\ Goto("settle")
    /\ UNCHANGED <<deployment, source, watcher, fencing, view>>

\* catalog_change_queue.settle, even if a poll has superseded the change since; the
\* names to forget are those with nothing newer in the queue.
Settle ==
    /\ At("settle")
    /\ LET left == [n \in Names |-> {c \in watcher[n].changes : ~c.planned}]
       IN  /\ watcher' = [n \in Names |-> [watcher[n] EXCEPT !.changes = left[n]]]
           /\ proc' = [proc EXCEPT !.pc = "forget", !.plan.forget =
                {n \in Names : left[n] = {} /\ \E a \in proc.plan.acts : a.n = n /\ Destroys(a.c)}]
    /\ UNCHANGED <<deployment, source, dest, fencing, view, trail>>

\* forget, clear_dirty_if_current and observe_replicated, after the settlement.
Forget ==
    /\ At("forget")
    /\ LET plan == proc.plan
           covered(n) == \E x \in plan.relations :
                /\ x.n = n
                /\ x.r = watcher[n].dirty \/ (~plan.advanced /\ x.r.g = watcher[n].dirty.g)
           streamed(n) == \E i \in plan.rows : source.log[i].n = n
           kept(n) == IF n \in plan.forget THEN Forgotten ELSE watcher[n]
       IN  watcher' = [n \in Names |->
                IF proc.mode = "ignore" THEN watcher[n]
                ELSE [kept(n) EXCEPT !.dirty = IF covered(n) THEN Absent ELSE @,
                                     !.replicated = @ \/ streamed(n)]]
    /\ proc' = [proc EXCEPT !.pc = "stream", !.plan = NoPlan]
    /\ UNCHANGED <<deployment, source, dest, fencing, view, trail>>

-----------------------------------------------------------------------------
(***************************************************************************)
(* The end of a run, and a crash.                                          *)
(***************************************************************************)
\* The supervisor's verdict: no success over an unread catalog, over fenced work, over
\* an unfinished admission or over a table that is still owed.
PendingAdmission ==
    {n \in Names : /\ Live(watcher[n], {"new", "unpublished"}) # {}
                   /\ ~(watcher[n].known.p /\ watcher[n].known.a \in Ready)}

\* Mutant: the verdict does not ask for fenced work that is still queued.
ResolvedUnfenced ==
    /\ OwingNames(dest) = {}
    /\ proc.mode # "ignore" => fencing.polled /\ PendingAdmission = {}

Resolved ==
    /\ OwingNames(dest) = {}
    /\ proc.mode # "ignore" =>
          /\ fencing.polled
          /\ \A n \in Names : Live(watcher[n], FENCED) = {}
          /\ PendingAdmission = {}

\* flush_learned_relations, once the watcher is quiesced.
Flush(completed) ==
    /\ At("stream")
    /\ completed => Resolved
    /\ \A p \in Pollers : view[p] = <<>>
    /\ LET exclude == IF completed THEN Unrebuilt ELSE proc.exclude
           written == {n \in Names : watcher[n].dirty.g # 0 /\ Live(watcher[n], FENCED) = {}}
                         \ exclude
       IN  dest' = [dest EXCEPT !.registry = [n \in Names |->
                        IF n \in written THEN watcher[n].dirty ELSE @[n]]]
    /\ watcher' = [n \in Names |-> Forgotten]
    /\ IF completed /\ proc.mode # "ignore"
       THEN Goto("confirm") ELSE proc' = Down
    /\ UNCHANGED <<deployment, source, fencing, view, trail>>

\* catalog_baseline.confirm.
ConfirmBaseline ==
    /\ At("confirm")
    /\ LET remaining == (IF proc.was # "valid" THEN Unrelatable(dest, TRUE) ELSE {})
                          \union OwingNames(dest)
       IN  dest' = [dest EXCEPT !.baseline =
                CASE ~fencing.polled -> @
                  [] fencing.polled /\ remaining # {} -> "invalidated"
                  [] OTHER -> "valid"]
    /\ proc' = Down
    /\ UNCHANGED <<deployment, source, watcher, fencing, view, trail>>

Crash ==
    /\ ~At("down")
    /\ Fault
    /\ watcher' = [n \in Names |-> Forgotten]
    /\ view' = [p \in Pollers |-> <<>>]
    /\ proc' = Down
    /\ UNCHANGED <<deployment, source, dest, fencing>>

Next ==
    \/ \E n \in Names :
          \/ SourceInserts(n) \/ SourceDrops(n) \/ SourceUnpublishes(n)
          \/ \E published \in BOOLEAN : SourceCreates(n, published)
          \/ Rebuild(n) \/ Discharge(n) \/ StaysOwed(n)
    \/ \E p \in Pollers : PollReads(p) \/ PollFails(p) \/ PollCompares(p)
    \/ \E mode \in Drops : MarkBaseline(mode)
    \/ \E hi \in dest.resume .. Lsn : Plan(hi)
    \/ \E completed \in BOOLEAN : Flush(completed)
    \/ BuildWatcher \/ Discover \/ ReadOwed \/ StartStream \/ HandOff
    \/ Commit \/ Settle \/ Forget \/ ConfirmBaseline \/ Crash

Spec == Init /\ [][Next]_vars

-----------------------------------------------------------------------------
(***************************************************************************)
(* Properties.                                                             *)
(***************************************************************************)
\* Is agreement with the source earned?  The durable registry names the very
\* relation the source has, so no later poll will ever see a difference: then the
\* image holds no row of an older generation, unless its rebuild is still owed.
Earned(n) ==
    dest.registry[n].g = source.gen[n] /\ source.gen[n] # 0 /\ dest.state[n] \notin Owing
    => \A i \in dest.image[n] : source.log[i].g = source.gen[n]

\* Agreement is earned where discovery is off and a relation has been recreated at
\* most once (flush_learned_relations).
AgreementAsConfigured == ~auto => \A n \in Names : source.made[n] <= 2 => Earned(n)

\* A destroyed table does not come back: no row of the generation whose drop was
\* applied is ever delivered after the drop (the fence of CatalogWatcher.due).
NoZombies ==
    \A n \in Names : \A i \in dest.image[n] : source.log[i].g > trail.destroyed[n]

\* A baseline is valid between runs only if nothing is owed and every table that
\* holds rows has a recorded source identity.
BaselineHonest ==
    At("down") /\ dest.baseline = "valid" =>
        OwingNames(dest) = {} /\ Unrelatable(dest, TRUE) = {}
=============================================================================
