------------------------------- MODULE History -------------------------------
(***************************************************************************)
(* The SCD2 history of one captured table (scd2.py), from the planner's    *)
(* dispatch of its events to the versions a commit group writes.           *)
(*                                                                         *)
(* Actors: the source, whose physical relation may be rewritten under the  *)
(* stream; the catalog watcher, which reads the relation's generation when *)
(* it polls; the connector, which restarts from what was acknowledged; and *)
(* the applier's commit groups.  An event is labelled with the generation  *)
(* the watcher knows when the event is planned, and the label is the most  *)
(* significant part of its order token after the source's own identity.    *)
(***************************************************************************)
EXTENDS Integers, Sequences, SequencesExt, FiniteSetsExt

CONSTANTS
    Keys,         \* key values
    Images,       \* row images
    MaxEvents,    \* bound on the row events of the source
    MaxGens,      \* bound on the physical generations of the relation
    MaxRestarts,  \* bound on the runs that die and are started again
    Ranks         \* the orders the encoded generations may sort in

VARIABLES
    source,    \* rows, log of committed events, generation, replica identity
    watcher,   \* the generation the catalog watcher knows
    group,     \* the commit group: planned events, and its bundle's generation
    dest       \* versions, event ledger, resume point, acknowledged, owed

vars == <<source, watcher, group, dest>>

-----------------------------------------------------------------------------
NONE == -1

Gens == 1..MaxGens

NoGroup == [open |-> FALSE, read |-> 0, events |-> <<>>, bundle |-> NONE]

\* rank is how the text of a generation, oid:relfilenode:type encoded to
\* base64, sorts among the others: by no rule of the source.
Init ==
    /\ \E full \in BOOLEAN, rank \in Ranks :
         source = [rows |-> [k \in Keys |-> NONE], log |-> <<>>, gen |-> 1,
                   full |-> full, rank |-> rank]
    /\ watcher = 1
    /\ group = NoGroup
    /\ dest = [versions |-> {}, ledger |-> {}, resume |-> 0, acked |-> 0,
               owed |-> FALSE, restarts |-> 0]

-----------------------------------------------------------------------------
(* The source.                                                              *)

\* Is the last transaction of the log still open?
InTransaction == source.log # <<>> /\ ~Last(source.log).ends

\* A change of one row, in the open transaction or in a new one, which it may
\* end.  The before-image is complete under REPLICA IDENTITY FULL only.
Changes(op, key, image) ==
    /\ Len(source.log) < MaxEvents
    /\ op = "c" <=> source.rows[key] = NONE
    /\ op = "d" <=> image = NONE
    /\ \E ends \in BOOLEAN :
         LET event == [op |-> op, key |-> key, after |-> image, ends |-> ends,
                       before |-> IF source.full THEN source.rows[key] ELSE NONE,
                       lsn |-> IF InTransaction THEN Last(source.log).lsn
                               ELSE Len(source.log) + 1,
                       order |-> IF InTransaction THEN Last(source.log).order + 1
                                 ELSE 1]
         IN  source' = [source EXCEPT !.rows[key] = image, !.log = Append(@, event)]
    /\ UNCHANGED <<watcher, group, dest>>

\* The relation's file changes under it (VACUUM FULL, CLUSTER, a rewriting
\* ALTER TABLE), under a lock no open transaction holds against it: the same
\* relation, a new generation.
Rewrites ==
    /\ source.gen < MaxGens /\ ~InTransaction
    /\ source' = [source EXCEPT !.gen = @ + 1]
    /\ UNCHANGED <<watcher, group, dest>>

\* The watcher's poll.
Polls ==
    /\ watcher < source.gen
    /\ watcher' = source.gen
    /\ UNCHANGED <<source, group, dest>>

-----------------------------------------------------------------------------
(* The commit group.                                                        *)

Transaction(lsn) == SelectSeq(source.log, LAMBDA e : e.lsn = lsn)

Delivered == {e.lsn : e \in {f \in ToSet(source.log) : f.ends}}

\* The next transaction of the connector; below the resume point it is a
\* redelivery, and dropped.
NextLsn == LET rest == {lsn \in Delivered : lsn > group.read}
           IN  IF rest = {} THEN NONE ELSE Min(rest)

\* identity_for, and transaction_order_token: cluster and timeline are those
\* of one source and left out.
EventId(e) == <<e.gen, e.lsn, e.order>>

Token(e) == (source.rank[e.gen] * (MaxEvents + 1) + e.lsn) * (MaxEvents + 1) + e.order

\* _collect under history_mode scd2: every event takes the generation known
\* now, the bundle the one of the group's first event.
Planned(events) ==
    [i \in DOMAIN events |->
       [op |-> events[i].op, key |-> events[i].key, before |-> events[i].before,
        after |-> events[i].after, lsn |-> events[i].lsn,
        order |-> events[i].order, gen |-> watcher]]

\* Mutant: a transaction below the resume point is planned once more.
PlansRedelivery ==
    /\ ~dest.owed /\ NextLsn # NONE
    /\ group' = [open |-> TRUE, read |-> NextLsn,
                 events |-> group.events \o Planned(Transaction(NextLsn)),
                 bundle |-> IF group.bundle = NONE THEN watcher ELSE group.bundle]
    /\ UNCHANGED <<source, watcher, dest>>

\* add_unit for the next transaction.
Plans ==
    /\ ~dest.owed /\ NextLsn # NONE
    /\ group' = IF NextLsn <= dest.resume THEN [group EXCEPT !.read = NextLsn]
                ELSE [open |-> TRUE, read |-> NextLsn,
                      events |-> group.events \o Planned(Transaction(NextLsn)),
                      bundle |-> IF group.bundle = NONE THEN watcher ELSE group.bundle]
    /\ UNCHANGED <<source, watcher, dest>>

VersionsOf(h, key) == {v \in h.versions : v.key = key}

Latest(S) == CHOOSE v \in S : \A w \in S : w.from <= v.from

Earliest(S) == CHOOSE v \in S : \A w \in S : v.from <= w.from

Refused(h) == [h EXCEPT !.refused = TRUE]

\* _insert, of the after-image, or of what a delete removed.
Inserted(h, e, to) ==
    [h EXCEPT !.versions = @ \union
       {[key |-> e.key, from |-> Token(e), to |-> to, current |-> to = NONE,
         op |-> e.op, image |-> IF e.op = "d" THEN e.before ELSE e.after,
         lsn |-> e.lsn, order |-> e.order]}]

\* _close.
Closed(h, v, token) ==
    [h EXCEPT !.versions = (@ \ {v}) \union {[v EXCEPT !.to = token, !.current = FALSE]}]

\* A late event goes between its predecessor and its successor; the current
\* version stays.
Late(h, e, before, after) ==
    Inserted(Closed(h, Latest(before), Token(e)), e, Earliest(after).from)

\* _complete_image: the image a version is made of is missing.
Incomplete(e) == e.op = "d" /\ e.before = NONE

\* _verify_before: the before-image is not the predecessor's.
Unverified(e, before) == before = {} \/ e.before # Latest(before).image

\* The tail of apply_event, past the ledger: which version the event follows,
\* and whether it may.
Follows(h, e) ==
    LET mine    == VersionsOf(h, e.key)
        current == {v \in mine : v.current}
        before  == {v \in mine : v.from < Token(e)}
        after   == {v \in mine : v.from > Token(e)}
        late    == \E v \in current : Token(e) < v.from
        refuses == \/ Cardinality(current) > 1
                   \/ \E v \in mine : v.from = Token(e)
                   \/ Incomplete(e)
                   \/ mine = {} /\ e.op # "c"
                   \/ mine # {} /\ e.op \in {"u", "d"} /\ Unverified(e, before)
                   \/ late /\ before = {}
                   \/ mine # {} /\ ~late /\ current = {}
    IN  IF refuses THEN Refused(h)
        ELSE IF mine = {} THEN Inserted(h, e, NONE)
        ELSE IF late THEN Late(h, e, before, after)
        ELSE Inserted(Closed(h, Latest(current), Token(e)), e, NONE)

\* claim_event_ledger for an event that is not there yet.
Claimed(h, e) == [h EXCEPT !.ledger = @ \union {EventId(e)}]

\* apply_event: an event of another generation than the bundle's is refused,
\* a claimed one is a replay, a new one is claimed and applied.
ApplyEvent(e, h) ==
    IF h.refused \/ e.gen # group.bundle THEN Refused(h)
    ELSE IF EventId(e) \in h.ledger THEN h
    ELSE Follows(Claimed(h, e), e)

Written == FoldLeft(LAMBDA h, e : ApplyEvent(e, h),
                    [versions |-> dest.versions, ledger |-> dest.ledger,
                     refused |-> FALSE],
                    group.events)

\* commit_group: claims, versions and resume point in one transaction; a
\* refusal rolls all of it back, requests a re-snapshot on the independent
\* connection and ends the run.
Commits ==
    /\ group.open
    /\ dest' = IF Written.refused THEN [dest EXCEPT !.owed = TRUE]
               ELSE [dest EXCEPT !.versions = Written.versions,
                                 !.ledger = Written.ledger, !.resume = group.read]
    /\ group' = IF Written.refused THEN NoGroup ELSE [NoGroup EXCEPT !.read = group.read]
    /\ UNCHANGED <<source, watcher>>

\* The acknowledgement that follows the commit reaches the connector.
Acks ==
    /\ ~group.open /\ dest.acked < dest.resume
    /\ dest' = [dest EXCEPT !.acked = dest.resume]
    /\ UNCHANGED <<source, watcher, group>>

\* The run dies, with or without an open group; the next one delivers from
\* the acknowledged position, and its watcher starts from the catalog.
Restarts ==
    /\ dest.restarts < MaxRestarts
    /\ dest' = [dest EXCEPT !.restarts = @ + 1]
    /\ group' = [NoGroup EXCEPT !.read = dest.acked]
    /\ watcher' = source.gen
    /\ UNCHANGED source

Quiet == NextLsn = NONE /\ ~group.open

Done == (dest.owed \/ Quiet) /\ UNCHANGED vars

Next ==
    \/ \E op \in {"c", "u", "d"}, key \in Keys, image \in Images \union {NONE} :
          Changes(op, key, image)
    \/ Rewrites \/ Polls \/ Plans \/ Commits \/ Acks \/ Restarts \/ Done

Spec == Init /\ [][Next]_vars

-----------------------------------------------------------------------------
(* Properties.                                                              *)

\* The versions of a key tile its history: each ends where the next begins,
\* the last one alone is current and open (apply_event's _close and _insert,
\* for events that arrive late as well).
VersionsTile ==
    \A v \in dest.versions :
       LET later == {w \in VersionsOf(dest, v.key) : w.from > v.from}
       IN  /\ v.current <=> later = {}
           /\ v.to = IF later = {} THEN NONE ELSE Earliest(later).from

\* What is committed is the source's own history up to the resume point: each
\* row event once, with its image, whatever was redelivered and however the
\* relation was rewritten meanwhile (one transaction for claims, versions and
\* resume point; refusals roll back whole groups).
EveryEventOnce ==
    LET committed == SelectSeq(source.log, LAMBDA e : e.lsn <= dest.resume)
    IN  /\ Cardinality(dest.versions) = Len(committed)
        /\ \A e \in ToSet(committed) : \E v \in dest.versions :
              /\ v.lsn = e.lsn /\ v.order = e.order /\ v.op = e.op /\ v.key = e.key
              /\ v.image = IF e.op = "d" THEN e.before ELSE e.after

\* Do the encoded generations sort as they were made?
Ordered == \A g, h \in Gens : g < h => source.rank[g] < source.rank[h]

\* What the current view shows: current versions that are no tombstones.
View == [key \in Keys |->
           LET live == {v \in VersionsOf(dest, key) : v.current /\ v.op # "d"}
           IN  IF live = {} THEN NONE ELSE Latest(live).image]

\* The current view shows the source's rows as of the resume point.
CurrentIsLive ==
    LET committed == SelectSeq(source.log, LAMBDA e : e.lsn <= dest.resume)
        Image(key) == LET mine == SelectSeq(committed, LAMBDA e : e.key = key)
                      IN  IF mine = <<>> THEN NONE ELSE Last(mine).after
    IN  \A key \in Keys : View[key] = Image(key)

\* As long as generations sort in the order they were made, the current view
\* is the source's image at the resume point (the __current view over
\* is_current, and the order tokens behind it).
OrderedViewIsLive == Ordered => CurrentIsLive
=============================================================================
