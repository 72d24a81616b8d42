----------------------------- MODULE TableFold -----------------------------
(***************************************************************************)
(* The fold of one commit group into one destination table.                *)
(*                                                                         *)
(* table_work.py keeps, per key, the list of physical rows that currently  *)
(* wear it: START stands for the row the destination held before the       *)
(* group, every other entry is a (possibly sparse) row image.  Each event  *)
(* is one operation on that list, the before-image says which entry an     *)
(* UPDATE or DELETE means, and table_writer.py turns what is left into     *)
(* DELETEs, UPDATEs and INSERTs.  A keyless table has no such list: its    *)
(* operations are replayed in source order (keyless_work.py).              *)
(*                                                                         *)
(* The source is a table that changes under Postgres' rules; each change   *)
(* is delivered and folded in one step, which loses nothing because the    *)
(* fold runs on one thread and reads only the destination.                 *)
(***************************************************************************)
EXTENDS Integers, Sequences, FiniteSets, SequencesExt, FiniteSetsExt

CONSTANTS Keys,        \* the values of the key columns
          Values,      \* the values of an ordinary and of a wide column
          Kinds,       \* the tables considered: see Kind
          MaxEvents    \* bound: changes of the source in one behaviour

\* keys: "immediate" (unique key, REPLICA IDENTITY DEFAULT), "deferred" (a
\* deferrable unique key, which needs REPLICA IDENTITY FULL) or "none".
Kind == [keys: {"immediate", "deferred", "none"}, delete: {"hard", "soft"},
         toast: BOOLEAN, truncate: BOOLEAN]

\* A wide column is sent as an unchanged marker only without FULL, and the
\* soft deletes of a keyless table are outside this module.
ASSUME FoldAssumption ==
    /\ Keys # {} /\ Values # {} /\ MaxEvents \in Nat
    /\ Kinds \subseteq Kind
    /\ \A t \in Kinds : /\ t.toast => t.keys = "immediate"
                        /\ t.keys = "none" => t.delete = "hard"

VARIABLES table,      \* the kind of the table, fixed
          src,        \* the source: the rows that wear each key
          inTxn,      \* a source transaction is open
          dest,       \* the destination: its rows by key, tombstones included
          live,       \* TableWork.live
          deletedKeys,\* TableWork.deleted_keys
          softDeletes,\* the keys of TableWork.soft_deletes
          truncated,  \* TableWork.truncated
          ops,        \* TableWork.keyless_operations
          marks,      \* TableWork.truncate_marks
          gone,       \* history: rows each TRUNCATE of the group removed
          audit,      \* the last group's truncate_rows_removed and gone
          group,      \* events folded since the last commit
          events,     \* events so far (bounded)
          refused     \* the error that rolled the group back, or "no"

fold == <<live, deletedKeys, softDeletes, truncated, ops, marks, gone, group>>
vars == <<table, src, inTxn, dest, fold, audit, events, refused>>

-----------------------------------------------------------------------------
Unchanged == "unchanged"     \* FieldState.UNCHANGED_TOAST
Undecided == -1              \* two entries could be meant
Ambiguous == "AmbiguousDelete"
NoBase == "ToastBaseMissing"

Keyed == table.keys # "none"
Plain == CHOOSE w \in Values : TRUE
Payload == [v: Values, w: Values]
\* Only a table with a wide column uses both columns.
Rows == IF table.toast THEN Payload ELSE {p \in Payload : p.w = Plain}
\* The rows of a keyless table share one place.
Places == IF Keyed THEN Keys ELSE {CHOOSE k \in Keys : TRUE}

START == [start |-> TRUE, v |-> Plain, w |-> Plain, complete |-> FALSE]
Patch(p, complete) == [start |-> FALSE, v |-> p.v, w |-> p.w, complete |-> complete]

Compose(old, patch) ==
    [patch EXCEPT !.w = IF patch.w = Unchanged THEN old.w ELSE patch.w,
                  !.complete = old.complete \/ patch.complete]

Without(s, i) == RemoveAt(s, i)
Concrete(entries) == Cardinality({i \in DOMAIN entries : ~entries[i].start})

-----------------------------------------------------------------------------
(* The entries of a key, and which of them an event means.                  *)

\* The entries of a key the fold has not met: START, but nothing after a
\* TRUNCATE.  A key left with START alone is not written at all, so seeding
\* every key at once is the same as seeding it on first sight.
Unseen(after) == [k \in Keys |-> IF after THEN <<>> ELSE <<START>>]

ResolveStart(k, entries) ==
    IF entries # <<>> /\ entries[1].start /\ dest[k] = <<>>
    THEN Tail(entries) ELSE entries

Matches(k, entry, image) ==
    IF entry.start
    THEN \E i \in DOMAIN dest[k], r \in image : dest[k][i].v = r.v /\ dest[k][i].w = r.w
    ELSE \E r \in image : entry.v = r.v /\ entry.w = r.w

Matched(k, entries, image) == {i \in DOMAIN entries : Matches(k, entries[i], image)}

\* Mutant: an event means the newest row of its key.
TargetNewest(k, entries, image) == Len(entries)

\* 0 collapses the key.  START is the first entry, so the least match is START
\* when START matches.
TargetEntry(k, entries, image) ==
    CASE entries = <<>> -> 0
      [] Len(entries) = 1 -> 1
      [] Len(entries) > 1 /\ image = {} ->
             IF Concrete(entries) <= 1 THEN 0 ELSE Undecided
      [] Len(entries) > 1 /\ image # {} ->
             IF Matched(k, entries, image) = {} THEN Undecided
             ELSE Min(Matched(k, entries, image))

\* The columns besides the key that a before-image carries, as a set of at
\* most one row.
Image(row) == IF table.keys = "deferred" THEN {row} ELSE {}

-----------------------------------------------------------------------------
(* Events.                                                                  *)

More == refused = "no" /\ events < MaxEvents

Counted == /\ events' = events + 1
           /\ group' = group + 1
           /\ inTxn' = TRUE

Refuse(why) ==
    /\ refused' = why
    /\ UNCHANGED <<table, src, inTxn, dest, fold, audit, events>>

Place(k, patch) ==
    /\ live' = [live EXCEPT ![k] = Append(live[k], patch)]
    /\ deletedKeys' = deletedKeys \ {k}

Operation(op, before, after) == [op |-> op, before |-> before, after |-> after]

Insert(k, row) ==
    /\ More
    /\ table.keys = "immediate" => src[k] = <<>>
    /\ src' = [src EXCEPT ![k] = Append(@, row)]
    /\ IF Keyed
       THEN Place(k, Patch(row, TRUE)) /\ UNCHANGED ops
       ELSE /\ ops' = Append(ops, Operation("c", {}, {row}))
            /\ UNCHANGED <<live, deletedKeys>>
    /\ Counted
    /\ UNCHANGED <<table, dest, softDeletes, truncated, marks, gone, audit, refused>>

\* An UPDATE whose base the fold finds replaces that entry.
Replaced(entries, target, patch) ==
    IF target = 0 THEN <<patch>>
    ELSE [entries EXCEPT ![target] = IF @.start THEN patch ELSE Compose(@, patch)]

FoldUpdate(k, image, patch) ==
    LET entries == ResolveStart(k, live[k])
        target == TargetEntry(k, entries, image)
    IN IF k \in deletedKeys \/ entries = <<>> THEN refused' = NoBase /\ UNCHANGED live
       ELSE IF target = Undecided THEN refused' = Ambiguous /\ UNCHANGED live
       ELSE /\ live' = [live EXCEPT ![k] = Replaced(entries, target, patch)]
            /\ UNCHANGED refused

Update(k, i, row, w) ==
    /\ More
    /\ src[k][i] # row
    /\ w = row.w \/ (table.toast /\ w = Unchanged /\ row.w = src[k][i].w)
    /\ src' = [src EXCEPT ![k][i] = row]
    /\ IF Keyed
       THEN FoldUpdate(k, Image(src[k][i]), Patch([row EXCEPT !.w = w], FALSE)) /\ UNCHANGED ops
       ELSE /\ ops' = Append(ops, Operation("u", {src[k][i]}, {row}))
            /\ UNCHANGED <<live, refused>>
    /\ Counted
    /\ UNCHANGED <<table, dest, deletedKeys, softDeletes, truncated, marks, gone, audit>>

FoldDelete(k, image) ==
    LET entries == ResolveStart(k, live[k])
        target == TargetEntry(k, entries, image)
        left == IF target = 0 THEN <<>> ELSE Without(entries, target)
    IN IF target = Undecided
       THEN refused' = Ambiguous /\ UNCHANGED <<live, deletedKeys, softDeletes>>
       ELSE /\ live' = [live EXCEPT ![k] = left]
            /\ deletedKeys' = IF left = <<>> THEN deletedKeys \cup {k} ELSE deletedKeys
            /\ softDeletes' = IF table.delete = "soft" THEN softDeletes \cup {k} ELSE softDeletes
            /\ UNCHANGED refused

Delete(k, i) ==
    /\ More
    /\ src' = [src EXCEPT ![k] = Without(@, i)]
    /\ IF Keyed
       THEN FoldDelete(k, Image(src[k][i])) /\ UNCHANGED ops
       ELSE /\ ops' = Append(ops, Operation("d", {src[k][i]}, {}))
            /\ UNCHANGED <<live, deletedKeys, softDeletes, refused>>
    /\ Counted
    /\ UNCHANGED <<table, dest, truncated, marks, gone, audit>>

Total(f(_)) == FoldSet(LAMBDA k, n : f(k) + n, 0, Places)
PlannedAt(k) == Concrete(live[k])
SourceAt(k) == Len(src[k])
HeldAt(k) == Len(dest[k])

\* The planner folds a TRUNCATE with table_work.truncate, which leaves the
\* operations of a keyless table alone.
Truncate ==
    /\ More
    /\ table.truncate
    /\ src' = [k \in Keys |-> <<>>]
    /\ truncated' = TRUE
    /\ marks' = Append(marks, Total(PlannedAt))
    /\ gone' = Append(gone, Total(SourceAt))
    /\ live' = Unseen(TRUE)
    /\ deletedKeys' = {}
    /\ Counted
    /\ UNCHANGED <<table, dest, softDeletes, ops, audit, refused>>

\* The keys that hold two or more concrete rows (TableWork.multi).
Multi == {k \in Keys : PlannedAt(k) > 1}

EndTransaction ==
    /\ refused = "no" /\ inTxn
    /\ Keyed => \A k \in Keys : Len(src[k]) <= 1
    /\ IF Multi # {} THEN Refuse(Ambiguous)
       ELSE /\ inTxn' = FALSE
            /\ UNCHANGED <<table, src, dest, fold, audit, events, refused>>

-----------------------------------------------------------------------------
(* Writing the group: table_writer.write inside the destination transaction *)

Stored(e) == [v |-> e.v, w |-> e.w, deleted |-> FALSE]

Final(k) == SelectSeq(live[k], LAMBDA e : ~e.start)
Touched == {k \in Keys : live[k] # <<START>>}
Left == {k \in Touched : Final(k) # <<>>}
Replacements == {k \in Left : k \in softDeletes}
Partial == {k \in Left \ softDeletes : ~Final(k)[1].complete}
Inserted == {k \in Left \ softDeletes : Final(k)[1].complete}
DeleteEmptied == {k \in Touched : live[k] = <<>> /\ k \notin softDeletes}

\* Mutant: an emptied key is deleted whatever the delete policy says.
DeleteAllEmptied == {k \in Touched : live[k] = <<>>} \cup Inserted

\* What is deleted before the inserts: the emptied keys and the replaced ones.
DeleteKeys == DeleteEmptied \cup Inserted

\* DELETE, then the tombstones, then UPDATE, then INSERT.
Cleared == [k \in Keys |-> IF truncated \/ k \in DeleteKeys THEN <<>> ELSE dest[k]]

Marked == [k \in Keys |->
    IF k \in softDeletes
    THEN [i \in DOMAIN Cleared[k] |-> [Cleared[k][i] EXCEPT !.deleted = TRUE]]
    ELSE Cleared[k]]

\* Every patch carries cdcf_deleted = FALSE, so an update also revives the row.
Updated == [k \in Keys |->
    IF k \in Partial \cup Replacements
    THEN [i \in DOMAIN Marked[k] |->
             Stored(Compose(Marked[k][i] @@ [complete |-> TRUE], Final(k)[1]))]
    ELSE Marked[k]]

Written == [k \in Keys |->
    IF k \in Inserted THEN Append(Updated[k], Stored(Final(k)[1])) ELSE Updated[k]]

\* Every sparse update must find its one base row.
BaseMissing == \E k \in Partial \cup Replacements : Len(Marked[k]) # 1

\* A keyless operation on the rows so far: a DELETE or UPDATE takes one row
\* that equals the before-image, and the group fails when there is none.
ApplyKeyless(state, o) ==
    LET at == {i \in DOMAIN state.rows : \E r \in o.before : state.rows[i] = Stored(r)}
        kept == IF at = {} THEN state.rows ELSE Without(state.rows, Min(at))
        new == SetToSeq({Stored(r) : r \in o.after})
    IN [rows |-> kept \o new, missing |-> state.missing \/ (o.op # "c" /\ at = {})]

Keyless(k) == FoldLeft(ApplyKeyless, [rows |-> dest[k], missing |-> FALSE], ops)

\* _finish_truncate_audit: the first TRUNCATE also counts what DELETE FROM took.
Audited(removed) == [i \in DOMAIN marks |-> IF i = 1 THEN marks[1] + removed ELSE marks[i]]

Forget ==
    /\ live' = Unseen(FALSE)
    /\ deletedKeys' = {} /\ softDeletes' = {} /\ truncated' = FALSE
    /\ ops' = <<>> /\ marks' = <<>> /\ gone' = <<>> /\ group' = 0

Commit(rows, removed) ==
    /\ dest' = rows
    /\ audit' = [i \in DOMAIN marks |-> [told |-> Audited(removed)[i], was |-> gone[i]]]
    /\ Forget
    /\ UNCHANGED <<table, src, inTxn, events, refused>>

\* Without a row event the item was never identified, and is not keyless.
WriteKeyed ==
    /\ refused = "no" /\ ~inTxn /\ group > 0
    /\ Keyed \/ ops = <<>>
    /\ IF BaseMissing THEN Refuse(NoBase)
       ELSE Commit(Written, IF truncated THEN Total(HeldAt) ELSE 0)

WriteKeyless ==
    /\ refused = "no" /\ ~inTxn /\ group > 0
    /\ ~Keyed /\ ops # <<>>
    /\ \E k \in Places :
        IF Keyless(k).missing THEN Refuse(NoBase)
        ELSE Commit([dest EXCEPT ![k] = Keyless(k).rows], 0)

-----------------------------------------------------------------------------
Init ==
    /\ table \in Kinds
    /\ src \in [Keys -> {<<>>} \cup {<<p>> : p \in Rows}]
    /\ \A k \in Keys \ Places : src[k] = <<>>
    /\ dest = [k \in Keys |-> [i \in DOMAIN src[k] |-> Stored(src[k][i])]]
    /\ inTxn = FALSE
    /\ live = Unseen(FALSE)
    /\ deletedKeys = {} /\ softDeletes = {} /\ truncated = FALSE
    /\ ops = <<>> /\ marks = <<>> /\ gone = <<>> /\ audit = <<>>
    /\ group = 0 /\ events = 0 /\ refused = "no"

Next ==
    \/ \E k \in Places, p \in Rows : Insert(k, p)
    \/ \E k \in Places, p \in Rows, w \in Values \cup {Unchanged} :
           \E i \in DOMAIN src[k] : Update(k, i, p, w)
    \/ \E k \in Places : \E i \in DOMAIN src[k] : Delete(k, i)
    \/ Truncate
    \/ EndTransaction
    \/ WriteKeyed
    \/ WriteKeyless

Spec == Init /\ [][Next]_vars

-----------------------------------------------------------------------------
Entry == [start: BOOLEAN, v: Values, w: Values \cup {Unchanged}, complete: BOOLEAN]

\* Every variable has its type, and START is only ever the first entry of a
\* key, which _concrete and _resolve_start rely on.
TypeOK ==
    /\ table \in Kinds
    /\ \A k \in Keys :
        /\ \A i \in DOMAIN src[k] : src[k][i] \in Payload
        /\ \A i \in DOMAIN dest[k] : dest[k][i] \in [v: Values, w: Values, deleted: BOOLEAN]
        /\ \A i \in DOMAIN live[k] : live[k][i] \in Entry /\ (live[k][i].start => i = 1)
    /\ deletedKeys \subseteq Keys /\ softDeletes \subseteq Keys
    /\ refused \in {"no", Ambiguous, NoBase}

\* When a group has been written, the rows the destination shows (tombstones
\* left out, as in the __live view) are the source's rows at that transaction
\* boundary: whatever the order of key reuse, transient duplicates, sparse
\* updates and truncates inside the group, the fold and the write neither lose
\* a row nor keep one.
Held(rows, p) == Cardinality({i \in DOMAIN rows : rows[i].v = p.v /\ rows[i].w = p.w})
Shown(k) == SelectSeq(dest[k], LAMBDA r : ~r.deleted)

LiveImage ==
    (group = 0 /\ refused = "no") =>
        \A k \in Keys, p \in Payload : Held(Shown(k), p) = Held(src[k], p)

\* With hard deletes, a stream Postgres can produce is never refused: a
\* before-image always decides between two rows that wear one key (FULL), or
\* at most one row can wear it (DEFAULT), and a sparse update finds its base.
NeverRefused == table.delete = "hard" => refused = "no"

\* The write never collides with the primary key of the destination table:
\* it leaves at most one row under a key, tombstones included.
KeyedUnique == Keyed => \A k \in Keys : Len(dest[k]) <= 1

\* A step with soft deletes leaves a key the destination has held its row, as a
\* live row or as a tombstone, until a TRUNCATE empties the table.
TombstonesKept ==
    (table.delete = "soft" /\ ~truncated) =>
        \A k \in Keys : dest[k] # <<>> => dest'[k] # <<>>

\* The rows_removed a TRUNCATE marker records is never below what the TRUNCATE
\* removed, and is exact for every TRUNCATE of a group but the first, so two
\* TRUNCATEs of one group do not report the same rows.
TruncateAudit ==
    \A i \in DOMAIN audit : /\ audit[i].told >= audit[i].was
                            /\ i > 1 => audit[i].told = audit[i].was
=============================================================================
