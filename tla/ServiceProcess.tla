---------------------------- MODULE ServiceProcess ----------------------------
(***************************************************************************)
(* The service process of service.py: admission to one physical            *)
(* destination, the scheduled Flight or the one-table set-history-mode     *)
(* operation, and the way out, over the resources two processes share: the *)
(* lease row, the DuckDB file, the state directory and the table's row.    *)
(*                                                                         *)
(* Lease.tla has the lease's own steps.  Here acquiring, fencing and       *)
(* releasing are one step each, on a row whose heartbeat ages.             *)
(***************************************************************************)
EXTENDS Integers

CONSTANTS
    Flights,     \* scheduled Flights, each one process
    Operators,   \* set-history-mode processes
    Requested,   \* operator -> the mode it asks for
    MaxTxns,     \* bound on the transactions of the Flights
    MaxFaults    \* bound on deaths and failing connections

VARIABLES
    kind,     \* the deployment: a DuckDB file, MotherDuck from one host, or from
              \* several hosts, which share no state directory
    lease,    \* the lease row: holder, state, and the age of its heartbeat
    held,     \* who holds the DuckDB file and the state directory
    table,    \* the captured table: lifecycle and mode of its row, its target,
              \* and whether the source dropped it
    proc,     \* process -> where it is and what it remembers
    spent     \* transactions and faults so far

vars == <<kind, lease, held, table, proc, spent>>

-----------------------------------------------------------------------------
NOBODY == "nobody"

Processes == Flights \union Operators

NoWork == [what |-> "none", lifecycle |-> "absent", mode |-> "none", target |-> FALSE]

\* A pipeline that has never run, or one that streamed into the table before
\* it had a row.
Init ==
    /\ kind \in {"duckdb", "motherduck", "hosts"}
    /\ lease = [holder |-> NOBODY, state |-> "absent", health |-> "fresh"]
    /\ held = [file |-> NOBODY, dir |-> NOBODY]
    /\ \E target \in BOOLEAN :
         table = [lifecycle |-> "absent", mode |-> "none", target |-> target,
                  dropped |-> FALSE]
    /\ proc = [p \in Processes |->
                 [at |-> "off", work |-> NoWork, admitted |-> FALSE,
                  bound |-> FALSE, lost |-> FALSE, outcome |-> "none"]]
    /\ spent = [txns |-> 0, faults |-> 0]

Goes(p, at) == proc' = [proc EXCEPT ![p] = [@ EXCEPT !.at = at]]

\* The way out after an error: what is open is torn down first.
Fails(p, at) == proc' = [proc EXCEPT ![p] = [@ EXCEPT !.at = at, !.outcome = "failed",
                                                      !.work = NoWork]]

FileBusy(p) == kind = "duckdb" /\ held.file \notin {NOBODY, p}

Opens(p) == held' = [held EXCEPT !.file = IF kind = "duckdb" THEN p ELSE @]

Closes(p) == [held EXCEPT !.file = IF @ = p THEN NOBODY ELSE @]

\* The fence: the row names this process and has not expired.
Fenced(p) == lease.holder = p /\ lease.state = "held" /\ lease.health # "expired"

Reclaimable == lease.state # "held" \/ lease.health = "expired"

Healthy == ~Reclaimable /\ lease.health = "fresh"

-----------------------------------------------------------------------------
(* _admit.                                                                  *)

Starts(p) ==
    /\ proc[p].at = "off"
    /\ Goes(p, "connect")
    /\ UNCHANGED <<kind, lease, held, table, spent>>

\* The bootstrap connection.  A file held elsewhere is probed read-only, which
\* the lock may refuse as well: a fresh heartbeat read that way is a
\* stand-down, anything else the original failure.
Connects(p) ==
    /\ proc[p].at = "connect"
    /\ IF FileBusy(p)
       THEN /\ \E readable \in BOOLEAN :
                 proc' = [proc EXCEPT ![p] = [@ EXCEPT !.at = "close",
                            !.outcome = IF readable /\ Healthy THEN "stand_down"
                                        ELSE "failed"]]
            /\ UNCHANGED held
       ELSE Opens(p) /\ Goes(p, "acquire")
    /\ UNCHANGED <<kind, lease, table, spent>>

\* Lease.acquire: a fresh heartbeat stands the starter down, a stale one is
\* waited for with the bootstrap connection open, a reclaimable row is taken.
\* The connection is closed on every way out.
Acquires(p) ==
    /\ proc[p].at = "acquire" /\ (Healthy \/ Reclaimable)
    /\ IF Healthy
       THEN /\ proc' = [proc EXCEPT ![p] = [@ EXCEPT !.at = "close",
                                                      !.outcome = "stand_down"]]
            /\ UNCHANGED lease
       ELSE /\ proc' = [proc EXCEPT ![p] = [@ EXCEPT !.admitted = TRUE,
                          !.at = IF p \in Flights THEN "open" ELSE "dir"]]
            /\ lease' = [holder |-> p, state |-> "held", health |-> "fresh"]
    /\ held' = Closes(p)
    /\ UNCHANGED <<kind, table, spent>>

\* The bounded wait for a stale holder runs out.
WaitExhausted(p) ==
    /\ proc[p].at = "acquire" /\ ~Healthy /\ ~Reclaimable
    /\ Fails(p, "close")
    /\ held' = Closes(p)
    /\ UNCHANGED <<kind, lease, table, spent>>

-----------------------------------------------------------------------------
(* The run: a Flight opens the destination, then the state directory; the   *)
(* operation takes the directory first.                                     *)

\* The data connection, outside the part of pipeline.run that tears down.
OpensDestination(p) ==
    /\ proc[p].at = "open"
    /\ IF FileBusy(p)
       THEN Fails(p, "close") /\ UNCHANGED held
       ELSE /\ Opens(p)
            /\ IF p \in Flights THEN Goes(p, "dir")
               ELSE proc' = [proc EXCEPT ![p] = [@ EXCEPT !.at = "run", !.bound = TRUE]]
    /\ UNCHANGED <<kind, lease, table, spent>>

\* StateDirectoryLease.acquire, without waiting; a Flight then attaches to its
\* epoch and binds the fenced handle.
TakesDirectory(p) ==
    /\ proc[p].at = "dir"
    /\ IF held.dir # NOBODY
       THEN Fails(p, "teardown") /\ UNCHANGED held
       ELSE /\ held' = [held EXCEPT !.dir = IF kind = "hosts" THEN @ ELSE p]
            /\ IF p \in Operators THEN Goes(p, "open")
               ELSE IF Fenced(p)
               THEN proc' = [proc EXCEPT ![p] = [@ EXCEPT !.at = "run", !.bound = TRUE]]
               ELSE Fails(p, "teardown")
    /\ UNCHANGED <<kind, lease, table, spent>>

\* A transaction begins and reads what it decides on: the planner the policy
\* of the relation, once per group; the operation the table's row.
Begins(p, what) ==
    /\ proc[p].at = "run"
    /\ p \in Flights => spent.txns < MaxTxns
    /\ (p \in Operators) <=> (what = "set_mode")
    /\ proc' = [proc EXCEPT ![p] = [@ EXCEPT !.at = "txn",
                  !.work = [what |-> what, lifecycle |-> table.lifecycle,
                            mode |-> table.mode, target |-> table.target]]]
    /\ spent' = IF p \in Flights THEN [spent EXCEPT !.txns = @ + 1] ELSE spent
    /\ UNCHANGED <<kind, lease, held, table>>

\* admit_history_mode on what the transaction sees: may the table take the
\* mode?  Current-only rows are no history, and a history is not given up.
Admits(asked, saw) ==
    \/ saw.lifecycle = "absent" /\ (asked = "scd2" => ~saw.target)
    \/ saw.lifecycle # "absent" /\ saw.mode = asked
    \/ saw.lifecycle = "none" /\ saw.mode = "none" /\ ~saw.target /\ asked = "scd2"

\* Is the work of the transaction refused before COMMIT?  A snapshot's rows
\* have no place in the order of a history.
Refuses(p) ==
    LET saw == proc[p].work
    IN  \/ saw.what = "set_mode" /\ ~Admits(Requested[p], saw)
        \/ saw.what = "publish" /\ saw.mode = "scd2"

\* forget, after the target of a dropped relation was removed.
Forgotten == [lifecycle |-> "absent", mode |-> "none", target |-> FALSE,
              dropped |-> TRUE]

\* What the transaction writes.  A row that is not there is inserted, with the
\* default mode unless the operation names one.
Writes(p) ==
    LET saw == proc[p].work
    IN  CASE saw.what = "stream"  -> [table EXCEPT !.target = @ \/ saw.mode = "none"]
          [] saw.what = "owe"     -> [table EXCEPT !.lifecycle = "awaiting_snapshot"]
          [] saw.what = "publish" -> [table EXCEPT !.lifecycle = "complete", !.target = TRUE]
          [] saw.what = "forget"  -> Forgotten
          [] saw.what = "set_mode" ->
               [table EXCEPT !.lifecycle = IF table.lifecycle = "absent" THEN "none"
                                           ELSE table.lifecycle,
                             !.mode = Requested[p]]

\* Mutant: the COMMIT goes through whoever holds the lease by then.
CommitsUnfenced(p) ==
    /\ proc[p].at = "txn"
    /\ IF Refuses(p)
       THEN Fails(p, "teardown") /\ UNCHANGED <<table, lease>>
       ELSE /\ table' = Writes(p)
            /\ UNCHANGED lease
            /\ proc' = [proc EXCEPT ![p] = [@ EXCEPT !.work = NoWork,
                          !.at = IF p \in Flights THEN "run" ELSE "teardown",
                          !.outcome = IF p \in Flights THEN proc[p].outcome
                                      ELSE "admitted"]]
    /\ UNCHANGED <<kind, held, spent>>

\* The first mutation of the transaction fences the lease row, and the fence
\* stands until COMMIT: the work is durable only while the row is this
\* process's; a refusal, and a lost lease, roll it back and end the run.
Commits(p) ==
    /\ proc[p].at = "txn"
    /\ IF Refuses(p) \/ ~Fenced(p)
       THEN Fails(p, "teardown") /\ UNCHANGED <<table, lease>>
       ELSE /\ table' = Writes(p)
            /\ lease' = [lease EXCEPT !.health = "fresh"]
            /\ proc' = [proc EXCEPT ![p] = [@ EXCEPT !.work = NoWork,
                          !.at = IF p \in Flights THEN "run" ELSE "teardown",
                          !.outcome = IF p \in Flights THEN proc[p].outcome
                                      ELSE "admitted"]]
    /\ UNCHANGED <<kind, held, spent>>

\* renew_once between groups; a lease it cannot renew is lost.
Renews(p) ==
    /\ p \in Flights /\ proc[p].at = "run"
    /\ IF Fenced(p)
       THEN lease' = [lease EXCEPT !.health = "fresh"] /\ UNCHANGED proc
       ELSE Fails(p, "teardown") /\ UNCHANGED lease
    /\ UNCHANGED <<kind, held, table, spent>>

\* The run ends: drained on a signal, stopped hard, or by an error.
Ends(p) ==
    /\ p \in Flights /\ proc[p].at = "run"
    /\ \E outcome \in {"stopped", "failed"} :
         proc' = [proc EXCEPT ![p] = [@ EXCEPT !.at = "teardown", !.outcome = outcome]]
    /\ UNCHANGED <<kind, lease, held, table, spent>>

-----------------------------------------------------------------------------
(* The way out.                                                             *)

\* Lease.release through the fenced handle swallows its own failure.
Released(p) == IF Fenced(p) THEN [lease EXCEPT !.state = "released"] ELSE lease

\* The bound handle releases the lease and is closed; a Flight gives up its
\* state directory here, the operation at the very end.
TearsDown(p) ==
    /\ proc[p].at = "teardown"
    /\ lease' = IF proc[p].bound THEN Released(p) ELSE lease
    /\ proc' = [proc EXCEPT ![p] = [@ EXCEPT !.at = "close",
                  !.admitted = proc[p].admitted /\ ~proc[p].bound,
                  !.lost = proc[p].bound /\ ~Fenced(p)]]
    /\ held' = [Closes(p) EXCEPT
                  !.dir = IF @ = p /\ p \in Flights THEN NOBODY ELSE @]
    /\ UNCHANGED <<kind, table, spent>>

\* Mutant: only a handle the run had bound is worth a release.
ClosesQuietly(p) ==
    /\ proc[p].at = "close"
    /\ proc' = [proc EXCEPT ![p] = [@ EXCEPT !.at = "ended", !.admitted = FALSE]]
    /\ held' = [held EXCEPT !.dir = IF @ = p THEN NOBODY ELSE @]
    /\ UNCHANGED <<kind, lease, table, spent>>

\* Does the late connection of an admitted process release the row?
ReleasesLate(p, fault) == proc[p].admitted /\ ~FileBusy(p) /\ fault = 0

\* The row is left to its expiry: a release was refused or never reached it.
LeftToExpiry(p, fault) ==
    proc[p].lost \/ (proc[p].admitted /\ ~(ReleasesLate(p, fault) /\ Fenced(p)))

\* _release_if_needed: an admitted process whose run never bound a handle
\* connects once more to release; the expiry is the fence when it cannot.
ClosesProcess(p) ==
    /\ proc[p].at = "close"
    /\ \E fault \in 0..1 :
         /\ spent.faults + fault <= MaxFaults /\ (fault = 1 => proc[p].admitted)
         /\ spent' = [spent EXCEPT !.faults = @ + fault]
         /\ lease' = IF ReleasesLate(p, fault) THEN Released(p) ELSE lease
         /\ proc' = [proc EXCEPT ![p] = [@ EXCEPT !.at = "ended", !.admitted = FALSE,
                                                  !.lost = LeftToExpiry(p, fault)]]
    /\ held' = [held EXCEPT !.dir = IF @ = p THEN NOBODY ELSE @]
    /\ UNCHANGED <<kind, table>>

\* The process dies; the system frees the file and the directory's lock.
Dies(p) ==
    /\ proc[p].at \notin {"off", "ended", "dead"} /\ spent.faults < MaxFaults
    /\ spent' = [spent EXCEPT !.faults = @ + 1]
    /\ proc' = [proc EXCEPT ![p] = [at |-> "dead", work |-> NoWork, admitted |-> FALSE,
                                    bound |-> FALSE, lost |-> FALSE, outcome |-> "none"]]
    /\ held' = [Closes(p) EXCEPT !.dir = IF @ = p THEN NOBODY ELSE @]
    /\ UNCHANGED <<kind, lease, table>>

\* Time passes without a renewal.
Ages ==
    /\ lease.state = "held" /\ lease.health # "expired"
    /\ lease' = [lease EXCEPT !.health = IF @ = "fresh" THEN "stale" ELSE "expired"]
    /\ UNCHANGED <<kind, held, table, proc, spent>>

Finished ==
    /\ \A p \in Processes : proc[p].at \in {"off", "ended", "dead"}
    /\ UNCHANGED vars

Next ==
    \/ \E p \in Processes :
         \/ Starts(p) \/ Connects(p) \/ Acquires(p) \/ WaitExhausted(p)
         \/ OpensDestination(p) \/ TakesDirectory(p)
         \/ (\E what \in {"stream", "owe", "publish", "forget", "set_mode"} :
               Begins(p, what))
         \/ Commits(p) \/ Renews(p) \/ Ends(p)
         \/ TearsDown(p) \/ ClosesProcess(p) \/ Dies(p)
    \/ Ages \/ Finished

Spec == Init /\ [][Next]_vars

-----------------------------------------------------------------------------
(* Properties.                                                              *)

\* A table under scd2 has no current-only image: no group that read the old
\* policy commits after the switch, and no switch is made over rows a Flight
\* has written meanwhile (admit_history_mode: "pre-enable history cannot be
\* fabricated"; the planner's mode is read once per group).
HistoryIsWhole == table.mode = "scd2" => ~table.target

\* A mode the operation reported stays until the source relation is dropped:
\* no rebuild, snapshot or second operation takes it back.
PromisedModeHolds ==
    \A p \in Operators :
       proc[p].outcome = "admitted" /\ Requested[p] = "scd2" /\ ~table.dropped
          => table.mode = "scd2"

\* A process that ended in order holds neither the file nor the state
\* directory, and the lease row names it as holder only when its release was
\* refused (_release_if_needed: "expiry remains the fence").
EndedHoldsNothing ==
    \A p \in Processes : proc[p].at = "ended" =>
       /\ held.file # p /\ held.dir # p
       /\ lease.holder = p /\ lease.state = "held" => proc[p].lost
=============================================================================
