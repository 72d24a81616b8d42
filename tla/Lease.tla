------------------------------- MODULE Lease -------------------------------
(***************************************************************************)
(* The single-writer lease of one physical destination.  Every Flight is   *)
(* one process; it acquires the lease row, renews it, fences every data    *)
(* transaction with a conditional update of that row, and releases it.     *)
(* Clocks and rows are read by separate statements, so anything a Flight   *)
(* read may be out of date when it is used.                                *)
(*                                                                         *)
(* The destination is an MVCC database with snapshot isolation: a          *)
(* transaction reads the row as it was at BEGIN, and an update of a row    *)
(* that somebody else changed since, or is changing, fails.  A transaction *)
(* of a dead process stays open at the server until the server ends it,    *)
(* and a COMMIT that was already sent may still succeed.                   *)
(***************************************************************************)
EXTENDS Integers, Sequences

CONSTANTS
  Service,         \* long-running Flights (admission with a heartbeat bound)
  Batch,           \* finite runs
  None,            \* no Flight
  TTL,             \* ttl_seconds
  HeartbeatBound,  \* heartbeat_bound_seconds
  MaxClock,        \* bound: ticks of the destination clock
  MaxCommits       \* bound: data commits

Flights == Service \cup Batch

ASSUME LeaseAssumption ==
  /\ Service \cap Batch = {}
  /\ None \notin Flights
  /\ TTL \in Nat \ {0}
  /\ HeartbeatBound \in Nat
  /\ MaxClock \in Nat
  /\ MaxCommits \in Nat

VARIABLES
  clock,    \* the destination's clock
  row,      \* the committed lease row
  pc,       \* where each Flight is
  now,      \* the last clock value each Flight read
  seen,     \* the row each starter read before its takeover
  dead,     \* whether the starter saw the holder's local PID gone
  epoch,    \* Lease.fencing_epoch of each Flight
  tx,       \* each Flight's open destination transaction
  owners,   \* history: who was written into the row, in order
  commits   \* history: data commits, each with the number of owners so far

vars == <<clock, row, pc, now, seen, dead, epoch, tx, owners, commits>>

Times == 0..(MaxClock + TTL)

RowType == [id : Flights \cup {None}, epoch : Nat, renewed : Times,
            expires : Times, state : {"absent", "held", "released"}]

NoRow == [id |-> None, epoch |-> 0, renewed |-> 0, expires |-> 0,
          state |-> "absent"]

NoTx == [open |-> FALSE, row |-> NoRow, wrote |-> FALSE, stale |-> FALSE,
         sent |-> FALSE, start |-> 0]

\* Flights whose process is past admission and believes it holds the lease.
Holding == {"held", "renewing", "renewed", "ready", "txn", "commit"}

Held(f, ep, t) == [id |-> f, epoch |-> ep, renewed |-> t, expires |-> t + TTL,
                   state |-> "held"]

-----------------------------------------------------------------------------
(* _health_from_row, on a row and a clock value.                            *)

Reclaimable(r, t) == r.state # "held" \/ r.expires <= t

Healthy(r, t) == ~Reclaimable(r, t) /\ r.renewed >= t - HeartbeatBound

\* _matches: the row still names this Flight and this epoch.
Matches(f, r) == r.id = f /\ r.epoch = epoch[f] /\ r.state = "held"

\* Another transaction has an uncommitted update of the row.
LockedFor(f) == \E g \in Flights \ {f} : tx[g].open /\ tx[g].wrote

\* A committed change of the row makes every other snapshot of it stale.
Overtaken(f) == [g \in Flights |->
  IF g # f /\ tx[g].open THEN [tx[g] EXCEPT !.stale = TRUE] ELSE tx[g]]

\* What a starter does when the row names somebody else: stand down for a
\* healthy incumbent, fail otherwise.
GiveWay(f, t) == pc' = [pc EXCEPT ![f] =
  IF f \in Service /\ Healthy(row, t) THEN "stood_down" ELSE "refused"]

\* acquire returns, or its process is gone: what it read goes with it.
ForgetsReads(f) ==
  /\ now' = [now EXCEPT ![f] = 0]
  /\ seen' = [seen EXCEPT ![f] = NoRow]
  /\ dead' = [dead EXCEPT ![f] = FALSE]

Init ==
  /\ clock = 0 /\ row = NoRow
  /\ pc = [f \in Flights |-> "off"]
  /\ now = [f \in Flights |-> 0] /\ seen = [f \in Flights |-> NoRow]
  /\ dead = [f \in Flights |-> FALSE]
  /\ epoch = [f \in Flights |-> 0] /\ tx = [f \in Flights |-> NoTx]
  /\ owners = <<>> /\ commits = <<>>

Tick ==
  /\ clock < MaxClock
  /\ clock' = clock + 1
  /\ UNCHANGED <<row, pc, now, seen, dead, epoch, tx, owners, commits>>

-----------------------------------------------------------------------------
(* Lease.acquire.                                                           *)

\* _server_now at the start, inside the wait loop and after it.
ReadClock(f) ==
  /\ pc[f] \in {"off", "wait", "again"}
  /\ now' = [now EXCEPT ![f] = clock]
  /\ pc' = [pc EXCEPT ![f] = CASE pc[f] = "off"   -> "look"
                               [] pc[f] = "wait"  -> "poll"
                               [] pc[f] = "again" -> "recheck"]
  /\ UNCHANGED <<clock, row, seen, dead, epoch, tx, owners, commits>>

\* The first look at the row.  A service starter stands down for a fresh
\* heartbeat and waits for a stale one to expire; a batch starter refuses a
\* live row unless its owner's PID is gone from this host.
Look(f) ==
  /\ pc[f] = "look"
  /\ seen' = [seen EXCEPT ![f] = row]
  /\ \/ /\ row.state = "absent"
        /\ pc' = [pc EXCEPT ![f] = "insert"]
        /\ UNCHANGED dead
     \/ /\ row.state # "absent" /\ f \in Service
        /\ pc' = [pc EXCEPT ![f] = IF Healthy(row, now[f]) THEN "stood_down"
                                   ELSE IF Reclaimable(row, now[f]) THEN "take"
                                   ELSE "wait"]
        /\ UNCHANGED dead
     \/ /\ row.state # "absent" /\ f \in Batch
        /\ \E d \in {FALSE, pc[row.id] = "dead"} :
             /\ dead' = [dead EXCEPT ![f] = d]
             /\ pc' = [pc EXCEPT ![f] =
                         IF ~Reclaimable(row, now[f]) /\ ~d THEN "refused" ELSE "take"]
  /\ UNCHANGED <<clock, row, now, epoch, tx, owners, commits>>

\* One round of the bounded wait for a stale holder to expire.
Poll(f) ==
  /\ pc[f] = "poll"
  /\ pc' = [pc EXCEPT ![f] = IF Healthy(row, now[f]) THEN "stood_down"
                             ELSE IF Reclaimable(row, now[f]) THEN "again"
                             ELSE "wait"]
  /\ UNCHANGED <<clock, row, now, seen, dead, epoch, tx, owners, commits>>

\* The wait's own budget ran out.
WaitExhausted(f) ==
  /\ pc[f] = "wait"
  /\ pc' = [pc EXCEPT ![f] = "refused"]
  /\ ForgetsReads(f)
  /\ UNCHANGED <<clock, row, epoch, tx, owners, commits>>

\* After the wait clock and row are read once more; the row's health is not
\* decided again, the conditional update decides.
Recheck(f) ==
  /\ pc[f] = "recheck"
  /\ seen' = [seen EXCEPT ![f] = row]
  /\ pc' = [pc EXCEPT ![f] = IF row.state = "absent" THEN "off" ELSE "take"]
  /\ UNCHANGED <<clock, row, now, dead, epoch, tx, owners, commits>>

\* INSERT of the first row; its primary key lets one starter through.
Insert(f) ==
  /\ pc[f] = "insert"
  /\ epoch' = [epoch EXCEPT ![f] = 1]
  /\ \/ /\ row.state = "absent"
        /\ row' = Held(f, 1, now[f])
        /\ pc' = [pc EXCEPT ![f] = "held"]
        /\ tx' = Overtaken(f)
        /\ owners' = Append(owners, f)
     \/ /\ row.state # "absent"
        /\ GiveWay(f, clock)
        /\ UNCHANGED <<row, tx, owners>>
  /\ ForgetsReads(f)
  /\ UNCHANGED <<clock, commits>>

\* Mutant: the takeover trusts the health decision made before it.
TakeoverWithoutExpiry(f) == row.state # "absent" /\ row.epoch = seen[f].epoch

\* The WHERE clause of the takeover.
TakeoverApplies(f) ==
  /\ row.state # "absent"
  /\ row.epoch = seen[f].epoch
  /\ \/ row.state = "released"
     \/ row.expires <= now[f]
     \/ dead[f] /\ row.id = seen[f].id

\* The conditional takeover.  An uncommitted writer of the row makes it
\* retry; when the retries run out the starter fails.
Take(f) ==
  /\ pc[f] = "take"
  /\ \/ /\ ~LockedFor(f)
        /\ epoch' = [epoch EXCEPT ![f] = seen[f].epoch + 1]
        /\ pc' = [pc EXCEPT ![f] = "confirm"]
        /\ IF TakeoverApplies(f)
             THEN /\ row' = Held(f, seen[f].epoch + 1, now[f])
                  /\ tx' = Overtaken(f)
                  /\ owners' = Append(owners, f)
             ELSE UNCHANGED <<row, tx, owners>>
     \/ /\ LockedFor(f)
        /\ pc' = [pc EXCEPT ![f] = "refused"]
        /\ UNCHANGED <<epoch, row, tx, owners>>
  /\ ForgetsReads(f)
  /\ UNCHANGED <<clock, commits>>

\* The row is read back: only the winner of the race finds itself in it.
Confirm(f) ==
  /\ pc[f] = "confirm"
  /\ IF row.id = f /\ row.epoch = epoch[f]
       THEN pc' = [pc EXCEPT ![f] = "held"]
       ELSE GiveWay(f, clock)
  /\ UNCHANGED <<clock, row, now, seen, dead, epoch, tx, owners, commits>>

-----------------------------------------------------------------------------
(* Renewal on the control path (service only): clock, conditional update,   *)
(* and a check of row and clock afterwards.                                 *)

RenewClock(f) ==
  /\ f \in Service /\ pc[f] = "held"
  /\ now' = [now EXCEPT ![f] = clock]
  /\ pc' = [pc EXCEPT ![f] = "renewing"]
  /\ UNCHANGED <<clock, row, seen, dead, epoch, tx, owners, commits>>

RenewUpdate(f) ==
  /\ pc[f] = "renewing" /\ ~LockedFor(f)
  /\ pc' = [pc EXCEPT ![f] = "renewed"]
  /\ IF Matches(f, row) /\ row.expires > now[f]
       THEN /\ row' = Held(f, epoch[f], now[f])
            /\ tx' = Overtaken(f)
       ELSE UNCHANGED <<row, tx>>
  /\ now' = [now EXCEPT ![f] = 0]
  /\ UNCHANGED <<clock, seen, dead, epoch, owners, commits>>

RenewCheck(f) ==
  /\ pc[f] = "renewed"
  /\ pc' = [pc EXCEPT ![f] =
              IF Matches(f, row) /\ row.expires > clock THEN "held" ELSE "stopping"]
  /\ UNCHANGED <<clock, row, now, seen, dead, epoch, tx, owners, commits>>

-----------------------------------------------------------------------------
(* A data transaction.                                                      *)

\* commit_group of a service verifies the lease on the data connection.
AssertCurrent(f) ==
  /\ f \in Service /\ pc[f] = "held"
  /\ pc' = [pc EXCEPT ![f] =
              IF Matches(f, row) /\ row.expires > clock THEN "ready" ELSE "stopping"]
  /\ UNCHANGED <<clock, row, now, seen, dead, epoch, tx, owners, commits>>

Begin(f) ==
  /\ pc[f] = IF f \in Service THEN "ready" ELSE "held"
  /\ Len(commits) < MaxCommits
  /\ pc' = [pc EXCEPT ![f] = "txn"]
  /\ tx' = [tx EXCEPT ![f] = [open |-> TRUE, row |-> row, wrote |-> FALSE,
                              stale |-> FALSE, sent |-> FALSE, start |-> clock]]
  /\ UNCHANGED <<clock, row, now, seen, dead, epoch, owners, commits>>

\* Mutant: the fence looks at the expiry and not at the identity of the row.
FenceAnyIdentity(f) ==
  /\ pc[f] = "txn"
  /\ \E t \in tx[f].start..clock :
       IF ~tx[f].stale /\ ~LockedFor(f) /\ tx[f].row.expires > t
         THEN /\ tx' = [tx EXCEPT ![f] = [@ EXCEPT !.row = Held(f, epoch[f], t),
                                            !.wrote = TRUE]]
              /\ UNCHANGED pc
         ELSE /\ tx' = [tx EXCEPT ![f] = NoTx]
              /\ pc' = [pc EXCEPT ![f] = "stopping"]
  /\ UNCHANGED <<clock, row, now, seen, dead, epoch, owners, commits>>

\* Lease.fence inside the transaction; also every fenced mutation of it, and
\* a renewal that finds the transaction open.  The clock a transaction sees
\* lies between its start and now.
Fence(f) ==
  /\ pc[f] = "txn"
  /\ \E t \in tx[f].start..clock :
       IF /\ ~tx[f].stale /\ ~LockedFor(f)
          /\ Matches(f, tx[f].row) /\ tx[f].row.expires > t
         THEN /\ tx' = [tx EXCEPT ![f] = [@ EXCEPT !.row = Held(f, epoch[f], t),
                                            !.wrote = TRUE]]
              /\ UNCHANGED pc
         ELSE /\ tx' = [tx EXCEPT ![f] = NoTx]
              /\ pc' = [pc EXCEPT ![f] = "stopping"]
  /\ UNCHANGED <<clock, row, now, seen, dead, epoch, owners, commits>>

\* COMMIT is sent; only the server knows what becomes of it.
SendCommit(f) ==
  /\ pc[f] = "txn" /\ tx[f].wrote
  /\ pc' = [pc EXCEPT ![f] = "commit"]
  /\ tx' = [tx EXCEPT ![f] = [@ EXCEPT !.sent = TRUE]]
  /\ UNCHANGED <<clock, row, now, seen, dead, epoch, owners, commits>>

\* The server commits, whether or not the process that asked is still there.
ServerCommit(f) ==
  /\ tx[f].open /\ tx[f].sent
  /\ Len(commits) < MaxCommits
  /\ row' = tx[f].row
  /\ tx' = [Overtaken(f) EXCEPT ![f] = NoTx]
  /\ commits' = Append(commits, <<f, Len(owners)>>)
  /\ pc' = IF pc[f] = "dead" THEN pc ELSE [pc EXCEPT ![f] = "held"]
  /\ UNCHANGED <<clock, now, seen, dead, epoch, owners>>

\* The transaction is rolled back: by the server for a dead process, or by a
\* failed COMMIT.
ServerAbort(f) ==
  /\ tx[f].open /\ pc[f] \in {"commit", "dead"}
  /\ tx' = [tx EXCEPT ![f] = NoTx]
  /\ pc' = IF pc[f] = "dead" THEN pc ELSE [pc EXCEPT ![f] = "stopping"]
  /\ UNCHANGED <<clock, row, now, seen, dead, epoch, owners, commits>>

-----------------------------------------------------------------------------
\* Lease.release at teardown: a service keeps the row as `released' through
\* the fenced connection, a batch run deletes it.  A failure is swallowed.
Release(f) ==
  /\ pc[f] \in {"held", "stopping"}
  /\ pc' = [pc EXCEPT ![f] = "done"]
  /\ IF f \in Service
       THEN IF Matches(f, row) /\ row.expires > clock /\ ~LockedFor(f)
              THEN /\ row' = [Held(f, epoch[f], clock) EXCEPT !.state = "released"]
                   /\ tx' = Overtaken(f)
              ELSE UNCHANGED <<row, tx>>
       ELSE IF row.id = f /\ row.epoch = epoch[f]
              THEN row' = NoRow /\ tx' = Overtaken(f)
              ELSE UNCHANGED <<row, tx>>
  /\ epoch' = [epoch EXCEPT ![f] = 0]
  /\ UNCHANGED <<clock, now, seen, dead, owners, commits>>

\* The process dies; its transaction stays at the server.
Crash(f) ==
  /\ pc[f] \notin {"off", "stood_down", "refused", "done", "dead"}
  /\ pc' = [pc EXCEPT ![f] = "dead"]
  /\ epoch' = [epoch EXCEPT ![f] = 0]
  /\ ForgetsReads(f)
  /\ UNCHANGED <<clock, row, tx, owners, commits>>

Acquire(f) ==
  \/ ReadClock(f) \/ Look(f) \/ Poll(f) \/ WaitExhausted(f) \/ Recheck(f)
  \/ Insert(f) \/ Take(f) \/ Confirm(f)

Renew(f) == RenewClock(f) \/ RenewUpdate(f) \/ RenewCheck(f)

Write(f) ==
  \/ AssertCurrent(f) \/ Begin(f) \/ Fence(f)
  \/ SendCommit(f) \/ ServerCommit(f) \/ ServerAbort(f)

Next ==
  \/ Tick
  \/ \E f \in Flights : Acquire(f) \/ Renew(f) \/ Write(f) \/ Release(f) \/ Crash(f)

Spec == Init /\ [][Next]_vars

-----------------------------------------------------------------------------
\* Type correctness: a lease row, clock readings and epochs of every Flight,
\* and the destination transaction each one has open.
TypeOK ==
  /\ clock \in 0..MaxClock
  /\ row \in RowType
  /\ pc \in [Flights -> Holding \cup {"off", "look", "wait", "poll", "again", "recheck",
                                      "insert", "take", "confirm", "stopping", "done",
                                      "stood_down", "refused", "dead"}]
  /\ now \in [Flights -> 0..MaxClock]
  /\ seen \in [Flights -> RowType]
  /\ dead \in [Flights -> BOOLEAN]
  /\ epoch \in [Flights -> Nat]
  /\ tx \in [Flights -> [open : BOOLEAN, row : RowType, wrote : BOOLEAN,
                         stale : BOOLEAN, sent : BOOLEAN, start : 0..MaxClock]]
  /\ owners \in Seq(Flights)
  /\ commits \in Seq(Flights \X Nat)

\* A data commit only ever happens for the Flight that was written into the
\* lease row last: once a successor has taken the row over, no transaction of
\* an earlier holder commits - not one it opened before the takeover, and not
\* one whose COMMIT was in flight when its process died.
NoCommitAfterTakeover ==
  \A i \in DOMAIN commits :
    commits[i][2] \in DOMAIN owners /\ owners[commits[i][2]] = commits[i][1]

\* The row of a live holder is taken over only after the destination clock
\* passed its expiry, however old the starter's reading of that clock is; a
\* finite run may also take over from a holder whose process is dead.
TakenOverExpired ==
  \A f, g \in Flights :
    row.id = f /\ row.state = "held" /\ row'.id = g /\ g # f
      => \/ row.expires <= clock
         \/ g \in Batch /\ pc[f] = "dead"

\* An epoch has one owner: two service Flights that both believe they hold
\* the lease hold it under different epochs - unless a finite run held the row
\* between them, whose release deletes the row and starts the epochs again.
EpochHasOneOwner ==
  \A f, g \in Service :
    f # g /\ pc[f] \in Holding /\ pc[g] \in Holding /\ epoch[f] = epoch[g] =>
      \E i, j, k \in DOMAIN owners :
        /\ i < j /\ j < k
        /\ {owners[i], owners[k]} = {f, g}
        /\ owners[j] \in Batch
=============================================================================
