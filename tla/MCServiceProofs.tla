---------------------------- MODULE MCServiceProofs ----------------------------
(***************************************************************************)
(* Proofs about Lease, for any Flights, TTL, heartbeat bound and bounds on *)
(* clock and commits: no data commit of an overtaken holder, an epoch for  *)
(* every owner, and no takeover of a live row before its expiry.  Then     *)
(* what the service run checks: of the lease, for any Flights and bounds,  *)
(* of the heartbeat and of the service process.                            *)
(***************************************************************************)
EXTENDS MCService, TLAPS

Stages == Holding \cup {"off", "look", "wait", "poll", "again", "recheck", "insert",
                        "take", "confirm", "stopping", "done", "stood_down",
                        "refused", "dead"}

Txs == [open : BOOLEAN, row : RowType, wrote : BOOLEAN, stale : BOOLEAN,
        sent : BOOLEAN, start : 0..MaxClock]

\* The row names the last owner written; only a finite run leaves it absent.
OwnerInv ==
  IF row.state = "absent"
    THEN row.id = None /\ (owners = <<>> \/ owners[Len(owners)] \in Batch)
    ELSE Len(owners) > 0 /\ owners[Len(owners)] = row.id

\* An open transaction belongs to a Flight inside or dead; one that updated the
\* row did so as its holder and still locks it; one that did not, and was not
\* overtaken, has the committed row as its snapshot.
TxOK(f) == tx[f].open =>
  /\ pc[f] \in {"txn", "commit", "dead"}
  /\ tx[f].sent => tx[f].wrote
  /\ tx[f].wrote => /\ row.id = f /\ row.state = "held"
                    /\ tx[f].row.id = f /\ tx[f].row.state = "held"
                    /\ tx[f].row.epoch = row.epoch
  /\ ~tx[f].stale /\ ~tx[f].wrote => tx[f].row = row

\* A clock reading is of the past, and a holder taken for dead stays dead.
ReadOK(f) ==
  /\ now[f] <= clock
  /\ dead[f] => /\ pc[f] = "take" /\ f \in Batch
                /\ seen[f].id \in Flights /\ pc[seen[f].id] = "dead"

\* The epochs E under which the owners were written: they grow as long as no
\* finite run comes between, the row shows the last one, and a Flight that
\* believes it holds the lease was written under the epoch it remembers.
EpochsOf(E) ==
  /\ E \in Seq(Nat) /\ Len(E) = Len(owners)
  /\ \A i, j \in 1..Len(owners) :
       i < j /\ (\A k \in i..(j - 1) : owners[k] \notin Batch) => E[i] < E[j]
  /\ row.state # "absent" => E[Len(owners)] = row.epoch
  /\ \A f \in Flights : pc[f] \in Holding =>
       \E p \in 1..Len(owners) : owners[p] = f /\ E[p] = epoch[f]

TxInv == \A f \in Flights : TxOK(f)
ReadInv == \A f \in Flights : ReadOK(f)
EpochInv == \E E \in Seq(Nat) : EpochsOf(E)

IInv == TypeOK /\ OwnerInv /\ TxInv /\ ReadInv /\ EpochInv /\ NoCommitAfterTakeover

-----------------------------------------------------------------------------
(* Types.                                                                   *)

\* The records the lease and its transactions store are of their types.
LEMMA NoRowType == NoRow \in RowType
  BY LeaseAssumption DEF NoRow, RowType, Times

\* A claim or a renewal writes a row.
LEMMA HeldType ==
  ASSUME NEW f \in Flights, NEW ep \in Nat, NEW t \in 0..MaxClock
  PROVE  /\ Held(f, ep, t) \in RowType
         /\ Held(f, ep, t).id = f /\ Held(f, ep, t).state = "held"
  BY LeaseAssumption DEF Held, RowType, Times

\* A release leaves a row behind.
LEMMA ReleasedType ==
  ASSUME NEW f \in Flights, NEW ep \in Nat, NEW t \in 0..MaxClock
  PROVE  /\ [Held(f, ep, t) EXCEPT !.state = "released"] \in RowType
         /\ [Held(f, ep, t) EXCEPT !.state = "released"].id = f
         /\ [Held(f, ep, t) EXCEPT !.state = "released"].state = "released"
  BY LeaseAssumption DEF Held, RowType, Times

\* No transaction is a closed one.
LEMMA NoTxType == NoTx \in Txs /\ NoTx.open = FALSE
  BY LeaseAssumption, NoRowType DEF NoTx, Txs

\* A transaction stays one when another Flight writes the row.
LEMMA OvertakenType ==
  ASSUME TypeOK, NEW f \in Flights
  PROVE  /\ Overtaken(f) \in [Flights -> Txs]
         /\ Overtaken(f)[f] = tx[f]
         /\ \A g \in Flights \ {f} :
              /\ Overtaken(f)[g].open = tx[g].open
              /\ Overtaken(f)[g].wrote = tx[g].wrote
              /\ Overtaken(f)[g].sent = tx[g].sent
              /\ Overtaken(f)[g].row = tx[g].row
              /\ tx[g].open => Overtaken(f)[g].stale
  <1>1. tx \in [Flights -> Txs]
    BY Zenon DEF TypeOK, Txs
  <1>2. ASSUME NEW x \in Txs PROVE [x EXCEPT !.stale = TRUE] \in Txs
    BY <1>2, Zenon DEF Txs
  <1> QED BY <1>1, <1>2, Zenon DEF Overtaken, Txs

\* BEGIN opens a transaction on the row it sees.
LEMMA OpenType ==
  ASSUME TypeOK
  PROVE  [open |-> TRUE, row |-> row, wrote |-> FALSE, stale |-> FALSE,
          sent |-> FALSE, start |-> clock] \in Txs
  BY Zenon DEF TypeOK, Txs

\* What the type invariant says of each variable.
LEMMA TypeForm ==
  TypeOK <=> /\ clock \in 0..MaxClock /\ row \in RowType
             /\ pc \in [Flights -> Stages] /\ now \in [Flights -> 0..MaxClock]
             /\ seen \in [Flights -> RowType] /\ dead \in [Flights -> BOOLEAN]
             /\ epoch \in [Flights -> Nat] /\ tx \in [Flights -> Txs]
             /\ owners \in Seq(Flights) /\ commits \in Seq(Flights \X Nat)
  BY Zenon DEF TypeOK, Stages, Txs

\* What acquire forgets is well typed.
LEMMA ForgetsType ==
  ASSUME TypeOK, NEW f \in Flights, ForgetsReads(f)
  PROVE  /\ now' \in [Flights -> 0..MaxClock] /\ seen' \in [Flights -> RowType]
         /\ dead' \in [Flights -> BOOLEAN]
  BY LeaseAssumption, NoRowType, TypeForm DEF ForgetsReads

\* Each step of a Flight keeps the types.
LEMMA TypeStep ==
  ASSUME TypeOK, NEW f \in Flights,
         Acquire(f) \/ Renew(f) \/ Write(f) \/ Release(f) \/ Crash(f)
  PROVE  TypeOK'
  <1> SUFFICES /\ clock' \in 0..MaxClock /\ row' \in RowType
               /\ pc' \in [Flights -> Stages] /\ now' \in [Flights -> 0..MaxClock]
               /\ seen' \in [Flights -> RowType] /\ dead' \in [Flights -> BOOLEAN]
               /\ epoch' \in [Flights -> Nat] /\ tx' \in [Flights -> Txs]
               /\ owners' \in Seq(Flights) /\ commits' \in Seq(Flights \X Nat)
    BY Zenon DEF TypeOK, Stages, Txs
  <1>1. CASE ReadClock(f)
    BY <1>1, TypeForm, LeaseAssumption, Zenon DEF ReadClock, Stages, Holding
  <1>2. CASE Look(f)
    BY <1>2, TypeForm, LeaseAssumption, ZenonT(30) DEF Look, Stages, Holding
  <1>3. CASE Poll(f)
    BY <1>3, TypeForm, LeaseAssumption, Zenon DEF Poll, Stages, Holding
  <1>4. CASE WaitExhausted(f)
    BY <1>4, TypeForm, LeaseAssumption, ForgetsType, Zenon DEF WaitExhausted, Stages, Holding
  <1>5. CASE Recheck(f)
    BY <1>5, TypeForm, LeaseAssumption, Zenon DEF Recheck, Stages, Holding
  <1>6. CASE Insert(f)
    <2>1. /\ now' \in [Flights -> 0..MaxClock] /\ seen' \in [Flights -> RowType]
          /\ dead' \in [Flights -> BOOLEAN] /\ UNCHANGED <<clock, commits>>
      BY <1>6, ForgetsType, Zenon DEF Insert
    <2>2. row' \in RowType /\ tx' \in [Flights -> Txs]
      <3>1. Held(f, 1, now[f]) \in RowType BY HeldType, TypeForm, Zenon
      <3> QED BY <1>6, <3>1, TypeForm, OvertakenType DEF Insert
    <2>3. pc' \in [Flights -> Stages] /\ epoch' \in [Flights -> Nat]
      BY <1>6, TypeForm, Zenon DEF Insert, GiveWay, Stages, Holding
    <2>4. owners' \in Seq(Flights)
      <3>1. Append(owners, f) \in Seq(Flights) BY TypeForm
      <3> QED BY <1>6, <3>1, TypeForm, Zenon DEF Insert
    <2> QED BY <2>1, <2>2, <2>3, <2>4, TypeForm, Zenon
  <1>7. CASE Take(f)
    <2>1. /\ now' \in [Flights -> 0..MaxClock] /\ seen' \in [Flights -> RowType]
          /\ dead' \in [Flights -> BOOLEAN] /\ UNCHANGED <<clock, commits>>
      BY <1>7, ForgetsType, Zenon DEF Take
    <2>2. seen[f].epoch + 1 \in Nat
      BY TypeForm DEF RowType
    <2>3. row' \in RowType /\ tx' \in [Flights -> Txs]
      <3>1. Held(f, seen[f].epoch + 1, now[f]) \in RowType BY <2>2, HeldType, TypeForm, Zenon
      <3> QED BY <1>7, <3>1, TypeForm, OvertakenType, SMTT(30) DEF Take
    <2>4. pc' \in [Flights -> Stages] /\ epoch' \in [Flights -> Nat]
      BY <1>7, <2>2, TypeForm, ZenonT(30) DEF Take, Stages
    <2>5. owners' \in Seq(Flights)
      <3>1. Append(owners, f) \in Seq(Flights) BY TypeForm
      <3> QED BY <1>7, <3>1, TypeForm, Zenon DEF Take
    <2> QED BY <2>1, <2>3, <2>4, <2>5, TypeForm, Zenon
  <1>8. CASE Confirm(f)
    BY <1>8, TypeForm, LeaseAssumption, ZenonT(30) DEF Confirm, Stages, Holding, GiveWay
  <1>9. CASE RenewClock(f)
    BY <1>9, TypeForm, LeaseAssumption, Zenon DEF RenewClock, Stages, Holding
  <1>10. CASE RenewUpdate(f)
    BY <1>10, TypeForm, LeaseAssumption, HeldType, OvertakenType, SMTT(30) DEF RenewUpdate, Stages, Holding
  <1>11. CASE RenewCheck(f)
    BY <1>11, TypeForm, LeaseAssumption, Zenon DEF RenewCheck, Stages, Holding
  <1>12. CASE AssertCurrent(f)
    BY <1>12, TypeForm, LeaseAssumption, Zenon DEF AssertCurrent, Stages, Holding
  <1>13. CASE Begin(f)
    BY <1>13, TypeForm, LeaseAssumption, OpenType, Zenon DEF Begin, Stages, Holding
  <1>14. CASE Fence(f)
    <2>1. PICK t \in tx[f].start..clock :
            \/ /\ tx' = [tx EXCEPT ![f] = [tx[f] EXCEPT !.row = Held(f, epoch[f], t),
                                                       !.wrote = TRUE]]
               /\ UNCHANGED pc
            \/ /\ tx' = [tx EXCEPT ![f] = NoTx]
               /\ pc' = [pc EXCEPT ![f] = "stopping"]
      BY <1>14, Zenon DEF Fence
    <2>2. /\ tx[f] \in Txs
          /\ clock \in 0..MaxClock
          /\ epoch[f] \in Nat
      BY TypeForm, Zenon
    <2>7. t \in 0..MaxClock
      <3>1. tx[f].start \in 0..MaxClock
        BY <2>2, Zenon DEF Txs
      <3> QED
        BY <2>2, <3>1, LeaseAssumption
    <2>3. [tx[f] EXCEPT !.row = Held(f, epoch[f], t), !.wrote = TRUE] \in Txs
      <3>1. Held(f, epoch[f], t) \in RowType
        BY <2>2, <2>7, HeldType, Zenon
      <3> QED
        BY <2>2, <3>1, Zenon DEF Txs
    <2>4. tx' \in [Flights -> Txs]
      BY <2>1, <2>3, NoTxType, TypeForm, Zenon
    <2>5. pc' \in [Flights -> Stages]
      BY <2>1, TypeForm, Zenon DEF Stages
    <2> QED BY <1>14, <2>4, <2>5, TypeForm, Zenon DEF Fence
  <1>15. CASE SendCommit(f)
    <2>1. [tx[f] EXCEPT !.sent = TRUE] \in Txs
      BY TypeForm, ZenonT(30) DEF Txs
    <2>2. tx' \in [Flights -> Txs]
      BY <1>15, <2>1, TypeForm, Zenon DEF SendCommit
    <2> QED BY <1>15, <2>2, TypeForm, Zenon DEF SendCommit, Stages, Holding
  <1>16. CASE ServerCommit(f)
    <2>1. row' \in RowType
      BY <1>16, TypeForm, Zenon DEF ServerCommit, Txs
    <2>2. tx' \in [Flights -> Txs]
      BY <1>16, NoTxType, OvertakenType, Zenon DEF ServerCommit
    <2>3. commits' \in Seq(Flights \X Nat)
      BY <1>16, TypeForm DEF ServerCommit
    <2>4. pc' \in [Flights -> Stages]
      BY <1>16, TypeForm, Zenon DEF ServerCommit, Stages, Holding
    <2> QED BY <1>16, <2>1, <2>2, <2>3, <2>4, TypeForm, Zenon DEF ServerCommit
  <1>17. CASE ServerAbort(f)
    BY <1>17, TypeForm, LeaseAssumption, NoTxType, Zenon DEF ServerAbort, Stages, Holding
  <1>18. CASE Release(f)
    BY <1>18, TypeForm, LeaseAssumption, NoRowType, ReleasedType, OvertakenType, SMTT(30) DEF Release, Stages, Holding
  <1>19. CASE Crash(f)
    BY <1>19, TypeForm, LeaseAssumption, ForgetsType, Zenon DEF Crash, Stages, Holding
  <1> QED
    BY <1>1, <1>2, <1>3, <1>4, <1>5, <1>6, <1>7, <1>8, <1>9, <1>10, <1>11, <1>12, <1>13, <1>14, <1>15, <1>16, <1>17, <1>18, <1>19, Zenon DEF Acquire, Renew, Write

-----------------------------------------------------------------------------
(* Who may write the row.                                                   *)

\* A Flight with an uncommitted update of the row excludes every other writer:
\* the row is there, it names this Flight, and the update blocks the others.
LEMMA OneWriter ==
  ASSUME TypeOK, TxInv, NEW f \in Flights, NEW g \in Flights, g # f,
         row.state = "absent" \/ row.id = f \/ ~LockedFor(f)
  PROVE  ~(tx[g].open /\ tx[g].wrote)
  BY Zenon DEF TxInv, TxOK, LockedFor

\* A step that writes the row as f, or deletes it, overtakes every other open
\* transaction.
LEMMA OvertakenOK ==
  ASSUME TypeOK, TxInv, NEW f \in Flights, NEW g \in Flights, g # f,
         row.state = "absent" \/ row.id = f \/ ~LockedFor(f),
         tx'[g] = Overtaken(f)[g], pc'[g] = pc[g]
  PROVE  TxOK(g)'
  <1>1. ~(tx[g].open /\ tx[g].wrote)
    BY OneWriter, Zenon
  <1>2. /\ tx'[g].open = tx[g].open /\ tx'[g].wrote = tx[g].wrote
        /\ tx'[g].sent = tx[g].sent
        /\ tx[g].open => tx'[g].stale
    BY OvertakenType
  <1>3. TxOK(g)
    BY Zenon DEF TxInv
  <1> QED BY <1>1, <1>2, <1>3, Zenon DEF TxOK

\* A step that leaves row and transaction alone.
LEMMA SameTxOK ==
  ASSUME TxInv, NEW g \in Flights, UNCHANGED row, tx'[g] = tx[g],
         pc'[g] = pc[g] \/ pc'[g] = "dead"
  PROVE  TxOK(g)'
  BY DEF TxInv, TxOK

\* Outside a data transaction nothing is open.
LEMMA ClosedTx ==
  ASSUME TxInv, NEW f \in Flights, pc[f] \notin {"txn", "commit", "dead"}
  PROVE  ~tx[f].open
  BY Zenon DEF TxInv, TxOK

\* The steps that touch neither the row nor a transaction.
LEMMA QuietTx ==
  ASSUME TxInv, NEW f \in Flights, UNCHANGED <<row, tx>>,
         \A g \in Flights \ {f} : pc'[g] = pc[g],
         pc[f] \notin {"txn", "commit", "dead"} \/ pc'[f] = "dead"
  PROVE  TxInv'
  <1>1. ASSUME NEW g \in Flights \ {f} PROVE TxOK(g)'
    BY <1>1, SameTxOK, Zenon
  <1>2. TxOK(f)'
    <2>1. CASE pc'[f] = "dead"
      BY <2>1, SameTxOK, Zenon
    <2>2. CASE pc[f] \notin {"txn", "commit", "dead"}
      BY <2>2, ClosedTx, Zenon DEF TxOK
    <2> QED BY <2>1, <2>2, Zenon
  <1> QED BY <1>1, <1>2, Zenon DEF TxInv

\* The steps that write or delete the row outside a transaction.
LEMMA WritingTx ==
  ASSUME TypeOK, TxInv, NEW f \in Flights, pc[f] \notin {"txn", "commit", "dead"},
         row.state = "absent" \/ row.id = f \/ ~LockedFor(f),
         tx' = Overtaken(f), \A g \in Flights \ {f} : pc'[g] = pc[g]
  PROVE  TxInv'
  <1>1. ASSUME NEW g \in Flights \ {f} PROVE TxOK(g)'
    BY <1>1, OvertakenOK, Zenon
  <1>2. TxOK(f)'
    BY ClosedTx, OvertakenType, Zenon DEF TxOK
  <1> QED BY <1>1, <1>2, Zenon DEF TxInv

\* Each step of a Flight keeps what is known of the open transactions.
LEMMA TxStep ==
  ASSUME TypeOK, TxInv, NEW f \in Flights,
         Acquire(f) \/ Renew(f) \/ Write(f) \/ Release(f) \/ Crash(f)
  PROVE  TxInv'
  <1>0. /\ pc \in [Flights -> Stages] /\ tx \in [Flights -> Txs]
        /\ tx[f] \in Txs
    BY TypeForm, Zenon
  <1>1. CASE ReadClock(f)
    BY <1>0, <1>1, QuietTx, Zenon DEF ReadClock
  <1>2. CASE Look(f)
    BY <1>0, <1>2, QuietTx, Zenon DEF Look
  <1>3. CASE Poll(f)
    BY <1>0, <1>3, QuietTx, Zenon DEF Poll
  <1>4. CASE WaitExhausted(f)
    BY <1>0, <1>4, QuietTx, Zenon DEF WaitExhausted
  <1>5. CASE Recheck(f)
    BY <1>0, <1>5, QuietTx, Zenon DEF Recheck
  <1>6. CASE Insert(f)
    <2>1. \A g \in Flights \ {f} : pc'[g] = pc[g]
      BY <1>0, <1>6, Zenon DEF Insert, GiveWay
    <2>2. pc[f] = "insert"
      BY <1>6, Zenon DEF Insert
    <2>3. CASE row.state = "absent"
      BY <1>6, <2>1, <2>2, <2>3, WritingTx, Zenon DEF Insert
    <2>4. CASE row.state # "absent"
      BY <1>6, <2>1, <2>2, <2>4, QuietTx, Zenon DEF Insert
    <2> QED BY <2>3, <2>4, Zenon
  <1>7. CASE Take(f)
    <2>1. \A g \in Flights \ {f} : pc'[g] = pc[g]
      BY <1>0, <1>7, Zenon DEF Take
    <2>2. pc[f] = "take"
      BY <1>7, Zenon DEF Take
    <2>3. CASE ~LockedFor(f) /\ TakeoverApplies(f)
      BY <1>7, <2>1, <2>2, <2>3, WritingTx, Zenon DEF Take
    <2>4. CASE ~(~LockedFor(f) /\ TakeoverApplies(f))
      <3>1. UNCHANGED <<row, tx>>
        BY <1>7, <2>4, Zenon DEF Take
      <3> QED BY <2>1, <2>2, <3>1, QuietTx, Zenon
    <2> QED BY <2>3, <2>4, Zenon
  <1>8. CASE Confirm(f)
    BY <1>0, <1>8, QuietTx, Zenon DEF Confirm, GiveWay
  <1>9. CASE RenewClock(f)
    BY <1>0, <1>9, QuietTx, Zenon DEF RenewClock
  <1>10. CASE RenewUpdate(f)
    <2>1. \A g \in Flights \ {f} : pc'[g] = pc[g]
      BY <1>0, <1>10, Zenon DEF RenewUpdate
    <2>2. pc[f] = "renewing" /\ ~LockedFor(f)
      BY <1>10, Zenon DEF RenewUpdate
    <2>3. tx' = Overtaken(f) \/ UNCHANGED <<row, tx>>
      BY <1>10, Zenon DEF RenewUpdate
    <2> QED BY <2>1, <2>2, <2>3, WritingTx, QuietTx, Zenon
  <1>11. CASE RenewCheck(f)
    BY <1>0, <1>11, QuietTx, Zenon DEF RenewCheck
  <1>12. CASE AssertCurrent(f)
    BY <1>0, <1>12, QuietTx, Zenon DEF AssertCurrent
  <1>13. CASE Begin(f)
    <2>1. ASSUME NEW g \in Flights \ {f} PROVE TxOK(g)'
      BY <1>0, <1>13, <2>1, SameTxOK, Zenon DEF Begin
    <2>2. TxOK(f)'
      BY <1>0, <1>13, Zenon DEF Begin, TxOK
    <2> QED BY <2>1, <2>2, Zenon DEF TxInv
  <1>14. CASE Fence(f)
    <2>1. ASSUME NEW g \in Flights \ {f} PROVE TxOK(g)'
      BY <1>0, <1>14, <2>1, SameTxOK, Zenon DEF Fence
    <2>2. TxOK(f)'
      <3>1. PICK t \in tx[f].start..clock :
              \/ /\ ~tx[f].stale /\ ~LockedFor(f)
                 /\ Matches(f, tx[f].row) /\ tx[f].row.expires > t
                 /\ tx' = [tx EXCEPT ![f] = [tx[f] EXCEPT !.row = Held(f, epoch[f], t),
                                                         !.wrote = TRUE]]
                 /\ UNCHANGED pc
              \/ tx' = [tx EXCEPT ![f] = NoTx]
        BY <1>14, ZenonT(30) DEF Fence
      <3>2. CASE tx' = [tx EXCEPT ![f] = NoTx]
        BY <1>0, <3>2, NoTxType, Zenon DEF TxOK
      <3>3. CASE ~(tx' = [tx EXCEPT ![f] = NoTx])
        <4>1. /\ tx'[f] = [tx[f] EXCEPT !.row = Held(f, epoch[f], t), !.wrote = TRUE]
              /\ pc[f] = "txn" /\ pc'[f] = "txn" /\ row' = row
          BY <1>0, <1>14, <3>1, <3>3, Zenon DEF Fence
        <4>2. /\ tx'[f].open = tx[f].open /\ tx'[f].row = Held(f, epoch[f], t)
          BY <1>0, <4>1, Zenon DEF Txs
        <4>3. /\ Held(f, epoch[f], t).id = f /\ Held(f, epoch[f], t).epoch = epoch[f]
              /\ Held(f, epoch[f], t).state = "held"
          BY Zenon DEF Held
        <4>4. tx[f].open => row.id = f /\ row.state = "held" /\ row.epoch = epoch[f]
          <5>1. /\ tx[f].row.id = f /\ tx[f].row.epoch = epoch[f]
                /\ tx[f].row.state = "held"
                /\ ~tx[f].stale
            BY <3>1, <3>3, Zenon DEF Matches
          <5> QED BY <5>1, Zenon DEF TxInv, TxOK
        <4>5. tx'[f].wrote
          BY <1>0, <4>1, Zenon DEF Txs
        <4> QED BY <4>1, <4>2, <4>3, <4>4, <4>5, Zenon DEF TxOK
      <3> QED BY <3>2, <3>3, Zenon
    <2> QED BY <2>1, <2>2, Zenon DEF TxInv
  <1>15. CASE SendCommit(f)
    <2>1. ASSUME NEW g \in Flights \ {f} PROVE TxOK(g)'
      BY <1>0, <1>15, <2>1, SameTxOK, Zenon DEF SendCommit
    <2>2. TxOK(f)'
      <3>1. /\ tx'[f] = [tx[f] EXCEPT !.sent = TRUE]
            /\ pc'[f] = "commit" /\ row' = row /\ tx[f].wrote
        BY <1>0, <1>15, Zenon DEF SendCommit
      <3>2. /\ tx'[f].open = tx[f].open /\ tx'[f].row = tx[f].row
            /\ tx'[f].wrote = tx[f].wrote /\ tx'[f].stale = tx[f].stale
        BY <1>0, <3>1, ZenonT(30) DEF Txs
      <3> QED BY <3>1, <3>2 DEF TxInv, TxOK
    <2> QED BY <2>1, <2>2, Zenon DEF TxInv
  <1>16. CASE ServerCommit(f)
    <2>1. row.id = f
      BY <1>16, Zenon DEF ServerCommit, TxInv, TxOK
    <2>2. tx'[f] = NoTx /\ \A g \in Flights \ {f} : tx'[g] = Overtaken(f)[g]
      BY <1>16, OvertakenType, Zenon DEF ServerCommit
    <2>3. \A g \in Flights \ {f} : pc'[g] = pc[g]
      BY <1>0, <1>16, Zenon DEF ServerCommit
    <2>4. ASSUME NEW g \in Flights \ {f} PROVE TxOK(g)'
      BY <2>1, <2>2, <2>3, <2>4, OvertakenOK, Zenon
    <2>5. TxOK(f)'
      BY <2>2, NoTxType, Zenon DEF TxOK
    <2> QED BY <2>4, <2>5, Zenon DEF TxInv
  <1>17. CASE ServerAbort(f)
    <2>1. ASSUME NEW g \in Flights \ {f} PROVE TxOK(g)'
      BY <1>0, <1>17, <2>1, SameTxOK, Zenon DEF ServerAbort
    <2>2. TxOK(f)'
      BY <1>0, <1>17, NoTxType, Zenon DEF ServerAbort, TxOK
    <2> QED BY <2>1, <2>2, Zenon DEF TxInv
  <1>18. CASE Release(f)
    <2>1. \A g \in Flights \ {f} : pc'[g] = pc[g]
      BY <1>0, <1>18, Zenon DEF Release
    <2>2. pc[f] \in {"held", "stopping"}
      BY <1>18, Zenon DEF Release
    <2>3. \/ tx' = Overtaken(f) /\ (row.id = f \/ ~LockedFor(f))
          \/ UNCHANGED <<row, tx>>
      BY <1>18, Zenon DEF Release
    <2> QED BY <2>1, <2>2, <2>3, WritingTx, QuietTx, Zenon
  <1>19. CASE Crash(f)
    BY <1>0, <1>19, QuietTx, Zenon DEF Crash
  <1> QED
    BY <1>1, <1>2, <1>3, <1>4, <1>5, <1>6, <1>7, <1>8, <1>9, <1>10, <1>11, <1>12,
       <1>13, <1>14, <1>15, <1>16, <1>17, <1>18, <1>19, Zenon DEF Acquire, Renew, Write

-----------------------------------------------------------------------------
(* What a step does to the row.                                             *)

\* The row is claimed under a new epoch, which exceeds the one it showed.
Claims(f) ==
  \E e \in Nat, t \in 0..MaxClock :
    /\ row' = Held(f, e, t) /\ owners' = Append(owners, f)
    /\ epoch' = [epoch EXCEPT ![f] = e]
    /\ row.state # "absent" => row.epoch < e
    /\ \A g \in Flights \ {f} : pc'[g] = pc[g]
    /\ UNCHANGED commits

\* The row keeps its owner and its epoch.
Keeps ==
  /\ UNCHANGED owners
  /\ row'.id = row.id /\ row'.epoch = row.epoch
  /\ (row'.state = "absent") = (row.state = "absent")

\* A finite run deletes its row.
Deletes(f) ==
  /\ UNCHANGED owners /\ row' = NoRow /\ row.id = f /\ f \in Batch

\* Those are all the things a step does to the row.
LEMMA RowStep ==
  ASSUME TypeOK, OwnerInv, TxInv, NEW f \in Flights,
         Acquire(f) \/ Renew(f) \/ Write(f) \/ Release(f) \/ Crash(f)
  PROVE  Keeps \/ Deletes(f) \/ (Claims(f) /\ (Insert(f) \/ Take(f)))
  <1>0. /\ row \in RowType /\ now[f] \in 0..MaxClock /\ seen[f] \in RowType
        /\ pc \in [Flights -> Stages] /\ clock \in 0..MaxClock
        /\ seen[f].epoch \in Nat /\ row.epoch \in Nat /\ epoch[f] \in Nat
    BY TypeForm, Zenon DEF RowType
  <1>1. CASE UNCHANGED <<row, owners>>
    BY <1>1, Zenon DEF Keeps
  <1>2. CASE Insert(f)
    <2>1. CASE row.state = "absent"
      BY <1>0, <1>2, <2>1, Zenon DEF Insert, Claims
    <2>2. CASE row.state # "absent"
      BY <1>2, <2>2, Zenon DEF Insert, Keeps
    <2> QED BY <2>1, <2>2, Zenon
  <1>3. CASE Take(f)
    <2>1. CASE ~LockedFor(f) /\ TakeoverApplies(f)
      <3>1. row.epoch = seen[f].epoch
        BY <2>1, Zenon DEF TakeoverApplies
      <3>2. seen[f].epoch + 1 \in Nat /\ row.epoch < seen[f].epoch + 1
        BY <1>0, <3>1
      <3> QED BY <1>0, <1>3, <2>1, <3>2, Zenon DEF Take, Claims
    <2>2. CASE ~(~LockedFor(f) /\ TakeoverApplies(f))
      BY <1>3, <2>2, Zenon DEF Take, Keeps
    <2> QED BY <2>1, <2>2, Zenon
  <1>4. CASE RenewUpdate(f)
    BY <1>4, SMTT(30) DEF RenewUpdate, Keeps, Matches, Held
  <1>5. CASE ServerCommit(f)
    BY <1>5 DEF ServerCommit, Keeps, TxInv, TxOK
  <1>6. CASE Release(f)
    <2>1. CASE f \in Service
      BY <1>6, <2>1, Zenon DEF Release, Keeps, Matches, Held
    <2>2. CASE f \notin Service
      BY <1>6, <2>2, Zenon DEF Release, Keeps, Deletes, Flights
    <2> QED BY <2>1, <2>2, Zenon
  <1> QED
    BY <1>1, <1>2, <1>3, <1>4, <1>5, <1>6, ZenonT(30)
    DEF Acquire, Renew, Write, ReadClock, Look, Poll, WaitExhausted, Recheck, Confirm,
        RenewClock, RenewCheck, AssertCurrent, Begin, Fence, SendCommit, ServerAbort,
        Crash

\* The row still names the last owner written.
LEMMA OwnerStep ==
  ASSUME TypeOK, OwnerInv, NEW f \in Flights,
         Keeps \/ Deletes(f) \/ Claims(f)
  PROVE  OwnerInv'
  <1>0. owners \in Seq(Flights) /\ row \in RowType
    BY TypeForm, Zenon
  <1>1. CASE Keeps
    BY <1>1, Zenon DEF Keeps, OwnerInv
  <1>2. CASE Deletes(f)
    <2>1. row.id # None
      BY <1>2, LeaseAssumption, Zenon DEF Deletes
    <2>2. owners[Len(owners)] = f
      BY <1>2, <2>1, Zenon DEF Deletes, OwnerInv
    <2> QED BY <1>2, <2>2, Zenon DEF Deletes, OwnerInv, NoRow
  <1>3. CASE Claims(f)
    <2>1. owners' = Append(owners, f) /\ row'.id = f /\ row'.state = "held"
      BY <1>3 DEF Claims, Held
    <2>2. Len(owners') > 0 /\ owners'[Len(owners')] = f
      BY <1>0, <2>1
    <2> QED BY <2>1, <2>2, Zenon DEF OwnerInv
  <1> QED BY <1>1, <1>2, <1>3, Zenon

\* Data commits stay with the owner they were made under.
LEMMA CommitStep ==
  ASSUME TypeOK, OwnerInv, TxInv, NoCommitAfterTakeover, NEW f \in Flights,
         Acquire(f) \/ Renew(f) \/ Write(f) \/ Release(f) \/ Crash(f)
  PROVE  NoCommitAfterTakeover'
  <1>0. /\ owners \in Seq(Flights) /\ commits \in Seq(Flights \X Nat)
    BY TypeForm, Zenon
  <1>1. CASE ServerCommit(f)
    <2>1. row.id = f /\ row.state = "held"
      BY <1>1, Zenon DEF ServerCommit, TxInv, TxOK
    <2>2. Len(owners) > 0 /\ owners[Len(owners)] = f
      BY <2>1, Zenon DEF OwnerInv
    <2>3. owners' = owners /\ commits' = Append(commits, <<f, Len(owners)>>)
      BY <1>1, Zenon DEF ServerCommit
    <2>4. ASSUME NEW i \in DOMAIN commits'
          PROVE  /\ commits'[i][2] \in DOMAIN owners
                 /\ owners[commits'[i][2]] = commits'[i][1]
      <3>1. CASE i = Len(commits) + 1
        <4>1. commits'[i] = <<f, Len(owners)>>
          BY <1>0, <2>3, <3>1
        <4>2. Len(owners) \in DOMAIN owners
          BY <1>0, <2>2
        <4> QED BY <2>2, <4>1, <4>2
      <3>2. CASE i # Len(commits) + 1
        <4>1. i \in DOMAIN commits /\ commits'[i] = commits[i]
          BY <1>0, <2>3, <2>4, <3>2
        <4> QED BY <4>1, Zenon DEF NoCommitAfterTakeover
      <3> QED BY <3>1, <3>2, Zenon
    <2> QED BY <2>3, <2>4, Zenon DEF NoCommitAfterTakeover
  <1>2. CASE ~ServerCommit(f)
    <2>1. commits' = commits
      BY <1>2, ZenonT(30)
      DEF Acquire, Renew, Write, ReadClock, Look, Poll, WaitExhausted, Recheck, Confirm,
          Insert, Take, RenewClock, RenewUpdate, RenewCheck, AssertCurrent, Begin, Fence,
          SendCommit, ServerAbort, Release, Crash
    <2>2. owners' = owners \/ owners' = Append(owners, f)
      BY RowStep, Zenon DEF Keeps, Deletes, Claims
    <2>3. \A n \in DOMAIN owners : n \in DOMAIN owners' /\ owners'[n] = owners[n]
      BY <1>0, <2>2, SMTT(30)
    <2> QED BY <2>1, <2>3, Zenon DEF NoCommitAfterTakeover
  <1> QED BY <1>1, <1>2, Zenon

-----------------------------------------------------------------------------
(* Epochs.                                                                  *)

\* Who believes it holds the lease: whoever did and still remembers its epoch,
\* and a starter that has just claimed the row or found itself in it.
LEMMA HoldStep ==
  ASSUME TypeOK, TxInv, NEW f \in Flights,
         Acquire(f) \/ Renew(f) \/ Write(f) \/ Release(f) \/ Crash(f),
         NEW g \in Flights, pc'[g] \in Holding
  PROVE  \/ pc[g] \in Holding /\ epoch'[g] = epoch[g]
         \/ g = f /\ row.state = "absent" /\ Insert(f)
         \/ /\ g = f /\ row.id = f /\ row.epoch = epoch[f]
            /\ UNCHANGED <<row, owners, epoch>>
  <1>0. pc \in [Flights -> Stages] /\ epoch \in [Flights -> Nat]
    BY TypeForm, Zenon
  <1>1. CASE g # f
    BY <1>0, <1>1, ZenonT(30)
    DEF Acquire, Renew, Write, ReadClock, Look, Poll, WaitExhausted, Recheck, Confirm,
        Insert, Take, GiveWay, RenewClock, RenewUpdate, RenewCheck, AssertCurrent, Begin,
        Fence, SendCommit, ServerCommit, ServerAbort, Release, Crash
  <1>2. CASE g = f
    <2>1. CASE Acquire(f)
      <3>1. CASE ReadClock(f) \/ Look(f) \/ Poll(f) \/ WaitExhausted(f) \/ Recheck(f)
        BY <1>0, <1>2, <3>1
        DEF ReadClock, Look, Poll, WaitExhausted, Recheck, GiveWay, Holding
      <3>2. CASE Insert(f) \/ Take(f) \/ Confirm(f)
        BY <1>0, <1>2, <3>2 DEF Insert, Take, Confirm, GiveWay, Holding
      <3> QED BY <2>1, <3>1, <3>2, Zenon DEF Acquire
    <2>2. CASE Renew(f)
      BY <1>0, <1>2, <2>2, ZenonT(30) DEF Renew, RenewClock, RenewUpdate, RenewCheck, Holding
    <2>3. CASE Write(f)
      <3>1. epoch' = epoch
        BY <2>3, ZenonT(30)
        DEF Write, AssertCurrent, Begin, Fence, SendCommit, ServerCommit, ServerAbort
      <3>2. CASE ServerCommit(f)
        <4>1. pc[f] \in {"txn", "commit", "dead"}
          BY <3>2, ZenonT(30) DEF ServerCommit, TxInv, TxOK
        <4> QED BY <1>0, <1>2, <3>1, <3>2, <4>1, ZenonT(30) DEF ServerCommit, Holding
      <3>3. CASE ServerAbort(f)
        BY <1>0, <1>2, <3>3, Zenon DEF ServerAbort, Holding
      <3>4. CASE ~ServerCommit(f) /\ ~ServerAbort(f)
        BY <1>0, <1>2, <2>3, <3>1, <3>4, ZenonT(30)
        DEF Write, AssertCurrent, Begin, Fence, SendCommit, Holding
      <3> QED BY <3>2, <3>3, <3>4, Zenon
    <2>4. CASE Release(f) \/ Crash(f)
      BY <1>0, <1>2, <2>4, Zenon DEF Release, Crash, Holding
    <2> QED BY <2>1, <2>2, <2>3, <2>4, Zenon
  <1> QED BY <1>1, <1>2, Zenon

\* A claim continues the epochs: behind a finite run they may start again,
\* otherwise the new one exceeds the row's and with it every earlier one.
LEMMA ClaimedEpochs ==
  ASSUME TypeOK, OwnerInv, NEW f \in Flights, NEW E \in Seq(Nat), EpochsOf(E),
         NEW e \in Nat, row.state # "absent" => row.epoch < e,
         owners' = Append(owners, f),
         NEW i \in 1..Len(owners'), NEW j \in 1..Len(owners'), i < j,
         \A k \in i..(j - 1) : owners'[k] \notin Batch
  PROVE  Append(E, e)[i] < Append(E, e)[j]
  <1> DEFINE n == Len(owners)
  <1>a. owners \in Seq(Flights) /\ E \in Seq(Nat) /\ Len(E) = n
    BY TypeForm, Zenon DEF EpochsOf
  <1>b. n \in Nat /\ Len(owners') = n + 1
    BY <1>a
  <1>c. \A k \in 1..n : owners'[k] = owners[k]
    BY <1>a
  <1>d. \A k \in 1..n : Append(E, e)[k] = E[k] /\ E[k] \in Nat
    BY <1>a
  <1>e. Append(E, e)[n + 1] = e
    <2>1. Append(E, e)[Len(E) + 1] = e
      OBVIOUS
    <2> QED BY <1>a, <2>1, Zenon
  <1>0. /\ owners \in Seq(Flights) /\ n \in Nat /\ Len(E) = n
        /\ Len(owners') = n + 1
        /\ \A k \in 1..n : owners'[k] = owners[k] /\ Append(E, e)[k] = E[k]
        /\ Append(E, e)[n + 1] = e
        /\ \A k \in 1..n : E[k] \in Nat
    BY <1>a, <1>b, <1>c, <1>d, <1>e, Zenon
  <1>1. i \in 1..n /\ (j \in 1..n \/ j = n + 1)
    <2> HIDE DEF n
    <2> QED BY <1>b
  <1>2. CASE j \in 1..n
    <2>1. \A k \in i..(j - 1) : owners[k] \notin Batch
      BY <1>0, <1>1, <1>2
    <2>2. E[i] < E[j]
      BY <1>1, <1>2, <2>1, Zenon DEF EpochsOf
    <2> QED BY <1>0, <1>1, <1>2, <2>2, Zenon
  <1>3. CASE j = n + 1
    <2>1. \A k \in i..n : owners[k] \notin Batch
      BY <1>0, <1>1, <1>3
    <2>2. owners[n] \notin Batch /\ n > 0
      BY <1>0, <1>1, <2>1
    <2>3. owners # <<>>
      BY <1>0, <2>2
    <2>4. row.state # "absent"
      BY <2>2, <2>3, Zenon DEF OwnerInv
    <2>5. E[n] = row.epoch /\ row.epoch < e
      BY <2>4, Zenon DEF EpochsOf
    <2>6. i = n \/ E[i] < E[n]
      <3>1. SUFFICES ASSUME i # n PROVE E[i] < E[n]
        BY Zenon
      <3>2. i < n /\ n \in 1..n
        BY <1>0, <1>1, <3>1
      <3>3. \A k \in i..(n - 1) : owners[k] \notin Batch
        BY <1>0, <1>1, <2>1
      <3> QED BY <1>1, <3>2, <3>3, Zenon DEF EpochsOf
    <2>7. E[i] \in Nat /\ E[n] \in Nat
      BY <1>0, <1>1, <2>2
    <2> QED BY <1>0, <1>1, <1>3, <2>5, <2>6, <2>7, SMTT(30)
  <1> QED BY <1>1, <1>2, <1>3, Zenon

\* Each step keeps the epochs in order.
LEMMA EpochStep ==
  ASSUME TypeOK, OwnerInv, TxInv, EpochInv, NEW f \in Flights,
         Acquire(f) \/ Renew(f) \/ Write(f) \/ Release(f) \/ Crash(f)
  PROVE  EpochInv'
  <1>0. /\ owners \in Seq(Flights) /\ Len(owners) \in Nat
        /\ epoch \in [Flights -> Nat] /\ pc \in [Flights -> Stages]
        /\ row \in RowType
    BY TypeForm
  <1>1. PICK E \in Seq(Nat) : EpochsOf(E)
    BY Zenon DEF EpochInv
  <1>2. ASSUME row.id = f
        PROVE  /\ row.state # "absent" /\ Len(owners) \in 1..Len(owners)
               /\ owners[Len(owners)] = f /\ E[Len(owners)] = row.epoch
    <2>1. row.state # "absent"
      BY <1>2, LeaseAssumption, Zenon DEF OwnerInv
    <2> QED BY <1>0, <1>1, <1>2, <2>1 DEF OwnerInv, EpochsOf
  <1>3. CASE ~(Claims(f) /\ (Insert(f) \/ Take(f)))
    <2>1. Keeps \/ Deletes(f)
      BY <1>3, RowStep, Zenon
    <2>2. owners' = owners
      BY <2>1, Zenon DEF Keeps, Deletes
    <2>3. row'.state # "absent" => row.state # "absent" /\ row'.epoch = row.epoch
      BY <2>1 DEF Keeps, Deletes, NoRow
    <2>4. ~(row.state = "absent" /\ Insert(f))
      <3>1. SUFFICES ASSUME row.state = "absent", Insert(f) PROVE FALSE
        BY Zenon
      <3>2. owners' = Append(owners, f)
        BY <3>1, Zenon DEF Insert
      <3> QED BY <1>0, <2>2, <3>2
    <2>5. ASSUME NEW g \in Flights, pc'[g] \in Holding
          PROVE  \E p \in 1..Len(owners) : owners[p] = g /\ E[p] = epoch'[g]
      <3>1. CASE pc[g] \in Holding /\ epoch'[g] = epoch[g]
        BY <1>1, <3>1, Zenon DEF EpochsOf
      <3>2. CASE g = f /\ row.id = f /\ row.epoch = epoch[f] /\ UNCHANGED epoch
        BY <1>2, <3>2, Zenon
      <3> QED BY <2>4, <2>5, <3>1, <3>2, HoldStep, Zenon
    <2>6. EpochsOf(E)'
      BY <1>1, <2>2, <2>3, <2>5, Zenon DEF EpochsOf
    <2> QED BY <2>6, Zenon DEF EpochInv
  <1>4. CASE Claims(f) /\ (Insert(f) \/ Take(f))
    <2>1. PICK e \in Nat, t \in 0..MaxClock :
            /\ row' = Held(f, e, t) /\ owners' = Append(owners, f)
            /\ epoch' = [epoch EXCEPT ![f] = e]
            /\ row.state # "absent" => row.epoch < e
            /\ \A g \in Flights \ {f} : pc'[g] = pc[g]
      BY <1>4, Zenon DEF Claims
    <2> DEFINE D == Append(E, e)
    <2>2. /\ D \in Seq(Nat) /\ Len(E) = Len(owners) /\ Len(D) = Len(owners')
          /\ Len(owners') = Len(owners) + 1
          /\ D[Len(owners')] = e /\ owners'[Len(owners')] = f
          /\ \A p \in 1..Len(owners) : D[p] = E[p] /\ owners'[p] = owners[p]
      BY <1>0, <1>1, <2>1 DEF EpochsOf
    <2>3. ASSUME NEW i \in 1..Len(owners'), NEW j \in 1..Len(owners'), i < j,
                 \A k \in i..(j - 1) : owners'[k] \notin Batch
          PROVE  D[i] < D[j]
      BY <1>1, <2>1, <2>3, ClaimedEpochs, Zenon
    <2>4. row'.epoch = e
      BY <2>1, ZenonT(30) DEF Held
    <2>5. ASSUME NEW g \in Flights, pc'[g] \in Holding
          PROVE  \E p \in 1..Len(owners') : owners'[p] = g /\ D[p] = epoch'[g]
      <3>1. CASE g = f
        <4>1. epoch'[f] = e
          BY <1>0, <2>1, Zenon
        <4>2. Len(owners') \in 1..Len(owners')
          BY <1>0, <2>2
        <4> QED BY <2>2, <3>1, <4>1, <4>2, Zenon
      <3>2. CASE g # f
        <4>1. pc[g] \in Holding /\ epoch'[g] = epoch[g]
          BY <1>0, <2>1, <2>5, <3>2, Zenon
        <4>2. PICK p \in 1..Len(owners) : owners[p] = g /\ E[p] = epoch[g]
          BY <1>1, <4>1, ZenonT(30) DEF EpochsOf
        <4>3. p \in 1..Len(owners')
          BY <1>0, <2>2, SMTT(30)
        <4> QED BY <2>2, <4>1, <4>2, <4>3, Zenon
      <3> QED BY <3>1, <3>2, ZenonT(30)
    <2>6. EpochsOf(D)'
      <3> HIDE DEF D
      <3> QED BY <2>2, <2>3, <2>4, <2>5, ZenonT(30) DEF EpochsOf
    <2> QED
      <3> HIDE DEF D
      <3> QED BY <2>2, <2>6, Zenon DEF EpochInv
  <1> QED BY <1>3, <1>4, Zenon

-----------------------------------------------------------------------------
(* Readings.                                                                *)

\* A Flight that died stays dead, and nobody acts for it.
LEMMA DeadStays ==
  ASSUME TypeOK, NEW f \in Flights,
         Acquire(f) \/ Renew(f) \/ Write(f) \/ Release(f) \/ Crash(f),
         NEW g \in Flights, pc[g] = "dead"
  PROVE  pc'[g] = "dead"
  <1>0. pc \in [Flights -> Stages]
    BY TypeForm, Zenon
  <1>1. CASE Acquire(f)
    BY <1>0, <1>1, Zenon
    DEF Acquire, ReadClock, Look, Poll, WaitExhausted, Recheck, Insert, Take, Confirm,
        GiveWay
  <1>2. CASE Renew(f)
    BY <1>0, <1>2, ZenonT(30) DEF Renew, RenewClock, RenewUpdate, RenewCheck
  <1>3. CASE Write(f)
    BY <1>0, <1>3, Zenon
    DEF Write, AssertCurrent, Begin, Fence, SendCommit, ServerCommit, ServerAbort
  <1>4. CASE Release(f) \/ Crash(f)
    BY <1>0, <1>4, Zenon DEF Release, Crash
  <1> QED BY <1>1, <1>2, <1>3, <1>4, Zenon

\* Nobody's readings change but those of the Flight that acts.
LEMMA OthersRead ==
  ASSUME TypeOK, NEW f \in Flights,
         Acquire(f) \/ Renew(f) \/ Write(f) \/ Release(f) \/ Crash(f)
  PROVE  /\ clock' = clock
         /\ \A g \in Flights \ {f} :
              /\ now'[g] = now[g] /\ seen'[g] = seen[g] /\ dead'[g] = dead[g]
              /\ pc'[g] = pc[g]
  <1>0. /\ pc \in [Flights -> Stages] /\ now \in [Flights -> 0..MaxClock]
        /\ seen \in [Flights -> RowType] /\ dead \in [Flights -> BOOLEAN]
    BY TypeForm, Zenon
  <1>1. CASE Acquire(f)
    <2>1. CASE ReadClock(f) \/ Look(f) \/ Poll(f) \/ WaitExhausted(f) \/ Recheck(f)
      BY <1>0, <2>1
      DEF ReadClock, Look, Poll, WaitExhausted, Recheck, GiveWay, ForgetsReads
    <2>2. CASE Insert(f) \/ Take(f) \/ Confirm(f)
      BY <1>0, <2>2 DEF Insert, Take, Confirm, GiveWay, ForgetsReads
    <2> QED BY <1>1, <2>1, <2>2, Zenon DEF Acquire
  <1>2. CASE Renew(f)
    BY <1>0, <1>2, Zenon DEF Renew, RenewClock, RenewUpdate, RenewCheck
  <1>3. CASE Write(f)
    BY <1>0, <1>3, ZenonT(30)
    DEF Write, AssertCurrent, Begin, Fence, SendCommit, ServerCommit, ServerAbort
  <1>4. CASE Release(f) \/ Crash(f)
    BY <1>0, <1>4, Zenon DEF Release, Crash, ForgetsReads
  <1> QED BY <1>1, <1>2, <1>3, <1>4, Zenon

\* Readings stay of the past, and the dead stay dead.
LEMMA ReadStep ==
  ASSUME TypeOK, OwnerInv, TxInv, ReadInv, NEW f \in Flights,
         Acquire(f) \/ Renew(f) \/ Write(f) \/ Release(f) \/ Crash(f)
  PROVE  ReadInv'
  <1>0. /\ pc \in [Flights -> Stages] /\ now \in [Flights -> 0..MaxClock]
        /\ seen \in [Flights -> RowType] /\ dead \in [Flights -> BOOLEAN]
        /\ clock \in 0..MaxClock /\ owners \in Seq(Flights)
    BY TypeForm, Zenon
  <1>1. ASSUME NEW g \in Flights \ {f} PROVE ReadOK(g)'
    <2>1. ReadOK(g)
      BY <1>1, Zenon DEF ReadInv
    <2>2. dead[g] => pc'[seen[g].id] = "dead"
      BY <2>1, DeadStays, Zenon DEF ReadOK
    <2> QED BY <1>1, <2>1, <2>2, OthersRead, Zenon DEF ReadOK
  <1>2. ReadOK(f)
    BY Zenon DEF ReadInv
  <1>3. now'[f] <= clock'
    <2>1. clock' = clock /\ (now'[f] = now[f] \/ now'[f] = clock \/ now'[f] = 0)
      <3>1. CASE Acquire(f)
        BY <1>0, <3>1, Zenon
        DEF Acquire, ReadClock, Look, Poll, WaitExhausted, Recheck, Insert, Take,
            Confirm, ForgetsReads
      <3>2. CASE Renew(f)
        BY <1>0, <3>2, Zenon DEF Renew, RenewClock, RenewUpdate, RenewCheck
      <3>3. CASE Write(f)
        BY <3>3, ZenonT(30)
        DEF Write, AssertCurrent, Begin, Fence, SendCommit, ServerCommit, ServerAbort
      <3>4. CASE Release(f) \/ Crash(f)
        BY <1>0, <3>4, Zenon DEF Release, Crash, ForgetsReads
      <3> QED BY <3>1, <3>2, <3>3, <3>4, Zenon
    <2>2. clock \in Nat /\ now[f] \in Nat
      BY <1>0, SMTT(30)
    <2> QED BY <1>2, <2>1, <2>2, SMTT(30) DEF ReadOK
  <1>4. dead'[f] => /\ pc'[f] = "take" /\ f \in Batch
                    /\ seen'[f].id \in Flights /\ pc'[seen'[f].id] = "dead"
    <2>1. CASE Look(f)
      <3>1. SUFFICES ASSUME dead'[f]
                     PROVE  /\ pc'[f] = "take" /\ f \in Batch
                            /\ seen'[f].id \in Flights /\ pc'[seen'[f].id] = "dead"
        BY Zenon
      <3>2. pc[f] = "look" /\ ~dead[f] /\ seen'[f] = row
        BY <1>0, <1>2, <2>1, Zenon DEF Look, ReadOK
      <3>3. /\ row.state # "absent" /\ f \in Batch /\ pc[row.id] = "dead"
            /\ pc'[f] = "take"
        BY <1>0, <2>1, <3>1, <3>2, Zenon DEF Look
      <3>4. row.id \in Flights
        BY <1>0, <3>3, SMTT(30) DEF OwnerInv
      <3>5. pc'[row.id] = "dead"
        BY <3>3, <3>4, DeadStays, Zenon
      <3> QED BY <3>2, <3>3, <3>4, <3>5, ZenonT(30)
    <2>2. CASE ~Look(f)
      <3>1. ~dead'[f]
        <4>1. pc[f] # "take" => ~dead[f]
          BY <1>2, Zenon DEF ReadOK
        <4>2. CASE Acquire(f)
          BY <1>0, <2>2, <4>1, <4>2, Zenon
          DEF Acquire, ReadClock, Poll, WaitExhausted, Recheck, Insert, Take, Confirm,
              ForgetsReads
        <4>3. CASE Renew(f)
          BY <1>0, <4>1, <4>3, Zenon DEF Renew, RenewClock, RenewUpdate, RenewCheck
        <4>4. CASE Write(f)
          <5>1. ServerCommit(f) => pc[f] \in {"txn", "commit", "dead"}
            BY Zenon DEF ServerCommit, TxInv, TxOK
          <5> QED
          BY <1>0, <4>1, <4>4, <5>1, ZenonT(30)
          DEF Write, AssertCurrent, Begin, Fence, SendCommit, ServerCommit, ServerAbort
        <4>5. CASE Release(f) \/ Crash(f)
          BY <1>0, <4>1, <4>5, Zenon DEF Release, Crash, ForgetsReads
        <4> QED BY <4>2, <4>3, <4>4, <4>5, Zenon
      <3> QED BY <3>1, Zenon
    <2> QED BY <2>1, <2>2, ZenonT(30)
  <1>5. ReadOK(f)'
    BY <1>3, <1>4, ZenonT(30) DEF ReadOK
  <1> QED BY <1>1, <1>5, Zenon DEF ReadInv

-----------------------------------------------------------------------------
(* The theorems.                                                            *)

\* A fleet begins with no row, no transaction and no owner.
LEMMA InitHolds == Init => IInv
  <1> SUFFICES ASSUME Init PROVE IInv
    BY Zenon
  <1>1. TypeOK
    BY NoRowType, NoTxType, TypeForm, LeaseAssumption, SMTT(30) DEF Init, Stages
  <1>2. OwnerInv
    BY Zenon DEF Init, OwnerInv, NoRow
  <1>3. TxInv
    BY NoTxType, Zenon DEF Init, TxInv, TxOK
  <1>4. ReadInv
    BY DEF Init, ReadInv, ReadOK
  <1>5. EpochInv
    <2>1. <<>> \in Seq(Nat)
      OBVIOUS
    <2>2. EpochsOf(<<>>)
      BY DEF Init, EpochsOf, NoRow, Holding
    <2> QED BY <2>1, <2>2, Zenon DEF EpochInv
  <1>6. NoCommitAfterTakeover
    BY DEF Init, NoCommitAfterTakeover
  <1> QED BY <1>1, <1>2, <1>3, <1>4, <1>5, <1>6, Zenon DEF IInv

\* Time passes without disturbing anything.
LEMMA TickKeeps ==
  ASSUME IInv, Tick
  PROVE  IInv'
  <1>0. /\ clock \in 0..MaxClock /\ clock < MaxClock /\ clock' = clock + 1
        /\ UNCHANGED <<row, pc, now, seen, dead, epoch, tx, owners, commits>>
    BY TypeForm, Zenon DEF Tick, IInv
  <1>1. TypeOK'
    BY <1>0, LeaseAssumption DEF IInv, TypeOK
  <1>2. OwnerInv' /\ TxInv' /\ NoCommitAfterTakeover'
    BY <1>0, Zenon DEF IInv, OwnerInv, TxInv, TxOK, NoCommitAfterTakeover
  <1>3. ReadInv'
    <2>1. ASSUME NEW f \in Flights PROVE ReadOK(f)'
      <3>1. ReadOK(f) /\ now[f] \in 0..MaxClock
        BY <2>1, TypeForm, Zenon DEF IInv, ReadInv
      <3> QED BY <1>0, <3>1 DEF ReadOK
    <2> QED BY <2>1, Zenon DEF ReadInv
  <1>4. EpochInv'
    <2>1. PICK E \in Seq(Nat) : EpochsOf(E)
      BY Zenon DEF IInv, EpochInv
    <2>2. EpochsOf(E)'
      BY <1>0, <2>1, Zenon DEF EpochsOf
    <2> QED BY <2>2, Zenon DEF EpochInv
  <1> QED BY <1>1, <1>2, <1>3, <1>4, Zenon DEF IInv

\* The invariant is inductive.
LEMMA StepKeeps == IInv /\ [Next]_vars => IInv'
  <1> SUFFICES ASSUME IInv, [Next]_vars PROVE IInv'
    BY Zenon
  <1>1. CASE Tick
    BY <1>1, TickKeeps, Zenon
  <1>2. ASSUME NEW f \in Flights,
               Acquire(f) \/ Renew(f) \/ Write(f) \/ Release(f) \/ Crash(f)
        PROVE  IInv'
    <2>0. TypeOK /\ OwnerInv /\ TxInv /\ ReadInv /\ EpochInv /\ NoCommitAfterTakeover
      BY Zenon DEF IInv
    <2>1. TypeOK'
      BY <1>2, <2>0, TypeStep, Zenon
    <2>2. TxInv'
      BY <1>2, <2>0, TxStep, Zenon
    <2>3. OwnerInv'
      <3>1. Keeps \/ Deletes(f) \/ Claims(f)
        BY <1>2, <2>0, RowStep, Zenon
      <3> QED BY <1>2, <2>0, <3>1, OwnerStep, Zenon
    <2>4. ReadInv'
      BY <1>2, <2>0, ReadStep, Zenon
    <2>5. EpochInv'
      BY <1>2, <2>0, EpochStep, Zenon
    <2>6. NoCommitAfterTakeover'
      BY <1>2, <2>0, CommitStep, Zenon
    <2> QED BY <2>1, <2>2, <2>3, <2>4, <2>5, <2>6, Zenon DEF IInv
  <1>3. CASE UNCHANGED vars
    <2>1. UNCHANGED <<clock, row, pc, now, seen, dead, epoch, tx, owners, commits>>
      BY <1>3, Zenon DEF vars
    <2>2. EpochInv'
      <3>1. PICK E \in Seq(Nat) : EpochsOf(E)
        BY Zenon DEF IInv, EpochInv
      <3>2. EpochsOf(E)'
        BY <2>1, <3>1, Zenon DEF EpochsOf
      <3> QED BY <3>2, Zenon DEF EpochInv
    <2>3. TypeOK' /\ OwnerInv' /\ NoCommitAfterTakeover'
      BY <2>1, Zenon DEF IInv, TypeOK, OwnerInv, NoCommitAfterTakeover
    <2>4. TxInv' /\ ReadInv'
      BY <2>1, Zenon DEF IInv, TxInv, TxOK, ReadInv, ReadOK
    <2> QED BY <2>2, <2>3, <2>4, Zenon DEF IInv
  <1> QED BY <1>1, <1>2, <1>3, Zenon DEF Next

\* The invariant holds in every state of a fleet.
LEMMA Invariance == Spec => []IInv
  <1> QED BY InitHolds, StepKeeps, PTL DEF Spec

\* Two service Flights that share an epoch had a finite run between them.
LEMMA EpochsPartOwners == IInv => EpochHasOneOwner
  <1> SUFFICES ASSUME IInv, NEW f \in Service, NEW g \in Service,
                      f # g, pc[f] \in Holding, pc[g] \in Holding, epoch[f] = epoch[g]
               PROVE  \E i, j, k \in DOMAIN owners :
                        /\ i < j /\ j < k
                        /\ {owners[i], owners[k]} = {f, g}
                        /\ owners[j] \in Batch
    BY Zenon DEF EpochHasOneOwner
  <1>0. owners \in Seq(Flights) /\ DOMAIN owners = 1..Len(owners) /\ Len(owners) \in Nat
    BY TypeForm DEF IInv
  <1>1. PICK E \in Seq(Nat) : EpochsOf(E)
    BY Zenon DEF IInv, EpochInv
  <1>2. \A h \in Service : h \in Flights /\ h \notin Batch
    BY LeaseAssumption, Zenon DEF Flights
  <1>3. PICK p \in 1..Len(owners) : owners[p] = f /\ E[p] = epoch[f]
    BY <1>1, <1>2, Zenon DEF EpochsOf
  <1>4. PICK q \in 1..Len(owners) : owners[q] = g /\ E[q] = epoch[g]
    BY <1>1, <1>2, Zenon DEF EpochsOf
  <1>5. E[p] = E[q] /\ p # q /\ E[p] \in Nat
    BY <1>1, <1>3, <1>4 DEF EpochsOf
  <1>6. ASSUME NEW a \in 1..Len(owners), NEW b \in 1..Len(owners), a < b,
               E[a] = E[b], E[a] \in Nat, owners[a] \notin Batch
        PROVE  \E j \in 1..Len(owners) : a < j /\ j < b /\ owners[j] \in Batch
    <2>1. PICK k \in a..(b - 1) : owners[k] \in Batch
      <3>1. ~(E[a] < E[b])
        BY <1>6
      <3> QED BY <1>1, <1>6, <3>1, Zenon DEF EpochsOf
    <2>2. k # a
      BY <1>6, <2>1, Zenon
    <2> QED BY <1>0, <2>1, <2>2, SMTT(30)
  <1>7. CASE p < q
    <2>1. PICK j \in 1..Len(owners) : p < j /\ j < q /\ owners[j] \in Batch
      BY <1>2, <1>3, <1>5, <1>6, <1>7, Zenon
    <2> QED BY <1>0, <1>3, <1>4, <2>1, Zenon
  <1>8. CASE q < p
    <2>1. PICK j \in 1..Len(owners) : q < j /\ j < p /\ owners[j] \in Batch
      BY <1>2, <1>4, <1>5, <1>6, <1>8, Zenon
    <2> QED BY <1>0, <1>3, <1>4, <2>1, Zenon
  <1>9. p < q \/ q < p
    BY <1>0, <1>5
  <1> QED BY <1>7, <1>8, <1>9, Zenon

\* The fencing theorem of the lease, for any set of Flights and any bounds: a
\* data commit is always that of the Flight written into the row last, and two
\* holders share an epoch only if a finite run deleted the row between them.
THEOREM LeaseFences == Spec => [](TypeOK /\ NoCommitAfterTakeover /\ EpochHasOneOwner)
  <1>1. IInv => TypeOK /\ NoCommitAfterTakeover /\ EpochHasOneOwner
    BY EpochsPartOwners, Zenon DEF IInv
  <1> QED BY Invariance, <1>1, PTL

\* Every takeover of a held row follows its expiry on the destination's clock,
\* or is a finite run's and follows the death of the holder.
LEMMA TakeoverStep == IInv /\ [Next]_vars => TakenOverExpired
  <1> SUFFICES ASSUME IInv, [Next]_vars, NEW f \in Flights, NEW g \in Flights,
                      row.id = f, row.state = "held", row'.id = g, g # f
               PROVE  row.expires <= clock \/ (g \in Batch /\ pc[f] = "dead")
    BY Zenon DEF TakenOverExpired
  <1>1. row' # row
    BY Zenon
  <1>2. PICK h \in Flights : Acquire(h) \/ Renew(h) \/ Write(h) \/ Release(h) \/ Crash(h)
    BY <1>1, Zenon DEF Next, Tick, vars
  <1>3. TypeOK /\ OwnerInv /\ TxInv /\ ReadInv
    BY Zenon DEF IInv
  <1>4. Keeps \/ Deletes(h) \/ (Claims(h) /\ (Insert(h) \/ Take(h)))
    BY <1>2, <1>3, RowStep, ZenonT(30)
  <1>5. ~Keeps
    BY Zenon DEF Keeps
  <1>6. ~Deletes(h)
    BY LeaseAssumption, SMTT(30) DEF Deletes, NoRow
  <1>7. h = g
    BY <1>4, <1>5, <1>6, SMTT(30) DEF Claims, Held
  <1>8. Take(g) /\ TakeoverApplies(g)
    BY <1>1, <1>4, <1>5, <1>6, <1>7, ZenonT(30) DEF Insert, Take
  <1>9. ReadOK(g)
    BY <1>3, Zenon DEF ReadInv
  <1>10. /\ now[g] \in Nat /\ clock \in Nat /\ row.expires \in Nat
    BY <1>3, TypeForm, LeaseAssumption DEF RowType, Times
  <1>11. CASE row.expires <= now[g]
    BY <1>9, <1>10, <1>11 DEF ReadOK
  <1>12. CASE dead[g] /\ row.id = seen[g].id
    BY <1>9, <1>12, Zenon DEF ReadOK
  <1> QED BY <1>8, <1>11, <1>12, Zenon DEF TakeoverApplies

\* A row in the hands of a live holder is taken over only after the expiry it
\* names has passed (the takeover UPDATE of Lease.acquire).
THEOREM LeaseProtects == Spec => [][TakenOverExpired]_vars
  <1> QED BY Invariance, TakeoverStep, PTL DEF Spec

-----------------------------------------------------------------------------
Beats == INSTANCE HeartbeatProofs WITH row <- phaseRow, MaxMoves <- 5, MaxCommits <- 2

Procs == INSTANCE ServiceProcessProofs WITH
    Flights <- {"flight"}, Operators <- {"to_scd2", "to_none"},
    Requested <- Requests,
    MaxTxns <- 1, MaxFaults <- 1

\* The invariants of the picked component.
LeaseInv == pick = "lease" => IInv

BeatInv == pick = "beat" => Beats!IInv

ProcInv == pick = "process" => Procs!IInv

-----------------------------------------------------------------------------
\* The lease's invariant holds in every behaviour of the lease.
LEMMA LeaseInvariance == MCSpec => []LeaseInv
  <1>1. MCInit => LeaseInv
    BY InitHolds, Zenon DEF MCInit, LeaseInv
  <1>2. LeaseInv /\ [MCNext]_everything => LeaseInv'
    <2> SUFFICES ASSUME LeaseInv, [MCNext]_everything, pick' = "lease"
                 PROVE  IInv'
      BY Zenon DEF LeaseInv
    <2>1. pick = "lease" /\ [Next]_vars
      BY Zenon DEF MCNext, everything, leases
    <2> QED BY <2>1, StepKeeps, Zenon DEF LeaseInv
  <1> QED BY <1>1, <1>2, PTL DEF MCSpec

\* Every data commit belongs to the Flight written into the lease row last, and
\* two holders share an epoch only when a finite run held the row between them
\* (Lease.acquire, Lease.fence).
THEOREM EpochsFence == MCSpec => []EpochFences
  <1>1. LeaseInv => EpochFences
    BY EpochsPartOwners, Zenon DEF LeaseInv, EpochFences, IInv
  <1> QED BY LeaseInvariance, <1>1, PTL

\* A live holder's row is taken over only past its expiry (Lease.acquire).
THEOREM HoldersAreProtected == MCSpec => ProtectedUntilExpiry
  <1>1. LeaseInv /\ [MCNext]_everything
          => [pick = "lease" => TakenOverExpired]_everything
    <2> SUFFICES ASSUME LeaseInv, MCNext, pick = "lease" PROVE TakenOverExpired
      BY Zenon
    <2>1. [Next]_vars
      BY Zenon DEF MCNext, leases
    <2> QED BY <2>1, TakeoverStep, Zenon DEF LeaseInv
  <1> QED BY LeaseInvariance, <1>1, PTL DEF MCSpec, ProtectedUntilExpiry

-----------------------------------------------------------------------------
(* HeartbeatProofs speaks of its own copy of Heartbeat's definitions.       *)

\* The two copies begin alike.
LEMMA SameInit == Beat!Init => Beats!Init
  BY Zenon DEF Beat!Init, Beats!Init, Beat!Idle, Beats!Idle

\* The two copies take the same steps.
LEMMA SameNext == Beat!Next => Beats!Next
  <1>1. Beat!Enter => Beats!Enter
    BY Zenon DEF Beat!Enter, Beats!Enter
  <1>2. Beat!Open => Beats!Open
    BY Zenon DEF Beat!Open, Beats!Open
  <1>3. Beat!Leave => Beats!Leave
    BY Zenon DEF Beat!Leave, Beats!Leave
  <1>4. Beat!CommitWatchdogKills => Beats!CommitWatchdogKills
    BY Zenon DEF Beat!CommitWatchdogKills, Beats!CommitWatchdogKills
  <1>5. Beat!Retire => Beats!Retire
    BY Zenon DEF Beat!Retire, Beats!Retire
  <1>6. Beat!RecordLog => Beats!RecordLog
    BY Zenon DEF Beat!RecordLog, Beats!RecordLog
  <1>7. Beat!AbandonAll => Beats!AbandonAll
    BY Zenon DEF Beat!AbandonAll, Beats!AbandonAll
  <1>8. Beat!Launch => Beats!Launch
    BY Zenon DEF Beat!Launch, Beats!Launch, Beat!WorkerBusy, Beats!WorkerBusy,
       Beat!TerminalJob, Beats!TerminalJob, Beat!Terminal, Beats!Terminal,
       Beat!AfterWrite, Beats!AfterWrite
  <1>9. Beat!StopWaiting => Beats!StopWaiting
    BY Zenon DEF Beat!StopWaiting, Beats!StopWaiting, Beat!WorkerBusy,
       Beats!WorkerBusy,
       Beat!TerminalJob, Beats!TerminalJob, Beat!Terminal, Beats!Terminal,
       Beat!AfterWrite, Beats!AfterWrite
  <1>10. Beat!Close => Beats!Close
    BY Zenon DEF Beat!Close, Beats!Close, Beat!WorkerBusy, Beats!WorkerBusy
  <1>11. Beat!Retirement => Beats!Retirement
    BY Zenon DEF Beat!Retirement, Beats!Retirement
  <1>12. Beat!TakeGate => Beats!TakeGate
    BY Zenon DEF Beat!TakeGate, Beats!TakeGate, Beat!Inherits, Beats!Inherits
  <1>13. Beat!StatementReturns => Beats!StatementReturns
    BY ZenonT(30) DEF Beat!StatementReturns, Beats!StatementReturns, Beat!Inherits,
       Beats!Inherits
  <1>14. Beat!WorkerEnds => Beats!WorkerEnds
    BY Zenon DEF Beat!WorkerEnds, Beats!WorkerEnds, Beat!Idle, Beats!Idle
  <1>15. ASSUME NEW phase, Beat!Move(phase) PROVE Beats!Move(phase)
    BY <1>15, Zenon DEF Beat!Move, Beats!Move, Beat!Terminal, Beats!Terminal,
       Beat!Live,
       Beats!Live, Beat!RUN_PHASE, Beats!RUN_PHASE
  <1>16. Beat!Live \union Beat!Terminal = Beats!Live \union Beats!Terminal
    BY Zenon DEF Beat!Terminal, Beats!Terminal, Beat!Live, Beats!Live
  <1>17. Beat!MainThread => Beats!MainThread
    BY <1>8, <1>9, <1>10, <1>11, <1>15, <1>16, Zenon
       DEF Beat!MainThread, Beats!MainThread
  <1>18. Beat!Over => Beats!Over
    BY Zenon DEF Beat!Over, Beats!Over, Beat!vars, Beats!vars
  <1> QED
    BY <1>1, <1>2, <1>3, <1>4, <1>5, <1>6, <1>7, <1>12, <1>13, <1>14, <1>17,
       <1>18, Zenon DEF Beat!Next, Beats!Next

\* The heartbeat's invariant holds in every behaviour of the heartbeat.
LEMMA BeatInvariance == MCSpec => []BeatInv
  <1>1. MCInit => BeatInv
    BY SameInit, Beats!InitHolds, Zenon DEF MCInit, BeatInv
  <1>2. BeatInv /\ [MCNext]_everything => BeatInv'
    <2> SUFFICES ASSUME BeatInv, [MCNext]_everything, pick' = "beat"
                 PROVE  Beats!IInv'
      BY Zenon DEF BeatInv
    <2>1. pick = "beat" /\ (Beat!Next \/ UNCHANGED beats)
      BY Zenon DEF MCNext, everything
    <2>2. [Beats!Next]_(Beats!vars)
      BY <2>1, SameNext, Zenon DEF beats, Beats!vars
    <2> QED BY <2>1, <2>2, Beats!StepKeeps, Zenon DEF BeatInv
  <1> QED BY <1>1, <1>2, PTL DEF MCSpec

\* No heartbeat statement runs inside the commit->ack window, and whoever closes
\* the heartbeat's cursor is alone with it (_CommitAckWindow, close).
THEOREM WindowIsExclusive == MCSpec => []WindowExcludesWrites
  <1>1. BeatInv => WindowExcludesWrites
    BY Beats!Promises, Zenon
    DEF BeatInv, WindowExcludesWrites, Beat!WindowExcludesWrites,
        Beats!WindowExcludesWrites, Beat!SinkHasOneOwner, Beats!SinkHasOneOwner
  <1> QED BY BeatInvariance, <1>1, PTL

\* The row of a run that terminalised says so, or the loss of that write was
\* recorded (RunPhaseWriter.finish).
THEOREM TerminalIsRecorded == MCSpec => []TerminalRecorded
  <1>1. BeatInv => TerminalRecorded
    BY Beats!Promises, Zenon
    DEF BeatInv, TerminalRecorded, Beat!TerminalRecorded, Beats!TerminalRecorded,
        Beat!Terminal, Beats!Terminal
  <1> QED BY BeatInvariance, <1>1, PTL

-----------------------------------------------------------------------------
(* So does ServiceProcessProofs.                                            *)

\* The copies begin alike.
LEMMA SameProcInit == Process!Init => Procs!Init
  BY ZenonT(30) DEF Process!Init, Procs!Init, Process!NOBODY, Procs!NOBODY,
     Process!NoWork,
     Procs!NoWork, Process!Processes, Procs!Processes

\* The copies take the same steps.
LEMMA SameProcNext == Process!Next => Procs!Next
  <1>1. ASSUME NEW p, Process!Starts(p) PROVE Procs!Starts(p)
    BY <1>1, Zenon DEF Process!Starts, Procs!Starts, Process!Goes, Procs!Goes
  <1>2. ASSUME NEW p, Process!Connects(p) PROVE Procs!Connects(p)
    BY <1>2, ZenonT(30) DEF Process!Connects, Procs!Connects, Process!Opens,
       Procs!Opens,
       Process!Goes, Procs!Goes, Process!FileBusy, Procs!FileBusy, Process!Healthy,
       Procs!Healthy, Process!Reclaimable, Procs!Reclaimable, Process!NOBODY,
       Procs!NOBODY
  <1>3. ASSUME NEW p, Process!Acquires(p) PROVE Procs!Acquires(p)
    BY <1>3, Zenon DEF Process!Acquires, Procs!Acquires, Process!Healthy,
       Procs!Healthy,
       Process!Reclaimable, Procs!Reclaimable, Process!Closes, Procs!Closes,
       Process!NOBODY, Procs!NOBODY
  <1>4. ASSUME NEW p, Process!WaitExhausted(p) PROVE Procs!WaitExhausted(p)
    BY <1>4, Zenon DEF Process!WaitExhausted, Procs!WaitExhausted,
       Process!Healthy,
       Procs!Healthy, Process!Reclaimable, Procs!Reclaimable, Process!Closes,
       Procs!Closes, Process!Fails, Procs!Fails, Process!NoWork, Procs!NoWork,
       Process!NOBODY, Procs!NOBODY
  <1>5. ASSUME NEW p, Process!OpensDestination(p) PROVE Procs!OpensDestination(p)
    BY <1>5, Zenon DEF Process!OpensDestination, Procs!OpensDestination,
       Process!FileBusy,
       Procs!FileBusy, Process!Fails, Procs!Fails, Process!NoWork, Procs!NoWork,
       Process!Opens, Procs!Opens, Process!Goes, Procs!Goes, Process!NOBODY,
       Procs!NOBODY
  <1>6. ASSUME NEW p, Process!TakesDirectory(p) PROVE Procs!TakesDirectory(p)
    BY <1>6, Zenon DEF Process!TakesDirectory, Procs!TakesDirectory,
       Process!Fails,
       Procs!Fails, Process!NoWork, Procs!NoWork, Process!Goes, Procs!Goes,
       Process!Fenced, Procs!Fenced, Process!NOBODY, Procs!NOBODY
  <1>7. ASSUME NEW p, Process!Commits(p) PROVE Procs!Commits(p)
    BY <1>7, ZenonT(30) DEF Process!Commits, Procs!Commits, Process!Refuses,
       Procs!Refuses,
       Process!Admits, Procs!Admits, Process!Fenced, Procs!Fenced, Process!Fails,
       Procs!Fails, Process!NoWork, Procs!NoWork, Process!Writes, Procs!Writes,
       Process!Forgotten, Procs!Forgotten
  <1>8. ASSUME NEW p, Process!Renews(p) PROVE Procs!Renews(p)
    BY <1>8, Zenon DEF Process!Renews, Procs!Renews, Process!Fenced, Procs!Fenced,
       Process!Fails, Procs!Fails, Process!NoWork, Procs!NoWork
  <1>9. ASSUME NEW p, Process!Ends(p) PROVE Procs!Ends(p)
    BY <1>9, ZenonT(30) DEF Process!Ends, Procs!Ends
  <1>10. ASSUME NEW p, Process!TearsDown(p) PROVE Procs!TearsDown(p)
    BY <1>10, Zenon DEF Process!TearsDown, Procs!TearsDown, Process!Released,
       Procs!Released, Process!Fenced, Procs!Fenced, Process!Closes, Procs!Closes,
       Process!NOBODY, Procs!NOBODY
  <1>11. ASSUME NEW p, Process!ClosesProcess(p) PROVE Procs!ClosesProcess(p)
    BY <1>11, ZenonT(30) DEF Process!ClosesProcess, Procs!ClosesProcess,
       Process!ReleasesLate,
       Procs!ReleasesLate, Process!LeftToExpiry, Procs!LeftToExpiry,
       Process!FileBusy, Procs!FileBusy, Process!Released, Procs!Released,
       Process!Fenced, Procs!Fenced, Process!NOBODY, Procs!NOBODY
  <1>12. ASSUME NEW p, Process!Dies(p) PROVE Procs!Dies(p)
    BY <1>12, Zenon DEF Process!Dies, Procs!Dies, Process!Closes, Procs!Closes,
       Process!NOBODY, Procs!NOBODY, Process!NoWork, Procs!NoWork
  <1>13. ASSUME NEW p, NEW what, Process!Begins(p, what) PROVE Procs!Begins(p, what)
    BY <1>13, Zenon DEF Process!Begins, Procs!Begins
  <1>14. Process!Ages => Procs!Ages
    BY Zenon DEF Process!Ages, Procs!Ages
  <1>15. Process!Finished => Procs!Finished
    BY Zenon DEF Process!Finished, Procs!Finished, Process!vars, Procs!vars,
       Process!Processes,
       Procs!Processes
  <1> QED
    BY <1>1, <1>2, <1>3, <1>4, <1>5, <1>6, <1>7, <1>8, <1>9, <1>10, <1>11, <1>12,
       <1>13, <1>14, <1>15, Zenon
       DEF Process!Next, Procs!Next, Process!Processes, Procs!Processes

\* The Flight and the operators are three processes, and each operator asks for
\* a mode.
LEMMA ThreeProcesses == Procs!Deployment
  <1>1. Requests \in [{"to_scd2", "to_none"} -> Procs!Modes]
    BY Zenon DEF Requests, Procs!Modes
  <1> QED BY <1>1, Zenon DEF Procs!Deployment, Procs!Processes, Procs!NOBODY

\* The process's invariant holds in every behaviour of the process.
LEMMA ProcessInvariance == MCSpec => []ProcInv
  <1>1. MCInit => ProcInv
    BY SameProcInit, ThreeProcesses, Procs!InitHolds, Zenon DEF MCInit, ProcInv
  <1>2. ProcInv /\ [MCNext]_everything => ProcInv'
    <2> SUFFICES ASSUME ProcInv, [MCNext]_everything, pick' = "process"
                 PROVE  Procs!IInv'
      BY Zenon DEF ProcInv
    <2>1. pick = "process" /\ (Process!Next \/ UNCHANGED processes)
      BY Zenon DEF MCNext, everything
    <2>2. [Procs!Next]_(Procs!vars)
      BY <2>1, SameProcNext, Zenon DEF processes, Procs!vars
    <2> QED BY <2>1, <2>2, ThreeProcesses, Procs!StepKeeps, Zenon DEF ProcInv
  <1> QED BY <1>1, <1>2, PTL DEF MCSpec

\* A table under scd2 has no current-only image, and a mode set-history-mode
\* reported stays until the relation is dropped (admit_history_mode).
THEOREM HistoryModeIsKept == MCSpec => []HistoryModeHolds
  <1>1. ProcInv => HistoryModeHolds
    BY Procs!Promises, Zenon
    DEF ProcInv, HistoryModeHolds, Process!HistoryIsWhole, Procs!HistoryIsWhole,
        Process!PromisedModeHolds, Procs!PromisedModeHolds
  <1> QED BY ProcessInvariance, <1>1, PTL

\* A process that ended in order holds neither the file, nor the directory, nor
\* a lease row it could have released (_release_if_needed).
THEOREM NothingIsLeftHeld == MCSpec => []EndedHoldsNothing
  <1>1. ProcInv => EndedHoldsNothing
    BY Procs!Promises, Zenon
    DEF ProcInv, EndedHoldsNothing, Process!EndedHoldsNothing,
        Procs!EndedHoldsNothing, Process!Processes, Procs!Processes
  <1> QED BY ProcessInvariance, <1>1, PTL
=============================================================================
