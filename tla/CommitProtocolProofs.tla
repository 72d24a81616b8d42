------------------------ MODULE CommitProtocolProofs ------------------------
(***************************************************************************)
(* Proofs about CommitProtocol, for every log, batch size and bound: the   *)
(* inductive invariant IInv, that feeding records to the assembler, the    *)
(* destination COMMIT, what follows it and the ends of a run preserve it,  *)
(* and what follows from it.                                               *)
(***************************************************************************)
EXTENDS CommitProtocol, TLAPS

Committed == pc \in {"ack", "settle"}

\* Everything up to the cursor was handed on by the assembler as whole units.
Cursor == IF open = NoUnit THEN fed ELSE open.first - 1

LastUnit == group[Len(group)]

\* How the durable positions are ordered.
OrderInv ==
  /\ slot <= row.off /\ row.off <= row.lsn /\ row.lsn <= head
  /\ file <= row.lsn /\ rfile <= row.lsn /\ marked <= row.lsn
  /\ Boundary(head) /\ Boundary(slot) /\ Boundary(marked)
  /\ Boundary(row.lsn) /\ Boundary(row.off)
  /\ file >= 0 => Boundary(file)
  /\ rfile >= 0 => Boundary(rfile)

\* A running engine never confirms or flushes past what was marked, and
\* what was marked is within the durable offset map.
EngineInv ==
  Running =>
    /\ slot <= marked /\ InUse <= marked /\ marked <= row.off
    /\ marked <= Cursor /\ Cursor <= fed /\ fed <= head
    /\ batchEnd <= head
    /\ pc = "feed" => fed <= batchEnd

\* The assembler holds exactly the transaction the stream is inside of.
AssemblerInv ==
  /\ Running => (open = NoUnit <=> Boundary(fed))
  /\ open # NoUnit =>
       /\ open.first \in 1..fed
       /\ Boundary(open.first - 1)
       /\ \A m \in open.first..fed : ~Boundary(m)
       /\ open.spillTo \in open.first-1..fed
       /\ open.mem <= fed - open.first
       /\ SpillEvents > N => open.spillTo = open.first - 1

\* One unit: a whole interval, fenced exactly when it is already durable.
UnitInv(u) ==
  /\ Boundary(u.first - 1) /\ Boundary(u.last)
  /\ u.first <= u.last + 1
  /\ u.last <= Cursor
  /\ \A m \in u.first..u.last-1 : ~Boundary(m)
  /\ u.fenced => u.last <= resume.lsn
  /\ (~u.fenced /\ u.first <= u.last /\ Wal[u.last].kind = "end") => resume.lsn < u.last
  /\ SpillEvents > N => u.spillTo = u.first - 1
  /\ u.first <= u.last => u.spillTo < u.last

\* The group: units in order, without a gap, from the durable prefix on.
GroupInv ==
  /\ \A i \in DOMAIN group : UnitInv(group[i])
  /\ \A i, j \in DOMAIN group : i < j => group[i].last < group[j].first
  /\ group = <<>> => (Running => Cursor <= resume.lsn)
  /\ group # <<>> =>
       /\ LastUnit.last = Cursor
       /\ group[1].first - 1 <= resume.lsn
       /\ \A l \in group[1].first..LastUnit.last :
            \E i \in DOMAIN group : l \in group[i].first..group[i].last

\* Where the process is in commit_group.
PhaseInv ==
  /\ ~Running => open = NoUnit /\ group = <<>> /\ staged = {}
  /\ ~Committed => acked = 0
  /\ pc = "mark_installing" => rfile >= 0
  /\ (Running /\ ~Committed) => resume = row
  /\ Committed => row = PointFor
  /\ pc \in {"commit", "window", "ack", "settle"} =>
       group # <<>> /\ ~OpenUnitHasSpilled
  /\ \A i \in DOMAIN group : i > acked => marked <= group[i].last

\* No table can fail, or no unit is large enough to be staged.
StagedSafe == FailingTables = {} \/ SpillEvents > N

\* What left memory is in the staging table until it is applied.
StagedInv ==
  StagedSafe =>
    /\ open # NoUnit =>
         \A l \in open.first..open.spillTo : Wal[l].kind = "data" => l \in staged
    /\ ~Committed =>
         \A i \in DOMAIN group : \A l \in group[i].first..group[i].spillTo :
            Wal[l].kind = "data" => l \in staged

IInv == /\ TypeOK /\ OrderInv /\ EngineInv /\ AssemblerInv
        /\ GroupInv /\ PhaseInv /\ StagedInv
        /\ StagedSafe => ExactlyOnce

-----------------------------------------------------------------------------
(* The log.                                                                 *)

\* Every record of the log has a kind and a table.
LEMMA WalType ==
  /\ N \in Nat
  /\ \A l \in LSN : Wal[l].kind \in Kinds /\ Wal[l].tab \in Tables
<1> DEFINE R == [kind : Kinds, tab : Tables]
<1>1. Wal \in Seq(R) BY WalAssumption, Zenon DEF WalAssumption
<1> HIDE DEF R
<1>2. Len(Wal) \in Nat /\ \A l \in 1..Len(Wal) : Wal[l] \in R
  BY <1>1
<1>3. \A r \in R : r.kind \in Kinds /\ r.tab \in Tables
  BY Zenon DEF R
<1> QED BY <1>2, <1>3, Zenon DEF N, LSN

\* What the record after a position says about that position.
LEMMA NextRecord ==
  ASSUME NEW p \in 0..N-1
  PROVE  /\ Wal[p+1].kind \in {"begin", "message"} => Boundary(p)
         /\ Wal[p+1].kind \in {"data", "end"} => ~Boundary(p)
         /\ Boundary(p+1) <=> Wal[p+1].kind \in {"end", "message"}
<1>1. p + 1 \in LSN BY WalType DEF LSN
<1>2. Boundary(p+1) <=> Wal[p+1].kind \in {"end", "message"}
  BY <1>1 DEF Boundary, LSN
<1>3. Wal[p+1].kind \in {"begin", "message"} => Boundary(p)
  BY <1>1, WalAssumption DEF WalAssumption
<1>4. Wal[p+1].kind \in {"data", "end"} => ~Boundary(p)
  <2> SUFFICES ASSUME Wal[p+1].kind \in {"data", "end"} PROVE ~Boundary(p)
    BY Zenon
  <2>1. p + 1 > 1 /\ Wal[p].kind \in {"begin", "data"}
    BY <1>1, WalAssumption DEF WalAssumption
  <2> QED BY <2>1 DEF Boundary
<1> QED BY <1>2, <1>3, <1>4, Zenon

\* The order of the durable positions outlives a step that moves none of them.
LEMMA OrderUnchanged ==
  ASSUME OrderInv, UNCHANGED <<head, slot, file, rfile, marked, row>>
  PROVE  OrderInv'
  BY SMTT(30) DEF OrderInv, Boundary

\* The initial state satisfies the invariant.
LEMMA InitIInv == Init => IInv
<1> SUFFICES ASSUME Init PROVE IInv BY Zenon
<1> USE WalType, BoundsAssumption DEF Init, BoundsAssumption
<1>1. TypeOK
  <2>1. group \in Seq(Unit) /\ acked \in 0..Len(group)
    OBVIOUS
  <2>2. /\ marker \in [phase : {"none", "pending", "installing"}, fp : 0..N]
        /\ open \in [first : 0..N, mem : Nat, spillTo : 0..N]
    BY DEF NoIntent, NoUnit
  <2>3. /\ resume \in [lsn : 0..N, off : 0..N] /\ row \in [lsn : 0..N, off : 0..N]
        /\ rows \in [LSN -> Nat]
    OBVIOUS
  <2>4. /\ head \in 0..N /\ slot \in 0..N
        /\ file \in Corrupt..N /\ rfile \in Corrupt..N
        /\ fed \in 0..N /\ batchEnd \in 0..N /\ marked \in 0..N /\ stops \in 0..MaxStops
    BY DEF Missing, Corrupt
  <2>5. /\ replaying \in BOOLEAN /\ full \in BOOLEAN /\ close \in BOOLEAN
        /\ pc = "down"
        /\ staged \subseteq LSN /\ blocked \subseteq FailingTables
    BY Zenon
  <2> HIDE DEF Init
  <2> QED BY <2>1, <2>2, <2>3, <2>4, <2>5, Zenon DEF TypeOK
<1>2. OrderInv
  BY DEF OrderInv, Boundary, Missing
<1>3. EngineInv /\ AssemblerInv /\ GroupInv
  BY DEF EngineInv, AssemblerInv, GroupInv, Running
<1>4. PhaseInv /\ StagedInv
  BY DEF PhaseInv, StagedInv, Running, Committed
<1>5. ExactlyOnce
  BY DEF ExactlyOnce, LSN
<1> QED BY <1>1, <1>2, <1>3, <1>4, <1>5, Zenon DEF IInv

\* A source commit only moves head.
LEMMA SourceCommitIInv == IInv /\ SourceCommit => IInv'
<1> SUFFICES ASSUME IInv, SourceCommit PROVE IInv' BY Zenon
<1> USE WalType DEF SourceCommit, disk, engine, applier, dest
<1>1. TypeOK'
  BY SMTT(30) DEF IInv, TypeOK
<1>2. head' \in head+1..N /\ Boundary(head') /\ Boundary(head)'
  BY Zenon DEF Boundary
<1>3. OrderInv'
  BY <1>2, SMTT(30) DEF IInv, TypeOK, OrderInv, Boundary
<1>4. EngineInv'
  BY <1>2, SMTT(30) DEF IInv, TypeOK, EngineInv, Running, InUse, Cursor
<1>5. AssemblerInv' /\ GroupInv'
  BY SMTT(30) DEF IInv, AssemblerInv, GroupInv, Running, Cursor, UnitInv, LastUnit
<1>6. PhaseInv' /\ StagedInv'
  BY Zenon
     DEF IInv, PhaseInv, StagedInv, Running, Committed, PointFor, OpenUnitHasSpilled
<1>7. ExactlyOnce => ExactlyOnce'
  BY Zenon DEF ExactlyOnce
<1> QED BY <1>1, <1>3, <1>4, <1>5, <1>6, <1>7, Zenon DEF IInv

\* The engine hands over a batch.
LEMMA HandleBatchIInv == IInv /\ HandleBatch => IInv'
<1> SUFFICES ASSUME IInv, HandleBatch PROVE IInv' BY Zenon
<1> USE WalType, BoundsAssumption
      DEF HandleBatch, source, disk, engine, applier, dest, IInv
<1>1. TypeOK'
  BY SMTT(30) DEF TypeOK, Corrupt, BoundsAssumption
<1>2. OrderInv'
  BY DEF TypeOK, OrderInv, Boundary
<1>3. EngineInv'
  BY SMTT(30) DEF TypeOK, OrderInv, EngineInv, Running, InUse, Cursor
<1>4. AssemblerInv'
  BY Zenon DEF AssemblerInv, Running
<1>5. GroupInv'
  BY SMTT(30) DEF GroupInv, Running, Cursor, UnitInv, LastUnit
<1>6. PhaseInv' /\ StagedInv'
  BY Zenon DEF PhaseInv, StagedInv, Running, Committed, PointFor, OpenUnitHasSpilled
<1>7. ExactlyOnce => ExactlyOnce'
  BY Zenon DEF ExactlyOnce
<1> QED BY <1>1, <1>2, <1>3, <1>4, <1>5, <1>6, <1>7, Zenon DEF IInv

\* The callback decides whether to commit.
LEMMA EndOfBatchIInv == IInv /\ EndOfBatch => IInv'
<1> SUFFICES ASSUME IInv, EndOfBatch PROVE IInv' BY Zenon
<1> USE WalType, BoundsAssumption
      DEF EndOfBatch, OpenUnitHasSpilled, source, disk, engine, applier, dest, IInv
<1>1. TypeOK'
  BY Zenon DEF TypeOK, Corrupt, BoundsAssumption
<1>2. OrderInv'
  BY SMTT(30) DEF TypeOK, OrderInv, Boundary
<1>3. EngineInv'
  BY Zenon DEF TypeOK, OrderInv, EngineInv, Running, InUse, Cursor
<1>4. AssemblerInv'
  BY Zenon DEF AssemblerInv, Running
<1>5. GroupInv'
  BY Zenon DEF GroupInv, Running, Cursor, UnitInv, LastUnit
<1>6. PhaseInv' /\ StagedInv'
  BY Zenon DEF PhaseInv, StagedInv, Running, Committed, PointFor, OpenUnitHasSpilled
<1>7. ExactlyOnce => ExactlyOnce'
  BY Zenon DEF ExactlyOnce
<1> QED BY <1>1, <1>2, <1>3, <1>4, <1>5, <1>6, <1>7, Zenon DEF IInv

\* The age timer only sets the close flag.
LEMMA AgeTimerIInv == IInv /\ AgeTimer => IInv'
<1> SUFFICES ASSUME IInv, AgeTimer PROVE IInv' BY Zenon
<1> USE WalType, BoundsAssumption
      DEF AgeTimer, Running, source, disk, engine, applier, dest, IInv
<1>1. TypeOK'
  BY Zenon DEF TypeOK, Corrupt, BoundsAssumption
<1>2. OrderInv'
  BY SMTT(30) DEF TypeOK, OrderInv, Boundary
<1>3. EngineInv'
  BY Zenon DEF TypeOK, OrderInv, EngineInv, Running, InUse, Cursor
<1>4. AssemblerInv'
  BY Zenon DEF AssemblerInv, Running
<1>5. GroupInv'
  BY Zenon DEF GroupInv, Running, Cursor, UnitInv, LastUnit
<1>6. PhaseInv' /\ StagedInv'
  BY Zenon DEF PhaseInv, StagedInv, Running, Committed, PointFor, OpenUnitHasSpilled
<1>7. ExactlyOnce => ExactlyOnce'
  BY Zenon DEF ExactlyOnce
<1> QED BY <1>1, <1>2, <1>3, <1>4, <1>5, <1>6, <1>7, Zenon DEF IInv

\* Building the destination transaction changes nothing visible.
LEMMA ApplyGroupIInv == IInv /\ ApplyGroup => IInv'
<1> SUFFICES ASSUME IInv, ApplyGroup PROVE IInv' BY Zenon
<1> USE WalType, BoundsAssumption
      DEF ApplyGroup, source, disk, engine, applier, dest, IInv
<1>1. TypeOK'
  BY Zenon DEF TypeOK, Corrupt, BoundsAssumption
<1>2. OrderInv'
  BY SMTT(30) DEF TypeOK, OrderInv, Boundary
<1>3. EngineInv'
  BY Zenon DEF TypeOK, OrderInv, EngineInv, Running, InUse, Cursor
<1>4. AssemblerInv'
  BY Zenon DEF AssemblerInv, Running
<1>5. GroupInv'
  BY Zenon DEF GroupInv, Running, Cursor, UnitInv, LastUnit
<1>6. PhaseInv' /\ StagedInv'
  BY Zenon DEF PhaseInv, StagedInv, Running, Committed, PointFor, OpenUnitHasSpilled
<1>7. ExactlyOnce => ExactlyOnce'
  BY Zenon DEF ExactlyOnce
<1> QED BY <1>1, <1>2, <1>3, <1>4, <1>5, <1>6, <1>7, Zenon DEF IInv

\* The intent records the file to install.
LEMMA MarkReplayInstallingIInv == IInv /\ MarkReplayInstalling => IInv'
<1> SUFFICES ASSUME IInv, MarkReplayInstalling PROVE IInv' BY Zenon
<1> USE WalType, BoundsAssumption
      DEF MarkReplayInstalling, source, disk, engine, applier, dest, IInv
<1>1. TypeOK'
  <2>1. rfile \in 0..N
    BY DEF TypeOK, PhaseInv, Corrupt
  <2>2. [phase |-> "installing", fp |-> rfile]
          \in [phase : {"none", "pending", "installing"}, fp : 0..N]
    BY <2>1, Zenon
  <2>3. marker' \in [phase : {"none", "pending", "installing"}, fp : 0..N]
    BY <2>2, Zenon DEF TypeOK
  <2>4. pc' \in {"install", "down"}
    BY Zenon
  <2> QED BY <2>3, <2>4, Zenon DEF TypeOK
<1>2. OrderInv'
  BY SMTT(30) DEF TypeOK, OrderInv, Boundary
<1>3. EngineInv'
  BY Zenon DEF TypeOK, OrderInv, EngineInv, Running, InUse, Cursor
<1>4. AssemblerInv'
  BY Zenon DEF AssemblerInv, Running
<1>5. GroupInv'
  BY SMTT(30) DEF GroupInv, Running, Cursor, UnitInv, LastUnit
<1>6. PhaseInv' /\ StagedInv'
  BY Zenon DEF PhaseInv, StagedInv, Running, Committed, PointFor, OpenUnitHasSpilled
<1>7. ExactlyOnce => ExactlyOnce'
  BY Zenon DEF ExactlyOnce
<1> QED BY <1>1, <1>2, <1>3, <1>4, <1>5, <1>6, <1>7, Zenon DEF IInv

\* The replayed file becomes the canonical one.
LEMMA InstallReplayOffsetIInv == IInv /\ InstallReplayOffset => IInv'
<1> SUFFICES ASSUME IInv, InstallReplayOffset PROVE IInv' BY Zenon
<1> USE WalType, BoundsAssumption
      DEF InstallReplayOffset, source, disk, engine, applier, dest, IInv
<1>1. TypeOK'
  BY Zenon DEF TypeOK, Corrupt, BoundsAssumption
<1>2. OrderInv'
  BY SMTT(30) DEF TypeOK, OrderInv, Boundary
<1>3. EngineInv'
  BY Zenon DEF TypeOK, OrderInv, EngineInv, Running, InUse, Cursor
<1>4. AssemblerInv'
  BY Zenon DEF AssemblerInv, Running
<1>5. GroupInv'
  BY SMTT(30) DEF GroupInv, Running, Cursor, UnitInv, LastUnit
<1>6. PhaseInv' /\ StagedInv'
  BY Zenon DEF PhaseInv, StagedInv, Running, Committed, PointFor, OpenUnitHasSpilled
<1>7. ExactlyOnce => ExactlyOnce'
  BY Zenon DEF ExactlyOnce
<1> QED BY <1>1, <1>2, <1>3, <1>4, <1>5, <1>6, <1>7, Zenon DEF IInv

\* The intent is cleared.
LEMMA ClearReplayIntentIInv == IInv /\ ClearReplayIntent => IInv'
<1> SUFFICES ASSUME IInv, ClearReplayIntent PROVE IInv' BY Zenon
<1> USE WalType, BoundsAssumption
      DEF ClearReplayIntent, NoIntent, Missing, source, disk, engine, applier, dest, IInv
<1>1. TypeOK'
  BY SMTT(30) DEF TypeOK, Corrupt, BoundsAssumption
<1>2. OrderInv'
  BY SMTT(30) DEF TypeOK, OrderInv, Boundary
<1>3. EngineInv'
  BY Zenon DEF TypeOK, OrderInv, EngineInv, Running, InUse, Cursor
<1>4. AssemblerInv'
  BY Zenon DEF AssemblerInv, Running
<1>5. GroupInv'
  BY SMTT(30) DEF GroupInv, Running, Cursor, UnitInv, LastUnit
<1>6. PhaseInv' /\ StagedInv'
  BY Zenon DEF PhaseInv, StagedInv, Running, Committed, PointFor, OpenUnitHasSpilled
<1>7. ExactlyOnce => ExactlyOnce'
  BY Zenon DEF ExactlyOnce
<1> QED BY <1>1, <1>2, <1>3, <1>4, <1>5, <1>6, <1>7, Zenon DEF IInv

\* The offsets file is lost.
LEMMA LoseFileIInv == IInv /\ LoseFile => IInv'
<1> SUFFICES ASSUME IInv, LoseFile PROVE IInv' BY Zenon
<1> USE WalType, BoundsAssumption
      DEF LoseFile, Missing, source, disk, engine, applier, dest, IInv
<1>1. TypeOK'
  BY SMTT(30) DEF TypeOK, Corrupt, BoundsAssumption
<1>2. OrderInv'
  BY SMTT(30) DEF TypeOK, OrderInv, Boundary
<1>3. EngineInv'
  BY Zenon DEF TypeOK, OrderInv, EngineInv, Running, InUse, Cursor
<1>4. AssemblerInv'
  BY Zenon DEF AssemblerInv, Running
<1>5. GroupInv'
  BY SMTT(30) DEF GroupInv, Running, Cursor, UnitInv, LastUnit
<1>6. PhaseInv' /\ StagedInv'
  BY Zenon DEF PhaseInv, StagedInv, Running, Committed, PointFor, OpenUnitHasSpilled
<1>7. ExactlyOnce => ExactlyOnce'
  BY Zenon DEF ExactlyOnce
<1> QED BY <1>1, <1>2, <1>3, <1>4, <1>5, <1>6, <1>7, Zenon DEF IInv

\* The intent is armed and the process dies.
LEMMA CrashBeforeRepairIInv == IInv /\ CrashBeforeRepair => IInv'
<1> SUFFICES ASSUME IInv, CrashBeforeRepair PROVE IInv' BY Zenon
<1> USE WalType, BoundsAssumption
      DEF CrashBeforeRepair, ArmedIntent, source, disk, engine, applier, dest, IInv
<1>1. TypeOK'
  BY SMTT(30) DEF TypeOK, Corrupt, BoundsAssumption
<1>2. OrderInv'
  BY SMTT(30) DEF TypeOK, OrderInv, Boundary
<1>3. EngineInv'
  BY Zenon DEF TypeOK, OrderInv, EngineInv, Running, InUse, Cursor
<1>4. AssemblerInv'
  BY Zenon DEF AssemblerInv, Running
<1>5. GroupInv'
  BY ZenonT(30) DEF GroupInv, Running, Cursor, UnitInv, LastUnit
<1>6. PhaseInv' /\ StagedInv'
  BY Zenon DEF PhaseInv, StagedInv, Running, Committed, PointFor, OpenUnitHasSpilled
<1>7. ExactlyOnce => ExactlyOnce'
  BY Zenon DEF ExactlyOnce
<1> QED BY <1>1, <1>2, <1>3, <1>4, <1>5, <1>6, <1>7, Zenon DEF IInv

\* The slot follows the flushed offset.
LEMMA EngineConfirmIInv == IInv /\ EngineConfirm => IInv'
<1> SUFFICES ASSUME IInv, EngineConfirm PROVE IInv' BY Zenon
<1> USE WalType, BoundsAssumption
      DEF EngineConfirm, Running, InUse, source, disk, engine, applier, dest, IInv
<1>1. TypeOK'
  BY SMTT(30) DEF TypeOK, Corrupt, BoundsAssumption
<1>2. OrderInv'
  <2>1. slot' = InUse /\ InUse <= row.off /\ InUse \in 0..N /\ Boundary(InUse)
    BY SMTT(30) DEF TypeOK, OrderInv, EngineInv, Corrupt
  <2>2. Boundary(slot)'
    BY <2>1, Zenon DEF Boundary
  <2> QED BY <2>1, <2>2, ZenonT(30) DEF TypeOK, OrderInv, Boundary
<1>3. EngineInv'
  BY Zenon DEF TypeOK, OrderInv, EngineInv, Running, InUse, Cursor
<1>4. AssemblerInv'
  BY Zenon DEF AssemblerInv, Running
<1>5. GroupInv'
  BY ZenonT(30) DEF GroupInv, Running, Cursor, UnitInv, LastUnit
<1>6. PhaseInv' /\ StagedInv'
  BY Zenon DEF PhaseInv, StagedInv, Running, Committed, PointFor, OpenUnitHasSpilled
<1>7. ExactlyOnce => ExactlyOnce'
  BY Zenon DEF ExactlyOnce
<1> QED BY <1>1, <1>2, <1>3, <1>4, <1>5, <1>6, <1>7, Zenon DEF IInv

\* The marked offset is flushed.
LEMMA MarkBatchFinishedIInv == IInv /\ MarkBatchFinished => IInv'
<1> SUFFICES ASSUME IInv, MarkBatchFinished PROVE IInv' BY Zenon
<1> USE WalType, BoundsAssumption
      DEF MarkBatchFinished, SaveInUse, source, disk, engine, applier, dest, IInv
<1>1. TypeOK'
  BY SMTT(30) DEF TypeOK, Corrupt, BoundsAssumption
<1>2. OrderInv'
  BY ZenonT(30) DEF TypeOK, OrderInv, Boundary
<1>3. EngineInv'
  BY SMTT(30) DEF TypeOK, OrderInv, EngineInv, Running, InUse, Cursor
<1>4. AssemblerInv'
  BY Zenon DEF AssemblerInv, Running
<1>5. GroupInv'
  BY ZenonT(30) DEF GroupInv, Running, Cursor, UnitInv, LastUnit
<1>6. PhaseInv' /\ StagedInv'
  BY Zenon DEF PhaseInv, StagedInv, Running, Committed, PointFor, OpenUnitHasSpilled
<1>7. ExactlyOnce => ExactlyOnce'
  BY Zenon DEF ExactlyOnce
<1> QED BY <1>1, <1>2, <1>3, <1>4, <1>5, <1>6, <1>7, Zenon DEF IInv

-----------------------------------------------------------------------------
(* Feeding records to the assembler.                                        *)

\* A group stays in order, gapless and correctly fenced when a unit that
\* starts at the cursor and ends at the new cursor is appended.
LEMMA AppendUnit ==
  ASSUME IInv, Running, ~Committed,
         NEW u \in Unit, group' = Append(group, u),
         resume' = resume, Running', (open = NoUnit)', 
         u.first = Cursor + 1, u.last = fed', UnitInv(u)'
  PROVE  GroupInv'
<1>1. group \in Seq(Unit) /\ group' \in Seq(Unit) BY DEF IInv, TypeOK
<1>2. /\ Len(group') = Len(group) + 1 /\ Len(group) \in Nat
      /\ group'[Len(group) + 1] = u
      /\ \A i \in 1..Len(group) : group'[i] = group[i]
      /\ DOMAIN group = 1..Len(group) /\ DOMAIN group' = 1..Len(group)+1
      /\ group' # <<>>
  BY <1>1
<1>3. Cursor' = fed' /\ Cursor \in Int /\ fed' \in Int /\ Cursor <= fed'
  <2>1. Cursor' = fed' BY Zenon DEF Cursor
  <2>2. u.last \in Int /\ u.first \in Int BY WalType, SMTT(30) DEF Unit
  <2>3. Cursor \in Int BY WalType, SMTT(30) DEF Cursor, IInv, TypeOK
  <2>4. u.first <= u.last + 1 BY Zenon DEF UnitInv
  <2> QED BY <2>1, <2>2, <2>3, <2>4, SMTT(30)
<1>4. \A i \in 1..Len(group) : /\ group[i].last \in Int /\ group[i].first \in Int
                               /\ group[i].last <= Cursor
                               /\ group[i].first <= group[i].last + 1
  <2> SUFFICES ASSUME NEW i \in 1..Len(group)
               PROVE  /\ group[i].last \in Int /\ group[i].first \in Int
                      /\ group[i].last <= Cursor
                      /\ group[i].first <= group[i].last + 1
    BY Zenon
  <2>1. group[i] \in Unit BY <1>1
  <2>2. UnitInv(group[i]) BY <1>2, Zenon DEF IInv, GroupInv
  <2> QED BY <2>1, <2>2, WalType DEF Unit, UnitInv
<1>5. \A i \in DOMAIN group' : UnitInv(group[i])'
  <2> SUFFICES ASSUME NEW i \in 1..Len(group) PROVE UnitInv(group[i])'
    BY <1>2
  <2>1. UnitInv(group[i]) BY <1>2, Zenon DEF IInv, GroupInv
  <2>2. group'[i] = group[i] BY <1>2, Zenon
  <2> QED BY <2>1, <2>2, <1>3, <1>4, SMTT(30) DEF UnitInv, Boundary
<1>6. \A i, j \in DOMAIN group' : i < j => group'[i].last < group'[j].first
  <2> SUFFICES ASSUME NEW i \in 1..Len(group)+1, NEW j \in 1..Len(group)+1, i < j
               PROVE  group'[i].last < group'[j].first
    BY <1>2, Zenon
  <2>1. CASE j = Len(group) + 1
    BY <2>1, <1>2, <1>3, <1>4, SMTT(30)
  <2>2. CASE j # Len(group) + 1
    <3>1. i \in DOMAIN group /\ j \in DOMAIN group BY <2>2, <1>2, SMTT(30)
    <3>2. group[i].last < group[j].first BY <3>1, Zenon DEF IInv, GroupInv
    <3> QED BY <3>1, <3>2, <1>2, Zenon
  <2> QED BY <2>1, <2>2, Zenon
<1>7. LastUnit' = u /\ u.last = Cursor'
  BY <1>2, <1>3, Zenon DEF LastUnit
<1>8. group'[1].first - 1 <= resume'.lsn
  <2>1. CASE group = <<>>
    BY <2>1, <1>2, <1>3, SMTT(30) DEF IInv, GroupInv
  <2>2. CASE group # <<>>
    BY <2>2, <1>1, <1>2, SMTT(30) DEF IInv, GroupInv
  <2> QED BY <2>1, <2>2, Zenon
<1>9. \A l \in group'[1].first..LastUnit'.last :
        \E i \in DOMAIN group' : l \in group'[i].first..group'[i].last
  <2> SUFFICES ASSUME NEW l \in group'[1].first..u.last
               PROVE  \E i \in 1..Len(group)+1 : l \in group'[i].first..group'[i].last
    BY <1>2, <1>7, Zenon
  <2>1. CASE l > Cursor
    BY <2>1, <1>2, <1>3, WalType, SMTT(30) DEF Unit
  <2>2. CASE l <= Cursor /\ group # <<>>
    <3>1. Len(group) \in 1..Len(group) /\ 1 \in 1..Len(group)
      BY <2>2, <1>1, <1>2, SMTT(30)
    <3>2. LastUnit.last = Cursor BY <2>2, Zenon DEF IInv, GroupInv
    <3>3. l \in group[1].first..LastUnit.last
      BY <2>2, <3>1, <3>2, <1>2, <1>3, <1>4, SMTT(30)
    <3>4. PICK i \in DOMAIN group : l \in group[i].first..group[i].last
      BY <3>3, <2>2, Zenon DEF IInv, GroupInv
    <3> QED BY <3>4, <1>2
  <2>3. CASE l <= Cursor /\ group = <<>>
    BY <2>3, <1>2, <1>3, SMTT(30)
  <2> QED BY <2>1, <2>2, <2>3, <1>3, SMTT(30)
<1> QED BY <1>2, <1>5, <1>6, <1>7, <1>8, <1>9, Zenon DEF GroupInv

\* Facts about the state in which a record is fed.
LEMMA FeedContext ==
  ASSUME IInv, pc = "feed", fed < batchEnd
  PROVE  /\ fed \in 0..N-1 /\ fed + 1 \in LSN /\ fed + 1 <= head
         /\ Running /\ ~Committed /\ resume = row /\ acked = 0
         /\ Wal[fed+1].kind \in Kinds
         /\ Cursor \in 0..fed
<1>1. fed \in 0..N-1 /\ fed + 1 <= head /\ Running /\ ~Committed
  BY WalType DEF IInv, TypeOK, EngineInv, Running, Committed
<1>2. fed + 1 \in LSN BY <1>1, WalType DEF LSN
<1>3. Cursor \in 0..fed
  <2>1. CASE open = NoUnit
    BY <2>1, <1>1 DEF Cursor
  <2>2. CASE open # NoUnit
    <3>1. open.first \in 1..fed /\ Cursor = open.first - 1
      BY <2>2, Zenon DEF IInv, AssemblerInv, Cursor
    <3> QED BY <3>1, <1>1, SMTT(30)
  <2> QED BY <2>1, <2>2, Zenon
<1> QED BY <1>1, <1>2, <1>3, WalType, Zenon DEF IInv, PhaseInv

\* BEGIN opens a unit at the cursor.
LEMMA FeedBeginIInv ==
  ASSUME IInv, Feed, FeedBegin
  PROVE  /\ open' \in [first : 0..N, mem : Nat, spillTo : 0..N]
         /\ AssemblerInv' /\ GroupInv' /\ StagedInv' /\ Cursor' = Cursor
<1> USE WalType
<1>1. /\ fed \in 0..N-1 /\ fed + 1 \in LSN /\ Running /\ ~Committed /\ fed' = fed + 1
  BY FeedContext, Zenon DEF Feed
<1>2. Boundary(fed) /\ ~Boundary(fed + 1)
  BY <1>1, NextRecord, Zenon DEF FeedBegin
<1>3. open = NoUnit /\ Cursor = fed
  BY <1>1, <1>2, Zenon DEF IInv, AssemblerInv, Cursor
<1>4. /\ open' = [first |-> fed + 1, mem |-> 0, spillTo |-> fed]
      /\ open' # NoUnit /\ Cursor' = fed
      /\ group' = group /\ staged' = staged /\ resume' = resume /\ pc' = pc
  BY <1>1 DEF FeedBegin, Feed, NoUnit, Cursor
<1>5. open' \in [first : 0..N, mem : Nat, spillTo : 0..N]
  BY <1>1, <1>4, SMTT(30)
<1>6. AssemblerInv'
  BY <1>1, <1>2, <1>4, SMTT(30) DEF AssemblerInv, Boundary, LSN
<1>7. GroupInv'
  BY <1>3, <1>4, Zenon DEF IInv, GroupInv, UnitInv, LastUnit, Running
<1>8. StagedInv'
  BY <1>1, <1>4, SMTT(30) DEF IInv, StagedInv, Committed
<1> QED BY <1>3, <1>4, <1>5, <1>6, <1>7, <1>8, Zenon

\* A row event extends the open unit, and may stage its in-memory tail.
LEMMA FeedDataIInv ==
  ASSUME IInv, Feed, FeedData
  PROVE  /\ open' \in [first : 0..N, mem : Nat, spillTo : 0..N]
         /\ staged' \subseteq LSN
         /\ AssemblerInv' /\ GroupInv' /\ StagedInv' /\ Cursor' = Cursor
<1> USE WalType, BoundsAssumption
<1>1. /\ fed \in 0..N-1 /\ fed + 1 \in LSN /\ Running /\ ~Committed /\ fed' = fed + 1
  BY FeedContext, Zenon DEF Feed
<1>2. ~Boundary(fed) /\ ~Boundary(fed + 1)
  BY <1>1, NextRecord, Zenon DEF FeedData
<1>3. /\ open # NoUnit
      /\ open.first \in 1..fed /\ Boundary(open.first - 1)
      /\ \A m \in open.first..fed : ~Boundary(m)
      /\ open.spillTo \in open.first-1..fed
      /\ open.mem \in Nat /\ open.mem <= fed - open.first
      /\ SpillEvents > N => open.spillTo = open.first - 1
      /\ open \in [first : 0..N, mem : Nat, spillTo : 0..N]
  BY <1>1, <1>2, Zenon DEF IInv, TypeOK, AssemblerInv
<1>4. /\ group' = group /\ resume' = resume /\ pc' = pc
      /\ staged \subseteq LSN /\ SpillEvents \in Nat
  BY Zenon DEF FeedData, Feed, IInv, TypeOK, BoundsAssumption
<1>5. /\ open' \in [first : 0..N, mem : Nat, spillTo : 0..N]
      /\ open'.first = open.first /\ open' # NoUnit
      /\ open'.mem <= fed' - open.first
      /\ \/ open'.spillTo = open.spillTo /\ staged' = staged
         \/ /\ open'.spillTo = fed + 1 /\ SpillEvents <= N
            /\ staged' = staged \cup {l \in open.spillTo+1..fed+1 : Wal[l].kind = "data"}
  <2>1. CASE open.mem + 1 >= SpillEvents
    <3>1. /\ open' = [open EXCEPT !.mem = 0, !.spillTo = fed + 1]
          /\ staged' = staged \cup {l \in open.spillTo+1..fed+1 : Wal[l].kind = "data"}
      BY <2>1, Zenon DEF FeedData
    <3>2. /\ open' \in [first : 0..N, mem : Nat, spillTo : 0..N]
          /\ open'.first = open.first /\ open'.mem = 0 /\ open'.spillTo = fed + 1
      <4>1. open' = [first |-> open.first, mem |-> 0, spillTo |-> fed + 1]
        BY <3>1, <1>3, Zenon
      <4>2. open.first \in 0..N /\ fed + 1 \in 0..N BY <1>1, <1>3, SMTT(30)
      <4> QED BY <4>1, <4>2, Zenon
    <3>3. open' # NoUnit
      BY <3>2, <1>3, SMTT(30) DEF NoUnit
    <3>4. SpillEvents <= N
      BY <2>1, <1>1, <1>3, <1>4, SMTT(30)
    <3> QED BY <3>1, <3>2, <3>3, <3>4, <1>1, <1>3, SMTT(30)
  <2>2. CASE ~(open.mem + 1 >= SpillEvents)
    <3>1. open' = [open EXCEPT !.mem = open.mem + 1] /\ staged' = staged
      BY <2>2, Zenon DEF FeedData
    <3>2. /\ open' \in [first : 0..N, mem : Nat, spillTo : 0..N]
          /\ open'.first = open.first /\ open'.mem = open.mem + 1
          /\ open'.spillTo = open.spillTo
      BY <3>1, <1>1, <1>3, SMTT(30)
    <3>3. open' # NoUnit
      BY <3>2, <1>3, SMTT(30) DEF NoUnit
    <3> QED BY <3>1, <3>2, <3>3, <1>1, <1>3, SMTT(30)
  <2> QED BY <2>1, <2>2, Zenon
<1>6. Cursor' = Cursor
  BY <1>3, <1>5, Zenon DEF Cursor
<1>7. staged' \subseteq LSN
  <2>1. open.spillTo+1..fed+1 \subseteq LSN
    BY <1>1, <1>3, SMTT(30) DEF LSN
  <2> QED BY <2>1, <1>4, <1>5, Zenon
<1>8. AssemblerInv'
  <2>1. \A m \in open.first..fed+1 : ~Boundary(m)
    BY <1>1, <1>2, <1>3, SMTT(30)
  <2> QED BY <2>1, <1>1, <1>2, <1>3, <1>4, <1>5, SMTT(30) DEF AssemblerInv, Boundary
<1>9. GroupInv'
  BY <1>4, <1>6, Zenon DEF IInv, GroupInv, UnitInv, LastUnit, Running
<1>10. staged \subseteq staged'
  BY <1>5, Zenon
<1>11. StagedInv'
  <2> SUFFICES ASSUME StagedSafe
               PROVE  /\ \A l \in open'.first..open'.spillTo :
                            Wal[l].kind = "data" => l \in staged'
                      /\ \A i \in DOMAIN group : \A l \in group[i].first..group[i].spillTo :
                            Wal[l].kind = "data" => l \in staged'
    BY <1>4, Zenon DEF StagedInv, StagedSafe
  <2>1. \A l \in open.first..open.spillTo : Wal[l].kind = "data" => l \in staged
    BY <1>3, Zenon DEF IInv, StagedInv
  <2>2. \A i \in DOMAIN group : \A l \in group[i].first..group[i].spillTo :
           Wal[l].kind = "data" => l \in staged
    BY <1>1, Zenon DEF IInv, StagedInv
  <2> QED BY <2>1, <2>2, <1>1, <1>3, <1>5, <1>10, SMTT(30)
<1> QED BY <1>5, <1>6, <1>7, <1>8, <1>9, <1>11, Zenon

\* END closes the unit and appends it, fenced when it is already durable.
LEMMA FeedEndIInv ==
  ASSUME IInv, Feed, FeedEnd
  PROVE  /\ open' \in [first : 0..N, mem : Nat, spillTo : 0..N]
         /\ group' \in Seq(Unit) /\ Len(group') = Len(group) + 1
         /\ \A i \in 1..Len(group) : group'[i] = group[i]
         /\ group'[Len(group')].last = fed'
         /\ AssemblerInv' /\ GroupInv' /\ StagedInv' /\ Cursor' = fed'
<1> USE WalType
<1> DEFINE u == [first |-> open.first, last |-> fed + 1, spillTo |-> open.spillTo,
                 fenced |-> TRUE /\ fed + 1 <= resume.lsn]
<1>1. /\ fed \in 0..N-1 /\ fed + 1 \in LSN /\ Running /\ ~Committed /\ fed' = fed + 1
  BY FeedContext, Zenon DEF Feed
<1>2. ~Boundary(fed) /\ Boundary(fed + 1) /\ Wal[fed + 1].kind = "end"
  BY <1>1, NextRecord, Zenon DEF FeedEnd
<1>3. /\ open # NoUnit
      /\ open.first \in 1..fed /\ Boundary(open.first - 1)
      /\ \A m \in open.first..fed : ~Boundary(m)
      /\ open.spillTo \in open.first-1..fed
      /\ SpillEvents > N => open.spillTo = open.first - 1
      /\ Cursor = open.first - 1
  BY <1>1, <1>2, Zenon DEF IInv, TypeOK, AssemblerInv, Cursor
<1>4. /\ group' = Append(group, u) /\ open' = NoUnit /\ staged' = staged
      /\ resume' = resume /\ pc' = pc
  BY Zenon DEF FeedEnd, Feed, AddUnit
<1>5. resume.lsn \in 0..N /\ group \in Seq(Unit)
  BY Zenon DEF IInv, TypeOK
<1>6. PICK w \in Unit :
        /\ w = u
        /\ w.first = open.first /\ w.last = fed + 1
        /\ w.spillTo = open.spillTo
        /\ w.fenced => fed + 1 <= resume.lsn
        /\ fed + 1 <= resume.lsn => w.fenced
  <2>1. u = [first |-> open.first, last |-> fed + 1, spillTo |-> open.spillTo,
             fenced |-> fed + 1 <= resume.lsn]
    OBVIOUS
  <2>2. /\ open.first \in 1..N+1 /\ fed + 1 \in 0..N /\ open.spillTo \in 0..N
        /\ (fed + 1 <= resume.lsn) \in BOOLEAN
    BY <1>1, <1>3, <1>5, SMTT(30)
  <2>3. \A b \in BOOLEAN : [first |-> open.first, last |-> fed + 1,
                            spillTo |-> open.spillTo, fenced |-> b] \in Unit
    BY <2>2, Zenon DEF Unit
  <2>4. u \in Unit
    BY <2>1, <2>2, <2>3, Zenon
  <2>5. /\ u.first = open.first /\ u.last = fed + 1 /\ u.spillTo = open.spillTo
        /\ u.fenced = (fed + 1 <= resume.lsn)
    BY <2>1, Zenon
  <2> HIDE DEF u
  <2> QED BY <2>4, <2>5, Zenon
<1> HIDE DEF u
<1>7. Cursor' = fed' /\ Running' /\ ~Committed'
  BY <1>1, <1>4, Zenon DEF Cursor, Running, Committed
<1>8. UnitInv(w)'
  <2>1. /\ Boundary(w.first - 1) /\ Boundary(w.last) /\ w.first <= w.last + 1
        /\ \A m \in w.first..w.last-1 : ~Boundary(m)
    BY <1>1, <1>2, <1>3, <1>6, SMTT(30)
  <2>2. /\ w.fenced => w.last <= resume.lsn
        /\ ~w.fenced => resume.lsn < w.last
        /\ SpillEvents > N => w.spillTo = w.first - 1
        /\ w.last = Cursor' /\ w.spillTo < w.last
    BY <1>1, <1>3, <1>5, <1>6, <1>7, SMTT(30)
  <2> QED BY <2>1, <2>2, <1>1, <1>4, <1>6, SMTT(30) DEF UnitInv, Boundary
<1>9. GroupInv'
  BY <1>1, <1>3, <1>4, <1>6, <1>7, <1>8, AppendUnit, SMTT(30)
<1>10. AssemblerInv'
  BY <1>1, <1>2, <1>4, Zenon DEF AssemblerInv, Boundary
<1>11. /\ group' \in Seq(Unit) /\ Len(group') = Len(group) + 1
       /\ \A i \in 1..Len(group) : group'[i] = group[i]
       /\ group'[Len(group) + 1] = w
       /\ Len(group) \in Nat
  BY <1>4, <1>5, <1>6, SMTT(30)
<1>12. StagedInv'
  <2> SUFFICES ASSUME StagedSafe, NEW i \in 1..Len(group)+1,
                      NEW l \in group'[i].first..group'[i].spillTo, Wal[l].kind = "data"
               PROVE  l \in staged
    BY <1>4, <1>11, SMTT(30) DEF StagedInv
  <2>1. CASE i = Len(group) + 1
    BY <2>1, <1>3, <1>6, <1>11, Zenon DEF IInv, StagedInv
  <2>2. CASE i # Len(group) + 1
    BY <2>2, <1>1, <1>5, <1>11, SMTT(30) DEF IInv, StagedInv
  <2> QED BY <2>1, <2>2, Zenon
<1>13. open' \in [first : 0..N, mem : Nat, spillTo : 0..N]
  BY <1>4 DEF NoUnit
<1> QED BY <1>6, <1>1, <1>7, <1>9, <1>10, <1>11, <1>12, <1>13, Zenon

\* A unit of one position, or of none, appended at the cursor while no
\* transaction is open: a logical message, or a heartbeat.
LEMMA AppendSmall ==
  ASSUME IInv, Running, ~Committed, open = NoUnit, open' = NoUnit, pc' \in {pc, "feed"},
         resume' = resume, staged' = staged, fed' \in {fed, fed + 1}, fed' \in 0..N,
         Boundary(fed'), fed' = fed + 1 => Wal[fed + 1].kind = "message",
         AddUnit(fed + 1, fed', fed, FALSE)
  PROVE  /\ group' \in Seq(Unit) /\ Len(group') = Len(group) + 1
         /\ \A i \in 1..Len(group) : group'[i] = group[i]
         /\ group'[Len(group')].last = fed'
         /\ AssemblerInv' /\ GroupInv' /\ StagedInv' /\ Cursor' = fed' /\ Cursor = fed
<1> USE WalType
<1>1. /\ fed \in 0..N /\ resume.lsn \in 0..N /\ group \in Seq(Unit)
      /\ Boundary(fed) /\ Cursor = fed /\ Cursor' = fed'
      /\ Running' /\ ~Committed'
  BY Zenon DEF IInv, TypeOK, AssemblerInv, Cursor, Running, Committed
<1>2. PICK w \in Unit : w = [first |-> fed + 1, last |-> fed', spillTo |-> fed, fenced |-> FALSE]
  <2>1. fed + 1 \in 1..N+1 /\ fed' \in 0..N
    BY <1>1, SMTT(30)
  <2>2. [first |-> fed + 1, last |-> fed', spillTo |-> fed, fenced |-> FALSE] \in Unit
    BY <2>1, <1>1, Zenon DEF Unit
  <2> QED BY <2>2, Zenon
<1>3. group' = Append(group, w)
  <2>1. (FALSE /\ fed' <= resume.lsn) = FALSE
    BY Zenon
  <2> QED BY <2>1, <1>2, Zenon DEF AddUnit
<1>4. UnitInv(w)'
  <2>0. w.first = fed + 1 /\ w.last = fed' /\ w.first - 1 = fed /\ ~w.fenced
    BY <1>1, <1>2, SMTT(30)
  <2>1. /\ Boundary(w.first - 1) /\ Boundary(w.last) /\ w.first <= w.last + 1
        /\ \A m \in w.first..w.last-1 : ~Boundary(m)
    <3>1. fed \in Int /\ fed' \in {fed, fed + 1} BY <1>1, SMTT(30)
    <3>2. w.first <= w.last + 1 /\ w.first..w.last-1 = {} BY <3>1, <2>0, SMTT(30)
    <3>3. Boundary(w.first - 1) /\ Boundary(w.last) BY <1>1, <2>0, Zenon
    <3> QED BY <3>2, <3>3, Zenon
  <2>2. /\ ~w.fenced /\ w.last = Cursor' /\ w.spillTo = w.first - 1
        /\ w.first <= w.last => Wal[w.last].kind # "end" /\ w.spillTo < w.last
    BY <1>1, <1>2, SMTT(30)
  <2>3. Boundary(w.first - 1)' /\ Boundary(w.last)'
    BY <2>1, Zenon DEF Boundary
  <2>4. \A m \in w.first..w.last-1 : ~Boundary(m)'
    BY <2>1, Zenon DEF Boundary
  <2>5. /\ w.last <= Cursor'
        /\ w.fenced => w.last <= resume'.lsn
        /\ (~w.fenced /\ w.first <= w.last /\ Wal[w.last].kind = "end") => resume'.lsn < w.last
    BY <2>0, <2>2, <1>1, SMTT(30)
  <2> QED BY <2>1, <2>2, <2>3, <2>4, <2>5, Zenon DEF UnitInv
<1>5. GroupInv'
  BY <1>1, <1>2, <1>3, <1>4, AppendUnit, Zenon
<1>6. AssemblerInv'
  BY <1>1, Zenon DEF AssemblerInv, Boundary
<1>7. /\ group' \in Seq(Unit) /\ Len(group') = Len(group) + 1
      /\ \A i \in 1..Len(group) : group'[i] = group[i]
      /\ group'[Len(group) + 1] = w
      /\ Len(group) \in Nat
  BY <1>1, <1>3, SMTT(30)
<1>8. StagedInv'
  <2> SUFFICES ASSUME StagedSafe, NEW i \in 1..Len(group)+1,
                      NEW l \in group'[i].first..group'[i].spillTo, Wal[l].kind = "data"
               PROVE  l \in staged
    BY <1>7, SMTT(30) DEF StagedInv
  <2>1. CASE i = Len(group) + 1
    BY <2>1, <1>1, <1>2, <1>7, SMTT(30)
  <2>2. CASE i # Len(group) + 1
    BY <2>2, <1>1, <1>7, SMTT(30) DEF IInv, StagedInv
  <2> QED BY <2>1, <2>2, Zenon
<1> QED BY <1>1, <1>2, <1>5, <1>6, <1>7, <1>8

\* Feeding one record.
LEMMA FeedIInv == IInv /\ Feed => IInv'
<1> SUFFICES ASSUME IInv, Feed PROVE IInv' BY Zenon
<1> USE WalType
<1>1. /\ fed \in 0..N-1 /\ fed + 1 \in LSN /\ fed + 1 <= head /\ fed' = fed + 1
      /\ Running /\ ~Committed /\ resume = row /\ acked = 0 /\ Cursor \in 0..fed
      /\ fed + 1 <= batchEnd
  BY FeedContext, SMTT(30) DEF Feed, IInv, TypeOK
<1>2. /\ UNCHANGED <<head, slot, file, rfile, marker, replaying, batchEnd, full, marked,
                     pc, acked, resume, close, rows, row, blocked, stops>>
  BY Zenon DEF Feed, source, disk
<1>3. /\ open' \in [first : 0..N, mem : Nat, spillTo : 0..N]
      /\ group' \in Seq(Unit) /\ staged' \subseteq LSN
      /\ Len(group) <= Len(group')
      /\ Cursor <= Cursor' /\ Cursor' <= fed'
      /\ \A i \in DOMAIN group' : group'[i].last = fed' \/ (i \in DOMAIN group /\ group'[i] = group[i])
      /\ AssemblerInv' /\ GroupInv' /\ StagedInv'
  <2>1. /\ group \in Seq(Unit) /\ staged \subseteq LSN
        /\ Len(group) \in Nat /\ DOMAIN group = 1..Len(group)
    BY SMTT(30) DEF IInv, TypeOK
  <2>2. CASE FeedBegin
    BY <2>1, <2>2, <1>1, FeedBeginIInv DEF FeedBegin
  <2>3. CASE FeedData
    BY <2>1, <2>3, <1>1, FeedDataIInv, SMTT(30) DEF FeedData
  <2>4. CASE FeedEnd
    BY <2>1, <2>4, <1>1, FeedEndIInv, SMTT(30) DEF FeedEnd
  <2>5. CASE FeedMessage
    <3>1. Boundary(fed) /\ Boundary(fed + 1) /\ Wal[fed + 1].kind = "message"
      BY <2>5, <1>1, NextRecord, Zenon DEF FeedMessage
    <3>2. open = NoUnit
      BY <3>1, <1>1, Zenon DEF IInv, AssemblerInv
    <3>3. AddUnit(fed + 1, fed', fed, FALSE)
      BY <2>5, <1>1, Zenon DEF FeedMessage
    <3>4. open' = NoUnit /\ staged' = staged
      BY <2>5, <3>2, Zenon DEF FeedMessage
    <3>5. /\ group' \in Seq(Unit) /\ Len(group') = Len(group) + 1
          /\ \A i \in 1..Len(group) : group'[i] = group[i]
          /\ group'[Len(group')].last = fed'
          /\ AssemblerInv' /\ GroupInv' /\ StagedInv' /\ Cursor' = fed' /\ Cursor = fed
      BY <3>1, <3>2, <3>3, <3>4, <1>1, <1>2, AppendSmall, SMTT(30)
    <3>6. open' \in [first : 0..N, mem : Nat, spillTo : 0..N]
      BY <3>4 DEF NoUnit
    <3> QED BY <3>4, <3>5, <3>6, <2>1, <1>1, SMTT(30)
  <2> QED BY <2>2, <2>3, <2>4, <2>5, ZenonT(30) DEF Feed
<1>4. TypeOK'
  <2>1. TypeOK BY Zenon DEF IInv
  <2>2. fed' \in 0..N BY <1>1, SMTT(30)
  <2>3. acked' \in 0..Len(group')
    <3>1. Len(group') \in Nat BY <1>3, SMTT(30)
    <3> QED BY <3>1, <1>1, <1>2, SMTT(30)
  <2> QED BY <2>1, <2>2, <2>3, <1>2, <1>3, Zenon DEF TypeOK
<1>5. OrderInv'
  BY <1>2, OrderUnchanged, Zenon DEF IInv
<1>9. Cursor' \in Int /\ marked \in 0..N /\ marked <= Cursor /\ marked <= fed'
  <2>1. Cursor' \in Int
    <3>1. open'.first \in Int /\ fed' \in Int BY <1>1, <1>3, SMTT(30)
    <3> QED BY <3>1, SMTT(30) DEF Cursor
  <2>2. marked \in 0..N /\ marked <= Cursor
    BY <1>1, Zenon DEF IInv, TypeOK, EngineInv
  <2> QED BY <2>1, <2>2, <1>1, SMTT(30)
<1>6. EngineInv'
  BY <1>1, <1>2, <1>3, <1>9, SMTT(30) DEF IInv, TypeOK, EngineInv, Running, InUse
<1>7. PhaseInv'
  <2>1. pc' = "feed" /\ Running' /\ ~Committed'
    BY <1>1, <1>2, Zenon DEF Feed, Running, Committed
  <2>2. resume' = row' /\ acked' = 0 BY <1>1, <1>2, Zenon
  <2>3. \A i \in DOMAIN group' : marked' <= group'[i].last
    <3>1. \A i \in DOMAIN group : marked <= group[i].last
      BY <1>1, SMTT(30) DEF IInv, TypeOK, PhaseInv
    <3>2. marked' = marked /\ marked <= fed' BY <1>2, <1>9, Zenon
    <3>3. \A i \in DOMAIN group' :
            group'[i].last = fed' \/ (i \in DOMAIN group /\ group'[i] = group[i])
      BY <1>3, Zenon
    <3> HIDE DEF IInv
    <3> QED BY <3>1, <3>2, <3>3, Zenon
  <2> QED BY <2>1, <2>2, <2>3, Zenon DEF PhaseInv
<1>8. ExactlyOnce => ExactlyOnce'
  BY <1>2, ZenonT(30) DEF ExactlyOnce
<1> QED BY <1>3, <1>4, <1>5, <1>6, <1>7, <1>8, Zenon DEF IInv

\* A heartbeat appends an empty unit, or is retained by the open transaction.
LEMMA HandleHeartbeatIInv == IInv /\ HandleHeartbeat => IInv'
<1> SUFFICES ASSUME IInv, HandleHeartbeat PROVE IInv' BY Zenon
<1> USE WalType
<1>1. /\ fed \in 0..N /\ fed' = fed /\ batchEnd' = fed /\ pc' = "feed" /\ pc = "idle"
      /\ Running /\ ~Committed /\ Running' /\ ~Committed' /\ full' \in BOOLEAN
      /\ UNCHANGED <<head, slot, file, rfile, marker, replaying, marked, open, acked,
                     resume, close, rows, row, staged, blocked, stops>>
      /\ Cursor' = Cursor /\ Cursor \in Int
  BY SMTT(30)
     DEF HandleHeartbeat, IInv, TypeOK, Running, Committed, source, disk, dest, Cursor
<1>2. /\ group \in Seq(Unit) /\ Len(group) \in Nat /\ DOMAIN group = 1..Len(group)
      /\ acked = 0
  <2>1. group \in Seq(Unit) BY Zenon DEF IInv, TypeOK
  <2>2. acked = 0 BY <1>1, Zenon DEF IInv, PhaseInv, Committed
  <2> QED BY <2>1, <2>2, SMTT(30)
<1>3. /\ group' \in Seq(Unit) /\ Len(group) <= Len(group')
      /\ \A i \in DOMAIN group' : group'[i].last = Cursor \/ (i \in DOMAIN group /\ group'[i] = group[i])
      /\ AssemblerInv' /\ GroupInv' /\ StagedInv'
  <2>1. CASE open = NoUnit
    <3>1. Boundary(fed) BY <2>1, <1>1, Zenon DEF IInv, AssemblerInv
    <3>2. AddUnit(fed + 1, fed', fed, FALSE)
      BY <2>1, <1>1, Zenon DEF HandleHeartbeat
    <3>3. /\ open' = NoUnit /\ pc' \in {pc, "feed"} /\ resume' = resume /\ staged' = staged
          /\ fed' \in {fed, fed + 1} /\ fed' \in 0..N /\ Boundary(fed') /\ fed' = fed
      BY <2>1, <3>1, <1>1, Zenon
    <3>4. fed' # fed + 1
      <4>1. fed \in Int BY <1>1
      <4> QED BY <3>3, <4>1
    <3>5. /\ group' \in Seq(Unit) /\ Len(group') = Len(group) + 1
          /\ \A i \in 1..Len(group) : group'[i] = group[i]
          /\ group'[Len(group')].last = fed'
          /\ AssemblerInv' /\ GroupInv' /\ StagedInv' /\ Cursor = fed
      BY <2>1, <3>2, <3>3, <3>4, <1>1, AppendSmall, ZenonT(30)
    <3>6. Len(group) <= Len(group')
      BY <3>5, <1>2
    <3>7. ASSUME NEW i \in DOMAIN group'
          PROVE  group'[i].last = Cursor \/ (i \in DOMAIN group /\ group'[i] = group[i])
      <4>1. i = Len(group') \/ i \in 1..Len(group)
        BY <3>5, <1>2
      <4>2. fed' = Cursor
        BY <3>3, <3>5, Zenon
      <4> QED BY <4>1, <4>2, <3>5, <1>2, Zenon
    <3> QED BY <3>5, <3>6, <3>7, Zenon
  <2>2. CASE open # NoUnit
    <3>1. group' = group BY <2>2, Zenon DEF HandleHeartbeat
    <3>2. AssemblerInv' BY <1>1, Zenon DEF IInv, AssemblerInv, Boundary
    <3>3. GroupInv'
      BY <3>1, <1>1, Zenon DEF IInv, GroupInv, UnitInv, LastUnit, Boundary
    <3>4. StagedInv' BY <3>1, <1>1, Zenon DEF IInv, StagedInv
    <3> QED BY <3>1, <3>2, <3>3, <3>4, <1>2, SMTT(30)
  <2> QED BY <2>1, <2>2, ZenonT(30)
<1>4. TypeOK'
  <2>1. acked' \in 0..Len(group')
    <3>1. group' \in Seq(Unit) BY <1>3, Zenon
    <3>2. Len(group') \in Nat BY <3>1
    <3>3. acked' = 0 BY <1>1, <1>2, Zenon
    <3> QED BY <3>2, <3>3
  <2> QED BY <1>1, <1>3, <2>1, Zenon DEF IInv, TypeOK
<1>5. OrderInv'
  BY <1>1, OrderUnchanged, Zenon DEF IInv
<1>6. EngineInv'
  BY <1>1 DEF IInv, TypeOK, EngineInv, InUse
<1>7. PhaseInv'
  BY <1>1, <1>2, <1>3, Zenon DEF IInv, TypeOK, PhaseInv, EngineInv
<1>8. ExactlyOnce => ExactlyOnce'
  BY <1>1, Zenon DEF ExactlyOnce
<1> QED BY <1>3, <1>4, <1>5, <1>6, <1>7, <1>8, Zenon DEF IInv

-----------------------------------------------------------------------------
(* The destination COMMIT.                                                  *)

\* The point a group commits: a boundary that covers the group, not before
\* the durable LSN, whose offset map is not before what was marked.
LEMMA PointForFacts ==
  ASSUME IInv, pc = "window"
  PROVE  /\ PointFor \in [lsn : 0..N, off : 0..N]
         /\ PointFor.off = LastUnit.last /\ LastUnit.last = Cursor
         /\ row.lsn <= PointFor.lsn /\ PointFor.off <= PointFor.lsn
         /\ PointFor.lsn = row.lsn \/ PointFor.lsn = LastUnit.last
         /\ PointFor.lsn <= head /\ marked <= PointFor.off
         /\ Boundary(PointFor.lsn) /\ Boundary(PointFor.off)
         /\ Len(group) \in DOMAIN group /\ 1 \in DOMAIN group
<1> USE WalType
<1>1. /\ Running /\ ~Committed /\ group # <<>> /\ resume = row /\ acked = 0
  BY Zenon DEF IInv, PhaseInv, Running, Committed
<1>2. Len(group) \in DOMAIN group /\ 1 \in DOMAIN group /\ LastUnit \in Unit
  BY <1>1, SMTT(30) DEF IInv, TypeOK, LastUnit
<1>3. UnitInv(LastUnit) /\ LastUnit.last = Cursor
  BY <1>1, <1>2, Zenon DEF IInv, GroupInv, LastUnit
<1>4. LastUnit.last \in 0..N /\ row.lsn \in 0..N
  BY <1>2, Zenon DEF Unit, IInv, TypeOK
<1>5. PointFor = [lsn |-> MaxOf(row.lsn, LastUnit.last), off |-> LastUnit.last]
  BY <1>1, Zenon DEF PointFor, LastUnit
<1>6. LastUnit.last <= head /\ row.lsn <= head /\ marked <= LastUnit.last
  BY <1>1, <1>3, <1>4, SMTT(30) DEF IInv, TypeOK, OrderInv, EngineInv
<1>7. Boundary(LastUnit.last) /\ Boundary(row.lsn)
  BY <1>3, Zenon DEF UnitInv, IInv, OrderInv
<1> QED BY <1>2, <1>3, <1>4, <1>5, <1>6, <1>7, SMTT(30) DEF MaxOf

\* An unfenced transaction lies entirely after the durable LSN.
LEMMA UnfencedIsNew ==
  ASSUME IInv, pc = "window", NEW i \in DOMAIN group, ~group[i].fenced,
         NEW l \in LSN, l \in group[i].first..group[i].last, Wal[l].kind = "data"
  PROVE  row.lsn < l
<1> USE WalType
<1>1. resume = row /\ row.lsn \in 0..N /\ Boundary(row.lsn)
  BY Zenon DEF IInv, TypeOK, OrderInv, PhaseInv, Running, Committed
<1>2. UnitInv(group[i]) /\ group[i] \in Unit
  <2>1. UnitInv(group[i]) BY Zenon DEF IInv, GroupInv
  <2>2. group[i] \in Unit BY SMTT(30) DEF IInv, TypeOK
  <2> QED BY <2>1, <2>2, Zenon
<1>3. /\ group[i].first \in Int /\ group[i].last \in 0..N
      /\ Boundary(group[i].last)
      /\ \A m \in group[i].first..group[i].last-1 : ~Boundary(m)
  BY <1>2 DEF Unit, UnitInv
<1>4. ~Boundary(l)
  BY DEF Boundary, LSN
<1>5. l # group[i].last
  BY <1>3, <1>4, Zenon
<1>6. group[i].last \in LSN /\ Wal[group[i].last].kind \in {"end", "message"}
  BY <1>3, <1>5 DEF Boundary, LSN
<1>7. Wal[group[i].last].kind = "end"
  <2>1. group[i].last - 1 \in group[i].first..group[i].last-1
    BY <1>3, <1>5 DEF LSN
  <2>2. group[i].last - 1 \in 0..N-1 /\ ~Boundary(group[i].last - 1)
    BY <2>1, <1>3, <1>6 DEF LSN
  <2>3. Wal[group[i].last - 1 + 1].kind # "message"
    BY <2>2, NextRecord, Zenon
  <2> QED BY <2>3, <1>3, <1>6
<1>8. row.lsn < group[i].last
  BY <1>1, <1>2, <1>3, <1>5, <1>7, SMTT(30) DEF UnitInv, LSN
<1> QED BY <1>1, <1>3, <1>8 DEF LSN

\* At most one unit of the group delivers a position.
LEMMA DeliversOnce ==
  ASSUME IInv, NEW l \in LSN,
         NEW i \in DOMAIN group, Delivers(group[i], l),
         NEW j \in DOMAIN group, Delivers(group[j], l)
  PROVE  i = j
<1> USE WalType
<1>1. /\ group[i] \in Unit /\ group[j] \in Unit
      /\ i \in Nat /\ j \in Nat
      /\ i < j => group[i].last < group[j].first
      /\ j < i => group[j].last < group[i].first
  <2>1. group \in Seq(Unit) BY Zenon DEF IInv, TypeOK
  <2>2. group[i] \in Unit /\ group[j] \in Unit /\ i \in Nat /\ j \in Nat
    BY <2>1
  <2>3. /\ i < j => group[i].last < group[j].first
        /\ j < i => group[j].last < group[i].first
    BY Zenon DEF IInv, GroupInv
  <2> QED BY <2>2, <2>3, Zenon
<1>2. /\ group[i].first <= l /\ l <= group[i].last
      /\ group[j].first <= l /\ l <= group[j].last
      /\ group[i].first \in Int /\ group[i].last \in Int
      /\ group[j].first \in Int /\ group[j].last \in Int
  BY <1>1 DEF Delivers, EventsIn, Unit
<1> QED BY <1>1, <1>2 DEF LSN

\* How many elements a set of at most one element has.
LEMMA CardinalityOfNone == Cardinality({}) = 0
<1> DEFINE CS == CHOOSE f : f = [T \in SUBSET {} |->
                    IF T = {} THEN 0 ELSE 1 + f[T \ {CHOOSE x : x \in T}]]
           g == [T \in SUBSET {} |-> 0]
<1>1. g = [T \in SUBSET {} |-> IF T = {} THEN 0 ELSE 1 + g[T \ {CHOOSE x : x \in T}]]
  BY Zenon
<1>2. CS = [T \in SUBSET {} |-> IF T = {} THEN 0 ELSE 1 + CS[T \ {CHOOSE x : x \in T}]]
  BY <1>1, Zenon
<1>3. CS[{}] = 0
  BY <1>2, Zenon
<1> QED BY <1>3, Zenon DEF Cardinality

LEMMA CardinalityOfOne == ASSUME NEW e PROVE Cardinality({e}) = 1
<1> DEFINE CS == CHOOSE f : f = [T \in SUBSET {e} |->
                    IF T = {} THEN 0 ELSE 1 + f[T \ {CHOOSE x : x \in T}]]
           g == [T \in SUBSET {e} |-> IF T = {} THEN 0 ELSE 1]
<1>1. ASSUME NEW T \in SUBSET {e}, T # {} PROVE T \ {CHOOSE x : x \in T} = {}
  BY <1>1
<1>2. g = [T \in SUBSET {e} |-> IF T = {} THEN 0 ELSE 1 + g[T \ {CHOOSE x : x \in T}]]
  <2>1. g[{}] = 0 BY Zenon
  <2>2. \A T \in SUBSET {e} :
           g[T] = IF T = {} THEN 0 ELSE 1 + g[T \ {CHOOSE x : x \in T}]
    <3> TAKE T \in SUBSET {e}
    <3>1. CASE T = {} BY <3>1, Zenon
    <3>2. CASE T # {}
      <4>1. 1 + g[T \ {CHOOSE x : x \in T}] = 1 + 0 BY <3>2, <1>1, <2>1, Zenon
      <4>2. 1 + 0 = 1 OBVIOUS
      <4> QED BY <4>1, <4>2, <3>2, Zenon
    <3> QED BY <3>1, <3>2, Zenon
  <2> QED BY <2>2, Zenon
<1>3. CS = [T \in SUBSET {e} |-> IF T = {} THEN 0 ELSE 1 + CS[T \ {CHOOSE x : x \in T}]]
  BY <1>2, Zenon
<1>4. CS[{}] = 0 /\ CS[{e}] = 1 + CS[{e} \ {CHOOSE x : x \in {e}}]
  BY <1>3, Zenon
<1>5. CS[{e}] = 1
  <2>1. CS[{e}] = 1 + 0 BY <1>4, <1>1, Zenon
  <2> QED BY <2>1
<1> QED BY <1>5, Zenon DEF Cardinality

\* So a position gains one application or none.
LEMMA AppliedCount ==
  ASSUME IInv, NEW l \in LSN
  PROVE  /\ rows[l] \in Nat
         /\ (\E i \in DOMAIN group : Delivers(group[i], l)) => Applied[l] = rows[l] + 1
         /\ (\A i \in DOMAIN group : ~Delivers(group[i], l)) => Applied[l] = rows[l]
<1> DEFINE D == {i \in DOMAIN group : Delivers(group[i], l)}
<1>1. rows[l] \in Nat BY Zenon DEF IInv, TypeOK
<1>2. Applied[l] = rows[l] + Cardinality(D) BY Zenon DEF Applied
<1>3. ASSUME NEW i \in DOMAIN group, Delivers(group[i], l)
      PROVE  Applied[l] = rows[l] + 1
  <2>1. D = {i} BY <1>3, DeliversOnce, Zenon
  <2>2. Cardinality(D) = 1 BY <2>1, CardinalityOfOne, Zenon
  <2> QED BY <2>2, <1>2, Zenon
<1>4. ASSUME \A i \in DOMAIN group : ~Delivers(group[i], l)
      PROVE  Applied[l] = rows[l]
  <2>1. D = {} BY <1>4, Zenon
  <2>2. Cardinality(D) = 0 BY <2>1, CardinalityOfNone, Zenon
  <2> QED BY <2>2, <1>1, <1>2
<1> QED BY <1>1, <1>3, <1>4, Zenon

\* What the group adds, position by position.
LEMMA AppliedFacts ==
  ASSUME IInv, pc = "window"
  PROVE  /\ Applied \in [LSN -> Nat]
         /\ StagedSafe =>
              \A l \in LSN :
                /\ Applied[l] <= 1
                /\ PointFor.lsn < l => Applied[l] = 0
                /\ (/\ Wal[l].kind \in {"data", "message"}
                    /\ Wal[l].kind = "data" => Wal[l].tab \notin blocked
                    /\ l <= PointFor.lsn) => Applied[l] = 1
<1> USE WalType
<1>1. Applied \in [LSN -> Nat]
  <2>1. \A l \in LSN : Applied[l] \in Nat
    BY AppliedCount
  <2> QED BY <2>1, Zenon DEF Applied
<1>2. ASSUME StagedSafe, NEW l \in LSN
      PROVE  /\ Applied[l] <= 1
             /\ PointFor.lsn < l => Applied[l] = 0
             /\ (/\ Wal[l].kind \in {"data", "message"}
                 /\ Wal[l].kind = "data" => Wal[l].tab \notin blocked
                 /\ l <= PointFor.lsn) => Applied[l] = 1
  <2>1. /\ rows[l] \in Nat /\ rows[l] <= 1
        /\ row.lsn < l => rows[l] = 0
        /\ (/\ Wal[l].kind \in {"data", "message"}
            /\ Wal[l].kind = "data" => Wal[l].tab \notin blocked
            /\ l <= row.lsn) => rows[l] = 1
    BY <1>2, AppliedCount, Zenon DEF IInv, ExactlyOnce
  <2>2. /\ PointFor.lsn \in 0..N /\ row.lsn \in 0..N /\ row.lsn <= PointFor.lsn
        /\ LastUnit.last <= PointFor.lsn /\ LastUnit.last \in 0..N
        /\ PointFor.lsn = row.lsn \/ PointFor.lsn = LastUnit.last
    BY PointForFacts, Zenon DEF IInv, TypeOK
  <2>3. /\ resume = row /\ group # <<>> /\ ~Committed
    BY Zenon DEF IInv, PhaseInv, Running, Committed
  <2>4. ASSUME NEW i \in DOMAIN group, Delivers(group[i], l)
        PROVE  rows[l] = 0 /\ l <= PointFor.lsn
    <3>1. /\ ~group[i].fenced /\ l \in group[i].first..group[i].last
          /\ Wal[l].kind \in {"data", "message"}
          /\ Wal[l].kind = "message" => rows[l] = 0
      BY <2>4, Zenon DEF Delivers, EventsIn
    <3>2. rows[l] = 0
      BY <3>1, <2>1, UnfencedIsNew, Zenon
    <3>3. group[i].last <= LastUnit.last /\ group[i].last \in Int
      <4>1. group[i] \in Unit /\ UnitInv(group[i]) BY SMTT(30) DEF IInv, TypeOK, GroupInv
      <4>2. LastUnit.last = Cursor BY PointForFacts, Zenon
      <4> QED BY <4>1, <4>2, SMTT(30) DEF UnitInv, Unit
    <3>4. l <= PointFor.lsn BY <3>1, <3>3, <2>2 DEF LSN
    <3> QED BY <3>2, <3>4, Zenon
  <2>5. ASSUME Wal[l].kind \in {"data", "message"},
               Wal[l].kind = "data" => Wal[l].tab \notin blocked,
               row.lsn < l, l <= PointFor.lsn
        PROVE  \E i \in DOMAIN group : Delivers(group[i], l)
    <3>1. l <= LastUnit.last BY <2>2, <2>5, SMTT(30) DEF LSN
    <3>2. group[1].first - 1 <= row.lsn /\ group[1] \in Unit
      BY <2>3, PointForFacts, SMTT(30) DEF IInv, TypeOK, GroupInv
    <3>3. l \in group[1].first..LastUnit.last
      BY <3>1, <3>2, <2>2, <2>5 DEF LSN, Unit
    <3>4. PICK i \in DOMAIN group : l \in group[i].first..group[i].last
      BY <3>3, <2>3, Zenon DEF IInv, GroupInv
    <3>5. group[i] \in Unit /\ UnitInv(group[i]) BY SMTT(30) DEF IInv, TypeOK, GroupInv
    <3>6. ~group[i].fenced
      BY <3>4, <3>5, <2>2, <2>3, <2>5, SMTT(30) DEF UnitInv, Unit, LSN
    <3>7. l <= group[i].spillTo => l \in staged
      <4>1. CASE Wal[l].kind = "data"
        BY <4>1, <3>4, <3>5, <1>2, <2>3, SMTT(30) DEF IInv, StagedInv, Unit, LSN
      <4>2. CASE Wal[l].kind = "message"
        <5>1. Boundary(l) BY <4>2, Zenon DEF Boundary
        <5>2. l = group[i].last
          BY <5>1, <3>4, <3>5, SMTT(30) DEF UnitInv, Unit, LSN
        <5> QED BY <5>2, <3>4, <3>5, SMTT(30) DEF UnitInv, Unit, LSN
      <4> QED BY <4>1, <4>2, <2>5, Zenon
    <3>8. rows[l] = 0 BY <2>1, <2>5, Zenon
    <3> QED BY <2>5, <3>4, <3>6, <3>7, <3>8, Zenon DEF Delivers, EventsIn
  <2> QED BY <2>1, <2>2, <2>4, <2>5, AppliedCount, SMTT(30) DEF LSN
<1> QED BY <1>1, <1>2, Zenon

\* A COMMIT whose answer arrives.
LEMMA CommitIInv == IInv /\ Commit => IInv'
<1> SUFFICES ASSUME IInv, Commit PROVE IInv' BY Zenon
<1> USE WalType
<1>1. /\ pc = "window" /\ pc' = "ack" /\ acked' = 0 /\ staged' = {}
      /\ rows' = Applied /\ row' = PointFor
      /\ UNCHANGED <<head, slot, file, rfile, marker, replaying, fed, batchEnd, full,
                     marked, open, group, resume, close, blocked, stops>>
      /\ Running /\ ~Committed /\ Running' /\ Committed'
  BY Zenon DEF Commit, source, disk, engine, Running, Committed
<1>2. /\ group # <<>> /\ ~OpenUnitHasSpilled /\ acked = 0 /\ resume = row
  BY <1>1, Zenon DEF IInv, PhaseInv
<1>3. TypeOK'
  <2>1. row' \in [lsn : 0..N, off : 0..N] /\ rows' \in [LSN -> Nat]
    BY <1>1, PointForFacts, AppliedFacts, Zenon
  <2>2. acked' \in 0..Len(group')
    BY <1>1 DEF IInv, TypeOK
  <2> QED BY <1>1, <2>1, <2>2, Zenon DEF IInv, TypeOK
<1>4. /\ row.lsn <= row'.lsn /\ row'.off <= row'.lsn /\ row'.lsn <= head /\ marked <= row'.off
      /\ Boundary(row'.lsn) /\ Boundary(row'.off)
      /\ row'.lsn \in 0..N /\ row'.off \in 0..N
  BY <1>1, PointForFacts, Zenon
<1>5. slot <= marked /\ slot \in 0..N /\ marked \in 0..N
  BY <1>1, Zenon DEF IInv, TypeOK, EngineInv
<1>6. OrderInv'
  <2>1. Boundary(row.lsn)' /\ Boundary(row.off)'
    BY <1>4, Zenon DEF Boundary
  <2>2. Boundary(head)' /\ Boundary(slot)' /\ Boundary(marked)'
        /\ (file >= 0 => Boundary(file))' /\ (rfile >= 0 => Boundary(rfile))'
    BY <1>1, ZenonT(30) DEF IInv, OrderInv, Boundary
  <2>3. file <= row'.lsn /\ rfile <= row'.lsn /\ marked <= row'.lsn /\ slot <= row'.off
    <3>1. file \in Int /\ rfile \in Int /\ row.lsn \in Int
      BY DEF IInv, TypeOK, Corrupt
    <3>2. file <= row.lsn /\ rfile <= row.lsn
      BY Zenon DEF IInv, OrderInv
    <3> QED BY <3>1, <3>2, <1>4, <1>5, SMTT(30)
  <2> QED BY <1>1, <1>4, <2>1, <2>2, <2>3, Zenon DEF OrderInv
<1>7. EngineInv'
  BY <1>1, <1>4, <1>5, Zenon DEF IInv, EngineInv, InUse, Cursor
<1>8. AssemblerInv'
  BY <1>1, Zenon DEF IInv, AssemblerInv, Boundary
<1>9. GroupInv'
  BY <1>1, ZenonT(30) DEF IInv, GroupInv, UnitInv, LastUnit, Cursor, Boundary
<1>10. PhaseInv'
  BY <1>1, <1>2, Zenon DEF IInv, PhaseInv, OpenUnitHasSpilled, PointFor
<1>11. StagedInv'
  <2> SUFFICES ASSUME open # NoUnit PROVE open.first..open.spillTo = {}
    BY <1>1, Zenon DEF StagedInv
  <2> QED BY <1>2, SMTT(30) DEF OpenUnitHasSpilled, IInv, TypeOK
<1>12. StagedSafe => ExactlyOnce'
  BY <1>1, AppliedFacts, Zenon DEF ExactlyOnce
<1> QED
  BY <1>3, <1>6, <1>7, <1>8, <1>9, <1>10, <1>11, <1>12, Zenon DEF IInv, StagedSafe

\* A process that has ended keeps only the durable part of the invariant.
LEMMA EndedIInv ==
  ASSUME TypeOK', OrderInv', ~Running', open' = NoUnit, group' = <<>>, staged' = {},
         acked' = 0, pc' = "mark_installing" => rfile' >= 0,
         StagedSafe => ExactlyOnce'
  PROVE  IInv'
<1>1. EngineInv' /\ AssemblerInv' BY Zenon DEF EngineInv, AssemblerInv
<1>2. GroupInv' BY DEF GroupInv
<1>3. ~Committed' BY Zenon DEF Running, Committed
<1>4. PhaseInv' /\ StagedInv' BY <1>3, SMTT(30) DEF PhaseInv, StagedInv, Running
<1> QED BY <1>1, <1>2, <1>4, Zenon DEF IInv, StagedSafe

\* A COMMIT whose answer is lost.
LEMMA CommitAmbiguousIInv == IInv /\ CommitAmbiguous => IInv'
<1> SUFFICES ASSUME IInv, CommitAmbiguous PROVE IInv' BY Zenon
<1> USE WalType
<1>1. /\ pc = "window" /\ pc' = "down" /\ acked' = 0 /\ staged' = {}
      /\ open' = NoUnit /\ group' = <<>> /\ close' = FALSE /\ batchEnd' = fed /\ full' = FALSE
      /\ rows' = Applied /\ row' = PointFor
      /\ UNCHANGED <<head, slot, file, rfile, marker, replaying, fed, marked, resume, blocked>>
      /\ stops < MaxStops /\ stops' = stops + 1
      /\ Running /\ ~Running'
  BY Zenon DEF CommitAmbiguous, ForgetMemory, source, disk, Running
<1>2. TypeOK'
  <2>1. row' \in [lsn : 0..N, off : 0..N] /\ rows' \in [LSN -> Nat]
    BY <1>1, PointForFacts, AppliedFacts, Zenon
  <2>2. group' \in Seq(Unit) /\ acked' \in 0..Len(group')
    BY <1>1, SMTT(30)
  <2>3. open' \in [first : 0..N, mem : Nat, spillTo : 0..N]
    BY <1>1, SMTT(30) DEF NoUnit
  <2>4. stops' \in 0..MaxStops
    BY <1>1, BoundsAssumption, SMTT(30) DEF IInv, TypeOK, BoundsAssumption
  <2> QED BY <1>1, <2>1, <2>2, <2>3, <2>4, Zenon DEF IInv, TypeOK
<1>4. /\ row.lsn <= row'.lsn /\ row'.off <= row'.lsn /\ row'.lsn <= head /\ marked <= row'.off
      /\ Boundary(row'.lsn) /\ Boundary(row'.off)
      /\ row'.lsn \in 0..N /\ row'.off \in 0..N
  BY <1>1, PointForFacts, Zenon
<1>5. slot <= marked /\ slot \in 0..N /\ marked \in 0..N
  BY <1>1, Zenon DEF IInv, TypeOK, EngineInv
<1>6. OrderInv'
  <2>1. Boundary(row.lsn)' /\ Boundary(row.off)'
    BY <1>4, Zenon DEF Boundary
  <2>2. Boundary(head)' /\ Boundary(slot)' /\ Boundary(marked)'
        /\ (file >= 0 => Boundary(file))' /\ (rfile >= 0 => Boundary(rfile))'
    BY <1>1, Zenon DEF IInv, OrderInv, Boundary
  <2>3. file <= row'.lsn /\ rfile <= row'.lsn /\ marked <= row'.lsn /\ slot <= row'.off
    <3>1. file \in Int /\ rfile \in Int /\ row.lsn \in Int
      BY DEF IInv, TypeOK, Corrupt
    <3>2. file <= row.lsn /\ rfile <= row.lsn
      BY Zenon DEF IInv, OrderInv
    <3> QED BY <3>1, <3>2, <1>4, <1>5
  <2> QED BY <1>1, <1>4, <2>1, <2>2, <2>3, Zenon DEF OrderInv
<1>7. StagedSafe => ExactlyOnce'
  BY <1>1, AppliedFacts, Zenon DEF ExactlyOnce
<1> QED BY <1>1, <1>2, <1>6, <1>7, EndedIInv, Zenon

\* A contained table failure rolls back what was staged.
LEMMA ContainDestinationFailureIInv == IInv /\ ContainDestinationFailure => IInv'
<1> SUFFICES ASSUME IInv, ContainDestinationFailure PROVE IInv' BY Zenon
<1> USE WalType
<1>1. PICK t \in FailingTables \ blocked :
        /\ pc = "commit" /\ blocked' = blocked \cup {t} /\ staged' = {}
        /\ UNCHANGED <<source, disk, engine, applier, rows, row, stops>>
  BY Zenon DEF ContainDestinationFailure
<1>2. /\ UNCHANGED <<head, slot, file, rfile, marker, replaying, fed, batchEnd, full,
                     marked, pc, open, group, acked, resume, close, rows, row, stops>>
  BY <1>1, Zenon DEF source, disk, engine, applier
<1>3. TypeOK' BY <1>1, <1>2, ZenonT(30) DEF IInv, TypeOK
<1>4. OrderInv' /\ EngineInv'
  BY <1>2, ZenonT(30) DEF IInv, OrderInv, EngineInv, Running, InUse, Cursor
<1>5. AssemblerInv' /\ GroupInv'
  BY <1>2, ZenonT(30)
     DEF IInv, AssemblerInv, GroupInv, UnitInv, LastUnit, Running, Cursor, Boundary
<1>6. PhaseInv'
  BY <1>1, <1>2, Zenon
     DEF IInv, PhaseInv, OpenUnitHasSpilled, PointFor, Running, Committed
<1>7. StagedInv'
  <2> SUFFICES ASSUME StagedSafe
               PROVE  /\ open # NoUnit => open.first..open.spillTo = {}
                      /\ \A i \in DOMAIN group : group[i].first..group[i].spillTo = {}
    BY <1>1, <1>2, ZenonT(30) DEF StagedInv
  <2>1. SpillEvents > N
    BY <1>1, Zenon DEF StagedSafe
  <2>2. open # NoUnit => open.spillTo = open.first - 1 /\ open.first \in Int
    BY <2>1, SMTT(30) DEF IInv, TypeOK, AssemblerInv
  <2>3. \A i \in DOMAIN group : group[i].spillTo = group[i].first - 1
    BY <2>1, ZenonT(30) DEF IInv, GroupInv, UnitInv
  <2>4. \A i \in DOMAIN group : group[i].first \in Int
    <3>1. \A i \in DOMAIN group : group[i] \in Unit BY SMTT(30) DEF IInv, TypeOK
    <3> QED BY <3>1, SMTT(30) DEF Unit
  <2> QED BY <2>2, <2>3, <2>4, SMTT(30)
<1>8. ExactlyOnce => ExactlyOnce'
  BY <1>1, <1>2, ZenonT(30) DEF ExactlyOnce
<1> QED BY <1>3, <1>4, <1>5, <1>6, <1>7, <1>8, Zenon DEF IInv, StagedSafe

\* markProcessed moves the mark to the next unit of a committed group.
LEMMA MarkProcessedIInv == IInv /\ MarkProcessed => IInv'
<1> SUFFICES ASSUME IInv, MarkProcessed PROVE IInv' BY Zenon
<1> USE WalType
<1>1. /\ pc = "ack" /\ acked < Len(group) /\ acked' = acked + 1
      /\ marked' = group[acked + 1].last
      /\ UNCHANGED <<head, slot, file, rfile, marker, replaying, fed, batchEnd, full, pc,
                     open, group, resume, close, rows, row, staged, blocked, stops>>
      /\ Running /\ Committed
  BY Zenon DEF MarkProcessed, source, disk, dest, Running, Committed
<1>2. /\ group \in Seq(Unit) /\ acked \in Nat /\ Len(group) \in Nat
      /\ DOMAIN group = 1..Len(group)
      /\ acked + 1 \in DOMAIN group /\ Len(group) \in DOMAIN group /\ group # <<>>
      /\ group[acked + 1] \in Unit /\ LastUnit \in Unit
  BY <1>1, SMTT(30) DEF IInv, TypeOK, LastUnit
<1>3. /\ marked <= group[acked + 1].last
      /\ row.off = LastUnit.last
      /\ row.off <= row.lsn /\ row.off \in 0..N /\ row.lsn \in 0..N
  <2>1. acked + 1 > acked BY <1>2
  <2>2. marked <= group[acked + 1].last
    BY <2>1, <1>2, Zenon DEF IInv, PhaseInv
  <2>3. row = PointFor BY <1>1, Zenon DEF IInv, PhaseInv
  <2>4. row.off = LastUnit.last BY <2>3, Zenon DEF PointFor, LastUnit
  <2>5. row.off <= row.lsn /\ row.off \in 0..N /\ row.lsn \in 0..N
    BY Zenon DEF IInv, TypeOK, OrderInv
  <2> QED BY <2>2, <2>4, <2>5, Zenon
<1>4. UnitInv(group[acked + 1]) /\ LastUnit.last = Cursor
  BY <1>2, Zenon DEF IInv, GroupInv
<1>5. /\ marked' \in 0..N /\ marked <= marked' /\ marked' <= row.off /\ marked' <= Cursor
      /\ Boundary(marked)' /\ marked' <= row.lsn
  <2>1. /\ group[acked + 1].last \in 0..N /\ LastUnit.last \in 0..N
        /\ group[acked + 1].last <= Cursor /\ Boundary(group[acked + 1].last)
    BY <1>2, <1>4, ZenonT(30) DEF UnitInv, Unit
  <2>2. Boundary(marked') BY <2>1, <1>1, Zenon
  <2>3. Boundary(marked)' BY <2>2, Zenon DEF Boundary
  <2> QED BY <2>1, <2>3, <1>1, <1>3, <1>4, SMTT(30)
<1>6. TypeOK'
  <2>1. acked' \in 0..Len(group') BY <1>1, <1>2, SMTT(30)
  <2> QED BY <1>1, <1>5, <2>1, Zenon DEF IInv, TypeOK
<1>7. OrderInv'
  BY <1>1, <1>5, Zenon DEF IInv, OrderInv, Boundary
<1>8. EngineInv'
  <2>1. slot <= marked /\ InUse <= marked /\ slot \in Int /\ InUse \in Int /\ marked \in Int
    BY <1>1, SMTT(30) DEF IInv, TypeOK, EngineInv, InUse, Corrupt
  <2>2. slot <= marked' /\ InUse <= marked'
    BY <2>1, <1>5, SMTT(30)
  <2>3. InUse' = InUse /\ Cursor' = Cursor /\ Running'
    BY <1>1, Zenon DEF InUse, Cursor, Running
  <2> QED BY <1>1, <1>5, <2>2, <2>3, Zenon DEF IInv, EngineInv
<1>9. AssemblerInv' /\ GroupInv' /\ StagedInv'
  BY <1>1, Zenon DEF IInv, AssemblerInv, GroupInv, StagedInv, UnitInv, LastUnit, Running,
              Committed, Cursor, Boundary
<1>10. \A i \in DOMAIN group : i > acked' => marked' <= group[i].last
  <2> SUFFICES ASSUME NEW i \in DOMAIN group, i > acked + 1
               PROVE  group[acked + 1].last <= group[i].last
    BY <1>1, ZenonT(30)
  <2>1. group[acked + 1].last < group[i].first
    BY <1>2, ZenonT(30) DEF IInv, GroupInv
  <2>2. group[i] \in Unit /\ UnitInv(group[i])
    <3>1. group[i] \in Unit BY <1>2, SMTT(30)
    <3> QED BY <3>1, Zenon DEF IInv, GroupInv
  <2> QED BY <2>1, <2>2, <1>2, SMTT(30) DEF UnitInv, Unit
<1>11. PhaseInv'
  BY <1>1, <1>10, Zenon
     DEF IInv, PhaseInv, OpenUnitHasSpilled, PointFor, Running, Committed
<1>12. ExactlyOnce => ExactlyOnce'
  BY <1>1, Zenon DEF ExactlyOnce
<1> QED BY <1>6, <1>7, <1>8, <1>9, <1>11, <1>12, Zenon DEF IInv, StagedSafe

\* After the window the group is reset and everything before it is durable.
LEMMA SettleIInv == IInv /\ Settle => IInv'
<1> SUFFICES ASSUME IInv, Settle PROVE IInv' BY Zenon
<1> USE WalType
<1>1. /\ pc = "settle" /\ pc' = "idle" /\ resume' = row /\ group' = <<>>
      /\ acked' = 0 /\ close' = FALSE
      /\ UNCHANGED <<head, slot, file, rfile, marker, replaying, fed, batchEnd, full, marked,
                     open, rows, row, staged, blocked, stops>>
      /\ Running /\ Committed /\ Running' /\ ~Committed'
  BY Zenon DEF Settle, source, disk, engine, dest, Running, Committed
<1>2. group' \in Seq(Unit) /\ acked' \in 0..Len(group') /\ DOMAIN group' = {}
  BY <1>1
<1>3. TypeOK'
  BY <1>1, <1>2, Zenon DEF IInv, TypeOK
<1>4. OrderInv'
  BY <1>1, OrderUnchanged, Zenon DEF IInv
<1>5. EngineInv'
  BY <1>1, Zenon DEF IInv, EngineInv, InUse, Cursor
<1>6. AssemblerInv'
  BY <1>1, Zenon DEF IInv, AssemblerInv, Boundary
<1>7. Cursor <= row.lsn
  <2>1. group # <<>> /\ row = PointFor BY <1>1, Zenon DEF IInv, PhaseInv
  <2>2. LastUnit.last = Cursor BY <2>1, Zenon DEF IInv, GroupInv
  <2>3. LastUnit \in Unit BY <2>1, SMTT(30) DEF IInv, TypeOK, LastUnit
  <2>4. row.lsn = MaxOf(resume.lsn, LastUnit.last) BY <2>1, Zenon DEF PointFor, LastUnit
  <2>5. resume.lsn \in Int /\ LastUnit.last \in Int
    BY <2>3, SMTT(30) DEF IInv, TypeOK, Unit
  <2> QED BY <2>2, <2>4, <2>5, SMTT(30) DEF MaxOf
<1>8. GroupInv'
  BY <1>1, <1>2, <1>7, Zenon DEF GroupInv, Cursor
<1>9. PhaseInv'
  BY <1>1, <1>2, Zenon DEF IInv, PhaseInv
<1>10. StagedInv'
  BY <1>1, <1>2, Zenon DEF IInv, StagedInv
<1>11. ExactlyOnce => ExactlyOnce'
  BY <1>1, Zenon DEF ExactlyOnce
<1> QED BY <1>3, <1>4, <1>5, <1>6, <1>8, <1>9, <1>10, <1>11, Zenon DEF IInv, StagedSafe

\* A process dies at any point.
LEMMA CrashIInv == IInv /\ Crash => IInv'
<1> SUFFICES ASSUME IInv, Crash PROVE IInv' BY Zenon
<1> USE WalType
<1>1. /\ pc' = "down" /\ acked' = 0 /\ staged' = {}
      /\ open' = NoUnit /\ group' = <<>> /\ close' = FALSE /\ batchEnd' = fed /\ full' = FALSE
      /\ UNCHANGED <<head, slot, marker, replaying, fed, marked, resume, rows, row, blocked>>
      /\ stops < MaxStops /\ stops' = stops + 1 /\ ~Running'
  BY Zenon DEF Crash, ForgetMemory, source, Running
<1>2. /\ file' \in {file, marked, Corrupt} /\ rfile' \in {rfile, marked, Corrupt}
  BY Zenon DEF Crash, SaveInUse
<1>3. TypeOK'
  <2>1. group' \in Seq(Unit) /\ acked' \in 0..Len(group')
    BY <1>1, SMTT(30)
  <2>2. open' \in [first : 0..N, mem : Nat, spillTo : 0..N]
    BY <1>1, SMTT(30) DEF NoUnit
  <2>3. stops' \in 0..MaxStops
    BY <1>1, BoundsAssumption, SMTT(30) DEF IInv, TypeOK, BoundsAssumption
  <2>4. file' \in Corrupt..N /\ rfile' \in Corrupt..N
    BY <1>2, SMTT(30) DEF IInv, TypeOK, Corrupt
  <2> QED BY <1>1, <2>1, <2>2, <2>3, <2>4, Zenon DEF IInv, TypeOK
<1>4. OrderInv'
  <2>0. /\ row.lsn \in 0..N /\ Corrupt < 0
        /\ marked <= row.lsn /\ Boundary(marked)
        /\ file <= row.lsn /\ (file >= 0 => Boundary(file))
        /\ rfile <= row.lsn /\ (rfile >= 0 => Boundary(rfile))
    BY SMTT(30) DEF IInv, TypeOK, OrderInv, Corrupt
  <2>1. file' <= row.lsn /\ (file' >= 0 => Boundary(file'))
    BY <1>2, <2>0, SMTT(30) DEF Corrupt
  <2>2. rfile' <= row.lsn /\ (rfile' >= 0 => Boundary(rfile'))
    BY <1>2, <2>0, SMTT(30) DEF Corrupt
  <2> QED BY <1>1, <2>1, <2>2, Zenon DEF IInv, OrderInv, Boundary
<1>5. StagedSafe => ExactlyOnce'
  BY <1>1, ZenonT(30) DEF IInv, ExactlyOnce
<1> QED BY <1>1, <1>3, <1>4, <1>5, EndedIInv, Zenon

\* A clean stop.
LEMMA DrainOnShutdownIInv == IInv /\ DrainOnShutdown => IInv'
<1> SUFFICES ASSUME IInv, DrainOnShutdown PROVE IInv' BY Zenon
<1> USE WalType
<1>1. /\ pc' \in {"down", "mark_installing"} /\ acked' = 0 /\ staged' = {}
      /\ pc' = "mark_installing" => rfile' >= 0
      /\ open' = NoUnit /\ group' = <<>> /\ close' = FALSE /\ batchEnd' = fed /\ full' = FALSE
      /\ UNCHANGED <<head, slot, file, rfile, marker, replaying, fed, marked, resume, rows,
                     row, blocked>>
      /\ stops < MaxStops /\ stops' = stops + 1 /\ ~Running'
  BY Zenon DEF DrainOnShutdown, ForgetMemory, source, disk, Running
<1>2. TypeOK'
  <2>1. group' \in Seq(Unit) /\ acked' \in 0..Len(group')
    BY <1>1, SMTT(30)
  <2>2. open' \in [first : 0..N, mem : Nat, spillTo : 0..N]
    BY <1>1, SMTT(30) DEF NoUnit
  <2>3. stops' \in 0..MaxStops
    BY <1>1, BoundsAssumption, SMTT(30) DEF IInv, TypeOK, BoundsAssumption
  <2> QED BY <1>1, <2>1, <2>2, <2>3, Zenon DEF IInv, TypeOK
<1>3. OrderInv'
  BY <1>1, OrderUnchanged, Zenon DEF IInv
<1>4. StagedSafe => ExactlyOnce'
  BY <1>1, Zenon DEF IInv, ExactlyOnce
<1> QED BY <1>1, <1>2, <1>3, <1>4, EndedIInv, Zenon

\* A start resumes at the file only when the file is the durable point, and
\* otherwise reads again from the slot.
LEMMA StartIInv == IInv /\ Start => IInv'
<1> SUFFICES ASSUME IInv, Start PROVE IInv' BY Zenon
<1> USE WalType
<1>1. /\ pc = "down" /\ pc' = "idle" /\ resume' = row /\ batchEnd' = fed' /\ full' = FALSE
      /\ marked' = fed'
      /\ UNCHANGED <<head, slot, open, group, acked, close, rows, row, staged, blocked, stops>>
      /\ ~Running /\ ~Committed /\ Running' /\ ~Committed'
  BY Zenon DEF Start, source, dest, Running, Committed
<1>2. /\ open = NoUnit /\ group = <<>> /\ staged = {} /\ acked = 0
  BY <1>1, Zenon DEF IInv, PhaseInv
<1>3. /\ slot \in 0..N /\ row.off \in 0..N /\ row.lsn \in 0..N /\ head \in 0..N
      /\ file \in Corrupt..N /\ rfile \in Corrupt..N
      /\ slot <= row.off /\ row.off <= row.lsn /\ row.lsn <= head
      /\ Boundary(slot) /\ Boundary(row.off) /\ Boundary(row.lsn) /\ Boundary(head)
      /\ file <= row.lsn /\ (file >= 0 => Boundary(file))
      /\ rfile <= row.lsn /\ (rfile >= 0 => Boundary(rfile))
      /\ marker \in [phase : {"none", "pending", "installing"}, fp : 0..N]
  BY Zenon DEF IInv, TypeOK, OrderInv
<1>4. \/ /\ replaying' = FALSE /\ fed' = row.off /\ file' = row.off /\ row.off = row.lsn
         /\ rfile' = rfile
      \/ /\ replaying' = TRUE /\ fed' = slot /\ rfile' = Missing
         /\ file' \in {file, row.off}
  BY Zenon DEF Start, FileAgrees
<1>5. marker' \in [phase : {"none", "pending", "installing"}, fp : 0..N]
  <2>1. /\ NoIntent \in [phase : {"none", "pending", "installing"}, fp : 0..N]
        /\ ArmedIntent \in [phase : {"none", "pending", "installing"}, fp : 0..N]
    BY DEF NoIntent, ArmedIntent
  <2> QED BY <2>1, <1>3, Zenon DEF Start, IntentAtStart
<1>6. /\ fed' \in 0..N /\ slot <= fed' /\ fed' <= row.off /\ Boundary(fed')
      /\ file' \in Corrupt..N /\ rfile' \in Corrupt..N
      /\ file' <= row.lsn /\ (file' >= 0 => Boundary(file'))
      /\ rfile' <= row.lsn /\ (rfile' >= 0 => Boundary(rfile'))
      /\ replaying' \in BOOLEAN
      /\ InUse' <= fed'
  <2>1. CASE /\ replaying' = FALSE /\ fed' = row.off /\ file' = row.off /\ row.off = row.lsn
             /\ rfile' = rfile
    <3>1. InUse' = row.off BY <2>1, Zenon DEF InUse
    <3>2. row.off \in Corrupt..N BY <1>3, SMTT(30) DEF Corrupt
    <3> QED BY <2>1, <1>3, <3>1, <3>2, Zenon
  <2>2. CASE /\ replaying' = TRUE /\ fed' = slot /\ rfile' = Missing
             /\ file' \in {file, row.off}
    <3>1. InUse' = Missing BY <2>2, Zenon DEF InUse
    <3>2. Missing \in Corrupt..N /\ Missing < 0 /\ Missing <= row.lsn /\ Missing <= slot
      BY <1>3, SMTT(30) DEF Missing, Corrupt
    <3>3. file' \in Corrupt..N /\ file' <= row.lsn /\ (file' >= 0 => Boundary(file'))
      BY <2>2, <1>3, SMTT(30) DEF Corrupt
    <3> QED BY <2>2, <1>3, <3>1, <3>2, <3>3, SMTT(30)
  <2> QED BY <2>1, <2>2, <1>4, Zenon
<1>7. TypeOK'
  BY <1>1, <1>5, <1>6, Zenon DEF IInv, TypeOK
<1>8. OrderInv'
  <2>1. marked' <= row.lsn BY <1>1, <1>3, <1>6, SMTT(30)
  <2> QED BY <2>1, <1>1, <1>3, <1>6, Zenon DEF OrderInv
<1>9. Cursor' = fed' BY <1>1, <1>2, Zenon DEF Cursor
<1>10. EngineInv'
  BY <1>1, <1>3, <1>6, <1>9 DEF EngineInv
<1>11. AssemblerInv'
  BY <1>1, <1>2, <1>6, Zenon DEF AssemblerInv, Boundary
<1>12. DOMAIN group' = {} BY <1>1, <1>2, SMTT(30)
<1>13. GroupInv'
  BY <1>1, <1>2, <1>3, <1>6, <1>9, <1>12, SMTT(30) DEF GroupInv
<1>14. PhaseInv' /\ StagedInv'
  BY <1>1, <1>2, <1>12, ZenonT(30) DEF PhaseInv, StagedInv
<1>15. ExactlyOnce => ExactlyOnce'
  BY <1>1, Zenon DEF ExactlyOnce
<1> QED BY <1>7, <1>8, <1>10, <1>11, <1>13, <1>14, <1>15, Zenon DEF IInv, StagedSafe

-----------------------------------------------------------------------------
(* The theorems.                                                            *)

\* IInv is inductive.
LEMMA NextIInv == IInv /\ [Next]_vars => IInv'
<1> SUFFICES ASSUME IInv, [Next]_vars PROVE IInv' OBVIOUS
<1>1. CASE Next
  BY <1>1, SourceCommitIInv, HandleBatchIInv, FeedIInv, HandleHeartbeatIInv,
     EndOfBatchIInv,
     AgeTimerIInv, ApplyGroupIInv, ContainDestinationFailureIInv, CommitIInv,
     MarkProcessedIInv, MarkBatchFinishedIInv, SettleIInv, EngineConfirmIInv, CrashIInv,
     CommitAmbiguousIInv, DrainOnShutdownIInv, MarkReplayInstallingIInv,
     InstallReplayOffsetIInv, ClearReplayIntentIInv, LoseFileIInv, StartIInv,
     CrashBeforeRepairIInv, Zenon
     DEF Next
<1>2. CASE UNCHANGED vars
  <2>1. UNCHANGED <<head, slot, file, rfile, marker, replaying, fed, batchEnd, full, marked,
                    pc, open, group, acked, resume, close, rows, row, staged, blocked, stops>>
    BY <1>2, SMTT(30) DEF vars, source, disk, engine, applier, dest
  <2>2. TypeOK' BY <2>1, ZenonT(30) DEF IInv, TypeOK
  <2>5. OrderInv' BY <2>1, SMTT(30) DEF IInv, OrderInv, Boundary
  <2>6. EngineInv' BY <2>1, Zenon DEF IInv, EngineInv, Running, InUse, Cursor
  <2>7. AssemblerInv' BY <2>1, Zenon DEF IInv, AssemblerInv, Running, Boundary
  <2>3. GroupInv' /\ PhaseInv' /\ StagedInv'
    BY <2>1, ZenonT(30)
       DEF IInv, GroupInv, PhaseInv, StagedInv, UnitInv, LastUnit, Running, Committed,
                Cursor, Boundary, PointFor, OpenUnitHasSpilled
  <2>4. ExactlyOnce => ExactlyOnce'
    BY <2>1, ZenonT(30) DEF ExactlyOnce
  <2> QED BY <2>2, <2>3, <2>4, <2>5, <2>6, <2>7, SMTT(30) DEF IInv, StagedSafe
<1> QED BY <1>1, <1>2

\* The invariant holds in every state of every behaviour.
THEOREM Inductive == Spec => []IInv
BY InitIInv, NextIInv, PTL DEF Spec

\* Every variable of the protocol keeps its type.
THEOREM TypeCorrect == Spec => []TypeOK
<1>1. IInv => TypeOK BY SMTT(30) DEF IInv
<1> QED BY Inductive, <1>1, PTL

\* Invariant O for every log, batch size, threshold and number of crashes:
\* nothing is marked, flushed or confirmed before it is committed.
THEOREM AckAfterCommit == Spec => []InvariantO
<1>1. IInv => InvariantO BY SMTT(30) DEF IInv, TypeOK, OrderInv, InvariantO
<1> QED BY Inductive, <1>1, PTL

\* Whatever a replay wrote, the slot still holds what a restart reads.
THEOREM ReplayReadable == Spec => []ReplayStaysReadable
<1>1. IInv => ReplayStaysReadable
  <2> SUFFICES ASSUME IInv PROVE ReplayStaysReadable OBVIOUS
  <2>1. slot <= row.off BY DEF IInv, OrderInv
  <2>2. ASSUME Running PROVE slot <= fed
    <3>1. slot <= marked /\ marked <= Cursor /\ Cursor <= fed
      BY <2>2 DEF IInv, EngineInv
    <3>2. slot \in Int /\ marked \in Int /\ Cursor \in Int /\ fed \in Int
      BY WalType, SMTT(30) DEF IInv, TypeOK, Cursor
    <3> QED BY <3>1, <3>2
  <2> QED BY <2>1, <2>2 DEF ReplayStaysReadable
<1> QED BY Inductive, <1>1, PTL

\* Invariant B: every durable position is between whole transactions.
THEOREM AtBoundaries == Spec => []WholeTransactions
<1>1. IInv => WholeTransactions BY DEF IInv, OrderInv, WholeTransactions
<1> QED BY Inductive, <1>1, PTL

\* Exactly once, whenever no table can fail or no unit is staged.
THEOREM EachEventOnce == ASSUME StagedSafe PROVE Spec => []ExactlyOnce
<1>1. IInv => ExactlyOnce BY DEF IInv
<1> QED BY Inductive, <1>1, PTL

-----------------------------------------------------------------------------
(* The refinement.                                                          *)

\* What is accounted for is exactly the prefix the resume point names.
LEMMA AccountedPrefix ==
  ASSUME IInv, StagedSafe
  PROVE  Accounted = {l \in EventLSNs : l <= row.lsn}
<1>1. ASSUME NEW l \in EventLSNs
      PROVE  l \in Accounted <=> l <= row.lsn
  <2>1. l \in LSN /\ l \in Int /\ row.lsn \in Int /\ rows[l] \in Nat
        /\ Wal[l].kind \in {"data", "message"}
    BY WalType, SMTT(30) DEF EventLSNs, LSN, IInv, TypeOK
  <2>2. /\ row.lsn < l => rows[l] = 0
        /\ (/\ Wal[l].kind = "data" => Wal[l].tab \notin blocked
            /\ l <= row.lsn) => rows[l] = 1
    BY <2>1 DEF IInv, ExactlyOnce
  <2> QED BY <2>1, <2>2, SMTT(30) DEF Accounted
<1> QED BY <1>1 DEF Accounted

\* Only a source commit moves head, and the durable LSN never moves back.
LEMMA RowMonotone ==
  ASSUME IInv, [Next]_vars
  PROVE  SourceCommit \/ (head' = head /\ row.lsn <= row'.lsn)
<1> USE WalType
<1>1. row.lsn \in Int BY DEF IInv, TypeOK
<1>2. CASE Commit \/ CommitAmbiguous
  BY <1>2, PointForFacts, SMTT(30) DEF Commit, CommitAmbiguous, source
<1>3. CASE [Next]_vars /\ ~SourceCommit /\ ~Commit /\ ~CommitAmbiguous
  <2>1. head' = head /\ row' = row
    BY <1>3, Zenon
       DEF Next, HandleBatch, Feed, HandleHeartbeat, EndOfBatch, AgeTimer, ApplyGroup,
      ContainDestinationFailure, MarkProcessed, MarkBatchFinished, Settle, EngineConfirm,
      Crash, DrainOnShutdown, MarkReplayInstalling, InstallReplayOffset, ClearReplayIntent,
      LoseFile, Start, CrashBeforeRepair, source, dest, vars
  <2> QED BY <2>1, <1>1, SMTT(30)
<1> QED BY <1>2, <1>3

\* The applier implements Delivery whenever no table can fail or no unit is
\* staged: visible effects are whole source transactions, in order.
THEOREM ImplementsDelivery == ASSUME StagedSafe PROVE Spec => DeliversInOrder
<1>1. Init => Promise!Init
  <2> SUFFICES ASSUME Init PROVE head = 0 /\ Accounted = {}
    BY SMTT(30) DEF Promise!Init
  <2>1. \A l \in EventLSNs : rows[l] = 0 BY DEF Init, EventLSNs
  <2> QED BY <2>1 DEF Init, Accounted
<1>2. IInv /\ IInv' /\ [Next]_vars => [Promise!Next]_<<head, Accounted>>
  <2> SUFFICES ASSUME IInv, IInv', [Next]_vars
               PROVE  Promise!Next \/ UNCHANGED <<head, Accounted>>
    OBVIOUS
  <2>1. Accounted = {l \in EventLSNs : l <= row.lsn} BY AccountedPrefix, SMTT(30)
  <2>2. Accounted' = {l \in EventLSNs : l <= row'.lsn}
    <3>1. \A l \in EventLSNs : l \in Accounted' <=> l <= row'.lsn
      <4> SUFFICES ASSUME NEW l \in EventLSNs PROVE l \in Accounted' <=> l <= row'.lsn
        OBVIOUS
      <4>1. l \in LSN /\ l \in Int /\ row'.lsn \in Int /\ rows'[l] \in Nat
            /\ Wal[l].kind \in {"data", "message"}
        <5>1. l \in LSN /\ l \in Int /\ Wal[l].kind \in {"data", "message"}
          BY WalType, SMTT(30) DEF EventLSNs, LSN
        <5>2. row'.lsn \in Int /\ rows' \in [LSN -> Nat]
          <6>1. row'.lsn \in 0..N /\ rows' \in [LSN -> Nat] BY Zenon DEF IInv, TypeOK
          <6> QED BY <6>1, WalType, SMTT(30)
        <5> QED BY <5>1, <5>2, SMTT(30)
      <4>2. /\ row'.lsn < l => rows'[l] = 0
            /\ (/\ Wal[l].kind = "data" => Wal[l].tab \notin blocked'
                /\ l <= row'.lsn) => rows'[l] = 1
        BY <4>1, Zenon DEF IInv, ExactlyOnce
      <4> QED BY <4>1, <4>2, SMTT(30) DEF Accounted
    <3> QED BY <3>1, SMTT(30) DEF Accounted
  <2>3. CASE SourceCommit
    <3>1. row' = row BY <2>3, Zenon DEF SourceCommit, dest
    <3>2. Accounted' = Accounted BY <3>1, <2>1, <2>2, Zenon
    <3>3. \E b \in head+1..N : Boundary(b) /\ head' = b BY <2>3 DEF SourceCommit
    <3> QED BY <3>2, <3>3, Zenon DEF Promise!Next, Promise!Write
  <2>4. CASE head' = head /\ row.lsn <= row'.lsn
    <3>1. row.lsn \in 0..N /\ row'.lsn \in 0..N /\ row'.lsn <= head' /\ Boundary(row'.lsn)
      <4>1. Boundary(row.lsn)' /\ row'.lsn \in 0..N /\ row'.lsn <= head'
        BY Zenon DEF IInv, TypeOK, OrderInv
      <4> QED BY <4>1, Zenon DEF Boundary, IInv, TypeOK
    <3>2. row'.lsn \in 0..head BY <3>1, <2>4, WalType, SMTT(30) DEF IInv, TypeOK
    <3>3. Accounted' = Promise!EventsUpTo(row'.lsn)
      BY <2>2, SMTT(30) DEF Promise!EventsUpTo
    <3>4. \A l \in EventLSNs : l \in Int BY WalType, SMTT(30) DEF EventLSNs, LSN
    <3>5. Accounted \subseteq Accounted' BY <2>1, <2>2, <2>4, <3>1, <3>4, SMTT(30)
    <3>6. CASE Accounted = Accounted' BY <2>4, <3>6, SMTT(30)
    <3>7. CASE Accounted # Accounted'
      BY <2>4, <3>1, <3>2, <3>3, <3>5, <3>7, SMTT(30) DEF Promise!Next, Promise!Deliver
    <3> QED BY <3>6, <3>7, SMTT(30)
  <2> QED BY <2>3, <2>4, RowMonotone, SMTT(30)
<1> QED BY Inductive, <1>1, <1>2, PTL DEF DeliversInOrder, Promise!SafeSpec, Spec
=============================================================================
