---------------------------- MODULE ResnapshotProofs ----------------------------
(***************************************************************************)
(* Proofs about Resnapshot, for any tables, drop policies, starts and      *)
(* bounds: the hand-over of a rebuilt table to the stream, and the retry   *)
(* of a quarantined one.                                                   *)
(***************************************************************************)
EXTENDS Resnapshot, TLAPS

Kinds == {"insert", "delete"}

LifeStates == {"absent", "none", "in_progress", "complete", "awaiting_snapshot", "gone"}

Readings == Nat \union {NULL}

Refusals == [state : {"absent", "pending", "quarantined", "resolved"},
             input : Readings, fingerprint : Readings]

Shapes == [n : Nat, flaw : Flaws]

Sources == [wal : Seq(Tables \X Kinds), exists : [Tables -> BOOLEAN],
            shape : [Tables -> Shapes], policy : DropModes]

Controls == [state : [Tables -> LifeStates], fence : [Tables -> Nat],
             refusal : [Tables -> Refusals], resume : Nat]

Places == {"down", "requeue", "promote", "gate", "next", "setup", "engine", "abandoned",
           "sample", "count", "missing", "empty", "assert", "except", "consume",
           "retire", "stream"}

Procs == [pc : Places, owed : SUBSET Tables, gate : SUBSET Tables,
          todo : Seq(SUBSET Tables), batch : SUBSET Tables, point : Nat,
          scanned : SUBSET Tables, swapped : SUBSET Tables, finished : SUBSET Tables,
          sampled : Nat, missing : SUBSET Tables, empty : SUBSET Tables,
          refused : SUBSET Tables, goes : BOOLEAN, blocked : SUBSET Tables]

Trails == [start : Starts, faults : Nat, again : [Tables -> Nat], blind : [Tables -> Nat]]

Recoveries == [marker : {"absent", "armed", "consumed"}, tables : SUBSET Tables,
               slot : BOOLEAN]

-----------------------------------------------------------------------------
(* The inductive invariant.                                                 *)

Shape == /\ source \in Sources /\ control \in Controls /\ recovery \in Recoveries
         /\ proc \in Procs /\ trail \in Trails
         /\ image \in [Tables -> [Positions -> Nat]]
         /\ Length <= MaxWal(trail.start) /\ control.resume <= Length
         /\ \A t \in Tables : control.fence[t] <= Length + 1

\* What the stream has yet to deliver to t.
Behind(t) == {j \in control.resume + 1 .. Length : j >= control.fence[t]}

\* A row is not yet in the image if the stream will deliver it; what no later
\* delivery deletes ends up with the count it has at the source.
RowHandedOver(t, i) ==
    /\ i \in Behind(t) => image[t][i] = 0
    /\ (\A j \in Behind(t) : j > i => ~Event(t, j, "delete")) =>
          image[t][i] + (IF i \in Behind(t) /\ Event(t, i, "insert") THEN 1 ELSE 0)
             = IF i \in Rows(t, Length) THEN 1 ELSE 0

HandInv ==
    \A t \in Tables :
        control.state[t] = "complete" /\ source.exists[t]
            => \A i \in Positions : RowHandedOver(t, i)

\* The consistent point and the sampled position lie behind the resume point.
PointInv ==
    /\ proc.pc \in {"engine", "abandoned"}
          => control.resume < proc.point /\ proc.point <= Length + 1
    /\ proc.pc \in {"count", "missing", "empty"}
          => control.resume < proc.sampled /\ proc.sampled <= Length + 1

\* The evidence of emptiness outlives the source's later transactions.
EvidenceInv ==
    /\ proc.pc \in {"missing", "empty"} =>
          \A t \in proc.empty : \A i \in 1 .. proc.sampled - 1 : i \notin Rows(t, Length)
    /\ At("missing") => \A t \in proc.missing : ~source.exists[t]

\* A table the stream leaves out is not complete.
StreamInv == At("stream") => \A t \in proc.blocked : control.state[t] # "complete"

\* The tables at the gate are quarantined.
GateInv == At("gate") => proc.gate \subseteq Quarantined(control)

\* What the place of the process implies.
PlaceInv == PointInv /\ EvidenceInv /\ StreamInv /\ GateInv

\* A quarantined table is not complete; one whose fingerprint is stale has a
\* retry left.
QuarantineInv ==
    \A t \in Tables :
       /\ trail.again[t] <= 1 + trail.blind[t]
       /\ t \in Quarantined(control) =>
             /\ control.state[t] # "complete"
             /\ control.refusal[t].fingerprint \notin {NULL, Fingerprint(t)}
                   => trail.again[t] <= trail.blind[t]

IInv == Shape /\ HandInv /\ PlaceInv /\ QuarantineInv

-----------------------------------------------------------------------------
(* What the durable state machines write.                                   *)

\* table_lifecycle.transition touches the lifecycle states alone.
LEMMA TransitionFacts ==
  ASSUME NEW c \in Controls, NEW ts, NEW to \in LifeStates
  PROVE  LET d == Transition(c, ts, to)
         IN  /\ d \in Controls /\ d.fence = c.fence /\ d.refusal = c.refusal
             /\ d.resume = c.resume
             /\ \A t \in Tables : d.state[t] =
                   IF t \in ts /\ <<c.state[t], to>> \in TABLE_LIFECYCLE
                   THEN to ELSE c.state[t]
  <1> DEFINE states == [t \in Tables |->
                          IF t \in ts /\ <<c.state[t], to>> \in TABLE_LIFECYCLE
                          THEN to ELSE c.state[t]]
  <1>1. states \in [Tables -> LifeStates]
    <2>1. \A t \in Tables : c.state[t] \in LifeStates
      BY Zenon DEF Controls
    <2> QED BY <2>1, Zenon
  <1>2. \A t \in Tables : states[t] =
                   IF t \in ts /\ <<c.state[t], to>> \in TABLE_LIFECYCLE
                   THEN to ELSE c.state[t]
    BY Zenon
  <1>3. Transition(c, ts, to) = [c EXCEPT !.state = states]
    BY Zenon DEF Transition
  <1> HIDE DEF states
  <1> DEFINE d == [c EXCEPT !.state = states]
  <1>4. d \in Controls /\ d.fence = c.fence /\ d.refusal = c.refusal
          /\ d.resume = c.resume /\ d.state = states
    BY <1>1, Zenon DEF Controls
  <1> HIDE DEF d
  <1> QED BY <1>2, <1>3, <1>4, Zenon DEF d

\* Every lifecycle state has an edge to the owed one.
LEMMA RequestFacts ==
  ASSUME NEW c \in Controls, NEW ts
  PROVE  LET d == RequestSnapshot(c, ts)
         IN  /\ d \in Controls /\ d.fence = c.fence /\ d.refusal = c.refusal
             /\ d.resume = c.resume
             /\ \A t \in Tables : d.state[t] =
                   IF t \in ts THEN "awaiting_snapshot" ELSE c.state[t]
  <1>1. "awaiting_snapshot" \in LifeStates
    BY DEF LifeStates
  <1>2. \A s \in LifeStates : <<s, "awaiting_snapshot">> \in TABLE_LIFECYCLE
    BY Zenon DEF LifeStates, TABLE_LIFECYCLE
  <1>3. \A t \in Tables : c.state[t] \in LifeStates
    BY Zenon DEF Controls
  <1> DEFINE d == Transition(c, ts, "awaiting_snapshot")
  <1>4. /\ d \in Controls /\ d.fence = c.fence /\ d.refusal = c.refusal
        /\ d.resume = c.resume
        /\ \A t \in Tables : d.state[t] =
              IF t \in ts /\ <<c.state[t], "awaiting_snapshot">> \in TABLE_LIFECYCLE
              THEN "awaiting_snapshot" ELSE c.state[t]
    BY <1>1, TransitionFacts, Zenon
  <1>5. RequestSnapshot(c, ts) = d
    BY Zenon DEF RequestSnapshot
  <1> HIDE DEF d
  <1>6. \A t \in Tables : d.state[t] =
              IF t \in ts THEN "awaiting_snapshot" ELSE c.state[t]
    BY <1>2, <1>3, <1>4, Zenon
  <1> QED BY <1>4, <1>5, <1>6, Zenon

\* A refusal makes its table owed, and quarantines it with the fingerprint just
\* read, or the one kept when none could be read.
LEMMA RefusalFacts ==
  ASSUME NEW c \in Controls, NEW t \in Tables, NEW input \in Readings,
         NEW fingerprint \in Readings
  PROVE  LET d == RecordRefusal(c, t, input, fingerprint)
         IN  /\ d \in Controls /\ d.fence = c.fence /\ d.resume = c.resume
             /\ \A u \in Tables : d.state[u] =
                   IF u = t THEN "awaiting_snapshot" ELSE c.state[u]
             /\ \A u \in Tables \ {t} : d.refusal[u] = c.refusal[u]
             /\ d.refusal[t].state = "quarantined" =>
                   \/ c.refusal[t].state = "quarantined" /\ d.refusal[t] = c.refusal[t]
                   \/ fingerprint = NULL
                   \/ d.refusal[t].fingerprint = fingerprint
  <1> DEFINE before == c.refusal[t]
             repeated == before.state = "pending" /\ before.input = input
             kept == IF fingerprint = NULL /\ repeated THEN before.fingerprint ELSE fingerprint
             fresh == [state |-> IF repeated THEN "quarantined" ELSE "pending",
                       input |-> input, fingerprint |-> kept]
             now == IF before.state = "quarantined" THEN before ELSE fresh
             noted == [c EXCEPT !.refusal[t] = now]
  <1>1. before \in Refusals
    BY Zenon DEF Controls
  <1>2. before.fingerprint \in Readings
    BY <1>1, Zenon DEF Refusals
  <1>3. kept \in Readings
    BY <1>2, Zenon
  <1>4. fresh \in Refusals /\ fresh.fingerprint = kept
    <2> HIDE DEF repeated, kept
    <2> QED BY <1>3, Zenon DEF Refusals
  <1>5. now \in Refusals
    BY <1>1, <1>4, Zenon
  <1>6. now.state = "quarantined" =>
           \/ before.state = "quarantined" /\ now = before
           \/ fingerprint = NULL
           \/ now.fingerprint = fingerprint
    BY <1>4, Zenon
  <1>7. RecordRefusal(c, t, input, fingerprint) = RequestSnapshot(noted, {t})
    BY Zenon DEF RecordRefusal
  <1> HIDE DEF now
  <1>8. /\ noted \in Controls /\ noted.fence = c.fence /\ noted.resume = c.resume
        /\ noted.state = c.state /\ noted.refusal[t] = now
        /\ \A u \in Tables \ {t} : noted.refusal[u] = c.refusal[u]
    BY <1>5, Zenon DEF Controls
  <1> HIDE DEF noted
  <1>9. LET d == RequestSnapshot(noted, {t})
        IN  /\ d \in Controls /\ d.fence = noted.fence /\ d.refusal = noted.refusal
            /\ d.resume = noted.resume
            /\ \A u \in Tables : d.state[u] =
                   IF u \in {t} THEN "awaiting_snapshot" ELSE noted.state[u]
    BY <1>8, RequestFacts, Zenon
  <1> HIDE DEF before
  <1> QED BY <1>6, <1>7, <1>8, <1>9, Zenon DEF before

\* A refusal is resolved by what completes its table, or finds its source gone.
LEMMA ResolveFacts ==
  ASSUME NEW c \in Controls, NEW ts
  PROVE  LET d == Resolve(c, ts)
         IN  /\ d \in Controls /\ d.state = c.state /\ d.fence = c.fence
             /\ d.resume = c.resume
             /\ \A t \in Tables : t \notin ts => d.refusal[t] = c.refusal[t]
             /\ \A t \in Tables : d.refusal[t].state = "quarantined" =>
                   /\ d.refusal[t] = c.refusal[t]
                   /\ t \in ts => c.state[t] # "complete"
  <1> DEFINE refusals == [t \in Tables |->
                IF t \in ts /\ c.refusal[t].state # "absent"
                            /\ c.state[t] \in {"complete", "gone"}
                THEN [c.refusal[t] EXCEPT !.state = "resolved"]
                ELSE c.refusal[t]]
             d == [c EXCEPT !.refusal = refusals]
  <1>1. \A t \in Tables :
          /\ c.refusal[t] \in Refusals
          /\ [c.refusal[t] EXCEPT !.state = "resolved"] \in Refusals
          /\ [c.refusal[t] EXCEPT !.state = "resolved"].state = "resolved"
    <2> TAKE t \in Tables
    <2>1. c.refusal[t] \in Refusals
      BY Zenon DEF Controls
    <2> QED BY <2>1, Zenon DEF Refusals
  <1>2. refusals \in [Tables -> Refusals]
    BY <1>1, Zenon
  <1>3. \A t \in Tables :
          /\ t \notin ts => refusals[t] = c.refusal[t]
          /\ refusals[t].state = "quarantined" =>
                /\ refusals[t] = c.refusal[t]
                /\ t \in ts => c.state[t] # "complete"
    <2> TAKE t \in Tables
    <2>1. refusals[t] = IF t \in ts /\ c.refusal[t].state # "absent"
                            /\ c.state[t] \in {"complete", "gone"}
                THEN [c.refusal[t] EXCEPT !.state = "resolved"]
                ELSE c.refusal[t]
      BY Zenon
    <2> HIDE DEF refusals
    <2> QED BY <2>1, <1>1, Zenon
  <1>4. Resolve(c, ts) = d
    BY Zenon DEF Resolve
  <1> HIDE DEF refusals
  <1>5. /\ d \in Controls /\ d.state = c.state /\ d.resume = c.resume
        /\ d.fence = c.fence /\ d.refusal = refusals
    BY <1>2, Zenon DEF Controls
  <1> HIDE DEF d
  <1> QED BY <1>3, <1>4, <1>5, Zenon

\* A completion writes the fence, and resolves the refusal of what it completes.
LEMMA CompleteFacts ==
  ASSUME NEW c \in Controls, NEW ts, NEW at \in Nat
  PROVE  LET d == Complete(c, ts, at)
         IN  /\ d \in Controls /\ d.resume = c.resume
             /\ \A t \in Tables : t \notin ts =>
                   /\ d.state[t] = c.state[t] /\ d.fence[t] = c.fence[t]
                   /\ d.refusal[t] = c.refusal[t]
             /\ \A t \in Tables : t \in ts =>
                   d.state[t] \in {c.state[t], "complete"} /\ d.fence[t] = at
             /\ \A t \in Tables : d.refusal[t].state = "quarantined" =>
                   /\ d.refusal[t] = c.refusal[t]
                   /\ t \in ts => d.state[t] # "complete"
  <1> DEFINE moved == Transition(c, ts, "complete")
             fences == [t \in Tables |-> IF t \in ts THEN at ELSE c.fence[t]]
             fenced == [moved EXCEPT !.fence = fences]
             d == Resolve(fenced, ts)
  <1>1. /\ moved \in Controls /\ moved.refusal = c.refusal
        /\ moved.resume = c.resume
        /\ \A t \in Tables : moved.state[t] =
              IF t \in ts /\ <<c.state[t], "complete">> \in TABLE_LIFECYCLE
              THEN "complete" ELSE c.state[t]
    <2>1. "complete" \in LifeStates
      BY DEF LifeStates
    <2> QED BY <2>1, TransitionFacts, Zenon
  <1>2. Complete(c, ts, at) = d
    BY Zenon DEF Complete
  <1> HIDE DEF moved
  <1>3. fences \in [Tables -> Nat]
    <2>1. \A t \in Tables : c.fence[t] \in Nat
      BY Zenon DEF Controls
    <2> QED BY <2>1, Zenon
  <1>4. \A t \in Tables : fences[t] = IF t \in ts THEN at ELSE c.fence[t]
    BY Zenon
  <1> HIDE DEF fences
  <1>5. /\ fenced \in Controls /\ fenced.state = moved.state
        /\ fenced.refusal = moved.refusal /\ fenced.resume = moved.resume
        /\ fenced.fence = fences
    BY <1>1, <1>3, Zenon DEF Controls
  <1> HIDE DEF fenced
  <1>6. /\ d \in Controls /\ d.state = fenced.state /\ d.fence = fenced.fence
        /\ d.resume = fenced.resume
        /\ \A t \in Tables : t \notin ts => d.refusal[t] = fenced.refusal[t]
        /\ \A t \in Tables : d.refusal[t].state = "quarantined" =>
              /\ d.refusal[t] = fenced.refusal[t]
              /\ t \in ts => fenced.state[t] # "complete"
    BY <1>5, ResolveFacts, Zenon
  <1> HIDE DEF d
  <1>7. \A t \in Tables : t \notin ts =>
           /\ d.state[t] = c.state[t] /\ d.fence[t] = c.fence[t]
           /\ d.refusal[t] = c.refusal[t]
    <2> SUFFICES ASSUME NEW t \in Tables, t \notin ts
                 PROVE  /\ d.state[t] = c.state[t] /\ d.fence[t] = c.fence[t]
                        /\ d.refusal[t] = c.refusal[t]
      BY Zenon
    <2>1. moved.state[t] = c.state[t] /\ fences[t] = c.fence[t]
      BY <1>1, <1>4, Zenon
    <2>2. d.refusal[t] = c.refusal[t]
      BY <1>1, <1>5, <1>6, Zenon
    <2> QED BY <2>1, <2>2, <1>5, <1>6, Zenon
  <1>8. \A t \in Tables : t \in ts =>
           d.state[t] \in {c.state[t], "complete"} /\ d.fence[t] = at
    <2> SUFFICES ASSUME NEW t \in Tables, t \in ts
                 PROVE  d.state[t] \in {c.state[t], "complete"} /\ d.fence[t] = at
      BY Zenon
    <2>1. moved.state[t] \in {c.state[t], "complete"} /\ fences[t] = at
      BY <1>1, <1>4, Zenon
    <2> QED BY <2>1, <1>5, <1>6, Zenon
  <1>9. \A t \in Tables : d.refusal[t].state = "quarantined" =>
           /\ d.refusal[t] = c.refusal[t]
           /\ t \in ts => d.state[t] # "complete"
    BY <1>1, <1>5, <1>6, Zenon
  <1>10. d \in Controls /\ d.resume = c.resume
    BY <1>1, <1>5, <1>6, Zenon
  <1> QED BY <1>2, <1>7, <1>8, <1>9, <1>10, Zenon

-----------------------------------------------------------------------------
(* The hand-over.                                                           *)

\* The types the arithmetic below rests on.
LEMMA Numbers ==
  ASSUME Shape
  PROVE  /\ Length \in Nat /\ control.resume \in Nat /\ control.resume <= Length
         /\ MaxWal(trail.start) \in Nat /\ Length <= MaxWal(trail.start)
         /\ \A t \in Tables : control.fence[t] \in Nat
         /\ \A t \in Tables : \A i \in Positions : image[t][i] \in Nat
         /\ proc.point \in Nat /\ proc.sampled \in Nat
  <1>1. control.resume \in Nat /\ \A t \in Tables : control.fence[t] \in Nat
    BY Zenon DEF Shape, Controls
  <1>2. source.wal \in Seq(Tables \X Kinds)
    BY Zenon DEF Shape, Sources
  <1>3. Length \in Nat
    BY <1>2 DEF Length
  <1>4. MaxWal(trail.start) \in Nat
    BY ResnapshotAssumption, Zenon DEF Shape, Trails
  <1>5. \A t \in Tables : \A i \in Positions : image[t][i] \in Nat
    BY Zenon DEF Shape
  <1>6. proc.point \in Nat /\ proc.sampled \in Nat
    BY Zenon DEF Shape, Procs
  <1> QED BY <1>1, <1>3, <1>4, <1>5, <1>6, Zenon DEF Shape

\* The rows of a relation are those the log gives it.
LEMMA SameRows ==
  ASSUME source'.wal = source.wal
  PROVE  Length' = Length /\ \A t : Rows(t, Length)' = Rows(t, Length)
  <1>1. Length' = Length
    BY Zenon DEF Length
  <1>2. \A t : Rows(t, Length)' = Rows(t, Length)
    BY <1>1 DEF Rows, Event
  <1> QED BY <1>1, <1>2, Zenon

\* A complete table that no step touches stays handed over, as long as the
\* source's log and the resume point stay.
LEMMA KeepHand ==
  ASSUME HandInv,
         source'.wal = source.wal, control'.resume = control.resume,
         trail'.start = trail.start,
         \A t \in Tables : source'.exists[t] => source.exists[t],
         \A t \in Tables : control'.state[t] = "complete" /\ source'.exists[t] =>
            /\ control.state[t] = "complete" /\ control'.fence[t] = control.fence[t]
            /\ image'[t] = image[t]
  PROVE  HandInv'
  <1> SUFFICES ASSUME NEW t \in Tables, control'.state[t] = "complete", source'.exists[t],
                      NEW i \in Positions'
               PROVE  RowHandedOver(t, i)'
    BY Zenon DEF HandInv
  <1>1. i \in Positions /\ Length' = Length
    BY Zenon DEF Positions, Length
  <1>2. RowHandedOver(t, i)
    BY <1>1, Zenon DEF HandInv
  <1>3. Behind(t)' = Behind(t)
    BY <1>1, Zenon DEF Behind
  <1>4. \A u, j, k : Event(u, j, k)' = Event(u, j, k)
    BY Zenon DEF Event
  <1>5. Rows(t, Length)' = Rows(t, Length)
    BY SameRows, Zenon
  <1>6. image'[t] = image[t]
    BY Zenon
  <1> QED BY <1>2, <1>3, <1>4, <1>5, <1>6, Zenon DEF RowHandedOver

\* The replay of what is left of the log yields the source's rows.
LEMMA HandedOver == ASSUME IInv PROVE HandOver
  <1> SUFFICES ASSUME NEW t \in Tables, control.state[t] = "complete", source.exists[t]
               PROVE  Replayed(t) = Image(Rows(t, Length))
    BY Zenon DEF HandOver
  <1> DEFINE one == [i \in Positions |->
               IF \E j \in Behind(t) : j > i /\ Event(t, j, "delete") THEN 0
               ELSE image[t][i] + (IF i \in Behind(t) /\ Event(t, i, "insert") THEN 1 ELSE 0)]
             two == [i \in Positions |-> IF i \in Rows(t, Length) THEN 1 ELSE 0]
  <1>1. Replayed(t) = one /\ Image(Rows(t, Length)) = two
    BY Zenon DEF Replayed, Behind, Image
  <1>2. ASSUME NEW i \in Positions PROVE one[i] = two[i]
    <2>1. RowHandedOver(t, i)
      BY Zenon DEF IInv, HandInv
    <2>2. CASE \E j \in Behind(t) : j > i /\ Event(t, j, "delete")
      <3>1. PICK j \in Behind(t) : j > i /\ Event(t, j, "delete")
        BY <2>2
      <3>2. i \in Nat /\ Length \in Nat /\ control.resume \in Nat
        BY Numbers DEF IInv, Positions
      <3>3. j \in i + 1 .. Length
        BY <3>1, <3>2 DEF Behind
      <3>4. i \notin Rows(t, Length)
        BY <3>1, <3>3, Zenon DEF Rows
      <3> QED BY <3>4, <2>2, Zenon
    <2>3. CASE ~\E j \in Behind(t) : j > i /\ Event(t, j, "delete")
      <3>1. \A j \in Behind(t) : j > i => ~Event(t, j, "delete")
        BY <2>3, Zenon
      <3> QED BY <3>1, <2>1, <2>3, Zenon DEF RowHandedOver
    <2> QED BY <2>2, <2>3, Zenon
  <1>3. one \in [Positions -> Int] /\ two \in [Positions -> Int]
    <2>1. \A i \in Positions : image[t][i] \in Nat
      BY Numbers, Zenon DEF IInv
    <2> QED BY <2>1
  <1> HIDE DEF one, two
  <1>4. one = two
    BY <1>2, <1>3
  <1> QED BY <1>1, <1>4, Zenon

\* A transaction the source commits is left to the stream.
LEMMA HandAppend ==
  ASSUME IInv, NEW t \in Tables, NEW kind \in Kinds, SourceCommits(t, kind)
  PROVE  HandInv' /\ EvidenceInv'
  <1>1. /\ Length' = Length + 1 /\ Length \in Nat /\ control.resume \in Nat
        /\ \A j \in 1 .. Length : source'.wal[j] = source.wal[j]
        /\ source'.wal[Length + 1] = <<t, kind>>
        /\ source'.exists = source.exists
        /\ UNCHANGED <<control, image, recovery, proc, trail>>
    <2>1. source.wal \in Seq(Tables \X Kinds)
      BY Zenon DEF IInv, Shape, Sources
    <2>2. source'.wal = Append(source.wal, <<t, kind>>) /\ source'.exists = source.exists
      BY Zenon DEF SourceCommits, IInv, Shape, Sources
    <2>3. UNCHANGED <<control, image, recovery, proc, trail>>
      BY Zenon DEF SourceCommits
    <2>4. Length \in Nat /\ control.resume \in Nat
      BY Numbers, Zenon DEF IInv
    <2>5. <<t, kind>> \in Tables \X Kinds
      OBVIOUS
    <2> QED BY <2>1, <2>2, <2>3, <2>4, <2>5 DEF Length
  <1>2. \A u, k : \A j \in 1 .. Length : Event(u, j, k)' = Event(u, j, k)
    BY <1>1, Zenon DEF Event
  <1>3. ASSUME NEW u, NEW i \in 1 .. Length, i \in Rows(u, Length)'
        PROVE  i \in Rows(u, Length)
    <2>1. Event(u, i, "insert")' /\ \A j \in i + 1 .. Length' : ~Event(u, j, "delete")'
      BY <1>3, Zenon DEF Rows
    <2>2. \A j \in i + 1 .. Length : j \in i + 1 .. Length' /\ j \in 1 .. Length
      BY <1>1
    <2> QED BY <2>1, <2>2, <1>2, Zenon DEF Rows
  <1>4. EvidenceInv'
    <2>1. ASSUME proc.pc \in {"missing", "empty"}, NEW u \in proc.empty,
                 NEW i \in 1 .. proc.sampled - 1
          PROVE  i \notin Rows(u, Length)'
      <3>1. i \notin Rows(u, Length)
        BY <2>1, Zenon DEF IInv, PlaceInv, EvidenceInv
      <3>2. proc.sampled <= Length + 1
        BY <2>1, Zenon DEF IInv, PlaceInv, PointInv
      <3>3. i \in 1 .. Length
        BY <3>2, <1>1, Numbers DEF IInv
      <3> QED BY <3>1, <3>3, <1>3, Zenon
    <2> QED BY <2>1, <1>1, Zenon DEF EvidenceInv, At, IInv, PlaceInv
  <1>5. HandInv'
    <2> SUFFICES ASSUME NEW u \in Tables, control.state[u] = "complete", source.exists[u],
                        NEW i \in Positions
                 PROVE  RowHandedOver(u, i)'
      BY <1>1, Zenon DEF HandInv, Positions
    <2>1. RowHandedOver(u, i)
      BY Zenon DEF HandInv, IInv
    <2>2. i \in Nat /\ i > 0 /\ control.fence[u] \in Nat /\ image[u][i] \in Nat
      BY Numbers DEF IInv, Positions
    <2>3. Length + 1 \in Behind(u)'
      <3>1. control.fence[u] <= Length + 1 /\ control.resume <= Length
        BY Zenon DEF IInv, Shape
      <3>2. control' = control
        BY <1>1
      <3> QED BY <1>1, <2>2, <3>1, <3>2 DEF Behind
    <2>4. CASE i <= Length
      <3>1. \A j \in 1 .. Length : j \in Behind(u)' <=> j \in Behind(u)
        BY <1>1, <2>2 DEF Behind
      <3>2. i \in 1 .. Length /\ \A j \in Behind(u) : j \in 1 .. Length
        BY <2>2, <2>4, <1>1 DEF Behind
      <3>3. ASSUME \A j \in Behind(u)' : j > i => ~Event(u, j, "delete")'
            PROVE  /\ \A j \in Behind(u) : j > i => ~Event(u, j, "delete")
                   /\ i \in Rows(u, Length)' <=> i \in Rows(u, Length)
        <4>1. source'.wal[Length + 1] # <<u, "delete">>
          <5>1. Length + 1 > i
            BY <2>4, <2>2, <1>1
          <5> QED BY <5>1, <3>3, <2>3, Zenon DEF Event
        <4>2. \A j \in Behind(u) : j > i => ~Event(u, j, "delete")
          BY <3>3, <3>1, <3>2, <1>2, Zenon
        <4>3. ASSUME i \in Rows(u, Length) PROVE i \in Rows(u, Length)'
          <5>1. Event(u, i, "insert") /\ \A j \in i + 1 .. Length : ~Event(u, j, "delete")
            BY <4>3, Zenon DEF Rows
          <5>2. \A j \in i + 1 .. Length' : j = Length + 1 \/ (j \in i + 1 .. Length /\ j \in 1 .. Length)
            BY <1>1, <2>2
          <5>3. \A j \in i + 1 .. Length' : ~Event(u, j, "delete")'
            <6> TAKE j \in i + 1 .. Length'
            <6>1. CASE j = Length + 1
              BY <6>1, <4>1, Zenon DEF Event
            <6>2. CASE j \in i + 1 .. Length /\ j \in 1 .. Length
              BY <6>2, <5>1, <1>2, Zenon
            <6> QED BY <6>1, <6>2, <5>2, Zenon
          <5>4. i \in 1 .. Length'
            BY <3>2, <1>1
          <5>5. Event(u, i, "insert")'
            BY <5>1, <3>2, <1>2, Zenon
          <5> QED BY <5>3, <5>4, <5>5, Zenon DEF Rows
        <4> QED BY <4>2, <4>3, <1>3, <3>2, Zenon
      <3>4. Event(u, i, "insert")' = Event(u, i, "insert") /\ image' = image
        BY <1>1, <1>2, <3>2, Zenon
      <3> QED BY <2>1, <3>1, <3>2, <3>3, <3>4, Zenon DEF RowHandedOver
    <2>5. CASE i > Length
      <3>1. i \notin Behind(u) /\ (\A j \in Behind(u) : ~(j > i)) /\ i \notin Rows(u, Length)
        BY <2>2, <2>5, <1>1 DEF Behind, Rows
      <3>2. image[u][i] = 0
        <4>1. image[u][i] + 0 = 0
          BY <3>1, <2>1, Zenon DEF RowHandedOver
        <4> QED BY <4>1, <2>2
      <3>3. i \in Behind(u)' => i = Length + 1
        BY <2>2, <2>5, <1>1 DEF Behind
      <3>4. i \in Rows(u, Length)' <=> (i = Length + 1 /\ Event(u, i, "insert")')
        <4>1. i \in 1 .. Length' <=> i = Length + 1
          BY <2>2, <2>5, <1>1
        <4>2. i = Length + 1 => i + 1 .. Length' = {}
          BY <1>1
        <4> QED BY <4>1, <4>2, Zenon DEF Rows
      <3>5. image' = image
        BY <1>1
      <3>6. IF i \in Behind(u)' /\ Event(u, i, "insert")' THEN i \in Rows(u, Length)'
            ELSE i \notin Rows(u, Length)'
        BY <2>3, <3>3, <3>4, Zenon
      <3>7. image'[u][i] + (IF i \in Behind(u)' /\ Event(u, i, "insert")' THEN 1 ELSE 0)
               = IF i \in Rows(u, Length)' THEN 1 ELSE 0
        BY <3>2, <3>5, <3>6
      <3> QED BY <3>2, <3>5, <3>7, Zenon DEF RowHandedOver
    <2> QED BY <2>2, <2>4, <2>5, <1>1
  <1> QED BY <1>4, <1>5, Zenon

\* An image is handed over at a fence behind the resume point when it holds none
\* of the rows from there on, and of the others those that no later transaction
\* deletes.
LEMMA Fenced ==
  ASSUME IInv, source'.wal = source.wal,
         control'.resume = control.resume,
         NEW t \in Tables, NEW at \in Nat, control.resume < at, at <= Length + 1,
         control'.fence[t] = at, NEW i \in Positions,
         i >= at => image'[t][i] = 0,
         i < at /\ (\A j \in at .. Length : ~Event(t, j, "delete"))
            => image'[t][i] = IF i \in Rows(t, Length) THEN 1 ELSE 0
  PROVE  RowHandedOver(t, i)'
  <1>1. /\ Length \in Nat /\ control.resume \in Nat /\ i \in Nat /\ i > 0
    BY Numbers DEF IInv, Positions
  <1>2. Length' = Length /\ Rows(t, Length)' = Rows(t, Length)
    BY SameRows, Zenon
  <1>3. Behind(t)' = at .. Length
    BY <1>1, <1>2 DEF Behind
  <1>4. \A u, j, k : Event(u, j, k)' = Event(u, j, k)
    BY Zenon DEF Event
  <1>5. CASE i >= at
    <2>1. image'[t][i] = 0
      BY <1>5, Zenon
    <2>2. ASSUME \A j \in at .. Length : j > i => ~Event(t, j, "delete")
          PROVE  i \in Rows(t, Length) <=> (i \in at .. Length /\ Event(t, i, "insert"))
      <3>1. i \in 1 .. Length <=> i \in at .. Length
        BY <1>1, <1>5
      <3>2. \A j \in i + 1 .. Length : j \in at .. Length /\ j > i
        BY <1>1, <1>5
      <3>3. \A j \in i + 1 .. Length : ~Event(t, j, "delete")
        BY <2>2, <3>2, Zenon
      <3> QED BY <3>1, <3>3, Zenon DEF Rows
    <2>3. ASSUME \A j \in at .. Length : j > i => ~Event(t, j, "delete")
          PROVE  image'[t][i] + (IF i \in at .. Length /\ Event(t, i, "insert") THEN 1 ELSE 0)
                    = IF i \in Rows(t, Length) THEN 1 ELSE 0
      <3>1. CASE i \in Rows(t, Length)
        BY <3>1, <2>1, <2>2, <2>3
      <3>2. CASE i \notin Rows(t, Length)
        BY <3>2, <2>1, <2>2, <2>3
      <3> QED BY <3>1, <3>2, Zenon
    <2> QED BY <2>1, <2>3, <1>2, <1>3, <1>4, Zenon DEF RowHandedOver
  <1>6. CASE i < at
    <2>1. i \notin at .. Length /\ \A j \in at .. Length : j > i
      BY <1>6, <1>1
    <2>2. ASSUME \A j \in at .. Length : j > i => ~Event(t, j, "delete")
          PROVE  image'[t][i] + 0 = IF i \in Rows(t, Length) THEN 1 ELSE 0
      <3>1. image'[t][i] = IF i \in Rows(t, Length) THEN 1 ELSE 0
        BY <2>1, <2>2, <1>6, Zenon
      <3> QED BY <3>1
    <2> QED BY <2>1, <2>2, <1>2, <1>3, <1>4, Zenon DEF RowHandedOver
  <1> QED BY <1>1, <1>5, <1>6

\* The image read at the consistent point is handed over there.
LEMMA Published ==
  ASSUME IInv, source'.wal = source.wal,
         control'.resume = control.resume,
         NEW t \in Tables, NEW at \in Nat, control.resume < at, at <= Length + 1,
         control'.fence[t] = at, image'[t] = Image(Rows(t, at - 1)), NEW i \in Positions
  PROVE  RowHandedOver(t, i)'
  <1>1. /\ Length \in Nat /\ i \in Nat /\ i > 0
    BY Numbers DEF IInv, Positions
  <1>2. image'[t][i] = IF i \in Rows(t, at - 1) THEN 1 ELSE 0
    BY Zenon DEF Image
  <1>3. i >= at => image'[t][i] = 0
    <2>1. i >= at => i \notin 1 .. at - 1
      BY <1>1
    <2> QED BY <2>1, <1>2, Zenon DEF Rows
  <1>4. ASSUME i < at, \A j \in at .. Length : ~Event(t, j, "delete")
        PROVE  i \in Rows(t, at - 1) <=> i \in Rows(t, Length)
    <2>1. i \in 1 .. at - 1 /\ i \in 1 .. Length
      BY <1>1, <1>4
    <2>2. \A j \in i + 1 .. Length : j \in i + 1 .. at - 1 \/ j \in at .. Length
      BY <1>1, <1>4
    <2>3. \A j \in i + 1 .. at - 1 : j \in i + 1 .. Length
      BY <1>1, <1>4
    <2> QED BY <1>4, <2>1, <2>2, <2>3, Zenon DEF Rows
  <1> QED BY <1>2, <1>3, <1>4, Fenced, Zenon

\* An emptied table is handed over where its emptiness was sampled.
LEMMA Emptied ==
  ASSUME IInv, source'.wal = source.wal,
         control'.resume = control.resume,
         NEW t \in Tables, NEW at \in Nat, control.resume < at, at <= Length + 1,
         control'.fence[t] = at, image'[t] = NoImage, NEW i \in Positions,
         \A k \in 1 .. at - 1 : k \notin Rows(t, Length)
  PROVE  RowHandedOver(t, i)'
  <1>1. /\ Length \in Nat /\ i \in Nat /\ i > 0
    BY Numbers DEF IInv, Positions
  <1>2. image'[t][i] = 0
    BY Zenon DEF Image, NoImage
  <1>3. i < at => i \notin Rows(t, Length)
    <2>1. i < at => i \in 1 .. at - 1
      BY <1>1
    <2> QED BY <2>1, Zenon
  <1> QED BY <1>2, <1>3, Fenced, Zenon

\* A transaction of another table, or before the fence, changes nothing in what
\* the stream has yet to deliver.
LEMMA Passed ==
  ASSUME IInv, NEW t \in Tables, Arriving(t),
         source'.wal = source.wal, control'.resume = control.resume + 1,
         NEW u \in Tables, u # t \/ control.resume + 1 < control.fence[u],
         control'.fence[u] = control.fence[u], image'[u] = image[u],
         NEW i \in Positions, RowHandedOver(u, i)
  PROVE  RowHandedOver(u, i)'
  <1> DEFINE next == control.resume + 1
  <1>1. /\ Length \in Nat /\ control.resume \in Nat /\ next \in Nat
        /\ control.fence[u] \in Nat /\ i \in Nat
    BY Numbers DEF IInv, Positions
  <1>2. Length' = Length /\ Rows(u, Length)' = Rows(u, Length)
    BY SameRows, Zenon
  <1>3. \A v, j, k : Event(v, j, k)' = Event(v, j, k)
    BY Zenon DEF Event
  <1>4. \A j \in Int : j \in Behind(u)' <=> (j \in Behind(u) /\ j # next)
    BY <1>1, <1>2 DEF Behind
  <1>5. Behind(u) \subseteq Int /\ Behind(u)' \subseteq Int
    BY <1>1, <1>2 DEF Behind
  <1>6. next \in Behind(u) => \A k : ~Event(u, next, k)
    <2>1. ASSUME u # t, NEW k, source.wal[next] = <<u, k>> PROVE FALSE
      BY <2>1 DEF Arriving
    <2>2. next \in Behind(u) => u # t
      BY <1>1 DEF Behind
    <2> QED BY <2>1, <2>2, Zenon DEF Event
  <1> HIDE DEF next
  <1>7. ASSUME \A j \in Behind(u)' : j > i => ~Event(u, j, "delete")
        PROVE  \A j \in Behind(u) : j > i => ~Event(u, j, "delete")
    BY <1>4, <1>5, <1>6, <1>7, Zenon
  <1>8. CASE i = next
    <2>1. i \notin Behind(u)' /\ ~(i \in Behind(u) /\ Event(u, i, "insert"))
      BY <1>1, <1>4, <1>6, <1>8
    <2> QED BY <1>2, <1>3, <1>7, <2>1, Zenon DEF RowHandedOver
  <1>9. CASE i # next
    <2>1. i \in Behind(u)' <=> i \in Behind(u)
      BY <1>1, <1>4, <1>9
    <2> QED BY <1>2, <1>3, <1>7, <2>1, Zenon DEF RowHandedOver
  <1> QED BY <1>8, <1>9, Zenon

\* The transaction at the resume point reaches a table unless it lies before
\* the table's fence, and leaves what the stream has yet to deliver.
LEMMA Streamed ==
  ASSUME IInv, NEW t \in Tables, StreamCommits(t)
  PROVE  HandInv'
  <1> SUFFICES ASSUME NEW u \in Tables, control'.state[u] = "complete", source'.exists[u],
                      NEW i \in Positions'
               PROVE  RowHandedOver(u, i)'
    BY Zenon DEF HandInv
  <1> DEFINE next == control.resume + 1
  <1>1. /\ source' = source /\ proc' = proc /\ trail' = trail
        /\ control' = [control EXCEPT !.resume = next]
        /\ image' = IF Skipped(t) THEN image ELSE [image EXCEPT ![t] = Applied(t)]
    BY Zenon DEF StreamCommits
  <1>2. control \in Controls
    BY Zenon DEF IInv, Shape
  <1>3. /\ control'.state = control.state /\ control'.fence = control.fence
        /\ control'.resume = next
    BY <1>1, <1>2, Zenon DEF Controls
  <1>4. /\ Length \in Nat /\ control.resume \in Nat /\ next \in Nat
        /\ Length <= MaxWal(trail.start) /\ MaxWal(trail.start) \in Nat
        /\ control.fence[u] \in Nat
    BY Numbers DEF IInv
  <1>5. i \in Positions /\ i \in Nat /\ image[u][i] \in Nat /\ image[u] \in [Positions -> Nat]
    <2>1. i \in Positions
      BY <1>1, Zenon DEF Positions
    <2>2. image[u] \in [Positions -> Nat]
      BY Zenon DEF IInv, Shape
    <2> QED BY <2>1, <2>2, <1>4 DEF Positions
  <1>6. Arriving(t) /\ control.resume < Length /\ source.wal[next][1] = t
    BY Zenon DEF StreamCommits, Arriving
  <1>7. next \in Positions
    BY <1>4, <1>6 DEF Positions
  <1>8. Length' = Length /\ Rows(u, Length)' = Rows(u, Length)
    BY <1>1, SameRows, Zenon
  <1>9. \A v, j, k : Event(v, j, k)' = Event(v, j, k)
    BY <1>1, Zenon DEF Event
  <1>10. RowHandedOver(u, i)
    BY <1>1, <1>3, <1>5, Zenon DEF IInv, HandInv
  <1> HIDE DEF next
  <1>11. \A j \in Int : j \in Behind(u)' <=> (j \in Behind(u) /\ j # next)
    BY <1>3, <1>4, <1>8 DEF Behind, next
  <1>12. Behind(u) \subseteq Int /\ Behind(u)' \subseteq Int
    BY <1>3, <1>4, <1>8 DEF Behind, next
  <1>13. CASE next \notin Behind(u) \/ u # t
    <2>1. u # t \/ next < control.fence[u]
      BY <1>13, <1>4, <1>6 DEF Behind, next
    <2>2. image'[u] = image[u]
      <3>1. CASE u # t
        BY <3>1, <1>1, Zenon DEF IInv, Shape
      <3>2. CASE u = t
        <4>1. Skipped(t)
          BY <2>1, <3>2, <1>3, Zenon DEF Skipped, next
        <4> QED BY <4>1, <1>1, Zenon
      <3> QED BY <3>1, <3>2, Zenon
    <2> QED BY <2>1, <2>2, <1>1, <1>3, <1>5, <1>6, <1>10, Passed, Zenon DEF next
  <1>14. CASE next \in Behind(u) /\ u = t
    <2>1. ~Skipped(t)
      <3>1. t \notin proc.blocked
        BY <1>3, <1>14, <1>6, Zenon DEF IInv, PlaceInv, StreamInv, Arriving
      <3>2. control.state[t] = "complete"
        BY <1>3, <1>14, Zenon
      <3>3. t \notin Held(control)
        BY <3>2, Zenon DEF Held, Owing
      <3>4. ~(next < control.fence[t])
        BY <1>14, <1>4 DEF Behind
      <3> QED BY <3>1, <3>3, <3>4, Zenon DEF Skipped, next
    <2>2. image'[t] = Applied(t) /\ image[t][next] = 0
      <3>1. image'[t] = Applied(t)
        BY <2>1, <1>1, Zenon DEF IInv, Shape
      <3>2. RowHandedOver(t, next)
        BY <1>1, <1>3, <1>7, <1>14, Zenon DEF IInv, HandInv
      <3> QED BY <3>1, <3>2, <1>14, Zenon DEF RowHandedOver
    <2>3. CASE Event(t, next, "delete")
      <3>1. image'[t][i] = 0
        <4>1. image'[t] = NoImage
          BY <2>2, <2>3, Zenon DEF Applied, next
        <4> QED BY <4>1, <1>5, Zenon DEF NoImage, Image
      <3>2. CASE i <= next
        <4>1. i \notin Rows(t, Length)
          <5>1. CASE i = next
            <6>1. ~Event(t, i, "insert")
              BY <5>1, <2>3 DEF Event
            <6> QED BY <6>1, Zenon DEF Rows
          <5>2. CASE i # next
            <6>1. next \in i + 1 .. Length
              BY <5>2, <3>2, <1>4, <1>5, <1>6 DEF next
            <6> QED BY <6>1, <2>3, Zenon DEF Rows
          <5> QED BY <5>1, <5>2, Zenon
        <4>2. i \notin Behind(t)'
          BY <3>2, <1>3, <1>4, <1>5, <1>8 DEF Behind, next
        <4> QED BY <3>1, <4>1, <4>2, <1>8, <1>14 DEF RowHandedOver
      <3>3. CASE i > next
        <4>1. i \in Behind(t)' <=> i \in Behind(t)
          BY <3>3, <1>4, <1>5, <1>11, <1>14
        <4>2. ASSUME \A j \in Behind(u)' : j > i => ~Event(u, j, "delete")
              PROVE  \A j \in Behind(u) : j > i => ~Event(u, j, "delete")
          <5>1. ~(next > i)
            BY <3>3, <1>4, <1>5
          <5> QED BY <4>2, <5>1, <1>11, <1>12, Zenon
        <4>3. i \in Behind(t) \/ i \notin Rows(t, Length)
          BY <3>3, <1>4, <1>5, <1>14 DEF Behind, Rows, next
        <4>4. i \in Behind(t) => image[t][i] = 0
          BY <1>10, <1>14, Zenon DEF RowHandedOver
        <4>5. CASE i \in Behind(t)
          BY <4>1, <4>2, <4>4, <4>5, <3>1, <1>8, <1>9, <1>10, <1>14, Zenon DEF RowHandedOver
        <4>6. CASE i \notin Behind(t)
          BY <4>1, <4>3, <4>6, <3>1, <1>8, <1>14 DEF RowHandedOver
        <4> QED BY <4>5, <4>6, Zenon
      <3> QED BY <3>2, <3>3, <1>4, <1>5
    <2>4. CASE ~Event(t, next, "delete")
      <3>1. Event(t, next, "insert")
        <4>1. source.wal[next] \in Tables \X Kinds
          <5>1. source.wal \in Seq(Tables \X Kinds)
            BY Zenon DEF IInv, Shape, Sources
          <5>2. next \in 1 .. Len(source.wal)
            BY <1>4, <1>6 DEF Length, next
          <5> QED BY <5>1, <5>2
        <4> QED BY <4>1, <2>4, <1>6 DEF Event, Kinds
      <3>2. image'[t] = [image[t] EXCEPT ![next] = image[t][next] + 1]
        BY <2>2, <2>4, Zenon DEF Applied, next
      <3>3. ASSUME \A j \in Behind(u)' : j > i => ~Event(u, j, "delete")
            PROVE  \A j \in Behind(u) : j > i => ~Event(u, j, "delete")
        BY <3>3, <2>4, <1>11, <1>12, <1>14, Zenon
      <3>4. CASE i = next
        <4>1. image'[t][i] = 1 /\ image[t][i] = 0
          BY <3>2, <3>4, <2>2, <1>5, <1>7, <1>14
        <4>2. i \notin Behind(t)' /\ i \in Behind(t) /\ Event(t, i, "insert")
          BY <3>1, <3>4, <1>5, <1>11, <1>14
        <4>3. ASSUME \A j \in Behind(u)' : j > i => ~Event(u, j, "delete")
              PROVE  i \in Rows(t, Length)
          <5>1. 0 + 1 = IF i \in Rows(t, Length) THEN 1 ELSE 0
            BY <4>3, <3>3, <4>1, <4>2, <1>10, <1>14, Zenon DEF RowHandedOver
          <5> QED BY <5>1
        <4>4. 1 + 0 = 1
          OBVIOUS
        <4> QED BY <4>1, <4>2, <4>3, <4>4, <1>8, <1>9, <1>14, Zenon DEF RowHandedOver
      <3>5. CASE i # next
        <4>1. i \in Behind(t)' <=> i \in Behind(t)
          BY <3>5, <1>5, <1>11, <1>14
        <4>2. image'[t][i] = image[t][i]
          BY <3>2, <3>5, <1>5, <1>14, Zenon
        <4> QED BY <4>1, <4>2, <3>3, <1>8, <1>9, <1>10, <1>14, Zenon DEF RowHandedOver
      <3> QED BY <3>4, <3>5, Zenon
    <2> QED BY <2>3, <2>4, Zenon
  <1> QED BY <1>13, <1>14, Zenon

-----------------------------------------------------------------------------
(* What a step has to show.                                                 *)

\* The places whose invariants say nothing.
Quiet == {"down", "requeue", "promote", "next", "setup", "sample", "assert", "except",
          "consume", "retire"}

LEMMA QuietPlace == ASSUME proc'.pc \in Quiet PROVE PlaceInv'
  BY Zenon DEF Quiet, PlaceInv, PointInv, EvidenceInv, StreamInv, GateInv, At

\* The variables a step may write keep their types.
TypesKept ==
    /\ control' \in Controls /\ recovery' \in Recoveries /\ proc' \in Procs
    /\ trail' \in Trails /\ trail'.start = trail.start

\* What the refusals depend on stays.
TrailKept ==
    /\ trail' \in Trails /\ trail'.start = trail.start
    /\ trail'.again = trail.again /\ trail'.blind = trail.blind

LEMMA FaultKept == ASSUME IInv, Fault PROVE TrailKept
  <1>1. trail \in Trails /\ trail.faults + 1 \in Nat
    <2>1. trail \in Trails
      BY Zenon DEF IInv, Shape
    <2>2. trail.faults \in Nat
      BY <2>1, Zenon DEF Trails
    <2> QED BY <2>1, <2>2
  <1>2. trail' = [trail EXCEPT !.faults = trail.faults + 1]
    BY Zenon DEF Fault
  <1> QED BY <1>1, <1>2, Zenon DEF TrailKept, Trails

LEMMA SameTrail == ASSUME IInv, trail' = trail PROVE TrailKept
  BY Zenon DEF TrailKept, IInv, Shape

\* A step that leaves the source's log alone keeps the bounds on it.
LEMMA KeepShape ==
  ASSUME IInv, TypesKept, source' \in Sources, source'.wal = source.wal,
         image' \in [Tables -> [Positions -> Nat]],
         control'.resume = control.resume,
         \A t \in Tables : control'.fence[t] <= Length + 1
  PROVE  Shape'
  <1>1. Length' = Length /\ Positions' = Positions
    BY Zenon DEF Length, Positions, TypesKept
  <1> QED BY <1>1, Zenon DEF Shape, IInv, TypesKept

LEMMA KeepQuarantine ==
  ASSUME IInv, TrailKept, control'.refusal = control.refusal,
         source'.shape = source.shape,
         \A t \in Tables : control'.state[t] = "complete" => control.state[t] = "complete"
  PROVE  QuarantineInv'
  <1>1. Quarantined(control)' = Quarantined(control)
    BY Zenon DEF Quarantined, InState
  <1> QED BY <1>1, Zenon DEF IInv, QuarantineInv, TrailKept, Fingerprint

\* A step that completes nothing, and writes no fence, refusal or image.
LEMMA Writes ==
  ASSUME IInv, source' = source, image' = image,
         control' \in Controls, control'.resume = control.resume,
         control'.fence = control.fence, control'.refusal = control.refusal,
         \A t \in Tables : control'.state[t] = "complete" => control.state[t] = "complete",
         recovery' \in Recoveries, proc' \in Procs, TrailKept, PlaceInv'
  PROVE  IInv'
  <1>1. TypesKept
    BY Zenon DEF TypesKept, TrailKept
  <1>2. Shape'
    BY <1>1, KeepShape, Zenon DEF IInv, Shape
  <1>3. HandInv'
    BY KeepHand, Zenon DEF IInv, TrailKept
  <1>4. QuarantineInv'
    BY KeepQuarantine, Zenon
  <1> QED BY <1>2, <1>3, <1>4, Zenon DEF IInv

\* A step of the process alone.
LEMMA Moves ==
  ASSUME IInv, UNCHANGED <<source, control, image>>,
         recovery' \in Recoveries, proc' \in Procs, TrailKept, PlaceInv'
  PROVE  IInv'
  <1>1. control \in Controls
    BY Zenon DEF IInv, Shape
  <1> QED BY <1>1, Writes, Zenon

LEMMA IdleType == Idle \in Procs /\ Idle.pc = "down"
  <1>1. <<>> \in Seq(SUBSET Tables) /\ 0 \in Nat /\ FALSE \in BOOLEAN
    OBVIOUS
  <1>2. {} \in SUBSET Tables /\ "down" \in Places
    BY Zenon DEF Places
  <1> QED BY <1>1, <1>2, Zenon DEF Idle, Procs

LEMMA Going ==
  ASSUME IInv, NEW pc \in Places, Goto(pc)
  PROVE  /\ proc' \in Procs /\ proc'.pc = pc /\ proc'.point = proc.point
         /\ proc'.sampled = proc.sampled /\ proc'.empty = proc.empty
  <1>1. proc \in Procs
    BY Zenon DEF IInv, Shape
  <1> QED BY <1>1, Zenon DEF Goto, Procs

\* A refusal writes the control state it is given, and counts a blind one.
LEMMA Refused ==
  ASSUME IInv, source' = source,
         NEW t \in Tables, NEW c \in Controls, c.state = control.state,
         c.fence = control.fence, c.refusal = control.refusal,
         NEW input \in Readings, NEW seen \in BOOLEAN, Refuses(c, t, input, seen)
  PROVE  /\ control' \in Controls /\ control'.fence = control.fence
         /\ control'.resume = c.resume
         /\ \A u \in Tables : control'.state[u] =
               IF u = t THEN "awaiting_snapshot" ELSE control.state[u]
         /\ trail' \in Trails /\ trail'.start = trail.start
         /\ QuarantineInv'
  <1> DEFINE fp == IF seen THEN Fingerprint(t) ELSE NULL
  <1>1. Fingerprint(t) \in Nat /\ fp \in Readings
    <2>1. source.shape[t] \in Shapes
      BY Zenon DEF IInv, Shape, Sources
    <2>2. Fingerprint(t) \in Nat
      BY <2>1, Zenon DEF Fingerprint, Shapes
    <2> QED BY <2>2, Zenon DEF Readings
  <1>2. control' = RecordRefusal(c, t, input, fp)
    BY Zenon DEF Refuses
  <1>3. fp = NULL => ~seen
    BY <1>1 DEF NULL
  <1>4. seen => fp = Fingerprint(t)
    BY Zenon
  <1> HIDE DEF fp
  <1>5. /\ control' \in Controls /\ control'.fence = control.fence
        /\ control'.resume = c.resume
        /\ \A u \in Tables : control'.state[u] =
               IF u = t THEN "awaiting_snapshot" ELSE control.state[u]
        /\ \A u \in Tables \ {t} : control'.refusal[u] = control.refusal[u]
        /\ control'.refusal[t].state = "quarantined" =>
              \/ /\ control.refusal[t].state = "quarantined"
                 /\ control'.refusal[t] = control.refusal[t]
              \/ fp = NULL
              \/ control'.refusal[t].fingerprint = fp
    <2> DEFINE d == RecordRefusal(c, t, input, fp)
    <2>1. /\ d \in Controls /\ d.fence = c.fence /\ d.resume = c.resume
          /\ \A u \in Tables : d.state[u] =
                IF u = t THEN "awaiting_snapshot" ELSE c.state[u]
          /\ \A u \in Tables \ {t} : d.refusal[u] = c.refusal[u]
          /\ d.refusal[t].state = "quarantined" =>
                \/ c.refusal[t].state = "quarantined" /\ d.refusal[t] = c.refusal[t]
                \/ fp = NULL
                \/ d.refusal[t].fingerprint = fp
      BY <1>1, RefusalFacts, SMTT(30)
    <2>2. control' = d
      BY <1>2, Zenon
    <2> HIDE DEF d
    <2> QED BY <2>1, <2>2, Zenon
  <1>6. trail \in Trails
    BY Zenon DEF IInv, Shape
  <1>7. \A u \in Tables : trail.again[u] \in Nat /\ trail.blind[u] \in Nat
    BY <1>6, Zenon DEF Trails
  <1>8. CASE seen
    <2>1. TrailKept
      BY <1>8, SameTrail, Zenon DEF Refuses
    <2>2. ASSUME NEW u \in Tables, u \in Quarantined(control')
          PROVE  /\ control'.state[u] # "complete"
                 /\ control'.refusal[u].fingerprint \notin {NULL, Fingerprint(u)}
                       => trail.again[u] <= trail.blind[u]
      <3>1. CASE u # t
        BY <3>1, <2>2, <1>5, Zenon DEF IInv, QuarantineInv, Quarantined, InState
      <3>2. CASE u = t
        <4>1. control'.refusal[t].state = "quarantined"
          BY <3>2, <2>2, Zenon DEF Quarantined, InState
        <4>2. control'.state[t] # "complete"
          BY <1>5, Zenon
        <4>3. CASE control'.refusal[t].fingerprint = fp
          BY <4>2, <4>3, <3>2, <1>4, <1>8, Zenon
        <4>4. CASE /\ control.refusal[t].state = "quarantined"
                   /\ control'.refusal[t] = control.refusal[t]
          BY <4>2, <4>4, <3>2, Zenon DEF IInv, QuarantineInv, Quarantined, InState
        <4> QED BY <4>1, <4>3, <4>4, <1>3, <1>5, <1>8, Zenon
      <3> QED BY <3>1, <3>2, Zenon
    <2> QED BY <2>1, <2>2, <1>5, Zenon DEF TrailKept, QuarantineInv, IInv, Fingerprint
  <1>9. CASE ~seen
    <2>1. /\ trail' = [trail EXCEPT !.faults = trail.faults + 1,
                                    !.blind[t] = trail.blind[t] + 1]
      BY <1>9, Zenon DEF Refuses
    <2>2. trail.faults + 1 \in Nat /\ trail.blind[t] + 1 \in Nat
      <3>1. trail.faults \in Nat
        BY <1>6, Zenon DEF Trails
      <3> QED BY <3>1, <1>7
    <2>3. /\ trail' \in Trails /\ trail'.start = trail.start /\ trail'.again = trail.again
          /\ trail'.blind[t] = trail.blind[t] + 1
          /\ \A u \in Tables \ {t} : trail'.blind[u] = trail.blind[u]
      BY <2>1, <2>2, <1>6, Zenon DEF Trails
    <2>4. ASSUME NEW u \in Tables
          PROVE  /\ trail'.again[u] <= 1 + trail'.blind[u]
                 /\ u \in Quarantined(control') =>
                       /\ control'.state[u] # "complete"
                       /\ control'.refusal[u].fingerprint \notin {NULL, Fingerprint(u)}
                             => trail'.again[u] <= trail'.blind[u]
      <3>1. CASE u # t
        BY <3>1, <2>3, <1>5, Zenon DEF IInv, QuarantineInv, Quarantined, InState
      <3>2. CASE u = t
        <4>1. trail.again[t] <= 1 + trail.blind[t]
          BY Zenon DEF IInv, QuarantineInv
        <4>2. trail'.again[t] <= trail'.blind[t] /\ trail'.again[t] <= 1 + trail'.blind[t]
          BY <4>1, <2>3, <1>7
        <4>3. control'.state[t] # "complete"
          BY <1>5, Zenon
        <4> QED BY <4>2, <4>3, <3>2, Zenon
      <3> QED BY <3>1, <3>2, Zenon
    <2> QED BY <2>3, <2>4, <1>5, Zenon DEF QuarantineInv, Fingerprint
  <1> QED BY <1>8, <1>9, Zenon

-----------------------------------------------------------------------------
(* The steps.                                                               *)

\* A step of the process to a place whose invariants say nothing.
LEMMA QuietSteps ==
  ASSUME IInv,
         \/ Start \/ Plan \/ Prepare \/ SlotDropFails \/ EngineMisses \/ EngineEnds
         \/ EngineFails \/ AbandonedExits \/ EvidenceFails \/ AssertComplete \/ Consume
         \/ (\E dropped \in BOOLEAN : Retire(dropped)) \/ StreamEnds \/ Crash
  PROVE  IInv'
  <1>1. ASSUME Start PROVE IInv'
    <2>1. proc' \in Procs /\ proc'.pc \in Quiet
      <3>1. "requeue" \in Places /\ "requeue" \in Quiet
        BY DEF Places, Quiet
      <3> QED BY <1>1, <3>1, Going, Zenon DEF Start
    <2>2. recovery' \in Recoveries
      BY <1>1, Zenon DEF Start, IInv, Shape
    <2>3. TrailKept
      BY <1>1, SameTrail, Zenon DEF Start
    <2>4. UNCHANGED <<source, control, image>>
      BY <1>1, Zenon DEF Start
    <2> QED BY <2>1, <2>2, <2>3, <2>4, QuietPlace, Moves, Zenon
  <1>2. ASSUME SlotDropFails PROVE IInv'
    <2>1. proc' \in Procs /\ proc'.pc \in Quiet
      BY <1>2, IdleType, Zenon DEF SlotDropFails, Quiet
    <2>2. recovery' \in Recoveries
      BY <1>2, Zenon DEF SlotDropFails, IInv, Shape
    <2>3. TrailKept
      BY <1>2, FaultKept, Zenon DEF SlotDropFails
    <2>4. UNCHANGED <<source, control, image>>
      BY <1>2, Zenon DEF SlotDropFails
    <2> QED BY <2>1, <2>2, <2>3, <2>4, QuietPlace, Moves, Zenon
  <1>3. ASSUME EngineMisses PROVE IInv'
    <2>1. proc' \in Procs /\ proc'.pc \in Quiet
      <3>1. "except" \in Places /\ "except" \in Quiet
        BY DEF Places, Quiet
      <3> QED BY <1>3, <3>1, Going, Zenon DEF EngineMisses
    <2>2. recovery' \in Recoveries
      <3>1. recovery \in Recoveries
        BY Zenon DEF IInv, Shape
      <3> QED BY <1>3, <3>1, Zenon DEF EngineMisses, Recoveries
    <2>3. TrailKept
      BY <1>3, SameTrail, Zenon DEF EngineMisses
    <2>4. UNCHANGED <<source, control, image>>
      BY <1>3, Zenon DEF EngineMisses
    <2> QED BY <2>1, <2>2, <2>3, <2>4, QuietPlace, Moves, Zenon
  <1>4. ASSUME EngineEnds PROVE IInv'
    <2>1. proc' \in Procs /\ proc'.pc \in Quiet
      <3>1. proc \in Procs
        BY Zenon DEF IInv, Shape
      <3>2. proc.swapped \in SUBSET Tables
        BY <3>1, Zenon DEF Procs
      <3> QED BY <1>4, <3>1, <3>2, Zenon DEF EngineEnds, Procs, Places, Quiet
    <2>2. recovery' \in Recoveries
      BY <1>4, Zenon DEF EngineEnds, IInv, Shape
    <2>3. TrailKept
      BY <1>4, SameTrail, Zenon DEF EngineEnds
    <2>4. UNCHANGED <<source, control, image>>
      BY <1>4, Zenon DEF EngineEnds
    <2> QED BY <2>1, <2>2, <2>3, <2>4, QuietPlace, Moves, Zenon
  <1>5. ASSUME EngineFails PROVE IInv'
    <2>1. proc' \in Procs /\ proc'.pc \in Quiet
      <3>1. "except" \in Places /\ "except" \in Quiet
        BY DEF Places, Quiet
      <3> QED BY <1>5, <3>1, Going, Zenon DEF EngineFails
    <2>2. recovery' \in Recoveries
      BY <1>5, Zenon DEF EngineFails, IInv, Shape
    <2>3. TrailKept
      BY <1>5, FaultKept, Zenon DEF EngineFails
    <2>4. UNCHANGED <<source, control, image>>
      BY <1>5, Zenon DEF EngineFails
    <2> QED BY <2>1, <2>2, <2>3, <2>4, QuietPlace, Moves, Zenon
  <1>6. ASSUME AbandonedExits PROVE IInv'
    <2>1. proc' \in Procs /\ proc'.pc \in Quiet
      BY <1>6, IdleType, Zenon DEF AbandonedExits, Quiet
    <2>2. recovery' \in Recoveries
      BY <1>6, Zenon DEF AbandonedExits, IInv, Shape
    <2>3. TrailKept
      BY <1>6, SameTrail, Zenon DEF AbandonedExits
    <2>4. UNCHANGED <<source, control, image>>
      BY <1>6, Zenon DEF AbandonedExits
    <2> QED BY <2>1, <2>2, <2>3, <2>4, QuietPlace, Moves, Zenon
  <1>7. ASSUME EvidenceFails PROVE IInv'
    <2>1. proc' \in Procs /\ proc'.pc \in Quiet
      <3>1. "assert" \in Places /\ "assert" \in Quiet
        BY DEF Places, Quiet
      <3> QED BY <1>7, <3>1, Going, Zenon DEF EvidenceFails
    <2>2. recovery' \in Recoveries
      BY <1>7, Zenon DEF EvidenceFails, IInv, Shape
    <2>3. TrailKept
      BY <1>7, FaultKept, Zenon DEF EvidenceFails
    <2>4. UNCHANGED <<source, control, image>>
      BY <1>7, Zenon DEF EvidenceFails
    <2> QED BY <2>1, <2>2, <2>3, <2>4, QuietPlace, Moves, Zenon
  <1>8. ASSUME AssertComplete PROVE IInv'
    <2>1. proc' \in Procs /\ proc'.pc \in Quiet
      <3>1. proc \in Procs
        BY Zenon DEF IInv, Shape
      <3> QED BY <1>8, <3>1, IdleType, Zenon DEF AssertComplete, Procs, Places, Quiet
    <2>2. recovery' \in Recoveries
      BY <1>8, Zenon DEF AssertComplete, IInv, Shape
    <2>3. TrailKept
      BY <1>8, SameTrail, Zenon DEF AssertComplete
    <2>4. UNCHANGED <<source, control, image>>
      BY <1>8, Zenon DEF AssertComplete
    <2> QED BY <2>1, <2>2, <2>3, <2>4, QuietPlace, Moves, Zenon
  <1>9. ASSUME Consume PROVE IInv'
    <2>1. proc' \in Procs /\ proc'.pc \in Quiet
      <3>1. "retire" \in Places /\ "retire" \in Quiet
        BY DEF Places, Quiet
      <3> QED BY <1>9, <3>1, Going, Zenon DEF Consume
    <2>2. recovery' \in Recoveries
      <3>1. recovery \in Recoveries
        BY Zenon DEF IInv, Shape
      <3> QED BY <1>9, <3>1, Zenon DEF Consume, Recoveries
    <2>3. TrailKept
      BY <1>9, SameTrail, Zenon DEF Consume
    <2>4. UNCHANGED <<source, control, image>>
      BY <1>9, Zenon DEF Consume
    <2> QED BY <2>1, <2>2, <2>3, <2>4, QuietPlace, Moves, Zenon
  <1>10. ASSUME NEW dropped \in BOOLEAN, Retire(dropped) PROVE IInv'
    <2>1. proc' \in Procs /\ proc'.pc \in Quiet
      <3>1. proc \in Procs
        BY Zenon DEF IInv, Shape
      <3> QED BY <1>10, <3>1, IdleType, Zenon DEF Retire, Procs, Places, Quiet
    <2>2. recovery' \in Recoveries
      <3>1. (recovery.slot /\ ~dropped) \in BOOLEAN
        BY Zenon
      <3> QED BY <1>10, <3>1, Zenon DEF Retire, Recoveries
    <2>3. TrailKept
      BY <1>10, SameTrail, FaultKept, Zenon DEF Retire, Unfaulted
    <2>4. UNCHANGED <<source, control, image>>
      BY <1>10, Zenon DEF Retire
    <2> QED BY <2>1, <2>2, <2>3, <2>4, QuietPlace, Moves, Zenon
  <1>11. ASSUME StreamEnds PROVE IInv'
    <2>1. proc' \in Procs /\ proc'.pc \in Quiet
      BY <1>11, IdleType, Zenon DEF StreamEnds, Quiet
    <2>2. recovery' \in Recoveries
      BY <1>11, Zenon DEF StreamEnds, IInv, Shape
    <2>3. TrailKept
      BY <1>11, SameTrail, Zenon DEF StreamEnds
    <2>4. UNCHANGED <<source, control, image>>
      BY <1>11, Zenon DEF StreamEnds
    <2> QED BY <2>1, <2>2, <2>3, <2>4, QuietPlace, Moves, Zenon
  <1>12. ASSUME Crash PROVE IInv'
    <2>1. proc' \in Procs /\ proc'.pc \in Quiet
      BY <1>12, IdleType, Zenon DEF Crash, Quiet
    <2>2. recovery' \in Recoveries
      BY <1>12, Zenon DEF Crash, IInv, Shape
    <2>3. TrailKept
      BY <1>12, FaultKept, Zenon DEF Crash
    <2>4. UNCHANGED <<source, control, image>>
      BY <1>12, Zenon DEF Crash
    <2> QED BY <2>1, <2>2, <2>3, <2>4, QuietPlace, Moves, Zenon
  <1>13. ASSUME Prepare PROVE IInv'
    <2>1. proc' \in Procs /\ proc'.pc \in Quiet
      <3>1. proc \in Procs
        BY Zenon DEF IInv, Shape
      <3>2. proc.todo \in Seq(SUBSET Tables) /\ proc.blocked \in SUBSET Tables
        BY <3>1, Zenon DEF Procs
      <3>3. Head(proc.todo) \in SUBSET Tables /\ Tail(proc.todo) \in Seq(SUBSET Tables)
        BY <1>13, <3>2 DEF Prepare
      <3> QED BY <1>13, <3>2, <3>3, IdleType, Zenon DEF Prepare, Procs, Places, Quiet
    <2>2. recovery' \in Recoveries
      <3>1. recovery \in Recoveries
        BY Zenon DEF IInv, Shape
      <3>2. proc.todo \in Seq(SUBSET Tables)
        BY Zenon DEF IInv, Shape, Procs
      <3>3. Head(proc.todo) \in SUBSET Tables
        BY <1>13, <3>2 DEF Prepare
      <3> QED BY <1>13, <3>1, <3>3, Zenon DEF Prepare, Recoveries
    <2>3. TrailKept
      BY <1>13, SameTrail, Zenon DEF Prepare
    <2>4. UNCHANGED <<source, control, image>>
      BY <1>13, Zenon DEF Prepare
    <2> QED BY <2>1, <2>2, <2>3, <2>4, QuietPlace, Moves, Zenon
  <1>14. ASSUME Plan PROVE IInv'
    <2>1. proc' \in Procs /\ proc'.pc \in Quiet
      <3> DEFINE alone == proc.owed \intersect Pending(control)
                 rest == proc.owed \ (alone \union Quarantined(control))
      <3>1. PICK each \in Bijection(1 .. Cardinality(alone), alone) :
               proc' = [Idle EXCEPT !.pc = "next",
                   !.todo = [i \in 1 .. Cardinality(alone) |-> {each[i]}]
                            \o (IF rest = {} THEN <<>> ELSE <<rest>>)]
        BY <1>14, Zenon DEF Plan
      <3>2. alone \in SUBSET Tables /\ rest \in SUBSET Tables
        BY Zenon DEF IInv, Shape, Procs
      <3>3. Cardinality(alone) \in Nat
        BY <3>2, ResnapshotAssumption, Zenon
      <3>4. each \in [1 .. Cardinality(alone) -> alone]
        BY Zenon DEF Bijection, Injection
      <3> HIDE DEF alone, rest
      <3> DEFINE singles == [i \in 1 .. Cardinality(alone) |-> {each[i]}]
                 healthy == IF rest = {} THEN <<>> ELSE <<rest>>
                 todo == singles \o healthy
      <3>5. singles \in Seq(SUBSET Tables)
        <4>1. \A i \in 1 .. Cardinality(alone) : {each[i]} \in SUBSET Tables
          BY <3>2, <3>4, Zenon
        <4> QED BY <4>1, <3>3
      <3>6. healthy \in Seq(SUBSET Tables)
        <4> DEFINE some == SUBSET Tables
        <4>1. rest \in some
          BY <3>2
        <4> HIDE DEF some
        <4>2. <<rest>> \in Seq(some) /\ <<>> \in Seq(some)
          BY <4>1
        <4> QED BY <4>2, Zenon DEF some
      <3>7. proc' = [Idle EXCEPT !.pc = "next", !.todo = todo]
        BY <3>1, Zenon
      <3> HIDE DEF singles, healthy
      <3>8. todo \in Seq(SUBSET Tables)
        BY <3>5, <3>6
      <3> HIDE DEF todo
      <3> QED BY <3>7, <3>8, IdleType, Zenon DEF Procs, Places, Quiet
    <2>2. recovery' \in Recoveries
      BY <1>14, Zenon DEF Plan, IInv, Shape
    <2>3. TrailKept
      BY <1>14, SameTrail, Zenon DEF Plan
    <2>4. UNCHANGED <<source, control, image>>
      BY <1>14, Zenon DEF Plan
    <2> QED BY <2>1, <2>2, <2>3, <2>4, QuietPlace, Moves, Zenon
  <1> QED BY <1>1, <1>2, <1>3, <1>4, <1>5, <1>6, <1>7, <1>8, <1>9, <1>10, <1>11,
             <1>12, <1>13, <1>14, Zenon

\* At the engine only the consistent point matters.
LEMMA EnginePlace ==
  ASSUME proc'.pc \in {"engine", "abandoned"},
         control'.resume < proc'.point, proc'.point <= Length' + 1
  PROVE  PlaceInv'
  BY Zenon DEF PlaceInv, PointInv, EvidenceInv, StreamInv, GateInv, At

\* The stream starts without what is quarantined or gone.
LEMMA StartStreamKeeps == ASSUME IInv, StartStream PROVE IInv'
  <1>1. Blocked(control) \in SUBSET Tables
    BY Zenon DEF Blocked, Quarantined, InState
  <1>2. proc' \in Procs /\ proc'.pc = "stream" /\ proc'.blocked = Blocked(control)
    BY <1>1, IdleType, Zenon DEF StartStream, Procs, Places
  <1>3. \A t \in Blocked(control) : control.state[t] # "complete"
    BY Zenon DEF Blocked, Quarantined, InState, IInv, QuarantineInv
  <1>4. UNCHANGED <<source, control, image, recovery, trail>>
    BY Zenon DEF StartStream
  <1>5. PlaceInv'
    BY <1>2, <1>3, <1>4, Zenon
       DEF PlaceInv, PointInv, EvidenceInv, StreamInv, GateInv, At
  <1>6. recovery' \in Recoveries /\ TrailKept
    BY <1>4, SameTrail, Zenon DEF IInv, Shape
  <1> QED BY <1>2, <1>4, <1>5, <1>6, Moves, Zenon

\* The consistent point lies past everything the source has committed.
LEMMA StartEngineKeeps == ASSUME IInv, StartEngine PROVE IInv'
  <1>1. /\ Length \in Nat /\ Length + 1 \in Nat /\ control.resume \in Nat
        /\ control.resume < Length + 1
    BY Numbers DEF IInv
  <1>2. proc' \in Procs /\ proc'.pc = "engine" /\ proc'.point = Length + 1
    <2>1. proc \in Procs
      BY Zenon DEF IInv, Shape
    <2> QED BY <2>1, <1>1, Zenon DEF StartEngine, Procs, Places
  <1>3. UNCHANGED <<source, control, image, trail>>
    BY Zenon DEF StartEngine
  <1>4. Length' = Length
    BY <1>3, Zenon DEF Length
  <1>5. PlaceInv'
    BY <1>1, <1>2, <1>3, <1>4, EnginePlace
  <1>6. recovery' \in Recoveries
    <2>1. recovery \in Recoveries
      BY Zenon DEF IInv, Shape
    <2> QED BY <2>1, Zenon DEF StartEngine, Recoveries
  <1> QED BY <1>2, <1>3, <1>5, <1>6, SameTrail, Moves, Zenon

\* A callback that does not quiesce goes on at the same consistent point.
LEMMA AbandonKeeps == ASSUME IInv, Abandon PROVE IInv'
  <1>1. "abandoned" \in Places
    BY DEF Places
  <1>2. proc' \in Procs /\ proc'.pc = "abandoned" /\ proc'.point = proc.point
    BY <1>1, Going, Zenon DEF Abandon
  <1>3. UNCHANGED <<source, control, image, recovery>>
    BY Zenon DEF Abandon
  <1>4. control.resume < proc.point /\ proc.point <= Length + 1 /\ Length' = Length
    BY <1>3, Zenon DEF Abandon, At, IInv, PlaceInv, PointInv, Length
  <1>5. PlaceInv'
    BY <1>2, <1>3, <1>4, EnginePlace, Zenon
  <1>6. TrailKept /\ recovery' \in Recoveries
    BY <1>3, FaultKept, Zenon DEF Abandon, IInv, Shape
  <1> QED BY <1>2, <1>3, <1>5, <1>6, Moves, Zenon

\* So does the sampled position ...
LEMMA SampleWalKeeps == ASSUME IInv, SampleWal PROVE IInv'
  <1>1. /\ Length \in Nat /\ Length + 1 \in Nat /\ control.resume \in Nat
        /\ control.resume < Length + 1
    BY Numbers DEF IInv
  <1>2. proc' \in Procs /\ proc'.pc = "count" /\ proc'.sampled = Length + 1
    <2>1. proc \in Procs
      BY Zenon DEF IInv, Shape
    <2> QED BY <2>1, <1>1, Zenon DEF SampleWal, Procs, Places
  <1>3. UNCHANGED <<source, control, image, recovery, trail>>
    BY Zenon DEF SampleWal
  <1>4. Length' = Length
    BY <1>3, Zenon DEF Length
  <1>5. PlaceInv'
    <2>1. control'.resume < proc'.sampled /\ proc'.sampled <= Length' + 1
      BY <1>1, <1>2, <1>3, <1>4
    <2> QED BY <2>1, <1>2, Zenon
         DEF PlaceInv, PointInv, EvidenceInv, StreamInv, GateInv, At
  <1>6. recovery' \in Recoveries /\ TrailKept
    BY <1>3, SameTrail, Zenon DEF IInv, Shape
  <1> QED BY <1>2, <1>3, <1>5, <1>6, Moves, Zenon

\* ... before which an empty relation has no row.
LEMMA CountRowsKeeps == ASSUME IInv, CountRows PROVE IInv'
  <1> DEFINE absent == {t \in Unresolved : ~source.exists[t]}
             void == {t \in Unresolved : source.exists[t] /\ Rows(t, Length) = {}}
  <1>1. proc' = [proc EXCEPT !.pc = "missing", !.missing = absent, !.empty = void]
    BY Zenon DEF CountRows
  <1>2. absent \in SUBSET Tables /\ void \in SUBSET Tables
    BY Zenon DEF IInv, Shape, Procs, Unresolved
  <1>3. (\A t \in void : Rows(t, Length) = {}) /\ \A t \in absent : ~source.exists[t]
    BY Zenon
  <1> HIDE DEF absent, void
  <1>4. /\ proc' \in Procs /\ proc'.pc = "missing" /\ proc'.sampled = proc.sampled
        /\ proc'.missing = absent /\ proc'.empty = void
    <2>1. proc \in Procs
      BY Zenon DEF IInv, Shape
    <2> QED BY <2>1, <1>1, <1>2, Zenon DEF Procs, Places
  <1>5. UNCHANGED <<source, control, image, recovery, trail>>
    BY Zenon DEF CountRows
  <1>6. Length' = Length /\ \A t : Rows(t, Length)' = Rows(t, Length)
    BY <1>5, SameRows, Zenon
  <1>7. PointInv'
    BY <1>4, <1>5, <1>6, Zenon DEF CountRows, At, IInv, PlaceInv, PointInv
  <1>8. EvidenceInv'
    BY <1>3, <1>4, <1>5, <1>6, Zenon DEF EvidenceInv, At
  <1>9. PlaceInv'
    BY <1>4, <1>7, <1>8, Zenon DEF PlaceInv, StreamInv, GateInv, At
  <1>10. recovery' \in Recoveries /\ TrailKept
    BY <1>5, SameTrail, Zenon DEF IInv, Shape
  <1> QED BY <1>4, <1>5, <1>9, <1>10, Moves, Zenon

\* A request for a snapshot completes nothing.
LEMMA Requests ==
  ASSUME IInv, NEW ts, control' = RequestSnapshot(control, ts)
  PROVE  /\ control' \in Controls /\ control'.resume = control.resume
         /\ control'.fence = control.fence /\ control'.refusal = control.refusal
         /\ \A t \in Tables : control'.state[t] = "complete" => control.state[t] = "complete"
  <1>1. control \in Controls
    BY Zenon DEF IInv, Shape
  <1> DEFINE d == RequestSnapshot(control, ts)
  <1>2. /\ d \in Controls /\ d.fence = control.fence /\ d.refusal = control.refusal
        /\ d.resume = control.resume
        /\ \A t \in Tables : d.state[t] =
              IF t \in ts THEN "awaiting_snapshot" ELSE control.state[t]
    BY <1>1, RequestFacts, SMT
  <1> HIDE DEF d
  <1> QED BY <1>2, Zenon DEF d

LEMMA RequeueKeeps == ASSUME IInv, Requeue PROVE IInv'
  <1>1. "promote" \in Places /\ "promote" \in Quiet
    BY DEF Places, Quiet
  <1>2. proc' \in Procs /\ PlaceInv'
    BY <1>1, Going, QuietPlace, Zenon DEF Requeue
  <1>3. UNCHANGED <<source, image>> /\ recovery' \in Recoveries /\ TrailKept
    BY SameTrail, Zenon DEF Requeue, IInv, Shape
  <1>4. CASE recovery.marker = "armed"
    <2>1. control' = RequestSnapshot(control, recovery.tables)
      BY <1>4, Zenon DEF Requeue
    <2> QED BY <2>1, <1>2, <1>3, Requests, Writes, Zenon
  <1>5. CASE recovery.marker # "armed"
    <2>1. control' = control
      BY <1>5, Zenon DEF Requeue
    <2> QED BY <2>1, <1>2, <1>3, Moves, Zenon
  <1> QED BY <1>4, <1>5, Zenon

LEMMA RepairKeeps == ASSUME IInv, Repair PROVE IInv'
  <1>1. PICK owed : control' = RequestSnapshot(control, owed)
    BY Zenon DEF Repair
  <1>2. proc' \in Procs /\ proc'.pc \in Quiet
    <2>1. proc \in Procs
      BY Zenon DEF IInv, Shape
    <2>2. proc.todo \in Seq(SUBSET Tables) /\ proc.goes \in BOOLEAN
      BY <2>1, Zenon DEF Procs
    <2>3. PICK goes \in BOOLEAN :
            proc' \in {Idle, [Idle EXCEPT !.pc = "consume", !.goes = goes, !.todo = proc.todo]}
      BY <2>2, Zenon DEF Repair
    <2> DEFINE on == [Idle EXCEPT !.pc = "consume", !.goes = goes, !.todo = proc.todo]
    <2>4. on \in Procs /\ on.pc = "consume"
      BY <2>2, IdleType, Zenon DEF Procs, Places
    <2> HIDE DEF on
    <2> QED BY <2>3, <2>4, IdleType, Zenon DEF Quiet, on
  <1>3. UNCHANGED <<source, image>> /\ recovery' \in Recoveries /\ TrailKept
    BY SameTrail, Zenon DEF Repair, IInv, Shape
  <1> QED BY <1>1, <1>2, <1>3, QuietPlace, Requests, Writes, Zenon

LEMMA StreamRequestsKeeps ==
  ASSUME IInv, NEW t \in Tables, StreamRequests(t) PROVE IInv'
  <1>1. control' = RequestSnapshot(control, {t})
    BY Zenon DEF StreamRequests
  <1>2. proc' \in Procs /\ proc'.pc \in Quiet
    BY IdleType, Zenon DEF StreamRequests, Quiet
  <1>3. UNCHANGED <<source, image>> /\ recovery' \in Recoveries /\ TrailKept
    BY FaultKept, Zenon DEF StreamRequests, IInv, Shape
  <1> QED BY <1>1, <1>2, <1>3, QuietPlace, Requests, Writes, Zenon

\* The owed queue is read after the half-built images have joined it.
LEMMA PromoteKeeps == ASSUME IInv, Promote PROVE IInv'
  <1> DEFINE half == {t \in Tables : control.state[t] = "in_progress"}
             d == Transition(control, half, "awaiting_snapshot")
             owed == {t \in Tables : control'.state[t] = "awaiting_snapshot"}
             gate == owed \intersect Quarantined(control)
  <1>1. control' = d
    BY Zenon DEF Promote
  <1>2. control \in Controls /\ "awaiting_snapshot" \in LifeStates
    BY Zenon DEF IInv, Shape, LifeStates
  <1>3. /\ d \in Controls /\ d.fence = control.fence /\ d.refusal = control.refusal
        /\ d.resume = control.resume
        /\ \A t \in Tables : d.state[t] =
              IF t \in half /\ <<control.state[t], "awaiting_snapshot">> \in TABLE_LIFECYCLE
              THEN "awaiting_snapshot" ELSE control.state[t]
    BY <1>2, TransitionFacts, Zenon
  <1> HIDE DEF d, half
  <1>4. \A t \in Tables : control'.state[t] = "complete" => control.state[t] = "complete"
    BY <1>1, <1>3, Zenon
  <1>5. proc' = [proc EXCEPT !.pc = "gate", !.owed = owed, !.gate = gate]
    BY Zenon DEF Promote
  <1>6. owed \in SUBSET Tables /\ gate \in SUBSET Tables /\ gate \subseteq Quarantined(control)
    BY Zenon
  <1> HIDE DEF owed, gate
  <1>7. proc' \in Procs /\ proc'.pc = "gate" /\ proc'.gate = gate
    <2>1. proc \in Procs
      BY Zenon DEF IInv, Shape
    <2> QED BY <2>1, <1>5, <1>6, Zenon DEF Procs, Places
  <1>8. PlaceInv'
    <2>1. Quarantined(control)' = Quarantined(control)
      BY <1>1, <1>3, Zenon DEF Quarantined, InState
    <2> QED BY <2>1, <1>6, <1>7, Zenon
         DEF PlaceInv, PointInv, EvidenceInv, StreamInv, GateInv, At
  <1>9. recovery' \in Recoveries
    <2>1. recovery \in Recoveries
      BY Zenon DEF IInv, Shape
    <2> QED BY <2>1, Zenon DEF Promote, Recoveries
  <1>10. UNCHANGED <<source, image>> /\ TrailKept
    BY SameTrail, Zenon DEF Promote
  <1> QED BY <1>1, <1>3, <1>4, <1>7, <1>8, <1>9, <1>10, Writes, Zenon

\* The first committed chunk opens the shadow at the same consistent point.
LEMMA OpenShadowKeeps ==
  ASSUME IInv, NEW t \in Tables, OpenShadow(t) PROVE IInv'
  <1> DEFINE d == Transition(control, {t}, "in_progress")
  <1>1. control' = d
    BY Zenon DEF OpenShadow
  <1>2. control \in Controls /\ "in_progress" \in LifeStates
    BY Zenon DEF IInv, Shape, LifeStates
  <1>3. /\ d \in Controls /\ d.fence = control.fence /\ d.refusal = control.refusal
        /\ d.resume = control.resume
        /\ \A u \in Tables : d.state[u] =
              IF u \in {t} /\ <<control.state[u], "in_progress">> \in TABLE_LIFECYCLE
              THEN "in_progress" ELSE control.state[u]
    BY <1>2, TransitionFacts, Zenon
  <1> HIDE DEF d
  <1>4. \A u \in Tables : control'.state[u] = "complete" => control.state[u] = "complete"
    BY <1>1, <1>3, Zenon
  <1>5. proc' \in Procs /\ proc'.pc = proc.pc /\ proc'.point = proc.point
    <2>1. proc \in Procs
      BY Zenon DEF IInv, Shape
    <2>2. proc.scanned \union {t} \in SUBSET Tables
      BY <2>1, Zenon DEF Procs
    <2> QED BY <2>1, <2>2, Zenon DEF OpenShadow, Procs
  <1>6. UNCHANGED <<source, image, recovery, trail>>
    BY Zenon DEF OpenShadow
  <1>7. proc.pc \in {"engine", "abandoned"} /\ Length' = Length
    BY <1>6, Zenon DEF OpenShadow, Scanning, Length
  <1>8. PlaceInv'
    BY <1>1, <1>3, <1>5, <1>7, EnginePlace, Zenon DEF IInv, PlaceInv, PointInv
  <1>9. recovery' \in Recoveries /\ TrailKept
    BY <1>6, SameTrail, Zenon DEF IInv, Shape
  <1> QED BY <1>1, <1>3, <1>4, <1>5, <1>6, <1>8, <1>9, Writes, Zenon

\* A refusal outside the stream: the table is owed, nothing else moves.
LEMMA RefusedKeeps ==
  ASSUME IInv, source' = source, image' = image,
         NEW t \in Tables, NEW input \in Readings, NEW seen \in BOOLEAN,
         Refuses(control, t, input, seen),
         recovery' \in Recoveries, proc' \in Procs,
         control'.resume = control.resume => PlaceInv'
  PROVE  IInv'
  <1>1. control \in Controls
    BY Zenon DEF IInv, Shape
  <1>2. /\ control' \in Controls /\ control'.fence = control.fence
        /\ control'.resume = control.resume
        /\ \A u \in Tables : control'.state[u] =
               IF u = t THEN "awaiting_snapshot" ELSE control.state[u]
        /\ trail' \in Trails /\ trail'.start = trail.start
        /\ QuarantineInv'
    BY <1>1, Refused, SMT
  <1>3. TypesKept
    BY <1>2, Zenon DEF TypesKept
  <1>4. Shape'
    BY <1>2, <1>3, KeepShape, Zenon DEF IInv, Shape
  <1>5. \A u \in Tables : control'.state[u] = "complete" => control.state[u] = "complete"
    BY <1>2, Zenon
  <1>6. HandInv'
    BY <1>2, <1>5, KeepHand, Zenon DEF IInv
  <1> QED BY <1>2, <1>4, <1>6, Zenon DEF IInv

LEMMA SetupRefusedKeeps ==
  ASSUME IInv, NEW t \in Tables, NEW seen \in BOOLEAN, SetupRefused(t, seen)
  PROVE  IInv'
  <1>1. TableIdentity \in Readings
    BY DEF TableIdentity, Readings
  <1>2. proc' \in Procs /\ proc'.pc \in Quiet
    <2>1. proc \in Procs
      BY Zenon DEF IInv, Shape
    <2>2. {t} \in SUBSET Tables
      BY Zenon
    <2> QED BY <2>1, <2>2, Zenon DEF SetupRefused, Procs, Places, Quiet
  <1>3. recovery' \in Recoveries
    <2>1. recovery \in Recoveries
      BY Zenon DEF IInv, Shape
    <2> QED BY <2>1, Zenon DEF SetupRefused, Recoveries
  <1>4. UNCHANGED <<source, image>> /\ Refuses(control, t, TableIdentity, seen)
    BY Zenon DEF SetupRefused
  <1> QED BY <1>1, <1>2, <1>3, <1>4, QuietPlace, RefusedKeeps, Zenon

LEMMA RowRefusedKeeps ==
  ASSUME IInv, NEW t \in Tables, NEW seen \in BOOLEAN, RowRefused(t, seen)
  PROVE  IInv'
  <1>1. source.shape[t].n \in Readings
    <2>1. source.shape[t] \in Shapes
      BY Zenon DEF IInv, Shape, Sources
    <2> QED BY <2>1, Zenon DEF Shapes, Readings
  <1>2. proc' \in Procs /\ proc'.pc = proc.pc /\ proc'.point = proc.point
    <2>1. proc \in Procs
      BY Zenon DEF IInv, Shape
    <2>2. proc.scanned \union {t} \in SUBSET Tables /\ proc.refused \union {t} \in SUBSET Tables
      BY <2>1, Zenon DEF Procs
    <2> QED BY <2>1, <2>2, Zenon DEF RowRefused, Procs
  <1>3. UNCHANGED <<source, image, recovery>> /\ Refuses(control, t, source.shape[t].n, seen)
    BY Zenon DEF RowRefused
  <1>4. proc.pc \in {"engine", "abandoned"} /\ Length' = Length
    BY <1>3, Zenon DEF RowRefused, Scanning, Length
  <1>5. control'.resume = control.resume => PlaceInv'
    BY <1>2, <1>4, EnginePlace, Zenon DEF IInv, PlaceInv, PointInv
  <1>6. recovery' \in Recoveries
    BY <1>3, Zenon DEF IInv, Shape
  <1> QED BY <1>1, <1>2, <1>3, <1>5, <1>6, RefusedKeeps, Zenon

\* The group commits without the refused table, which the stream leaves out.
LEMMA StreamContainsKeeps ==
  ASSUME IInv, NEW t \in Tables, NEW seen \in BOOLEAN, StreamContains(t, seen)
  PROVE  IInv'
  <1> DEFINE c == [control EXCEPT !.resume = control.resume + 1]
  <1>1. source.shape[t].n \in Readings
    <2>1. source.shape[t] \in Shapes
      BY Zenon DEF IInv, Shape, Sources
    <2> QED BY <2>1, Zenon DEF Shapes, Readings
  <1>2. /\ UNCHANGED <<source, image, recovery>> /\ Refuses(c, t, source.shape[t].n, seen)
        /\ Arriving(t)
    BY Zenon DEF StreamContains
  <1>3. control.resume + 1 \in Nat /\ control.resume + 1 <= Length
    BY <1>2, Numbers DEF IInv, Arriving
  <1>4. /\ c \in Controls /\ c.state = control.state /\ c.fence = control.fence
        /\ c.refusal = control.refusal /\ c.resume = control.resume + 1
    <2>1. control \in Controls
      BY Zenon DEF IInv, Shape
    <2> QED BY <2>1, <1>3, Zenon DEF Controls
  <1> HIDE DEF c
  <1>5. /\ control' \in Controls /\ control'.fence = control.fence
        /\ control'.resume = control.resume + 1
        /\ \A u \in Tables : control'.state[u] =
               IF u = t THEN "awaiting_snapshot" ELSE control.state[u]
        /\ trail' \in Trails /\ trail'.start = trail.start
        /\ QuarantineInv'
    BY <1>1, <1>2, <1>4, Refused, SMT
  <1>6. /\ proc' \in Procs /\ proc'.pc = "stream" /\ proc'.blocked = proc.blocked \union {t}
    <2>1. proc \in Procs /\ proc.pc = "stream"
      BY <1>2, Zenon DEF IInv, Shape, Arriving, At
    <2>2. proc.blocked \union {t} \in SUBSET Tables
      BY <2>1, Zenon DEF Procs
    <2> QED BY <2>1, <2>2, Zenon DEF StreamContains, Procs
  <1>7. Length' = Length /\ Positions' = Positions /\ recovery' \in Recoveries
    BY <1>2, <1>5, Zenon DEF Length, Positions, IInv, Shape
  <1>8. Shape'
    BY <1>2, <1>3, <1>5, <1>6, <1>7, Zenon DEF IInv, Shape
  <1>9. HandInv'
    <2> SUFFICES ASSUME NEW u \in Tables, control'.state[u] = "complete",
                        source'.exists[u], NEW i \in Positions'
                 PROVE  RowHandedOver(u, i)'
      BY Zenon DEF HandInv
    <2>1. u # t /\ control.state[u] = "complete" /\ i \in Positions /\ source.exists[u]
      BY <1>2, <1>5, <1>7, Zenon
    <2>2. RowHandedOver(u, i)
      BY <2>1, Zenon DEF IInv, HandInv
    <2> QED BY <2>1, <2>2, <1>2, <1>5, Passed, Zenon
  <1>10. PlaceInv'
    <2>1. \A u \in proc.blocked : u \in Tables /\ control.state[u] # "complete"
      BY <1>2, Zenon DEF IInv, PlaceInv, StreamInv, Arriving, Shape, Procs
    <2>2. \A u \in proc'.blocked : control'.state[u] # "complete"
      BY <2>1, <1>5, <1>6, Zenon
    <2> QED BY <2>2, <1>6, Zenon
         DEF PlaceInv, PointInv, EvidenceInv, StreamInv, GateInv, At
  <1> QED BY <1>5, <1>8, <1>9, <1>10, Zenon DEF IInv

\* A retry takes the table out of quarantine; without one its fingerprint is
\* adopted, or nothing changes.
LEMMA GateKeeps ==
  ASSUME IInv, NEW t \in Tables, NEW seen \in BOOLEAN, Gate(t, seen)
  PROVE  IInv'
  <1>1. control \in Controls /\ trail \in Trails /\ proc \in Procs
    BY Zenon DEF IInv, Shape
  <1>2. UNCHANGED <<source, image, recovery>> /\ t \in Quarantined(control)
    BY Zenon DEF Gate, IInv, PlaceInv, GateInv
  <1>3. control.refusal[t] \in Refusals /\ Fingerprint(t) \in Readings
    <2>1. control.refusal[t] \in Refusals
      BY <1>1, Zenon DEF Controls
    <2>2. source.shape[t] \in Shapes
      BY Zenon DEF IInv, Shape, Sources
    <2> QED BY <2>1, <2>2, Zenon DEF Shapes, Readings, Fingerprint
  <1>4. /\ proc' \in Procs /\ proc'.pc = "gate" /\ proc'.gate = proc.gate \ {t}
    <2>1. proc.gate \ {t} \in SUBSET Tables
      BY <1>1, Zenon DEF Procs
    <2> QED BY <2>1, <1>1, Zenon DEF Gate, At, Procs
  <1>5. /\ control' \in Controls /\ control'.resume = control.resume
        /\ control'.fence = control.fence
        /\ \A u \in Tables : control'.state[u] = "complete" => control.state[u] = "complete"
        /\ \A u \in Tables \ {t} : control'.refusal[u] = control.refusal[u]
        /\ trail' \in Trails /\ trail'.start = trail.start
        /\ QuarantineInv'
    <2>1. CASE RetryAllowed(t, seen)
      <3> DEFINE free == [control EXCEPT !.refusal[t].state = "pending"]
                 r == [control.refusal[t] EXCEPT !.state = "pending"]
      <3>1. r \in Refusals /\ r.state = "pending"
        BY <1>3, Zenon DEF Refusals
      <3>2. free = [control EXCEPT !.refusal[t] = r]
        BY Zenon
      <3>3. control' = RequestSnapshot(free, {t})
        BY <2>1, Zenon DEF Gate
      <3> HIDE DEF r
      <3>4. /\ free \in Controls /\ free.state = control.state /\ free.fence = control.fence
            /\ free.resume = control.resume /\ free.refusal[t] = r
            /\ \A u \in Tables \ {t} : free.refusal[u] = control.refusal[u]
        BY <3>1, <3>2, <1>1, Zenon DEF Controls
      <3> HIDE DEF free
      <3>5. /\ control' \in Controls /\ control'.fence = control.fence
            /\ control'.refusal = free.refusal /\ control'.resume = control.resume
            /\ \A u \in Tables : control'.state[u] =
                  IF u \in {t} THEN "awaiting_snapshot" ELSE control.state[u]
        BY <3>3, <3>4, RequestFacts, SMT
      <3>6. trail' = [trail EXCEPT !.again[t] = trail.again[t] + 1]
        BY <2>1, Zenon DEF Gate
      <3>7. \A u \in Tables : trail.again[u] \in Nat /\ trail.blind[u] \in Nat
        BY <1>1, Zenon DEF Trails
      <3>8. /\ trail' \in Trails /\ trail'.start = trail.start /\ trail'.blind = trail.blind
            /\ trail'.again[t] = trail.again[t] + 1
            /\ \A u \in Tables \ {t} : trail'.again[u] = trail.again[u]
        <4>1. trail.again[t] + 1 \in Nat
          BY <3>7
        <4> QED BY <4>1, <3>6, <1>1, Zenon DEF Trails
      <3>9. ASSUME NEW u \in Tables
            PROVE  /\ trail'.again[u] <= 1 + trail'.blind[u]
                   /\ u \in Quarantined(control') =>
                         /\ control'.state[u] # "complete"
                         /\ control'.refusal[u].fingerprint \notin {NULL, Fingerprint(u)}
                               => trail'.again[u] <= trail'.blind[u]
        <4>1. CASE u # t
          BY <4>1, <3>4, <3>5, <3>8, Zenon DEF IInv, QuarantineInv, Quarantined, InState
        <4>2. CASE u = t
          <5>1. u \notin Quarantined(control')
            BY <4>2, <3>1, <3>4, <3>5, Zenon DEF Quarantined, InState
          <5>2. trail.again[t] <= trail.blind[t]
            BY <2>1, <1>2, Zenon DEF IInv, QuarantineInv, RetryAllowed
          <5>3. trail'.again[t] <= 1 + trail'.blind[t]
            BY <5>2, <3>7, <3>8
          <5> QED BY <5>1, <5>3, <4>2, Zenon
        <4> QED BY <4>1, <4>2, Zenon
      <3>10. QuarantineInv'
        BY <3>9, <1>2, Zenon DEF QuarantineInv, Fingerprint
      <3>11. \A u \in Tables \ {t} : control'.refusal[u] = control.refusal[u]
        BY <3>4, <3>5, Zenon
      <3>12. \A u \in Tables : control'.state[u] = "complete" => control.state[u] = "complete"
        BY <3>5, Zenon
      <3> QED BY <3>5, <3>8, <3>10, <3>11, <3>12, Zenon
    <2>2. CASE ~RetryAllowed(t, seen)
      <3>1. control' = Adopted(t, seen)
        BY <2>2, Zenon DEF Gate
      <3>2. TrailKept
        <4>1. CASE seen
          BY <4>1, <2>2, SameTrail, Zenon DEF Gate
        <4>2. CASE ~seen
          BY <4>2, <2>2, FaultKept, Zenon DEF Gate, Fault
        <4> QED BY <4>1, <4>2, Zenon
      <3>3. CASE control' = control
        BY <3>2, <3>3, <1>1, <1>2, KeepQuarantine, Zenon DEF TrailKept
      <3>4. CASE control' # control
        <4> DEFINE r == [control.refusal[t] EXCEPT !.fingerprint = Fingerprint(t)]
        <4>1. r \in Refusals /\ r.fingerprint = Fingerprint(t)
          BY <1>3, Zenon DEF Refusals
        <4>2. control' = [control EXCEPT !.refusal[t] = r]
          BY <3>1, <3>4, Zenon DEF Adopted
        <4> HIDE DEF r
        <4>3. /\ control' \in Controls /\ control'.state = control.state
              /\ control'.fence = control.fence /\ control'.resume = control.resume
              /\ control'.refusal[t] = r
              /\ \A u \in Tables \ {t} : control'.refusal[u] = control.refusal[u]
          BY <4>1, <4>2, <1>1, Zenon DEF Controls
        <4>4. ASSUME NEW u \in Tables, u \in Quarantined(control')
              PROVE  /\ control'.state[u] # "complete"
                     /\ control'.refusal[u].fingerprint \notin {NULL, Fingerprint(u)}
                           => trail.again[u] <= trail.blind[u]
          <5>1. u \in Quarantined(control)
            BY <4>3, <4>4, <1>2, Zenon DEF Quarantined, InState
          <5> QED BY <5>1, <4>1, <4>3, Zenon DEF IInv, QuarantineInv
        <4>5. QuarantineInv'
          BY <4>4, <3>2, <1>2, Zenon DEF QuarantineInv, Fingerprint, TrailKept, IInv
        <4> QED BY <4>3, <4>5, <3>2, Zenon DEF TrailKept
      <3> QED BY <3>3, <3>4, Zenon
    <2> QED BY <2>1, <2>2, Zenon
  <1>6. recovery' \in Recoveries
    BY <1>2, Zenon DEF IInv, Shape
  <1>7. TypesKept
    BY <1>4, <1>5, <1>6, Zenon DEF TypesKept
  <1>8. Shape'
    BY <1>2, <1>5, <1>7, KeepShape, Zenon DEF IInv, Shape
  <1>9. HandInv'
    BY <1>2, <1>5, KeepHand, Zenon DEF IInv
  <1>10. PlaceInv'
    <2>1. proc'.gate \subseteq Quarantined(control')
      <3>1. proc.gate \subseteq Quarantined(control)
        BY Zenon DEF Gate, IInv, PlaceInv, GateInv
      <3> QED BY <3>1, <1>4, <1>5, Zenon DEF Quarantined, InState
    <2> QED BY <2>1, <1>4, Zenon
         DEF PlaceInv, PointInv, EvidenceInv, StreamInv, GateInv, At
  <1> QED BY <1>5, <1>8, <1>9, <1>10, Zenon DEF IInv

\* A step that fences the tables `ts` at a point the stream has not reached: what
\* is left to show is that those it completes are handed over there.
LEMMA Completes ==
  ASSUME IInv, source' = source, trail' = trail,
         NEW ts, NEW at \in Nat, at <= Length + 1,
         control' \in Controls, control'.resume = control.resume,
         \A u \in Tables : u \notin ts =>
            /\ control'.state[u] = control.state[u] /\ control'.fence[u] = control.fence[u]
            /\ image'[u] = image[u],
         \A u \in Tables : u \in ts => control'.fence[u] = at,
         \A u \in Tables : control'.refusal[u].state = "quarantined" =>
            /\ control'.refusal[u] = control.refusal[u]
            /\ u \in ts => control'.state[u] # "complete",
         image' \in [Tables -> [Positions -> Nat]],
         recovery' \in Recoveries, proc' \in Procs, PlaceInv',
         \A u \in Tables : u \in ts /\ control'.state[u] = "complete" /\ source.exists[u] =>
            \A i \in Positions : RowHandedOver(u, i)'
  PROVE  IInv'
  <1>1. TrailKept /\ TypesKept
    BY SameTrail, Zenon DEF TypesKept, TrailKept
  <1>2. \A u \in Tables : control'.fence[u] <= Length + 1
    <2>1. \A u \in Tables : control.fence[u] <= Length + 1
      BY Zenon DEF IInv, Shape
    <2> QED BY <2>1, Zenon
  <1>3. Shape'
    BY <1>1, <1>2, KeepShape, Zenon DEF IInv, Shape
  <1>4. HandInv'
    <2> SUFFICES ASSUME NEW u \in Tables, control'.state[u] = "complete", source'.exists[u],
                        NEW i \in Positions'
                 PROVE  RowHandedOver(u, i)'
      BY Zenon DEF HandInv
    <2>1. i \in Positions /\ source.exists[u]
      BY Zenon DEF Positions
    <2>2. CASE u \in ts
      BY <2>1, <2>2, Zenon
    <2>3. CASE u \notin ts
      <3>1. RowHandedOver(u, i)
        BY <2>1, <2>3, Zenon DEF IInv, HandInv
      <3>2. Behind(u)' = Behind(u)
        BY <2>3, SameRows, Zenon DEF Behind
      <3>3. Length' = Length /\ Rows(u, Length)' = Rows(u, Length)
        BY SameRows, Zenon
      <3>4. \A v, j, k : Event(v, j, k)' = Event(v, j, k)
        BY Zenon DEF Event
      <3> QED BY <3>1, <3>2, <3>3, <3>4, <2>3, Zenon DEF RowHandedOver
    <2> QED BY <2>2, <2>3, Zenon
  <1>5. QuarantineInv'
    <2>1. ASSUME NEW u \in Tables, u \in Quarantined(control')
          PROVE  /\ control'.state[u] # "complete"
                 /\ control'.refusal[u].fingerprint \notin {NULL, Fingerprint(u)}
                       => trail.again[u] <= trail.blind[u]
      <3>1. control'.refusal[u].state = "quarantined" /\ control'.refusal[u] = control.refusal[u]
        BY <2>1, Zenon DEF Quarantined, InState
      <3>2. u \in Quarantined(control)
        BY <3>1, Zenon DEF Quarantined, InState
      <3>3. control'.state[u] # "complete"
        BY <3>1, <3>2, Zenon DEF IInv, QuarantineInv
      <3> QED BY <3>1, <3>2, <3>3, Zenon DEF IInv, QuarantineInv
    <2> QED BY <2>1, Zenon DEF QuarantineInv, Fingerprint, IInv
  <1> QED BY <1>3, <1>4, <1>5, Zenon DEF IInv

LEMMA ImageType == \A rows : Image(rows) \in [Positions -> Nat]
  <1>1. 0 \in Nat /\ 1 \in Nat
    OBVIOUS
  <1> QED BY <1>1, Zenon DEF Image

\* The table is gone at the source; its image goes with the obligation.
LEMMA DischargeKeeps ==
  ASSUME IInv, NEW t \in Tables, Discharge(t) PROVE IInv'
  <1> DEFINE m == Transition(control, {t}, "gone")
             at == Length + 1
             c == [m EXCEPT !.fence[t] = at]
             d == Resolve(c, {t})
  <1>1. /\ UNCHANGED <<source, recovery, trail>> /\ ~source.exists[t] /\ control' = d
        /\ image' = [image EXCEPT ![t] = NoImage] /\ t \in proc.gate /\ At("gate")
    BY Zenon DEF Discharge
  <1>2. control \in Controls /\ proc \in Procs /\ recovery \in Recoveries
        /\ image \in [Tables -> [Positions -> Nat]] /\ "gone" \in LifeStates
    BY Zenon DEF IInv, Shape, LifeStates
  <1>3. at \in Nat /\ at <= Length + 1
    BY Numbers DEF IInv
  <1>4. /\ m \in Controls /\ m.fence = control.fence /\ m.refusal = control.refusal
        /\ m.resume = control.resume
        /\ \A u \in Tables : m.state[u] =
              IF u \in {t} /\ <<control.state[u], "gone">> \in TABLE_LIFECYCLE
              THEN "gone" ELSE control.state[u]
    BY <1>2, TransitionFacts, SMT
  <1> HIDE DEF m, at
  <1>5. /\ c \in Controls /\ c.state = m.state /\ c.refusal = m.refusal
        /\ c.resume = m.resume /\ c.fence[t] = at
        /\ \A u \in Tables \ {t} : c.fence[u] = m.fence[u]
    BY <1>3, <1>4, Zenon DEF Controls
  <1> HIDE DEF c
  <1>6. /\ d \in Controls /\ d.state = c.state /\ d.fence = c.fence
        /\ d.resume = c.resume
        /\ \A u \in Tables : u \notin {t} => d.refusal[u] = c.refusal[u]
        /\ \A u \in Tables : d.refusal[u].state = "quarantined" =>
              /\ d.refusal[u] = c.refusal[u]
              /\ u \in {t} => c.state[u] # "complete"
    BY <1>5, ResolveFacts, Zenon
  <1> HIDE DEF d
  <1>7. /\ proc' \in Procs /\ proc'.pc = "gate" /\ proc'.gate = proc.gate \ {t}
    <2>1. proc.gate \ {t} \in SUBSET Tables /\ proc.owed \ {t} \in SUBSET Tables
      BY <1>2, Zenon DEF Procs
    <2> QED BY <2>1, <1>2, Zenon DEF Discharge, At, Procs
  <1>8. PlaceInv'
    <2>1. proc.gate \subseteq Quarantined(control)
      BY <1>1, Zenon DEF IInv, PlaceInv, GateInv
    <2>2. \A u \in Tables : u \notin {t} => control'.refusal[u] = control.refusal[u]
      <3>1. c.refusal = control.refusal
        BY <1>4, <1>5, Zenon
      <3> QED BY <3>1, <1>1, <1>6, Zenon
    <2>3. proc'.gate \subseteq Quarantined(control')
      BY <2>1, <2>2, <1>7, Zenon DEF Quarantined, InState
    <2> QED BY <2>3, <1>7, Zenon
         DEF PlaceInv, PointInv, EvidenceInv, StreamInv, GateInv, At
  <1>9. image' \in [Tables -> [Positions -> Nat]] /\ \A u \in Tables : u \notin {t} => image'[u] = image[u]
    BY <1>1, <1>2, ImageType, Zenon DEF NoImage
  <1>10. \A u \in Tables : u \notin {t} =>
            /\ control'.state[u] = control.state[u] /\ control'.fence[u] = control.fence[u]
            /\ image'[u] = image[u]
    <2> TAKE u \in Tables
    <2> HAVE u \notin {t}
    <2>1. m.state[u] = control.state[u] /\ c.fence[u] = m.fence[u]
      BY <1>4, <1>5, Zenon
    <2> QED BY <2>1, <1>1, <1>4, <1>5, <1>6, <1>9, Zenon
  <1>11. \A u \in Tables : control'.refusal[u].state = "quarantined" =>
            /\ control'.refusal[u] = control.refusal[u]
            /\ u \in {t} => control'.state[u] # "complete"
    <2>1. c.refusal = control.refusal /\ control' = d /\ d.state = c.state
      BY <1>1, <1>4, <1>5, <1>6, Zenon
    <2> QED BY <2>1, <1>6, Zenon
  <1>12. /\ \A u \in Tables : u \in {t} => control'.fence[u] = at
         /\ control'.resume = control.resume /\ control' \in Controls
         /\ recovery' \in Recoveries
    BY <1>1, <1>2, <1>4, <1>5, <1>6, Zenon
  <1>13. \A u \in Tables : u \in {t} /\ control'.state[u] = "complete" /\ source.exists[u] =>
            \A i \in Positions : RowHandedOver(u, i)'
    BY <1>1, Zenon
  <1>14. source' = source /\ trail' = trail
    BY <1>1, Zenon
  <1> QED BY <1>3, <1>7, <1>8, <1>9, <1>10, <1>11, <1>12, <1>13, <1>14, Completes, Zenon

\* The whole image goes in, with the consistent point as its fence.
LEMMA SwapInKeeps ==
  ASSUME IInv, NEW t \in Tables, SwapIn(t) PROVE IInv'
  <1> DEFINE d == Complete(control, {t}, proc.point)
  <1>1. /\ UNCHANGED <<source, recovery, trail>> /\ control' = d
        /\ image' = [image EXCEPT ![t] = Image(Rows(t, proc.point - 1))]
        /\ proc.pc \in {"engine", "abandoned"}
    BY Zenon DEF SwapIn, Scanning, Snapshot
  <1>2. control \in Controls /\ proc \in Procs /\ recovery \in Recoveries
        /\ image \in [Tables -> [Positions -> Nat]]
    BY Zenon DEF IInv, Shape
  <1>3. proc.point \in Nat /\ control.resume < proc.point /\ proc.point <= Length + 1
    BY <1>1, Numbers, Zenon DEF IInv, PlaceInv, PointInv
  <1>4. /\ d \in Controls /\ d.resume = control.resume
        /\ \A u \in Tables : u \notin {t} =>
              /\ d.state[u] = control.state[u] /\ d.fence[u] = control.fence[u]
              /\ d.refusal[u] = control.refusal[u]
        /\ \A u \in Tables : u \in {t} =>
              d.state[u] \in {control.state[u], "complete"} /\ d.fence[u] = proc.point
        /\ \A u \in Tables : d.refusal[u].state = "quarantined" =>
              /\ d.refusal[u] = control.refusal[u]
              /\ u \in {t} => d.state[u] # "complete"
    BY <1>2, <1>3, CompleteFacts, SMT
  <1> HIDE DEF d
  <1>5. proc' \in Procs /\ proc'.pc = proc.pc /\ proc'.point = proc.point
    <2>1. proc.swapped \union {t} \in SUBSET Tables
      BY <1>2, Zenon DEF Procs
    <2> QED BY <2>1, <1>2, Zenon DEF SwapIn, Procs
  <1>6. Length' = Length /\ control'.resume = control.resume /\ source'.wal = source.wal
    BY <1>1, <1>4, Zenon DEF Length
  <1>7. PlaceInv'
    BY <1>1, <1>5, <1>6, EnginePlace, Zenon DEF IInv, PlaceInv, PointInv
  <1>8. /\ image' \in [Tables -> [Positions -> Nat]]
        /\ image'[t] = Image(Rows(t, proc.point - 1))
        /\ \A u \in Tables : u \notin {t} => image'[u] = image[u]
    BY <1>1, <1>2, ImageType, Zenon
  <1>9. \A i \in Positions : RowHandedOver(t, i)'
    <2>1. control'.fence[t] = proc.point
      BY <1>1, <1>4, Zenon
    <2> QED BY <2>1, <1>3, <1>6, <1>8, Published, Zenon
  <1>10. \A u \in Tables : u \in {t} /\ control'.state[u] = "complete" /\ source.exists[u] =>
            \A i \in Positions : RowHandedOver(u, i)'
    BY <1>9, Zenon
  <1>11. recovery' \in Recoveries
    BY <1>1, <1>2, Zenon
  <1> QED BY <1>1, <1>3, <1>4, <1>5, <1>7, <1>8, <1>10, <1>11, Completes, Zenon

\* The emptied tables are fenced where their emptiness was sampled.
LEMMA FinishEmptyKeeps == ASSUME IInv, FinishEmpty PROVE IInv'
  <1> DEFINE ts == proc.empty
             d == Complete(control, ts, proc.sampled)
  <1>1. /\ UNCHANGED <<source, recovery, trail>> /\ control' = d /\ proc.pc = "empty"
        /\ image' = [u \in Tables |-> IF u \in ts THEN NoImage ELSE image[u]]
    BY Zenon DEF FinishEmpty, At
  <1>2. control \in Controls /\ proc \in Procs /\ recovery \in Recoveries
        /\ image \in [Tables -> [Positions -> Nat]]
    BY Zenon DEF IInv, Shape
  <1>3. proc.sampled \in Nat /\ control.resume < proc.sampled /\ proc.sampled <= Length + 1
    BY <1>1, Numbers, Zenon DEF IInv, PlaceInv, PointInv
  <1>4. \A u \in ts : \A k \in 1 .. proc.sampled - 1 : k \notin Rows(u, Length)
    BY <1>1, Zenon DEF IInv, PlaceInv, EvidenceInv
  <1>5. proc' \in Procs /\ proc'.pc \in Quiet
    <2>1. proc.finished \union proc.empty \in SUBSET Tables /\ {} \in SUBSET Tables
      BY <1>2, Zenon DEF Procs
    <2> QED BY <2>1, <1>2, Zenon DEF FinishEmpty, Procs, Places, Quiet
  <1> HIDE DEF ts
  <1>6. /\ d \in Controls /\ d.resume = control.resume
        /\ \A u \in Tables : u \notin ts =>
              /\ d.state[u] = control.state[u] /\ d.fence[u] = control.fence[u]
              /\ d.refusal[u] = control.refusal[u]
        /\ \A u \in Tables : u \in ts =>
              d.state[u] \in {control.state[u], "complete"} /\ d.fence[u] = proc.sampled
        /\ \A u \in Tables : d.refusal[u].state = "quarantined" =>
              /\ d.refusal[u] = control.refusal[u]
              /\ u \in ts => d.state[u] # "complete"
    BY <1>2, <1>3, CompleteFacts, SMT
  <1> HIDE DEF d
  <1>7. /\ image' \in [Tables -> [Positions -> Nat]]
        /\ \A u \in Tables : image'[u] = IF u \in ts THEN NoImage ELSE image[u]
    <2>1. \A u \in Tables : (IF u \in ts THEN NoImage ELSE image[u]) \in [Positions -> Nat]
      BY <1>2, ImageType, Zenon DEF NoImage
    <2> QED BY <2>1, <1>1, Zenon
  <1>8. PlaceInv' /\ recovery' \in Recoveries
    BY <1>1, <1>2, <1>5, QuietPlace, Zenon
  <1>9. ASSUME NEW u \in Tables, u \in ts PROVE \A i \in Positions : RowHandedOver(u, i)'
    <2>1. control'.fence[u] = proc.sampled /\ control'.resume = control.resume
          /\ source'.wal = source.wal /\ image'[u] = NoImage
      BY <1>1, <1>6, <1>7, <1>9, Zenon
    <2>2. \A k \in 1 .. proc.sampled - 1 : k \notin Rows(u, Length)
      BY <1>4, <1>9, Zenon
    <2> QED BY <2>1, <2>2, <1>3, Emptied, Zenon
  <1>10. \A u \in Tables : u \notin ts =>
            /\ control'.state[u] = control.state[u] /\ control'.fence[u] = control.fence[u]
            /\ image'[u] = image[u]
    BY <1>1, <1>6, <1>7, Zenon
  <1>11. control' \in Controls /\ control'.resume = control.resume
         /\ \A u \in Tables : u \in ts => control'.fence[u] = proc.sampled
    BY <1>1, <1>6, Zenon
  <1>12. \A u \in Tables : control'.refusal[u].state = "quarantined" =>
            /\ control'.refusal[u] = control.refusal[u]
            /\ u \in ts => control'.state[u] # "complete"
    BY <1>1, <1>6, Zenon
  <1> QED BY <1>1, <1>3, <1>5, <1>7, <1>8, <1>9, <1>10, <1>11, <1>12, Completes, Zenon

\* The tables it completes have no source.
LEMMA FinishMissingKeeps == ASSUME IInv, FinishMissing PROVE IInv'
  <1> DEFINE ts == proc.missing
             r == RequestSnapshot(control, ts)
             d == Complete(r, ts, proc.sampled)
             a == Transition(d, ts, "absent")
  <1>1. /\ UNCHANGED <<source, recovery, trail>> /\ proc.pc = "missing"
        /\ \/ control' = d /\ image' = image
           \/ control' = a /\ image' = [u \in Tables |-> IF u \in ts THEN NoImage ELSE image[u]]
    BY Zenon DEF FinishMissing, At
  <1>2. control \in Controls /\ proc \in Procs /\ recovery \in Recoveries
        /\ image \in [Tables -> [Positions -> Nat]] /\ "absent" \in LifeStates
    BY Zenon DEF IInv, Shape, LifeStates
  <1>3. proc.sampled \in Nat /\ control.resume < proc.sampled /\ proc.sampled <= Length + 1
    BY <1>1, Numbers, Zenon DEF IInv, PlaceInv, PointInv
  <1>4. \A u \in ts : ~source.exists[u]
    BY <1>1, Zenon DEF IInv, PlaceInv, EvidenceInv, At
  <1>5. /\ proc' \in Procs /\ proc'.pc = "empty" /\ proc'.sampled = proc.sampled
        /\ proc'.empty = proc.empty
    <2>1. proc.finished \union proc.missing \in SUBSET Tables /\ {} \in SUBSET Tables
      BY <1>2, Zenon DEF Procs
    <2> QED BY <2>1, <1>2, Zenon DEF FinishMissing, Procs, Places
  <1> HIDE DEF ts
  <1>6. /\ r \in Controls /\ r.fence = control.fence /\ r.refusal = control.refusal
        /\ r.resume = control.resume
        /\ \A u \in Tables : r.state[u] =
              IF u \in ts THEN "awaiting_snapshot" ELSE control.state[u]
    BY <1>2, RequestFacts, SMT
  <1> HIDE DEF r
  <1>7. /\ d \in Controls /\ d.resume = r.resume
        /\ \A u \in Tables : u \notin ts =>
              /\ d.state[u] = r.state[u] /\ d.fence[u] = r.fence[u]
              /\ d.refusal[u] = r.refusal[u]
        /\ \A u \in Tables : u \in ts =>
              d.state[u] \in {r.state[u], "complete"} /\ d.fence[u] = proc.sampled
        /\ \A u \in Tables : d.refusal[u].state = "quarantined" =>
              /\ d.refusal[u] = r.refusal[u]
              /\ u \in ts => d.state[u] # "complete"
    BY <1>3, <1>6, CompleteFacts, SMT
  <1> HIDE DEF d
  <1>8. /\ a \in Controls /\ a.fence = d.fence /\ a.refusal = d.refusal
        /\ a.resume = d.resume
        /\ \A u \in Tables : a.state[u] =
              IF u \in ts /\ <<d.state[u], "absent">> \in TABLE_LIFECYCLE
              THEN "absent" ELSE d.state[u]
    BY <1>2, <1>7, TransitionFacts, SMT
  <1> HIDE DEF a
  <1>9. /\ control' \in Controls /\ control'.resume = control.resume
        /\ \A u \in Tables : u \notin ts =>
              control'.state[u] = control.state[u] /\ control'.fence[u] = control.fence[u]
        /\ \A u \in Tables : u \in ts => control'.fence[u] = proc.sampled
        /\ \A u \in Tables : control'.refusal[u].state = "quarantined" =>
              /\ control'.refusal[u] = control.refusal[u]
              /\ u \in ts => control'.state[u] # "complete"
    <2>1. CASE control' = d
      BY <2>1, <1>6, <1>7, Zenon
    <2>2. CASE control' = a
      <3>1. a.resume = control.resume /\ a \in Controls
        BY <1>6, <1>7, <1>8, Zenon
      <3>2. \A u \in Tables : u \notin ts =>
              a.state[u] = control.state[u] /\ a.fence[u] = control.fence[u]
        BY <1>6, <1>7, <1>8, Zenon
      <3>3. \A u \in Tables : u \in ts => a.fence[u] = proc.sampled
        BY <1>7, <1>8, Zenon
      <3>4. \A u \in Tables : a.refusal[u].state = "quarantined" =>
              /\ a.refusal[u] = control.refusal[u]
              /\ u \in ts => a.state[u] # "complete"
        BY <1>6, <1>7, <1>8, Zenon
      <3> QED BY <2>2, <3>1, <3>2, <3>3, <3>4, Zenon
    <2> QED BY <1>1, <2>1, <2>2, Zenon
  <1>10. /\ image' \in [Tables -> [Positions -> Nat]]
         /\ \A u \in Tables : u \notin ts => image'[u] = image[u]
    <2>1. \A u \in Tables : (IF u \in ts THEN NoImage ELSE image[u]) \in [Positions -> Nat]
      BY <1>2, ImageType, Zenon DEF NoImage
    <2> QED BY <2>1, <1>1, <1>2, Zenon
  <1>11. PlaceInv'
    <2>1. Length' = Length /\ \A u : Rows(u, Length)' = Rows(u, Length)
      BY <1>1, SameRows, Zenon
    <2>2. \A u \in proc.empty : \A i \in 1 .. proc.sampled - 1 : i \notin Rows(u, Length)
      BY <1>1, Zenon DEF IInv, PlaceInv, EvidenceInv
    <2>3. PointInv'
      BY <2>1, <1>3, <1>5, <1>9, Zenon DEF PointInv
    <2>4. EvidenceInv'
      BY <2>1, <2>2, <1>5, Zenon DEF EvidenceInv, At
    <2> QED BY <2>3, <2>4, <1>5, Zenon DEF PlaceInv, StreamInv, GateInv, At
  <1>12. recovery' \in Recoveries
    BY <1>1, <1>2, Zenon
  <1>13. \A u \in Tables : u \in ts /\ control'.state[u] = "complete" /\ source.exists[u] =>
            \A i \in Positions : RowHandedOver(u, i)'
    BY <1>4, Zenon
  <1>14. \A u \in Tables : u \notin ts =>
            /\ control'.state[u] = control.state[u] /\ control'.fence[u] = control.fence[u]
            /\ image'[u] = image[u]
    BY <1>9, <1>10, Zenon
  <1> QED BY <1>1, <1>3, <1>5, <1>9, <1>10, <1>11, <1>12, <1>13, <1>14, Completes, Zenon

LEMMA StreamCommitsKeeps ==
  ASSUME IInv, NEW t \in Tables, StreamCommits(t) PROVE IInv'
  <1> DEFINE next == control.resume + 1
             moved == IF Skipped(t) THEN image ELSE [image EXCEPT ![t] = Applied(t)]
  <1>1. /\ source' = source /\ recovery' = recovery /\ proc' = proc /\ trail' = trail
        /\ control' = [control EXCEPT !.resume = next] /\ image' = moved /\ Arriving(t)
    BY Zenon DEF StreamCommits
  <1>2. control \in Controls /\ image \in [Tables -> [Positions -> Nat]]
    BY Zenon DEF IInv, Shape
  <1>3. next \in Nat /\ next <= Length /\ next \in Positions
    BY <1>1, Numbers DEF IInv, Arriving, Positions
  <1> HIDE DEF next
  <1>4. /\ control' \in Controls /\ control'.state = control.state
        /\ control'.fence = control.fence /\ control'.refusal = control.refusal
        /\ control'.resume = next
    BY <1>1, <1>2, <1>3, Zenon DEF Controls
  <1>5. image' \in [Tables -> [Positions -> Nat]]
    <2>1. image[t][next] \in Nat /\ image[t] \in [Positions -> Nat]
      BY <1>2, <1>3, Zenon
    <2>2. image[t][next] + 1 \in Nat
      BY <2>1
    <2>3. Applied(t) \in [Positions -> Nat]
      <3>1. Applied(t) \in {NoImage, [image[t] EXCEPT ![next] = image[t][next] + 1]}
        BY Zenon DEF Applied, next
      <3>2. NoImage \in [Positions -> Nat]
        BY ImageType, Zenon DEF NoImage
      <3> QED BY <3>1, <3>2, <2>1, <2>2, Zenon
    <2> QED BY <2>3, <1>1, <1>2, Zenon
  <1>6. Length' = Length /\ Positions' = Positions
    BY <1>1, Zenon DEF Length, Positions
  <1>7. Shape'
    BY <1>1, <1>3, <1>4, <1>5, <1>6, Zenon DEF IInv, Shape
  <1>8. HandInv'
    BY Streamed, Zenon
  <1>9. PlaceInv'
    <2>1. proc.pc = "stream"
      BY <1>1, Zenon DEF Arriving, At
    <2>2. StreamInv'
      BY <1>1, <1>4, Zenon DEF IInv, PlaceInv, StreamInv, At
    <2> QED BY <2>1, <2>2, <1>1, Zenon DEF PlaceInv, PointInv, EvidenceInv, GateInv, At
  <1>10. TrailKept
    BY <1>1, SameTrail, Zenon
  <1>11. QuarantineInv'
    BY <1>1, <1>4, <1>10, KeepQuarantine, Zenon
  <1> QED BY <1>7, <1>8, <1>9, <1>11, Zenon DEF IInv

LEMMA SourceCommitsKeeps ==
  ASSUME IInv, NEW t \in Tables, NEW kind \in Kinds, SourceCommits(t, kind)
  PROVE  IInv'
  <1>1. /\ UNCHANGED <<control, image, recovery, proc, trail>>
        /\ source' = [source EXCEPT !.wal = Append(source.wal, <<t, kind>>)]
        /\ Length < MaxWal(trail.start)
    BY Zenon DEF SourceCommits
  <1>2. source \in Sources
    BY Zenon DEF IInv, Shape
  <1>3. source.wal \in Seq(Tables \X Kinds)
    BY <1>2, Zenon DEF Sources
  <1>4. <<t, kind>> \in Tables \X Kinds
    BY Zenon
  <1> DEFINE S == Tables \X Kinds
             e == <<t, kind>>
  <1>5. e \in S /\ source.wal \in Seq(S)
    BY <1>3, <1>4, Zenon
  <1> HIDE DEF S, e
  <1>6. Append(source.wal, e) \in Seq(S) /\ Len(Append(source.wal, e)) = Len(source.wal) + 1
    BY <1>5
  <1>7. /\ source' \in Sources /\ source'.wal = Append(source.wal, e)
        /\ source'.shape = source.shape
    BY <1>1, <1>2, <1>6, Zenon DEF Sources, S, e
  <1>8. Length' = Length + 1
    BY <1>6, <1>7, Zenon DEF Length
  <1>9. Positions' = Positions /\ trail'.start = trail.start /\ MaxWal(trail.start)' = MaxWal(trail.start)
    BY <1>1, Zenon DEF Positions
  <1>10. Length' <= MaxWal(trail.start) /\ control.resume <= Length'
         /\ \A u \in Tables : control.fence[u] <= Length' + 1
    <2>1. \A u \in Tables : control.fence[u] <= Length + 1
      BY Zenon DEF IInv, Shape
    <2> QED BY <2>1, <1>1, <1>8, Numbers DEF IInv
  <1>11. Shape'
    <2>1. /\ control' \in Controls /\ recovery' \in Recoveries /\ proc' \in Procs
          /\ trail' \in Trails /\ image' \in [Tables -> [Positions -> Nat]]
      BY <1>1, Zenon DEF IInv, Shape
    <2> QED BY <2>1, <1>1, <1>7, <1>9, <1>10, Zenon DEF Shape
  <1>12. HandInv' /\ EvidenceInv'
    BY HandAppend, Zenon
  <1>13. PointInv'
    <2>1. proc.point <= Length + 1 => proc.point <= Length' + 1
      BY <1>8, Numbers DEF IInv
    <2>2. proc.sampled <= Length + 1 => proc.sampled <= Length' + 1
      BY <1>8, Numbers DEF IInv
    <2> QED BY <2>1, <2>2, <1>1, Zenon DEF IInv, PlaceInv, PointInv
  <1>14. StreamInv' /\ GateInv'
    <2>1. Quarantined(control)' = Quarantined(control)
      BY <1>1, Zenon DEF Quarantined, InState
    <2> QED BY <2>1, <1>1, Zenon DEF IInv, PlaceInv, StreamInv, GateInv, At
  <1>15. TrailKept
    BY <1>1, SameTrail, Zenon
  <1>16. QuarantineInv'
    BY <1>1, <1>7, <1>15, KeepQuarantine, Zenon
  <1> QED BY <1>11, <1>12, <1>13, <1>14, <1>16, Zenon DEF IInv, PlaceInv

\* A change of the source that commits no transaction and brings no relation back.
LEMMA SourceMoves ==
  ASSUME IInv, UNCHANGED <<control, image, recovery, proc>>,
         source' \in Sources, source'.wal = source.wal,
         \A u \in Tables : source'.exists[u] => source.exists[u],
         trail' \in Trails, trail'.start = trail.start, QuarantineInv'
  PROVE  IInv'
  <1>1. TypesKept
    BY Zenon DEF TypesKept, IInv, Shape
  <1>2. Shape'
    BY <1>1, KeepShape, Zenon DEF IInv, Shape
  <1>3. HandInv'
    BY KeepHand, Zenon DEF IInv
  <1>4. Length' = Length /\ \A u : Rows(u, Length)' = Rows(u, Length)
    BY SameRows, Zenon
  <1>5. PointInv'
    BY <1>4, Zenon DEF IInv, PlaceInv, PointInv
  <1>6. EvidenceInv'
    <2>1. \A u \in proc.missing : u \in Tables
      BY Zenon DEF IInv, Shape, Procs
    <2> QED BY <2>1, <1>4, Zenon DEF IInv, PlaceInv, EvidenceInv, At
  <1>7. StreamInv' /\ GateInv'
    <2>1. Quarantined(control)' = Quarantined(control)
      BY Zenon DEF Quarantined, InState
    <2> QED BY <2>1, Zenon DEF IInv, PlaceInv, StreamInv, GateInv, At
  <1> QED BY <1>2, <1>3, <1>5, <1>6, <1>7, Zenon DEF IInv, PlaceInv

LEMMA SourceDropsKeeps ==
  ASSUME IInv, NEW t \in Tables, SourceDrops(t) PROVE IInv'
  <1>1. /\ UNCHANGED <<control, image, recovery, proc, trail>>
        /\ source' = [source EXCEPT !.exists[t] = FALSE]
    BY Zenon DEF SourceDrops
  <1>2. source \in Sources
    BY Zenon DEF IInv, Shape
  <1>3. /\ source' \in Sources /\ source'.wal = source.wal /\ source'.shape = source.shape
        /\ \A u \in Tables : source'.exists[u] => source.exists[u]
    BY <1>1, <1>2, Zenon DEF Sources
  <1>4. TrailKept
    BY <1>1, SameTrail, Zenon
  <1>5. QuarantineInv'
    BY <1>1, <1>3, <1>4, KeepQuarantine, Zenon
  <1> QED BY <1>1, <1>3, <1>4, <1>5, SourceMoves, Zenon DEF TrailKept

\* A new shape has its retry again.
LEMMA SourceAltersKeeps ==
  ASSUME IInv, NEW t \in Tables, NEW flaw \in Flaws, SourceAlters(t, flaw)
  PROVE  IInv'
  <1> DEFINE shape == [n |-> source.shape[t].n + 1, flaw |-> flaw]
  <1>1. /\ UNCHANGED <<control, image, recovery, proc>>
        /\ source' = [source EXCEPT !.shape[t] = shape]
        /\ trail' = [trail EXCEPT !.again[t] = 0, !.blind[t] = 0]
    BY Zenon DEF SourceAlters
  <1>2. source \in Sources /\ trail \in Trails /\ source.shape[t] \in Shapes
    BY Zenon DEF IInv, Shape, Sources
  <1>3. shape \in Shapes
    <2>1. source.shape[t].n \in Nat
      BY <1>2, Zenon DEF Shapes
    <2>2. source.shape[t].n + 1 \in Nat
      BY <2>1
    <2> QED BY <2>2, Zenon DEF Shapes
  <1> HIDE DEF shape
  <1>4. /\ source' \in Sources /\ source'.wal = source.wal /\ source'.exists = source.exists
        /\ \A u \in Tables \ {t} : source'.shape[u] = source.shape[u]
    BY <1>1, <1>2, <1>3, Zenon DEF Sources
  <1>5. /\ trail' \in Trails /\ trail'.start = trail.start
        /\ trail'.again[t] = 0 /\ trail'.blind[t] = 0
        /\ \A u \in Tables \ {t} :
              trail'.again[u] = trail.again[u] /\ trail'.blind[u] = trail.blind[u]
    <2>1. 0 \in Nat
      OBVIOUS
    <2> QED BY <2>1, <1>1, <1>2, Zenon DEF Trails
  <1>6. ASSUME NEW u \in Tables
        PROVE  /\ trail'.again[u] <= 1 + trail'.blind[u]
               /\ u \in Quarantined(control) =>
                     /\ control.state[u] # "complete"
                     /\ control.refusal[u].fingerprint \notin {NULL, Fingerprint(u)'}
                           => trail'.again[u] <= trail'.blind[u]
    <2>1. CASE u # t
      BY <2>1, <1>4, <1>5, Zenon DEF IInv, QuarantineInv, Fingerprint
    <2>2. CASE u = t
      <3>1. trail'.again[u] <= 1 + trail'.blind[u] /\ trail'.again[u] <= trail'.blind[u]
        BY <2>2, <1>5
      <3> QED BY <3>1, Zenon DEF IInv, QuarantineInv
    <2> QED BY <2>1, <2>2, Zenon
  <1>7. QuarantineInv'
    <2>1. Quarantined(control)' = Quarantined(control)
      BY <1>1, Zenon DEF Quarantined, InState
    <2> QED BY <2>1, <1>1, <1>6, Zenon DEF QuarantineInv
  <1>8. \A u \in Tables : source'.exists[u] => source.exists[u]
    BY <1>4, Zenon
  <1> QED BY <1>1, <1>4, <1>5, <1>7, <1>8, SourceMoves, Zenon

-----------------------------------------------------------------------------
LEMMA InitHolds == ASSUME Init PROVE IInv
  <1>1. PICK p \in DropModes :
           source = [wal |-> <<>>, exists |-> [t \in Tables |-> TRUE],
                     shape |-> [t \in Tables |-> [n |-> 0, flaw |-> "none"]], policy |-> p]
    BY Zenon DEF Init
  <1>2. PICK st \in Starts :
           trail = [start |-> st, faults |-> 0, again |-> [t \in Tables |-> 0],
                    blind |-> [t \in Tables |-> 0]]
    BY Zenon DEF Init
  <1>3. 0 \in Nat /\ 1 \in Nat /\ <<>> \in Seq(Tables \X Kinds) /\ Len(<<>>) = 0
    OBVIOUS
  <1>4. [n |-> 0, flaw |-> "none"] \in Shapes
    BY <1>3, Zenon DEF Shapes, Flaws
  <1>5. source \in Sources /\ Length = 0
    <2>1. [t \in Tables |-> [n |-> 0, flaw |-> "none"]] \in [Tables -> Shapes]
          /\ [t \in Tables |-> TRUE] \in [Tables -> BOOLEAN]
      BY <1>4, Zenon
    <2> DEFINE shapes == [t \in Tables |-> [n |-> 0, flaw |-> "none"]]
               all == [t \in Tables |-> TRUE]
    <2> HIDE DEF shapes, all
    <2> QED BY <1>1, <1>3, <2>1, Zenon DEF Sources, Length, shapes, all
  <1>6. trail \in Trails /\ trail.start = st /\ st \in LifeStates
        /\ \A t \in Tables : trail.again[t] = 0 /\ trail.blind[t] = 0
    <2>1. [t \in Tables |-> 0] \in [Tables -> Nat]
      BY <1>3, Zenon
    <2> QED BY <1>2, <1>3, <2>1, ResnapshotAssumption, Zenon DEF Trails, LifeStates
  <1>7. /\ control \in Controls /\ control.resume = 0
        /\ \A t \in Tables : control.fence[t] = 1 /\ control.refusal[t].state = "absent"
    <2>1. NoRefusal \in Refusals /\ NoRefusal.state = "absent"
      BY Zenon DEF NoRefusal, Refusals, Readings
    <2> DEFINE ones == [t \in Tables |-> 1]
               none == [t \in Tables |-> NoRefusal]
               states == [t \in Tables |-> trail.start]
    <2>2. /\ ones \in [Tables -> Nat] /\ none \in [Tables -> Refusals]
          /\ states \in [Tables -> LifeStates]
          /\ \A t \in Tables : ones[t] = 1 /\ none[t].state = "absent"
      BY <2>1, <1>3, <1>6, Zenon
    <2>3. control = [state |-> states, fence |-> ones, refusal |-> none, resume |-> 0]
      BY Zenon DEF Init
    <2> HIDE DEF ones, none, states
    <2> QED BY <2>2, <2>3, <1>3, Zenon DEF Controls
  <1>8. recovery \in Recoveries /\ proc = Idle
    BY Zenon DEF Init, Recoveries
  <1>9. image = [t \in Tables |-> NoImage] /\ image \in [Tables -> [Positions -> Nat]]
    BY ImageType, Zenon DEF Init, NoImage
  <1>10. MaxWal(trail.start) \in Nat
    BY <1>6, ResnapshotAssumption, Zenon DEF Trails
  <1>11. Shape
    <2>1. Length <= MaxWal(trail.start) /\ control.resume <= Length
          /\ \A t \in Tables : control.fence[t] <= Length + 1
      BY <1>5, <1>7, <1>10
    <2> QED BY <2>1, <1>5, <1>6, <1>7, <1>8, <1>9, IdleType, Zenon DEF Shape
  <1>12. HandInv
    <2> SUFFICES ASSUME NEW t \in Tables, NEW i \in Positions PROVE RowHandedOver(t, i)
      BY Zenon DEF HandInv
    <2>1. i \notin Behind(t) /\ i \notin Rows(t, Length)
      BY <1>5, <1>7 DEF Behind, Rows
    <2>2. image[t][i] = 0
      BY <1>9, Zenon DEF NoImage, Image
    <2>3. image[t][i] + 0 = 0
      BY <2>2
    <2> QED BY <2>1, <2>2, <2>3, Zenon DEF RowHandedOver
  <1>13. PlaceInv
    BY <1>8, IdleType, Zenon DEF PlaceInv, PointInv, EvidenceInv, StreamInv, GateInv, At
  <1>14. QuarantineInv
    <2>1. \A t \in Tables : t \notin Quarantined(control)
      BY <1>7, Zenon DEF Quarantined, InState
    <2>2. \A t \in Tables : trail.again[t] <= 1 + trail.blind[t]
      BY <1>6
    <2> QED BY <2>1, <2>2, Zenon DEF QuarantineInv
  <1> QED BY <1>11, <1>12, <1>13, <1>14, Zenon DEF IInv

\* Nothing the invariant speaks of moves.
LEMMA StutterKeeps == ASSUME IInv, UNCHANGED vars PROVE IInv'
  <1>1. UNCHANGED <<source, control, image, recovery, proc, trail>>
    BY Zenon DEF vars
  <1>2. source' \in Sources /\ trail' \in Trails /\ TrailKept
    BY <1>1, SameTrail, Zenon DEF IInv, Shape
  <1>3. QuarantineInv'
    BY <1>1, <1>2, KeepQuarantine, Zenon
  <1> QED BY <1>1, <1>2, <1>3, SourceMoves, Zenon

LEMMA StepKeeps == ASSUME IInv, [Next]_vars PROVE IInv'
  <1>1. ASSUME Run PROVE IInv'
    <2>1. CASE \/ Start \/ Requeue \/ Promote \/ Plan \/ Prepare \/ StartStream
               \/ StartEngine \/ EngineMisses \/ EngineEnds \/ AbandonedExits
      BY <2>1, QuietSteps, RequeueKeeps, PromoteKeeps, StartStreamKeeps,
         StartEngineKeeps, Zenon
    <2>2. CASE \/ SampleWal \/ CountRows \/ FinishMissing \/ FinishEmpty
               \/ AssertComplete \/ Repair \/ Consume \/ Retire(TRUE) \/ StreamEnds
      <3>1. CASE Retire(TRUE)
        BY <3>1, QuietSteps, Zenon
      <3> QED BY <2>2, <3>1, QuietSteps, SampleWalKeeps, CountRowsKeeps,
                 FinishMissingKeeps, FinishEmptyKeeps, RepairKeeps, Zenon
    <2>3. ASSUME NEW t \in Tables,
                 \/ Discharge(t) \/ Gate(t, TRUE) \/ SetupRefused(t, TRUE)
                 \/ OpenShadow(t) \/ RowRefused(t, TRUE) \/ SwapIn(t)
                 \/ StreamCommits(t) \/ StreamContains(t, TRUE)
          PROVE  IInv'
      <3>1. CASE Discharge(t) \/ Gate(t, TRUE) \/ SetupRefused(t, TRUE) \/ OpenShadow(t)
        BY <3>1, DischargeKeeps, GateKeeps, SetupRefusedKeeps, OpenShadowKeeps, Zenon
      <3>2. CASE \/ RowRefused(t, TRUE) \/ SwapIn(t) \/ StreamCommits(t)
                 \/ StreamContains(t, TRUE)
        BY <3>2, RowRefusedKeeps, SwapInKeeps, StreamCommitsKeeps, StreamContainsKeeps,
           Zenon
      <3> QED BY <2>3, <3>1, <3>2, Zenon
    <2> QED BY <1>1, <2>1, <2>2, <2>3, Zenon DEF Run
  <1>2. ASSUME Breakdown PROVE IInv'
    <2>1. CASE \/ SlotDropFails \/ EngineFails \/ Abandon \/ EvidenceFails
               \/ Retire(FALSE) \/ Crash
      <3>1. CASE Retire(FALSE)
        BY <3>1, QuietSteps, Zenon
      <3> QED BY <2>1, <3>1, QuietSteps, AbandonKeeps, Zenon
    <2>2. ASSUME NEW t \in Tables,
                 \/ Gate(t, FALSE) \/ SetupRefused(t, FALSE) \/ RowRefused(t, FALSE)
                 \/ StreamContains(t, FALSE) \/ StreamRequests(t)
          PROVE  IInv'
      BY <2>2, GateKeeps, SetupRefusedKeeps, RowRefusedKeeps, StreamContainsKeeps,
         StreamRequestsKeeps, Zenon
    <2> QED BY <1>2, <2>1, <2>2, Zenon DEF Breakdown
  <1>3. ASSUME Source PROVE IInv'
    BY <1>3, SourceCommitsKeeps, SourceDropsKeeps, SourceAltersKeeps, Zenon
       DEF Source, Kinds
  <1> QED BY <1>1, <1>2, <1>3, StutterKeeps, Zenon DEF Next

LEMMA Invariance == Spec => []IInv
  <1>1. Init => IInv
    BY InitHolds, Zenon
  <1>2. IInv /\ [Next]_vars => IInv'
    BY StepKeeps, Zenon
  <1> QED BY <1>1, <1>2, PTL DEF Spec

\* A table the lifecycle calls complete holds, with what the stream has yet to
\* deliver behind its fence, every row of the source exactly once: no scan,
\* swap, emptiness certificate or dropped-table policy of resnapshot.run marks
\* it complete too early or hands it over at the wrong position.
THEOREM RebuildHandsOver == Spec => []HandOver
  <1>1. IInv => HandOver
    BY HandedOver, Zenon
  <1> QED BY <1>1, Invariance, PTL

\* A quarantined table is scanned again at most once for each shape its source
\* takes and once more for each fingerprint that could not be read
\* (quarantine_retry_allowed), whatever crashes and retries come between.
THEOREM QuarantineIsHeld == Spec => []QuarantineHolds
  <1>1. IInv => QuarantineHolds
    BY Zenon DEF IInv, QuarantineInv, QuarantineHolds
  <1> QED BY <1>1, Invariance, PTL
=============================================================================
