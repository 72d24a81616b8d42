------------------------- MODULE ServiceProcessProofs -------------------------
(***************************************************************************)
(* The promises of the service process, for any Flights and operators, any *)
(* modes they ask for and any bounds on what they do.                      *)
(***************************************************************************)
EXTENDS ServiceProcess, TLAPS

Places == {"off", "connect", "acquire", "open", "dir", "run", "txn", "teardown",
           "close", "ended", "dead"}

Lifecycles == {"absent", "none", "awaiting_snapshot", "complete"}

Modes == {"none", "scd2"}

Kinds == {"none", "stream", "owe", "publish", "forget", "set_mode"}

Works == [what : Kinds, lifecycle : Lifecycles, mode : Modes, target : BOOLEAN]

Outcomes == {"none", "failed", "stand_down", "stopped", "admitted"}

Procs == [at : Places, work : Works, admitted : BOOLEAN, bound : BOOLEAN,
          lost : BOOLEAN, outcome : Outcomes]

Holders == Processes \union {NOBODY}

Leases == [holder : Holders, state : {"absent", "held", "released"},
           health : {"fresh", "stale", "expired"}]

Helds == [file : Holders, dir : Holders]

Tables == [lifecycle : Lifecycles, mode : Modes, target : BOOLEAN,
           dropped : BOOLEAN]

\* What the proofs ask of a deployment: no process is a Flight and an operator,
\* and none has the name that stands for nobody.
Deployment ==
    /\ Flights \intersect Operators = {}
    /\ NOBODY \notin Processes
    /\ Requested \in [Operators -> Modes]

-----------------------------------------------------------------------------
(* The inductive invariant.                                                 *)

Shape == lease \in Leases /\ held \in Helds /\ table \in Tables
         /\ proc \in [Processes -> Procs]

\* The file is held by the bootstrap connection or by the data connection.
FileInv(p) ==
    held.file = p => \/ proc[p].at \in {"acquire", "run", "txn", "teardown"}
                     \/ proc[p].at = "dir" /\ p \in Flights

\* The directory is given up with the teardown, by an operator at the end.
DirInv(p) ==
    held.dir = p => \/ proc[p].at \in {"run", "txn", "teardown", "close"}
                    \/ proc[p].at = "open" /\ p \in Operators

\* A process the row names still knows that it was admitted, or has tried to
\* release and was refused.
HolderInv(p) ==
    lease.holder = p /\ lease.state = "held" =>
       /\ proc[p].at \notin {"off", "connect", "acquire"}
       /\ proc[p].at \in {"open", "dir", "run", "txn", "teardown"} => proc[p].admitted
       /\ proc[p].at = "close" => proc[p].admitted \/ proc[p].lost
       /\ proc[p].at = "ended" => proc[p].lost

\* What the transaction of the row's holder read is what the table's row says:
\* nobody else passes the fence, and nobody is admitted twice.
WorkInv(p) ==
    proc[p].at = "txn" =>
       /\ (p \in Operators) <=> (proc[p].work.what = "set_mode")
       /\ proc[p].work.what # "none"
       /\ lease.holder = p =>
             /\ proc[p].work.lifecycle = table.lifecycle
             /\ proc[p].work.mode = table.mode
             /\ proc[p].work.target = table.target

\* The promise made to an operator.
PromiseInv(p) ==
    p \in Operators /\ proc[p].outcome = "admitted" /\ Requested[p] = "scd2"
       /\ ~table.dropped => table.mode = "scd2"

\* A mode is a column of a row.
ModeInv == table.mode = "scd2" => ~table.target /\ table.lifecycle # "absent"

ProcessInv(p) ==
    FileInv(p) /\ DirInv(p) /\ HolderInv(p) /\ WorkInv(p) /\ PromiseInv(p)

IInv == Shape /\ ModeInv /\ \A p \in Processes : ProcessInv(p)

-----------------------------------------------------------------------------
\* The invariant holds when no process has started.
LEMMA InitHolds == Deployment /\ Init => IInv
  <1> SUFFICES ASSUME Deployment, Init PROVE IInv
    OBVIOUS
  <1>1. NoWork \in Works
    BY DEF NoWork, Works, Kinds, Lifecycles, Modes
  <1>2. Shape
    BY <1>1, SMTT(30) DEF Init, Shape, Places, Lifecycles, Modes, Outcomes, Procs, Leases,
       Helds, Holders, Tables
  <1>3. ASSUME NEW p \in Processes PROVE ProcessInv(p)
    BY <1>3 DEF Deployment, Init, ProcessInv, FileInv, DirInv, HolderInv, WorkInv,
                PromiseInv
  <1>4. ModeInv
    BY DEF Init, ModeInv
  <1> QED BY <1>2, <1>3, <1>4 DEF IInv

\* Closing a connection frees the file for whoever had it, and nothing else.
LEMMA CloseIs ==
  ASSUME Shape, NEW p \in Processes
  PROVE  /\ Closes(p) \in Helds
         /\ Closes(p).file = IF held.file = p THEN NOBODY ELSE held.file
         /\ Closes(p).dir = held.dir
  BY DEF Shape, Closes, Helds, Holders

\* Opening a connection takes the file, and leaves the directory.
LEMMA OpenIs ==
  ASSUME Shape, NEW p \in Processes, Opens(p)
  PROVE  /\ held' \in Helds
         /\ held'.file \in {held.file, p}
         /\ held'.dir = held.dir
  BY DEF Shape, Opens, Helds, Holders

\* The names the processes use.
LEMMA Literals ==
  /\ {"off", "connect", "acquire", "open", "dir", "run", "txn", "teardown", "close",
      "ended", "dead"} \subseteq Places
  /\ {"none", "failed", "stand_down", "stopped", "admitted"} \subseteq Outcomes
  /\ NoWork \in Works
  BY DEF Places, Outcomes, NoWork, Works, Kinds, Lifecycles, Modes

\* A step of one process replaces its record and no other.
LEMMA ProcIs ==
  ASSUME Shape, NEW p \in Processes, NEW r \in Procs, proc' = [proc EXCEPT ![p] = r]
  PROVE  /\ \A q \in Processes \ {p} : proc'[q] = proc[q]
         /\ proc'[p] = r
         /\ proc' \in [Processes -> Procs]
  BY DEF Shape

\* What a step may do to the resources without disturbing a process that does
\* not take it.
Undisturbed(q) ==
    /\ proc'[q] = proc[q]
    /\ held'.file = q => held.file = q
    /\ held'.dir = q => held.dir = q
    /\ lease'.holder = q => lease.holder = q /\ (lease'.state = "held" => lease.state = "held")
    /\ lease'.holder = q => table' = table
    /\ table.dropped => table'.dropped
    /\ table.mode = "scd2" /\ ~table'.dropped => table'.mode = "scd2"

\* A process that is not disturbed keeps its invariant.
LEMMA OthersKeep ==
  ASSUME NEW q \in Processes, ProcessInv(q), Undisturbed(q), Shape, Shape'
  PROVE  ProcessInv(q)'
  <1>1. FileInv(q)' /\ DirInv(q)'
    BY DEF ProcessInv, Undisturbed, FileInv, DirInv
  <1>2. HolderInv(q)'
    BY DEF ProcessInv, Undisturbed, HolderInv
  <1>3. WorkInv(q)'
    BY DEF ProcessInv, Undisturbed, WorkInv
  <1>4. PromiseInv(q)'
    BY DEF ProcessInv, Undisturbed, PromiseInv, Shape, Tables
  <1> QED BY <1>1, <1>2, <1>3, <1>4 DEF ProcessInv

\* One process steps and disturbs no other.
LEMMA Assemble ==
  ASSUME IInv, Shape', ModeInv', NEW p \in Processes, ProcessInv(p)',
         \A q \in Processes \ {p} : Undisturbed(q)
  PROVE  IInv'
  <1> SUFFICES ASSUME NEW q \in Processes PROVE ProcessInv(q)'
    BY DEF IInv
  <1>1. CASE q = p
    BY <1>1
  <1>2. CASE q # p
    BY <1>2, OthersKeep DEF IInv
  <1> QED BY <1>1, <1>2

\* A process that starts has nothing yet.
LEMMA StartsKeep ==
  ASSUME Deployment, IInv, NEW p \in Processes, Starts(p)
  PROVE  IInv'
  <1>0. proc[p] \in Procs /\ Shape
    BY DEF IInv, Shape
  <1> DEFINE r == [proc[p] EXCEPT !.at = "connect"]
  <1>1. /\ r \in Procs
        /\ r.at = "connect"
        /\ r.work = proc[p].work
        /\ r.admitted = proc[p].admitted
        /\ r.bound = proc[p].bound
        /\ r.lost = proc[p].lost
        /\ r.outcome = proc[p].outcome
    BY <1>0, Literals, Zenon DEF Procs
  <1>2. proc' = [proc EXCEPT ![p] = r] /\ proc[p].at = "off"
    BY Zenon DEF Starts, Goes, Fails
  <1> HIDE DEF r
  <1>3. /\ \A q \in Processes \ {p} : proc'[q] = proc[q]
        /\ proc'[p] = r
        /\ proc' \in [Processes -> Procs]
    BY <1>0, <1>1, <1>2, ProcIs, Zenon
  <1>4. /\ lease' = lease
        /\ table' = table
        /\ held' = held
    BY DEF Starts
  <1>5. Shape' /\ ModeInv'
    BY <1>3, <1>4 DEF IInv, Shape, ModeInv
  <1>6. \A q \in Processes \ {p} : Undisturbed(q)
    BY <1>3, <1>4 DEF Undisturbed, Deployment
  <1>7. ProcessInv(p)'
    BY <1>1, <1>2, <1>3, <1>4, SMTT(30)
    DEF IInv, ProcessInv, FileInv, DirInv, HolderInv, WorkInv,
           PromiseInv, Deployment
  <1> QED BY <1>5, <1>6, <1>7, Assemble

\* The bootstrap connection takes the file, or ends the admission.
LEMMA ConnectsKeep ==
  ASSUME Deployment, IInv, NEW p \in Processes, Connects(p)
  PROVE  IInv'
  <1>0. proc[p] \in Procs /\ Shape
    BY DEF IInv, Shape
  <1>1. CASE FileBusy(p)
    <2>10. PICK readable \in BOOLEAN : proc' = [proc EXCEPT ![p] = [@ EXCEPT !.at = "close",
             !.outcome = IF readable /\ Healthy THEN "stand_down" ELSE "failed"]]
      BY <1>1, Zenon DEF Connects
    <2> DEFINE r == [proc[p] EXCEPT
                  !.at = "close",
                  !.outcome = IF readable /\ Healthy THEN "stand_down" ELSE "failed"]
    <2>1. /\ r \in Procs
          /\ r.at = "close"
          /\ r.work = proc[p].work
          /\ r.admitted = proc[p].admitted
          /\ r.bound = proc[p].bound
          /\ r.lost = proc[p].lost
          /\ r.outcome = IF readable /\ Healthy THEN "stand_down" ELSE "failed"
      BY <1>0, Literals, Zenon DEF Procs
    <2>2. proc' = [proc EXCEPT ![p] = r] /\ proc[p].at = "connect"
      BY <1>1, <2>10, Zenon DEF Connects, Goes, Fails
    <2> HIDE DEF r
    <2>3. /\ \A q \in Processes \ {p} : proc'[q] = proc[q]
          /\ proc'[p] = r
          /\ proc' \in [Processes -> Procs]
      BY <1>0, <2>1, <2>2, ProcIs, Zenon
    <2>4. /\ lease' = lease
          /\ table' = table
          /\ held' = held
      BY <1>1, <2>10, Zenon DEF Connects
    <2>5. Shape' /\ ModeInv'
      BY <2>3, <2>4 DEF IInv, Shape, ModeInv
    <2>6. \A q \in Processes \ {p} : Undisturbed(q)
      BY <2>3, <2>4 DEF Undisturbed, Deployment
    <2>7. ProcessInv(p)'
      BY <1>1, <2>1, <2>2, <2>3, <2>4, SMTT(30)
      DEF IInv, ProcessInv, FileInv, DirInv, HolderInv, WorkInv,
           PromiseInv, Deployment
    <2> QED BY <2>5, <2>6, <2>7, Assemble
  <1>2. CASE ~FileBusy(p)
    <2> DEFINE r == [proc[p] EXCEPT !.at = "acquire"]
    <2>1. /\ r \in Procs
          /\ r.at = "acquire"
          /\ r.work = proc[p].work
          /\ r.admitted = proc[p].admitted
          /\ r.bound = proc[p].bound
          /\ r.lost = proc[p].lost
          /\ r.outcome = proc[p].outcome
      BY <1>0, Literals, Zenon DEF Procs
    <2>2. proc' = [proc EXCEPT ![p] = r] /\ proc[p].at = "connect"
      BY <1>2, Zenon DEF Connects, Goes, Fails
    <2> HIDE DEF r
    <2>3. /\ \A q \in Processes \ {p} : proc'[q] = proc[q]
          /\ proc'[p] = r
          /\ proc' \in [Processes -> Procs]
      BY <1>0, <2>1, <2>2, ProcIs, Zenon
    <2>4. /\ lease' = lease
          /\ table' = table
          /\ held' \in Helds
          /\ held'.file \in {held.file, p}
          /\ held'.dir = held.dir
      BY <1>2, OpenIs DEF IInv, Connects
    <2>5. Shape' /\ ModeInv'
      BY <2>3, <2>4 DEF IInv, Shape, ModeInv
    <2>6. \A q \in Processes \ {p} : Undisturbed(q)
      BY <2>3, <2>4 DEF Undisturbed, Deployment
    <2>7. ProcessInv(p)'
      BY <1>2, <2>1, <2>2, <2>3, <2>4, SMTT(30)
      DEF IInv, ProcessInv, FileInv, DirInv, HolderInv, WorkInv,
           PromiseInv, Deployment
    <2> QED BY <2>5, <2>6, <2>7, Assemble
  <1> QED BY <1>1, <1>2

\* Admission writes the row and remembers that it did; the connection is closed.
LEMMA AcquiresKeep ==
  ASSUME Deployment, IInv, NEW p \in Processes, Acquires(p)
  PROVE  IInv'
  <1>0. proc[p] \in Procs /\ Shape
    BY DEF IInv, Shape
  <1>1. CASE Healthy
    <2> DEFINE r == [proc[p] EXCEPT !.at = "close", !.outcome = "stand_down"]
    <2>1. /\ r \in Procs
          /\ r.at = "close"
          /\ r.work = proc[p].work
          /\ r.admitted = proc[p].admitted
          /\ r.bound = proc[p].bound
          /\ r.lost = proc[p].lost
          /\ r.outcome = "stand_down"
      BY <1>0, Literals, Zenon DEF Procs
    <2>2. proc' = [proc EXCEPT ![p] = r] /\ proc[p].at = "acquire"
      BY <1>1, Zenon DEF Acquires, Goes, Fails
    <2> HIDE DEF r
    <2>3. /\ \A q \in Processes \ {p} : proc'[q] = proc[q]
          /\ proc'[p] = r
          /\ proc' \in [Processes -> Procs]
      BY <1>0, <2>1, <2>2, ProcIs, Zenon
    <2>4. /\ lease' = lease
          /\ table' = table
          /\ held' \in Helds
          /\ held'.file = IF held.file = p THEN NOBODY ELSE held.file
          /\ held'.dir = held.dir
      BY <1>1, CloseIs DEF IInv, Acquires
    <2>5. Shape' /\ ModeInv'
      BY <2>3, <2>4 DEF IInv, Shape, ModeInv
    <2>6. \A q \in Processes \ {p} : Undisturbed(q)
      BY <2>3, <2>4 DEF Undisturbed, Deployment
    <2>7. ProcessInv(p)'
      BY <1>1, <2>1, <2>2, <2>3, <2>4, SMTT(30)
      DEF IInv, ProcessInv, FileInv, DirInv, HolderInv, WorkInv,
           PromiseInv, Deployment
    <2> QED BY <2>5, <2>6, <2>7, Assemble
  <1>2. CASE ~Healthy
    <2> DEFINE r == [proc[p] EXCEPT
                  !.admitted = TRUE,
                  !.at = IF p \in Flights THEN "open" ELSE "dir"]
    <2>1. /\ r \in Procs
          /\ r.at = IF p \in Flights THEN "open" ELSE "dir"
          /\ r.work = proc[p].work
          /\ r.admitted = TRUE
          /\ r.bound = proc[p].bound
          /\ r.lost = proc[p].lost
          /\ r.outcome = proc[p].outcome
      BY <1>0, Literals, Zenon DEF Procs
    <2>2. proc' = [proc EXCEPT ![p] = r] /\ proc[p].at = "acquire"
      BY <1>2, Zenon DEF Acquires, Goes, Fails
    <2> HIDE DEF r
    <2>3. /\ \A q \in Processes \ {p} : proc'[q] = proc[q]
          /\ proc'[p] = r
          /\ proc' \in [Processes -> Procs]
      BY <1>0, <2>1, <2>2, ProcIs, Zenon
    <2>4. /\ lease' \in Leases
          /\ lease'.holder = p
          /\ table' = table
          /\ held' \in Helds
          /\ held'.file = IF held.file = p THEN NOBODY ELSE held.file
          /\ held'.dir = held.dir
      BY <1>2, CloseIs, SMTT(30) DEF IInv, Acquires, Leases, Holders
    <2>5. Shape' /\ ModeInv'
      BY <2>3, <2>4 DEF IInv, Shape, ModeInv
    <2>6. \A q \in Processes \ {p} : Undisturbed(q)
      BY <2>3, <2>4 DEF Undisturbed, Deployment
    <2>7. ProcessInv(p)'
      BY <1>2, <2>1, <2>2, <2>3, <2>4, SMTT(30)
      DEF IInv, ProcessInv, FileInv, DirInv, HolderInv, WorkInv,
           PromiseInv, Deployment
    <2> QED BY <2>5, <2>6, <2>7, Assemble
  <1> QED BY <1>1, <1>2

\* A wait that runs out closes the connection.
LEMMA WaitsKeep ==
  ASSUME Deployment, IInv, NEW p \in Processes, WaitExhausted(p)
  PROVE  IInv'
  <1>0. proc[p] \in Procs /\ Shape
    BY DEF IInv, Shape
  <1> DEFINE r == [proc[p] EXCEPT
                !.at = "close",
                !.outcome = "failed",
                !.work = NoWork]
  <1>1. /\ r \in Procs
        /\ r.at = "close"
        /\ r.work = NoWork
        /\ r.admitted = proc[p].admitted
        /\ r.bound = proc[p].bound
        /\ r.lost = proc[p].lost
        /\ r.outcome = "failed"
    BY <1>0, Literals, Zenon DEF Procs
  <1>2. proc' = [proc EXCEPT ![p] = r] /\ proc[p].at = "acquire"
    BY Zenon DEF WaitExhausted, Goes, Fails
  <1> HIDE DEF r
  <1>3. /\ \A q \in Processes \ {p} : proc'[q] = proc[q]
        /\ proc'[p] = r
        /\ proc' \in [Processes -> Procs]
    BY <1>0, <1>1, <1>2, ProcIs, Zenon
  <1>4. /\ lease' = lease
        /\ table' = table
        /\ held' \in Helds
        /\ held'.file = IF held.file = p THEN NOBODY ELSE held.file
        /\ held'.dir = held.dir
    BY CloseIs DEF IInv, WaitExhausted
  <1>5. Shape' /\ ModeInv'
    BY <1>3, <1>4 DEF IInv, Shape, ModeInv
  <1>6. \A q \in Processes \ {p} : Undisturbed(q)
    BY <1>3, <1>4 DEF Undisturbed, Deployment
  <1>7. ProcessInv(p)'
    BY <1>1, <1>2, <1>3, <1>4, SMTT(30)
    DEF IInv, ProcessInv, FileInv, DirInv, HolderInv, WorkInv,
           PromiseInv, Deployment
  <1> QED BY <1>5, <1>6, <1>7, Assemble

\* The data connection takes the file, or ends the run.
LEMMA OpensKeep ==
  ASSUME Deployment, IInv, NEW p \in Processes, OpensDestination(p)
  PROVE  IInv'
  <1>0. proc[p] \in Procs /\ Shape
    BY DEF IInv, Shape
  <1>1. CASE FileBusy(p)
    <2> DEFINE r == [proc[p] EXCEPT
                  !.at = "close",
                  !.outcome = "failed",
                  !.work = NoWork]
    <2>1. /\ r \in Procs
          /\ r.at = "close"
          /\ r.work = NoWork
          /\ r.admitted = proc[p].admitted
          /\ r.bound = proc[p].bound
          /\ r.lost = proc[p].lost
          /\ r.outcome = "failed"
      BY <1>0, Literals, Zenon DEF Procs
    <2>2. proc' = [proc EXCEPT ![p] = r] /\ proc[p].at = "open"
      BY <1>1, Zenon DEF OpensDestination, Goes, Fails
    <2> HIDE DEF r
    <2>3. /\ \A q \in Processes \ {p} : proc'[q] = proc[q]
          /\ proc'[p] = r
          /\ proc' \in [Processes -> Procs]
      BY <1>0, <2>1, <2>2, ProcIs, Zenon
    <2>4. /\ lease' = lease
          /\ table' = table
          /\ held' = held
      BY <1>1, Zenon DEF OpensDestination
    <2>5. Shape' /\ ModeInv'
      BY <2>3, <2>4 DEF IInv, Shape, ModeInv
    <2>6. \A q \in Processes \ {p} : Undisturbed(q)
      BY <2>3, <2>4 DEF Undisturbed, Deployment
    <2>7. ProcessInv(p)'
      BY <1>1, <2>1, <2>2, <2>3, <2>4, SMTT(30)
      DEF IInv, ProcessInv, FileInv, DirInv, HolderInv, WorkInv,
           PromiseInv, Deployment, FileBusy
    <2> QED BY <2>5, <2>6, <2>7, Assemble
  <1>2. CASE ~FileBusy(p) /\ p \in Flights
    <2> DEFINE r == [proc[p] EXCEPT !.at = "dir"]
    <2>1. /\ r \in Procs
          /\ r.at = "dir"
          /\ r.work = proc[p].work
          /\ r.admitted = proc[p].admitted
          /\ r.bound = proc[p].bound
          /\ r.lost = proc[p].lost
          /\ r.outcome = proc[p].outcome
      BY <1>0, Literals, Zenon DEF Procs
    <2>2. proc' = [proc EXCEPT ![p] = r] /\ proc[p].at = "open"
      BY <1>2, Zenon DEF OpensDestination, Goes, Fails
    <2> HIDE DEF r
    <2>3. /\ \A q \in Processes \ {p} : proc'[q] = proc[q]
          /\ proc'[p] = r
          /\ proc' \in [Processes -> Procs]
      BY <1>0, <2>1, <2>2, ProcIs, Zenon
    <2>4. /\ lease' = lease
          /\ table' = table
          /\ held' \in Helds
          /\ held'.file \in {held.file, p}
          /\ held'.dir = held.dir
      BY <1>2, OpenIs DEF IInv, OpensDestination
    <2>5. Shape' /\ ModeInv'
      BY <2>3, <2>4 DEF IInv, Shape, ModeInv
    <2>6. \A q \in Processes \ {p} : Undisturbed(q)
      BY <2>3, <2>4 DEF Undisturbed, Deployment
    <2>7. ProcessInv(p)'
      BY <1>2, <2>1, <2>2, <2>3, <2>4, SMTT(30)
      DEF IInv, ProcessInv, FileInv, DirInv, HolderInv, WorkInv,
           PromiseInv, Deployment
    <2> QED BY <2>5, <2>6, <2>7, Assemble
  <1>3. CASE ~FileBusy(p) /\ p \notin Flights
    <2> DEFINE r == [proc[p] EXCEPT !.at = "run", !.bound = TRUE]
    <2>1. /\ r \in Procs
          /\ r.at = "run"
          /\ r.work = proc[p].work
          /\ r.admitted = proc[p].admitted
          /\ r.bound = TRUE
          /\ r.lost = proc[p].lost
          /\ r.outcome = proc[p].outcome
      BY <1>0, Literals, Zenon DEF Procs
    <2>2. proc' = [proc EXCEPT ![p] = r] /\ proc[p].at = "open"
      BY <1>3, Zenon DEF OpensDestination, Goes, Fails
    <2> HIDE DEF r
    <2>3. /\ \A q \in Processes \ {p} : proc'[q] = proc[q]
          /\ proc'[p] = r
          /\ proc' \in [Processes -> Procs]
      BY <1>0, <2>1, <2>2, ProcIs, Zenon
    <2>4. /\ lease' = lease
          /\ table' = table
          /\ held' \in Helds
          /\ held'.file \in {held.file, p}
          /\ held'.dir = held.dir
      BY <1>3, OpenIs DEF IInv, OpensDestination
    <2>5. Shape' /\ ModeInv'
      BY <2>3, <2>4 DEF IInv, Shape, ModeInv
    <2>6. \A q \in Processes \ {p} : Undisturbed(q)
      BY <2>3, <2>4 DEF Undisturbed, Deployment
    <2>7. ProcessInv(p)'
      BY <1>3, <2>1, <2>2, <2>3, <2>4, SMTT(30)
      DEF IInv, ProcessInv, FileInv, DirInv, HolderInv, WorkInv,
           PromiseInv, Deployment
    <2> QED BY <2>5, <2>6, <2>7, Assemble
  <1> QED BY <1>1, <1>2, <1>3

\* The state directory is taken, or ends the run.
LEMMA TakesKeep ==
  ASSUME Deployment, IInv, NEW p \in Processes, TakesDirectory(p)
  PROVE  IInv'
  <1>0. proc[p] \in Procs /\ Shape
    BY DEF IInv, Shape
  <1>1. CASE held.dir # NOBODY
    <2> DEFINE r == [proc[p] EXCEPT
                  !.at = "teardown",
                  !.outcome = "failed",
                  !.work = NoWork]
    <2>1. /\ r \in Procs
          /\ r.at = "teardown"
          /\ r.work = NoWork
          /\ r.admitted = proc[p].admitted
          /\ r.bound = proc[p].bound
          /\ r.lost = proc[p].lost
          /\ r.outcome = "failed"
      BY <1>0, Literals, Zenon DEF Procs
    <2>2. proc' = [proc EXCEPT ![p] = r] /\ proc[p].at = "dir"
      BY <1>1, Zenon DEF TakesDirectory, Goes, Fails
    <2> HIDE DEF r
    <2>3. /\ \A q \in Processes \ {p} : proc'[q] = proc[q]
          /\ proc'[p] = r
          /\ proc' \in [Processes -> Procs]
      BY <1>0, <2>1, <2>2, ProcIs, Zenon
    <2>4. /\ lease' = lease
          /\ table' = table
          /\ held' = held
      BY <1>1, Zenon DEF TakesDirectory
    <2>5. Shape' /\ ModeInv'
      BY <2>3, <2>4 DEF IInv, Shape, ModeInv
    <2>6. \A q \in Processes \ {p} : Undisturbed(q)
      BY <2>3, <2>4 DEF Undisturbed, Deployment
    <2>7. ProcessInv(p)'
      BY <1>1, <2>1, <2>2, <2>3, <2>4, SMTT(30)
      DEF IInv, ProcessInv, FileInv, DirInv, HolderInv, WorkInv,
           PromiseInv, Deployment
    <2> QED BY <2>5, <2>6, <2>7, Assemble
  <1>2. CASE held.dir = NOBODY /\ p \in Operators
    <2> DEFINE r == [proc[p] EXCEPT !.at = "open"]
    <2>1. /\ r \in Procs
          /\ r.at = "open"
          /\ r.work = proc[p].work
          /\ r.admitted = proc[p].admitted
          /\ r.bound = proc[p].bound
          /\ r.lost = proc[p].lost
          /\ r.outcome = proc[p].outcome
      BY <1>0, Literals, Zenon DEF Procs
    <2>2. proc' = [proc EXCEPT ![p] = r] /\ proc[p].at = "dir"
      BY <1>2, Zenon DEF TakesDirectory, Goes, Fails
    <2> HIDE DEF r
    <2>3. /\ \A q \in Processes \ {p} : proc'[q] = proc[q]
          /\ proc'[p] = r
          /\ proc' \in [Processes -> Procs]
      BY <1>0, <2>1, <2>2, ProcIs, Zenon
    <2>4. /\ lease' = lease
          /\ table' = table
          /\ held' \in Helds
          /\ held'.file = held.file
          /\ held'.dir \in {held.dir, p}
      BY <1>2, SMTT(30) DEF IInv, Shape, TakesDirectory, Helds, Holders
    <2>5. Shape' /\ ModeInv'
      BY <2>3, <2>4 DEF IInv, Shape, ModeInv
    <2>6. \A q \in Processes \ {p} : Undisturbed(q)
      BY <2>3, <2>4 DEF Undisturbed, Deployment
    <2>7. ProcessInv(p)'
      BY <1>2, <2>1, <2>2, <2>3, <2>4, SMTT(30)
      DEF IInv, ProcessInv, FileInv, DirInv, HolderInv, WorkInv,
           PromiseInv, Deployment
    <2> QED BY <2>5, <2>6, <2>7, Assemble
  <1>3. CASE held.dir = NOBODY /\ p \notin Operators /\ Fenced(p)
    <2> DEFINE r == [proc[p] EXCEPT !.at = "run", !.bound = TRUE]
    <2>1. /\ r \in Procs
          /\ r.at = "run"
          /\ r.work = proc[p].work
          /\ r.admitted = proc[p].admitted
          /\ r.bound = TRUE
          /\ r.lost = proc[p].lost
          /\ r.outcome = proc[p].outcome
      BY <1>0, Literals, Zenon DEF Procs
    <2>2. proc' = [proc EXCEPT ![p] = r] /\ proc[p].at = "dir"
      BY <1>3, Zenon DEF TakesDirectory, Goes, Fails
    <2> HIDE DEF r
    <2>3. /\ \A q \in Processes \ {p} : proc'[q] = proc[q]
          /\ proc'[p] = r
          /\ proc' \in [Processes -> Procs]
      BY <1>0, <2>1, <2>2, ProcIs, Zenon
    <2>4. /\ lease' = lease
          /\ table' = table
          /\ held' \in Helds
          /\ held'.file = held.file
          /\ held'.dir \in {held.dir, p}
      BY <1>3, SMTT(30) DEF IInv, Shape, TakesDirectory, Helds, Holders
    <2>5. Shape' /\ ModeInv'
      BY <2>3, <2>4 DEF IInv, Shape, ModeInv
    <2>6. \A q \in Processes \ {p} : Undisturbed(q)
      BY <2>3, <2>4 DEF Undisturbed, Deployment
    <2>7. ProcessInv(p)'
      BY <1>3, <2>1, <2>2, <2>3, <2>4, SMTT(30)
      DEF IInv, ProcessInv, FileInv, DirInv, HolderInv, WorkInv,
           PromiseInv, Deployment, Processes
    <2> QED BY <2>5, <2>6, <2>7, Assemble
  <1>4. CASE held.dir = NOBODY /\ p \notin Operators /\ ~Fenced(p)
    <2> DEFINE r == [proc[p] EXCEPT
                  !.at = "teardown",
                  !.outcome = "failed",
                  !.work = NoWork]
    <2>1. /\ r \in Procs
          /\ r.at = "teardown"
          /\ r.work = NoWork
          /\ r.admitted = proc[p].admitted
          /\ r.bound = proc[p].bound
          /\ r.lost = proc[p].lost
          /\ r.outcome = "failed"
      BY <1>0, Literals, Zenon DEF Procs
    <2>2. proc' = [proc EXCEPT ![p] = r] /\ proc[p].at = "dir"
      BY <1>4, Zenon DEF TakesDirectory, Goes, Fails
    <2> HIDE DEF r
    <2>3. /\ \A q \in Processes \ {p} : proc'[q] = proc[q]
          /\ proc'[p] = r
          /\ proc' \in [Processes -> Procs]
      BY <1>0, <2>1, <2>2, ProcIs, Zenon
    <2>4. /\ lease' = lease
          /\ table' = table
          /\ held' \in Helds
          /\ held'.file = held.file
          /\ held'.dir \in {held.dir, p}
      BY <1>4, SMTT(30) DEF IInv, Shape, TakesDirectory, Helds, Holders
    <2>5. Shape' /\ ModeInv'
      BY <2>3, <2>4 DEF IInv, Shape, ModeInv
    <2>6. \A q \in Processes \ {p} : Undisturbed(q)
      BY <2>3, <2>4 DEF Undisturbed, Deployment
    <2>7. ProcessInv(p)'
      BY <1>4, <2>1, <2>2, <2>3, <2>4, SMTT(30)
      DEF IInv, ProcessInv, FileInv, DirInv, HolderInv, WorkInv,
           PromiseInv, Deployment, Processes
    <2> QED BY <2>5, <2>6, <2>7, Assemble
  <1> QED BY <1>1, <1>2, <1>3, <1>4

\* A renewal keeps the row; a refused one ends the run.
LEMMA RenewsKeep ==
  ASSUME Deployment, IInv, NEW p \in Processes, Renews(p)
  PROVE  IInv'
  <1>0. proc[p] \in Procs /\ Shape
    BY DEF IInv, Shape
  <1>1. CASE Fenced(p)
    <2> DEFINE r == proc[p]
    <2>1. /\ r \in Procs
          /\ r.at = proc[p].at
          /\ r.work = proc[p].work
          /\ r.admitted = proc[p].admitted
          /\ r.bound = proc[p].bound
          /\ r.lost = proc[p].lost
          /\ r.outcome = proc[p].outcome
      BY <1>0, Literals, Zenon DEF Procs
    <2>2. proc' = [proc EXCEPT ![p] = r] /\ proc[p].at = "run"
      BY <1>0, <1>1 DEF Renews, Shape
    <2> HIDE DEF r
    <2>3. /\ \A q \in Processes \ {p} : proc'[q] = proc[q]
          /\ proc'[p] = r
          /\ proc' \in [Processes -> Procs]
      BY <1>0, <2>1, <2>2, ProcIs, Zenon
    <2>4. /\ lease' \in Leases
          /\ lease'.holder = lease.holder
          /\ lease'.state = lease.state
          /\ table' = table
          /\ held' = held
      BY <1>1, SMTT(30) DEF IInv, Shape, Renews, Leases
    <2>5. Shape' /\ ModeInv'
      BY <2>3, <2>4 DEF IInv, Shape, ModeInv
    <2>6. \A q \in Processes \ {p} : Undisturbed(q)
      BY <2>3, <2>4 DEF Undisturbed, Deployment
    <2>7. ProcessInv(p)'
      BY <1>1, <2>1, <2>2, <2>3, <2>4, SMTT(30)
      DEF IInv, ProcessInv, FileInv, DirInv, HolderInv, WorkInv,
           PromiseInv, Deployment
    <2> QED BY <2>5, <2>6, <2>7, Assemble
  <1>2. CASE ~Fenced(p)
    <2> DEFINE r == [proc[p] EXCEPT
                  !.at = "teardown",
                  !.outcome = "failed",
                  !.work = NoWork]
    <2>1. /\ r \in Procs
          /\ r.at = "teardown"
          /\ r.work = NoWork
          /\ r.admitted = proc[p].admitted
          /\ r.bound = proc[p].bound
          /\ r.lost = proc[p].lost
          /\ r.outcome = "failed"
      BY <1>0, Literals, Zenon DEF Procs
    <2>2. proc' = [proc EXCEPT ![p] = r] /\ proc[p].at = "run"
      BY <1>2, Zenon DEF Renews, Goes, Fails
    <2> HIDE DEF r
    <2>3. /\ \A q \in Processes \ {p} : proc'[q] = proc[q]
          /\ proc'[p] = r
          /\ proc' \in [Processes -> Procs]
      BY <1>0, <2>1, <2>2, ProcIs, Zenon
    <2>4. /\ lease' = lease
          /\ table' = table
          /\ held' = held
      BY <1>2, Zenon DEF Renews
    <2>5. Shape' /\ ModeInv'
      BY <2>3, <2>4 DEF IInv, Shape, ModeInv
    <2>6. \A q \in Processes \ {p} : Undisturbed(q)
      BY <2>3, <2>4 DEF Undisturbed, Deployment
    <2>7. ProcessInv(p)'
      BY <1>2, <2>1, <2>2, <2>3, <2>4, SMTT(30)
      DEF IInv, ProcessInv, FileInv, DirInv, HolderInv, WorkInv,
           PromiseInv, Deployment
    <2> QED BY <2>5, <2>6, <2>7, Assemble
  <1> QED BY <1>1, <1>2

\* A run that ends is torn down.
LEMMA EndsKeep ==
  ASSUME Deployment, IInv, NEW p \in Processes, Ends(p)
  PROVE  IInv'
  <1>0. proc[p] \in Procs /\ Shape
    BY DEF IInv, Shape
  <1>10. PICK outcome \in {"stopped", "failed"} : proc' = [proc EXCEPT ![p] = [@ EXCEPT !.at = "teardown", !.outcome = outcome]]
    BY Zenon DEF Ends
  <1> DEFINE r == [proc[p] EXCEPT !.at = "teardown", !.outcome = outcome]
  <1>1. /\ r \in Procs
        /\ r.at = "teardown"
        /\ r.work = proc[p].work
        /\ r.admitted = proc[p].admitted
        /\ r.bound = proc[p].bound
        /\ r.lost = proc[p].lost
        /\ r.outcome = outcome
    BY <1>0, Literals, Zenon DEF Procs
  <1>2. proc' = [proc EXCEPT ![p] = r] /\ proc[p].at = "run" /\ p \in Flights
    BY <1>10, Zenon DEF Ends, Goes, Fails
  <1> HIDE DEF r
  <1>3. /\ \A q \in Processes \ {p} : proc'[q] = proc[q]
        /\ proc'[p] = r
        /\ proc' \in [Processes -> Procs]
    BY <1>0, <1>1, <1>2, ProcIs, Zenon
  <1>4. /\ lease' = lease
        /\ table' = table
        /\ held' = held
    BY DEF Ends
  <1>5. Shape' /\ ModeInv'
    BY <1>3, <1>4 DEF IInv, Shape, ModeInv
  <1>6. \A q \in Processes \ {p} : Undisturbed(q)
    BY <1>3, <1>4 DEF Undisturbed, Deployment
  <1>7. ProcessInv(p)'
    BY <1>1, <1>2, <1>3, <1>4, SMTT(30)
    DEF IInv, ProcessInv, FileInv, DirInv, HolderInv, WorkInv,
           PromiseInv, Deployment
  <1> QED BY <1>5, <1>6, <1>7, Assemble

\* A transaction reads what the row and the target say as it begins.
LEMMA BeginsKeep ==
  ASSUME Deployment, IInv, NEW p \in Processes,
         NEW what \in Kinds \ {"none"}, Begins(p, what)
  PROVE  IInv'
  <1>0. proc[p] \in Procs /\ Shape
    BY DEF IInv, Shape
  <1> DEFINE r == [proc[p] EXCEPT
                !.at = "txn",
                !.work = [what |-> what, lifecycle |-> table.lifecycle, mode |-> table.mode,
                 target |-> table.target]]
  <1>1. /\ r \in Procs
        /\ r.at = "txn"
        /\ r.work = [what |-> what, lifecycle |-> table.lifecycle, mode |-> table.mode,
                 target |-> table.target]
        /\ r.admitted = proc[p].admitted
        /\ r.bound = proc[p].bound
        /\ r.lost = proc[p].lost
        /\ r.outcome = proc[p].outcome
    BY <1>0, Literals, Zenon DEF Procs, Shape, Tables, Works
  <1>2. proc' = [proc EXCEPT ![p] = r] /\ proc[p].at = "run" /\ (p \in Operators <=> what = "set_mode")
    BY Zenon DEF Begins, Goes, Fails
  <1> HIDE DEF r
  <1>3. /\ \A q \in Processes \ {p} : proc'[q] = proc[q]
        /\ proc'[p] = r
        /\ proc' \in [Processes -> Procs]
    BY <1>0, <1>1, <1>2, ProcIs, Zenon
  <1>4. /\ lease' = lease
        /\ table' = table
        /\ held' = held
    BY DEF Begins
  <1>5. Shape' /\ ModeInv'
    BY <1>3, <1>4 DEF IInv, Shape, ModeInv
  <1>6. \A q \in Processes \ {p} : Undisturbed(q)
    BY <1>3, <1>4 DEF Undisturbed, Deployment
  <1>7. ProcessInv(p)'
    BY <1>1, <1>2, <1>3, <1>4, SMTT(30)
    DEF IInv, ProcessInv, FileInv, DirInv, HolderInv, WorkInv,
           PromiseInv, Deployment
  <1> QED BY <1>5, <1>6, <1>7, Assemble

\* An update of the directory's holder.
LEMMA DirIs ==
  ASSUME NEW h \in Helds, NEW d \in Holders
  PROVE  LET k == [h EXCEPT !.dir = d]
         IN  k \in Helds /\ k.file = h.file /\ k.dir = d
  BY Zenon DEF Helds

\* A release is of the row the process holds, and changes nothing else of it.
LEMMA ReleasedIs ==
  ASSUME Shape, NEW p \in Processes
  PROVE  /\ Released(p) \in Leases
         /\ Released(p).holder = lease.holder
         /\ Released(p).state = IF Fenced(p) THEN "released" ELSE lease.state
  <1>1. CASE Fenced(p)
    BY <1>1, Zenon DEF Shape, Released, Leases
  <1>2. CASE ~Fenced(p)
    BY <1>2, Zenon DEF Shape, Released
  <1> QED BY <1>1, <1>2

\* The bound handle releases the row; the Flight gives up its directory.
LEMMA TearsKeep ==
  ASSUME Deployment, IInv, NEW p \in Processes, TearsDown(p)
  PROVE  IInv'
  <1>0. proc[p] \in Procs /\ Shape
    BY DEF IInv, Shape
  <1> DEFINE r == [proc[p] EXCEPT
                !.at = "close",
                !.admitted = (proc[p].admitted /\ ~proc[p].bound),
                !.lost = (proc[p].bound /\ ~Fenced(p))]
  <1>1. /\ r \in Procs
        /\ r.at = "close"
        /\ r.work = proc[p].work
        /\ r.admitted = (proc[p].admitted /\ ~proc[p].bound)
        /\ r.bound = proc[p].bound
        /\ r.lost = (proc[p].bound /\ ~Fenced(p))
        /\ r.outcome = proc[p].outcome
    BY <1>0, Literals, Zenon DEF Procs
  <1>2. proc' = [proc EXCEPT ![p] = r] /\ proc[p].at = "teardown"
    BY Zenon DEF TearsDown, Goes, Fails
  <1> HIDE DEF r
  <1>3. /\ \A q \in Processes \ {p} : proc'[q] = proc[q]
        /\ proc'[p] = r
        /\ proc' \in [Processes -> Procs]
    BY <1>0, <1>1, <1>2, ProcIs, Zenon
  <1>4. /\ lease' \in Leases
        /\ lease'.holder = lease.holder
        /\ lease'.state = "held" => lease.state = "held"
        /\ table' = table
        /\ held' \in Helds
        /\ proc[p].bound /\ Fenced(p) => lease'.state = "released"
        /\ held'.file = IF held.file = p THEN NOBODY ELSE held.file
        /\ held'.dir = IF held.dir = p /\ p \in Flights THEN NOBODY ELSE held.dir
    <2> DEFINE c == Closes(p)
    <2> DEFINE d == IF c.dir = p /\ p \in Flights THEN NOBODY ELSE c.dir
    <2>1. /\ c \in Helds /\ c.dir = held.dir
          /\ c.file = IF held.file = p THEN NOBODY ELSE held.file
      BY <1>0, CloseIs
    <2>2. held' = [c EXCEPT !.dir = d] /\ table' = table
      BY Zenon DEF TearsDown
    <2> HIDE DEF c
    <2>3. d \in Holders
      BY <2>1 DEF Helds, Holders
    <2>4. held' \in Helds /\ held'.file = c.file /\ held'.dir = d
      <3> HIDE DEF d
      <3> QED BY <2>1, <2>2, <2>3, DirIs, Zenon
    <2>5. /\ lease' \in Leases
          /\ lease'.holder = lease.holder
          /\ lease'.state = "held" => lease.state = "held"
          /\ proc[p].bound /\ Fenced(p) => lease'.state = "released"
      BY <1>0, ReleasedIs DEF Shape, TearsDown
    <2> QED BY <2>1, <2>2, <2>4, <2>5
  <1>5. Shape' /\ ModeInv'
    BY <1>3, <1>4 DEF IInv, Shape, ModeInv
  <1>6. \A q \in Processes \ {p} : Undisturbed(q)
    BY <1>3, <1>4 DEF Undisturbed, Deployment
  <1>7. ProcessInv(p)'
    <2>1. ProcessInv(p)
      BY DEF IInv
    <2>2. FileInv(p)' /\ DirInv(p)'
      BY <1>1, <1>2, <1>3, <1>4, <2>1 DEF ProcessInv, FileInv, DirInv, Deployment
    <2>3. HolderInv(p)'
      BY <1>0, <1>1, <1>2, <1>3, <1>4, <2>1 DEF ProcessInv, HolderInv, Procs
    <2>4. WorkInv(p)' /\ PromiseInv(p)'
      BY <1>1, <1>2, <1>3, <1>4, <2>1 DEF ProcessInv, WorkInv, PromiseInv
    <2> QED BY <2>2, <2>3, <2>4 DEF ProcessInv
  <1> QED BY <1>5, <1>6, <1>7, Assemble

\* An admitted process whose run bound no handle releases at the end.
LEMMA ClosesKeep ==
  ASSUME Deployment, IInv, NEW p \in Processes, ClosesProcess(p)
  PROVE  IInv'
  <1>0. proc[p] \in Procs /\ Shape
    BY DEF IInv, Shape
  <1>10. PICK fault \in 0..1 : /\ lease' = IF ReleasesLate(p, fault) THEN Released(p) ELSE lease
             /\ proc' = [proc EXCEPT ![p] = [@ EXCEPT !.at = "ended", !.admitted = FALSE,
                                                      !.lost = LeftToExpiry(p, fault)]]
    BY Zenon DEF ClosesProcess
  <1> DEFINE r == [proc[p] EXCEPT
                !.at = "ended",
                !.admitted = FALSE,
                !.lost = LeftToExpiry(p, fault)]
  <1>11. LeftToExpiry(p, fault) \in BOOLEAN
    BY <1>0 DEF LeftToExpiry, Procs
  <1>1. /\ r \in Procs
        /\ r.at = "ended"
        /\ r.work = proc[p].work
        /\ r.admitted = FALSE
        /\ r.bound = proc[p].bound
        /\ r.lost = LeftToExpiry(p, fault)
        /\ r.outcome = proc[p].outcome
    BY <1>0, <1>11, Literals, Zenon DEF Procs
  <1>2. proc' = [proc EXCEPT ![p] = r] /\ proc[p].at = "close"
    BY <1>10, Zenon DEF ClosesProcess, Goes, Fails
  <1> HIDE DEF r
  <1>3. /\ \A q \in Processes \ {p} : proc'[q] = proc[q]
        /\ proc'[p] = r
        /\ proc' \in [Processes -> Procs]
    BY <1>0, <1>1, <1>2, ProcIs, Zenon
  <1>4. /\ lease' \in Leases
        /\ lease'.holder = lease.holder
        /\ lease'.state = "held" => lease.state = "held"
        /\ table' = table
        /\ held' \in Helds
        /\ ReleasesLate(p, fault) /\ Fenced(p) => lease'.state = "released"
        /\ held'.file = held.file
        /\ held'.dir = IF held.dir = p THEN NOBODY ELSE held.dir
    <2> DEFINE d == IF held.dir = p THEN NOBODY ELSE held.dir
    <2>1. held \in Helds /\ d \in Holders
      BY <1>0 DEF Shape, Helds, Holders
    <2>2. held' = [held EXCEPT !.dir = d] /\ table' = table
      BY Zenon DEF ClosesProcess
    <2> HIDE DEF d
    <2>3. held' \in Helds /\ held'.file = held.file /\ held'.dir = d
      BY <2>1, <2>2, DirIs, Zenon
    <2>4. /\ lease' \in Leases
          /\ lease'.holder = lease.holder
          /\ lease'.state = "held" => lease.state = "held"
          /\ ReleasesLate(p, fault) /\ Fenced(p) => lease'.state = "released"
      BY <1>0, <1>10, ReleasedIs DEF Shape
    <2> QED BY <2>2, <2>3, <2>4 DEF d
  <1>5. Shape' /\ ModeInv'
    BY <1>3, <1>4 DEF IInv, Shape, ModeInv
  <1>6. \A q \in Processes \ {p} : Undisturbed(q)
    BY <1>3, <1>4 DEF Undisturbed, Deployment
  <1>7. ProcessInv(p)'
    <2>1. ProcessInv(p)
      BY DEF IInv
    <2>2. FileInv(p)' /\ DirInv(p)'
      BY <1>1, <1>2, <1>3, <1>4, <2>1 DEF ProcessInv, FileInv, DirInv, Deployment
    <2>3. HolderInv(p)'
      BY <1>0, <1>1, <1>2, <1>3, <1>4, <2>1 DEF ProcessInv, HolderInv, Procs, ReleasesLate, LeftToExpiry
    <2>4. WorkInv(p)' /\ PromiseInv(p)'
      BY <1>1, <1>2, <1>3, <1>4, <2>1 DEF ProcessInv, WorkInv, PromiseInv
    <2> QED BY <2>2, <2>3, <2>4 DEF ProcessInv
  <1> QED BY <1>5, <1>6, <1>7, Assemble

\* A death frees the file and the directory, not the row.
LEMMA DiesKeep ==
  ASSUME Deployment, IInv, NEW p \in Processes, Dies(p)
  PROVE  IInv'
  <1>0. proc[p] \in Procs /\ Shape
    BY DEF IInv, Shape
  <1> DEFINE r == [at |-> "dead", work |-> NoWork, admitted |-> FALSE,
               bound |-> FALSE, lost |-> FALSE, outcome |-> "none"]
  <1>1. /\ r \in Procs
        /\ r.at = "dead"
        /\ r.work = NoWork
        /\ r.admitted = FALSE
        /\ r.bound = FALSE
        /\ r.lost = FALSE
        /\ r.outcome = "none"
    BY <1>0, Literals, Zenon DEF Procs
  <1>2. proc' = [proc EXCEPT ![p] = r]
    BY Zenon DEF Dies, Goes, Fails
  <1> HIDE DEF r
  <1>3. /\ \A q \in Processes \ {p} : proc'[q] = proc[q]
        /\ proc'[p] = r
        /\ proc' \in [Processes -> Procs]
    BY <1>0, <1>1, <1>2, ProcIs, Zenon
  <1>4. /\ lease' = lease
        /\ table' = table
        /\ held' \in Helds
        /\ held'.file = IF held.file = p THEN NOBODY ELSE held.file
        /\ held'.dir = IF held.dir = p THEN NOBODY ELSE held.dir
    <2> DEFINE c == Closes(p)
    <2> DEFINE d == IF c.dir = p THEN NOBODY ELSE c.dir
    <2>1. /\ c \in Helds /\ c.dir = held.dir
          /\ c.file = IF held.file = p THEN NOBODY ELSE held.file
      BY <1>0, CloseIs
    <2>2. held' = [c EXCEPT !.dir = d] /\ table' = table /\ lease' = lease
      BY Zenon DEF Dies
    <2> HIDE DEF c
    <2>3. d \in Holders
      BY <2>1 DEF Helds, Holders
    <2>4. held' \in Helds /\ held'.file = c.file /\ held'.dir = d
      <3> HIDE DEF d
      <3> QED BY <2>1, <2>2, <2>3, DirIs, Zenon
    <2> QED BY <2>1, <2>2, <2>4
  <1>5. Shape' /\ ModeInv'
    BY <1>3, <1>4 DEF IInv, Shape, ModeInv
  <1>6. \A q \in Processes \ {p} : Undisturbed(q)
    BY <1>3, <1>4 DEF Undisturbed, Deployment
  <1>7. ProcessInv(p)'
    BY <1>1, <1>2, <1>3, <1>4, SMTT(30)
    DEF IInv, ProcessInv, FileInv, DirInv, HolderInv, WorkInv,
           PromiseInv, Deployment
  <1> QED BY <1>5, <1>6, <1>7, Assemble

\* What an admitted transaction writes keeps the mode a column of a row, and
\* does not take a history back but with the relation.
LEMMA WriteIs ==
  ASSUME Deployment, IInv, NEW p \in Processes, proc[p].at = "txn", ~Refuses(p), Fenced(p)
  PROVE  /\ Writes(p) \in Tables
         /\ Writes(p).mode = "scd2" => ~Writes(p).target /\ Writes(p).lifecycle # "absent"
         /\ table.dropped => Writes(p).dropped
         /\ table.mode = "scd2" /\ ~Writes(p).dropped => Writes(p).mode = "scd2"
         /\ p \in Operators => Writes(p).mode = Requested[p]
  <1> DEFINE saw == proc[p].work
  <1>1. /\ (p \in Operators) <=> (saw.what = "set_mode")
        /\ saw.what \in Kinds \ {"none"}
        /\ saw.lifecycle = table.lifecycle /\ saw.mode = table.mode
        /\ saw.target = table.target
    BY DEF IInv, Shape, ProcessInv, WorkInv, Fenced, Procs, Works
  <1>12. table \in Tables /\ table.target \in BOOLEAN /\ ModeInv
    BY DEF IInv, Shape, Tables
  <1>2. CASE saw.what = "stream"
    <2> DEFINE b == table.target \/ saw.mode = "none"
    <2>1. Writes(p) = [table EXCEPT !.target = b] /\ b \in BOOLEAN
      BY <1>12, <1>2 DEF Writes
    <2> HIDE DEF b
    <2>2. /\ Writes(p) \in Tables /\ Writes(p).mode = table.mode
          /\ Writes(p).lifecycle = table.lifecycle
          /\ Writes(p).target = b /\ Writes(p).dropped = table.dropped
      BY <1>12, <2>1, Zenon DEF Tables
    <2> QED BY <1>1, <1>2, <1>12, <2>2 DEF ModeInv, b
  <1>3. CASE saw.what = "owe"
    <2>1. Writes(p) = [table EXCEPT !.lifecycle = "awaiting_snapshot"]
      BY <1>3 DEF Writes
    <2>2. /\ Writes(p) \in Tables /\ Writes(p).mode = table.mode
          /\ Writes(p).lifecycle = "awaiting_snapshot"
          /\ Writes(p).target = table.target /\ Writes(p).dropped = table.dropped
      BY <1>12, <2>1, Zenon DEF Tables, Lifecycles
    <2> QED BY <1>1, <1>3, <1>12, <2>2 DEF ModeInv
  <1>4. CASE saw.what = "publish"
    <2>1. Writes(p) = [table EXCEPT !.lifecycle = "complete", !.target = TRUE]
      BY <1>4 DEF Writes
    <2>2. table.mode # "scd2"
      BY <1>1, <1>4 DEF Refuses
    <2>3. /\ Writes(p) \in Tables /\ Writes(p).mode = table.mode
          /\ Writes(p).dropped = table.dropped
      BY <1>12, <2>1, Zenon DEF Tables, Lifecycles
    <2> QED BY <1>1, <1>4, <2>2, <2>3
  <1>5. CASE saw.what = "forget"
    <2>1. Writes(p) = Forgotten
      BY <1>5 DEF Writes
    <2> QED BY <1>1, <1>5, <2>1 DEF Forgotten, Tables, Lifecycles, Modes
  <1>6. CASE saw.what = "set_mode"
    <2>1. Writes(p) = [table EXCEPT !.lifecycle = IF table.lifecycle = "absent" THEN "none"
                                                  ELSE table.lifecycle,
                                    !.mode = Requested[p]]
      BY <1>6 DEF Writes
    <2>2. p \in Operators /\ Requested[p] \in Modes
      BY <1>1, <1>6 DEF Deployment
    <2>3. Writes(p) \in Tables /\ Writes(p).dropped = table.dropped
          /\ Writes(p).mode = Requested[p] /\ Writes(p).target = table.target
          /\ Writes(p).lifecycle # "absent"
      <3> DEFINE l == IF table.lifecycle = "absent" THEN "none" ELSE table.lifecycle
      <3> DEFINE m == Requested[p]
      <3>1. l \in Lifecycles /\ l # "absent"
        BY <1>12 DEF Tables, Lifecycles
      <3>2. m \in Modes /\ Writes(p) = [table EXCEPT !.lifecycle = l, !.mode = m]
        BY <2>1, <2>2
      <3> HIDE DEF l
      <3> QED BY <1>12, <3>1, <3>2, Zenon DEF Tables
    <2>4. Admits(Requested[p], saw)
      BY <1>6 DEF Refuses
    <2>5. Requested[p] = "scd2" => ~table.target
      BY <1>1, <2>2, <2>4 DEF Admits, IInv, ModeInv
    <2>6. table.mode = "scd2" => Requested[p] = "scd2"
      BY <1>1, <2>2, <2>4 DEF Admits, IInv, ModeInv
    <2> QED BY <2>2, <2>3, <2>5, <2>6
  <1> QED BY <1>1, <1>2, <1>3, <1>4, <1>5, <1>6 DEF Kinds


\* A transaction is durable only under the fence.
LEMMA CommitsKeep ==
  ASSUME Deployment, IInv, NEW p \in Processes, Commits(p)
  PROVE  IInv'
  <1>0. proc[p] \in Procs /\ Shape
    BY DEF IInv, Shape
  <1>1. CASE Refuses(p) \/ ~Fenced(p)
    <2> DEFINE r == [proc[p] EXCEPT
                  !.at = "teardown",
                  !.outcome = "failed",
                  !.work = NoWork]
    <2>1. /\ r \in Procs
          /\ r.at = "teardown"
          /\ r.work = NoWork
          /\ r.admitted = proc[p].admitted
          /\ r.bound = proc[p].bound
          /\ r.lost = proc[p].lost
          /\ r.outcome = "failed"
      BY <1>0, Literals, Zenon DEF Procs
    <2>2. proc' = [proc EXCEPT ![p] = r] /\ proc[p].at = "txn"
      BY <1>1, Zenon DEF Commits, Goes, Fails
    <2> HIDE DEF r
    <2>3. /\ \A q \in Processes \ {p} : proc'[q] = proc[q]
          /\ proc'[p] = r
          /\ proc' \in [Processes -> Procs]
      BY <1>0, <2>1, <2>2, ProcIs, Zenon
    <2>4. /\ lease' = lease
          /\ table' = table
          /\ held' = held
      BY <1>1, Zenon DEF Commits
    <2>5. Shape' /\ ModeInv'
      BY <2>3, <2>4 DEF IInv, Shape, ModeInv
    <2>6. \A q \in Processes \ {p} : Undisturbed(q)
      BY <2>3, <2>4 DEF Undisturbed, Deployment
    <2>7. ProcessInv(p)'
      BY <1>1, <2>1, <2>2, <2>3, <2>4, SMTT(30)
      DEF IInv, ProcessInv, FileInv, DirInv, HolderInv, WorkInv,
           PromiseInv, Deployment
    <2> QED BY <2>5, <2>6, <2>7, Assemble
  <1>2. CASE ~Refuses(p) /\ Fenced(p)
    <2> DEFINE r == [proc[p] EXCEPT
                  !.work = NoWork,
                  !.at = IF p \in Flights THEN "run" ELSE "teardown",
                  !.outcome = IF p \in Flights THEN proc[p].outcome ELSE "admitted"]
    <2>1. /\ r \in Procs
          /\ r.at = IF p \in Flights THEN "run" ELSE "teardown"
          /\ r.work = NoWork
          /\ r.admitted = proc[p].admitted
          /\ r.bound = proc[p].bound
          /\ r.lost = proc[p].lost
          /\ r.outcome = IF p \in Flights THEN proc[p].outcome ELSE "admitted"
      BY <1>0, Literals, Zenon DEF Procs
    <2>2. proc' = [proc EXCEPT ![p] = r] /\ proc[p].at = "txn"
      BY <1>2, Zenon DEF Commits, Goes, Fails
    <2> HIDE DEF r
    <2>3. /\ \A q \in Processes \ {p} : proc'[q] = proc[q]
          /\ proc'[p] = r
          /\ proc' \in [Processes -> Procs]
      BY <1>0, <2>1, <2>2, ProcIs, Zenon
    <2>4. /\ lease' \in Leases
          /\ lease'.holder = p
          /\ lease'.state = "held"
          /\ lease.holder = p
          /\ lease.state = "held"
          /\ held' = held
          /\ table' \in Tables
          /\ table'.mode = "scd2" => ~table'.target /\ table'.lifecycle # "absent"
          /\ table.dropped => table'.dropped
          /\ table.mode = "scd2" /\ ~table'.dropped => table'.mode = "scd2"
          /\ p \in Operators => table'.mode = Requested[p]
      BY <1>2, <1>0, WriteIs, SMTT(30) DEF Shape, Commits, Leases, Fenced
    <2>5. Shape' /\ ModeInv'
      BY <2>3, <2>4 DEF IInv, Shape, ModeInv
    <2>6. \A q \in Processes \ {p} : Undisturbed(q)
      BY <2>3, <2>4 DEF Undisturbed, Deployment
    <2>7. ProcessInv(p)'
      BY <1>2, <2>1, <2>2, <2>3, <2>4, SMTT(30)
      DEF IInv, ProcessInv, FileInv, DirInv, HolderInv, WorkInv,
           PromiseInv, Deployment, Processes
    <2> QED BY <2>5, <2>6, <2>7, Assemble
  <1> QED BY <1>1, <1>2

\* Time disturbs nobody.
LEMMA AgesKeep == ASSUME IInv, Ages PROVE IInv'
  <1>1. /\ lease' \in Leases /\ lease'.holder = lease.holder /\ lease'.state = lease.state
        /\ held' = held /\ table' = table /\ proc' = proc
    BY SMTT(30) DEF IInv, Shape, Ages, Leases
  <1>2. Shape' /\ ModeInv'
    BY <1>1 DEF IInv, Shape, ModeInv
  <1>3. \A q \in Processes : Undisturbed(q)
    BY <1>1 DEF Undisturbed
  <1> QED BY <1>2, <1>3, OthersKeep DEF IInv

\* Every step of every process keeps the invariant.
LEMMA StepKeeps == Deployment /\ IInv /\ [Next]_vars => IInv'
  <1> SUFFICES ASSUME Deployment, IInv, [Next]_vars PROVE IInv'
    OBVIOUS
  <1>1. CASE UNCHANGED vars
    BY <1>1 DEF vars, IInv, Shape, ModeInv, ProcessInv, FileInv, DirInv, HolderInv,
                WorkInv, PromiseInv
  <1>2. CASE Ages
    BY <1>2, AgesKeep
  <1>3. ASSUME NEW p \in Processes, Starts(p) \/ Connects(p) \/ Acquires(p) \/ WaitExhausted(p)
        PROVE  IInv'
    BY <1>3, StartsKeep, ConnectsKeep, AcquiresKeep, WaitsKeep
  <1>4. ASSUME NEW p \in Processes, OpensDestination(p) \/ TakesDirectory(p)
        PROVE  IInv'
    BY <1>4, OpensKeep, TakesKeep
  <1>5. ASSUME NEW p \in Processes,
               NEW what \in {"stream", "owe", "publish", "forget", "set_mode"}, Begins(p, what)
        PROVE  IInv'
    BY <1>5, BeginsKeep DEF Kinds
  <1>6. ASSUME NEW p \in Processes, Commits(p) \/ Renews(p) \/ Ends(p)
        PROVE  IInv'
    BY <1>6, CommitsKeep, RenewsKeep, EndsKeep
  <1>7. ASSUME NEW p \in Processes, TearsDown(p) \/ ClosesProcess(p) \/ Dies(p)
        PROVE  IInv'
    BY <1>7, TearsKeep, ClosesKeep, DiesKeep
  <1> QED BY <1>1, <1>2, <1>3, <1>4, <1>5, <1>6, <1>7 DEF Next, Finished

\* What the invariant promises: a history is whole, a promised mode holds until
\* the relation is dropped, and a process that ended in order holds nothing
\* (admit_history_mode, _release_if_needed).
LEMMA Promises == IInv => HistoryIsWhole /\ PromisedModeHolds /\ EndedHoldsNothing
  <1> SUFFICES ASSUME IInv PROVE HistoryIsWhole /\ PromisedModeHolds /\ EndedHoldsNothing
    OBVIOUS
  <1>1. HistoryIsWhole
    BY DEF IInv, ModeInv, HistoryIsWhole
  <1>2. PromisedModeHolds
    BY DEF IInv, ProcessInv, PromiseInv, PromisedModeHolds, Processes
  <1>3. EndedHoldsNothing
    BY DEF IInv, ProcessInv, FileInv, DirInv, HolderInv, EndedHoldsNothing
  <1> QED BY <1>1, <1>2, <1>3

\* The promises hold in every behaviour of a deployment.
THEOREM ProcessPromises ==
  ASSUME Deployment
  PROVE  Spec => [](HistoryIsWhole /\ PromisedModeHolds /\ EndedHoldsNothing)
  <1>1. Init => IInv
    BY InitHolds
  <1>2. IInv /\ [Next]_vars => IInv'
    BY StepKeeps
  <1> QED BY <1>1, <1>2, Promises, PTL DEF Spec
=============================================================================
