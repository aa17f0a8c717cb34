--------------------------- MODULE OperationsProofs ---------------------------
(***************************************************************************)
(* Theorems about collections, backups and recoveries, for any number of   *)
(* backups, sets and events.                                               *)
(*                                                                         *)
(* The properties are not inductive: whether a set is of one moment        *)
(* depends on who is inside the gate while the agent reads, and that on    *)
(* which run shut it.  IInv says all of that, in nine parts.  AgentInv and *)
(* OrderInv tie the collector to its process and to Grom's call; GateInv   *)
(* says who shut the gate and who is alone behind it; StatusInv, that a    *)
(* run under way is not reported as ended; ContentInv, when database and   *)
(* registry agree; CallInv and JobInv, that the agent writes for a run     *)
(* that waits, or writes a set that is excused; PlacesInv and BootInv,     *)
(* that a restored database has its marker until a boot has ended.         *)
(*                                                                         *)
(* There is a lemma for every part and every group of actions.             *)
(***************************************************************************)
EXTENDS Operations, TLAPS

-----------------------------------------------------------------------------
(***************************************************************************)
(* The agent of the collector                                              *)
(***************************************************************************)
\* A collection and a start belong to an agent that runs; nothing but a start
\* that failed, or an exit that is reported, leaves a serving agent without a
\* process that it means to keep.
AgentInv ==
  /\ AgentTypeOK
  /\ collection # "idle" => agent = "serve"
  /\ start # "idle" => agent = "boot" \/ collection = "restart"
  /\ collection = "collect" => slot = "empty"
  /\ start = "ready" => slot # "stopping"
  /\ agent = "serve" /\ collection = "idle" /\ slot # "held" => fatal \/ reported

\* Grom waits for the answer to what it sent.
OrderInv == order \in {"sent", "done", "failed"} => gc = "wait"

(***************************************************************************)
(* The gate                                                                *)
(***************************************************************************)
RunPhases == {"idle", "asked", "quiesce", "drain", "checkpoint", "create", "wait", "record",
              "close"}
InGate == {"drain", "checkpoint", "create", "wait", "record", "close"}
Granted == InGate \ {"drain"}

\* Who shut it, and that who was granted it is alone with the content.
GateInv ==
  /\ run \in [Runs -> RunPhases] /\ gc \in {"idle", "drain", "granted", "wait"}
  /\ write \in {"idle", "begun", "copied"}
  /\ inside \subseteq {Writer} /\ exclusive \in BOOLEAN /\ closer \in {Nobody, Backup, Collector}
  /\ (closer = Collector) <=> (gc # "idle")
  /\ (closer = Backup) <=> \E r \in Runs : run[r] \in InGate
  /\ \A r, q \in Runs : run[r] \in InGate /\ run[q] \in InGate => r = q
  /\ \A r \in Runs : run[r] \in Granted => inside = {}
  /\ gc \in {"granted", "wait"} => inside = {}
  /\ write # "idle" => inside = {Writer}
  /\ grom # "up" => gc = "idle" /\ write = "idle" /\ \A r \in Runs : run[r] = "idle"

(***************************************************************************)
(* The manager's status                                                    *)
(***************************************************************************)
Early == {"quiesce", "drain", "checkpoint", "create", "wait", "record"}
Final == {"complete", "failed"}

StatusInv ==
  /\ last \in Runs \cup {Nobody} /\ status \in Statuses /\ deleting \in BOOLEAN
  /\ \A r \in Runs : run[r] \in Early /\ last = r => status \notin Final
  /\ deleting => status \in Final
  /\ events \in 0 .. MaxEvents

(***************************************************************************)
(* The content, the sets and who writes them                               *)
(***************************************************************************)
Versions == 0 .. MaxWrites
Call == [state : {"none", "queued", "running", "ok", "failed"}, orphan : BOOLEAN]
Work == [op : {"none", "registry", "publish", "remove"},
         caller : Runs \cup {Deletion, Nobody}, set : Sets \cup {Nobody}]
BackupSet == [phase : {"none", "partial", "listed", "tombstone", "litter"},
              db : Versions, registry : Versions, excused : BOOLEAN]

\* The database and the registry differ only while a write is between them;
\* the dump that a backup reads is of its own checkpoint.
ContentInv ==
  /\ kind \in {"sqlite", "postgres"} /\ {dbAt, registryAt, dump} \subseteq Versions
  /\ grom # "down" /\ write # "copied" => dbAt = registryAt
  /\ kind = "postgres" => \A r \in Runs : run[r] \in {"create", "wait"} => dump = dbAt

\* A call that was not left behind has its run waiting for it.
CallInv ==
  /\ call \in [Runs \cup {Deletion} -> Call]
  /\ \A r \in Runs : call[r].state # "none" /\ ~call[r].orphan => run[r] = "wait"

\* What the agent writes is of one moment, or is excused.
JobInv ==
  /\ job \in Work /\ sets \in [Sets -> BackupSet]
  /\ job.op = "none" <=> job.set = Nobody
  /\ job.op \in {"registry", "publish"} =>
       /\ job.caller \in Runs
       /\ sets[job.set].phase = "partial" /\ call[job.caller].state = "running"
       /\ call[job.caller].orphan => sets[job.set].excused
  /\ job.op = "remove" => job.caller = Deletion
  /\ job.op = "registry" /\ ~sets[job.set].excused => sets[job.set].db = registryAt
  /\ job.op = "publish" /\ ~sets[job.set].excused => sets[job.set].db = sets[job.set].registry
  /\ BackupsConsistent

(***************************************************************************)
(* Recoveries and boots                                                    *)
(***************************************************************************)
Restoring == {"staging", "extracted", "moving"}
Moved == {Moves(kind)[i] : i \in 1 .. restore.moved}

PlacesInv ==
  /\ grom \in {"up", "down", "boot", "record", "consume"} /\ mode \in {"normal", "recovery"}
  /\ mode = "recovery" => grom = "down"
  /\ placed \subseteq Pieces
  /\ restore \in [phase : Restoring \cup {"idle", "back", "dirty"}, set : Sets \cup {Nobody},
                 moved : 0 .. 5, stuck : BOOLEAN]
  /\ restore.phase = "back" => mode = "recovery"
  /\ restore.phase \in Restoring =>
       mode = "recovery" /\ restore.set \in Sets /\ placed \subseteq Moved \cup {"database"}
  /\ restore.phase \in {"staging", "extracted"} => restore.moved = 0
  /\ (marker # Nobody) <=> ("marker" \in placed)
  /\ restore.phase = "moving" /\ restore.moved # 0 => marker # Nobody

\* Until a boot has dealt with a restored database, the marker is there.
BootInv ==
  /\ {ephemeral, undone} \subseteq BOOLEAN /\ recorded \in 0 .. 1
  /\ origin # Nobody => "database" \in placed
  /\ origin # Nobody /\ ~undone =>
       /\ marker # Nobody \/ (~ephemeral /\ recorded = 1)
       /\ grom \in {"record", "consume", "up"} => ~ephemeral
       /\ grom \in {"consume", "up"} => recorded = 1
       /\ grom = "up" => marker = Nobody

IInv ==
  /\ AgentInv /\ OrderInv /\ GateInv /\ StatusInv
  /\ ContentInv /\ CallInv /\ JobInv
  /\ PlacesInv /\ BootInv

-----------------------------------------------------------------------------
(***************************************************************************)
(* Steps of the agent of the collector                                     *)
(***************************************************************************)
\* What a start that returned leaves.
LEMMA ReturnKeeps ==
  ASSUME AgentInv, OrderInv, gc' = gc, NEW failed \in BOOLEAN, StartReturns(failed),
         start # "idle", UNCHANGED <<child, slot, fatal>>,
         failed \/ slot = "held"
  PROVE  AgentInv' /\ OrderInv'
BY DEF AgentInv, AgentTypeOK, StartReturns, Answer, OrderInv

LEMMA StartKeeps ==
  ASSUME AgentInv, OrderInv, gc' = gc,
         FindProcess \/ StartTimesOut \/ Spawn \/ SpawnFails \/ SeeReady \/ TakeFatal
           \/ NotReadyInTime \/ CleanedUp
  PROVE  AgentInv' /\ OrderInv'
<1>1. CASE FindProcess
  BY <1>1, ReturnKeeps DEF FindProcess
<1>2. CASE StartTimesOut \/ SpawnFails \/ CleanedUp
  BY <1>2, ReturnKeeps DEF StartTimesOut, SpawnFails, CleanedUp
<1>3. CASE SeeReady
  <2>1. slot = "held"
    BY <1>3 DEF SeeReady, AgentInv, AgentTypeOK
  <2> QED
    BY <1>3, <2>1, ReturnKeeps DEF SeeReady
<1>4. CASE Spawn
  BY <1>4 DEF Spawn, AgentInv, AgentTypeOK, OrderInv
<1>5. CASE TakeFatal \/ NotReadyInTime
  BY <1>5 DEF TakeFatal, NotReadyInTime, CleanUp, AgentInv, AgentTypeOK, OrderInv
<1> QED
  BY <1>1, <1>2, <1>3, <1>4, <1>5

LEMMA CollectKeeps ==
  ASSUME AgentInv, OrderInv, gc' = gc,
         Collect \/ MeasureFails \/ RunCollector \/ StopTimesOut \/ CollectorEnds \/ CollectorFails
  PROVE  AgentInv' /\ OrderInv'
<1>1. CASE Collect
  BY <1>1 DEF Collect, AgentInv, AgentTypeOK, OrderInv
<1>2. CASE MeasureFails
  BY <1>2 DEF MeasureFails, Answer, AgentInv, AgentTypeOK, OrderInv
<1>3. CASE RunCollector
  BY <1>3 DEF RunCollector, Stopped, AgentInv, AgentTypeOK, OrderInv
<1>4. CASE StopTimesOut \/ CollectorEnds \/ CollectorFails
  BY <1>4 DEF StopTimesOut, CollectorEnds, CollectorFails, Restart, AgentInv, AgentTypeOK, OrderInv
<1> QED
  BY <1>1, <1>2, <1>3, <1>4

LEMMA AgentKeeps ==
  ASSUME AgentInv, OrderInv, gc' = gc, AgentRuns \/ AgentTrouble
  PROVE  AgentInv' /\ OrderInv'
<1>1. CASE BecomeReady \/ ChildEnds \/ ChildStops
  BY <1>1 DEF BecomeReady, ChildEnds, ChildStops, AgentInv, AgentTypeOK, OrderInv
<1>2. CASE Reap
  BY <1>2 DEF Reap, AgentInv, AgentTypeOK, OrderInv
<1>3. CASE SeeFatal \/ AgentStops
  BY <1>3 DEF SeeFatal, AgentStops, AgentEnds, Answer, AgentInv, AgentTypeOK, OrderInv
<1>4. CASE BootFails
  BY <1>4 DEF BootFails, AgentEnds, AgentInv, AgentTypeOK, OrderInv
<1>5. CASE AgentBoots
  BY <1>5 DEF AgentBoots, AgentInv, AgentTypeOK, OrderInv
<1> QED
  BY <1>1, <1>2, <1>3, <1>4, <1>5, StartKeeps, CollectKeeps DEF AgentRuns, AgentTrouble

-----------------------------------------------------------------------------
(***************************************************************************)
(* The gate                                                                *)
(***************************************************************************)
LEMMA Names == Backup # Collector /\ Nobody \notin {Backup, Collector}
BY BackupsAssumption, OperationsAssumption

\* A run of the manager moves, and only while Grom is there.
LEMMA RunMoves ==
  ASSUME GateInv, NEW r \in Runs, NEW p \in RunPhases, At(r, p), run[r] # p,
         grom # "up" => UNCHANGED run
  PROVE  /\ run' \in [Runs -> RunPhases] /\ run'[r] = p
         /\ \A q \in Runs \ {r} : run'[q] = run[q]
         /\ grom = "up"
<1>1. /\ run' \in [Runs -> RunPhases] /\ run'[r] = p
      /\ \A q \in Runs \ {r} : run'[q] = run[q]
  BY DEF GateInv, At
<1> QED
  BY <1>1

\* Before the gate, or refused there.
LEMMA GateBefore ==
  ASSUME GateInv, NEW r \in Runs, NEW p \in {"idle", "asked", "quiesce"}, At(r, p),
         run[r] \in {"idle", "asked", "quiesce"}, run[r] # p, grom # "up" => UNCHANGED run,
         UNCHANGED <<gateVars, gc, write, grom>>
  PROVE  GateInv'
<1>1. /\ run' \in [Runs -> RunPhases] /\ run'[r] = p
      /\ \A q \in Runs \ {r} : run'[q] = run[q]
      /\ grom = "up"
  BY RunMoves DEF RunPhases
<1>2. \A q \in Runs : /\ run'[q] \in InGate <=> run[q] \in InGate
                      /\ run'[q] \in Granted => run[q] \in Granted
  BY <1>1 DEF InGate, Granted
<1> QED
  BY <1>1, <1>2 DEF GateInv, gateVars

LEMMA GateShut ==
  ASSUME GateInv, NEW r \in Runs, Shut(Backup), At(r, "drain"), run[r] = "quiesce",
         grom # "up" => UNCHANGED run, UNCHANGED <<gc, write, grom>>
  PROVE  GateInv'
<1>1. /\ run' \in [Runs -> RunPhases] /\ run'[r] = "drain"
      /\ \A q \in Runs \ {r} : run'[q] = run[q]
      /\ grom = "up"
  BY RunMoves DEF RunPhases
<1>2. closer = Nobody /\ closer' = Backup /\ inside' = inside /\ exclusive' = exclusive
  BY DEF Shut
<1>3. \A q \in Runs : run[q] \notin InGate
  BY <1>2, Names DEF GateInv
<1>4. \A q \in Runs : (run'[q] \in InGate <=> q = r) /\ run'[q] \notin Granted
  BY <1>1, <1>3 DEF InGate, Granted
<1> QED
  BY <1>1, <1>2, <1>4, Names DEF GateInv

\* Inside, from phase to phase, with nobody else there.
LEMMA GateInside ==
  ASSUME GateInv, NEW r \in Runs, NEW p \in Granted, At(r, p), run[r] \in InGate, run[r] # p,
         inside = {}, inside' = inside, closer' = closer, exclusive' \in BOOLEAN,
         grom # "up" => UNCHANGED run, UNCHANGED <<gc, write, grom>>
  PROVE  GateInv'
<1>1. /\ run' \in [Runs -> RunPhases] /\ run'[r] = p
      /\ \A q \in Runs \ {r} : run'[q] = run[q]
      /\ grom = "up"
  BY RunMoves DEF RunPhases, Granted, InGate
<1>2. \A q \in Runs : run'[q] \in InGate <=> run[q] \in InGate
  BY <1>1 DEF Granted
<1> QED
  BY <1>1, <1>2 DEF GateInv

LEMMA GateReopened ==
  ASSUME GateInv, NEW r \in Runs, Reopen(Backup), At(r, "idle"), run[r] \in InGate,
         grom # "up" => UNCHANGED run, UNCHANGED <<gc, write, grom>>
  PROVE  GateInv'
<1>1. /\ run' \in [Runs -> RunPhases] /\ run'[r] = "idle"
      /\ \A q \in Runs \ {r} : run'[q] = run[q]
      /\ grom = "up"
  BY RunMoves DEF RunPhases, InGate
<1>2. closer = Backup /\ closer' = Nobody /\ inside' = inside /\ exclusive' = FALSE
  BY DEF Reopen
<1>3. \A q \in Runs : run'[q] \notin InGate
  BY <1>1 DEF GateInv, InGate
<1>4. \A q \in Runs : run'[q] \notin Granted
  BY <1>3 DEF Granted
<1> QED
  BY <1>1, <1>2, <1>3, <1>4, Names DEF GateInv

LEMMA GateOfRun ==
  ASSUME GateInv, NEW r \in Runs, grom # "up" => UNCHANGED run, UNCHANGED <<gc, write, grom>>,
         RequestBackup(r) \/ Start(r) \/ Quiesce(r) \/ Drained(r) \/ Checkpoint(r) \/ CallAgent(r)
           \/ Answered(r) \/ Record(r) \/ Close(r)
  PROVE  GateInv'
<1>1. CASE RequestBackup(r)
  BY <1>1, GateBefore DEF RequestBackup, Ask
<1>2. CASE Start(r)
  BY <1>2, GateBefore DEF Start
<1>3. CASE Quiesce(r)
  <2>1. CASE closer = Nobody
    BY <1>3, <2>1, GateShut DEF Quiesce
  <2>2. CASE closer # Nobody
    BY <1>3, <2>2, GateBefore DEF Quiesce
  <2> QED
    BY <2>1, <2>2
<1>4. CASE Drained(r)
  <2>1. run[r] = "drain" /\ run[r] \in InGate
    BY <1>4 DEF Drained, InGate
  <2>2. CASE Grant(Backup) /\ At(r, "checkpoint")
    BY <2>1, <2>2, GateInside DEF Grant, Granted, InGate
  <2>3. CASE Reopen(Backup) /\ At(r, "idle")
    BY <2>1, <2>3, GateReopened
  <2> QED
    BY <1>4, <2>2, <2>3 DEF Drained
<1>5. CASE Checkpoint(r) \/ CallAgent(r) \/ Answered(r) \/ Record(r)
  <2>1. /\ run[r] \in {"checkpoint", "create", "wait", "record"} /\ UNCHANGED gateVars
        /\ \E p \in {"create", "wait", "record", "close"} : p # run[r] /\ At(r, p)
    BY <1>5 DEF Checkpoint, CallAgent, Answered, Record
  <2>2. PICK p \in {"create", "wait", "record", "close"} : p # run[r] /\ At(r, p)
    BY <2>1
  <2>3. p \in Granted /\ run[r] \in InGate /\ run[r] \in Granted
    BY <2>1 DEF Granted, InGate
  <2>4. inside = {} /\ inside' = inside /\ closer' = closer /\ exclusive' \in BOOLEAN
    BY <2>1, <2>3 DEF GateInv, gateVars
  <2> QED
    BY <2>2, <2>3, <2>4, GateInside
<1>6. CASE Close(r)
  BY <1>6, GateReopened DEF Close, InGate
<1> QED
  BY <1>1, <1>2, <1>3, <1>4, <1>5, <1>6

\* Steps that move no run, no collection and no write.
LEMMA GateStays ==
  ASSUME GateInv, UNCHANGED <<gateVars, run, gc, write>>, grom = "up" => grom' = "up"
  PROVE  GateInv'
BY DEF GateInv, gateVars

LEMMA GateOfWrite ==
  ASSUME GateInv, BeginWrite \/ WriteRegistry \/ WriteDatabase \/ WriteFails
  PROVE  GateInv'
<1>1. CASE BeginWrite
  <2>1. /\ closer = Nobody /\ inside' = inside \cup {Writer} /\ closer' = closer
        /\ exclusive' = exclusive /\ write' = "begun" /\ grom = "up"
        /\ UNCHANGED <<run, gc, grom>>
    BY <1>1 DEF BeginWrite, Admit, Elsewhere, manager, recoveryVars
  <2>2. gc = "idle" /\ \A r \in Runs : run[r] \notin Granted
    BY <2>1, Names DEF GateInv, Granted
  <2> QED
    BY <2>1, <2>2, Names DEF GateInv
<1>2. CASE WriteRegistry
  BY <1>2 DEF WriteRegistry, Elsewhere, manager, recoveryVars, gateVars, GateInv
<1>3. CASE WriteDatabase \/ WriteFails
  BY <1>3 DEF WriteDatabase, WriteFails, EndWrite, Depart, Elsewhere, manager, recoveryVars, GateInv
<1> QED
  BY <1>1, <1>2, <1>3

LEMMA GateOfCollection ==
  ASSUME GateInv, OrderInv, AgentInv,
         BeginCollection \/ CollectionDrained \/ SendOrder \/ CollectionAnswered
           \/ CollectionAbandoned
  PROVE  GateInv' /\ OrderInv' /\ AgentInv'
<1>1. CASE BeginCollection
  <2>1. /\ closer = Nobody /\ closer' = Collector /\ inside' = inside /\ exclusive' = exclusive
        /\ gc = "idle" /\ gc' = "drain" /\ grom = "up" /\ UNCHANGED <<run, write, grom, agentVars>>
    BY <1>1 DEF BeginCollection, Shut, manager, recoveryVars
  <2>2. \A r \in Runs : run[r] \notin InGate
    BY <2>1, Names DEF GateInv
  <2>3. GateInv'
    BY <2>1, <2>2, Names DEF GateInv
  <2> QED
    BY <2>1, <2>3 DEF OrderInv, AgentInv, AgentTypeOK, agentVars
<1>2. CASE CollectionDrained
  <2>1. /\ inside = {} /\ inside' = inside /\ closer' = closer /\ exclusive' = TRUE
        /\ gc = "drain" /\ gc' = "granted" /\ UNCHANGED <<run, write, grom, agentVars>>
    BY <1>2 DEF CollectionDrained, Grant, OutsideAgent, backupVars, manager, recoveryVars
  <2>2. GateInv'
    BY <2>1 DEF GateInv
  <2> QED
    BY <2>1, <2>2 DEF OrderInv, AgentInv, AgentTypeOK, agentVars
<1>3. CASE SendOrder
  <2>1. /\ gc = "granted" /\ gc' = "wait" /\ order' = "sent" /\ QuietAgent
        /\ UNCHANGED <<gateVars, run, write, grom>>
    BY <1>3 DEF SendOrder, OutsideAgent, backupVars, manager, recoveryVars
  <2>2. GateInv'
    BY <2>1 DEF GateInv, gateVars
  <2> QED
    BY <2>1, <2>2 DEF OrderInv, AgentInv, AgentTypeOK, QuietAgent
<1>4. CASE CollectionAnswered \/ CollectionAbandoned
  <2>1. /\ closer = Collector /\ closer' = Nobody /\ inside' = inside /\ exclusive' = FALSE
        /\ gc # "idle" /\ gc' = "idle" /\ QuietAgent /\ UNCHANGED <<run, write, grom>>
        /\ order' \in {order, "left", "none"} /\ order' \notin {"sent", "done", "failed"}
    BY <1>4 DEF CollectionAnswered, CollectionAbandoned, Reopen, OutsideAgent, backupVars,
                manager, recoveryVars, OrderInv
  <2>2. \A r \in Runs : run[r] \notin InGate
    BY <2>1, Names DEF GateInv
  <2>3. GateInv'
    BY <2>1, <2>2, Names DEF GateInv, Granted
  <2> QED
    BY <2>1, <2>3 DEF OrderInv, AgentInv, AgentTypeOK, QuietAgent
<1> QED
  BY <1>1, <1>2, <1>3, <1>4

LEMMA GateOfStop ==
  ASSUME GateInv, OrderInv, AgentInv, GromStops
  PROVE  GateInv' /\ OrderInv' /\ AgentInv'
<1>1. /\ inside' = {} /\ closer' = Nobody /\ exclusive' = FALSE /\ write' = "idle" /\ gc' = "idle"
      /\ grom' = "down" /\ run' = [r \in Runs |-> "idle"] /\ QuietAgent
      /\ order' = IF order = "sent" THEN "left" ELSE IF gc = "wait" THEN "none" ELSE order
  BY DEF GromStops, ManagerStops
<1>2. GateInv'
  BY <1>1, Names DEF GateInv, RunPhases, InGate, Granted
<1> QED
  BY <1>1, <1>2 DEF OrderInv, AgentInv, AgentTypeOK, QuietAgent

-----------------------------------------------------------------------------
(***************************************************************************)
(* The manager's status                                                    *)
(***************************************************************************)
LEMMA EventsBounded ==
  ASSUME StatusInv, Event \/ UNCHANGED events
  PROVE  events' \in 0 .. MaxEvents
<1>1. MaxEvents \in Nat /\ events \in 0 .. MaxEvents
  BY BackupsAssumption DEF StatusInv
<1> QED
  BY <1>1 DEF Event

\* A run moves, and its status with it, which only the last one's writes.
LEMMA StatusMoves ==
  ASSUME StatusInv, GateInv, NEW r \in Runs, NEW p \in RunPhases, At(r, p),
         UNCHANGED <<last, deleting>>, Event \/ UNCHANGED events,
         \/ status' = status /\ (p \in Early => run[r] \in Early)
         \/ /\ run[r] \in Early
            /\ \E next \in Statuses : Status(r, next) /\ (p \in Early => next \notin Final)
  PROVE  StatusInv'
<1>1. /\ run'[r] = p /\ \A q \in Runs \ {r} : run'[q] = run[q]
      /\ events' \in 0 .. MaxEvents
  BY EventsBounded DEF GateInv, At
<1>2. CASE status' = status /\ (p \in Early => run[r] \in Early)
  BY <1>1, <1>2 DEF StatusInv
<1>3. CASE /\ run[r] \in Early
           /\ \E next \in Statuses : Status(r, next) /\ (p \in Early => next \notin Final)
  <2>1. PICK next \in Statuses : Status(r, next) /\ (p \in Early => next \notin Final)
    BY <1>3
  <2>2. CASE last = r
    <3>1. status' = next /\ ~deleting
      BY <1>3, <2>1, <2>2 DEF StatusInv, Status
    <3> QED
      BY <1>1, <2>1, <2>2, <3>1 DEF StatusInv
  <2>3. CASE last # r
    BY <1>1, <2>1, <2>3 DEF StatusInv, Status
  <2> QED
    BY <2>2, <2>3
<1> QED
  BY <1>2, <1>3

LEMMA StatusOfRun ==
  ASSUME StatusInv, GateInv, NEW r \in Runs,
         RequestBackup(r) \/ Start(r) \/ Quiesce(r) \/ Drained(r) \/ Checkpoint(r) \/ CallAgent(r)
           \/ Answered(r) \/ Record(r) \/ Close(r)
  PROVE  StatusInv'
<1> USE DEF RunPhases, Early, Final, Statuses
<1>1. CASE RequestBackup(r)
  BY <1>1, StatusMoves DEF RequestBackup, Ask
<1>2. CASE Start(r)
  <2>1. CASE Busy
    BY <1>2, <2>1, StatusMoves DEF Start
  <2>2. CASE ~Busy
    <3>1. /\ last' = r /\ status' = "starting" /\ ~deleting /\ deleting' = deleting
          /\ events' = events
      BY <1>2, <2>2 DEF Start, Busy
    <3> QED
      BY <3>1 DEF StatusInv
  <2> QED
    BY <2>1, <2>2
<1>3. CASE Quiesce(r)
  BY <1>3, StatusMoves DEF Quiesce
<1>4. CASE Drained(r)
  BY <1>4, StatusMoves DEF Drained
<1>5. CASE Checkpoint(r)
  BY <1>5, StatusMoves DEF Checkpoint
<1>6. CASE CallAgent(r) \/ Close(r)
  BY <1>6, StatusMoves DEF CallAgent, Close
<1>7. CASE Answered(r)
  BY <1>7, StatusMoves DEF Answered
<1>8. CASE Record(r)
  BY <1>8, StatusMoves DEF Record
<1> QED
  BY <1>1, <1>2, <1>3, <1>4, <1>5, <1>6, <1>7, <1>8

LEMMA StatusStays ==
  ASSUME StatusInv, UNCHANGED manager, Event \/ UNCHANGED events
  PROVE  StatusInv'
BY EventsBounded DEF StatusInv, manager

LEMMA StatusOfDeletion ==
  ASSUME StatusInv, RequestDeletion \/ Deleted
  PROVE  StatusInv'
BY EventsBounded DEF StatusInv, RequestDeletion, Delete, Deleted, Busy, Final

LEMMA StatusOfStop ==
  ASSUME StatusInv, GromStops
  PROVE  StatusInv'
<1>1. /\ run' = [r \in Runs |-> "idle"] /\ last' = Nobody /\ status' = "complete"
      /\ deleting' = FALSE /\ Event
  BY DEF GromStops, ManagerStops
<1> QED
  BY <1>1, EventsBounded DEF StatusInv, Early, Final, Statuses

-----------------------------------------------------------------------------
(***************************************************************************)
(* The content                                                             *)
(***************************************************************************)
\* Whoever reads or copies the content for a backup has it to itself.
LEMMA Frozen ==
  ASSUME GateInv, ContentInv, NEW r \in Runs, run[r] \in Granted
  PROVE  grom = "up" /\ write = "idle" /\ dbAt = registryAt /\ inside = {}
BY DEF GateInv, ContentInv, Granted, InGate

LEMMA ContentOfRun ==
  ASSUME ContentInv, GateInv, NEW r \in Runs, UNCHANGED <<grom, write>>,
         RequestBackup(r) \/ Start(r) \/ Quiesce(r) \/ Drained(r) \/ Checkpoint(r) \/ CallAgent(r)
           \/ Answered(r) \/ Record(r) \/ Close(r)
  PROVE  ContentInv'
<1>1. CASE ~Checkpoint(r)
  <2>1. UNCHANGED <<content, dump>>
    BY <1>1 DEF RequestBackup, Start, Quiesce, Drained, CallAgent, Answered, Record, Close
  <2>2. \A q \in Runs : run'[q] \in {"create", "wait"} => run[q] \in {"create", "wait"}
    BY <1>1 DEF GateInv, At, RequestBackup, Ask, Start, Quiesce, Drained, CallAgent, Answered,
                Record, Close
  <2> QED
    BY <2>1, <2>2 DEF ContentInv, content
<1>2. CASE Checkpoint(r)
  <2>1. /\ UNCHANGED content /\ dump' \in {dump, dbAt} /\ run[r] = "checkpoint"
        /\ \/ dump' = IF kind = "postgres" THEN dbAt ELSE dump
           \/ At(r, "close")
    BY <1>2 DEF Checkpoint
  <2>2. \A q \in Runs \ {r} : run'[q] = run[q] /\ run'[q] \notin {"create", "wait"}
    BY <1>2, <2>1 DEF Checkpoint, At, GateInv, InGate
  <2>3. kind = "postgres" /\ run'[r] \in {"create", "wait"} => dump' = dbAt
    BY <2>1 DEF At, GateInv
  <2> QED
    BY <2>1, <2>2, <2>3 DEF ContentInv, content
<1> QED
  BY <1>1, <1>2

LEMMA ContentStays ==
  ASSUME ContentInv, UNCHANGED <<content, dump, run, write>>, grom' = "down" \/ grom # "down"
  PROVE  ContentInv'
BY DEF ContentInv, content

LEMMA ContentOfWrite ==
  ASSUME ContentInv, GateInv, BeginWrite \/ WriteRegistry \/ WriteDatabase \/ WriteFails
  PROVE  ContentInv'
<1>1. CASE BeginWrite \/ WriteFails
  BY <1>1 DEF BeginWrite, WriteFails, EndWrite, Elsewhere, ContentInv, GateInv, manager,
              recoveryVars
<1>2. CASE WriteRegistry
  <2>1. registryAt' \in Versions
    BY <1>2, OperationsAssumption DEF WriteRegistry, ContentInv, Versions
  <2>2. write' = "copied" /\ UNCHANGED <<dbAt, dump, kind, run, grom>>
    BY <1>2 DEF WriteRegistry, Elsewhere, manager, recoveryVars
  <2> QED
    BY <2>1, <2>2 DEF ContentInv
<1>3. CASE WriteDatabase
  <2>1. write = "copied" /\ dbAt' = registryAt /\ UNCHANGED <<registryAt, dump, kind, run, grom>>
    BY <1>3 DEF WriteDatabase, EndWrite, Elsewhere, manager, recoveryVars
  <2>2. \A r \in Runs : run[r] \notin {"create", "wait"}
    BY <2>1, Frozen DEF Granted, InGate
  <2> QED
    BY <2>1, <2>2 DEF ContentInv
<1> QED
  BY <1>1, <1>2, <1>3

-----------------------------------------------------------------------------
(***************************************************************************)
(* Calls, and what the agent of the backups writes                         *)
(***************************************************************************)
LEMMA NoneOK ==
  /\ NoCall \in Call /\ NoCall.state = "none" /\ ~NoCall.orphan
  /\ NoJob.op = "none" /\ NoJob.set = Nobody /\ NoJob \in Work
BY DEF NoCall, Call, NoJob, Work

LEMMA NoSetOK ==
  NoSet \in BackupSet /\ NoSet.phase = "none" /\ NoSet.db = NoSet.registry
<1>1. 0 \in Versions
  BY OperationsAssumption DEF Versions
<1> QED
  BY <1>1 DEF NoSet, BackupSet

\* One call becomes x.
LEMMA CallBecomes ==
  ASSUME CallInv, NEW c \in Runs \cup {Deletion}, NEW x \in Call,
         call' = [call EXCEPT ![c] = x],
         c \in Runs /\ x.state # "none" /\ ~x.orphan => run'[c] = "wait",
         \A r \in Runs \ {c} : run[r] = "wait" => run'[r] = "wait"
  PROVE  CallInv' /\ call'[c] = x /\ \A b \in (Runs \cup {Deletion}) \ {c} : call'[b] = call[b]
BY DEF CallInv

\* Its state alone changes.
LEMMA CallState ==
  ASSUME CallInv, NEW c \in Runs \cup {Deletion},
         NEW s \in {"none", "queued", "running", "ok", "failed"}
  PROVE  LET x == [call[c] EXCEPT !.state = s]
         IN x \in Call /\ x.state = s /\ x.orphan = call[c].orphan
BY DEF CallInv, Call

\* What the agent has under way does not see other callers.
LEMMA JobStays ==
  ASSUME JobInv, UNCHANGED <<job, sets, registryAt>>,
         job.op \in {"registry", "publish"} => call'[job.caller] = call[job.caller]
  PROVE  JobInv'
BY DEF JobInv, BackupsConsistent, Listed

LEMMA CallsOfRun ==
  ASSUME CallInv, JobInv, GateInv, NEW r \in Runs,
         RequestBackup(r) \/ Start(r) \/ Quiesce(r) \/ Drained(r) \/ Checkpoint(r) \/ CallAgent(r)
           \/ Answered(r) \/ Record(r) \/ Close(r)
  PROVE  CallInv' /\ JobInv'
<1>1. CASE ~CallAgent(r) /\ ~Answered(r)
  <2>1. UNCHANGED <<call, job, sets, registryAt>> /\ run[r] # "wait"
    BY <1>1 DEF RequestBackup, Start, Quiesce, Drained, Checkpoint, Record, Close, volume, content
  <2>2. \A q \in Runs : run[q] = "wait" => run'[q] = "wait"
    BY <1>1, <2>1 DEF GateInv, At, RequestBackup, Ask, Start, Quiesce, Drained, Checkpoint, Record,
                      Close
  <2>3. CallInv'
    BY <2>1, <2>2 DEF CallInv
  <2> QED
    BY <2>1, <2>3, JobStays
<1>2. CASE CallAgent(r)
  <2>1. /\ call[r] = NoCall /\ At(r, "wait") /\ UNCHANGED <<job, sets, registryAt>>
        /\ call' = [call EXCEPT ![r] = [call[r] EXCEPT !.state = "queued"]]
    BY <1>2 DEF CallAgent, content
  <2>2. run'[r] = "wait" /\ \A q \in Runs \ {r} : run'[q] = run[q]
    BY <2>1 DEF GateInv, At
  <2>3. CallInv' /\ \A b \in (Runs \cup {Deletion}) \ {r} : call'[b] = call[b]
    BY <2>1, <2>2, CallState, CallBecomes
  <2>4. job.op \in {"registry", "publish"} => job.caller \in Runs \ {r}
    BY <2>1, NoneOK DEF JobInv
  <2> QED
    BY <2>1, <2>3, <2>4, JobStays
<1>3. CASE Answered(r)
  <2>1. /\ call[r].state \in {"ok", "failed"} /\ UNCHANGED <<job, sets, registryAt>>
        /\ call' = [call EXCEPT ![r] = NoCall]
        /\ At(r, "record") \/ At(r, "close")
    BY <1>3 DEF Answered, content
  <2>2. \A q \in Runs \ {r} : run'[q] = run[q]
    BY <2>1 DEF GateInv, At
  <2>3. CallInv' /\ \A b \in (Runs \cup {Deletion}) \ {r} : call'[b] = call[b]
    BY <2>1, <2>2, NoneOK, CallBecomes
  <2>4. job.op \in {"registry", "publish"} => job.caller \in Runs \ {r}
    BY <2>1 DEF JobInv
  <2> QED
    BY <2>1, <2>3, <2>4, JobStays
<1> QED
  BY <1>1, <1>2, <1>3

LEMMA CallsOfDeletion ==
  ASSUME CallInv, JobInv, RequestDeletion \/ Deleted \/ NoSuchSet
  PROVE  CallInv' /\ JobInv'
<1>1. /\ UNCHANGED <<job, sets, registryAt, run>>
      /\ \E x \in Call : call' = [call EXCEPT ![Deletion] = x]
  <2>1. CASE RequestDeletion
    BY <2>1, CallState DEF RequestDeletion, Delete, content
  <2>2. CASE Deleted
    <3>1. [call[Deletion] EXCEPT !.orphan = TRUE] \in Call
      BY DEF CallInv, Call
    <3> QED
      BY <2>2, <3>1, NoneOK DEF Deleted, content
  <2>3. CASE NoSuchSet
    <3>1. [call[Deletion] EXCEPT !.state = "failed"] \in Call
      BY CallState
    <3> QED
      BY <2>3, <3>1, NoneOK DEF NoSuchSet, content, manager
  <2> QED
    BY <2>1, <2>2, <2>3
<1>2. PICK x \in Call : call' = [call EXCEPT ![Deletion] = x]
  BY <1>1
<1>3. Deletion \notin Runs
  BY BackupsAssumption
<1>4. CallInv' /\ \A b \in (Runs \cup {Deletion}) \ {Deletion} : call'[b] = call[b]
  BY <1>1, <1>2, <1>3, CallBecomes
<1>5. job.op \in {"registry", "publish"} => job.caller \in Runs
  BY DEF JobInv
<1> QED
  BY <1>1, <1>3, <1>4, <1>5, JobStays

\* The agent begins with a call.
LEMMA Accepted ==
  ASSUME CallInv, JobInv, NEW c \in Runs \cup {Deletion}, NEW op, NEW s, Accept(c, op, s),
         UNCHANGED run
  PROVE  /\ CallInv' /\ call[c].state = "queued" /\ job.op = "none"
         /\ job' = [op |-> op, caller |-> c, set |-> s]
         /\ call'[c].state = "running" /\ call'[c].orphan = call[c].orphan
<1>1. /\ job = NoJob /\ call[c].state = "queued"
      /\ job' = [op |-> op, caller |-> c, set |-> s]
      /\ call' = [call EXCEPT ![c] = [call[c] EXCEPT !.state = "running"]]
  BY DEF Accept
<1> DEFINE x == [call[c] EXCEPT !.state = "running"]
<1>2. x \in Call /\ x.state = "running" /\ x.orphan = call[c].orphan
  BY CallState
<1>3. c \in Runs /\ ~x.orphan => run'[c] = "wait"
  BY <1>1, <1>2 DEF CallInv
<1> HIDE DEF x
<1>4. CallInv' /\ call'[c] = x
  BY <1>1, <1>2, <1>3, CallBecomes DEF x
<1> QED
  BY <1>1, <1>2, <1>4, NoneOK

\* It answers whoever waits.
LEMMA Finished ==
  ASSUME CallInv, JobInv, NEW result \in {"ok", "failed"}, Finish(result), UNCHANGED run,
         job.op # "none"
  PROVE  CallInv' /\ job' = NoJob
<1>1. job.caller \in Runs \cup {Deletion}
  BY DEF JobInv, Work
<1>2. PICK c, x : /\ c = job.caller
                  /\ x = IF call[c].orphan THEN NoCall ELSE [call[c] EXCEPT !.state = result]
  OBVIOUS
<1>3. call' = [call EXCEPT ![c] = x] /\ job' = NoJob
  BY <1>2 DEF Finish
<1>4. x \in Call
  BY <1>1, <1>2, CallState, NoneOK
<1>5. c \in Runs /\ x.state # "none" /\ ~x.orphan => run'[c] = "wait"
  <2>1. c \in Runs => call[c].state = "running"
    BY <1>2, BackupsAssumption DEF JobInv, Work
  <2> QED
    BY <1>2, <2>1, NoneOK DEF CallInv
<1> QED
  BY <1>1, <1>2, <1>3, <1>4, <1>5, CallBecomes

\* One set becomes x, and is consistent if it is listed.
LEMMA SetBecomes ==
  ASSUME JobInv, NEW s \in Sets, NEW x \in BackupSet, sets' = [sets EXCEPT ![s] = x],
         x.phase = "listed" => x.excused \/ x.db = x.registry
  PROVE  /\ sets' \in [Sets -> BackupSet] /\ sets'[s] = x
         /\ \A q \in Sets \ {s} : sets'[q] = sets[q]
         /\ BackupsConsistent'
BY DEF JobInv, BackupsConsistent, Listed

\* The agent has nothing to do any more.
LEMMA Idle ==
  ASSUME job' = NoJob, sets' \in [Sets -> BackupSet], BackupsConsistent'
  PROVE  JobInv'
BY NoneOK DEF JobInv

LEMMA CreateSetKeeps ==
  ASSUME GateInv, ContentInv, CallInv, JobInv, NEW r \in Runs, NEW s \in Sets, CreateSet(r, s)
  PROVE  CallInv' /\ JobInv'
<1>1. /\ Accept(r, "registry", s) /\ UNCHANGED <<run, registryAt>>
      /\ sets' = [sets EXCEPT ![s] = [phase |-> "partial", registry |-> 0,
                                      db |-> IF kind = "postgres" THEN dump ELSE dbAt,
                                      excused |-> call[r].orphan]]
  BY DEF CreateSet, content, manager
<1>2. PICK x : x = [phase |-> "partial", registry |-> 0,
                    db |-> IF kind = "postgres" THEN dump ELSE dbAt, excused |-> call[r].orphan]
  OBVIOUS
<1>3. /\ CallInv' /\ call[r].state = "queued" /\ job' = [op |-> "registry", caller |-> r, set |-> s]
      /\ call'[r].state = "running" /\ call'[r].orphan = call[r].orphan
  BY <1>1, Accepted
<1>4. x \in BackupSet /\ x.phase = "partial" /\ x.excused = call[r].orphan
  BY <1>2, OperationsAssumption DEF BackupSet, CallInv, Call, ContentInv, Versions
<1>5. ~x.excused => x.db = registryAt
  <2>1. SUFFICES ASSUME ~x.excused PROVE x.db = registryAt
    OBVIOUS
  <2>2. run[r] = "wait"
    BY <1>3, <1>4, <2>1 DEF CallInv
  <2>3. dbAt = registryAt
    BY <2>2, Frozen DEF Granted, InGate
  <2> QED
    BY <1>2, <2>2, <2>3 DEF ContentInv
<1>6. sets' \in [Sets -> BackupSet] /\ sets'[s] = x /\ BackupsConsistent'
  BY <1>1, <1>2, <1>4, SetBecomes
<1>7. job' \in Work /\ job'.op = "registry" /\ job'.caller = r /\ job'.set = s /\ s # Nobody
  BY <1>3, BackupsAssumption DEF Work
<1> QED
  BY <1>1, <1>3, <1>4, <1>5, <1>6, <1>7 DEF JobInv

LEMMA ArchiveKeeps ==
  ASSUME GateInv, ContentInv, CallInv, JobInv, ArchiveRegistry
  PROVE  CallInv' /\ JobInv'
<1>1. PICK s, x : s = job.set /\ x = [sets[s] EXCEPT !.registry = registryAt]
  OBVIOUS
<1>2. /\ job.op = "registry" /\ job' = [job EXCEPT !.op = "publish"]
      /\ sets' = [sets EXCEPT ![s] = x] /\ UNCHANGED <<run, call>>
  BY <1>1 DEF ArchiveRegistry, manager
<1>3. s \in Sets /\ sets[s] \in BackupSet /\ job \in Work
  BY <1>1, <1>2 DEF JobInv, Work
<1>4. x \in BackupSet /\ x.phase = "partial" /\ x.excused = sets[s].excused
      /\ x.db = sets[s].db /\ x.registry = registryAt
  BY <1>1, <1>2, <1>3 DEF BackupSet, JobInv, ContentInv
<1>5. sets' \in [Sets -> BackupSet] /\ sets'[s] = x /\ BackupsConsistent'
  BY <1>2, <1>3, <1>4, SetBecomes
<1>6. job' \in Work /\ job'.op = "publish" /\ job'.caller = job.caller /\ job'.set = s
  BY <1>1, <1>2, <1>3 DEF Work
<1>7. CallInv'
  BY <1>2 DEF CallInv
<1> QED
  BY <1>1, <1>2, <1>4, <1>5, <1>6, <1>7 DEF JobInv

\* The end of a call, whatever becomes of its set.
LEMMA EndKeeps ==
  ASSUME CallInv, JobInv, NEW result \in {"ok", "failed"}, Finish(result), UNCHANGED run,
         job.op # "none", NEW x \in BackupSet, sets' = [sets EXCEPT ![job.set] = x],
         x.phase = "listed" => x.excused \/ x.db = x.registry
  PROVE  CallInv' /\ JobInv'
<1>1. job.set \in Sets
  BY DEF JobInv, Work
<1>2. sets' \in [Sets -> BackupSet] /\ BackupsConsistent'
  BY <1>1, SetBecomes
<1>3. CallInv' /\ job' = NoJob
  BY Finished
<1> QED
  BY <1>2, <1>3, Idle

\* A set whose phase alone changes.
LEMMA PhaseSet ==
  ASSUME JobInv, NEW s \in Sets, NEW p \in {"listed", "tombstone", "litter"}
  PROVE  LET x == [sets[s] EXCEPT !.phase = p]
         IN /\ x \in BackupSet /\ x.phase = p /\ x.db = sets[s].db
            /\ x.registry = sets[s].registry /\ x.excused = sets[s].excused
<1>1. sets[s] \in BackupSet
  BY DEF JobInv
<1> QED
  BY <1>1 DEF BackupSet

LEMMA EndOfSet ==
  ASSUME CallInv, JobInv, Publish \/ CreateFails \/ RemoveTombstone
  PROVE  CallInv' /\ JobInv'
<1>1. job.op # "none" /\ job.set \in Sets /\ UNCHANGED run
  BY DEF Publish, CreateFails, RemoveTombstone, JobInv, Work, manager
<1>2. CASE Publish
  <2>1. PICK x, result : /\ x = [sets[job.set] EXCEPT !.phase = "listed"]
                         /\ result \in {"ok", "failed"} /\ Finish(result)
    BY <1>2 DEF Publish
  <2>2. x \in BackupSet /\ (x.excused \/ x.db = x.registry)
    BY <1>1, <1>2, <2>1, PhaseSet DEF Publish, JobInv
  <2>3. sets' = [sets EXCEPT ![job.set] = x]
    BY <1>2, <2>1 DEF Publish
  <2> QED
    BY <1>1, <2>1, <2>2, <2>3, EndKeeps
<1>3. CASE CreateFails
  BY <1>1, <1>3, NoSetOK, EndKeeps DEF CreateFails
<1>4. CASE RemoveTombstone
  <2>1. CASE sets' = [sets EXCEPT ![job.set] = NoSet] /\ Finish("ok")
    BY <1>1, <2>1, NoSetOK, EndKeeps
  <2>2. CASE sets' = [sets EXCEPT ![job.set].phase = "litter"] /\ Finish("failed")
    <3>1. PICK x : x = [sets[job.set] EXCEPT !.phase = "litter"]
      OBVIOUS
    <3>2. x \in BackupSet /\ x.phase = "litter"
      BY <1>1, <3>1, PhaseSet
    <3>3. sets' = [sets EXCEPT ![job.set] = x]
      BY <2>2, <3>1
    <3> QED
      BY <1>1, <2>2, <3>2, <3>3, EndKeeps
  <2> QED
    BY <1>4, <2>1, <2>2 DEF RemoveTombstone
<1> QED
  BY <1>2, <1>3, <1>4

LEMMA DeleteSetKeeps ==
  ASSUME CallInv, JobInv, NEW s \in Sets, DeleteSet(s)
  PROVE  CallInv' /\ JobInv'
<1>1. PICK x : x = [sets[s] EXCEPT !.phase = "tombstone"]
  OBVIOUS
<1>2. Accept(Deletion, "remove", s) /\ sets' = [sets EXCEPT ![s] = x] /\ UNCHANGED run
  BY <1>1 DEF DeleteSet, manager
<1>3. x \in BackupSet /\ x.phase = "tombstone"
  BY <1>1, PhaseSet
<1>4. sets' \in [Sets -> BackupSet] /\ BackupsConsistent'
  BY <1>2, <1>3, SetBecomes
<1>5. CallInv' /\ job' = [op |-> "remove", caller |-> Deletion, set |-> s]
  BY <1>2, Accepted
<1>6. job' \in Work /\ job'.op = "remove" /\ job'.caller = Deletion /\ job'.set = s /\ s # Nobody
  BY <1>5, BackupsAssumption DEF Work
<1> QED
  BY <1>4, <1>5, <1>6 DEF JobInv

LEMMA BackupAgentStopsKeeps ==
  ASSUME CallInv, JobInv, BackupAgentStops
  PROVE  CallInv' /\ JobInv'
<1>1. PICK x : x = [sets[job.set] EXCEPT !.phase = "litter"]
  OBVIOUS
<1>2. /\ job # NoJob /\ job' = NoJob /\ sets' = [sets EXCEPT ![job.set] = x] /\ UNCHANGED run
      /\ call' = [c \in DOMAIN call |-> IF call[c].state \notin {"queued", "running"} THEN call[c]
                                        ELSE IF call[c].orphan THEN NoCall
                                        ELSE [call[c] EXCEPT !.state = "failed"]]
  BY <1>1 DEF BackupAgentStops, manager
<1>3. CallInv'
  <2>1. \A c \in Runs \cup {Deletion} :
          /\ call'[c] \in Call
          /\ call'[c].state # "none" /\ ~call'[c].orphan
               => call[c].state # "none" /\ ~call[c].orphan
    <3> TAKE c \in Runs \cup {Deletion}
    <3>1. CASE call[c].state \notin {"queued", "running"}
      BY <1>2, <3>1 DEF CallInv
    <3>2. CASE call[c].state \in {"queued", "running"}
      BY <1>2, <3>2, CallState, NoneOK DEF CallInv
    <3> QED
      BY <3>1, <3>2
  <2>2. call' \in [Runs \cup {Deletion} -> Call]
    BY <1>2, <2>1 DEF CallInv
  <2> QED
    BY <1>2, <2>1, <2>2 DEF CallInv
<1>4. sets' \in [Sets -> BackupSet] /\ BackupsConsistent'
  <2>1. CASE job.set \in Sets
    <3>1. x \in BackupSet /\ x.phase = "litter"
      BY <1>1, <2>1, PhaseSet
    <3> QED
      BY <1>2, <2>1, <3>1, SetBecomes
  <2>2. CASE job.set \notin Sets
    BY <1>2, <2>2 DEF JobInv, BackupsConsistent, Listed
  <2> QED
    BY <2>1, <2>2
<1> QED
  BY <1>2, <1>3, <1>4, Idle

\* A stop of Grom leaves the calls, and excuses what is half written.
LEMMA CallsOfStop ==
  ASSUME CallInv, JobInv, GromStops
  PROVE  CallInv' /\ JobInv'
<1>1. /\ UNCHANGED <<job, registryAt>>
      /\ call' = [c \in DOMAIN call |-> IF call[c].state \in {"queued", "running"}
                                        THEN [call[c] EXCEPT !.orphan = TRUE] ELSE NoCall]
      /\ sets' = [s \in Sets |-> [sets[s] EXCEPT !.excused = sets[s].excused
                                                              \/ sets[s].phase = "partial"]]
  BY DEF GromStops, ManagerStops, content
<1>2. \A c \in Runs \cup {Deletion} :
        /\ call'[c] \in Call
        /\ call'[c].state = "none" \/ call'[c].orphan
        /\ call[c].state = "running" => call'[c].state = "running"
  <2> TAKE c \in Runs \cup {Deletion}
  <2>1. call[c] \in Call
    BY DEF CallInv
  <2>2. CASE call[c].state \in {"queued", "running"}
    BY <1>1, <2>1, <2>2 DEF CallInv, Call
  <2>3. CASE call[c].state \notin {"queued", "running"}
    BY <1>1, <2>3, NoneOK DEF CallInv
  <2> QED
    BY <2>2, <2>3
<1>3. CallInv'
  <2>1. call' \in [Runs \cup {Deletion} -> Call]
    BY <1>1, <1>2 DEF CallInv
  <2> QED
    BY <1>2, <2>1 DEF CallInv
<1>4. ASSUME NEW s \in Sets
      PROVE  /\ sets'[s] \in BackupSet /\ sets'[s].phase = sets[s].phase
             /\ sets'[s].db = sets[s].db /\ sets'[s].registry = sets[s].registry
             /\ sets[s].excused => sets'[s].excused
             /\ sets[s].phase = "partial" => sets'[s].excused
  <2>1. sets[s] \in BackupSet
    BY DEF JobInv
  <2>2. PICK b \in BOOLEAN : b = (sets[s].excused \/ sets[s].phase = "partial")
    BY <2>1 DEF BackupSet
  <2>3. sets'[s] = [sets[s] EXCEPT !.excused = b]
    BY <1>1, <2>2
  <2>4. /\ sets'[s] \in BackupSet /\ sets'[s].phase = sets[s].phase
        /\ sets'[s].db = sets[s].db /\ sets'[s].registry = sets[s].registry
        /\ sets'[s].excused = b
    BY <2>1, <2>3 DEF BackupSet
  <2> QED
    BY <2>2, <2>4
<1>5. sets' \in [Sets -> BackupSet]
  BY <1>1, <1>4
<1>6. BackupsConsistent'
  BY <1>4 DEF JobInv, BackupsConsistent, Listed
<1>7. job.op \in {"registry", "publish"} =>
        /\ job.set \in Sets /\ job.caller \in Runs /\ sets'[job.set].phase = "partial"
        /\ sets'[job.set].excused /\ call'[job.caller].state = "running"
  BY <1>2, <1>4 DEF JobInv, Work
<1> QED
  BY <1>1, <1>3, <1>5, <1>6, <1>7 DEF JobInv

\* Writes: whoever archives has the registry to itself.
LEMMA JobOfWrite ==
  ASSUME GateInv, ContentInv, CallInv, JobInv,
         BeginWrite \/ WriteRegistry \/ WriteDatabase \/ WriteFails
  PROVE  CallInv' /\ JobInv'
<1>1. UNCHANGED <<run, call, job, sets>>
  BY DEF BeginWrite, WriteRegistry, WriteDatabase, WriteFails, EndWrite, Elsewhere, manager, volume
<1>2. CallInv'
  BY <1>1 DEF CallInv
<1>3. CASE ~WriteRegistry
  <2>1. registryAt' = registryAt
    BY <1>3 DEF BeginWrite, WriteDatabase, WriteFails, EndWrite
  <2> QED
    BY <1>1, <1>2, <2>1, JobStays
<1>4. CASE WriteRegistry
  <2>1. \A r \in Runs : run[r] \notin Granted
    BY <1>4, Frozen DEF WriteRegistry
  <2>2. job.op = "registry" => sets[job.set].excused
    BY <2>1 DEF JobInv, CallInv, Granted, InGate
  <2> QED
    BY <1>1, <1>2, <2>2 DEF JobInv, BackupsConsistent, Listed
<1> QED
  BY <1>3, <1>4

-----------------------------------------------------------------------------
(***************************************************************************)
(* Recoveries, boots and stops                                             *)
(***************************************************************************)
\* The marker is the first piece that moves, and the only one of its name.
LEMMA MovesFacts ==
  ASSUME NEW k
  PROVE  /\ Len(Moves(k)) = 5
         /\ Moves(k)[1] = "marker"
         /\ \A i \in 2 .. 5 : Moves(k)[i] \in Pieces \ {"marker"}
         /\ \E i \in 2 .. 5 : Moves(k)[i] = "database"
<1>1. PICK m : m = Moves(k)
  OBVIOUS
<1>2. /\ Len(m) = 5 /\ m[1] = "marker" /\ m[2] \in Pieces \ {"marker"}
      /\ m[3] \in Pieces \ {"marker"} /\ m[4] \in Pieces \ {"marker"}
      /\ m[5] \in Pieces \ {"marker"} /\ (m[2] = "database" \/ m[5] = "database")
  BY <1>1 DEF Moves, Pieces
<1>3. \A i \in 2 .. 5 : i = 2 \/ i = 3 \/ i = 4 \/ i = 5
  OBVIOUS
<1>4. 2 \in 2 .. 5 /\ 5 \in 2 .. 5
  OBVIOUS
<1> QED
  BY <1>1, <1>2, <1>3, <1>4

\* What every step of a recovery and of a boot leaves alone.
LEMMA RecoveryFrame ==
  ASSUME PlacesInv, RecoveryStep
  PROVE  /\ UNCHANGED <<gateVars, kind, dump, manager, call, job>>
         /\ Event \/ UNCHANGED events
         /\ grom # "up"
         /\ sets' = sets \/ \E s \in Sets : Upload(s)
<1> USE DEF PlacesInv, content, volume, RecoveryUnchanged, BootUnchanged
<1>1. CASE EnterRecovery \/ LeaveRecovery
  BY <1>1 DEF EnterRecovery, LeaveRecovery
<1>2. CASE \E s \in Sets : Upload(s) \/ BeginRestore(s)
  BY <1>2 DEF Upload, BeginRestore
<1>3. CASE Extract \/ Staged \/ Restored \/ LeftDirty
  BY <1>3 DEF Extract, Staged, Restored, LeftDirty, Restoring
<1>6. CASE RollBack \/ MoveBack \/ MoveBackFails \/ RolledBack
  BY <1>6 DEF RollBack, MoveBack, MoveBackFails, RolledBack, Restoring
<1>4. CASE Move
  BY <1>4 DEF Move, Restoring
<1>5. CASE OpenDatabase \/ Invalidate \/ RecordRestore \/ ConsumeMarker
  BY <1>5 DEF OpenDatabase, Invalidate, RecordRestore, ConsumeMarker
<1> QED
  BY <1>1, <1>2, <1>3, <1>4, <1>5, <1>6 DEF RecoveryStep

\* The content is restored while Grom is down, and is of one moment from a boot on.
LEMMA ContentOfRecovery ==
  ASSUME ContentInv, GateInv, JobInv, PlacesInv, RecoveryStep, UNCHANGED write
  PROVE  ContentInv'
<1>1. /\ UNCHANGED <<kind, dump, run, write>> /\ \A r \in Runs : run[r] = "idle"
  BY RecoveryFrame DEF manager, GateInv
<1>2. CASE Move
  <2>1. restore.set \in Sets /\ grom' = "down"
    BY <1>2 DEF Move, PlacesInv, Restoring, RecoveryUnchanged
  <2>2. sets[restore.set].db \in Versions /\ sets[restore.set].registry \in Versions
    BY <2>1 DEF JobInv, BackupSet
  <2>3. /\ registryAt' = registryAt \/ registryAt' = sets[restore.set].registry
        /\ dbAt' = dbAt \/ dbAt' = sets[restore.set].db
    BY <1>2 DEF Move, RestoreDatabase
  <2> QED
    BY <1>1, <2>1, <2>2, <2>3 DEF ContentInv
<1>3. CASE OpenDatabase
  <2>1. dbAt' = registryAt /\ registryAt' = registryAt
    BY <1>3 DEF OpenDatabase, BootUnchanged
  <2> QED
    BY <1>1, <2>1 DEF ContentInv
<1>4. CASE ~Move /\ ~OpenDatabase
  <2>1. UNCHANGED <<dbAt, registryAt>> /\ (grom' = "down" \/ grom # "down")
    BY <1>4 DEF RecoveryStep, EnterRecovery, LeaveRecovery, Upload, BeginRestore, Extract, Staged,
                Restored, RollBack, MoveBack, MoveBackFails, RolledBack, LeftDirty, Invalidate,
                RecordRestore, ConsumeMarker, content,
                RecoveryUnchanged, BootUnchanged
  <2> QED
    BY <1>1, <2>1, ContentStays DEF content
<1> QED
  BY <1>2, <1>3, <1>4

\* Nothing waits for a set that is written then; an upload gets a name of its own.
LEMMA JobOfRecovery ==
  ASSUME CallInv, JobInv, GateInv, PlacesInv, RecoveryStep
  PROVE  CallInv' /\ JobInv'
<1>1. /\ UNCHANGED <<run, call, job>> /\ \A r \in Runs : run[r] = "idle"
      /\ sets' = sets \/ \E s \in Sets : Upload(s)
  BY RecoveryFrame DEF manager, GateInv
<1>2. CallInv'
  BY <1>1 DEF CallInv
<1>3. job.op \in {"registry", "publish"} =>
        job.caller \in Runs /\ call[job.caller].orphan /\ sets[job.set].excused
  BY <1>1 DEF JobInv, CallInv
<1>4. CASE sets' = sets
  BY <1>1, <1>2, <1>3, <1>4 DEF JobInv, BackupsConsistent, Listed
<1>5. CASE \E s \in Sets : Upload(s)
  <2>1. PICK s \in Sets : Upload(s)
    BY <1>5
  <2>2. PICK x : x = [NoSet EXCEPT !.phase = "listed"]
    OBVIOUS
  <2>3. sets[s].phase = "none" /\ sets' = [sets EXCEPT ![s] = x]
    BY <2>1, <2>2 DEF Upload
  <2>4. x \in BackupSet /\ x.db = x.registry
    BY <2>2, NoSetOK DEF BackupSet
  <2>5. /\ sets' \in [Sets -> BackupSet] /\ BackupsConsistent'
        /\ \A q \in Sets \ {s} : sets'[q] = sets[q]
    BY <2>3, <2>4, SetBecomes
  <2>6. job.op \in {"registry", "publish"} => job.set \in Sets \ {s}
    BY <2>3 DEF JobInv, Work
  <2> QED
    BY <1>1, <1>2, <1>3, <2>5, <2>6 DEF JobInv
<1> QED
  BY <1>1, <1>4, <1>5

\* The pieces: what is in place is what was moved, and the marker tells its set.
LEMMA PlacesOfRecovery ==
  ASSUME PlacesInv, RecoveryStep
  PROVE  PlacesInv'
<1> DEFINE RestoreType == [phase : Restoring \cup {"idle", "back", "dirty"},
                           set : Sets \cup {Nobody}, moved : 0 .. 5, stuck : BOOLEAN]
<1>1. NoRestore \in RestoreType /\ NoRestore.phase = "idle"
  BY DEF NoRestore, Restoring
<1>2. \A p \in Restoring \cup {"idle", "back", "dirty"} :
        LET x == [restore EXCEPT !.phase = p]
        IN x \in RestoreType /\ x.phase = p /\ x.set = restore.set /\ x.moved = restore.moved
  BY DEF PlacesInv
<1> HIDE DEF RestoreType
<1>3. kind' = kind
  BY RecoveryFrame
<1>4. CASE EnterRecovery
  BY <1>1, <1>4 DEF EnterRecovery, PlacesInv, RestoreType, Restoring
<1>5. CASE LeaveRecovery
  BY <1>3, <1>5 DEF LeaveRecovery, PlacesInv, Restoring, Moved
<1>6. CASE \E s \in Sets : Upload(s)
  BY <1>3, <1>6 DEF Upload, RecoveryUnchanged, PlacesInv, Moved
<1>7. CASE \E s \in Sets : BeginRestore(s)
  <2>1. PICK s \in Sets : BeginRestore(s)
    BY <1>7
  <2>2. /\ mode = "recovery" /\ UNCHANGED <<placed, marker, grom, mode>>
        /\ placed \subseteq {"database"}
        /\ restore' = [phase |-> "staging", set |-> s, moved |-> 0, stuck |-> FALSE]
    BY <2>1 DEF BeginRestore, Empty, RecoveryUnchanged, NoRestore
  <2>3. /\ restore' \in RestoreType /\ restore'.phase = "staging" /\ restore'.set = s
        /\ restore'.moved = 0
    BY <2>2 DEF RestoreType, Restoring
  <2> QED
    BY <2>2, <2>3 DEF PlacesInv, RestoreType
<1>8. CASE Extract \/ Staged
  <2>1. /\ restore.phase \in {"staging", "extracted"}
        /\ UNCHANGED <<placed, marker, grom, mode>>
        /\ \/ \E p \in {"extracted", "moving"} : restore' = [restore EXCEPT !.phase = p]
           \/ restore' = NoRestore
    BY <1>8 DEF Extract, Staged, RecoveryUnchanged
  <2>2. CASE restore' = NoRestore
    BY <1>1, <2>1, <2>2 DEF PlacesInv, RestoreType, Restoring
  <2>3. CASE \E p \in {"extracted", "moving"} : restore' = [restore EXCEPT !.phase = p]
    <3>1. /\ restore' \in RestoreType /\ restore'.phase \in {"extracted", "moving"}
          /\ restore'.set = restore.set /\ restore'.moved = restore.moved
      BY <1>2, <2>3 DEF Restoring
    <3>2. restore.moved = 0 /\ Moved' = Moved
      BY <1>3, <2>1, <3>1 DEF PlacesInv, Moved
    <3> QED
      BY <2>1, <3>1, <3>2 DEF PlacesInv, RestoreType, Restoring
  <2> QED
    BY <2>1, <2>2, <2>3
<1>9. CASE Move
  <2>1. PICK n, piece : n = restore.moved /\ piece = Moves(kind)[n + 1]
    OBVIOUS
  <2>2. /\ restore.phase = "moving" /\ n < 5 /\ UNCHANGED <<grom, mode>>
        /\ restore' = [restore EXCEPT !.moved = n + 1]
        /\ placed' = placed \cup {piece}
        /\ marker' = IF piece = "marker" THEN restore.set ELSE marker
    BY <1>9, <2>1, MovesFacts DEF Move, RecoveryUnchanged
  <2>3. n \in 0 .. 4 /\ n + 1 \in 1 .. 5 /\ restore \in RestoreType
    BY <2>1, <2>2 DEF PlacesInv, RestoreType
  <2>4. /\ restore' \in RestoreType /\ restore'.phase = "moving" /\ restore'.set = restore.set
        /\ restore'.moved = n + 1
    BY <2>2, <2>3 DEF RestoreType
  <2>5. piece \in Pieces /\ (piece = "marker" <=> n = 0)
    <3>1. CASE n = 0
      BY <2>1, <3>1, MovesFacts DEF Pieces
    <3>2. CASE n # 0
      <4>1. n + 1 \in 2 .. 5
        BY <2>3, <3>2
      <4> QED
        BY <2>1, <3>2, <4>1, MovesFacts
    <3> QED
      BY <3>1, <3>2
  <2>6. Moved \cup {piece} \subseteq Moved'
    BY <1>3, <2>1, <2>3, <2>4 DEF Moved
  <2>7. restore.set \in Sets /\ restore.set # Nobody /\ mode = "recovery" /\ grom = "down"
    BY <2>2, BackupsAssumption DEF PlacesInv, Restoring
  <2>8. marker' # Nobody /\ "marker" \in placed'
    BY <2>1, <2>2, <2>5, <2>7 DEF PlacesInv
  <2>9. placed' \subseteq Pieces /\ placed' \subseteq Moved' \cup {"database"}
    BY <2>2, <2>5, <2>6 DEF PlacesInv, Restoring
  <2> QED
    BY <2>2, <2>4, <2>7, <2>8, <2>9 DEF PlacesInv, RestoreType
<1>10. CASE Restored
  BY <1>1, <1>10 DEF Restored, RecoveryUnchanged, PlacesInv, RestoreType, Restoring
<1>11. CASE RollBack
  <2>1. restore' \in RestoreType /\ restore'.phase = "back" /\ mode = "recovery"
    BY <1>2, <1>11 DEF RollBack, PlacesInv, Restoring
  <2> QED
    BY <1>11, <2>1 DEF RollBack, RecoveryUnchanged, PlacesInv, RestoreType, Restoring
<1>12. CASE LeftDirty
  <2>1. restore' \in RestoreType /\ restore'.phase = "dirty"
    BY <1>2, <1>12 DEF LeftDirty
  <2> QED
    BY <1>12, <2>1 DEF LeftDirty, RecoveryUnchanged, PlacesInv, RestoreType, Restoring
<1>16. CASE MoveBack
  <2>1. PICK n, piece : n = restore.moved /\ piece = Moves(kind)[n]
    OBVIOUS
  <2>2. /\ restore.phase = "back" /\ n > 0 /\ UNCHANGED <<grom, mode>>
        /\ restore' = [restore EXCEPT !.moved = n - 1]
        /\ placed' = (IF Committed(piece) THEN placed ELSE placed \ {piece})
        /\ marker' = IF piece = "marker" THEN Nobody ELSE marker
    BY <1>16, <2>1 DEF MoveBack, RecoveryUnchanged
  <2>3. restore' \in RestoreType /\ restore'.phase = "back"
    BY <2>1, <2>2 DEF PlacesInv, RestoreType
  <2>4. placed' \subseteq Pieces /\ (marker' # Nobody <=> "marker" \in placed')
    BY <2>2 DEF PlacesInv, Committed
  <2> QED
    BY <2>2, <2>3, <2>4 DEF PlacesInv, RestoreType, Restoring
<1>17. CASE MoveBackFails
  <2>1. PICK n : n = restore.moved
    OBVIOUS
  <2>2. /\ restore.phase = "back" /\ n > 0 /\ UNCHANGED <<grom, mode, placed, marker>>
        /\ restore' = [restore EXCEPT !.moved = n - 1, !.stuck = TRUE]
    BY <1>17, <2>1 DEF MoveBackFails, RecoveryUnchanged
  <2>3. restore' \in RestoreType /\ restore'.phase = "back"
    <3>1. PICK x : x = [restore EXCEPT !.moved = n - 1]
      OBVIOUS
    <3>2. x \in RestoreType /\ x.phase = "back"
      BY <2>1, <2>2, <3>1 DEF PlacesInv, RestoreType
    <3>3. restore' = [x EXCEPT !.stuck = TRUE]
      BY <2>2, <3>1 DEF PlacesInv
    <3> QED
      BY <3>2, <3>3 DEF RestoreType
  <2>4. grom' = grom /\ mode' = mode /\ placed' = placed /\ marker' = marker
    BY <2>2
  <2>5. mode = "recovery"
    BY <2>2 DEF PlacesInv
  <2> QED
    BY <2>3, <2>4, <2>5 DEF PlacesInv, RestoreType, Restoring
<1>18. CASE RolledBack
  <2>1. restore' \in RestoreType /\ restore'.phase \in {"idle", "dirty"}
    BY <1>1, <1>2, <1>18 DEF RolledBack
  <2> QED
    BY <1>18, <2>1 DEF RolledBack, RecoveryUnchanged, PlacesInv, RestoreType, Restoring
<1>13. CASE OpenDatabase
  BY <1>3, <1>13 DEF OpenDatabase, BootUnchanged, PlacesInv, Restoring, Moved, Pieces
<1>14. CASE Invalidate \/ RecordRestore
  BY <1>3, <1>14 DEF Invalidate, RecordRestore, BootUnchanged, PlacesInv, Restoring, Moved
<1>15. CASE ConsumeMarker
  BY <1>3, <1>15 DEF ConsumeMarker, BootUnchanged, PlacesInv, Restoring, Moved
<1> QED
  BY <1>4, <1>5, <1>6, <1>7, <1>8, <1>9, <1>10, <1>11, <1>12, <1>13, <1>14, <1>15, <1>16, <1>17,
     <1>18 DEF RecoveryStep

\* A database gets its place after the marker and is moved back before it, and a
\* boot removes the marker last.
LEMMA BootOfRecovery ==
  ASSUME BootInv, PlacesInv, RecoveryStep
  PROVE  BootInv'
<1>1. CASE EnterRecovery
  <2>1. origin' = Nobody /\ ephemeral' = FALSE /\ recorded' = 0 /\ undone' = FALSE
    BY <1>1 DEF EnterRecovery
  <2>2. {ephemeral', undone'} \subseteq BOOLEAN
    BY <2>1
  <2>3. recorded' \in 0 .. 1
    BY <2>1
  <2> QED
    BY <2>1, <2>2, <2>3 DEF BootInv
<1>2. CASE Move
  <2>1. PICK n, piece : n = restore.moved /\ piece = Moves(kind)[n + 1]
    OBVIOUS
  <2>2. /\ restore.phase = "moving" /\ UNCHANGED <<grom, undone>>
        /\ marker' = IF piece = "marker" THEN restore.set ELSE marker
        /\ piece = "database" => ephemeral' = TRUE /\ recorded' = 0
        /\ piece # "database" => UNCHANGED <<origin, ephemeral, recorded>>
        /\ placed' = placed \cup {piece}
    BY <1>2, <2>1 DEF Move, RestoreDatabase, RecoveryUnchanged
  <2>3. grom = "down" /\ restore.set # Nobody
    <3>1. restore.phase \in Restoring
      BY <2>2 DEF Restoring
    <3> QED
      BY <3>1, BackupsAssumption DEF PlacesInv
  <2>4. piece = "database" => n # 0
    <3>1. n = 0 => n + 1 = 1
      OBVIOUS
    <3> QED
      BY <2>1, <3>1, MovesFacts
  <2>5. piece = "database" => marker' # Nobody
    BY <2>1, <2>2, <2>4 DEF PlacesInv
  <2>6. marker # Nobody => marker' # Nobody
    BY <2>2, <2>3
  <2>7. CASE piece = "database"
    BY <2>2, <2>3, <2>5, <2>7 DEF BootInv
  <2>8. CASE piece # "database"
    BY <2>2, <2>3, <2>6, <2>8 DEF BootInv
  <2> QED
    BY <2>7, <2>8
<1>3. CASE MoveBack
  <2>1. PICK n, piece : n = restore.moved /\ piece = Moves(kind)[n] /\ n \in 0 .. 5
    BY DEF PlacesInv
  <2>2. /\ n > 0 /\ UNCHANGED <<grom, recorded>> /\ grom = "down"
        /\ placed' = (IF Committed(piece) THEN placed ELSE placed \ {piece})
        /\ marker' = IF piece = "marker" THEN Nobody ELSE marker
        /\ undone' = (undone \/ (piece = "marker" /\ Left("database")))
        /\ IF piece = "database" /\ ~Committed(piece) THEN origin' = Nobody /\ ephemeral' = FALSE
           ELSE UNCHANGED <<origin, ephemeral>>
    BY <1>3, <2>1 DEF MoveBack, RecoveryUnchanged, PlacesInv
  <2>3. CASE piece = "marker"
    <3>1. n = 1
      <4>1. n = 1 \/ n \in 2 .. 5
        BY <2>1, <2>2
      <4> QED
        BY <2>1, <2>3, <4>1, MovesFacts
    <3>2. "database" \in placed => Left("database")
      <4>1. \E i \in 2 .. 5 : Moves(kind)[i] = "database"
        BY MovesFacts
      <4>2. n + 1 = 2 /\ Len(Moves(kind)) = 5
        BY <3>1, MovesFacts
      <4> QED
        BY <2>1, <4>1, <4>2 DEF Left
    <3>3. origin # Nobody => undone'
      BY <2>2, <2>3, <3>2 DEF BootInv
    <3>4. UNCHANGED <<origin, ephemeral>> /\ ("database" \in placed => "database" \in placed')
      BY <2>2, <2>3
    <3>5. undone' \in BOOLEAN
      BY <2>2 DEF BootInv
    <3> QED
      BY <2>2, <3>3, <3>4, <3>5 DEF BootInv
  <2>4. CASE piece # "marker" /\ piece = "database" /\ ~Committed(piece)
    <3>1. origin' = Nobody /\ ephemeral' = FALSE /\ undone' = undone
      BY <2>2, <2>4 DEF BootInv
    <3> QED
      BY <2>2, <3>1 DEF BootInv
  <2>5. CASE piece # "marker" /\ ~(piece = "database" /\ ~Committed(piece))
    <3>1. /\ UNCHANGED <<origin, ephemeral, marker>> /\ undone' = undone
          /\ "database" \in placed => "database" \in placed'
      BY <2>2, <2>5 DEF BootInv
    <3> QED
      BY <2>2, <3>1 DEF BootInv
  <2> QED
    BY <2>3, <2>4, <2>5
<1>4. CASE \/ LeaveRecovery \/ Extract \/ Staged \/ Restored \/ LeftDirty
           \/ RollBack \/ MoveBackFails \/ RolledBack
           \/ \E s \in Sets : Upload(s) \/ BeginRestore(s)
  <2>1. UNCHANGED <<grom, placed, marker, origin, ephemeral, recorded, undone>>
    BY <1>4 DEF LeaveRecovery, Extract, Staged, Restored, LeftDirty, RollBack, MoveBackFails,
                RolledBack, Upload, BeginRestore, RecoveryUnchanged
  <2> QED
    BY <2>1 DEF BootInv
<1>5. CASE OpenDatabase
  BY <1>5 DEF OpenDatabase, BootUnchanged, BootInv
<1>6. CASE Invalidate
  BY <1>6 DEF Invalidate, Marked, BootUnchanged, BootInv
<1>7. CASE RecordRestore
  BY <1>7 DEF RecordRestore, BootUnchanged, BootInv
<1>8. CASE ConsumeMarker
  BY <1>8 DEF ConsumeMarker, BootUnchanged, BootInv
<1> QED
  BY <1>1, <1>2, <1>3, <1>4, <1>5, <1>6, <1>7, <1>8 DEF RecoveryStep

\* Steps that have nothing to do with a recovery or a boot.
LEMMA PlacesStay ==
  ASSUME PlacesInv, BootInv, UNCHANGED <<recoveryVars, kind>>
  PROVE  PlacesInv' /\ BootInv'
BY DEF PlacesInv, BootInv, Moved, recoveryVars

LEMMA PlacesOfStop ==
  ASSUME PlacesInv, BootInv, GromStops
  PROVE  PlacesInv' /\ BootInv'
<1>1. /\ grom' = "down" /\ kind' = kind
      /\ UNCHANGED <<mode, placed, restore, marker, origin, ephemeral, recorded, undone>>
  BY DEF GromStops, content
<1> QED
  BY <1>1 DEF PlacesInv, BootInv, Moved

-----------------------------------------------------------------------------
(***************************************************************************)
(* Every step                                                              *)
(***************************************************************************)
LEMMA AgentStays ==
  ASSUME AgentInv, OrderInv, UNCHANGED <<agentVars, gc>>
  PROVE  AgentInv' /\ OrderInv'
BY DEF AgentInv, AgentTypeOK, OrderInv, agentVars

LEMMA CallsStay ==
  ASSUME CallInv, JobInv, UNCHANGED <<run, volume, registryAt>>
  PROVE  CallInv' /\ JobInv'
<1>1. UNCHANGED <<call, job, sets>>
  BY DEF volume
<1>2. CallInv'
  BY <1>1 DEF CallInv
<1> QED
  BY <1>1, <1>2, JobStays

LEMMA InitHolds == Init => IInv
<1> SUFFICES ASSUME Init PROVE IInv
  OBVIOUS
<1>1. AgentInv /\ OrderInv
  BY DEF Init, AgentInit, AgentInv, AgentTypeOK, OrderInv
<1>2. GateInv
  BY Names DEF Init, GateInit, BackupInit, RecoveryInit, GateInv, RunPhases, InGate, Granted
<1>3. StatusInv
  <2>1. /\ \A r \in Runs : run[r] = "idle"
        /\ last = Nobody /\ status = "complete" /\ deleting = FALSE /\ events = 0
    BY DEF Init, BackupInit
  <2>2. events \in 0 .. MaxEvents
    BY <2>1, BackupsAssumption
  <2> QED
    BY <2>1, <2>2 DEF StatusInv, Statuses, Early, Final
<1>4. ContentInv
  BY OperationsAssumption DEF Init, BackupInit, ContentInv, Versions
<1>5. CallInv
  BY NoneOK DEF Init, BackupInit, CallInv
<1>6. JobInv
  BY NoneOK, NoSetOK DEF Init, BackupInit, JobInv, BackupsConsistent, Listed
<1>7. PlacesInv
  BY DEF Init, RecoveryInit, PlacesInv, NoRestore, Restoring, Pieces
<1>8. BootInv
  <2>1. origin = Nobody /\ ephemeral = FALSE /\ recorded = 0 /\ undone = FALSE
    BY DEF Init, RecoveryInit
  <2>2. {ephemeral, undone} \subseteq BOOLEAN
    BY <2>1
  <2>3. recorded \in 0 .. 1
    BY <2>1
  <2> QED
    BY <2>1, <2>2, <2>3 DEF BootInv
<1> QED
  BY <1>1, <1>2, <1>3, <1>4, <1>5, <1>6, <1>7, <1>8 DEF IInv

LEMMA WriteKeeps ==
  ASSUME IInv, BeginWrite \/ WriteRegistry \/ WriteDatabase \/ WriteFails
  PROVE  IInv'
<1>1. UNCHANGED <<recoveryVars, agentVars, gc, kind, manager, events>>
  BY DEF BeginWrite, WriteRegistry, WriteDatabase, WriteFails, EndWrite, Elsewhere
<1> QED
  BY <1>1, AgentStays, GateOfWrite, StatusStays, ContentOfWrite, JobOfWrite, PlacesStay DEF IInv

LEMMA CollectionKeeps ==
  ASSUME IInv,
         BeginCollection \/ CollectionDrained \/ SendOrder \/ CollectionAnswered
           \/ CollectionAbandoned
  PROVE  IInv'
<1>1. /\ UNCHANGED <<content, dump, manager, volume, recoveryVars, write>>
      /\ Event \/ UNCHANGED events
  BY DEF BeginCollection, CollectionDrained, SendOrder, CollectionAnswered, CollectionAbandoned,
         OutsideAgent, backupVars
<1>2. UNCHANGED <<run, registryAt, kind, grom>>
  BY <1>1 DEF manager, content, recoveryVars
<1> QED
  BY <1>1, <1>2, GateOfCollection, StatusStays, ContentStays, CallsStay, PlacesStay DEF IInv

LEMMA GromStopsKeeps ==
  ASSUME IInv, GromStops
  PROVE  IInv'
<1>1. /\ UNCHANGED <<content, dump>> /\ grom' = "down" /\ \A r \in Runs : run'[r] = "idle"
  BY DEF GromStops, ManagerStops
<1>2. ContentInv'
  BY <1>1 DEF IInv, ContentInv, content
<1> QED
  BY <1>2, GateOfStop, StatusOfStop, CallsOfStop, PlacesOfStop DEF IInv

\* A step of one run of the manager.
LEMMA RunKeeps ==
  ASSUME IInv, NEW r \in Runs, grom # "up" => UNCHANGED manager,
         UNCHANGED <<recoveryVars, agentVars, gc, write>>,
         RequestBackup(r) \/ Start(r) \/ Quiesce(r) \/ Drained(r) \/ Checkpoint(r) \/ CallAgent(r)
           \/ Answered(r) \/ Record(r) \/ Close(r)
  PROVE  IInv'
<1>1. UNCHANGED <<grom, kind>> /\ (grom # "up" => UNCHANGED run)
  BY DEF recoveryVars, manager, content, RequestBackup, Start, Quiesce, Drained, Checkpoint,
         CallAgent, Answered, Record, Close
<1> QED
  BY <1>1, AgentStays, GateOfRun, StatusOfRun, ContentOfRun, CallsOfRun, PlacesStay DEF IInv

\* A step of the agent of the backups, or of a deletion.
LEMMA VolumeKeeps ==
  ASSUME IInv, UNCHANGED <<recoveryVars, agentVars, gc, write>>,
         \/ \E r \in Runs, s \in Sets : CreateSet(r, s)
         \/ \E s \in Sets : DeleteSet(s)
         \/ RequestDeletion \/ Deleted \/ ArchiveRegistry \/ Publish \/ CreateFails
         \/ NoSuchSet \/ RemoveTombstone \/ BackupAgentStops
  PROVE  IInv'
<1>1. UNCHANGED <<gateVars, content, dump, run>>
  BY DEF CreateSet, DeleteSet, RequestDeletion, Deleted, ArchiveRegistry, Publish, CreateFails,
         NoSuchSet, RemoveTombstone, BackupAgentStops, manager
<1>2. UNCHANGED <<grom, kind>>
  BY <1>1 DEF recoveryVars, content
<1>3. StatusInv'
  <2>1. CASE RequestDeletion \/ Deleted
    BY <2>1, StatusOfDeletion DEF IInv
  <2>2. CASE ~RequestDeletion /\ ~Deleted
    <3>1. UNCHANGED manager /\ (Event \/ UNCHANGED events)
      BY <2>2 DEF CreateSet, DeleteSet, ArchiveRegistry, Publish, CreateFails, NoSuchSet,
                  RemoveTombstone, BackupAgentStops
    <3> QED
      BY <3>1, StatusStays DEF IInv
  <2> QED
    BY <2>1, <2>2
<1>4. CallInv' /\ JobInv'
  BY CreateSetKeeps, ArchiveKeeps, EndOfSet, DeleteSetKeeps, BackupAgentStopsKeeps, CallsOfDeletion
     DEF IInv
<1> QED
  BY <1>1, <1>2, <1>3, <1>4, AgentStays, GateStays, ContentStays, PlacesStay DEF IInv

LEMMA RecoveryKeeps ==
  ASSUME IInv, RecoveryStep, UNCHANGED <<agentVars, gc, write>>
  PROVE  IInv'
<1>1. /\ UNCHANGED <<gateVars, manager, run>> /\ (Event \/ UNCHANGED events) /\ grom # "up"
  BY RecoveryFrame DEF IInv, manager
<1> QED
  BY <1>1, AgentStays, GateStays, StatusStays, ContentOfRecovery, JobOfRecovery,
     PlacesOfRecovery, BootOfRecovery DEF IInv

LEMMA MaintenanceAgentKeeps ==
  ASSUME IInv, AgentRuns \/ AgentTrouble, Event \/ UNCHANGED events,
         UNCHANGED <<gateVars, content, dump, manager, volume, recoveryVars, gc, write>>
  PROVE  IInv'
<1>1. UNCHANGED <<run, registryAt, kind, grom>>
  BY DEF manager, content, recoveryVars
<1> QED
  BY <1>1, AgentKeeps, GateStays, StatusStays, ContentStays, CallsStay, PlacesStay DEF IInv

LEMMA NextKeeps == IInv /\ [Next]_vars => IInv'
<1> SUFFICES ASSUME IInv, [Next]_vars PROVE IInv'
  OBVIOUS
<1>1. CASE BeginWrite \/ WriteRegistry \/ WriteDatabase \/ WriteFails
  BY <1>1, WriteKeeps
<1>2. CASE BeginCollection \/ CollectionDrained \/ SendOrder \/ CollectionAnswered
             \/ CollectionAbandoned
  BY <1>2, CollectionKeeps
<1>3. CASE GromStops
  BY <1>3, GromStopsKeeps
<1>4. CASE /\ BackupStep
           /\ mode = "normal"
           /\ grom # "up" => UNCHANGED manager
           /\ UNCHANGED <<recoveryVars, agentVars, gc, write>>
  BY <1>4, RunKeeps, VolumeKeeps DEF BackupStep
<1>5. CASE RecoveryStep /\ UNCHANGED <<agentVars, gc, write>>
  BY <1>5, RecoveryKeeps
<1>6. CASE AgentRuns /\ UNCHANGED <<gateVars, backupVars, recoveryVars, gc, write>>
  <2>1. UNCHANGED <<gateVars, content, dump, manager, volume, recoveryVars, gc, write, events>>
    BY <1>6 DEF backupVars
  <2> QED
    BY <1>6, <2>1, MaintenanceAgentKeeps
<1>7. CASE /\ AgentTrouble
           /\ IF AgentExpected THEN UNCHANGED events ELSE Event
           /\ UNCHANGED <<gateVars, content, dump, manager, volume, recoveryVars, gc, write>>
  BY <1>7, MaintenanceAgentKeeps
<1>8. CASE UNCHANGED vars
  <2>1. UNCHANGED <<gateVars, content, dump, manager, volume, recoveryVars, agentVars, gc, write,
                    events, run, registryAt, kind, grom>>
    BY <1>8 DEF vars, backupVars, manager, content, recoveryVars
  <2> QED
    BY <2>1, AgentStays, GateStays, StatusStays, ContentStays, CallsStay, PlacesStay DEF IInv
<1> QED
  BY <1>1, <1>2, <1>3, <1>4, <1>5, <1>6, <1>7, <1>8 DEF Next

LEMMA Invariance == Spec => []IInv
BY InitHolds, NextKeeps, PTL DEF Spec

-----------------------------------------------------------------------------
(***************************************************************************)
(* What holds of every behaviour                                           *)
(***************************************************************************)
\* Every variable keeps its values; in particular the gate is shut in the
\* manager's name exactly while a run has to open it again (the deferred
\* endMaintenance of manager.go), and in the collection's exactly while
\* runGarbageCollection has not returned.
THEOREM TypeCorrect == Spec => []TypeOK
<1>1. IInv => TypeOK
  <2> SUFFICES ASSUME IInv PROVE TypeOK
    OBVIOUS
  <2>1. BackupTypeOK
    BY DEF IInv, GateInv, StatusInv, CallInv, Call, JobInv, Work, BackupSet, BackupTypeOK,
           RunPhases, Final
  <2>2. RecoveryTypeOK
    <3>1. restore.moved \in 0 .. Len(Moves(kind))
      BY MovesFacts DEF IInv, PlacesInv
    <3>2. /\ restore.phase \in {"idle", "staging", "extracted", "moving", "back", "dirty"}
          /\ restore.stuck \in BOOLEAN
      BY DEF IInv, PlacesInv, Restoring
    <3>3. restore.phase = "moving" => placed \ {"database"} \subseteq Moved \cup {"database"}
      BY DEF IInv, PlacesInv, Restoring
    <3> QED
      BY <3>1, <3>2, <3>3 DEF IInv, PlacesInv, BootInv, RecoveryTypeOK, Moved
  <2>3. AgentTypeOK
    BY DEF IInv, AgentInv
  <2>4. dbAt \in 0 .. MaxWrites /\ registryAt \in 0 .. MaxWrites
    BY DEF IInv, ContentInv, Versions
  <2> QED
    BY <2>1, <2>2, <2>3, <2>4 DEF IInv, GateInv, InGate, TypeOK
<1> QED
  BY <1>1, Invariance, PTL

\* A set that the catalog lists, and that a restore would take, holds the
\* database and the registry of one moment, unless Grom stopped while the agent
\* was creating it: Create of create.go reads both while its caller holds the
\* gate.
THEOREM BackupsHoldOneMoment == Spec => []BackupsConsistent
<1>1. IInv => BackupsConsistent
  BY DEF IInv, JobInv
<1> QED
  BY <1>1, Invariance, PTL

\* The collector of collect in agent.go never deletes under a running
\* Distribution; and while runGarbageCollection waits for it there is no
\* request inside the gate, nor a backup that somebody waits for.
THEOREM CollectorRunsAlone == Spec => []CollectorAlone
<1>1. IInv => CollectorAlone
  <2> SUFFICES ASSUME IInv, collection = "collect" PROVE CollectorAlone
    BY DEF CollectorAlone
  <2>1. child = "none"
    BY DEF IInv, AgentInv, AgentTypeOK
  <2>2. ASSUME order = "sent"
        PROVE  inside = {} /\ (job.op \in {"registry", "publish"} => call[job.caller].orphan)
    <3>1. gc = "wait" /\ inside = {} /\ closer # Backup
      BY <2>2, Names DEF IInv, OrderInv, GateInv
    <3>2. \A r \in Runs : run[r] # "wait"
      BY <3>1 DEF IInv, GateInv, InGate
    <3>3. job.op \in {"registry", "publish"} =>
            job.caller \in Runs /\ call[job.caller].state = "running"
      BY DEF IInv, JobInv
    <3> QED
      BY <3>1, <3>2, <3>3 DEF IInv, CallInv
  <2> QED
    BY <2>1, <2>2 DEF CollectorAlone
<1> QED
  BY <1>1, Invariance, PTL

\* A serving agent that has no Distribution and does nothing about it has an
\* exit in the channel that Serve reads, or told its caller that the last start
\* failed.
THEOREM DownIsReported == Spec => []NeverSilentlyDown
<1>1. IInv => NeverSilentlyDown
  BY DEF IInv, AgentInv, AgentTypeOK, NeverSilentlyDown
<1> QED
  BY <1>1, Invariance, PTL

\* The boot sequence of main.go, cut short and repeated as often as one likes,
\* does not let Grom serve on a restored database before the credentials of the
\* recovery point are dead, the restoration is recorded and the marker is gone;
\* restorations and their roll backs, rename by rename and cut short anywhere,
\* included.  The exception is a roll back that could not take the database
\* back, or not what pg_restore committed, and then took the marker away.
THEOREM BootEndsRestoration == Spec => []RestoredBoot
<1>1. IInv => RestoredBoot
  BY DEF IInv, BootInv, RestoredBoot, Dealt
<1> QED
  BY <1>1, Invariance, PTL
===============================================================================
