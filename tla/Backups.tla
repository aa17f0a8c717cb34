------------------------------- MODULE Backups -------------------------------
(***************************************************************************)
(* Backups: the manager in Grom, the agent that owns the backup volume,    *)
(* and the sets in it.  manager.go, agent.go, agent_client.go, create.go   *)
(* and catalog.go of backend/internal/platform/backup.                     *)
(*                                                                         *)
(* A set holds a version of the database and one of the registry's files.  *)
(* With SQLite the agent archives the database, with PostgreSQL the        *)
(* manager dumps it at the checkpoint and the agent copies the dump.       *)
(* Checksums, paths and sizes are left out: what Inspect accepts is what   *)
(* Create published and nothing changed since.                             *)
(***************************************************************************)
EXTENDS ExclusiveGate, FiniteSets

CONSTANTS Runs,        \* operations of the manager
          Sets,        \* backup sets
          Deletion,    \* the call that deletes a set; the calls of runs are runs
          Backup,      \* the manager's name at the gate
          MaxEvents    \* bound on operations begun, failing calls and stops

ASSUME BackupsAssumption ==
  /\ Backup \in Owners /\ Nobody \notin Owners \cup Sets
  /\ Deletion \notin Runs
  /\ MaxEvents \in Nat

VARIABLES kind,      \* "sqlite" or "postgres"
          dbAt,      \* the version of the database
          registryAt,\* the version of the registry's files
          dump,      \* the version in the PostgreSQL dump file
          run,       \* per operation: where its goroutine is
          last,      \* manager.lastOperation: its identifier
          status,    \* and its status
          deleting,  \* manager.deleting
          call,      \* per caller of the agent: the state of its call
          job,       \* what the agent does under its write lock
          sets,      \* the backup volume
          events     \* how many of what is bounded there were

content == <<kind, dbAt, registryAt>>
manager == <<run, last, status, deleting>>
volume == <<call, job, sets>>
backupVars == <<content, dump, manager, volume, events>>

NoCall == [state |-> "none", orphan |-> FALSE]
NoJob == [op |-> "none", caller |-> Nobody, set |-> Nobody]
NoSet == [phase |-> "none", db |-> 0, registry |-> 0, excused |-> FALSE]

BackupInit ==
  /\ kind \in {"sqlite", "postgres"} /\ dbAt = 0 /\ registryAt = 0 /\ dump = 0
  /\ run = [r \in Runs |-> "idle"]
  /\ last = Nobody /\ status = "complete" /\ deleting = FALSE
  /\ call = [c \in Runs \cup {Deletion} |-> NoCall]
  /\ job = NoJob
  /\ sets = [s \in Sets |-> NoSet]
  /\ events = 0

Statuses == {"starting", "quiescing", "creating", "complete", "failed"}

BackupTypeOK ==
  /\ run \in [Runs -> {"idle", "asked", "quiesce", "drain", "checkpoint", "create",
                       "wait", "record", "close"}]
  /\ last \in Runs \cup {Nobody} /\ status \in Statuses /\ deleting \in BOOLEAN
  /\ \A c \in DOMAIN call : call[c].state \in {"none", "queued", "running", "ok", "failed"}
  /\ job.op \in {"none", "registry", "publish", "remove"}
  /\ \A s \in Sets : sets[s].phase \in {"none", "partial", "listed", "tombstone", "litter"}
  /\ (job.op = "none") <=> (job.set = Nobody)
  /\ deleting => status \in {"complete", "failed"}
  /\ events \in 0 .. MaxEvents

Event == events < MaxEvents /\ events' = events + 1

-----------------------------------------------------------------------------
(***************************************************************************)
(* The manager                                                             *)
(***************************************************************************)
Busy == deleting \/ status \notin {"complete", "failed"}

\* setStatus: only for the operation that is the last one.
Status(r, next) == status' = IF last = r THEN next ELSE status

At(r, phase) == run' = [run EXCEPT ![r] = phase]

\* Start looks, asks the agent whether it is there with the lock released ...
Ask(r) == ~Busy /\ At(r, "asked")

RequestBackup(r) ==
  /\ run[r] = "idle" /\ call[r] = NoCall
  /\ Event
  /\ Ask(r)
  /\ UNCHANGED <<gateVars, content, dump, last, status, deleting, volume>>

\* Fault: the lock was released since the first look, nobody looks again.
StartUnchecked(r) ==
  /\ run[r] = "asked"
  /\ last' = r /\ status' = "starting" /\ At(r, "quiesce")
  /\ UNCHANGED <<gateVars, content, dump, deleting, volume, events>>

\* ... and looks again.
Start(r) ==
  /\ run[r] = "asked"
  /\ IF Busy THEN At(r, "idle") /\ UNCHANGED <<last, status>>
     ELSE last' = r /\ status' = "starting" /\ At(r, "quiesce")
  /\ UNCHANGED <<gateVars, content, dump, deleting, volume, events>>

\* maintenance.Begin: refused, or waiting for the requests inside.
Quiesce(r) ==
  /\ run[r] = "quiesce"
  /\ IF closer = Nobody
     THEN Shut(Backup) /\ At(r, "drain") /\ Status(r, "quiescing")
     ELSE UNCHANGED gateVars /\ At(r, "idle") /\ Status(r, "failed")
  /\ UNCHANGED <<content, dump, last, deleting, volume, events>>

\* Fault: nobody waits for the requests inside.
DrainedAtOnce(r) ==
  /\ run[r] = "drain"
  /\ exclusive' = TRUE /\ UNCHANGED <<inside, closer>> /\ At(r, "checkpoint") /\ UNCHANGED status
  /\ UNCHANGED <<content, dump, last, deleting, volume, events>>

\* Nobody is inside any more, or two minutes have passed.
Drained(r) ==
  /\ run[r] = "drain"
  /\ \/ Grant(Backup) /\ At(r, "checkpoint") /\ UNCHANGED status
     \/ Reopen(Backup) /\ At(r, "idle") /\ Status(r, "failed")
  /\ UNCHANGED <<content, dump, last, deleting, volume, events>>

\* The checkpoint, with PostgreSQL the dump.
Checkpoint(r) ==
  /\ run[r] = "checkpoint"
  /\ \/ /\ dump' = IF kind = "postgres" THEN dbAt ELSE dump
        /\ At(r, "create") /\ Status(r, "creating")
        /\ UNCHANGED events
     \/ /\ Event /\ At(r, "close") /\ Status(r, "failed")
        /\ UNCHANGED dump
  /\ UNCHANGED <<gateVars, content, last, deleting, volume>>

CallAgent(r) ==
  /\ run[r] = "create" /\ call[r] = NoCall
  /\ At(r, "wait")
  /\ call' = [call EXCEPT ![r].state = "queued"]
  /\ UNCHANGED <<gateVars, content, dump, last, status, deleting, job, sets, events>>

\* The agent's answer, and the audit event once there is a set.
Answered(r) ==
  /\ run[r] = "wait" /\ call[r].state \in {"ok", "failed"}
  /\ call' = [call EXCEPT ![r] = NoCall]
  /\ IF call[r].state = "ok" THEN At(r, "record") /\ UNCHANGED status
     ELSE At(r, "close") /\ Status(r, "failed")
  /\ UNCHANGED <<gateVars, content, dump, last, deleting, job, sets, events>>

Record(r) ==
  /\ run[r] = "record"
  /\ At(r, "close")
  /\ \/ Status(r, "complete") /\ UNCHANGED events
     \/ Status(r, "failed") /\ Event
  /\ UNCHANGED <<gateVars, content, dump, last, deleting, volume>>

\* The deferred endMaintenance, after the status.
Close(r) ==
  /\ run[r] = "close"
  /\ Reopen(Backup) /\ At(r, "idle")
  /\ UNCHANGED <<content, dump, last, status, deleting, volume, events>>

Delete ==
  /\ ~Busy
  /\ deleting' = TRUE
  /\ call' = [call EXCEPT ![Deletion].state = "queued"]

\* The event of the request comes first: without it nothing is deleted.
RequestDeletion ==
  /\ call[Deletion] = NoCall
  /\ Event
  /\ Delete
  /\ UNCHANGED <<gateVars, content, dump, run, last, status, job, sets>>

\* The agent answered, or the client left and nobody waits for the answer.
Deleted ==
  /\ deleting
  /\ deleting' = FALSE
  /\ call' = [call EXCEPT ![Deletion] = IF @.state \in {"ok", "failed"} THEN NoCall
                                        ELSE [@ EXCEPT !.orphan = TRUE]]
  /\ UNCHANGED <<gateVars, content, dump, run, last, status, job, sets, events>>

-----------------------------------------------------------------------------
(***************************************************************************)
(* The agent: creating and deleting hold storageMu; a call runs to its end *)
(* even when its caller is gone.                                           *)
(***************************************************************************)
Accept(c, op, s) ==
  /\ job = NoJob /\ call[c].state = "queued"
  /\ job' = [op |-> op, caller |-> c, set |-> s]
  /\ call' = [call EXCEPT ![c].state = "running"]

Finish(result) ==
  /\ job' = NoJob
  /\ call' = [call EXCEPT ![job.caller] = IF @.orphan THEN NoCall
                                          ELSE [@ EXCEPT !.state = result]]

\* Create: a partial directory, and the database in it, first of all.
CreateSet(r, s) ==
  /\ sets[s].phase = "none"
  /\ Accept(r, "registry", s)
  /\ sets' = [sets EXCEPT ![s] = [phase |-> "partial", registry |-> 0,
                                  db |-> IF kind = "postgres" THEN dump ELSE dbAt,
                                  excused |-> call[r].orphan]]
  /\ UNCHANGED <<gateVars, content, dump, manager, events>>

ArchiveRegistry ==
  /\ job.op = "registry"
  /\ job' = [job EXCEPT !.op = "publish"]
  /\ sets' = [sets EXCEPT ![job.set].registry = registryAt]
  /\ UNCHANGED <<gateVars, content, dump, manager, call, events>>

\* The manifest, the checksums, COMPLETE, inspection and the rename; the sync after it may still fail.
Publish ==
  /\ job.op = "publish"
  /\ sets' = [sets EXCEPT ![job.set].phase = "listed"]
  /\ \/ Finish("ok") /\ UNCHANGED events
     \/ Finish("failed") /\ Event
  /\ UNCHANGED <<gateVars, content, dump, manager>>

\* An error before that removes the partial directory.
CreateFails ==
  /\ job.op \in {"registry", "publish"}
  /\ Event
  /\ sets' = [sets EXCEPT ![job.set] = NoSet]
  /\ Finish("failed")
  /\ UNCHANGED <<gateVars, content, dump, manager>>

\* List: complete sets with a valid manifest, by the prefix of their names.
Listed == {s \in Sets : sets[s].phase = "listed"}

\* Delete: a listed set is renamed to a tombstone ...
DeleteSet(s) ==
  /\ s \in Listed
  /\ Accept(Deletion, "remove", s)
  /\ sets' = [sets EXCEPT ![s].phase = "tombstone"]
  /\ UNCHANGED <<gateVars, content, dump, manager, events>>

\* ... there is no such set ...
NoSuchSet ==
  /\ job = NoJob /\ call[Deletion].state = "queued"
  /\ call' = [call EXCEPT ![Deletion] = IF @.orphan THEN NoCall ELSE [@ EXCEPT !.state = "failed"]]
  /\ UNCHANGED <<gateVars, content, dump, manager, job, sets, events>>

\* ... and the tombstone is removed, or left behind.
RemoveTombstone ==
  /\ job.op = "remove"
  /\ \/ sets' = [sets EXCEPT ![job.set] = NoSet] /\ Finish("ok") /\ UNCHANGED events
     \/ sets' = [sets EXCEPT ![job.set].phase = "litter"] /\ Finish("failed") /\ Event
  /\ UNCHANGED <<gateVars, content, dump, manager>>

\* The agent's container restarts; what it was writing stays, unlisted.
BackupAgentStops ==
  /\ job # NoJob
  /\ Event
  /\ job' = NoJob
  /\ call' = [c \in DOMAIN call |-> IF call[c].state \notin {"queued", "running"} THEN call[c]
                                    ELSE IF call[c].orphan THEN NoCall
                                    ELSE [call[c] EXCEPT !.state = "failed"]]
  /\ sets' = [sets EXCEPT ![job.set].phase = "litter"]
  /\ UNCHANGED <<gateVars, content, dump, manager>>

\* What a stop of Grom leaves of the manager: calls that nobody waits for.
ManagerStops ==
  /\ run' = [r \in Runs |-> "idle"]
  /\ last' = Nobody /\ status' = "complete" /\ deleting' = FALSE
  /\ call' = [c \in DOMAIN call |-> IF call[c].state \in {"queued", "running"}
                                    THEN [call[c] EXCEPT !.orphan = TRUE] ELSE NoCall]
  /\ sets' = [s \in Sets |-> [sets[s] EXCEPT !.excused = @ \/ sets[s].phase = "partial"]]

BackupStep ==
  \/ \E r \in Runs : \/ RequestBackup(r) \/ Start(r) \/ Quiesce(r) \/ Drained(r)
                     \/ Checkpoint(r) \/ CallAgent(r) \/ Answered(r) \/ Record(r) \/ Close(r)
                     \/ \E s \in Sets : CreateSet(r, s)
  \/ RequestDeletion \/ Deleted
  \/ ArchiveRegistry \/ Publish \/ CreateFails
  \/ \E s \in Sets : DeleteSet(s)
  \/ NoSuchSet \/ RemoveTombstone \/ BackupAgentStops

-----------------------------------------------------------------------------
\* A listed set holds the database and the registry of one moment, unless
\* Grom stopped while the agent wrote it.
BackupsConsistent == \A s \in Listed : sets[s].excused \/ sets[s].db = sets[s].registry

\* The same without the excuses.
EveryBackupConsistent == \A s \in Listed : sets[s].db = sets[s].registry
=============================================================================
