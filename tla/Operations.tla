----------------------------- MODULE Operations -----------------------------
(***************************************************************************)
(* What operators do to a running installation: collections, backups and   *)
(* recoveries, over the gate of ExclusiveGate, which Maintenance           *)
(* implements.  runGarbageCollection of backend/internal/httpapi/server.go *)
(* calls CollectionAgent; a run of the manager calls the agent of Backups; *)
(* Recovery takes over while the stack is stopped.                         *)
(*                                                                         *)
(* A request writes the registry and then the database, inside the gate    *)
(* from its first step to its last: a push, or the pull that leads an      *)
(* import, whose handler stays until the import ends even when its client  *)
(* has left (pull_through_service.go:169).                                 *)
(***************************************************************************)
EXTENDS Recovery, CollectionAgent

CONSTANTS Writer,     \* the request that writes
          Collector,  \* the name of the collection at the gate
          MaxWrites   \* bound on the versions of the content

ASSUME OperationsAssumption ==
  /\ Writer \in Requests
  /\ Collector \in Owners /\ Collector # Backup
  /\ MaxWrites \in Nat

VARIABLES gc,     \* runGarbageCollection: "idle", "drain", "granted" or "wait"
          write   \* the write: "idle", "begun" or "copied"

vars == <<gateVars, backupVars, recoveryVars, agentVars, gc, write>>

Init ==
  /\ GateInit /\ BackupInit /\ RecoveryInit /\ AgentInit
  /\ gc = "idle" /\ write = "idle"

TypeOK ==
  /\ BackupTypeOK /\ RecoveryTypeOK /\ AgentTypeOK
  /\ inside \subseteq {Writer} /\ exclusive \in BOOLEAN
  /\ closer \in {Nobody, Backup, Collector}
  /\ (closer = Collector) <=> (gc # "idle")
  /\ (closer = Backup) <=>
       \E r \in Runs : run[r] \in {"drain", "checkpoint", "create", "wait", "record", "close"}
  /\ write \in {"idle", "begun", "copied"}
  /\ dbAt \in 0 .. MaxWrites /\ registryAt \in 0 .. MaxWrites

-----------------------------------------------------------------------------
(***************************************************************************)
(* Writes                                                                  *)
(***************************************************************************)
Elsewhere == UNCHANGED <<recoveryVars, agentVars, gc, kind, dump, manager, volume, events>>

BeginWrite ==
  /\ grom = "up" /\ write = "idle"
  /\ Admit(Writer)
  /\ write' = "begun"
  /\ Elsewhere /\ UNCHANGED <<dbAt, registryAt>>

WriteRegistry ==
  /\ write = "begun" /\ child = "ready" /\ registryAt < MaxWrites
  /\ registryAt' = registryAt + 1
  /\ write' = "copied"
  /\ Elsewhere /\ UNCHANGED <<gateVars, dbAt>>

\* The write ends, and its request leaves.
EndWrite ==
  /\ Depart(Writer)
  /\ write' = "idle"
  /\ Elsewhere /\ UNCHANGED registryAt

\* The database is told of the write, or that fails and is only logged
\* (gateway.go:65): Distribution has answered, and the request ends.  A version
\* names a moment, so that what the database has by then is the version of now.
WriteDatabase ==
  /\ write = "copied"
  /\ dbAt' = registryAt
  /\ EndWrite

\* Distribution refuses the write, or its client gives up before.
WriteFails ==
  /\ write = "begun"
  /\ EndWrite
  /\ UNCHANGED dbAt

-----------------------------------------------------------------------------
(***************************************************************************)
(* Collections                                                             *)
(***************************************************************************)
OutsideAgent == UNCHANGED <<backupVars, recoveryVars, write>>
QuietAgent == UNCHANGED <<agent, child, slot, fatal, collection, start, flaw, reported>>

BeginCollection ==
  /\ grom = "up" /\ gc = "idle"
  /\ Shut(Collector)
  /\ Event
  /\ gc' = "drain"
  /\ UNCHANGED <<content, dump, manager, volume, recoveryVars, write, agentVars>>

CollectionDrained ==
  /\ gc = "drain"
  /\ Grant(Collector)
  /\ gc' = "granted"
  /\ OutsideAgent /\ UNCHANGED agentVars

\* The start is recorded, and the agent called; its mutex makes the call wait
\* for one that an earlier client left behind.
SendOrder ==
  /\ gc = "granted" /\ order = "none"
  /\ order' = "sent" /\ gc' = "wait"
  /\ QuietAgent /\ OutsideAgent /\ UNCHANGED gateVars

\* The answer is recorded, and the gate opens.
CollectionAnswered ==
  /\ gc = "wait" /\ order \in {"done", "failed"}
  /\ order' = "none" /\ gc' = "idle"
  /\ Reopen(Collector)
  /\ QuietAgent /\ OutsideAgent

\* The client leaves, or a record cannot be written: the gate opens at once.
CollectionAbandoned ==
  /\ gc # "idle"
  /\ order' = IF gc # "wait" THEN order ELSE IF order = "sent" THEN "left" ELSE "none"
  /\ gc' = "idle"
  /\ Reopen(Collector)
  /\ QuietAgent /\ OutsideAgent

-----------------------------------------------------------------------------
GromStops ==
  /\ grom # "down"
  /\ Event
  /\ grom' = "down"
  /\ inside' = {} /\ closer' = Nobody /\ exclusive' = FALSE
  /\ ManagerStops
  /\ write' = "idle"
  /\ gc' = "idle"
  /\ order' = IF order = "sent" THEN "left" ELSE IF gc = "wait" THEN "none" ELSE order
  /\ QuietAgent
  /\ UNCHANGED <<content, dump, job, mode, placed, restore, marker, origin,
                 ephemeral, recorded, undone>>

\* Events of the agent that need no bound: the operator stops it when Grom is
\* down, and the collector dies with its caller.
AgentExpected == (agent' = "down" /\ grom = "down") \/ (collection' = "restart" /\ order = "left")

\* A dead Grom starts nothing; the agents run in containers of their own, and
\* are stopped for a recovery.
Next ==
  \/ BeginWrite \/ WriteRegistry \/ WriteDatabase \/ WriteFails
  \/ BeginCollection \/ CollectionDrained \/ SendOrder \/ CollectionAnswered
  \/ CollectionAbandoned
  \/ GromStops
  \/ /\ BackupStep
     /\ mode = "normal"
     /\ grom # "up" => UNCHANGED manager
     /\ UNCHANGED <<recoveryVars, agentVars, gc, write>>
  \/ /\ RecoveryStep
     /\ EnterRecovery => agent = "down"
     /\ UNCHANGED <<agentVars, gc, write>>
  \/ /\ AgentRuns
     /\ mode = "normal"
     /\ UNCHANGED <<gateVars, backupVars, recoveryVars, gc, write>>
  \/ /\ AgentTrouble
     /\ IF AgentExpected THEN UNCHANGED events ELSE Event
     /\ UNCHANGED <<gateVars, content, dump, manager, volume, recoveryVars, gc, write>>

Spec == Init /\ [][Next]_vars

-----------------------------------------------------------------------------
\* The collector never runs while a process of Distribution does; and as long
\* as its caller is there, no counted request is inside the gate and no backup
\* is being written that somebody waits for.
CollectorAlone ==
  collection = "collect" =>
    /\ child = "none"
    /\ order = "sent" =>
         /\ inside = {}
         /\ job.op \in {"registry", "publish"} => call[job.caller].orphan
=============================================================================
