--------------------------- MODULE CollectionAgent ---------------------------
(***************************************************************************)
(* The maintenance agent of                                                *)
(* backend/internal/platform/registrymaintenance/agent.go: it supervises   *)
(* the process of Distribution and runs the collector in its place.        *)
(*                                                                         *)
(* Start and Stop of commandRuntime are called by Serve at boot and by     *)
(* collect, which a mutex serialises; so one Start and one Stop are under  *)
(* way at most.  A deadline may pass whenever its caller still waits.      *)
(* When the agent exits its container ends, and every process in it: what  *)
(* the agent does between that decision and its exit is left out.          *)
(***************************************************************************)
EXTENDS Naturals

VARIABLES agent,      \* "boot", "serve", or "down" until the container restarts
          child,      \* Distribution: "none", "starting", "ready" or "exited"
          slot,       \* commandRuntime.command and stopping: "empty", "held", "stopping"
          fatal,      \* the fatal channel holds an error
          collection, \* collect: "idle", "stop", "collect" or "restart"
          start,      \* Start: "idle", "slot", "ready" or "cleanup"
          flaw,       \* whether the collection under way met an error
          reported,   \* whether the last Start returned an error
          order       \* Grom's call: "none", "sent", "left", "done" or "failed"

agentVars == <<agent, child, slot, fatal, collection, start, flaw, reported, order>>

AgentInit ==
  /\ agent = "serve" /\ child = "ready" /\ slot = "held" /\ fatal = FALSE
  /\ collection = "idle" /\ start = "idle" /\ flaw = FALSE /\ reported = FALSE
  /\ order = "none"

AgentTypeOK ==
  /\ agent \in {"boot", "serve", "down"}
  /\ child \in {"none", "starting", "ready", "exited"}
  /\ slot \in {"empty", "held", "stopping"}
  /\ collection \in {"idle", "stop", "collect", "restart"}
  /\ start \in {"idle", "slot", "ready", "cleanup"}
  /\ {fatal, flaw, reported} \subseteq BOOLEAN
  /\ order \in {"none", "sent", "left", "done", "failed"}
  /\ start # "idle" => agent = "boot" \/ collection = "restart"
  /\ slot = "empty" <=> child = "none"

-----------------------------------------------------------------------------
(***************************************************************************)
(* The process of Distribution                                             *)
(***************************************************************************)
BecomeReady ==
  /\ child = "starting"
  /\ child' = "ready"
  /\ UNCHANGED <<agent, slot, fatal, collection, start, flaw, reported, order>>

ChildEnds ==
  /\ child \in {"starting", "ready"}
  /\ child' = "exited"
  /\ UNCHANGED <<agent, slot, fatal, collection, start, flaw, reported, order>>

\* On SIGTERM.
ChildStops == slot = "stopping" /\ ChildEnds

\* wait: the slot is cleared before done is closed, and an exit nobody asked
\* for is reported in a channel of one element.
Reap ==
  /\ child = "exited"
  /\ child' = "none" /\ slot' = "empty"
  /\ fatal' = (fatal \/ slot = "held")
  /\ UNCHANGED <<agent, collection, start, flaw, reported, order>>

-----------------------------------------------------------------------------
(***************************************************************************)
(* Start                                                                   *)
(***************************************************************************)
\* A caller's answer; one that left gets none.
Answer(result) == order' = IF order = "sent" THEN result ELSE "none"

\* What follows a Start that returned; a failed collection stays failed.
StartReturns(failed) ==
  /\ start' = "idle"
  /\ reported' = failed
  /\ IF agent = "boot"
     THEN /\ agent' = IF failed THEN "boot" ELSE "serve"
          /\ UNCHANGED <<collection, flaw, order>>
     ELSE /\ collection' = "idle" /\ flaw' = FALSE
          /\ Answer(IF failed \/ flaw THEN "failed" ELSE "done")
          /\ UNCHANGED agent

\* Fault: one that is being stopped is taken for a running one too.
FindAnyProcess ==
  /\ start = "slot" /\ slot # "empty"
  /\ StartReturns(FALSE)
  /\ UNCHANGED <<child, slot, fatal>>

\* A process that nobody stops is taken for a running Distribution; when it
\* is being stopped Start waits for its end, at most until the deadline.
FindProcess ==
  /\ start = "slot" /\ slot = "held"
  /\ StartReturns(FALSE)
  /\ UNCHANGED <<child, slot, fatal>>

StartTimesOut ==
  /\ start = "slot" /\ slot = "stopping"
  /\ StartReturns(TRUE)
  /\ UNCHANGED <<child, slot, fatal>>

Spawn ==
  /\ start = "slot" /\ slot = "empty"
  /\ child' = "starting" /\ slot' = "held" /\ start' = "ready"
  /\ UNCHANGED <<agent, fatal, collection, flaw, reported, order>>

SpawnFails ==
  /\ start = "slot" /\ slot = "empty"
  /\ StartReturns(TRUE)
  /\ UNCHANGED <<child, slot, fatal>>

SeeReady ==
  /\ start = "ready" /\ child = "ready"
  /\ StartReturns(FALSE)
  /\ UNCHANGED <<child, slot, fatal>>

\* Stop is called for what was spawned, if it is still there.
CleanUp ==
  /\ start' = "cleanup"
  /\ slot' = IF slot = "empty" THEN "empty" ELSE "stopping"
  /\ UNCHANGED <<agent, child, collection, flaw, reported, order>>

\* waitReady takes an error out of the channel that Serve listens on too,
\* whichever process it is about.
TakeFatal ==
  /\ start = "ready" /\ fatal
  /\ CleanUp /\ fatal' = FALSE

NotReadyInTime ==
  /\ start = "ready"
  /\ CleanUp /\ UNCHANGED fatal

\* Stop returned, in time or not: nothing happens with its error.
CleanedUp ==
  /\ start = "cleanup"
  /\ StartReturns(TRUE)
  /\ UNCHANGED <<child, slot, fatal>>

-----------------------------------------------------------------------------
(***************************************************************************)
(* collect                                                                 *)
(***************************************************************************)
\* Fault: the collector starts although Distribution did not stop in time.
StoppedOrNot == collection = "stop"

\* Stop returned without an error: there is no process any more.
Stopped == collection = "stop" /\ slot = "empty"

\* The mutex and the measure before; Stop sends SIGTERM.  A call whose client
\* is gone runs all the same.
Collect ==
  /\ agent = "serve" /\ collection = "idle" /\ order \in {"sent", "left"}
  /\ collection' = "stop"
  /\ slot' = IF slot = "empty" THEN "empty" ELSE "stopping"
  /\ UNCHANGED <<agent, child, fatal, start, flaw, reported, order>>

MeasureFails ==
  /\ agent = "serve" /\ collection = "idle" /\ order \in {"sent", "left"}
  /\ Answer("failed")
  /\ UNCHANGED <<agent, child, slot, fatal, collection, start, flaw, reported>>

RunCollector ==
  /\ Stopped
  /\ collection' = "collect"
  /\ UNCHANGED <<agent, child, slot, fatal, start, flaw, reported, order>>

Restart(failed) ==
  /\ collection' = "restart" /\ start' = "slot" /\ flaw' = failed
  /\ UNCHANGED <<agent, child, slot, fatal, reported, order>>

StopTimesOut == collection = "stop" /\ slot # "empty" /\ Restart(TRUE)

CollectorEnds == collection = "collect" /\ Restart(FALSE)

\* It is killed when its caller is gone; it, or the second measure, may fail.
CollectorFails == collection = "collect" /\ Restart(TRUE)

-----------------------------------------------------------------------------
(***************************************************************************)
(* Serve                                                                   *)
(***************************************************************************)
\* The container ends: every process in it does.
AgentEnds ==
  /\ agent' = "down" /\ child' = "none" /\ slot' = "empty" /\ fatal' = FALSE
  /\ collection' = "idle" /\ start' = "idle" /\ flaw' = FALSE /\ reported' = FALSE

SeeFatal ==
  /\ agent = "serve" /\ fatal
  /\ AgentEnds
  /\ Answer("failed")

\* A signal makes Serve return.
AgentStops ==
  /\ agent # "down"
  /\ AgentEnds
  /\ Answer("failed")

BootFails ==
  /\ agent = "boot" /\ start = "idle"
  /\ AgentEnds
  /\ UNCHANGED order

AgentBoots ==
  /\ agent = "down"
  /\ agent' = "boot" /\ start' = "slot"
  /\ child' = "none" /\ slot' = "empty"
  /\ UNCHANGED <<fatal, collection, flaw, reported, order>>

AgentRuns ==
  \/ BecomeReady \/ ChildStops \/ Reap
  \/ FindProcess \/ Spawn \/ SeeReady \/ TakeFatal \/ CleanedUp
  \/ Collect \/ RunCollector \/ CollectorEnds
  \/ SeeFatal \/ AgentBoots
  \/ BootFails

\* A process that ends by itself, a call that fails, a deadline that passes.
AgentTrouble ==
  \/ ChildEnds \/ SpawnFails \/ StartTimesOut \/ NotReadyInTime
  \/ MeasureFails \/ StopTimesOut \/ CollectorFails
  \/ AgentStops

-----------------------------------------------------------------------------
\* While the agent serves and nothing is under way, Distribution has a
\* process, or its exit is reported to Serve, or a start told that it failed.
NeverSilentlyDown ==
  agent = "serve" /\ collection = "idle" /\ child = "none" => fatal \/ reported
=============================================================================
