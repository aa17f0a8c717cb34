----------------------------- MODULE Maintenance -----------------------------
(***************************************************************************)
(* The maintenance controller of                                           *)
(* backend/internal/platform/maintenance/controller.go.  Every counted     *)
(* HTTP request enters and leaves it; a garbage collection, a repository   *)
(* removal or a backup begins maintenance, which refuses new requests and  *)
(* waits on a channel that the last counted request closes.                *)
(*                                                                         *)
(* A channel is an element of Channels.  Enter takes one that nothing      *)
(* refers to any more, so the model needs no bound on how often the gate   *)
(* is used.  A refused Enter or Begin changes nothing: the caller answers  *)
(* 503 and is outside, as it was.                                          *)
(***************************************************************************)
EXTENDS Naturals, FiniteSets

CONSTANTS Requests,   \* requests that maintenanceGate counts
          Owners,     \* callers of Begin
          TimedOwners,\* callers whose context has a deadline (removal, backup)
          Channels,   \* channel identities
          Nobody      \* no owner, no channel

ASSUME MaintenanceAssumption ==
  /\ TimedOwners \subseteq Owners
  /\ Nobody \notin Owners \cup Channels

VARIABLES active,    \* controller.active
          inFlight,  \* controller.inFlight
          zero,      \* controller.zero
          closed,    \* the channels that have been closed
          serving,   \* requests between Enter and leave
          phase,     \* where each owner is: "idle", "draining" or "granted"
          waitsOn,   \* the channel a draining Begin captured, or Nobody
          expired    \* owners whose context is done

vars == <<active, inFlight, zero, closed, serving, phase, waitsOn, expired>>

TypeOK ==
  /\ active \in BOOLEAN
  /\ inFlight \in Nat
  /\ zero \in Channels
  /\ closed \subseteq Channels
  /\ serving \subseteq Requests
  /\ phase \in [Owners -> {"idle", "draining", "granted"}]
  /\ waitsOn \in [Owners -> Channels \cup {Nobody}]
  /\ expired \subseteq Owners

\* New: the channel of the fresh controller is closed at once.
Init ==
  /\ active = FALSE
  /\ inFlight = 0
  /\ zero \in Channels
  /\ closed = {zero}
  /\ serving = {}
  /\ phase = [o \in Owners |-> "idle"]
  /\ waitsOn = [o \in Owners |-> Nobody]
  /\ expired = {}

\* Fault: Enter forgets to make a fresh channel.
KeepZero == UNCHANGED <<zero, closed>>

\* make(chan struct{}): an open channel that nobody else holds.
MakeZero ==
  \E c \in Channels :
    /\ c # zero
    /\ \A o \in Owners : waitsOn[o] # c
    /\ zero' = c
    /\ closed' = closed \ {c}

\* Fault: Enter does not look at active.
EnterUnchecked(r) ==
  /\ r \notin serving
  /\ IF inFlight = 0 THEN MakeZero ELSE UNCHANGED <<zero, closed>>
  /\ inFlight' = inFlight + 1
  /\ serving' = serving \cup {r}
  /\ UNCHANGED <<active, phase, waitsOn, expired>>

Enter(r) ==
  /\ r \notin serving
  /\ ~active
  /\ IF inFlight = 0 THEN MakeZero ELSE UNCHANGED <<zero, closed>>
  /\ inFlight' = inFlight + 1
  /\ serving' = serving \cup {r}
  /\ UNCHANGED <<active, phase, waitsOn, expired>>

\* Fault: a handler that leaves twice is counted twice.
LeaveAgain(r) ==
  /\ serving' = serving \ {r}
  /\ inFlight' = inFlight - 1
  /\ closed' = IF inFlight = 1 THEN closed \cup {zero} ELSE closed
  /\ UNCHANGED <<active, zero, phase, waitsOn, expired>>

\* Fault: Leave tests the counter before it decrements it.
LeaveOffByOne(r) ==
  /\ r \in serving
  /\ serving' = serving \ {r}
  /\ inFlight' = inFlight - 1
  /\ closed' = IF inFlight = 0 THEN closed \cup {zero} ELSE closed
  /\ UNCHANGED <<active, zero, phase, waitsOn, expired>>

\* The function Enter returned; sync.Once lets it act once per Enter.
Leave(r) ==
  /\ r \in serving
  /\ serving' = serving \ {r}
  /\ inFlight' = inFlight - 1
  /\ closed' = IF inFlight = 1 THEN closed \cup {zero} ELSE closed
  /\ UNCHANGED <<active, zero, phase, waitsOn, expired>>

\* Fault: Begin does not look at active.
BeginUnchecked(o) ==
  /\ phase[o] = "idle"
  /\ active' = TRUE
  /\ waitsOn' = [waitsOn EXCEPT ![o] = zero]
  /\ phase' = [phase EXCEPT ![o] = "draining"]
  /\ UNCHANGED <<inFlight, zero, closed, serving, expired>>

\* Begin's first critical section.
Begin(o) ==
  /\ phase[o] = "idle"
  /\ ~active
  /\ active' = TRUE
  /\ waitsOn' = [waitsOn EXCEPT ![o] = zero]
  /\ phase' = [phase EXCEPT ![o] = "draining"]
  /\ UNCHANGED <<inFlight, zero, closed, serving, expired>>

\* Fault: a select with a default branch does not wait for the drain.
GrantedAtOnce(o) ==
  /\ phase[o] = "draining"
  /\ phase' = [phase EXCEPT ![o] = "granted"]
  /\ waitsOn' = [waitsOn EXCEPT ![o] = Nobody]
  /\ UNCHANGED <<active, inFlight, zero, closed, serving, expired>>

\* The select receives from the captured channel.
Granted(o) ==
  /\ phase[o] = "draining"
  /\ waitsOn[o] \in closed
  /\ phase' = [phase EXCEPT ![o] = "granted"]
  /\ waitsOn' = [waitsOn EXCEPT ![o] = Nobody]
  /\ UNCHANGED <<active, inFlight, zero, closed, serving, expired>>

\* The caller's context ends: its deadline passes or its client goes away.
Expire(o) ==
  /\ phase[o] = "draining"
  /\ o \notin expired
  /\ expired' = expired \cup {o}
  /\ UNCHANGED <<active, inFlight, zero, closed, serving, phase, waitsOn>>

\* Fault: giving up leaves the gate shut.
AbortKeepsActive(o) ==
  /\ phase[o] = "draining"
  /\ o \in expired
  /\ phase' = [phase EXCEPT ![o] = "idle"]
  /\ waitsOn' = [waitsOn EXCEPT ![o] = Nobody]
  /\ expired' = expired \ {o}
  /\ UNCHANGED <<active, inFlight, zero, closed, serving>>

\* Fault: the context is looked at only after the drain.
AbortAfterDrain(o) ==
  /\ phase[o] = "draining"
  /\ waitsOn[o] \in closed
  /\ o \in expired
  /\ active' = FALSE
  /\ phase' = [phase EXCEPT ![o] = "idle"]
  /\ waitsOn' = [waitsOn EXCEPT ![o] = Nobody]
  /\ expired' = expired \ {o}
  /\ UNCHANGED <<inFlight, zero, closed, serving>>

\* The select receives from ctx.Done instead (either, when both are ready).
Abort(o) ==
  /\ phase[o] = "draining"
  /\ o \in expired
  /\ active' = FALSE
  /\ phase' = [phase EXCEPT ![o] = "idle"]
  /\ waitsOn' = [waitsOn EXCEPT ![o] = Nobody]
  /\ expired' = expired \ {o}
  /\ UNCHANGED <<inFlight, zero, closed, serving>>

\* Fault: the end function leaves the gate shut.
EndKeepsActive(o) ==
  /\ phase[o] = "granted"
  /\ phase' = [phase EXCEPT ![o] = "idle"]
  /\ expired' = expired \ {o}
  /\ UNCHANGED <<active, inFlight, zero, closed, serving, waitsOn>>

\* The function Begin returned.
End(o) ==
  /\ phase[o] = "granted"
  /\ active' = FALSE
  /\ phase' = [phase EXCEPT ![o] = "idle"]
  /\ expired' = expired \ {o}
  /\ UNCHANGED <<inFlight, zero, closed, serving, waitsOn>>

Next ==
  \/ \E r \in Requests : Enter(r) \/ Leave(r)
  \/ \E o \in Owners : Begin(o) \/ Granted(o) \/ Expire(o) \/ Abort(o) \/ End(o)

Spec == Init /\ [][Next]_vars

-----------------------------------------------------------------------------
(***************************************************************************)
(* Safety                                                                  *)
(***************************************************************************)
\* While a maintenance operation holds exclusive use no counted request is
\* being served: the collector, the removal and the backup see quiet state.
ExclusiveWhileGranted ==
  \A o \in Owners : phase[o] = "granted" => serving = {}

\* Two maintenance operations never overlap, drains included: the gate that
\* one of them shut is not opened by another.
OneMaintenance ==
  \A o, p \in Owners : (phase[o] # "idle" /\ phase[p] # "idle") => o = p

\* The last request to leave closes an open channel: closing a closed one
\* would panic in the middle of a request (controller.go:41).
CloseIsSafe == serving # {} => zero \notin closed

\* The gate is shut exactly while some operation drains or holds it; an
\* operation that gave up leaves it open.
ShutOnlyByOwner == active <=> \E o \in Owners : phase[o] # "idle"

-----------------------------------------------------------------------------
(***************************************************************************)
(* Liveness.  A select that can proceed does; a deadline passes; a granted *)
(* operation ends, its callers bound it or wait for the collector.         *)
(***************************************************************************)
OwnerFairness ==
  \A o \in Owners : WF_vars(Granted(o) \/ Abort(o)) /\ WF_vars(End(o))

DeadlineFairness == \A o \in TimedOwners : WF_vars(Expire(o))

\* Counted requests finish.
RequestFairness == \A r \in Requests : WF_vars(Leave(r))

FairSpec == Spec /\ OwnerFairness

\* With deadlines Begin returns although a request may stream for ever: a
\* drain that cannot finish does not hold the gate shut.
TimedDrainReturns ==
  DeadlineFairness =>
    \A o \in TimedOwners : phase[o] = "draining" ~> phase[o] # "draining"

\* Without any deadline Begin still returns when requests finish, since a
\* shut gate admits no new ones: maintenance is not starved by traffic.
DrainReturns ==
  RequestFairness =>
    \A o \in Owners : phase[o] = "draining" ~> phase[o] # "draining"

\* As long as requests finish, the gate does not stay shut.
GateReopens == RequestFairness => (active ~> ~active)

-----------------------------------------------------------------------------
(***************************************************************************)
(* The controller implements the abstract gate.                            *)
(***************************************************************************)
ClosedBy == IF \E o \in Owners : phase[o] # "idle"
            THEN CHOOSE o \in Owners : phase[o] # "idle"
            ELSE Nobody

Gate == INSTANCE ExclusiveGate WITH
          inside <- serving,
          closer <- ClosedBy,
          exclusive <- \E o \in Owners : phase[o] = "granted"

\* Every step of the counter and its channel is a step of the gate.
ImplementsGate == Gate!GateSpec
=============================================================================
