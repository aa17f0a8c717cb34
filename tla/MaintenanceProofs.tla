-------------------------- MODULE MaintenanceProofs --------------------------
(***************************************************************************)
(* Proofs about the maintenance controller, for every set of requests,     *)
(* owners and channels.                                                    *)
(*                                                                         *)
(* ExclusiveWhileGranted is not inductive: that the captured channel is    *)
(* closed says nothing of serving unless that channel is still the         *)
(* controller's, which holds because a shut gate admits nobody, and unless *)
(* the channel is closed exactly when the counter is zero and the counter  *)
(* counts the requests being served.  IInv adds those three facts.         *)
(***************************************************************************)
EXTENDS Maintenance, FiniteSetTheorems, TLAPS

CountsServing == IsFiniteSet(serving) /\ inFlight = Cardinality(serving)

ClosedAtZero == zero \in closed <=> inFlight = 0

WaitsOnCurrent == \A o \in Owners : phase[o] = "draining" => waitsOn[o] = zero

IInv == /\ TypeOK
        /\ CountsServing
        /\ ClosedAtZero
        /\ WaitsOnCurrent
        /\ ShutOnlyByOwner
        /\ OneMaintenance
        /\ ExclusiveWhileGranted

-----------------------------------------------------------------------------
\* The controller starts open, with an empty count and a closed channel.
LEMMA InitIInv == Init => IInv
<1> SUFFICES ASSUME Init PROVE IInv
  OBVIOUS
<1>1. TypeOK
  BY DEF Init, TypeOK
<1>2. CountsServing /\ ClosedAtZero
  BY FS_EmptySet DEF Init, CountsServing, ClosedAtZero
<1>3. WaitsOnCurrent /\ ShutOnlyByOwner /\ OneMaintenance /\ ExclusiveWhileGranted
  BY DEF Init, WaitsOnCurrent, ShutOnlyByOwner, OneMaintenance, ExclusiveWhileGranted
<1> QED
  BY <1>1, <1>2, <1>3 DEF IInv

\* A request that enters an open gate is counted, and gets a channel that is
\* open although the previous one was closed when the count reached zero.
LEMMA EnterIInv == ASSUME IInv, NEW r \in Requests, Enter(r) PROVE IInv'
<1>1. /\ inFlight \in Nat
      /\ inFlight' = inFlight + 1
      /\ serving' = serving \cup {r}
      /\ r \notin serving
  BY DEF IInv, TypeOK, Enter
<1>2. CountsServing'
  BY <1>1, FS_AddElement DEF IInv, CountsServing
<1>3. zero' \in Channels /\ closed' \subseteq Channels /\ zero' \notin closed'
  BY DEF IInv, TypeOK, ClosedAtZero, Enter, MakeZero
<1>4. TypeOK'
  BY <1>1, <1>3 DEF IInv, TypeOK, Enter
<1>5. ClosedAtZero'
  BY <1>1, <1>3 DEF ClosedAtZero
<1>6. \A o \in Owners : phase[o] = "idle" /\ phase'[o] = "idle"
  BY DEF IInv, TypeOK, ShutOnlyByOwner, Enter
<1>7. WaitsOnCurrent' /\ ShutOnlyByOwner' /\ OneMaintenance' /\ ExclusiveWhileGranted'
  BY <1>6 DEF IInv, WaitsOnCurrent, ShutOnlyByOwner, OneMaintenance,
              ExclusiveWhileGranted, Enter
<1> QED
  BY <1>2, <1>4, <1>5, <1>7 DEF IInv

\* The last request to leave closes the channel the draining operation waits on.
LEMMA LeaveIInv == ASSUME IInv, NEW r \in Requests, Leave(r) PROVE IInv'
<1>1. /\ inFlight \in Nat
      /\ serving' = serving \ {r}
      /\ r \in serving
      /\ inFlight' = inFlight - 1
  BY DEF IInv, TypeOK, Leave
<1>2. inFlight # 0
  BY <1>1, FS_EmptySet DEF IInv, CountsServing
<1>3. CountsServing'
  BY <1>1, FS_RemoveElement DEF IInv, CountsServing
<1>4. TypeOK'
  BY <1>1, <1>2 DEF IInv, TypeOK, Leave
<1>5. ClosedAtZero'
  BY <1>1, <1>2 DEF IInv, ClosedAtZero, Leave
<1>6. WaitsOnCurrent' /\ ShutOnlyByOwner' /\ OneMaintenance' /\ ExclusiveWhileGranted'
  BY DEF IInv, WaitsOnCurrent, ShutOnlyByOwner, OneMaintenance,
         ExclusiveWhileGranted, Leave
<1> QED
  BY <1>3, <1>4, <1>5, <1>6 DEF IInv

\* Steps of an owner leave the count and its channel alone.
LEMMA OwnerKeepsCount ==
  ASSUME IInv, UNCHANGED <<inFlight, zero, closed, serving>>
  PROVE  CountsServing' /\ ClosedAtZero'
BY DEF IInv, CountsServing, ClosedAtZero

\* Begin finds every owner idle, since the gate is open.
LEMMA BeginIInv == ASSUME IInv, NEW o \in Owners, Begin(o) PROVE IInv'
<1>1. /\ phase \in [Owners -> {"idle", "draining", "granted"}]
      /\ phase' = [phase EXCEPT ![o] = "draining"]
      /\ waitsOn \in [Owners -> Channels \cup {Nobody}]
      /\ waitsOn' = [waitsOn EXCEPT ![o] = zero]
      /\ active' = TRUE
      /\ \A p \in Owners : phase[p] = "idle"
  BY DEF IInv, TypeOK, ShutOnlyByOwner, Begin
<1>2. TypeOK'
  BY <1>1 DEF IInv, TypeOK, Begin
<1>3. CountsServing' /\ ClosedAtZero'
  BY OwnerKeepsCount DEF Begin
<1>4. WaitsOnCurrent'
  BY <1>1 DEF WaitsOnCurrent, Begin
<1>5. ShutOnlyByOwner' /\ OneMaintenance' /\ ExclusiveWhileGranted'
  BY <1>1 DEF ShutOnlyByOwner, OneMaintenance, ExclusiveWhileGranted
<1> QED
  BY <1>2, <1>3, <1>4, <1>5 DEF IInv

\* Exclusive use is granted only when nobody is served.
LEMMA GrantedIInv == ASSUME IInv, NEW o \in Owners, Granted(o) PROVE IInv'
<1>1. /\ phase \in [Owners -> {"idle", "draining", "granted"}]
      /\ phase[o] = "draining"
      /\ phase' = [phase EXCEPT ![o] = "granted"]
      /\ waitsOn \in [Owners -> Channels \cup {Nobody}]
      /\ waitsOn' = [waitsOn EXCEPT ![o] = Nobody]
      /\ active' = active
      /\ serving' = serving
      /\ zero' = zero
  BY DEF IInv, TypeOK, Granted
<1>2. inFlight = 0
  BY <1>1 DEF IInv, WaitsOnCurrent, ClosedAtZero, Granted
<1>3. serving = {}
  BY <1>2, FS_EmptySet DEF IInv, CountsServing
<1>4. TypeOK'
  BY <1>1 DEF IInv, TypeOK, Granted
<1>5. CountsServing' /\ ClosedAtZero'
  BY OwnerKeepsCount DEF Granted
<1>6. WaitsOnCurrent'
  BY <1>1 DEF IInv, WaitsOnCurrent
<1>7. ShutOnlyByOwner' /\ OneMaintenance'
  BY <1>1 DEF IInv, ShutOnlyByOwner, OneMaintenance
<1>8. ExclusiveWhileGranted'
  BY <1>1, <1>3 DEF ExclusiveWhileGranted
<1> QED
  BY <1>4, <1>5, <1>6, <1>7, <1>8 DEF IInv

\* Giving up and ending both open the gate and leave no other owner behind.
LEMMA ReopenIInv ==
  ASSUME IInv, NEW o \in Owners, Abort(o) \/ End(o)
  PROVE  IInv'
<1>1. /\ phase \in [Owners -> {"idle", "draining", "granted"}]
      /\ phase[o] # "idle"
      /\ phase' = [phase EXCEPT ![o] = "idle"]
      /\ active' = FALSE
      /\ serving' = serving
      /\ zero' = zero
      /\ UNCHANGED <<inFlight, zero, closed, serving>>
  BY DEF IInv, TypeOK, Abort, End
<1>2. \A p \in Owners : phase'[p] = "idle"
  BY <1>1 DEF IInv, OneMaintenance
<1>3. TypeOK'
  BY <1>1 DEF IInv, TypeOK, Abort, End
<1>4. CountsServing' /\ ClosedAtZero'
  BY <1>1, OwnerKeepsCount
<1>5. WaitsOnCurrent' /\ ShutOnlyByOwner' /\ OneMaintenance' /\ ExclusiveWhileGranted'
  BY <1>1, <1>2 DEF WaitsOnCurrent, ShutOnlyByOwner, OneMaintenance, ExclusiveWhileGranted
<1> QED
  BY <1>3, <1>4, <1>5 DEF IInv

\* A context that ends changes nothing the controller can see.
LEMMA ExpireIInv == ASSUME IInv, NEW o \in Owners, Expire(o) PROVE IInv'
<1>1. CountsServing' /\ ClosedAtZero'
  BY OwnerKeepsCount DEF Expire
<1> QED
  BY <1>1 DEF IInv, TypeOK, WaitsOnCurrent, ShutOnlyByOwner, OneMaintenance,
              ExclusiveWhileGranted, Expire

LEMMA StutterIInv == ASSUME IInv, UNCHANGED vars PROVE IInv'
BY DEF IInv, vars, TypeOK, CountsServing, ClosedAtZero, WaitsOnCurrent,
       ShutOnlyByOwner, OneMaintenance, ExclusiveWhileGranted

\* The strengthened invariant is preserved by every step of the controller.
LEMMA NextIInv == IInv /\ [Next]_vars => IInv'
<1> SUFFICES ASSUME IInv, [Next]_vars PROVE IInv'
  OBVIOUS
<1>1. ASSUME NEW r \in Requests, Enter(r) PROVE IInv'
  BY <1>1, EnterIInv
<1>2. ASSUME NEW r \in Requests, Leave(r) PROVE IInv'
  BY <1>2, LeaveIInv
<1>3. ASSUME NEW o \in Owners, Begin(o) PROVE IInv'
  BY <1>3, BeginIInv
<1>4. ASSUME NEW o \in Owners, Granted(o) PROVE IInv'
  BY <1>4, GrantedIInv
<1>5. ASSUME NEW o \in Owners, Expire(o) PROVE IInv'
  BY <1>5, ExpireIInv
<1>6. ASSUME NEW o \in Owners, Abort(o) \/ End(o) PROVE IInv'
  BY <1>6, ReopenIInv
<1>7. CASE UNCHANGED vars
  BY <1>7, StutterIInv
<1> QED
  BY <1>1, <1>2, <1>3, <1>4, <1>5, <1>6, <1>7 DEF Next

LEMMA SpecIInv == Spec => []IInv
BY InitIInv, NextIInv, PTL DEF Spec

-----------------------------------------------------------------------------
\* Type correctness holds in every reachable state of the controller.
THEOREM TypeCorrect == Spec => []TypeOK
<1>1. IInv => TypeOK
  BY DEF IInv
<1> QED
  BY <1>1, SpecIInv, PTL

\* A collection, removal or backup that was granted maintenance never runs
\* beside a counted request, however many requests, owners and channels.
THEOREM Exclusion == Spec => []ExclusiveWhileGranted
<1>1. IInv => ExclusiveWhileGranted
  BY DEF IInv
<1> QED
  BY <1>1, SpecIInv, PTL

\* Two maintenance operations never overlap.
THEOREM SingleMaintenance == Spec => []OneMaintenance
<1>1. IInv => OneMaintenance
  BY DEF IInv
<1> QED
  BY <1>1, SpecIInv, PTL

\* The gate is shut exactly while an operation drains or holds it: Begin that
\* gives up and the end function both reopen it, and nobody else's gate.
THEOREM GateHasAnOwner == Spec => []ShutOnlyByOwner
<1>1. IInv => ShutOnlyByOwner
  BY DEF IInv
<1> QED
  BY <1>1, SpecIInv, PTL

\* Leave never closes a channel twice, which Go would answer with a panic.
THEOREM NoDoubleClose == Spec => []CloseIsSafe
<1>1. IInv => CloseIsSafe
  BY FS_EmptySet DEF IInv, CloseIsSafe, CountsServing, ClosedAtZero
<1> QED
  BY <1>1, SpecIInv, PTL
-----------------------------------------------------------------------------
(***************************************************************************)
(* The refinement of ExclusiveGate.                                        *)
(***************************************************************************)
\* The owner that is not idle is the one the abstract gate was shut by.
LEMMA ClosedByOwner ==
  ASSUME IInv, NEW o \in Owners, phase[o] # "idle"
  PROVE  ClosedBy = o
BY DEF IInv, OneMaintenance, ClosedBy

LEMMA ClosedByNobody ==
  ASSUME \A o \in Owners : phase[o] = "idle"
  PROVE  ClosedBy = Nobody
BY DEF ClosedBy

LEMMA ClosedByUnchanged == ASSUME UNCHANGED phase PROVE ClosedBy' = ClosedBy
BY DEF ClosedBy

\* The fresh controller is the fresh gate.
LEMMA InitGate == Init => Gate!GateInit
BY ClosedByNobody DEF Init, Gate!GateInit

\* Every step of the controller is a step of the gate or changes nothing there.
LEMMA GateStep ==
  ASSUME IInv, IInv', [Next]_vars
  PROVE  [Gate!GateNext]_(Gate!gateVars)
<1> USE DEF Gate!GateNext, Gate!gateVars
<1>1. ASSUME NEW r \in Requests, Enter(r) PROVE Gate!Admit(r)
  <2>1. \A o \in Owners : phase[o] = "idle"
    BY <1>1 DEF IInv, ShutOnlyByOwner, Enter
  <2>2. UNCHANGED phase /\ serving' = serving \cup {r}
    BY <1>1 DEF Enter
  <2> QED
    BY <2>1, <2>2, ClosedByNobody, ClosedByUnchanged DEF Gate!Admit
<1>2. ASSUME NEW r \in Requests, Leave(r) PROVE Gate!Depart(r)
  BY <1>2, ClosedByUnchanged DEF Leave, Gate!Depart
<1>3. ASSUME NEW o \in Owners, Begin(o) PROVE Gate!Shut(o)
  <2>1. \A p \in Owners : phase[p] = "idle"
    BY <1>3 DEF IInv, ShutOnlyByOwner, Begin
  <2>2. phase'[o] = "draining" /\ \A p \in Owners : phase'[p] # "granted"
    BY <1>3, <2>1 DEF IInv, TypeOK, Begin
  <2>3. ClosedBy' = o
    BY <2>2 DEF IInv, OneMaintenance, ClosedBy
  <2> QED
    BY <1>3, <2>1, <2>2, <2>3, ClosedByNobody DEF Begin, Gate!Shut
<1>4. ASSUME NEW o \in Owners, Granted(o) PROVE Gate!Grant(o)
  <2>1. phase[o] = "draining" /\ phase'[o] = "granted" /\ serving' = serving
    BY <1>4 DEF IInv, TypeOK, Granted
  <2>2. ClosedBy = o /\ ClosedBy' = o
    BY <2>1 DEF IInv, OneMaintenance, ClosedBy
  <2>3. serving' = {}
    BY <2>1 DEF IInv, ExclusiveWhileGranted
  <2> QED
    BY <2>1, <2>2, <2>3 DEF Gate!Grant
<1>5. ASSUME NEW o \in Owners, Expire(o) PROVE UNCHANGED Gate!gateVars
  BY <1>5, ClosedByUnchanged DEF Expire
<1>6. ASSUME NEW o \in Owners, Abort(o) \/ End(o) PROVE Gate!Reopen(o)
  <2>1. phase[o] # "idle" /\ phase' = [phase EXCEPT ![o] = "idle"] /\ serving' = serving
    BY <1>6 DEF Abort, End
  <2>2. \A p \in Owners : phase'[p] = "idle"
    BY <2>1 DEF IInv, TypeOK, OneMaintenance
  <2>3. ClosedBy = o
    BY <2>1, ClosedByOwner
  <2>4. ClosedBy' = Nobody
    BY <2>2 DEF ClosedBy
  <2> QED
    BY <2>1, <2>2, <2>3, <2>4 DEF Gate!Reopen
<1>7. CASE UNCHANGED vars
  BY <1>7, ClosedByUnchanged DEF vars
<1> QED
  BY <1>1, <1>2, <1>3, <1>4, <1>5, <1>6, <1>7 DEF Next

\* The counter, the channel and the flag of the controller implement the
\* exclusive gate: a step of the code is a step of the gate or a stutter.
THEOREM RefinesGate == Spec => ImplementsGate
<1>1. Init => Gate!GateInit
  BY InitGate
<1>2. IInv /\ IInv' /\ [Next]_vars => [Gate!GateNext]_(Gate!gateVars)
  BY GateStep
<1> QED
  BY <1>1, <1>2, SpecIInv, PTL DEF Spec, ImplementsGate, Gate!GateSpec
=============================================================================
