---------------------------- MODULE ExclusiveGate ----------------------------
(***************************************************************************)
(* What the maintenance drain promises, with no counter and no channel:    *)
(* ordinary requests share the gate; one maintenance operation at a time   *)
(* may shut it, is granted exclusive use only once nobody is inside, and   *)
(* opens it again.  backend/internal/platform/maintenance implements it.   *)
(***************************************************************************)
EXTENDS Naturals

CONSTANTS Requests,  \* HTTP requests the gate counts
          Owners,    \* maintenance operations that ask for exclusive use
          Nobody     \* no maintenance operation

VARIABLES inside,    \* the requests being served behind the gate
          closer,    \* the operation that shut the gate, or Nobody
          exclusive  \* whether that operation was granted exclusive use

gateVars == <<inside, closer, exclusive>>

GateInit == inside = {} /\ closer = Nobody /\ exclusive = FALSE

Admit(r) == /\ closer = Nobody
            /\ inside' = inside \cup {r}
            /\ UNCHANGED <<closer, exclusive>>

Depart(r) == /\ r \in inside
             /\ inside' = inside \ {r}
             /\ UNCHANGED <<closer, exclusive>>

Shut(o) == /\ closer = Nobody
           /\ closer' = o
           /\ UNCHANGED <<inside, exclusive>>

Grant(o) == /\ closer = o
            /\ inside = {}
            /\ exclusive' = TRUE
            /\ UNCHANGED <<inside, closer>>

\* The operation finished, or gave up waiting for the gate to drain.
Reopen(o) == /\ closer = o
             /\ closer' = Nobody
             /\ exclusive' = FALSE
             /\ UNCHANGED inside

GateNext == \/ \E r \in Requests : Admit(r) \/ Depart(r)
            \/ \E o \in Owners : Shut(o) \/ Grant(o) \/ Reopen(o)

GateSpec == GateInit /\ [][GateNext]_gateVars
=============================================================================
