--------------------------- MODULE PlanComputation ---------------------------
(***************************************************************************)
(* deletionChildDigests of                                                 *)
(* backend/internal/registry/application/manifest_deletion.go, loop by     *)
(* loop.  It walks the platform rows from the target, then prunes what may *)
(* not be deleted until a whole pass removes nothing.  A pass ranges over  *)
(* a Go map while it deletes from it: the order of a pass is any order,    *)
(* and the references of a digest are counted against the set as it is by  *)
(* then.  ManifestGraph says what the result should be.                    *)
(***************************************************************************)
EXTENDS ManifestGraph

CONSTANT Inputs  \* the [inv, target] pairs the function is called with

ASSUME InputsAssumption ==
  \A input \in Inputs : IsInventory(input.inv) /\ input.target \in Digests

VARIABLES inv,      \* byDigest
          target,   \* targetDigest
          ordered,  \* the worklist
          closure,  \* the set being pruned, target included
          index,    \* the worklist position being expanded
          column,   \* the platform row of that position being looked at
          pending,  \* digests the current pass has still to visit
          changed,  \* whether the current pass removed something
          phase     \* "discover", "prune" or "done"

vars == <<inv, target, ordered, closure, index, column, pending, changed, phase>>

TypeOK ==
  /\ IsInventory(inv)
  /\ target \in Digests
  /\ ordered \in Seq(Digests)
  /\ closure \subseteq Digests
  /\ index \in Nat \ {0}
  /\ column \in Nat \ {0}
  /\ pending \subseteq closure
  /\ changed \in BOOLEAN
  /\ phase \in {"discover", "prune", "done"}

Init ==
  /\ \E input \in Inputs : inv = input.inv /\ target = input.target
  /\ ordered = <<target>>
  /\ closure = {target}
  /\ index = 1
  /\ column = 1
  /\ pending = {}
  /\ changed = FALSE
  /\ phase = "discover"

\* The platform rows of the worklist position being expanded.
Platforms == IF ordered[index] \in DOMAIN inv
             THEN inv[ordered[index]].platforms
             ELSE <<>>

\* Fault: a digest found twice is listed twice.
LookAtPlatformAgain ==
  /\ phase = "discover"
  /\ index <= Len(ordered)
  /\ column <= Len(Platforms)
  /\ LET d == Platforms[column]
     IN /\ ordered' = IF d = ordered[index] THEN ordered ELSE Append(ordered, d)
        /\ closure' = closure \cup {d}
  /\ column' = column + 1
  /\ UNCHANGED <<inv, target, index, pending, changed, phase>>

LookAtPlatform ==
  /\ phase = "discover"
  /\ index <= Len(ordered)
  /\ column <= Len(Platforms)
  /\ LET d == Platforms[column]
     IN IF d = ordered[index] \/ d \in closure
        THEN UNCHANGED <<ordered, closure>>
        ELSE /\ ordered' = Append(ordered, d)
             /\ closure' = closure \cup {d}
  /\ column' = column + 1
  /\ UNCHANGED <<inv, target, index, pending, changed, phase>>

NextInWorklist ==
  /\ phase = "discover"
  /\ index <= Len(ordered)
  /\ column > Len(Platforms)
  /\ index' = index + 1
  /\ column' = 1
  /\ UNCHANGED <<inv, target, ordered, closure, pending, changed, phase>>

StartPruning ==
  /\ phase = "discover"
  /\ index > Len(ordered)
  /\ phase' = "prune"
  /\ pending' = closure
  /\ changed' = FALSE
  /\ UNCHANGED <<inv, target, ordered, closure, index, column>>

\* Fault: what was removed stays in the range.
VisitAndStay(d) ==
  /\ phase = "prune"
  /\ d \in pending
  /\ UNCHANGED pending
  /\ IF d = target \/ Removable(inv, d, closure)
     THEN UNCHANGED <<closure, changed>>
     ELSE closure' = closure \ {d} /\ changed' = TRUE
  /\ UNCHANGED <<inv, target, ordered, index, column, phase>>

\* Fault: only the digest's own row is looked at.
VisitOwnRow(d) ==
  /\ phase = "prune"
  /\ d \in pending
  /\ pending' = pending \ {d}
  /\ IF d = target \/ (d \in DOMAIN inv /\ ~IsHistory(inv[d]) /\ ~inv[d].tagged)
     THEN UNCHANGED <<closure, changed>>
     ELSE closure' = closure \ {d} /\ changed' = TRUE
  /\ UNCHANGED <<inv, target, ordered, index, column, phase>>

\* One turn of the range over the closure.
Visit(d) ==
  /\ phase = "prune"
  /\ d \in pending
  /\ pending' = pending \ {d}
  /\ IF d = target \/ Removable(inv, d, closure)
     THEN UNCHANGED <<closure, changed>>
     ELSE closure' = closure \ {d} /\ changed' = TRUE
  /\ UNCHANGED <<inv, target, ordered, index, column, phase>>

\* Fault: changed is not reset for the next pass.
EndPassStillChanged ==
  /\ phase = "prune"
  /\ pending = {}
  /\ IF changed
     THEN pending' = closure /\ UNCHANGED <<changed, phase>>
     ELSE phase' = "done" /\ UNCHANGED <<pending, changed>>
  /\ UNCHANGED <<inv, target, ordered, closure, index, column>>

EndPass ==
  /\ phase = "prune"
  /\ pending = {}
  /\ IF changed
     THEN pending' = closure /\ changed' = FALSE /\ UNCHANGED phase
     ELSE phase' = "done" /\ UNCHANGED <<pending, changed>>
  /\ UNCHANGED <<inv, target, ordered, closure, index, column>>

\* What the function returns.
Result == Within(Tail(ordered), closure)

Next == \/ LookAtPlatform
        \/ NextInWorklist
        \/ StartPruning
        \/ \E d \in Digests : Visit(d)
        \/ EndPass

Spec == Init /\ [][Next]_vars

\* The function runs to its end.
FairSpec == Spec /\ WF_vars(Next)

-----------------------------------------------------------------------------
(***************************************************************************)
(* Properties                                                              *)
(***************************************************************************)
\* Whatever order the map is ranged over, what is left when the loop stops
\* is the largest set that can go with the target: no child is planned that
\* something keeps, and none is left behind that nothing keeps.
PruningFindsPlan ==
  phase = "done" => closure = DeletionPlan(inv, target) \cup {target}

\* The same for the sequence that is returned: the preview and the execution
\* compare it element by element, so it depends on the inventory alone.
ResultIsDetermined ==
  phase = "done" => Result = PlannedChildren(inv, target)

\* A deletion of the planned children leaves every live index outside of it
\* with all its manifests, and no tag or referrer without its manifest.
PlanKeepsOthersWhole ==
  phase = "done" =>
    \A d \in closure \ {target} :
      /\ ~inv[d].tagged
      /\ \A m \in DOMAIN inv \ closure :
           ~IsHistory(inv[m]) => d \notin PlatformSet(inv[m]) \cup {inv[m].subject}

\* The function returns: the worklist and the passes both run out.
Terminates == <>(phase = "done")
=============================================================================
