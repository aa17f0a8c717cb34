------------------------ MODULE PlanComputationProofs ------------------------
(***************************************************************************)
(* deletionChildDigests finds the largest safe plan, for every inventory   *)
(* and every order in which its passes visit the closure.                  *)
(***************************************************************************)
EXTENDS PlanComputation, ManifestGraphProofs, TLAPS

\* The walk has put into the closure what it listed, and nothing it could
\* not reach.
WalkSound ==
  /\ target \in closure
  /\ closure \subseteq Descendants(inv, target)
  /\ phase = "discover" => closure = {ordered[i] : i \in 1 .. Len(ordered)}

\* What the walk has passed it has expanded.
WalkComplete ==
  phase = "discover" =>
    /\ index <= Len(ordered) + 1
    /\ column <= 1 \/ index <= Len(ordered)
    /\ \A k \in 1 .. index - 1 :
         ordered[k] \in DOMAIN inv => Children(inv, ordered[k]) \subseteq closure
    /\ index <= Len(ordered) =>
         \A j \in 1 .. column - 1 :
           j \in 1 .. Len(Platforms)
             => Platforms[j] = ordered[index] \/ Platforms[j] \in closure

\* Pruning never removes what a safe plan holds.
KeepsPlan == phase # "discover" => DeletionPlan(inv, target) \subseteq closure

\* While the pass removes nothing, what it visited can be removed together.
VisitedRemovable ==
  phase # "discover" /\ ~changed =>
    \A d \in closure \ (pending \cup {target}) : Removable(inv, d, closure)

Stopped == phase = "done" => pending = {} /\ ~changed

IInv ==
  /\ TypeOK
  /\ WalkSound
  /\ WalkComplete
  /\ KeepsPlan
  /\ VisitedRemovable
  /\ Stopped

-----------------------------------------------------------------------------
(***************************************************************************)
(* The invariant                                                           *)
(***************************************************************************)
LEMMA InitIInv == Init => IInv
<1> SUFFICES ASSUME Init PROVE IInv
  OBVIOUS
<1>1. PICK input \in Inputs : inv = input.inv /\ target = input.target
  BY DEF Init
<1>2. TypeOK
  <2>1. IsInventory(inv) /\ target \in Digests
    BY <1>1, InputsAssumption
  <2>2. ordered \in Seq(Digests)
    BY <2>1 DEF Init
  <2>3. changed \in BOOLEAN /\ phase \in {"discover", "prune", "done"}
    BY DEF Init
  <2>4. closure \subseteq Digests /\ pending \subseteq closure
    BY <2>1 DEF Init
  <2>5. index \in Nat \ {0} /\ column \in Nat \ {0}
    BY DEF Init
  <2> QED
    BY <2>1, <2>2, <2>3, <2>4, <2>5 DEF TypeOK
<1>3. WalkSound
  <2>1. target \in Descendants(inv, target)
    BY <1>2 DEF Descendants, TypeOK
  <2> QED
    BY <2>1 DEF Init, WalkSound
<1>4. WalkComplete
  BY DEF Init, WalkComplete
<1> QED
  BY <1>2, <1>3, <1>4 DEF Init, IInv, KeepsPlan, VisitedRemovable, Stopped

LEMMA LookAtPlatformIInv == IInv /\ LookAtPlatform => IInv'
<1> SUFFICES ASSUME IInv, LookAtPlatform PROVE IInv'
  OBVIOUS
<1> DEFINE d == Platforms[column]
           here == ordered[index]
<1> USE DEF IInv
<1>1. /\ here \in DOMAIN inv
      /\ Platforms = inv[here].platforms
      /\ Platforms \in Seq(Digests)
      /\ d \in Digests
      /\ here \in closure
      /\ d \in PlatformSet(inv[here])
  <2>1. here \in DOMAIN inv /\ Platforms = inv[here].platforms
    BY DEF LookAtPlatform, Platforms, TypeOK
  <2>2. Platforms \in Seq(Digests)
    BY <2>1 DEF TypeOK, IsInventory, Rows
  <2>3. here \in closure
    BY DEF LookAtPlatform, WalkSound, TypeOK
  <2>4. column \in DOMAIN Platforms
    BY <2>2 DEF LookAtPlatform, TypeOK
  <2> QED
    BY <2>1, <2>2, <2>3, <2>4 DEF PlatformSet
<1>2. CASE d = here \/ d \in closure
  <2>1. UNCHANGED <<inv, target, ordered, closure, index, pending, changed, phase>>
    BY <1>2 DEF LookAtPlatform
  <2>2. TypeOK'
    BY <2>1 DEF LookAtPlatform, TypeOK
  <2>3. WalkComplete'
    BY <2>1, <1>2, <1>1 DEF LookAtPlatform, WalkComplete, Platforms, TypeOK
  <2> QED
    BY <2>1, <2>2, <2>3 DEF WalkSound, KeepsPlan, VisitedRemovable, Stopped
<1>3. CASE d # here /\ d \notin closure
  <2>1. ordered' = Append(ordered, d) /\ closure' = closure \cup {d}
    BY <1>3 DEF LookAtPlatform
  <2>2. TypeOK'
    BY <2>1, <1>1 DEF LookAtPlatform, TypeOK
  <2>3. WalkSound'
    <3>1. d \in Children(inv, here)
      BY <1>1, <1>3 DEF Children
    <3>2. d \in Descendants(inv, target)
      BY <1>1, <3>1, DescendantsClosed DEF TypeOK, WalkSound
    <3>3. closure' = {ordered'[i] : i \in 1 .. Len(ordered')}
      <4>1. closure = {ordered[i] : i \in 1 .. Len(ordered)}
        BY DEF LookAtPlatform, WalkSound
      <4>2. /\ Len(ordered') = Len(ordered) + 1
            /\ ordered'[Len(ordered) + 1] = d
            /\ \A i \in 1 .. Len(ordered) : ordered'[i] = ordered[i]
        BY <2>1, <1>1 DEF TypeOK
      <4>3. Len(ordered) \in Nat
        BY DEF TypeOK
      <4>4. 1 .. Len(ordered') = (1 .. Len(ordered)) \cup {Len(ordered) + 1}
        BY <4>2, <4>3
      <4> QED
        BY <2>1, <4>1, <4>2, <4>4
    <3> QED
      BY <2>1, <3>2, <3>3 DEF LookAtPlatform, WalkSound
  <2>4. WalkComplete'
    <3>1. \A k \in 1 .. index : ordered'[k] = ordered[k]
      BY <2>1, <1>1 DEF LookAtPlatform, TypeOK
    <3>2. Len(ordered') = Len(ordered) + 1 /\ index' = index /\ column' = column + 1
      BY <2>1, <1>1 DEF LookAtPlatform, TypeOK
    <3>3. Platforms' = Platforms
      BY <3>1, <3>2 DEF LookAtPlatform, Platforms, TypeOK
    <3>4. \A j \in 1 .. column' - 1 :
            j \in 1 .. Len(Platforms)
              => Platforms[j] = ordered[index] \/ Platforms[j] \in closure'
      BY <2>1, <3>2 DEF LookAtPlatform, WalkComplete, TypeOK
    <3>5. \A k \in 1 .. index - 1 :
            ordered'[k] \in DOMAIN inv => Children(inv, ordered'[k]) \subseteq closure'
      BY <2>1, <3>1 DEF LookAtPlatform, WalkComplete, TypeOK
    <3> QED
      BY <3>1, <3>2, <3>3, <3>4, <3>5 DEF LookAtPlatform, WalkComplete, TypeOK
  <2> QED
    BY <2>2, <2>3, <2>4 DEF LookAtPlatform, KeepsPlan, VisitedRemovable, Stopped
<1> QED
  BY <1>2, <1>3

LEMMA NextInWorklistIInv == IInv /\ NextInWorklist => IInv'
<1> SUFFICES ASSUME IInv, NextInWorklist PROVE IInv'
  OBVIOUS
<1> USE DEF IInv
<1>1. TypeOK'
  BY DEF NextInWorklist, TypeOK
<1>2. ordered[index] \in DOMAIN inv => Children(inv, ordered[index]) \subseteq closure
  <2> SUFFICES ASSUME ordered[index] \in DOMAIN inv,
                      NEW c \in Children(inv, ordered[index])
               PROVE  c \in closure
    OBVIOUS
  <2>1. Platforms = inv[ordered[index]].platforms /\ Platforms \in Seq(Digests)
    BY DEF Platforms, TypeOK, IsInventory, Rows
  <2>2. PICK j \in 1 .. Len(Platforms) : c = Platforms[j]
    BY <2>1 DEF Children, PlatformSet
  <2> QED
    BY <2>1, <2>2 DEF NextInWorklist, WalkComplete, Children, TypeOK
<1>3. WalkComplete'
  BY <1>2 DEF NextInWorklist, WalkComplete, TypeOK
<1> QED
  BY <1>1, <1>3 DEF NextInWorklist, WalkSound, KeepsPlan, VisitedRemovable, Stopped

LEMMA StartPruningIInv == IInv /\ StartPruning => IInv'
<1> SUFFICES ASSUME IInv, StartPruning PROVE IInv'
  OBVIOUS
<1> USE DEF IInv
<1>1. TypeOK'
  BY DEF StartPruning, TypeOK
<1>2. ClosedUnderChildren(inv, closure)
  BY DEF StartPruning, WalkSound, WalkComplete, ClosedUnderChildren, TypeOK
<1>3. Descendants(inv, target) \subseteq closure
  BY <1>2, DescendantsLeast DEF TypeOK, WalkSound
<1>4. DeletionPlan(inv, target) \subseteq closure
  BY <1>3 DEF DeletionPlan, SafePlans
<1> QED
  BY <1>1, <1>4
     DEF StartPruning, WalkSound, WalkComplete, KeepsPlan, VisitedRemovable, Stopped

LEMMA VisitIInv == ASSUME NEW d \in Digests, IInv, Visit(d) PROVE IInv'
<1> USE DEF IInv
<1>1. TypeOK'
  BY DEF Visit, TypeOK
<1>2. CASE d = target \/ Removable(inv, d, closure)
  BY <1>1, <1>2 DEF Visit, TypeOK, WalkSound, WalkComplete, KeepsPlan, VisitedRemovable, Stopped
<1>3. CASE d # target /\ ~Removable(inv, d, closure)
  <2>1. closure' = closure \ {d} /\ changed' = TRUE /\ phase' = "prune"
    BY <1>3 DEF Visit
  <2>2. d \notin DeletionPlan(inv, target)
    <3> SUFFICES ASSUME d \in DeletionPlan(inv, target) PROVE FALSE
      OBVIOUS
    <3>1. Removable(inv, d, DeletionPlan(inv, target) \cup {target})
      BY PlanIsSafe
    <3>2. DeletionPlan(inv, target) \cup {target} \subseteq closure
      BY DEF Visit, KeepsPlan, WalkSound
    <3> QED
      BY <1>3, <3>1, <3>2, RemovableMonotone
  <2> QED
    BY <1>1, <1>3, <2>1, <2>2
       DEF Visit, WalkSound, WalkComplete, KeepsPlan, VisitedRemovable, Stopped
<1> QED
  BY <1>2, <1>3

LEMMA EndPassIInv == IInv /\ EndPass => IInv'
<1> SUFFICES ASSUME IInv, EndPass PROVE IInv'
  OBVIOUS
<1> USE DEF IInv
<1>1. TypeOK'
  BY DEF EndPass, TypeOK
<1>2. CASE changed
  BY <1>1, <1>2
     DEF EndPass, WalkSound, WalkComplete, KeepsPlan, VisitedRemovable, Stopped
<1>3. CASE ~changed
  BY <1>1, <1>3
     DEF EndPass, WalkSound, WalkComplete, KeepsPlan, VisitedRemovable, Stopped
<1> QED
  BY <1>2, <1>3

LEMMA StutterIInv == IInv /\ UNCHANGED vars => IInv'
BY DEF vars, IInv, TypeOK, WalkSound, WalkComplete, Platforms, KeepsPlan,
       VisitedRemovable, Stopped

LEMMA NextIInv == IInv /\ [Next]_vars => IInv'
BY LookAtPlatformIInv, NextInWorklistIInv, StartPruningIInv, VisitIInv, EndPassIInv,
   StutterIInv DEF Next

LEMMA Inductive == Spec => []IInv
BY InitIInv, NextIInv, PTL DEF Spec

-----------------------------------------------------------------------------
(***************************************************************************)
(* The order of the worklist                                               *)
(***************************************************************************)
\* The worklist is what Discovery has after as many steps: the walk up to the
\* position before this one, and the platforms looked at since.
AtStep ==
  LET before == Walk(inv, target)[index - 1]
  IN IF index > Len(ordered)
     THEN ordered = before
     ELSE /\ column - 1 \in 0 .. Len(Platforms)
          /\ index <= Len(before)
          /\ before[index] = ordered[index]
          /\ ordered = Found(before, Platforms)[column - 1]

InDiscoveryOrder ==
  /\ Distinct(ordered)
  /\ phase = "discover" => AtStep
  /\ phase # "discover" => ordered = Discovery(inv, target)

\* The position before the one being expanded is a step of the walk.
LEMMA StepOfWalk ==
  ASSUME IInv, InDiscoveryOrder, phase = "discover"
  PROVE  /\ index - 1 \in 0 .. Cardinality(Digests)
         /\ index <= Len(ordered) => index \in 1 .. Cardinality(Digests)
         /\ Walk(inv, target)[index - 1] \in Seq(Digests)
<1>1. Len(ordered) \in Nat /\ Len(ordered) <= Cardinality(Digests)
  BY DistinctBounded DEF IInv, TypeOK, InDiscoveryOrder
<1>2. index \in Nat \ {0} /\ index <= Len(ordered) + 1
  BY DEF IInv, TypeOK, WalkComplete
<1>3. /\ Cardinality(Digests) \in Nat
      /\ Walk(inv, target) \in [0 .. Cardinality(Digests) -> Seq(Digests)]
  BY WalkFacts DEF IInv, TypeOK
<1>4. index - 1 \in 0 .. Cardinality(Digests)
  BY <1>1, <1>2, <1>3
<1> QED
  BY <1>1, <1>2, <1>3, <1>4

LEMMA InitOrder == Init => InDiscoveryOrder
<1> SUFFICES ASSUME Init PROVE InDiscoveryOrder
  OBVIOUS
<1>1. IInv
  BY InitIInv
<1>2. Distinct(ordered)
  BY DEF Init, Distinct
<1>3. /\ IsInventory(inv) /\ target \in Digests
      /\ ordered = <<target>> /\ index = 1 /\ column = 1
  BY <1>1 DEF IInv, Init, TypeOK
<1>4. <<target>> \in Seq(Digests) /\ Len(<<target>>) = 1
  BY <1>3
<1>5. Platforms \in Seq(Digests)
  BY <1>3 DEF Platforms, IsInventory, Rows
<1>6. Walk(inv, target)[index - 1] = <<target>>
  <2>1. Walk(inv, target)[0] = <<target>>
    BY <1>3, WalkFacts
  <2> QED
    BY <1>3, <2>1
<1>7. Found(<<target>>, Platforms)[column - 1] = <<target>>
  <2>1. Found(<<target>>, Platforms)[0] = <<target>>
    BY <1>4, <1>5, FoundFacts
  <2> QED
    BY <1>3, <2>1
<1>8. column - 1 \in 0 .. Len(Platforms) /\ index <= 1
  BY <1>3, <1>5
<1>9. AtStep
  BY <1>3, <1>4, <1>6, <1>7, <1>8 DEF AtStep
<1> QED
  BY <1>2, <1>9 DEF Init, InDiscoveryOrder

LEMMA LookAtPlatformOrder ==
  ASSUME IInv, InDiscoveryOrder, LookAtPlatform PROVE InDiscoveryOrder'
<1> DEFINE d == Platforms[column]
           here == ordered[index]
           before == Walk(inv, target)[index - 1]
           f == Found(before, Platforms)
<1>1. /\ phase = "discover" /\ index <= Len(ordered) /\ column <= Len(Platforms)
      /\ ordered' = IF d = here \/ d \in closure THEN ordered ELSE Append(ordered, d)
      /\ column' = column + 1
      /\ UNCHANGED <<inv, target, index, phase>>
  BY DEF LookAtPlatform
<1>2. /\ ordered \in Seq(Digests) /\ index \in Nat \ {0} /\ column \in Nat \ {0}
      /\ closure = {ordered[i] : i \in 1 .. Len(ordered)}
  BY <1>1 DEF IInv, TypeOK, WalkSound
<1>3. Platforms \in Seq(Digests)
  BY DEF IInv, TypeOK, Platforms, IsInventory, Rows
<1>4. column \in 1 .. Len(Platforms) /\ d \in Digests
  BY <1>1, <1>2, <1>3
<1>5. InSeq(d, ordered) <=> d = here \/ d \in closure
  BY <1>1, <1>2 DEF InSeq
<1>6. ordered' = IF InSeq(d, ordered) THEN ordered ELSE Append(ordered, d)
  BY <1>1, <1>5
<1>7. /\ ordered' \in Seq(Digests)
      /\ Len(ordered) <= Len(ordered')
      /\ \A i \in 1 .. Len(ordered) : ordered'[i] = ordered[i]
      /\ Distinct(ordered')
  <2>1. CASE InSeq(d, ordered)
    BY <1>2, <1>6, <2>1 DEF InDiscoveryOrder
  <2>2. CASE ~InSeq(d, ordered)
    BY <1>2, <1>4, <1>6, <2>2, AppendFacts DEF InDiscoveryOrder
  <2> QED
    BY <2>1, <2>2
<1>8. index' <= Len(ordered') /\ ordered'[index'] = ordered[index]
  BY <1>1, <1>2, <1>7
<1>9. Platforms' = Platforms
  BY <1>1, <1>8 DEF Platforms
<1>10. /\ ordered = f[column - 1]
       /\ index <= Len(before) /\ before[index] = ordered[index]
  BY <1>1, <1>2 DEF InDiscoveryOrder, AtStep
<1>11. f[column] = IF InSeq(d, f[column - 1]) THEN f[column - 1]
                   ELSE Append(f[column - 1], d)
  BY <1>1, <1>3, <1>4, StepOfWalk, FoundFacts
<1>12. ordered' = f[column]
  BY <1>6, <1>10, <1>11
<1>13. column' - 1 = column
  BY <1>1, <1>2
<1>14. before' = before
  BY <1>1
<1>15. AtStep'
  <2>1. ~(index' > Len(ordered'))
    BY <1>1, <1>2, <1>7, <1>8
  <2>2. column' - 1 \in 0 .. Len(Platforms')
    BY <1>4, <1>9, <1>13
  <2>3. index' <= Len(before') /\ before'[index'] = ordered'[index']
    BY <1>1, <1>8, <1>10, <1>14
  <2>4. ordered' = Found(before', Platforms')[column' - 1]
    BY <1>9, <1>12, <1>13, <1>14
  <2> QED
    BY <2>1, <2>2, <2>3, <2>4 DEF AtStep
<1> QED
  BY <1>1, <1>7, <1>15 DEF InDiscoveryOrder

LEMMA NextInWorklistOrder ==
  ASSUME IInv, InDiscoveryOrder, NextInWorklist PROVE InDiscoveryOrder'
<1> DEFINE before == Walk(inv, target)[index - 1]
<1>1. /\ phase = "discover" /\ index <= Len(ordered) /\ column > Len(Platforms)
      /\ index' = index + 1 /\ column' = 1
      /\ UNCHANGED <<inv, target, ordered, phase>>
  BY DEF NextInWorklist
<1>2. /\ ordered \in Seq(Digests) /\ index \in Nat \ {0} /\ column \in Nat \ {0}
      /\ Platforms \in Seq(Digests) /\ IsInventory(inv) /\ target \in Digests
  BY DEF IInv, TypeOK, Platforms, IsInventory, Rows
<1>3. /\ before \in Seq(Digests)
      /\ index \in 1 .. Cardinality(Digests)
  BY <1>1, StepOfWalk
<1>4. /\ column - 1 \in 0 .. Len(Platforms)
      /\ index <= Len(before) /\ before[index] = ordered[index]
      /\ ordered = Found(before, Platforms)[column - 1]
  BY <1>1, <1>2 DEF InDiscoveryOrder, AtStep
<1>5. column - 1 = Len(Platforms)
  BY <1>1, <1>2, <1>4
<1>6. ordered = AppendNew(before, Platforms)
  BY <1>2, <1>3, <1>4, <1>5, FoundFacts
<1>7. Walk(inv, target)[index] =
        IF index > Len(before) \/ before[index] \notin DOMAIN inv THEN before
        ELSE AppendNew(before, inv[before[index]].platforms)
  BY <1>2, <1>3, WalkFacts
<1>8. ordered = Walk(inv, target)[index]
  <2>1. CASE ordered[index] \in DOMAIN inv
    <3>1. Platforms = inv[before[index]].platforms
      BY <1>4, <2>1 DEF Platforms
    <3>2. ~(index > Len(before))
      BY <1>2, <1>3, <1>4
    <3> QED
      BY <1>4, <1>6, <1>7, <2>1, <3>1, <3>2
  <2>2. CASE ordered[index] \notin DOMAIN inv
    <3>1. Platforms = <<>>
      BY <2>2 DEF Platforms
    <3>2. column - 1 = 0
      BY <1>5, <3>1
    <3>3. Found(before, Platforms)[0] = before
      BY <1>2, <1>3, FoundFacts
    <3> QED
      BY <1>4, <1>7, <2>2, <3>2, <3>3
  <2> QED
    BY <2>1, <2>2
<1>9. index' - 1 = index /\ before' = Walk(inv, target)[index]
  BY <1>1, <1>2
<1>10. AtStep'
  <2>1. CASE index' > Len(ordered)
    BY <1>1, <1>8, <1>9, <2>1 DEF AtStep
  <2>2. CASE ~(index' > Len(ordered))
    <3>1. Platforms' \in Seq(Digests)
      BY <1>1, <1>2 DEF Platforms, IsInventory, Rows
    <3>2. Found(ordered, Platforms')[0] = ordered
      BY <1>2, <3>1, FoundFacts
    <3>3. column' - 1 = 0 /\ 0 \in 0 .. Len(Platforms')
      BY <1>1, <3>1
    <3>4. index' <= Len(ordered)
      BY <1>1, <1>2, <2>2
    <3> QED
      BY <1>1, <1>8, <1>9, <2>2, <3>2, <3>3, <3>4 DEF AtStep
  <2> QED
    BY <2>1, <2>2
<1> QED
  BY <1>1, <1>10 DEF InDiscoveryOrder

LEMMA StartPruningOrder ==
  ASSUME IInv, InDiscoveryOrder, StartPruning PROVE InDiscoveryOrder'
<1>1. /\ phase = "discover" /\ index > Len(ordered) /\ phase' = "prune"
      /\ UNCHANGED <<inv, target, ordered>>
  BY DEF StartPruning
<1>2. /\ ordered \in Seq(Digests) /\ index \in Nat \ {0}
      /\ index <= Len(ordered) + 1 /\ IsInventory(inv) /\ target \in Digests
  BY <1>1 DEF IInv, TypeOK, WalkComplete
<1>3. ordered = Walk(inv, target)[index - 1]
  BY <1>1 DEF InDiscoveryOrder, AtStep
<1>4. Len(ordered) <= index - 1
  BY <1>1, <1>2
<1>5. index - 1 \in 0 .. Cardinality(Digests)
  BY <1>1, StepOfWalk
<1>6. ordered = Discovery(inv, target)
  BY <1>2, <1>3, <1>4, <1>5, WalkEnds
<1> QED
  BY <1>1, <1>6 DEF InDiscoveryOrder

LEMMA NextOrder == IInv /\ InDiscoveryOrder /\ [Next]_vars => InDiscoveryOrder'
<1> SUFFICES ASSUME IInv, InDiscoveryOrder, [Next]_vars PROVE InDiscoveryOrder'
  OBVIOUS
<1>1. CASE LookAtPlatform \/ NextInWorklist \/ StartPruning
  BY <1>1, LookAtPlatformOrder, NextInWorklistOrder, StartPruningOrder
<1>2. CASE EndPass \/ \E d \in Digests : Visit(d)
  <2>1. phase # "discover" /\ phase' # "discover" /\ UNCHANGED <<inv, target, ordered>>
    BY <1>2 DEF EndPass, Visit
  <2> QED
    BY <2>1 DEF InDiscoveryOrder
<1>3. CASE UNCHANGED vars
  BY <1>3 DEF vars, InDiscoveryOrder, AtStep, Platforms
<1> QED
  BY <1>1, <1>2, <1>3 DEF Next

LEMMA OrderInductive == Spec => []InDiscoveryOrder
BY Inductive, InitOrder, NextOrder, PTL DEF Spec

-----------------------------------------------------------------------------
(***************************************************************************)
(* Theorems                                                                *)
(***************************************************************************)
LEMMA StoppedAtPlan == IInv => PruningFindsPlan
<1> SUFFICES ASSUME IInv, phase = "done"
             PROVE  closure = DeletionPlan(inv, target) \cup {target}
  BY DEF PruningFindsPlan
<1> DEFINE rest == closure \ {target}
<1>1. rest \subseteq Descendants(inv, target) \ {target}
  BY DEF IInv, WalkSound
<1>2. rest \cup {target} = closure
  BY DEF IInv, WalkSound
<1>3. \A d \in rest : Removable(inv, d, rest \cup {target})
  BY <1>2 DEF IInv, VisitedRemovable, Stopped
<1>4. rest \subseteq DeletionPlan(inv, target)
  BY <1>1, <1>3, SafeIsPlanned
<1>5. DeletionPlan(inv, target) \subseteq closure
  BY DEF IInv, KeepsPlan
<1> QED
  BY <1>2, <1>4, <1>5

\* deletionChildDigests types: the closure and the worklist hold digests and
\* a pass never ranges over what was removed.
THEOREM ComputationTypeCorrect == Spec => []TypeOK
BY Inductive, PTL DEF IInv

\* However Go orders its map, the pruned closure is the largest safe plan
\* and the target, for every inventory (manifest_deletion.go:37-52).
THEOREM PruningIsExact == Spec => []PruningFindsPlan
BY Inductive, StoppedAtPlan, PTL

\* Whatever order the map is ranged over, the sequence that is returned is a
\* function of the inventory (manifest_deletion.go:54-60): the preview and
\* the execution may compare theirs.
THEOREM OrderIsDetermined == Spec => []ResultIsDetermined
<1>1. ASSUME IInv, InDiscoveryOrder PROVE ResultIsDetermined
  <2> SUFFICES ASSUME phase = "done" PROVE Result = PlannedChildren(inv, target)
    BY DEF ResultIsDetermined
  <2>1. closure = DeletionPlan(inv, target) \cup {target}
    BY <1>1, StoppedAtPlan DEF PruningFindsPlan
  <2>2. ordered = Discovery(inv, target)
    BY <1>1 DEF InDiscoveryOrder
  <2> QED
    BY <2>1, <2>2 DEF Result, PlannedChildren
<1> QED
  BY Inductive, OrderInductive, <1>1, PTL

\* A deletion of what is planned leaves every live index outside of it with
\* all its manifests, and takes no child that has a tag or a referrer
\* (manifest_deletion.go:41-50 and 63-85).
THEOREM OthersStayWhole == Spec => []PlanKeepsOthersWhole
<1>1. ASSUME IInv PROVE PlanKeepsOthersWhole
  <2> SUFFICES ASSUME phase = "done", NEW d \in closure \ {target}
               PROVE  /\ ~inv[d].tagged
                      /\ \A m \in DOMAIN inv \ closure :
                           ~IsHistory(inv[m])
                             => d \notin PlatformSet(inv[m]) \cup {inv[m].subject}
    BY DEF PlanKeepsOthersWhole
  <2>1. Removable(inv, d, closure)
    BY <1>1 DEF IInv, VisitedRemovable, Stopped
  <2> QED
    BY <2>1 DEF Removable, HasExternalReference
<1> QED
  BY Inductive, <1>1, PTL
=============================================================================
